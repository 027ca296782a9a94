------------------------------- MODULE Workload -------------------------------
(***************************************************************************)
(* Job::getProcessLoad of src/MPI Self/Include/Job.hpp: the range of keys  *)
(* that each rank generates.                                               *)
(***************************************************************************)
EXTENDS Integers

numkeys(totalKeys, Size) == totalKeys \div Size

(* Mutants: the last rank is not given the remainder; the last key of a load  *)
(* is left out.                                                               *)
getProcessLoadNoRemainder(totalKeys, Size, rank) ==
  [offset |-> rank * numkeys(totalKeys, Size), keys |-> numkeys(totalKeys, Size)]
KeysOfExclusive(load) == load.offset .. load.offset + load.keys - 2

(* rank's offset and number of keys out of totalKeys, for Size processes *)
getProcessLoad(totalKeys, Size, rank) ==
  [offset |-> rank * numkeys(totalKeys, Size),
   keys   |-> IF rank = Size - 1 THEN totalKeys - rank * numkeys(totalKeys, Size)
              ELSE numkeys(totalKeys, Size)]

(* the keys that Generator::run makes of a load *)
KeysOf(load) == load.offset .. load.offset + load.keys - 1

(* The loads divide the keys: each one is generated by one rank, and no rank  *)
(* generates a key that does not exist, whatever remains of totalKeys / Size. *)
LoadsDivide(totalKeys, Size) ==
  /\ \A p \in 0 .. Size-1 : KeysOf(getProcessLoad(totalKeys, Size, p)) \subseteq 0 .. totalKeys-1
  /\ \A k \in 0 .. totalKeys-1 : \E p \in 0 .. Size-1 :
       /\ k \in KeysOf(getProcessLoad(totalKeys, Size, p))
       /\ \A q \in (0 .. Size-1) \ {p} : k \notin KeysOf(getProcessLoad(totalKeys, Size, q))
================================================================================
