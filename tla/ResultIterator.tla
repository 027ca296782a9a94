----------------------------- MODULE ResultIterator -----------------------------
(***************************************************************************)
(* in_memory::const_result_iterator (in_memory.hpp), with which Calculator *)
(* walks over the results of a job: it merges the std::maps of all         *)
(* partitions, each ordered by key, and walks through the list of values   *)
(* of every key.  CppPageRank assigns the i-th result to vertex i, so the  *)
(* order and the number of results decide whose rank is whose.             *)
(*                                                                         *)
(* A list is its length: the j-th value of a key is <<key, j>>.            *)
(***************************************************************************)
EXTENDS SequencesExt, FiniteSetsExt, Integers

CONSTANTS
  P,            \* num_partitions_
  End,          \* the end() of a map, no number
  Unspecified   \* what *list.end() reads

VARIABLES
  intermediates_,      \* outer_->intermediates_: partition |-> (key |-> length of its list)
  iterators,  \* iterators_: partition |-> the key it is at, or End
  current,    \* current_: [first |-> partition, second |-> position in the list]
  value,      \* value_
  pc,         \* what the caller does next
  results     \* history: the values the caller has read

vars == <<intermediates_, iterators, current, value, pc, results>>

Partitions == 0 .. P - 1

(* current_.first of end(): numeric_limits<size_t>::max() *)
NoPartition == P + 1

(* the key after the ones up to k in the map of a partition *)
NextKey(p, k) ==
  LET later == {q \in DOMAIN intermediates_[p] : q > k}
  IN  IF later = {} THEN End ELSE Min(later)

(* *second, for a list that may be empty after a failed emit *)
ValueAt(key, n, second) == <<key, IF second <= n THEN second ELSE Unspecified>>

(* The partition whose key is smallest, the first of them; P when all are at *)
(* their end.                                                                *)
Smallest(its) ==
  LET open == {p \in Partitions : its[p] # End}
  IN  IF open = {} THEN P
      ELSE CHOOSE p \in open : \A q \in open :
             its[p] < its[q] \/ (its[p] = its[q] /\ p <= q)

set_current(its) ==
  LET first == Smallest(its)
  IN  IF first = P
      THEN /\ current' = [first |-> NoPartition, second |-> 0]
           /\ value' = <<>>
           /\ pc' = "ended"
      ELSE /\ current' = [first |-> first, second |-> 1]
           /\ value' = ValueAt(its[first], intermediates_[first][its[first]], 1)
           /\ pc' = "read"

--------------------------------------------------------------------------------
(* Mutant of Increment: the list is left before its last value *)
IncrementEarly ==
  /\ pc = "increment"
  /\ LET p      == current.first
         second == current.second + 1
         length == intermediates_[p][iterators[p]]
     IN  IF second >= length
         THEN /\ iterators' = [iterators EXCEPT ![p] = NextKey(p, @)]
              /\ set_current(iterators')
         ELSE /\ current' = [current EXCEPT !.second = second]
              /\ value' = ValueAt(iterators[p], length, second)
              /\ pc' = "read"
              /\ UNCHANGED iterators
  /\ UNCHANGED <<intermediates_, results>>

--------------------------------------------------------------------------------
(* The store is the job's; a key is in one partition, and its list may be empty. *)
Init ==
  /\ iterators = [p \in Partitions |-> End]
  /\ current = [first |-> NoPartition, second |-> 0]
  /\ value = <<>>
  /\ pc = "begin"
  /\ results = <<>>

Begin ==
  /\ pc = "begin"
  /\ iterators' = [p \in Partitions |-> NextKey(p, -1)]
  /\ set_current(iterators')
  /\ UNCHANGED <<intermediates_, results>>

Dereference ==
  /\ pc = "read"
  /\ results' = Append(results, value)
  /\ pc' = "increment"
  /\ UNCHANGED <<intermediates_, iterators, current, value>>

(* ++second; at the end of the list the next key of the partition, and the    *)
(* smallest of all partitions' keys.  (Beyond the end of an empty list is its *)
(* end again: libstdc++'s list is a ring.)                                    *)
Increment ==
  /\ pc = "increment"
  /\ LET p      == current.first
         second == current.second + 1
         length == intermediates_[p][iterators[p]]
     IN  IF second > length
         THEN /\ iterators' = [iterators EXCEPT ![p] = NextKey(p, @)]
              /\ set_current(iterators')
         ELSE /\ current' = [current EXCEPT !.second = second]
              /\ value' = ValueAt(iterators[p], length, second)
              /\ pc' = "read"
              /\ UNCHANGED iterators
  /\ UNCHANGED <<intermediates_, results>>

Next == Begin \/ Dereference \/ Increment

--------------------------------------------------------------------------------
AllKeys == UNION {DOMAIN intermediates_[p] : p \in Partitions}
Length(k) == LET p == CHOOSE p \in Partitions : k \in DOMAIN intermediates_[p] IN intermediates_[p][k]

(* what a key adds to the results: the values of its list; an empty list *)
(* counts for one value that is not there                                *)
ValuesOf(k) ==
  IF Length(k) = 0 THEN {<<k, Unspecified>>} ELSE {<<k, j>> : j \in 1 .. Length(k)}

Before(u, v) == u[1] < v[1] \/ (u[1] = v[1] /\ u[2] < v[2])

(* When the iterator equals end_results(), all results have been read, once   *)
(* each, by ascending key and in the order of each list.  After a job without *)
(* errors each list has one value, so that the i-th result is the one of the  *)
(* i-th smallest key, as CppPageRank's Position has it.                       *)
AllRead ==
  pc = "ended" =>
    /\ Range(results) = UNION {ValuesOf(k) : k \in AllKeys}
    /\ \A i, j \in DOMAIN results : i < j => Before(results[i], results[j])
================================================================================
