------------------------------- MODULE MpiProcs -------------------------------
(***************************************************************************)
(* Processes that exchange point-to-point messages (MPI, as the mrmpi      *)
(* library uses it).  net[p][q] holds the messages from p to q in order.   *)
(* A receive names the source and the tag and takes the first message that *)
(* fits.  A send may return at once or wait until its message is taken; a  *)
(* message to a receive that was posted before never waits.                *)
(***************************************************************************)
EXTENDS Integers, SequencesExt

CONSTANT N              \* number of processes

ASSUME ProcsAssumption == N \in Nat \ {0, 1}

Ranks == 0..(N - 1)

NoMessages == [p \in Ranks |-> [q \in Ranks |-> <<>>]]
Message(tag, kind, data) == [tag |-> tag, kind |-> kind, data |-> data, posted |-> FALSE]

Sent(net, p, q, msg) == [net EXCEPT ![p][q] = Append(@, msg)]

Fitting(net, q, p, tag) == {i \in DOMAIN net[q][p] : net[q][p][i].tag = tag}
HasMessage(net, q, p, tag) == Fitting(net, q, p, tag) # {}
FirstOf(net, q, p, tag) == Min(Fitting(net, q, p, tag))
Taken(net, q, p, tag) == net[q][p][FirstOf(net, q, p, tag)]
Received(net, q, p, tag) == [net EXCEPT ![q][p] = RemoveAt(@, FirstOf(net, q, p, tag))]

\* Sends of p that have not returned when sends wait.
MayGoOn(net, p, eager) ==
  eager \/ \A q \in Ranks : \A i \in DOMAIN net[p][q] : net[p][q][i].posted
===============================================================================
