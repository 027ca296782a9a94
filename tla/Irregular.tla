------------------------------- MODULE Irregular -------------------------------
(***************************************************************************)
(* Irregular all-to-all communication (irregular.cpp): every process has a *)
(* list of datums <<datum, process it goes to>>.  setup agrees on whether  *)
(* they can be exchanged at once and, if not, on the fraction that could;  *)
(* exchange moves them, with one MPI_Alltoallv or with messages.           *)
(* items[p] is the list of process p.                                      *)
(***************************************************************************)
EXTENDS KeyValue, MpiProcs

Largest(f) == Max({f[p] : p \in DOMAIN f})
To(list, q) == SelectSeq(list, LAMBDA item : item[2] = q)
Datums(list) == [i \in DOMAIN list |-> list[i][1]]

SendBytes(list, q) == BytesOf(Datums(To(list, q)))
SendTotal(list) == BytesOf(Datums(list))
RecvTotal(items, q) == FoldLeft(LAMBDA sum, p : sum + SendBytes(items[p - 1], q), 0, [p \in 1..N |-> p])

\* setup: which limit is passed, the limit and by how much; <<1, 1>> when none is.  No
\* process may send or receive more than intmax bytes, or receive more than recvlimit.
Fraction(items, recvlimit, intmax) ==
  LET most  == Largest([p \in Ranks |-> Largest([q \in Ranks |-> SendBytes(items[p], q)])])
      total == Largest([p \in Ranks |-> SendTotal(items[p])])
      recv  == Largest([q \in Ranks |-> RecvTotal(items, q)])
      limit == Min({recvlimit, intmax})
  IN  IF most > intmax THEN <<intmax, most>>
      ELSE IF total > intmax THEN <<intmax, total>>
      ELSE IF recv > limit THEN <<limit, recv>>
      ELSE <<1, 1>>

\* The processes p sends to, from the one after itself round to the one before.
SendProcs(list, p) == SelectSeq([i \in 1..(N - 1) |-> (p + i) % N], LAMBDA q : To(list, q) # <<>>)
RecvProcs(items, p) == {q \in Ranks \ {p} : To(items[q], p) # <<>>}

\* Positions of the datums, those of one message side by side, its own datums last.
Offset(list, p, k) ==
  FoldLeft(LAMBDA sum, q : sum + Len(To(list, q)), 0, SubSeq(SendProcs(list, p), 1, k - 1))
Slot(list, p, q) ==
  LET procs == SendProcs(list, p)
  IN  Offset(list, p, IF q = p THEN Len(procs) + 1 ELSE CHOOSE k \in DOMAIN procs : procs[k] = q)
Reorder(list, p) ==
  LET Next1(d, i) == [at |-> [d.at EXCEPT ![d.offset[list[i][2]] + 1] = i],
                      offset |-> [d.offset EXCEPT ![list[i][2]] = @ + 1]]
  IN  FoldLeft(Next1, [at |-> [i \in DOMAIN list |-> 0],
                       offset |-> [q \in Ranks |-> IF q = p \/ To(list, q) # <<>> THEN Slot(list, p, q) ELSE 0]],
               [i \in DOMAIN list |-> i]).at

\* Message k of p, and what p keeps: the datums at their positions in the reordered list.
Packed(list, p, from, n) == LET order == Reorder(list, p) IN [i \in 1..n |-> list[order[from + i]][1]]
MessageTo(list, p, k) ==
  Packed(list, p, Offset(list, p, k), Len(To(list, SendProcs(list, p)[k])))
SelfCopy(list, p) == Packed(list, p, Offset(list, p, Len(SendProcs(list, p)) + 1), Len(To(list, p)))

\* MPI_Alltoallv: what process q receives, by source.
Alltoallv(items, q) == FlattenSeq([p \in 1..N |-> Datums(To(items[p - 1], q))])
===============================================================================
