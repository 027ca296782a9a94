------------------------------ MODULE RecordFiles ------------------------------
(***************************************************************************)
(* The record files of the local_disk store (local_disk.hpp and            *)
(* mergesort.hpp).  A file is a sequence of records <<key, value>>; keys   *)
(* are strings, 0 the empty one, and their order is that of the numbers.   *)
(***************************************************************************)
EXTENDS Integers, SequencesExt

Before(x, y) == x[1] < y[1] \/ (x[1] = y[1] /\ x[2] < y[2])
Smallest(records) == CHOOSE x \in records : \A y \in records : ~Before(y, x)
Times(x, n) == [i \in 1..n |-> x]
Count(file, x) == Cardinality({i \in DOMAIN file : file[i] = x})

\* The members of a set in their order.
Ranked(S) ==
  [i \in 1..Cardinality(S) |-> CHOOSE x \in S : Cardinality({y \in S : Before(y, x)}) = i - 1]

\* kv_file: records are kept in a map with how often each was written, and the file gets
\* them in order when it is closed.  file_key_combiner does the same with a file.
Ordered(file) ==
  LET kinds == Ranked(Range(file))
  IN  FlattenSeq([i \in DOMAIN kinds |-> Times(kinds[i], Count(file, kinds[i]))])

MergeStepOnce(m) ==
  LET open   == {i \in DOMAIN m.files : m.files[i] # <<>>}
      record == Smallest({Head(m.files[i]) : i \in open})
  IN  IF open = {} THEN m
      ELSE [files |-> [i \in DOMAIN m.files |-> IF i \in open /\ Head(m.files[i]) = record THEN Tail(m.files[i])
                                               ELSE m.files[i]],
            out |-> Append(m.out, record)]

\* file_merger::merge_files: the smallest of the first records; one record is taken from
\* every file that begins with it.
MergeStep(m) ==
  LET open   == {i \in DOMAIN m.files : m.files[i] # <<>>}
      record == Smallest({Head(m.files[i]) : i \in open})
      taken  == {i \in open : Head(m.files[i]) = record}
  IN  IF open = {} THEN m
      ELSE [files |-> [i \in DOMAIN m.files |-> IF i \in taken THEN Tail(m.files[i]) ELSE m.files[i]],
            out |-> m.out \o Times(record, Cardinality(taken))]
Lengths(files) == FoldLeft(LAMBDA sum, f : sum + Len(f), 0, files)
MergeFiles(files) ==
  FoldLeft(LAMBDA m, i : MergeStep(m), [files |-> files, out |-> <<>>], Times(0, Lengths(files))).out

\* One round of file_merger: the files that can be opened, at most limit, are merged; when
\* others are left, the result is one more file to merge.
MergeRound(files, limit) ==
  LET n == IF Len(files) < limit THEN Len(files) ELSE limit
      merged == MergeFiles(SubSeq(files, 1, n))
  IN  [left |-> IF n = Len(files) THEN <<>> ELSE Append(SubSeq(files, n + 1, Len(files)), merged),
       out |-> merged]

\* reduce: a call for the values up to each record with another key that is not empty.
\* Values of an empty key stay with those of the next.
Grouping(g, record) ==
  LET other == record[1] # g.last /\ record[1] # 0
      calls == IF other /\ g.last # 0 THEN Append(g.calls, <<g.last, g.values>>) ELSE g.calls
  IN  [calls |-> calls, last |-> IF other THEN record[1] ELSE g.last,
       values |-> Append(IF other /\ g.last # 0 THEN <<>> ELSE g.values, record[2])]
CallsButLast(file) == FoldLeft(Grouping, [calls |-> <<>>, last |-> 0, values |-> <<>>], file).calls

Calls(file) ==
  LET g == FoldLeft(Grouping, [calls |-> <<>>, last |-> 0, values |-> <<>>], file)
  IN  IF g.last = 0 THEN g.calls ELSE Append(g.calls, <<g.last, g.values>>)
================================================================================
