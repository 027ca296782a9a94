-------------------------------- MODULE KmvStore --------------------------------
(***************************************************************************)
(* Programs of MapReduce calls on one process: the calls on key/value      *)
(* stores (KvStore) and those that make, read and consume key/multivalue   *)
(* stores: clone, collapse, convert, compress, reduce, scan, print, copy   *)
(* and sort_multivalues.  A conversion is taken step by step.  group[m] is *)
(* what the manual says the key/multivalue store of m holds.               *)
(***************************************************************************)
EXTENDS KvStore, ConvertKmv

VARIABLES c,            \* the conversion in progress, NoConversion when there is none
          group         \* [Mrs -> the pairs the key/multivalue store is to hold]

vars == <<w, want, open, leaked, last, calls, exposed, c, group>>

KmvLive(v, m) == v.kv[Kmv(m)].live
KmvHolds(m) == KmvLive(w, m) /\ ~Gone(w, m)

\* The pairs of a store grouped by key, values in the order of the pairs.
Grouped(pairs) ==
  LET keys == KeysInOrder(pairs) IN [i \in DOMAIN keys |-> <<keys[i], ValuesOf(keys[i], pairs)>>]

\* Callbacks of reduce and compress emit each value again.
Ungrouped(pairs) == FlattenSeq([i \in DOMAIN pairs |-> [j \in DOMAIN pairs[i][2] |-> <<pairs[i][1], pairs[i][2][j]>>]])

KmvInit == Init /\ c = NoConversion /\ group = [m \in Mrs |-> <<>>]

\* Calls on key/value stores; those that delete a key/multivalue store end its contents.
KvCall ==
  /\ c.phase = "idle" /\ KvCalls
  /\ group' = [m \in Mrs |-> IF KmvLive(w', m) THEN group[m] ELSE <<>>]
  /\ UNCHANGED c

\* A call on m outside a conversion that leaves m with the pairs in its
\* key/multivalue store, and hands out out.
KmvCall(op, m, v, pairs, out) ==
  /\ c.phase = "idle" /\ m \notin open
  /\ CalledFor(op, m, Cleanup(v, m), out)
  /\ group' = [group EXCEPT ![m] = pairs]
  /\ UNCHANGED <<open, c>>

\* The store m had is deleted by a call that makes the other kind.
Begun(m) == Allocate(CreateKmv(w, m), Kv(m))

Clone(m) ==
  /\ Holds(m)
  /\ KmvCall("clone", m, DeleteStore(KmvComplete(CloneKv(Begun(m), m, Kv(m)), m), Kv(m)),
             [i \in DOMAIN want[m] |-> <<want[m][i][1], <<want[m][i][2]>>>>], <<>>)
  /\ want' = [want EXCEPT ![m] = <<>>] /\ UNCHANGED leaked

Collapse(m, key) ==
  /\ Holds(m)
  /\ KmvCall("collapse", m, DeleteStore(KmvComplete(CollapseKv(Begun(m), m, Kv(m), key), m), Kv(m)),
             <<<<key, FlattenSeq(want[m])>>>>, <<>>)
  /\ want' = [want EXCEPT ![m] = <<>>] /\ UNCHANGED leaked

-----------------------------------------------------------------------------
(* convert and compress *)

StartConversion(m, then) ==
  /\ c.phase = "idle" /\ m \notin open /\ Holds(m) /\ w.error = "" /\ calls < MaxCalls
  /\ LET begun == BeginConvert(Begun(m), m, Kv(m), then) IN w' = begun.w /\ c' = begun.c
  /\ calls' = calls + 1
  /\ group' = [group EXCEPT ![m] = Grouped(want[m])]
  /\ UNCHANGED <<want, open, leaked, last>>

\* Once a spool has the page that is read for memory, reading and spooling destroy
\* each other's pairs; what becomes of them is not modelled.
ConvertStep(phase, step) ==
  /\ c.phase = phase /\ w.error = "" /\ ~ReadPageLent(c)
  /\ w' = step.w /\ c' = step.c
  /\ UNCHANGED <<want, open, leaked, last, calls, group>>

ConvertPartition == ConvertStep("partition", KvToUnique(w, c))
ConvertSets      == ConvertStep("sets", UniqueToKmv(w, c))
ConvertSet       == ConvertStep("fill", FillSet(w, c))
ConvertDrop      == ConvertStep("drop", EndPartition(w, c))

\* The reading loop of reduce, compress and scan: two pages for blocks of values, the
\* callbacks read them into page which, and emit into store s when there is one.
ReadPages(v, m, which) ==
  LET Read(one, two, got) == [w |-> got.w, pairs |-> got.pairs, tags |-> <<one.tag, two.tag>>]
      Two(one, two) == Read(one, two, KmvContents(two.w, m, IF which = 1 THEN one.page ELSE two.page))
      One(one) == Two(one, Request(one.w, m, 1))
  IN  One(Request(KmvAllocate(v, m), m, 1))

\* The new store is made before the reading; what the callbacks emit goes to it.
Emit(m, read) ==
  LET done == CompleteStore(AddPairs(read.w, Kv(m), Ungrouped(read.pairs)), Kv(m))
  IN  [w |-> DeleteKmv(Unmark(Unmark(done, m, read.tags[1]), m, read.tags[2]), m), pairs |-> read.pairs]
Emitted(v, m, which) == Emit(m, ReadPages(CreateStore(v, Kv(m)), m, which))

\* The end of a conversion of m: the process is left in v, out was handed to callbacks.
Finish(op, m, v, out) ==
  /\ w' = Settle(v)
  /\ last' = [op |-> op, mr |-> m, peak |-> v.mem[m].hiwater, out |-> out]
  /\ want' = [want EXCEPT ![m] = Ungrouped(out)]
  /\ c' = NoConversion

FinishConvert ==
  /\ c.phase = "end" /\ c.then = "convert" /\ w.error = ""
  /\ Finish("convert", c.m, Cleanup(EndConvert(w, c), c.m), <<>>)
  /\ UNCHANGED <<open, leaked, calls, group>>

FinishCompress ==
  /\ c.phase = "end" /\ c.then = "compress" /\ w.error = ""
  /\ LET Done(done) == Finish("compress", c.m, Cleanup(done.w, c.m), done.pairs) IN
     \E which \in {1, 2} : Done(Emitted(Cleanup(EndConvert(w, c), c.m), c.m, which))
  /\ group' = [group EXCEPT ![c.m] = <<>>]
  /\ UNCHANGED <<open, leaked, calls>>

-----------------------------------------------------------------------------
Reduce(m) ==
  /\ KmvHolds(m)
  /\ LET Done(done) == /\ KmvCall("reduce", m, done.w, <<>>, done.pairs)
                        /\ want' = [want EXCEPT ![m] = Ungrouped(done.pairs)]
     IN  \E which \in {1, 2} : Done(Emitted(w, m, which))
  /\ UNCHANGED leaked

\* scan(kmv) does not give the pages for blocks of values back.
ScanKmv(m) ==
  /\ KmvHolds(m)
  /\ LET Done(read) == KmvCall("scan_kmv", m, KmvDeallocate(read.w, m, FALSE), group[m], read.pairs)
     IN  \E which \in {1, 2} : Done(ReadPages(w, m, which))
  /\ leaked' = [leaked EXCEPT ![m] = @ + 2] /\ UNCHANGED want

\* print gives no pages back to the system, unlike the other calls.
PrintKmv(m) ==
  /\ c.phase = "idle" /\ m \notin open /\ KmvHolds(m)
  /\ \E nstride \in Strides :
       LET read == KmvPrint(KmvAllocate(w, m), m, nstride) IN
       CalledFor("print_kmv", m, KmvDeallocate(read.w, m, FALSE), read.out)
  /\ UNCHANGED <<want, open, leaked, c, group>>

\* copy of a key/multivalue store: pairs of several pages arrive without their values.
CopyOfKmv(m, to) ==
  /\ m # to /\ c.phase = "idle" /\ KmvHolds(m) /\ Fresh(to)
  /\ LET made   == CreateKmv([KmvAllocate(w, m) EXCEPT !.ooc[to] = w.ooc[m]], to)
         copied == KmvComplete(CopyKmv(made, to, m), to)
     IN  Called("copy", to, Cleanup(KmvDeallocate(copied, m, FALSE), m))
  /\ group' = [group EXCEPT ![to] =
                 [i \in DOMAIN group[m] |-> IF MultiBytes(group[m][i][2]) <= PageSize THEN group[m][i]
                                            ELSE <<group[m][i][1], <<>>>>]]
  /\ UNCHANGED <<want, open, leaked, c>>

\* sort_multivalues; a file that a scan, print or copy has left open for reading takes
\* nothing, so the sorted values of a store on disk are lost.
SortMulti(m) ==
  /\ KmvHolds(m)
  /\ KmvCall("sort_multivalues", m, SortMultivalues(w, m),
             IF w.kv[Kmv(m)].fileflag /\ w.kv[Kmv(m)].fp = "r" THEN group[m]
             ELSE [i \in DOMAIN group[m] |-> <<group[m][i][1], SortSeq(group[m][i][2], <)>>], <<>>)
  /\ UNCHANGED <<want, leaked>>

ConvertNext == ConvertPartition \/ ConvertSets \/ ConvertSet \/ ConvertDrop \/ FinishConvert \/ FinishCompress

KmvCalls ==
  \/ \E m \in Mrs : \/ Clone(m) \/ Reduce(m) \/ ScanKmv(m) \/ PrintKmv(m) \/ SortMulti(m)
                    \/ \E key \in Keys : Collapse(m, key)
                    \/ \E then \in {"convert", "compress"} : StartConversion(m, then)
  \/ \E m, to \in Mrs : CopyOfKmv(m, to)

Next ==
  /\ KvCall \/ KmvCalls \/ ConvertNext
  /\ exposed' = Exposed

Spec == KmvInit /\ [][Next]_vars

-----------------------------------------------------------------------------
Bag(pairs) == [p \in Range(pairs) |-> Cardinality({i \in DOMAIN pairs : pairs[i] = p})]
Running == w.error = ""
Idle == Running /\ c.phase = "idle"

\* The records are what the operations make them: an object has one kind of store, page
\* sizes are in range, idle stores have a page or a file, key/value files are closed.
TypeOK ==
  /\ calls \in 0..MaxCalls /\ open \subseteq Mrs /\ leaked \in [Mrs -> Nat]
  /\ want \in [Mrs -> Seq(Keys \X Numbers)]
  /\ c.phase \in {"idle", "partition", "sets", "fill", "drop", "end"}
  /\ \A m \in Mrs : LET k == StoreOf(w, m) IN
       /\ m \in open => Live(w, m)
       /\ \A i \in DOMAIN k.pages : k.pages[i].size \in 0..PageSize
       /\ Idle => ~(Live(w, m) /\ KmvLive(w, m))
       /\ Idle /\ k.live /\ m \notin open /\ ~Gone(w, m) =>
            (k.page # Null \/ k.fileflag) /\ k.fp \in (IF Live(w, m) THEN {"none"} ELSE {"none", "r"})

\* Whichever pages went to the file and came back, a scan of a store reads the pairs the
\* manual says it holds, in the order they were added (or sorted); it is gone only when the
\* program set outofcore to 1 while the store was in memory alone, and then scanned or
\* copied it before a call that writes it (the manual says: at any time).  Out of this are
\* sequences with a map of a store of several pages onto itself with addflag, and
\* conversions up to the end of which a lent page is not read on (MapSelf, ConvertStep).
ContentsKept ==
  Idle => \A m \in Mrs \ open :
    /\ Gone(w, m) => m \in exposed
    /\ Holds(m) => Contents(w, Kv(m)).pairs = want[m]

\* The same for key/multivalue stores: a scan gets each key once with its values in the
\* order of the pairs, however many partitions, sets and blocks the conversion took, as
\* long as it read on through no lent page (ConvertStep).
GroupsKept ==
  Idle => \A m \in Mrs : KmvHolds(m) => Bag(ReadPages(w, m, 1).pairs) = Bag(group[m])

\* At each step of a conversion, up to the one that lends the page it reads through, every
\* pair is in exactly one place: a store or a spool that is still to be read, or a page of
\* the new store.
Placed(m) == FlattenSeq(w.kv[Kmv(m)].file) \o w.ram[w.kv[Kmv(m)].page]
ToPlace ==
  LET todo == IF c.phase = "fill" THEN SubSeq(c.sets, c.is, Len(c.sets)) ELSE <<>>
      from == c.ip + IF c.phase \in {"fill", "drop"} THEN 1 ELSE 0
      all  == todo \o SubSeq(c.parts, from, Len(c.parts))
  IN  FlattenSeq([i \in DOMAIN all |-> ReadSources(w, c, all[i]).pairs])
NothingLost ==
  Running /\ c.phase # "idle" /\ ~ReadPageLent(c) =>
    Bag(Ungrouped(Placed(c.m)) \o ToPlace) = Bag(want[c.m])

\* Pages that a call needs at most when unused pages are freed, besides those lost
\* before (a pool that keeps its pages may lack two in a row for a sort).  The manual's table has 1
\* for map, 0 for open and close, 3 for reduce and 1 for scan.
PagesNeeded ==
  [op \in {"start", "map", "add", "copy", "open", "close", "scan", "print", "print_kmv", "set", "delete",
           "clone", "collapse", "reduce", "scan_kmv", "sort_keys", "sort_values", "sort_multivalues"} |->
     CASE op \in {"sort_keys", "sort_values"} -> 5
       [] op \in {"reduce", "sort_multivalues"} -> 4
       [] op = "scan_kmv" -> 3
       [] op \in {"map", "clone", "collapse"} -> 2
       [] OTHER -> 1]
PageBudget ==
  w.freepage /\ last.op \in DOMAIN PagesNeeded /\ last.mr \in Mrs => last.peak <= PagesNeeded[last.op] + leaked[last.mr]

\* No two stores, sorts, spools or callbacks share a page: between calls a pool lends the
\* page of its store, one for every sort of more than one page (set_page takes the place
\* of the new store's own) and two for every scan of multivalues, and nothing else; and a
\* call's pool grows no further than these and the pages the call needs.  Its pools are
\* such that mem_request lends no page twice (RequestLendsFreePages of Stores_proofs).
PagesAccounted ==
  /\ PageBudget
  /\ \A m \in Mrs : IsPool(w.mem[m])
  /\ Idle => \A m \in Mrs : LET k == StoreOf(w, m) IN
       /\ Cardinality(Lent(w.mem[m])) = leaked[m] + (IF k.page # Null THEN 1 ELSE 0)
       /\ k.page # Null => k.page[1] = m /\ LentUnder(w.mem[m], k.tag) = {k.page[2]}

\* The object's account of its files is the size of the file it has: spools are gone.  A
\* file that a sort writes of a store sent out of core after it was made is not counted.
DiskAccounted ==
  Idle => \A m \in Mrs : LET k == StoreOf(w, m) IN
    w.disk[m] = IF k.fileflag /\ m \notin open \union exposed THEN FileBytes(k.pages) ELSE 0

\* The callbacks of reduce and compress get each key once with all its values.
ReduceSeesAll ==
  last' # last /\ last'.op \in {"reduce", "compress"} /\ w'.error = "" =>
    Bag(last'.out) = Bag(group[last'.mr])

\* After sort_keys and sort_values a store holds the pairs it held, sorted.
SortedBy(pairs, by) == \A i \in 1..(Len(pairs) - 1) : pairs[i][by] <= pairs[i + 1][by]
SortsThePairs ==
  \A m \in Mrs, by \in {1, 2} : Sort(m, by) /\ w'.error = "" =>
    /\ SortedBy(want'[m], by)
    /\ Bag(want'[m]) = Bag(want[m])

\* What a call over a whole store reads and leaves, page by page and block by block, is
\* the whole store: none is skipped or met twice at the border of a page.
WholeStore == [][ReduceSeesAll /\ SortsThePairs]_vars
===============================================================================
