--------------------------- MODULE MapReduceObject ---------------------------
(***************************************************************************)
(* What the calls of a MapReduce object share (mapreduce.cpp): its slots   *)
(* for stores, the store a map adds to, and the pages freed when a call    *)
(* returns.  A world w (see KeyValue) may have several objects.            *)
(***************************************************************************)
EXTENDS KeyMultiValue

Kv(m) == <<m, "kv">>
Dest(m) == <<m, "dest">>        \* the store a call fills while it reads kv

NewProcess(mrs, freepage, outofcore) ==
  [mem |-> [m \in mrs |-> NoPages], ram |-> [a \in {Null} |-> <<>>],
   kv |-> [s \in mrs \X {"kv", "dest", "kmv"} |-> NoStore],
   disk |-> [m \in mrs |-> 0], ooc |-> [m \in mrs |-> outofcore], freepage |-> freepage,
   error |-> ""]

Live(v, m) == v.kv[Kv(m)].live

\* Between calls: tags count from the largest in use, and only lent pages hold data.
Settle(v) ==
  LET pool(m) == [v.mem[m] EXCEPT !.tagmax = Max(Range(v.mem[m].use) \union {0}), !.hiwater = 0]
      lent == {a \in DOMAIN v.ram : a # Null /\ a[2] \in Lent(v.mem[a[1]])}
  IN  [v EXCEPT !.mem = [m \in DOMAIN v.mem |-> pool(m)],
                !.ram = [a \in lent \union {Null} |-> IF a = Null THEN <<>> ELSE v.ram[a]]]

Cleanup(v, m) == IF v.freepage THEN [v EXCEPT !.mem[m] = MemCleanup(@)] ELSE v

\* The store a map adds to: a new one, or the old one opened at its last page.
Prepared(v, m, addflag) ==
  LET u == DeleteKmv(v, m) IN
  IF ~addflag THEN CreateStore(DeleteStore(u, Kv(m)), Kv(m))
  ELSE IF ~Live(u, m) THEN CreateStore(u, Kv(m))
  ELSE AppendStore(u, Kv(m))

MoveDest(v, m) == [v EXCEPT !.kv[Kv(m)] = v.kv[Dest(m)], !.kv[Dest(m)] = NoStore]

-----------------------------------------------------------------------------
(***************************************************************************)
(* Sorting the pairs of a store by key or by value (sort_kv, sort_onepage  *)
(* and merge in mapreduce.cpp).  One page is sorted into another page.     *)
(* More pages are sorted one by one and merged two sources at a time, a    *)
(* source being a page or a spool, into a spool or, last, into a new       *)
(* store.  by is 1 for a sort by key, 2 by value; qsort keeps the order of *)
(* equal entries, as the C library's merge sort does.                      *)
(***************************************************************************)
SortOnePage(pairs, by) == SortSeq(pairs, LAMBDA p, q : p[by] < q[by])

MergeStepSwapped(by, s1, s2, st) ==
  LET compare == IF s1[st.i][by] < s2[st.j][by] THEN 1
                 ELSE IF s1[st.i][by] = s2[st.j][by] THEN 0 ELSE -1
      result  == IF st.done = 0 THEN compare ELSE st.result
      take1   == IF result <= 0 THEN <<s1[st.i]>> ELSE <<>>
      i       == st.i + Len(take1)
      ended1  == IF take1 # <<>> /\ i > Len(s1) THEN 1 ELSE 0
      take2   == IF (result >= 0 \/ ended1 = 1) /\ st.done + ended1 < 2 THEN <<s2[st.j]>> ELSE <<>>
      j       == st.j + Len(take2)
      ended2  == IF take2 # <<>> /\ j > Len(s2) THEN 1 ELSE 0
  IN  IF st.done = 2 THEN st
      ELSE [i |-> i, j |-> j, out |-> st.out \o take1 \o take2, done |-> st.done + ended1 + ended2,
            result |-> IF ended2 = 1 THEN -1 ELSE IF ended1 = 1 THEN 1 ELSE result]

\* merge: result decides who goes next, both on a tie; when a source is exhausted
\* result names the other one for good.
MergeStep(by, s1, s2, st) ==
  LET compare == IF s1[st.i][by] < s2[st.j][by] THEN -1
                 ELSE IF s1[st.i][by] = s2[st.j][by] THEN 0 ELSE 1
      result  == IF st.done = 0 THEN compare ELSE st.result
      take1   == IF result <= 0 THEN <<s1[st.i]>> ELSE <<>>
      i       == st.i + Len(take1)
      ended1  == IF take1 # <<>> /\ i > Len(s1) THEN 1 ELSE 0
      take2   == IF (result >= 0 \/ ended1 = 1) /\ st.done + ended1 < 2 THEN <<s2[st.j]>> ELSE <<>>
      j       == st.j + Len(take2)
      ended2  == IF take2 # <<>> /\ j > Len(s2) THEN 1 ELSE 0
  IN  IF st.done = 2 THEN st
      ELSE [i |-> i, j |-> j, out |-> st.out \o take1 \o take2, done |-> st.done + ended1 + ended2,
            result |-> IF ended2 = 1 THEN -1 ELSE IF ended1 = 1 THEN 1 ELSE result]

Merge(by, s1, s2) ==
  FoldLeft(LAMBDA st, k : MergeStep(by, s1, s2, st),
           [i |-> 1, j |-> 1, out |-> <<>>, done |-> 0, result |-> 0],
           [k \in 1..(Len(s1) + Len(s2)) |-> k]).out

-----------------------------------------------------------------------------
\* A store of one page is sorted into a new page, which it keeps.
SortSinglePage(w, s, by) ==
  LET two  == Request(w, s[1], 2)
      new  == Request(two.w, s[1], 1)
      read == RequestPage(new.w, s, 1)
      done == [read EXCEPT !.ram[new.page] = SortOnePage(PairsIn(read, s, 1), by)]
      held == Unmark(Unmark(done, s[1], two.tag), s[1], w.kv[s].tag)
  IN  Deallocate(CloseFile(OverwritePage(SetPage(held, s, new.page, new.tag), s, 1), s), s, FALSE)

\* The next source: a page of the store, sorted, or a spool merged before.
NextSource(c, s, by) ==
  IF c.i <= c.pages
  THEN LET v == RequestPage(c.w, s, c.i)
       IN  [c EXCEPT !.w = v, !.i = @ + 1, !.from = Append(@, 0),
                     !.src = Append(@, SortOnePage(PairsIn(v, s, c.i), by))]
  ELSE [c EXCEPT !.i = @ + 1, !.from = Append(@, c.i),
                 !.src = Append(@, SpoolEntries(c.spools[c.i]))]

DeleteSpools(w, m, spools, ids) ==
  HiWater(w, m, -FoldLeft(LAMBDA sum, id : IF id = 0 THEN sum ELSE sum + spools[id].fsize, 0, ids))

\* Two sources become a spool, the last two the new store; its constructor asks for a
\* page of its own, and set_page puts the old store's page in its place.
MergePass(c, s, by) ==
  LET d      == NextSource(NextSource([c EXCEPT !.src = <<>>, !.from = <<>>], s, by), s, by)
      merged == Merge(by, d.src[1], d.src[2])
      spool  == SpoolComplete(FoldLeft(LAMBDA sp, pair : SpoolAdd(sp, pair),
                                       NewSpool(d.page, PageSize), merged))
      new    == SetPage(CreateStore(DeleteStore(d.w, s), s), s, d.page, d.tag)
      filled == AddPairs(new, s, merged)
  IN  IF d.i <= d.n
      THEN [d EXCEPT !.n = @ + 1, !.spools = Append(@, spool),
                     !.w = HiWater(DeleteSpools(@, s[1], d.spools, d.from), s[1], spool.fsize)]
      ELSE [d EXCEPT !.w = CompleteStore(DeleteSpools(filled, s[1], d.spools, d.from), s)]

SortManyPages(w, s, by) ==
  LET two   == Request(w, s[1], 2)
      one   == Request(two.w, s[1], 1)
      other == Request(one.w, s[1], 1)
      pages == Len(w.kv[s].pages)
      start == [w |-> other.w, i |-> 1, n |-> pages, pages |-> pages, src |-> <<>>, from |-> <<>>,
                spools |-> [p \in 1..pages |-> NewSpool(Null, 0)],
                page |-> w.kv[s].page, tag |-> w.kv[s].tag]
      done  == FoldLeft(LAMBDA c, k : MergePass(c, s, by), start, [k \in 1..(pages - 1) |-> k])
  IN  Unmark(Unmark(Unmark(done.w, s[1], two.tag), s[1], one.tag), s[1], other.tag)

SortKv(w, s, by) ==
  LET v == Allocate(w, s)
  IN  IF Len(v.kv[s].pages) = 1 THEN SortSinglePage(v, s, by) ELSE SortManyPages(v, s, by)
==============================================================================
