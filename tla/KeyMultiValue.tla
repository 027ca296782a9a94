----------------------------- MODULE KeyMultiValue -----------------------------
(***************************************************************************)
(* The paged store of key/multivalue pairs of a MapReduce object           *)
(* (keymultivalue.cpp), all but convert.  The memory page and the file are *)
(* handled as in the key/value store, in slot <<m, "kmv">>; a page holds   *)
(* entries <<key, values>>.  The values of a pair that is larger than a    *)
(* page follow a header <<key, <<>>>> on pages of their own, each one      *)
(* entry <<key, values>> that counts for no key; the header's page knows   *)
(* how many such blocks and values there are.                              *)
(***************************************************************************)
EXTENDS KeyValue

CONSTANTS MultiHead,    \* bytes in front of the values of a pair
          ValueHead     \* bytes of the length of a value

ASSUME MultiAssumption == MultiHead \in Nat /\ ValueHead \in Nat \ {0}

SumOf(values) == FoldLeft(LAMBDA sum, v : sum + v, 0, values)
MultiBytes(values) == MultiHead + Len(values) * ValueHead + SumOf(values)

Kmv(m) == <<m, "kmv">>

CreateKmv(w, m) == CreateStore(w, Kmv(m))
KmvAllocate(w, m) == Allocate(w, Kmv(m))
KmvDeallocate(w, m, force) == Deallocate(w, Kmv(m), force)
KmvCloseFile(w, m) == CloseFile(w, Kmv(m))

\* The destructor closes a file a reduce or a scan has left open.
DeleteKmv(w, m) == DeleteStore(IF w.kv[Kmv(m)].live THEN KmvCloseFile(w, m) ELSE w, Kmv(m))

KmvInitPage(w, m) == [InitPage(w, Kmv(m)) EXCEPT !.ram[w.kv[Kmv(m)].page] = <<>>]

KmvCreatePage(w, m) ==
  LET k == w.kv[Kmv(m)] IN
  [w EXCEPT !.kv[Kmv(m)].pages = Append(@, [n |-> k.n, size |-> k.size, total |-> 0, nblock |-> 0])]

KmvWritePage(w, m, ipage) == WriteEntries(w, Kmv(m), ipage, Len(w.ram[w.kv[Kmv(m)].page]))

KmvReadPage(w, m, ipage, writeflag) == ReadPage(w, Kmv(m), ipage, writeflag)

\* request_page leaves the file open: callers may come back to any page.
KmvRequestPage(w, m, ipage, writeflag) ==
  IF w.kv[Kmv(m)].fileflag THEN KmvReadPage(w, m, ipage, writeflag) ELSE w

KmvEntries(w, m, ipage) ==
  LET k == w.kv[Kmv(m)] page == w.ram[k.page] IN SubSeq(page, 1, Min({Len(page), k.pages[ipage].n}))

KmvOverwritePage(w, m, ipage) ==
  IF w.kv[Kmv(m)].fileflag \/ w.ooc[m] > 0 THEN KmvWritePage(w, m, ipage) ELSE w

KmvFlush(w, m) ==
  KmvInitPage(KmvWritePage(KmvCreatePage(w, m), m, Len(w.kv[Kmv(m)].pages) + 1), m)

KmvComplete(w, m) ==
  LET k       == w.kv[Kmv(m)]
      written == IF k.fileflag \/ w.ooc[m] > 0
                 THEN KmvCloseFile(KmvWritePage(KmvCreatePage(w, m), m, Len(k.pages) + 1), m)
                 ELSE KmvCreatePage(w, m)
  IN  SetSizes(KmvDeallocate(InitPage(written, Kmv(m)), m, FALSE), Kmv(m))

-----------------------------------------------------------------------------
\* add: a pair of one value, for clone.
KmvAdd(w, m, pair) ==
  LET bytes == MultiBytes(<<pair[2]>>) IN
  IF bytes > PageSize THEN Fail(w, "Single key/multivalue pair exceeds page size")
  ELSE [IF w.kv[Kmv(m)].size + bytes > PageSize THEN KmvFlush(w, m) ELSE w
          EXCEPT !.ram[w.kv[Kmv(m)].page] = Append(@, <<pair[1], <<pair[2]>>>>),
                 !.kv[Kmv(m)].n = @ + 1, !.kv[Kmv(m)].size = @ + bytes]

\* Each page of the store in slot s, its pairs handed one by one to Op.
EachPair(w, s, Op(_, _)) ==
  LET Every(v, i)   == FoldLeft(Op, v, PairsIn(v, s, i))
      PerPage(v, i) == Every(RequestPage(v, s, i), i)
  IN  FoldLeft(PerPage, w, [i \in 1..Len(w.kv[s].pages) |-> i])

CloneKv(w, m, s) == EachPair(w, s, LAMBDA v, pair : KmvAdd(v, m, pair))

\* collapse: one pair whose values are key, value, key, value, ...; one page or none.
CollapseKv(w, m, s, key) ==
  LET Whole(read, values) ==
        IF MultiBytes(values) > PageSize THEN Fail(w, "Collapse of multi-block KMV not yet supported")
        ELSE [read EXCEPT !.ram[w.kv[Kmv(m)].page] = <<<<key, values>>>>,
                          !.kv[Kmv(m)].n = 1, !.kv[Kmv(m)].size = MultiBytes(values)]
      Both(c) == Whole(c.w, FlattenSeq(c.pairs))
  IN  Both(Contents(w, s))

\* copy: create_page sets the counts of blocks and values of every page to 0.
CopyKmv(w, m, from) ==
  LET own  == w.kv[Kmv(m)].page
      last == Len(w.kv[Kmv(from)].pages)
      Load(v, i) == [KmvRequestPage(v, from, i, FALSE) EXCEPT
                       !.kv[Kmv(m)].n = w.kv[Kmv(from)].pages[i].n,
                       !.kv[Kmv(m)].size = w.kv[Kmv(from)].pages[i].size]
      PerPage(v, i) == KmvWritePage(KmvCreatePage(Load(v, i), m), m, i)
      LastPage(v) == [v EXCEPT !.ram[own] = v.ram[w.kv[Kmv(from)].page], !.kv[Kmv(m)].page = own]
      lent == [w EXCEPT !.kv[Kmv(m)].page = w.kv[Kmv(from)].page]
  IN  LastPage(Load(FoldLeft(PerPage, lent, [i \in 1..(last - 1) |-> i]), last))

-----------------------------------------------------------------------------
(* Reading multivalues, as reduce, compress, scan and print do *)

MultivalueBlockFromHeader(w, m, ipage, b) == KmvRequestPage(w, m, ipage + b - 1, FALSE)

\* multivalue_block: block number b of the pair whose header is on page ipage goes to the
\* page that kmv->page is set to for the duration of the callback.
MultivalueBlock(w, m, ipage, b) == KmvRequestPage(w, m, ipage + b, FALSE)

ReadBlocks(w, m, ipage, mvpage) ==
  LET Values(c, v) ==
        [w |-> v, values |-> c.values \o IF v.ram[mvpage] = <<>> THEN <<>> ELSE v.ram[mvpage][1][2]]
      Block(c, b) == Values(c, MultivalueBlock(c.w, m, ipage, b))
  IN  [FoldLeft(Block, [w |-> [w EXCEPT !.kv[Kmv(m)].page = mvpage], values |-> <<>>],
                [b \in 1..w.kv[Kmv(m)].pages[ipage].nblock |-> b])
         EXCEPT !.w.kv[Kmv(m)].page = w.kv[Kmv(m)].page]

\* What the callbacks of a scan get; c.skip counts the block pages to pass over.
VisitPage(c, m, ipage, mvpage) ==
  LET Header(v, key, blocks) == [w |-> blocks.w, pairs |-> Append(c.pairs, <<key, blocks.values>>),
                                 skip |-> v.kv[Kmv(m)].pages[ipage].nblock]
      Found(v, found) ==
        IF found # <<>> /\ found[1][2] = <<>> THEN Header(v, found[1][1], ReadBlocks(v, m, ipage, mvpage))
        ELSE [c EXCEPT !.w = v, !.pairs = @ \o found]
      Visit(v) == Found(v, KmvEntries(v, m, ipage))
  IN  IF c.skip > 0 THEN [c EXCEPT !.skip = @ - 1] ELSE Visit(KmvRequestPage(c.w, m, ipage, FALSE))

KmvContents(w, m, mvpage) ==
  FoldLeft(LAMBDA c, i : VisitPage(c, m, i, mvpage),
           [w |-> KmvAllocate(w, m), pairs |-> <<>>, skip |-> 0],
           [i \in 1..Len(w.kv[Kmv(m)].pages) |-> i])

\* print: each nstride-th pair of one page, and the key of each pair of more.
KmvPrint(w, m, nstride) ==
  LET Entry(c, e) ==
        IF e[2] = <<>> THEN [c EXCEPT !.out = Append(@, e)]
        ELSE IF c.istride + 1 = nstride THEN [c EXCEPT !.out = Append(@, e), !.istride = 0]
        ELSE [c EXCEPT !.istride = @ + 1]
      Entries(c, v, i) == FoldLeft(Entry, [c EXCEPT !.w = v], KmvEntries(v, m, i))
      Page(c, i) == Entries(c, KmvRequestPage(c.w, m, i, FALSE), i)
  IN  FoldLeft(Page, [w |-> w, out |-> <<>>, istride |-> 0], [i \in 1..Len(w.kv[Kmv(m)].pages) |-> i])

\* sort_multivalues: each page is read for writing, its multivalues sorted in place, and
\* written back; pairs of several pages are refused.
SortMultivalues(w, m) ==
  LET Sorted(page) == [e \in DOMAIN page |-> <<page[e][1], SortSeq(page[e][2], LAMBDA x, y : x < y)>>]
      SortPage(u, a, i) ==
        IF \E e \in DOMAIN KmvEntries(u, m, i) : u.ram[a][e][2] = <<>>
        THEN Fail(u, "Sort_multivalue of multi-page KeyMultiValue not yet supported")
        ELSE KmvOverwritePage([u EXCEPT !.ram[a] = Sorted(@)], m, i)
      AtPage(u, i) == SortPage(u, u.kv[Kmv(m)].page, i)
      Page(v, i) == AtPage(KmvRequestPage(v, m, i, TRUE), i)
      Done(two, scratch) ==
        LET done == KmvCloseFile(FoldLeft(Page, scratch.w, [i \in 1..Len(w.kv[Kmv(m)].pages) |-> i]), m)
        IN  Unmark(Unmark(KmvDeallocate(done, m, FALSE), m, scratch.tag), m, two.tag)
      Lent2(two) == Done(two, Request(two.w, m, 1))
  IN  Lent2(Request(KmvAllocate(w, m), m, 2))
=============================================================================
