------------------------------- MODULE KeyValue -------------------------------
(***************************************************************************)
(* The paged store of key/value pairs of a MapReduce object (keyvalue.cpp): *)
(* the pairs of the last page are in memory, the full pages before it, and *)
(* the last one too once the store is out of core, are in a file.          *)
(*                                                                         *)
(* Every operation takes the world w of a process and returns the next one: *)
(*   w.mem[m]   the pool of pages of MapReduce object m                    *)
(*   w.ram[a]   the pairs that the page at address a holds                 *)
(*   w.kv[s]    the store in slot s = <<m, role>>                          *)
(*   w.disk[m]  bytes of the files m has on disk, by its own account       *)
(*   w.ooc[m]   the setting outofcore of m                                 *)
(*   w.error    the error that ended the process, "" while it runs         *)
(* A page is a sequence of pairs <<key, value>>; a value stands for itself *)
(* and for its length.  File offsets are page numbers, and a file that is  *)
(* opened "wb" loses what it held.                                         *)
(***************************************************************************)
EXTENDS PageMemory

CONSTANTS PageSize,     \* bytes of a page
          PairHead      \* bytes of the lengths and the key in front of a value

ASSUME SizeAssumption == PageSize \in Nat \ {0} /\ PairHead \in Nat

Bytes(pair) == PairHead + pair[2]
BytesOf(pairs) == FoldLeft(LAMBDA sum, pair : sum + Bytes(pair), 0, pairs)

Null == <<>>            \* no page of memory

NoStore == [live |-> FALSE, pages |-> <<>>, n |-> 0, size |-> 0, page |-> Null, tag |-> 0,
            file |-> <<>>, fileflag |-> FALSE, fp |-> "none", msize |-> 0, fsize |-> 0]

Fail(w, what) == [w EXCEPT !.error = IF @ = "" THEN what ELSE @]

\* A page of pool m lent to whoever asks: the world, the address and the tag.
Granted(w, m, got) ==
  [w |-> [w EXCEPT !.mem[m] = got.mem, !.ram = [a \in {<<m, got.page>>} |-> <<>>] @@ @],
   page |-> <<m, got.page>>, tag |-> got.tag]
Request(w, m, n) ==
  IF CanRequest(w.mem[m], n) THEN Granted(w, m, MemRequest(w.mem[m], n))
  ELSE [w |-> Fail(w, "Cannot allocate requested memory page(s)"), page |-> Null, tag |-> 0]
Unmark(w, m, tag) == [w EXCEPT !.mem[m] = MemUnmark(@, tag)]

HiWater(w, m, grown) == [w EXCEPT !.disk[m] = @ + grown]

\* Writing entry i of a page, or page i of a file, leaves what lies behind it.
Put(pairs, i, pair) == IF i <= Len(pairs) THEN [pairs EXCEPT ![i] = pair] ELSE Append(pairs, pair)

-----------------------------------------------------------------------------
(* The in-memory page and the file *)

SetPage(w, s, page, tag) == [w EXCEPT !.kv[s].page = page, !.kv[s].tag = tag]

Take(s, got) == SetPage(got.w, s, got.page, got.tag)
Allocate(w, s) == IF w.kv[s].page # Null THEN w ELSE Take(s, Request(w, s[1], 1))

Deallocate(w, s, force) ==
  LET k == w.kv[s] IN
  IF (force \/ w.ooc[s[1]] > 0 \/ Len(k.pages) > 1) /\ k.page # Null
  THEN [Unmark(w, s[1], k.tag) EXCEPT !.kv[s].page = Null, !.kv[s].tag = 0]
  ELSE w

CreateStore(w, s) == Allocate([w EXCEPT !.kv[s] = [NoStore EXCEPT !.live = TRUE]], s)

DeleteStore(w, s) ==
  IF ~w.kv[s].live THEN w
  ELSE [HiWater(Deallocate(w, s, TRUE), s[1], IF w.kv[s].fileflag THEN -w.kv[s].fsize ELSE 0)
          EXCEPT !.kv[s] = NoStore]

InitPage(w, s) == [w EXCEPT !.kv[s].n = 0, !.kv[s].size = 0]
CreatePage(w, s) ==
  LET k == w.kv[s] IN [w EXCEPT !.kv[s].pages = Append(@, [n |-> k.n, size |-> k.size])]

\* Write the first n entries in memory as page ipage, a new file having holes before it;
\* a file open for reading takes nothing.
WriteEntries(w, s, ipage, n) ==
  LET k    == w.kv[s]
      old  == IF k.fp = "none" THEN <<>> ELSE k.file
      page == SubSeq(w.ram[k.page], 1, n)
      holes == Max({0, ipage - 1 - Len(old)})
  IN  IF w.ooc[s[1]] < 0 THEN Fail(w, "Cannot create KeyValue file due to outofcore setting")
      ELSE [w EXCEPT !.kv[s].fp = IF @ = "none" THEN "w" ELSE @,
                     !.kv[s].fileflag = TRUE,
                     !.kv[s].file = IF k.fp = "r" THEN @
                                    ELSE Put(old \o [i \in 1..holes |-> <<>>], ipage, page)]

WritePage(w, s, ipage) == WriteEntries(w, s, ipage, w.kv[s].pages[ipage].n)

\* read_page; a file open for writing only gives nothing, the page stays as it was.
ReadPage(w, s, ipage, writeflag) ==
  LET k  == w.kv[s]
      fp == IF k.fp # "none" THEN k.fp ELSE IF writeflag THEN "rw" ELSE "r"
  IN  [w EXCEPT !.kv[s].fp = fp,
                !.ram[k.page] = IF fp = "w" \/ ipage > Len(k.file) THEN @ ELSE k.file[ipage]]

CloseFile(w, s) == [w EXCEPT !.kv[s].fp = "none"]

RequestPage(w, s, ipage) ==
  IF ~w.kv[s].fileflag THEN w
  ELSE [ReadPage(w, s, ipage, FALSE) EXCEPT !.kv[s].fp = IF ipage = Len(w.kv[s].pages) THEN "none" ELSE @]

\* The pairs that a caller finds in the page it has just requested.
PairsIn(w, s, ipage) ==
  LET page == w.ram[w.kv[s].page] IN SubSeq(page, 1, Min({Len(page), w.kv[s].pages[ipage].n}))

OverwritePage(w, s, ipage) ==
  IF w.kv[s].fileflag \/ w.ooc[s[1]] > 0 THEN WritePage(w, s, ipage) ELSE w

-----------------------------------------------------------------------------
(* Adding pairs *)

FlushPage(w, s) == InitPage(WritePage(CreatePage(w, s), s, Len(w.kv[s].pages) + 1), s)

\* A pair goes behind the others, or begins the next page when this one is full.
PutPair(w, s, pair) ==
  [w EXCEPT !.ram[w.kv[s].page] = Put(@, w.kv[s].n + 1, pair),
            !.kv[s].n = @ + 1, !.kv[s].size = @ + Bytes(pair)]
Place1(w, s, pair) ==
  IF Bytes(pair) > PageSize THEN Fail(w, "Single key/value pair exceeds page size")
  ELSE PutPair(IF w.kv[s].size + Bytes(pair) > PageSize THEN FlushPage(w, s) ELSE w, s, pair)

AddPair(w, s, pair) == [Place1(w, s, pair) EXCEPT !.kv[s].msize = Max({@, Bytes(pair)})]
AddPairs(w, s, pairs) == FoldLeft(LAMBDA v, pair : AddPair(v, s, pair), w, pairs)

\* add(n, buf): entry by entry from the page at buf as it is then; msize is left alone.
AddBuffer(w, s, n, buf) ==
  FoldLeft(LAMBDA v, i : Place1(v, s, v.ram[buf][i]), w, [i \in 1..n |-> i])

AddStore(w, s, from) ==
  LET AddPage(v, i) == AddBuffer(v, s, Len(PairsIn(v, from, i)), v.kv[from].page)
      PerPage(v, i) == AddPage(RequestPage(v, from, i), i)
  IN  [FoldLeft(PerPage, w, [i \in 1..Len(w.kv[from].pages) |-> i])
         EXCEPT !.kv[s].msize = Max({@, w.kv[from].msize})]

\* copy: all pages but the last go to the file, read into the other store's page.
CopyStore(w, s, from) ==
  LET own  == w.kv[s].page
      last == Len(w.kv[from].pages)
      Load(v, i) == [RequestPage(v, from, i) EXCEPT !.kv[s].n = w.kv[from].pages[i].n,
                                                    !.kv[s].size = w.kv[from].pages[i].size]
      PerPage(v, i) == WritePage(CreatePage(Load(v, i), s), s, i)
      Settle1(v) == [v EXCEPT !.ram[own] = PairsIn(v, from, last), !.kv[s].page = own,
                              !.kv[s].msize = w.kv[from].msize]
      lent == [w EXCEPT !.kv[s].page = w.kv[from].page]
  IN  Settle1(Load(FoldLeft(PerPage, lent, [i \in 1..(last - 1) |-> i]), last))

AppendStoreKeepsPage(w, s) ==
  LET k    == w.kv[s]
      last == Len(k.pages)
      read == IF k.fileflag THEN HiWater(ReadPage(Allocate(w, s), s, last, TRUE), s[1], -k.fsize)
              ELSE Allocate(w, s)
  IN  IF last = 0 THEN w
      ELSE [read EXCEPT !.kv[s].n = k.pages[last].n, !.kv[s].size = k.pages[last].size]

\* append: the last page is the one in memory again.
AppendStore(w, s) ==
  LET k    == w.kv[s]
      last == Len(k.pages)
      read == IF k.fileflag THEN HiWater(ReadPage(Allocate(w, s), s, last, TRUE), s[1], -k.fsize)
              ELSE Allocate(w, s)
  IN  IF last = 0 THEN w
      ELSE [read EXCEPT !.kv[s].n = k.pages[last].n, !.kv[s].size = k.pages[last].size,
                        !.kv[s].pages = SubSeq(@, 1, last - 1)]

FileBytes(pages) == FoldLeft(LAMBDA sum, p : sum + p.size, 0, pages)

SetSizes(w, s) ==
  LET fsize == IF w.kv[s].fileflag THEN FileBytes(w.kv[s].pages) ELSE 0
  IN  HiWater([w EXCEPT !.kv[s].fsize = fsize], s[1], fsize)
CompleteStore(w, s) ==
  LET written == IF w.kv[s].fileflag \/ w.ooc[s[1]] > 0
                 THEN CloseFile(WritePage(CreatePage(w, s), s, Len(w.kv[s].pages) + 1), s)
                 ELSE CreatePage(w, s)
  IN  SetSizes(Deallocate(InitPage(written, s), s, FALSE), s)

CompleteDummy(w, s) == Deallocate(w, s, FALSE)

\* truncate: keep the pages before pagecut, and ncut entries of it.
TruncateStore(w, s, pagecut, ncut) ==
  [w EXCEPT !.kv[s].pages =
     IF ncut = 0 THEN SubSeq(@, 1, pagecut - 1)
     ELSE Append(SubSeq(@, 1, pagecut - 1),
                 [n |-> ncut, size |-> BytesOf(SubSeq(w.kv[s].file[pagecut], 1, ncut))])]

\* What a scan of the store reads, page after page.
Contents(w, s) ==
  LET Gather(acc, v, i) == [w |-> v, pairs |-> acc.pairs \o PairsIn(v, s, i)]
  IN  FoldLeft(LAMBDA acc, i : Gather(acc, RequestPage(acc.w, s, i), i),
               [w |-> Allocate(w, s), pairs |-> <<>>], [i \in 1..Len(w.kv[s].pages) |-> i])

-----------------------------------------------------------------------------
(***************************************************************************)
(* A spool (spool.cpp): entries written once through a page of memory to a *)
(* file, read back page by page.  A spool has no page of its own: at is    *)
(* the memory its owner lends it for writing, limit its size; buf is what  *)
(* that memory holds, file the pages written.                              *)
(***************************************************************************)
NewSpool(at, limit) ==
  [at |-> at, limit |-> limit, buf |-> <<>>, file |-> <<>>, fsize |-> 0, error |-> ""]

SpoolAddForgets(sp, pair) ==
  IF BytesOf(sp.buf) + Bytes(pair) > sp.limit THEN [sp EXCEPT !.file = Append(@, sp.buf), !.buf = <<>>]
  ELSE [sp EXCEPT !.buf = Append(@, pair)]

\* A full page is written out before the entry is added.
SpoolAdd(sp, pair) ==
  LET full == BytesOf(sp.buf) + Bytes(pair) > sp.limit IN
  IF Bytes(pair) > sp.limit THEN [sp EXCEPT !.error = "Single entry exceeds Spool page size"]
  ELSE IF full THEN [sp EXCEPT !.file = Append(@, sp.buf), !.buf = <<pair>>]
  ELSE [sp EXCEPT !.buf = Append(@, pair)]

SpoolFileBytes(sp) == FoldLeft(LAMBDA sum, page : sum + BytesOf(page), 0, sp.file)

\* complete always writes, even an empty last page.
SpoolComplete(sp) ==
  LET done == [sp EXCEPT !.file = Append(@, sp.buf), !.buf = <<>>]
  IN  [done EXCEPT !.fsize = SpoolFileBytes(done)]

SpoolTruncate(sp, pagecut, ncut) ==
  [sp EXCEPT !.file = SubSeq(@, 1, pagecut - 1)
                        \o (IF ncut = 0 THEN <<>> ELSE <<SubSeq(sp.file[pagecut], 1, ncut)>>)]

SpoolEntries(sp) == FlattenSeq(sp.file)
===============================================================================
