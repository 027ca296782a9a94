------------------------------- MODULE ConvertKmv -------------------------------
(***************************************************************************)
(* Converting a key/value store into a key/multivalue store, out of core   *)
(* (KeyMultiValue::convert).  The unique keys of the pairs must fit in two *)
(* pages: those that do not are spooled by hash into new partitions, which *)
(* are converted after this one.  The unique keys of a partition whose     *)
(* multivalues do not fit in one page are divided into sets, one page (or  *)
(* one pair of several pages) each, and the pairs are spooled by set.      *)
(*                                                                         *)
(* A conversion is a record c, taken forward partition by partition and    *)
(* set by set:                                                             *)
(*   c.parts    partitions [kv, sp, sp2, sortbit]: the store when kv, and  *)
(*              the spools numbered sp and sp2 (0 for none); c.ip is next  *)
(*   c.spools   every spool made                                           *)
(*   c.uniques  unique keys of the partition: [key, nvalue, mvbytes]       *)
(*   c.sets     sets [kv, sp, sp2, first, nunique, extended]; c.is is next *)
(*   c.pages    pages borrowed for spools <<address, tag>>, each cut into  *)
(*              c.perpage spool pages of c.sizespool bytes                 *)
(*   c.readpage the page everything is read through                        *)
(***************************************************************************)
EXTENDS KeyMultiValue

CONSTANTS MaxUnique,    \* unique keys that fit in two pages
          MinSpool,     \* least bytes of a spool page
          HashBits,     \* bits of a key's hash
          HashOf        \* [keys -> hash]

ASSUME ConvertAssumption ==
  /\ MaxUnique \in Nat \ {0} /\ MinSpool \in Nat \ {0} /\ HashBits \in Nat \ {0}
  /\ \A key \in DOMAIN HashOf : HashOf[key] \in 0..(2^HashBits - 1)

NoConversion == [phase |-> "idle"]

-----------------------------------------------------------------------------
(* Memory for spools *)

\* spool_memory: all unused pages are requested.
SpoolMemory(w, c) ==
  LET Borrow(d, i) == LET got == Request(d.w, c.m, 1) IN
                      [w |-> got.w, pages |-> Append(d.pages, <<got.page, got.tag>>)]
      done == FoldLeft(Borrow, [w |-> w, pages |-> <<>>], [i \in 1..MemQuery(w.mem[c.m]) |-> i])
  IN  [w |-> done.w, c |-> [c EXCEPT !.pages = done.pages]]

\* spool_request: n spools at a time share the pages; more pages when the spool pages
\* would be too small.
PerPage(n, npages) == (n + npages - 1) \div npages
SpoolRequest(w, c, n) ==
  LET enough == {k \in Len(c.pages)..(Len(c.pages) + n) : k > 0 /\ PageSize \div PerPage(n, k) >= c.minspool}
      npages == Min(enough)
      Borrow(d, i) == LET got == Request(d.w, c.m, 1) IN
                      [w |-> got.w, pages |-> Append(d.pages, <<got.page, got.tag>>)]
      done   == FoldLeft(Borrow, [w |-> w, pages |-> c.pages], [i \in 1..(npages - Len(c.pages)) |-> i])
  IN  [w |-> done.w,
       c |-> [c EXCEPT !.pages = done.pages, !.perpage = PerPage(n, npages),
                       !.sizespool = PageSize \div PerPage(n, npages)]]

\* The memory of spool i of those just requested: a part of a page.
SpoolMalloc(c, i) == <<c.pages[(i - 1) \div c.perpage + 1][1], (i - 1) % c.perpage>>

SpoolFreeNone(w, c) == w

SpoolFree(w, c) == FoldLeft(LAMBDA v, page : Unmark(v, c.m, page[2]), w, c.pages)

\* Spool i of those requested, the pairs written to it and closed.
Spooled(c, i, pairs) ==
  SpoolComplete(FoldLeft(LAMBDA sp, pair : SpoolAdd(sp, pair), NewSpool(SpoolMalloc(c, i), c.sizespool), pairs))

\* New spools of a conversion: their files count as disk space of the object.
Charge(w, m, spools) ==
  LET v == HiWater(w, m, FoldLeft(LAMBDA sum, sp : sum + sp.fsize, 0, spools))
      failed == {i \in DOMAIN spools : spools[i].error # ""}
  IN  IF w.ooc[m] < 0 THEN Fail(w, "Cannot create Spool file due to outofcore setting")
      ELSE IF failed # {} THEN Fail(v, spools[Min(failed)].error) ELSE v

DropSpoolsUncounted(w, c, ids) == w

DropSpools(w, c, ids) ==
  HiWater(w, c.m, -FoldLeft(LAMBDA sum, id : IF id = 0 THEN sum ELSE sum + c.spools[id].fsize, 0, ids))

-----------------------------------------------------------------------------
(* Reading the pairs of a partition or of a set *)

\* A spool is read page by page into readpage.
ReadSpool(w, c, sp) ==
  LET pages == c.spools[sp].file IN
  [w |-> IF pages = <<>> THEN w ELSE [w EXCEPT !.ram[c.readpage] = Last(pages)],
   pairs |-> FlattenSeq(pages)]

\* First the store when there is one, then the spools.
ReadSources(w, c, from) ==
  LET kv == IF from.kv THEN Contents(w, c.s) ELSE [w |-> w, pairs |-> <<>>]
      Next1(d, sp) == LET r == ReadSpool(d.w, c, sp) IN [w |-> r.w, pairs |-> d.pairs \o r.pairs]
  IN  FoldLeft(Next1, kv, SelectSeq(<<from.sp, from.sp2>>, LAMBDA sp : sp # 0))

-----------------------------------------------------------------------------
\* convert, up to its loop.
BeginConvert(w, m, s, then) ==
  LET unique == Request(w, m, 2)
      c == [phase |-> "partition", m |-> m, s |-> s, then |-> then, pages |-> <<>>, perpage |-> 1,
            sizespool |-> 0, minspool |-> Max({w.kv[s].msize, MinSpool}), spools |-> <<>>,
            parts |-> <<[kv |-> TRUE, sp |-> 0, sp2 |-> 0, sortbit |-> 0]>>, ip |-> 1,
            uniques |-> <<>>, sets |-> <<>>, is |-> 1,
            readpage |-> w.kv[s].page, kvtag |-> w.kv[s].tag, uniquetag |-> unique.tag]
  IN  SpoolMemory(IF c.minspool > PageSize THEN Fail(unique.w, "Spool size exceeds page size") ELSE unique.w, c)

\* The keys of pairs in order of their first occurrence.
KeysInOrder(pairs) ==
  FoldLeft(LAMBDA keys, pair : IF pair[1] \in Range(keys) THEN keys ELSE Append(keys, pair[1]), <<>>, pairs)

Unique(key, pairs) ==
  LET own == SelectSeq(pairs, LAMBDA pair : pair[1] = key)
  IN  [key |-> key, nvalue |-> Len(own), mvbytes |-> FoldLeft(LAMBDA sum, pair : sum + pair[2], 0, own)]

\* New partitions for the pairs after the cut, as many as their share of the pairs asks
\* for, rounded up to a power of 2; a pair goes by the next bits of its key's hash.
NewBits(total, count) ==
  LET n == (total - count) \div count + 1 IN Min({bits \in 0..n : 2^bits >= n})
Bucket(key, sortbit, nbits) == (HashOf[key] \div 2^((HashBits - sortbit - nbits) % HashBits)) % 2^nbits

\* The page and the number of pairs on it in front of pair i.
PageOf(sizes, i) ==
  LET Before(p) == FoldLeft(LAMBDA sum, n : sum + n, 0, SubSeq(sizes, 1, p - 1))
      p == Max({q \in DOMAIN sizes : Before(q) < i})
  IN  <<p, i - 1 - Before(p)>>

\* kv2unique: the first MaxUnique keys are this partition's.  From the first other key
\* on, pairs of known keys go to an extra spool of this partition and the others to new
\* partitions; the source is truncated there.
KvToUnique(w, c) ==
  LET part  == c.parts[c.ip]
      read  == ReadSources(w, c, part)
      all   == KeysInOrder(read.pairs)
      keys  == SubSeq(all, 1, Min({Len(all), MaxUnique}))
      known(pair) == pair[1] \in Range(keys)
      cut   == Min({i \in DOMAIN read.pairs : ~known(read.pairs[i])})
      nbits == NewBits(Len(read.pairs), cut - 1)
      rest  == SubSeq(read.pairs, cut, Len(read.pairs))
      req   == SpoolRequest(read.w, c, 2^nbits + 1)
      Part(i) == SelectSeq(rest, LAMBDA pair : ~known(pair) /\ Bucket(pair[1], part.sortbit, nbits) = i - 1)
      new   == [i \in 1..(2^nbits + 1) |->
                  Spooled(req.c, i, IF i <= 2^nbits THEN Part(i) ELSE SelectSeq(rest, known))]
      at    == Len(c.spools)
      sizes == IF part.kv THEN [i \in DOMAIN w.kv[c.s].pages |-> w.kv[c.s].pages[i].n]
               ELSE [i \in DOMAIN c.spools[part.sp].file |-> Len(c.spools[part.sp].file[i])]
      place == PageOf(sizes, cut)
      next  == [c EXCEPT !.phase = "sets", !.uniques = [i \in DOMAIN keys |-> Unique(keys[i], read.pairs)]]
      extra == at + 2^nbits + 1
  IN  IF Len(all) <= MaxUnique THEN [w |-> read.w, c |-> next]
      ELSE [w |-> Charge(IF part.kv THEN TruncateStore(req.w, c.s, place[1], place[2]) ELSE req.w, c.m, new),
            c |-> [next EXCEPT
                     !.pages = req.c.pages, !.perpage = req.c.perpage, !.sizespool = req.c.sizespool,
                     !.spools = (IF part.kv THEN @
                                 ELSE [@ EXCEPT ![part.sp] = SpoolTruncate(@, place[1], place[2])]) \o new,
                     !.parts = [@ EXCEPT ![c.ip] = IF part.kv THEN [@ EXCEPT !.sp = extra]
                                                   ELSE [@ EXCEPT !.sp2 = extra]]
                               \o [i \in 1..(2^nbits) |-> [kv |-> FALSE, sp |-> at + i, sp2 |-> 0,
                                                           sortbit |-> part.sortbit + nbits]]]]

-----------------------------------------------------------------------------
(* Sets of unique keys *)

OneSize(u) == MultiHead + u.nvalue * ValueHead + u.mvbytes
EmptySet == [kv |-> FALSE, sp |-> 0, sp2 |-> 0, first |-> 0, nunique |-> 0, extended |-> FALSE]

\* unique2kmv_all: a key joins the last set, or begins the next one when the page would
\* overflow; a pair larger than a page is a set of its own.
Divide(uniques) ==
  LET Join(d, i) ==
        LET last  == Last(d.sets)
            one   == OneSize(uniques[i])
            begin == [EmptySet EXCEPT !.first = i, !.nunique = 1]
            multi == [begin EXCEPT !.extended = TRUE]
            more  == IF i < Len(uniques) THEN <<EmptySet>> ELSE <<>>
        IN  IF one > PageSize
            THEN [sets |-> (IF last.nunique = 0 THEN Front(d.sets) ELSE d.sets) \o <<multi>> \o more, size |-> 0]
            ELSE IF last.nunique = 0 THEN [sets |-> Append(Front(d.sets), begin), size |-> one]
            ELSE IF d.size + one > PageSize THEN [sets |-> Append(d.sets, begin), size |-> one]
            ELSE [sets |-> [d.sets EXCEPT ![Len(d.sets)].nunique = @ + 1], size |-> d.size + one]
  IN  FoldLeft(Join, [sets |-> <<EmptySet>>, size |-> 0], [i \in DOMAIN uniques |-> i]).sets

\* The set of a key, 0 when it is in none.
Find(c, sets, key) ==
  LET found == {i \in DOMAIN sets : \E u \in sets[i].first..(sets[i].first + sets[i].nunique - 1) :
                                      u > 0 /\ c.uniques[u].key = key}
  IN  IF found = {} THEN 0 ELSE Min(found)

\* One set reads the partition itself; for several, partition2sets spools its pairs by set.
UniqueToKmv(w, c) ==
  LET part == c.parts[c.ip]
      sets == Divide(c.uniques)
      n    == Len(sets)
      req  == SpoolRequest(w, c, n)
      read == ReadSources(req.w, c, part)
      new  == [i \in 1..n |-> Spooled(req.c, i, SelectSeq(read.pairs, LAMBDA pair : Find(c, sets, pair[1]) = i))]
      lost == \E i \in DOMAIN read.pairs : Find(c, sets, read.pairs[i][1]) = 0
      done == Charge(read.w, c.m, new)
  IN  IF n = 1
      THEN [w |-> w, c |-> [c EXCEPT !.phase = "fill", !.is = 1,
              !.sets = <<[sets[1] EXCEPT !.kv = part.kv, !.sp = part.sp, !.sp2 = part.sp2]>>]]
      ELSE [w |-> IF lost THEN Fail(done, "Internal find error in partition2sets") ELSE done,
            c |-> [req.c EXCEPT !.phase = "fill", !.is = 1, !.spools = @ \o new,
                                !.sets = [i \in 1..n |-> [sets[i] EXCEPT !.sp = Len(c.spools) + i]]]]

-----------------------------------------------------------------------------
(* Filling the page or pages of a set *)

ValuesOf(key, pairs) ==
  LET own == SelectSeq(pairs, LAMBDA pair : pair[1] = key) IN [i \in DOMAIN own |-> own[i][2]]

\* unique2kmv_set lays out the page, kv2kmv puts the values in.
FillPage(w, c, set, pairs) ==
  LET uniques == SubSeq(c.uniques, set.first, set.first + set.nunique - 1)
      entries == [i \in DOMAIN uniques |-> <<uniques[i].key, ValuesOf(uniques[i].key, pairs)>>]
      page    == w.kv[Kmv(c.m)].page
      lost    == \E i \in DOMAIN pairs : \A u \in DOMAIN uniques : uniques[u].key # pairs[i][1]
      v       == [w EXCEPT !.ram[page] = entries, !.kv[Kmv(c.m)].n = Len(uniques),
                           !.kv[Kmv(c.m)].size = FoldLeft(LAMBDA sum, u : sum + OneSize(u), 0, uniques)]
  IN  IF set.nunique = 0 THEN w ELSE IF lost THEN Fail(v, "Internal find error in kv2kmv") ELSE v

\* kv2kmv_extended: behind the header, the lengths of the values in one half of a page and
\* the values in the other; a full page is written, the last one is left to the caller.
Half == PageSize \div 2
MaxValue == Half \div ValueHead - 1
PutBlock(w, m, key, block) ==
  LET k == Kmv(m) IN
  [w EXCEPT !.ram[w.kv[k].page] = <<<<key, block>>>>, !.kv[k].size = (Len(block) + 1) * ValueHead + SumOf(block)]

FillBlocks(w, c, set, pairs) ==
  LET m   == c.m
      u   == c.uniques[set.first]
      top == Len(w.kv[Kmv(m)].pages) + 1
      header == KmvFlush([w EXCEPT !.ram[w.kv[Kmv(m)].page] = <<<<u.key, <<>>>>>>,
                                   !.kv[Kmv(m)].n = 1, !.kv[Kmv(m)].size = MultiHead], m)
      begun == [header EXCEPT !.kv[Kmv(m)].pages[top].total = u.nvalue]
      Value(d, v) ==
        IF Len(d.block) < MaxValue /\ SumOf(d.block) + v <= Half THEN [d EXCEPT !.block = Append(@, v)]
        ELSE IF d.block = <<>> THEN [d EXCEPT !.w = Fail(@, "Single value exceeds KeyMultiValue page size")]
        ELSE [w |-> KmvFlush(PutBlock(d.w, m, u.key, d.block), m), block |-> <<v>>, n |-> d.n + 1]
      done == FoldLeft(Value, [w |-> begun, block |-> <<>>, n |-> 0], [i \in DOMAIN pairs |-> pairs[i][2]])
  IN  [PutBlock(done.w, m, u.key, done.block) EXCEPT !.kv[Kmv(m)].pages[top].nblock = done.n + 1]

\* One set: its page goes to the file unless it is the very last one of the conversion.
FillSet(w, c) ==
  LET set  == c.sets[c.is]
      read == ReadSources(w, c, set)
      full == IF set.extended THEN FillBlocks(read.w, c, set, read.pairs)
              ELSE FillPage(read.w, c, set, read.pairs)
      more == c.is < Len(c.sets)
  IN  [w |-> IF more \/ c.ip < Len(c.parts) THEN KmvFlush(full, c.m) ELSE full,
       c |-> IF more THEN [c EXCEPT !.is = @ + 1] ELSE [c EXCEPT !.phase = "drop"]]

\* After the last set of a partition its spools are deleted, and the store with the first
\* partition; then the next partition, or the end of the conversion.
EndPartition(w, c) ==
  LET part == c.parts[c.ip]
      own  == IF Len(c.sets) > 1 THEN <<part.sp, part.sp2>> ELSE <<>>
      ids  == FlattenSeq([i \in DOMAIN c.sets |-> <<c.sets[i].sp, c.sets[i].sp2>>]) \o own
      v    == DropSpools(w, c, ids)
  IN  [w |-> IF part.kv THEN DeleteStore(v, c.s) ELSE v,
       c |-> [c EXCEPT !.ip = @ + 1, !.uniques = <<>>, !.sets = <<>>,
                       !.phase = IF c.ip < Len(c.parts) THEN "partition" ELSE "end"]]

\* convert after its loop, and the complete() of the caller.
EndConvert(w, c) ==
  KmvComplete(Unmark(Unmark(SpoolFree(w, c), c.m, c.uniquetag), c.m, c.kvtag), c.m)

\* Does a spool share memory with the page that is read?
ReadPageLent(c) == c.phase # "idle" /\ \E i \in DOMAIN c.pages : c.pages[i][1] = c.readpage
=============================================================================
