----------------------------- MODULE PageMemory -----------------------------
(***************************************************************************)
(* The pages of memory of one MapReduce object (mapreduce.cpp).  Pages are *)
(* allocated in chunks, lent to whoever asks under a tag, taken back by    *)
(* the tag, and given back to the system between operations.               *)
(*                                                                         *)
(* A pool is a record: page i is lent under tag use[i] (0 when it is not), *)
(* count[i] is the size of the chunk that begins with page i (0 inside a   *)
(* chunk), ptr[i] stands for the page's address.                           *)
(***************************************************************************)
EXTENDS Integers, Sequences, FiniteSetsExt, SequencesExt

CONSTANT MaxPage        \* the setting maxpage: pages a pool may have, 0 for any

ASSUME MaxPageAssumption == MaxPage \in Nat

NoPages == [use |-> <<>>, count |-> <<>>, ptr |-> <<>>, tagmax |-> 0, hiwater |-> 0]

\* A contiguous chunk of n new pages, the first one knows its size.
AllocatePage(mem, n) ==
  LET fresh == Max(Range(mem.ptr) \union {0}) IN
  [mem EXCEPT !.use = @ \o [i \in 1..n |-> 0],
              !.count = @ \o [i \in 1..n |-> IF i = 1 THEN n ELSE 0],
              !.ptr = @ \o [i \in 1..n |-> fresh + i],
              !.hiwater = Max({@, Len(mem.use) + n})]

\* Where n pages are free: a chunk of exactly n, else n pages inside a chunk.
ExactChunks(mem, n) ==
  {i \in DOMAIN mem.use : mem.count[i] = n /\ \A j \in i..(i + n - 1) : mem.use[j] = 0}
InnerChunks(mem, n) ==
  {i \in DOMAIN mem.use : 
     /\ i + n - 1 <= Len(mem.use)
     /\ \A j \in i..(i + n - 1) : mem.use[j] = 0 /\ (j > i => mem.count[j] = 0)}

Least(s) == IF s = {} THEN 0 ELSE Min(s)
Place(mem, n) ==
  IF ExactChunks(mem, n) # {} THEN Least(ExactChunks(mem, n)) ELSE Least(InnerChunks(mem, n))

CanRequest(mem, n) == Place(mem, n) # 0 \/ MaxPage = 0 \/ Len(mem.use) + n <= MaxPage

\* mem_request: the pool afterwards, the new tag and the address.
Grant(pool, i, n, tag) ==
  [mem |-> [pool EXCEPT !.tagmax = tag,
                        !.use = SubSeq(@, 1, i - 1) \o [j \in 1..n |-> tag] \o SubSeq(@, i + n, Len(@))],
   tag |-> tag, page |-> pool.ptr[i]]
MemRequestAt(mem, n, place) ==
  IF place = 0 THEN Grant(AllocatePage(mem, n), Len(mem.use) + 1, n, mem.tagmax + 1)
  ELSE Grant(mem, place, n, mem.tagmax + 1)
MemRequest(mem, n) == MemRequestAt(mem, n, Place(mem, n))

MemUnmark(mem, tag) == [mem EXCEPT !.use = ReplaceAll(@, tag, 0)]

\* mem_cleanup frees a chunk when none of its pages is lent.
ChunkOf(mem, i) == 
  LET first == Max({j \in 1..i : mem.count[j] # 0}) IN first..(first + mem.count[first] - 1)

MemCleanup(mem) ==
  LET kept == {i \in DOMAIN mem.use : \E j \in ChunkOf(mem, i) : mem.use[j] # 0}
      Keep(s) == FoldLeft(LAMBDA rest, i : Append(rest, s[i]), <<>>, SetToSortSeq(kept, <))
  IN  [mem EXCEPT !.use = Keep(@), !.count = Keep(@), !.ptr = Keep(@)]

\* mem_query: the number of unused pages.
MemQuery(mem) == Cardinality({i \in DOMAIN mem.use : mem.use[i] = 0})

\* Addresses lent to somebody, and the address a tag stands for.
Lent(mem) == {mem.ptr[i] : i \in {j \in DOMAIN mem.use : mem.use[j] # 0}}
LentUnder(mem, tag) == {mem.ptr[i] : i \in {j \in DOMAIN mem.use : mem.use[j] = tag}}

\* A pool as the calls of its object leave it: no tag is newer than tagmax, addresses
\* differ, and a chunk lies within the pool.
IsPool(mem) ==
  /\ mem \in [use : Seq(Nat), count : Seq(Nat), ptr : Seq(Nat), tagmax : Nat, hiwater : Nat]
  /\ Len(mem.count) = Len(mem.use) /\ Len(mem.ptr) = Len(mem.use)
  /\ \A i \in 1..Len(mem.use) :
       /\ mem.use[i] <= mem.tagmax
       /\ mem.count[i] # 0 => i + mem.count[i] - 1 <= Len(mem.use)
       /\ \A j \in 1..Len(mem.use) : mem.ptr[i] = mem.ptr[j] => i = j
=============================================================================
