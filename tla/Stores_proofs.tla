------------------------------ MODULE Stores_proofs ------------------------------
(***************************************************************************)
(* Proofs about the two stores for what does not fit in memory: the page   *)
(* pool of mrmpi, from which its paged stores borrow, for every pool and   *)
(* number of pages; and the job with the local_disk store, for every       *)
(* directory, segment size, number of threads and of partitions.           *)
(***************************************************************************)
EXTENDS DiskJob, PageMemory, FiniteSetTheorems, TLAPS, SequenceTheorems

\* Facts on numbers, which do not depend on the constants of WebGraph.
Numbers == INSTANCE WebGraph_proofs WITH A <- 1, B <- 2, T <- 1

LEMMA NumbersConstants == 1 \in Nat \ {0} /\ 2 \in Nat /\ 1 < 2
OBVIOUS

(* pages i .. i + n - 1 are there, and nobody has them *)
IsFree(mem, i, n) ==
  /\ i \in Nat \ {0} /\ i + n - 1 <= Len(mem.use)
  /\ \A j \in i .. i + n - 1 : mem.use[j] = 0

LEMMA LeastIsMember ==
  ASSUME NEW S, S \subseteq Nat, S # {}
  PROVE  Min(S) \in S /\ \A y \in S : Min(S) <= y
BY NumbersConstants, Numbers!LeastNumber DEF Min

(* A finite set of numbers that is not empty has a largest member. *)
LEMMA LargestIsMember ==
  ASSUME NEW S, S \subseteq Nat, IsFiniteSet(S), S # {}
  PROVE  Max(S) \in S /\ \A y \in S : Max(S) >= y
<1> DEFINE Above(x) == {y \in S : y > x}
           D == {Above(x) : x \in S}
           R == StrictSubsetOrdering(S)
<1>1. IsWellFoundedOn(R, SUBSET S)
  BY FS_StrictSubsetOrderingWellFounded, FS_FiniteSubsetsOfFinite
<1>2. D \subseteq SUBSET S /\ D # {}
  OBVIOUS
<1>3. \E d \in D : \A e \in D : ~ (<<e, d>> \in R)
  <2> HIDE DEF D, R
  <2> QED
    BY <1>1, <1>2, WFMin
<1>4. PICK x \in S : \A y \in S : ~ (<<Above(y), Above(x)>> \in R)
  BY <1>3
<1>5. ASSUME NEW y \in S PROVE x >= y
  <2>1. SUFFICES ASSUME x < y PROVE FALSE
    OBVIOUS
  <2>2. Above(y) \subseteq Above(x) /\ y \in Above(x) /\ y \notin Above(y)
    <3>1. x \in Nat /\ y \in Nat /\ \A z \in S : z \in Nat
      OBVIOUS
    <3>2. \A z \in S : z > y => z > x
      BY <2>1, <3>1
    <3>3. y > x /\ ~ (y > y)
      BY <2>1, <3>1
    <3> QED
      BY <3>2, <3>3, Zenon
  <2>3. <<Above(y), Above(x)>> \in (SUBSET S) \X (SUBSET S)
    OBVIOUS
  <2>4. <<Above(y), Above(x)>> \in R
    <3> HIDE DEF Above
    <3> QED
      BY <2>2, <2>3 DEF StrictSubsetOrdering
  <2> QED
    BY <2>4, <1>4
<1> QED
  BY <1>5 DEF Max

(* What mem_request finds is free. *)
LEMMA PlaceIsFree ==
  ASSUME NEW mem, IsPool(mem), NEW n \in Nat \ {0}, Place(mem, n) # 0
  PROVE  IsFree(mem, Place(mem, n), n)
<1>1. DOMAIN mem.use = 1 .. Len(mem.use) /\ Len(mem.use) \in Nat
  BY DEF IsPool
<1>2. ASSUME NEW i \in ExactChunks(mem, n)
      PROVE  IsFree(mem, i, n)
  <2>1. /\ i \in 1 .. Len(mem.use) /\ mem.count[i] = n
        /\ \A j \in i .. (i + n - 1) : mem.use[j] = 0
    BY <1>1, <1>2 DEF ExactChunks
  <2>2. i + n - 1 <= Len(mem.use)
    BY <2>1 DEF IsPool
  <2> QED
    BY <1>1, <2>1, <2>2 DEF IsFree
<1>3. ASSUME NEW i \in InnerChunks(mem, n)
      PROVE  IsFree(mem, i, n)
  BY <1>1, <1>3 DEF InnerChunks, IsFree
<1>4. CASE ExactChunks(mem, n) # {}
  <2>1. ExactChunks(mem, n) \subseteq Nat
    BY <1>1, <1>4 DEF ExactChunks
  <2>2. Place(mem, n) \in ExactChunks(mem, n)
    BY <1>4, <2>1, LeastIsMember DEF Place, Least
  <2> QED
    BY <1>2, <2>2
<1>5. CASE ExactChunks(mem, n) = {}
  <2>1. InnerChunks(mem, n) \subseteq Nat /\ InnerChunks(mem, n) # {}
    BY <1>1, <1>5 DEF InnerChunks, Place, Least
  <2>2. Place(mem, n) \in InnerChunks(mem, n)
    BY <1>5, <2>1, LeastIsMember DEF Place, Least
  <2> QED
    BY <1>3, <2>2
<1> QED
  BY <1>4, <1>5

--------------------------------------------------------------------------------
LEMMA Joined ==
  ASSUME NEW s \in Seq(Nat), NEW t \in Seq(Nat)
  PROVE  /\ s \o t \in Seq(Nat) /\ Len(s \o t) = Len(s) + Len(t)
         /\ \A i \in 1 .. Len(s) : (s \o t)[i] = s[i]
         /\ \A i \in Len(s) + 1 .. Len(s) + Len(t) : (s \o t)[i] = t[i - Len(s)]
<1>1. /\ s \o t \in Seq(Nat) /\ Len(s \o t) = Len(s) + Len(t)
      /\ \A i \in 1 .. Len(s) + Len(t) :
           (s \o t)[i] = IF i <= Len(s) THEN s[i] ELSE t[i - Len(s)]
  BY ConcatProperties, Zenon
<1> DEFINE r == s \o t
<1> HIDE DEF r
<1>2. \A i \in 1 .. Len(s) + Len(t) : r[i] = IF i <= Len(s) THEN s[i] ELSE t[i - Len(s)]
  BY <1>1 DEF r
<1>3. Len(s) \in Nat /\ Len(t) \in Nat
  BY LenProperties
<1>4. ASSUME NEW i \in 1 .. Len(s) PROVE r[i] = s[i]
  <2>1. i \in 1 .. Len(s) + Len(t) /\ i <= Len(s)
    BY <1>3
  <2> QED
    BY <1>2, <2>1, Zenon
<1>5. ASSUME NEW i \in Len(s) + 1 .. Len(s) + Len(t) PROVE r[i] = t[i - Len(s)]
  <2>1. i \in 1 .. Len(s) + Len(t) /\ ~ (i <= Len(s))
    BY <1>3
  <2> QED
    BY <1>2, <2>1, Zenon
<1> QED
  BY <1>1, <1>4, <1>5, Zenon DEF r

LEMMA PartOfPieces ==
  ASSUME NEW s \in Seq(Nat), NEW m \in Nat \ {0}, NEW n \in Nat, n <= Len(s), m <= n + 1
  PROVE  /\ SubSeq(s, m, n) \in Seq(Nat) /\ Len(SubSeq(s, m, n)) = n - m + 1
         /\ \A i \in 1 .. n - m + 1 : SubSeq(s, m, n)[i] = s[m + i - 1]
<1>1. Len(s) \in Nat /\ m \in Int /\ n \in Int
  OBVIOUS
<1>2. \A i \in m .. n : s[i] \in Nat
  BY <1>1
<1>3. /\ SubSeq(s, m, n) \in Seq(Nat)
      /\ Len(SubSeq(s, m, n)) = IF m <= n THEN n - m + 1 ELSE 0
      /\ \A i \in 1 .. n - m + 1 : SubSeq(s, m, n)[i] = s[m + i - 1]
  BY <1>1, <1>2, SubSeqProperties
<1> QED
  BY <1>1, <1>3

(* A new chunk is free, and the pages that were there stay what they were. *)
LEMMA AllocationExtends ==
  ASSUME NEW mem, IsPool(mem), NEW n \in Nat \ {0}
  PROVE  LET pool == AllocatePage(mem, n) IN
         /\ IsPool(pool) /\ IsFree(pool, Len(mem.use) + 1, n)
         /\ pool.tagmax = mem.tagmax /\ Len(pool.use) = Len(mem.use) + n
         /\ \A i \in 1 .. Len(mem.use) : pool.use[i] = mem.use[i] /\ pool.ptr[i] = mem.ptr[i]
<1> DEFINE use   == mem.use
           count == mem.count
           ptr   == mem.ptr
           len   == Len(use)
           fresh == Max(Range(ptr) \union {0})
           zeros == [i \in 1 .. n |-> 0]
           sizes == [i \in 1 .. n |-> IF i = 1 THEN n ELSE 0]
           news  == [i \in 1 .. n |-> fresh + i]
           most  == Max({mem.hiwater, len + n})
           pool  == AllocatePage(mem, n)
           use2   == use \o zeros
           count2 == count \o sizes
           ptr2   == ptr \o news
<1>1. pool = [use |-> use2, count |-> count2, ptr |-> ptr2,
              tagmax |-> mem.tagmax, hiwater |-> most]
  <2>1. pool = [mem EXCEPT !.use = use2, !.count = count2, !.ptr = ptr2, !.hiwater = most]
    BY Zenon DEF AllocatePage
  <2> HIDE DEF use2, count2, ptr2, most, pool
  <2> QED
    BY <2>1 DEF IsPool
<1>2. /\ len \in Nat /\ Len(count) = len /\ Len(ptr) = len /\ Len(use) = len
      /\ use \in Seq(Nat) /\ count \in Seq(Nat) /\ ptr \in Seq(Nat)
      /\ mem.tagmax \in Nat /\ mem.hiwater \in Nat
  BY DEF IsPool
<1>3. \A i \in 1 .. len :
        /\ use[i] <= mem.tagmax
        /\ count[i] # 0 => i + count[i] - 1 <= len
        /\ \A j \in 1 .. len : ptr[i] = ptr[j] => i = j
  BY DEF IsPool
<1>4. most \in Nat
  <2> DEFINE S == {mem.hiwater, len + n}
  <2>1. S = {mem.hiwater} \union {len + n} /\ S \subseteq Nat /\ S # {}
    BY <1>2
  <2>2. IsFiniteSet(S)
    <3>1. IsFiniteSet({mem.hiwater})
      BY FS_Singleton
    <3>2. IsFiniteSet({mem.hiwater} \union {len + n})
      BY <3>1, FS_AddElement
    <3> QED
      BY <2>1, <3>2, Zenon
  <2> HIDE DEF S
  <2>3. Max(S) \in Nat
    BY <2>1, <2>2, LargestIsMember
  <2> QED
    BY <2>3 DEF S
<1> HIDE DEF use, count, ptr, len
<1>5. fresh \in Nat /\ \A i \in 1 .. len : ptr[i] <= fresh
  <2> DEFINE S == Range(ptr) \union {0}
  <2>1. DOMAIN ptr = 1 .. len /\ \A i \in 1 .. len : ptr[i] \in Nat
    BY <1>2
  <2>2. S \subseteq Nat /\ S # {} /\ \A i \in 1 .. len : ptr[i] \in S
    BY <2>1 DEF Range
  <2>3. IsFiniteSet(Range(ptr))
    <3>1. ptr \in [1 .. len -> Range(ptr)]
      BY <1>2, <2>1 DEF Range
    <3>2. \A a \in Range(ptr) : \E i \in 1 .. len : ptr[i] = a
      BY <2>1 DEF Range
    <3>3. ptr \in Surjection(1 .. len, Range(ptr))
      BY <3>1, <3>2 DEF Surjection
    <3>4. IsFiniteSet(1 .. len)
      BY <1>2, FS_Interval
    <3> QED
      BY <3>3, <3>4, FS_Surjection
  <2>4. IsFiniteSet(S)
    BY <2>3, FS_AddElement
  <2> HIDE DEF S
  <2>5. Max(S) \in S /\ \A y \in S : Max(S) >= y
    BY <2>2, <2>4, LargestIsMember
  <2>6. Max(S) \in Nat
    BY <2>2, <2>5
  <2>7. \A i \in 1 .. len : ptr[i] <= Max(S)
    BY <2>1, <2>2, <2>5, <2>6
  <2> QED
    BY <2>6, <2>7 DEF S
<1> HIDE DEF fresh
<1>6. /\ zeros \in Seq(Nat) /\ sizes \in Seq(Nat) /\ news \in Seq(Nat)
      /\ Len(zeros) = n /\ Len(sizes) = n /\ Len(news) = n /\ n \in Nat
  BY <1>5
<1>7. \A i \in 1 .. n : zeros[i] = 0 /\ sizes[i] = (IF i = 1 THEN n ELSE 0) /\ news[i] = fresh + i
  OBVIOUS
<1> HIDE DEF zeros, sizes, news
<1>8. /\ use2 \in Seq(Nat) /\ Len(use2) = len + n
      /\ \A i \in 1 .. len : use2[i] = use[i]
      /\ \A i \in len + 1 .. len + n : use2[i] = zeros[i - len]
  <2>1. use \in Seq(Nat) /\ zeros \in Seq(Nat) /\ len \in Nat /\ n \in Nat /\ Len(use) = len /\ Len(zeros) = n
    BY <1>2, <1>6
  <2>2. /\ use2 \in Seq(Nat) /\ Len(use2) = Len(use) + Len(zeros)
        /\ \A i \in 1 .. Len(use) : use2[i] = use[i]
        /\ \A i \in Len(use) + 1 .. Len(use) + Len(zeros) : use2[i] = zeros[i - Len(use)]
    BY <2>1, Joined, Zenon
  <2> HIDE DEF use2
  <2> QED
    BY <2>1, <2>2
<1>9. /\ count2 \in Seq(Nat) /\ Len(count2) = len + n
      /\ \A i \in 1 .. len : count2[i] = count[i]
      /\ \A i \in len + 1 .. len + n : count2[i] = sizes[i - len]
  <2>1. count \in Seq(Nat) /\ sizes \in Seq(Nat) /\ len \in Nat /\ n \in Nat /\ Len(count) = len /\ Len(sizes) = n
    BY <1>2, <1>6
  <2>2. /\ count2 \in Seq(Nat) /\ Len(count2) = Len(count) + Len(sizes)
        /\ \A i \in 1 .. Len(count) : count2[i] = count[i]
        /\ \A i \in Len(count) + 1 .. Len(count) + Len(sizes) : count2[i] = sizes[i - Len(count)]
    BY <2>1, Joined, Zenon
  <2> HIDE DEF count2
  <2> QED
    BY <2>1, <2>2
<1>10. /\ ptr2 \in Seq(Nat) /\ Len(ptr2) = len + n
       /\ \A i \in 1 .. len : ptr2[i] = ptr[i]
       /\ \A i \in len + 1 .. len + n : ptr2[i] = news[i - len]
  <2>1. ptr \in Seq(Nat) /\ news \in Seq(Nat) /\ len \in Nat /\ n \in Nat /\ Len(ptr) = len /\ Len(news) = n
    BY <1>2, <1>6
  <2>2. /\ ptr2 \in Seq(Nat) /\ Len(ptr2) = Len(ptr) + Len(news)
        /\ \A i \in 1 .. Len(ptr) : ptr2[i] = ptr[i]
        /\ \A i \in Len(ptr) + 1 .. Len(ptr) + Len(news) : ptr2[i] = news[i - Len(ptr)]
    BY <2>1, Joined, Zenon
  <2> HIDE DEF ptr2
  <2> QED
    BY <2>1, <2>2
<1> HIDE DEF use2, count2, ptr2, most, pool
<1>11. \A i \in 1 .. len + n : i \in 1 .. len \/ (i \in len + 1 .. len + n /\ i - len \in 1 .. n)
  BY <1>2
<1>12. ASSUME NEW i \in 1 .. len + n
       PROVE  use2[i] <= mem.tagmax /\ (count2[i] # 0 => i + count2[i] - 1 <= len + n)
  <2>1. CASE i \in 1 .. len
    <3>1. count[i] \in Nat
      BY <1>2, <2>1
    <3>2. use[i] <= mem.tagmax /\ (count[i] # 0 => i + count[i] - 1 <= len)
      BY <1>3, <2>1
    <3>3. use2[i] = use[i] /\ count2[i] = count[i]
      BY <1>8, <1>9, <2>1, Zenon
    <3> QED
      BY <1>2, <3>1, <3>2, <3>3
  <2>2. CASE i \in len + 1 .. len + n /\ i - len \in 1 .. n
    <3>1. use2[i] = 0 /\ count2[i] = IF i - len = 1 THEN n ELSE 0
      BY <1>7, <1>8, <1>9, <2>2
    <3> QED
      BY <1>2, <2>2, <3>1
  <2> QED
    BY <1>11, <2>1, <2>2
<1>13. ASSUME NEW i \in 1 .. len + n, NEW j \in 1 .. len + n, ptr2[i] = ptr2[j]
       PROVE  i = j
  <2>1. \A k \in 1 .. len : ptr2[k] \in Nat /\ ptr2[k] <= fresh
    <3>1. \A k \in 1 .. len : ptr[k] \in Nat
      BY <1>2
    <3> QED
      BY <1>5, <1>10, <3>1
  <2>2. \A k \in len + 1 .. len + n : k - len \in 1 .. n => ptr2[k] = fresh + (k - len)
    BY <1>7, <1>10
  <2>3. CASE i \in 1 .. len /\ j \in 1 .. len
    BY <1>3, <1>10, <1>13, <2>3
  <2>4. CASE ~ (i \in 1 .. len /\ j \in 1 .. len)
    BY <1>2, <1>5, <1>11, <1>13, <2>1, <2>2, <2>4, SMTT(30)
  <2> QED
    BY <2>3, <2>4
<1>14. /\ pool.use = use2 /\ pool.count = count2 /\ pool.ptr = ptr2
       /\ pool.tagmax = mem.tagmax /\ pool.hiwater = most
  BY <1>1
<1>15. IsPool(pool)
  <2>1. pool \in [use : Seq(Nat), count : Seq(Nat), ptr : Seq(Nat), tagmax : Nat, hiwater : Nat]
    BY <1>1, <1>2, <1>4, <1>8, <1>9, <1>10
  <2> QED
    BY <1>8, <1>9, <1>10, <1>12, <1>13, <1>14, <2>1, Zenon DEF IsPool
<1>16. IsFree(pool, len + 1, n)
  <2>1. \A j \in len + 1 .. len + n : use2[j] = 0
    <3>1. \A j \in len + 1 .. len + n : j - len \in 1 .. n
      BY <1>2
    <3> QED
      BY <1>7, <1>8, <3>1
  <2>2. len + 1 \in Nat \ {0} /\ len + 1 + n - 1 = len + n
    BY <1>2
  <2>3. len + 1 + n - 1 <= Len(use2)
    BY <1>2, <1>8
  <2>4. \A j \in len + 1 .. len + 1 + n - 1 : use2[j] = 0
    BY <2>1, <2>2
  <2> QED
    BY <1>14, <2>2, <2>3, <2>4, Zenon DEF IsFree
<1> QED
  BY <1>8, <1>10, <1>14, <1>15, <1>16, Zenon DEF use, ptr, len, pool

(* A grant marks the pages it is for, and no others. *)
LEMMA GrantMarks ==
  ASSUME NEW pool, IsPool(pool), NEW n \in Nat \ {0}, NEW i, IsFree(pool, i, n)
  PROVE  LET g == Grant(pool, i, n, pool.tagmax + 1) IN
         /\ IsPool(g.mem) /\ g.mem.ptr = pool.ptr /\ Len(g.mem.use) = Len(pool.use)
         /\ g.tag = pool.tagmax + 1 /\ g.page = pool.ptr[i]
         /\ \A j \in 1 .. Len(pool.use) :
              g.mem.use[j] = IF j \in i .. i + n - 1 THEN pool.tagmax + 1 ELSE pool.use[j]
<1> DEFINE use  == pool.use
           len  == Len(use)
           tag  == pool.tagmax + 1
           g    == Grant(pool, i, n, tag)
           head == SubSeq(use, 1, i - 1)
           own  == [j \in 1 .. n |-> tag]
           rest == SubSeq(use, i + n, len)
           front == head \o own
           use2  == front \o rest
<1>1. /\ g.mem = [use |-> use2, count |-> pool.count, ptr |-> pool.ptr,
                  tagmax |-> tag, hiwater |-> pool.hiwater]
      /\ g.tag = tag /\ g.page = pool.ptr[i]
  <2>1. /\ g.mem = [pool EXCEPT !.tagmax = tag, !.use = use2]
        /\ g.tag = tag /\ g.page = pool.ptr[i]
    BY DEF Grant
  <2> HIDE DEF use2, tag, g
  <2> QED
    BY <2>1 DEF IsPool
<1>2. /\ pool.tagmax \in Nat /\ tag \in Nat /\ use \in Seq(Nat)
      /\ i \in Nat \ {0} /\ i + n - 1 <= len
      /\ pool \in [use : Seq(Nat), count : Seq(Nat), ptr : Seq(Nat), tagmax : Nat, hiwater : Nat]
      /\ Len(pool.count) = len /\ Len(pool.ptr) = len
  BY DEF IsPool, IsFree
<1>3. \A j \in 1 .. len :
        /\ use[j] <= pool.tagmax
        /\ pool.count[j] # 0 => j + pool.count[j] - 1 <= len
        /\ \A k \in 1 .. len : pool.ptr[j] = pool.ptr[k] => j = k
  BY DEF IsPool
<1> HIDE DEF use, g
<1>4. len \in Nat /\ n \in Nat /\ n >= 1 /\ \A j \in 1 .. len : use[j] \in Nat
  <2>1. use \in [1 .. Len(use) -> Nat] /\ Len(use) \in Nat
    BY <1>2, LenProperties
  <2> QED
    BY <2>1
<1>5. /\ head \in Seq(Nat) /\ Len(head) = i - 1
      /\ \A j \in 1 .. i - 1 : head[j] = use[j]
  <2>1. 1 \in Nat \ {0} /\ i - 1 \in Nat /\ i - 1 <= Len(use) /\ 1 <= i - 1 + 1
    BY <1>2, <1>4
  <2>2. /\ head \in Seq(Nat) /\ Len(head) = i - 1 - 1 + 1
        /\ \A j \in 1 .. i - 1 - 1 + 1 : head[j] = use[1 + j - 1]
    BY <1>2, <2>1, PartOfPieces
  <2> HIDE DEF head
  <2> QED
    BY <1>2, <2>2
<1>6. own \in Seq(Nat) /\ Len(own) = n /\ \A j \in 1 .. n : own[j] = tag
  BY <1>2, <1>4
<1>7. /\ rest \in Seq(Nat) /\ Len(rest) = len - (i + n) + 1
      /\ \A j \in 1 .. len - (i + n) + 1 : rest[j] = use[i + n + j - 1]
  <2>1. i + n \in Nat \ {0} /\ len \in Nat /\ len <= Len(use) /\ i + n <= len + 1
    BY <1>2, <1>4
  <2> HIDE DEF len
  <2> QED
    BY <1>2, <2>1, PartOfPieces
<1> HIDE DEF len, tag, head, own, rest
<1>8. /\ front \in Seq(Nat) /\ Len(front) = i - 1 + n
      /\ \A j \in 1 .. i - 1 : front[j] = use[j]
      /\ \A j \in i .. i - 1 + n : front[j] = tag
  <2>1. /\ front \in Seq(Nat) /\ Len(front) = Len(head) + Len(own)
        /\ \A j \in 1 .. Len(head) : front[j] = head[j]
        /\ \A j \in Len(head) + 1 .. Len(head) + Len(own) : front[j] = own[j - Len(head)]
    BY <1>5, <1>6, Joined, Zenon
  <2> HIDE DEF front
  <2>2. \A j \in i .. i - 1 + n : j \in i - 1 + 1 .. i - 1 + n /\ j - (i - 1) \in 1 .. n
    BY <1>2, <1>4
  <2> QED
    BY <1>2, <1>5, <1>6, <2>1, <2>2
<1> HIDE DEF front
<1>9. /\ use2 \in Seq(Nat) /\ Len(use2) = len
      /\ \A j \in 1 .. i - 1 + n : use2[j] = front[j]
      /\ \A j \in i + n .. len : use2[j] = use[j]
  <2>1. /\ use2 \in Seq(Nat) /\ Len(use2) = Len(front) + Len(rest)
        /\ \A j \in 1 .. Len(front) : use2[j] = front[j]
        /\ \A j \in Len(front) + 1 .. Len(front) + Len(rest) : use2[j] = rest[j - Len(front)]
    BY <1>7, <1>8, Joined, Zenon
  <2> HIDE DEF use2
  <2>2. ASSUME NEW j \in i + n .. len
        PROVE  use2[j] = use[j]
    <3>1. /\ j \in Len(front) + 1 .. Len(front) + Len(rest)
          /\ j - Len(front) \in 1 .. len - (i + n) + 1
          /\ i + n + (j - Len(front)) - 1 = j
      BY <1>2, <1>4, <1>7, <1>8
    <3> QED
      BY <1>7, <2>1, <3>1
  <2> QED
    BY <1>2, <1>4, <1>7, <1>8, <2>1, <2>2
<1> HIDE DEF use2
<1>10. ASSUME NEW j \in 1 .. len
       PROVE  use2[j] = IF j \in i .. i + n - 1 THEN tag ELSE use[j]
  <2>1. i + n - 1 = i - 1 + n
    BY <1>2, <1>4
  <2>2. CASE j \in i .. i - 1 + n
    <3>1. j \in 1 .. i - 1 + n /\ j \in i .. i + n - 1
      BY <1>2, <1>4, <2>1, <2>2
    <3>2. use2[j] = tag
      BY <1>8, <1>9, <2>2, <3>1, Zenon
    <3> QED
      BY <3>1, <3>2, Zenon
  <2>3. CASE j \in 1 .. i - 1
    <3>1. j \in 1 .. i - 1 + n /\ ~ (j \in i .. i + n - 1)
      BY <1>2, <1>4, <2>1, <2>3
    <3>2. use2[j] = use[j]
      BY <1>8, <1>9, <2>3, <3>1, Zenon
    <3> QED
      BY <3>1, <3>2, Zenon
  <2>4. CASE j \in i + n .. len
    <3>1. ~ (j \in i .. i + n - 1)
      BY <1>2, <1>4, <2>1, <2>4
    <3>2. use2[j] = use[j]
      BY <1>9, <2>4, Zenon
    <3> QED
      BY <3>1, <3>2, Zenon
  <2>5. j \in i .. i - 1 + n \/ j \in 1 .. i - 1 \/ j \in i + n .. len
    BY <1>2, <1>4
  <2> QED
    BY <2>2, <2>3, <2>4, <2>5
<1>11. IsPool(g.mem)
  <2>1. g.mem \in [use : Seq(Nat), count : Seq(Nat), ptr : Seq(Nat), tagmax : Nat, hiwater : Nat]
    BY <1>1, <1>2, <1>9
  <2>2. /\ g.mem.use = use2 /\ g.mem.count = pool.count /\ g.mem.ptr = pool.ptr
        /\ g.mem.tagmax = tag
    BY <1>1
  <2>3. ASSUME NEW j \in 1 .. len
        PROVE  use2[j] <= tag
    <3>1. use[j] \in Nat /\ use[j] <= pool.tagmax
      BY <1>3, <1>4
    <3>2. use[j] <= tag /\ tag <= tag
      <4>1. pool.tagmax \in Nat /\ use[j] \in Nat /\ use[j] <= pool.tagmax
        BY <1>2, <3>1
      <4> QED
        BY <4>1 DEF tag
    <3>3. use2[j] = tag \/ use2[j] = use[j]
      BY <1>10, Zenon
    <3> QED
      BY <3>2, <3>3, Zenon
  <2> QED
    BY <1>2, <1>3, <1>9, <2>1, <2>2, <2>3, Zenon DEF IsPool
<1> QED
  <2>1. g.mem.use = use2 /\ g.mem.ptr = pool.ptr
    BY <1>1
  <2> QED
    BY <1>1, <1>9, <1>10, <1>11, <2>1, Zenon DEF g, use, len, tag

--------------------------------------------------------------------------------
(* mem_request: the pages it lends lie side by side under a tag that nobody   *)
(* else has, none of their addresses was lent before, and no page that was    *)
(* lent changes its tag or its address.                                       *)
THEOREM RequestLendsFreePages ==
  ASSUME NEW mem, IsPool(mem), NEW n \in Nat \ {0}
  PROVE  LET g == MemRequest(mem, n) IN
         /\ IsPool(g.mem)
         /\ \E i \in 1 .. Len(g.mem.use) :
              /\ g.page = g.mem.ptr[i]
              /\ {j \in 1 .. Len(g.mem.use) : g.mem.use[j] = g.tag} = i .. i + n - 1
         /\ LentUnder(g.mem, g.tag) \cap Lent(mem) = {}
         /\ \A i \in 1 .. Len(mem.use) : mem.use[i] # 0 =>
              g.mem.use[i] = mem.use[i] /\ g.mem.ptr[i] = mem.ptr[i]
<1> DEFINE g == MemRequest(mem, n)
           len == Len(mem.use)
<1>1. PICK pool, i :
        /\ IsPool(pool) /\ IsFree(pool, i, n) /\ g = Grant(pool, i, n, pool.tagmax + 1)
        /\ pool.tagmax = mem.tagmax /\ len <= Len(pool.use)
        /\ \A j \in 1 .. len : pool.use[j] = mem.use[j] /\ pool.ptr[j] = mem.ptr[j]
  <2>1. len \in Nat
    BY DEF IsPool
  <2>2. CASE Place(mem, n) = 0
    <3> DEFINE new == AllocatePage(mem, n)
    <3>1. /\ IsPool(new) /\ IsFree(new, len + 1, n) /\ new.tagmax = mem.tagmax
          /\ Len(new.use) = len + n
          /\ \A j \in 1 .. len : new.use[j] = mem.use[j] /\ new.ptr[j] = mem.ptr[j]
      BY AllocationExtends
    <3>2. g = Grant(new, len + 1, n, mem.tagmax + 1)
      BY <2>2 DEF MemRequest, MemRequestAt
    <3> HIDE DEF new, g
    <3>3. len <= Len(new.use)
      BY <2>1, <3>1
    <3> QED
      BY <3>1, <3>2, <3>3, Zenon
  <2>3. CASE Place(mem, n) # 0
    <3>1. IsFree(mem, Place(mem, n), n)
      BY <2>3, PlaceIsFree
    <3>2. g = Grant(mem, Place(mem, n), n, mem.tagmax + 1)
      BY <2>3 DEF MemRequest, MemRequestAt
    <3> HIDE DEF g
    <3>3. len <= len
      BY <2>1
    <3> QED
      BY <3>1, <3>2, <3>3, Zenon
  <2> QED
    BY <2>2, <2>3
<1> DEFINE tag == pool.tagmax + 1
<1>2. /\ IsPool(g.mem) /\ g.mem.ptr = pool.ptr /\ Len(g.mem.use) = Len(pool.use)
      /\ g.tag = tag /\ g.page = pool.ptr[i]
      /\ \A j \in 1 .. Len(pool.use) :
           g.mem.use[j] = IF j \in i .. i + n - 1 THEN tag ELSE pool.use[j]
  BY <1>1, GrantMarks
<1>3. /\ Len(pool.use) \in Nat /\ len \in Nat /\ pool.tagmax \in Nat
      /\ i \in Nat \ {0} /\ i + n - 1 <= Len(pool.use)
      /\ \A j \in i .. i + n - 1 : pool.use[j] = 0
  BY <1>1 DEF IsPool, IsFree
<1> HIDE DEF g
<1>4. \A j \in 1 .. Len(pool.use) : pool.use[j] # tag
  <2>1. \A j \in 1 .. Len(pool.use) : pool.use[j] \in Nat /\ pool.use[j] <= pool.tagmax
    BY <1>1, SMTT(30) DEF IsPool
  <2> QED
    BY <1>3, <2>1
<1> HIDE DEF tag
<1>5. {j \in 1 .. Len(g.mem.use) : g.mem.use[j] = g.tag} = i .. i + n - 1
  <2>1. \A j \in i .. i + n - 1 : j \in 1 .. Len(pool.use)
    BY <1>3
  <2> QED
    BY <1>2, <1>4, <2>1, Zenon
<1>6. i \in 1 .. Len(g.mem.use)
  BY <1>2, <1>3
<1>7. ASSUME NEW j \in 1 .. len, mem.use[j] # 0
      PROVE  g.mem.use[j] = mem.use[j] /\ g.mem.ptr[j] = mem.ptr[j]
  <2>1. j \in 1 .. Len(pool.use) /\ j \notin i .. i + n - 1
    <3>1. pool.use[j] = mem.use[j]
      BY <1>1, Zenon
    <3>2. j \notin i .. i + n - 1
      BY <1>3, <1>7, <3>1, Zenon
    <3>3. len <= Len(pool.use)
      BY <1>1, Zenon
    <3>4. j \in 1 .. Len(pool.use)
      <4> HIDE DEF len
      <4> QED
        BY <1>3, <3>3
    <3> QED
      BY <3>2, <3>4
  <2> QED
    BY <1>1, <1>2, <2>1
<1>8. LentUnder(g.mem, g.tag) \cap Lent(mem) = {}
  <2>1. DOMAIN g.mem.use = 1 .. Len(g.mem.use) /\ DOMAIN mem.use = 1 .. len
    BY <1>2 DEF IsPool
  <2>2. ASSUME NEW j \in DOMAIN g.mem.use, g.mem.use[j] = g.tag,
               NEW k \in DOMAIN mem.use, mem.use[k] # 0, g.mem.ptr[j] = mem.ptr[k]
        PROVE  FALSE
    <3>1. j \in i .. i + n - 1
      BY <1>5, <2>1, <2>2
    <3>2. k \in 1 .. Len(g.mem.use) /\ g.mem.ptr[k] = mem.ptr[k]
      BY <1>1, <1>2, <1>3, <1>7, <2>1, <2>2
    <3>3. j = k
      BY <1>2, <2>1, <2>2, <3>2 DEF IsPool
    <3> QED
      BY <1>1, <1>3, <2>1, <2>2, <3>1, <3>3
  <2> QED
    BY <2>2 DEF LentUnder, Lent
<1> QED
  BY <1>2, <1>5, <1>6, <1>7, <1>8, Zenon DEF g

(* mem_unmark: a tag's pages are free again, and every other tag keeps its    *)
(* own.                                                                       *)
THEOREM UnmarkTakesBack ==
  ASSUME NEW mem, IsPool(mem), NEW tag \in Nat \ {0}
  PROVE  /\ IsPool(MemUnmark(mem, tag))
         /\ LentUnder(MemUnmark(mem, tag), tag) = {}
         /\ \A t \in Nat \ {0, tag} : LentUnder(MemUnmark(mem, tag), t) = LentUnder(mem, t)
<1> DEFINE use2 == [i \in 1 .. Len(mem.use) |-> IF mem.use[i] = tag THEN 0 ELSE mem.use[i]]
           new  == MemUnmark(mem, tag)
<1>1. new = [use |-> use2, count |-> mem.count, ptr |-> mem.ptr,
             tagmax |-> mem.tagmax, hiwater |-> mem.hiwater]
  <2>1. new = [mem EXCEPT !.use = use2]
    BY Zenon DEF MemUnmark, ReplaceAll
  <2> HIDE DEF use2, new
  <2> QED
    BY <2>1 DEF IsPool
<1>2. Len(mem.use) \in Nat /\ DOMAIN mem.use = 1 .. Len(mem.use)
      /\ \A i \in 1 .. Len(mem.use) : mem.use[i] \in Nat
  BY DEF IsPool
<1>3. use2 \in Seq(Nat) /\ Len(use2) = Len(mem.use) /\ DOMAIN use2 = 1 .. Len(mem.use)
      /\ \A i \in 1 .. Len(mem.use) : use2[i] = IF mem.use[i] = tag THEN 0 ELSE mem.use[i]
  BY <1>2
<1> HIDE DEF use2, new
<1>4. IsPool(new)
  <2>1. /\ new.use = use2 /\ new.count = mem.count /\ new.ptr = mem.ptr
        /\ new.tagmax = mem.tagmax
    BY <1>1
  <2>2. new \in [use : Seq(Nat), count : Seq(Nat), ptr : Seq(Nat), tagmax : Nat, hiwater : Nat]
    BY <1>1, <1>3 DEF IsPool
  <2>3. ASSUME NEW i \in 1 .. Len(mem.use)
        PROVE  /\ use2[i] <= mem.tagmax
               /\ mem.count[i] # 0 => i + mem.count[i] - 1 <= Len(mem.use)
               /\ \A j \in 1 .. Len(mem.use) : mem.ptr[i] = mem.ptr[j] => i = j
    <3>1. mem.use[i] <= mem.tagmax /\ 0 <= mem.tagmax
      BY DEF IsPool
    <3>2. use2[i] <= mem.tagmax
      BY <1>3, <3>1
    <3> QED
      BY <3>2 DEF IsPool
  <2>4. Len(mem.count) = Len(mem.use) /\ Len(mem.ptr) = Len(mem.use)
    BY DEF IsPool
  <2> QED
    BY <1>3, <2>1, <2>2, <2>3, <2>4, Zenon DEF IsPool
<1>5. LentUnder(new, tag) = {}
  BY <1>1, <1>3 DEF LentUnder
<1>6. ASSUME NEW t \in Nat \ {0, tag}
      PROVE  LentUnder(new, t) = LentUnder(mem, t)
  BY <1>1, <1>2, <1>3 DEF LentUnder
<1> QED
  BY <1>4, <1>5, <1>6 DEF new

--------------------------------------------------------------------------------
(* The job with the local_disk store. *)

USE DiskAssumption

Files == {f \in DOMAIN dir : dir[f] # Directory}

IsThread(t) == t = [at |-> t.at, key |-> t.key, data |-> t.data, part |-> t.part]

(* of the threads, only w moves *)
Only(w) ==
  /\ thr' = [v \in Slots |-> thr'[v]]
  /\ \A v \in Slots : IsThread(thr'[v]) /\ (v # w => thr'[v] = thr[v])

MapPlaces == {"key", "data", "task", "done"}
ReducePlaces == {"claim", "find", "erase", "reduce", "done"}

(* The input stays, and where a thread is belongs to the phase of the job. *)
PlaceInv ==
  /\ policy \in {"sequential", "parallel"} /\ cpus \in Cpus /\ dir \in Directories
  /\ openMax \in Nat
  /\ phase \in {"map", "shuffle", "reduce", "ended", "aborted"}
  /\ thr = [w \in Slots |-> thr[w]] /\ \A w \in Slots : IsThread(thr[w])
  /\ \A w \in Slots \ Threads : At(w, "done")
  /\ phase = "map" => \A w \in Slots : thr[w].at \in MapPlaces
  /\ phase \in {"shuffle", "ended"} => \A w \in Slots : At(w, "done")
  /\ phase = "reduce" => \A w \in Slots : thr[w].at \in ReducePlaces
  /\ phase = "map" => \A w \in Slots : thr[w].at \in {"data", "task"} => thr[w].key \in Files

LEMMA ThreadsAreSlots ==
  ASSUME PlaceInv
  PROVE  Threads \subseteq Slots /\ 1 \in Threads /\ Threads \subseteq Nat \ {0}
<1>1. Max(Cpus) \in Cpus /\ \A c \in Cpus : Max(Cpus) >= c
  BY LargestIsMember
<1>. QED
  BY <1>1 DEF PlaceInv, Threads, Slots

LEMMA InputShape ==
  ASSUME PlaceInv
  PROVE  /\ dir \in Seq(Seq(Words \union {Newline}) \union {Directory})
         /\ Files \subseteq Nat \ {0} /\ NoFile \notin Files
         /\ \A f \in Files : dir[f] \in Seq(Words \union {Newline})
<1>1. dir \in Seq(Seq(Words \union {Newline}) \union {Directory})
  BY DEF PlaceInv
<1>. QED
  BY <1>1 DEF Files

(* What each action does to the threads. *)

LEMMA PlaceChanged ==
  ASSUME NEW t, IsThread(t), NEW a, NEW u, u = [t EXCEPT !.at = a]
  PROVE  IsThread(u) /\ u.at = a
<1>1. u = [at |-> a, key |-> t.key, data |-> t.data, part |-> t.part]
  BY DEF IsThread
<1>. QED
  BY <1>1 DEF IsThread

LEMMA NextKeyMoves ==
  ASSUME PlaceInv, NEW w \in Slots, NextKey(w)
  PROVE  /\ Only(w) /\ phase = "map" /\ phase' = phase /\ At(w, "key")
         /\ thr'[w].data = thr[w].data
         /\ \/ HasKey(src, dir) /\ thr'[w].at = "data" /\ thr'[w].key = KeyOf(src, dir)
            \/ ~HasKey(src, dir) /\ thr'[w].at = "done"
<1>. USE DEF PlaceInv, IsThread
<1>1. CASE HasKey(src, dir)
  <2>1. thr' = [thr EXCEPT ![w].key = KeyOf(src, dir), ![w].at = "data"]
    BY <1>1 DEF NextKey
  <2>2. thr'[w] = [thr[w] EXCEPT !.key = KeyOf(src, dir), !.at = "data"]
    BY <2>1
  <2>3. thr'[w] = [at |-> "data", key |-> KeyOf(src, dir), data |-> thr[w].data, part |-> thr[w].part]
    BY <2>2
  <2>. QED
    BY <1>1, <2>1, <2>3 DEF NextKey, Only, At
<1>2. CASE ~HasKey(src, dir)
  <2>1. thr' = [thr EXCEPT ![w].at = "done"]
    BY <1>2 DEF NextKey, Goto
  <2>2. thr'[w] = [at |-> "done", key |-> thr[w].key, data |-> thr[w].data, part |-> thr[w].part]
    BY <2>1
  <2>. QED
    BY <1>2, <2>1, <2>2 DEF NextKey, Only, At
<1>. QED
  BY <1>1, <1>2

LEMMA GetDataMoves ==
  ASSUME PlaceInv, NEW w \in Slots, GetData(w)
  PROVE  /\ phase = "map" /\ At(w, "data")
         /\ \/ phase' = "aborted" /\ thr' = thr
            \/ /\ phase' = phase /\ Only(w) /\ reported'
               /\ thr'[w].at = IF policy = "sequential" THEN "done" ELSE "key"
            \/ /\ phase' = phase /\ Only(w) /\ thr'[w].at = "task"
               /\ thr'[w].key = thr[w].key
               /\ thr'[w].data = SegmentOf(src, dir, thr[w].key)
<1>. USE DEF PlaceInv, IsThread
<1>1. phase = "map" /\ At(w, "data")
  BY DEF GetData
<1>2. CASE AssertFails(src, thr[w].key)
  BY <1>1, <1>2 DEF GetData, Aborts
<1>3. CASE ~AssertFails(src, thr[w].key) /\ GivesUp(w)
  <2>1. /\ thr' = [thr EXCEPT ![w].at = IF policy = "sequential" THEN "done" ELSE "key"]
        /\ phase' = phase /\ reported'
    BY <1>3 DEF GetData, GivesUp, Goto
  <2>2. thr'[w] = [at |-> IF policy = "sequential" THEN "done" ELSE "key",
                   key |-> thr[w].key, data |-> thr[w].data, part |-> thr[w].part]
    BY <2>1
  <2>. QED
    BY <1>1, <2>1, <2>2 DEF Only
<1>4. CASE ~AssertFails(src, thr[w].key) /\ ~GivesUp(w)
  <2>1. /\ thr' = [thr EXCEPT ![w].data = SegmentOf(src, dir, thr[w].key), ![w].at = "task"]
        /\ phase' = phase
    BY <1>4 DEF GetData
  <2>2. thr'[w] = [thr[w] EXCEPT !.data = SegmentOf(src, dir, thr[w].key), !.at = "task"]
    BY <2>1
  <2>3. thr'[w] = [at |-> "task", key |-> thr[w].key,
                   data |-> SegmentOf(src, dir, thr[w].key), part |-> thr[w].part]
    BY <2>2
  <2>4. thr' = [v \in Slots |-> thr'[v]] /\ \A v \in Slots : v # w => thr'[v] = thr[v]
    BY <2>1
  <2>. DEFINE segment == SegmentOf(src, dir, thr[w].key)
  <2>5. thr'[w] = [at |-> "task", key |-> thr[w].key, data |-> segment, part |-> thr[w].part]
    BY <2>3
  <2>. HIDE DEF segment
  <2>6. /\ thr'[w].at = "task" /\ thr'[w].key = thr[w].key
        /\ thr'[w].data = segment /\ IsThread(thr'[w])
    BY <2>5
  <2>7. Only(w)
    BY <2>4, <2>6 DEF Only
  <2>. QED
    BY <1>1, <2>1, <2>6, <2>7 DEF segment
<1>. QED
  BY <1>2, <1>3, <1>4

LEMMA MapTaskMoves ==
  ASSUME PlaceInv, NEW w \in Slots, MapTask(w)
  PROVE  /\ Only(w) /\ phase = "map" /\ phase' = phase /\ At(w, "task")
         /\ thr'[w].at = "key"
<1>. USE DEF PlaceInv, IsThread
<1>1. thr' = [thr EXCEPT ![w].at = "key", ![w].data = <<>>]
  BY DEF MapTask
<1>2. thr'[w] = [thr[w] EXCEPT !.at = "key", !.data = <<>>]
  BY <1>1
<1>3. thr'[w] = [at |-> "key", key |-> thr[w].key, data |-> <<>>, part |-> thr[w].part]
  BY <1>2
<1>. QED
  BY <1>1, <1>3 DEF MapTask, Only

LEMMA MapThrowsMoves ==
  ASSUME PlaceInv, NEW w \in Slots, MapThrows(w)
  PROVE  /\ Only(w) /\ phase = "map" /\ phase' = phase /\ At(w, "task") /\ reported'
         /\ thr'[w].at = IF policy = "sequential" THEN "done" ELSE "key"
<1>. USE DEF PlaceInv, IsThread
<1>1. thr' = [thr EXCEPT ![w].at = IF policy = "sequential" THEN "done" ELSE "key"]
  BY DEF MapThrows, GivesUp, Goto
<1>2. thr'[w] = [at |-> IF policy = "sequential" THEN "done" ELSE "key",
                 key |-> thr[w].key, data |-> thr[w].data, part |-> thr[w].part]
  BY <1>1
<1>. QED
  BY <1>1, <1>2 DEF MapThrows, GivesUp, Only

LEMMA CombineFailsMoves ==
  ASSUME PlaceInv, NEW w \in Slots, CombineFails(w)
  PROVE  /\ Only(w) /\ phase = "map" /\ phase' = phase /\ At(w, "task") /\ reported'
         /\ thr'[w].at = IF policy = "sequential" THEN "done" ELSE "key"
<1>. USE DEF PlaceInv, IsThread
<1>1. thr' = [thr EXCEPT ![w].at = IF policy = "sequential" THEN "done" ELSE "key"]
  BY DEF CombineFails, GivesUp, Goto
<1>2. thr'[w] = [at |-> IF policy = "sequential" THEN "done" ELSE "key",
                 key |-> thr[w].key, data |-> thr[w].data, part |-> thr[w].part]
  BY <1>1
<1>. QED
  BY <1>1, <1>2 DEF CombineFails, GivesUp, Only

LEMMA GetNothingMoves ==
  ASSUME PlaceInv, NEW w \in Slots, GetNothing(w)
  PROVE  /\ Only(w) /\ phase = "map" /\ phase' = phase /\ At(w, "data")
         /\ thr'[w].at = "task" /\ thr'[w].key = thr[w].key /\ thr'[w].data = <<>>
<1>. USE DEF PlaceInv, IsThread
<1>1. thr' = [thr EXCEPT ![w].data = <<>>, ![w].at = "task"]
  BY DEF GetNothing
<1>2. thr'[w] = [thr[w] EXCEPT !.data = <<>>, !.at = "task"]
  BY <1>1
<1>3. thr'[w] = [at |-> "task", key |-> thr[w].key, data |-> <<>>, part |-> thr[w].part]
  BY <1>2
<1>. QED
  BY <1>1, <1>3 DEF GetNothing, Only

(* A thread whose reading or writing ends the program has changed nothing. *)
Breaks(w) == Overrun(w) \/ OutOfFiles(w)
LEMMA BreaksMoves ==
  ASSUME NEW w \in Slots, Breaks(w)
  PROVE  /\ phase = "map" /\ phase' = "aborted"
         /\ thr' = thr /\ src' = src /\ store' = store /\ partition' = partition
         /\ output' = output /\ disk' = disk /\ held' = held /\ torn' = torn
         /\ reported' = reported /\ ends' = ends
BY DEF Breaks, Overrun, OutOfFiles, Aborts

LEMMA ClaimMoves ==
  ASSUME PlaceInv, NEW w \in Slots, Claim(w)
  PROVE  /\ Only(w) /\ phase = "reduce" /\ phase' = phase /\ At(w, "claim")
         /\ thr'[w].part = partition
         /\ thr'[w].at = IF partition < P THEN "find" ELSE "done"
<1>. USE DEF PlaceInv, IsThread
<1>. DEFINE place == IF partition < P THEN "find" ELSE "done"
<1>1. thr' = [thr EXCEPT ![w].part = partition, ![w].at = place]
  BY DEF Claim
<1>. HIDE DEF place
<1>2. thr'[w] = [thr[w] EXCEPT !.part = partition, !.at = place]
  BY <1>1
<1>3. thr'[w] = [at |-> place, key |-> thr[w].key, data |-> thr[w].data, part |-> partition]
  BY <1>2
<1>4. Only(w)
  BY <1>1, <1>3 DEF Only
<1>. QED
  BY <1>3, <1>4 DEF Claim, place

LEMMA FindMoves ==
  ASSUME PlaceInv, NEW w \in Slots, Find(w)
  PROVE  /\ phase = "reduce" /\ At(w, "find")
         /\ \/ phase' = "aborted" /\ thr' = thr /\ ~HasEntry(thr[w].part)
            \/ /\ Only(w) /\ phase' = phase /\ HasEntry(thr[w].part)
               /\ thr'[w].at = "erase" /\ thr'[w].part = thr[w].part
<1>. USE DEF PlaceInv, IsThread
<1>1. CASE ~HasEntry(thr[w].part)
  BY <1>1 DEF Find, Aborts
<1>2. CASE HasEntry(thr[w].part)
  <2>1. thr' = [thr EXCEPT ![w].data = store[thr[w].part].file, ![w].at = "erase"]
    BY <1>2 DEF Find
  <2>2. thr'[w] = [thr[w] EXCEPT !.data = store[thr[w].part].file, !.at = "erase"]
    BY <2>1
  <2>3. thr'[w] = [at |-> "erase", key |-> thr[w].key,
                   data |-> store[thr[w].part].file, part |-> thr[w].part]
    BY <2>2
  <2>. QED
    BY <1>2, <2>1, <2>3, ZenonT(30) DEF Find, Only
<1>. QED
  BY <1>1, <1>2

LEMMA EraseMoves ==
  ASSUME PlaceInv, NEW w \in Slots, Erase(w)
  PROVE  /\ Only(w) /\ phase = "reduce" /\ phase' = phase /\ At(w, "erase")
         /\ thr'[w].at = "reduce" /\ thr'[w].part = thr[w].part
<1>. USE DEF PlaceInv, IsThread
<1>1. thr' = [thr EXCEPT ![w].at = "reduce"]
  BY DEF Erase, Goto
<1>2. thr'[w] = [at |-> "reduce", key |-> thr[w].key, data |-> thr[w].data, part |-> thr[w].part]
  BY <1>1
<1>. QED
  BY <1>1, <1>2 DEF Erase, Only

LEMMA ReduceMoves ==
  ASSUME PlaceInv, NEW w \in Slots, Reduce(w) \/ ReduceThrows(w)
  PROVE  /\ Only(w) /\ phase = "reduce" /\ phase' = phase /\ At(w, "reduce")
         /\ thr[w].part \in Shuffled /\ thr'[w].at = "claim"
<1>. USE DEF PlaceInv, IsThread
<1>1. thr' = [thr EXCEPT ![w].at = "claim", ![w].data = <<>>]
  BY DEF Reduce, ReduceThrows
<1>2. thr'[w] = [thr[w] EXCEPT !.at = "claim", !.data = <<>>]
  BY <1>1
<1>3. thr'[w] = [at |-> "claim", key |-> thr[w].key, data |-> <<>>, part |-> thr[w].part]
  BY <1>2
<1>. QED
  BY <1>1, <1>3, ZenonT(30) DEF Reduce, ReduceThrows, Reduces, Only

LEMMA InputStays ==
  ASSUME [Next]_vars
  PROVE  policy' = policy /\ cpus' = cpus /\ dir' = dir /\ openMax' = openMax
         /\ Files' = Files /\ Threads' = Threads /\ Shuffled' = Shuffled
<1>1. policy' = policy /\ cpus' = cpus /\ dir' = dir /\ openMax' = openMax
  <2>. USE DEF Input, vars
  <2>1. ASSUME NEW w \in Slots, MapStep(w) PROVE UNCHANGED Input
    BY <2>1 DEF MapStep, NextKey, GetData, GetNothing, Overrun, MapTask, MapThrows,
                OutOfFiles, CombineFails
  <2>2. ASSUME NEW w \in Slots, ReduceStep(w) PROVE UNCHANGED Input
    BY <2>2 DEF ReduceStep, Claim, Find, Erase, Crash, Reduce, ReduceThrows
  <2>3. ASSUME NEW p \in Partitions, Shuffle(p) PROVE UNCHANGED Input
    BY <2>3 DEF Shuffle
  <2>4. ASSUME JoinMaps \/ JoinShuffles \/ JoinReducers PROVE UNCHANGED Input
    BY <2>4 DEF JoinMaps, JoinShuffles, JoinReducers
  <2>. QED
    BY <2>1, <2>2, <2>3, <2>4 DEF Next, Work, Over
<1>. QED
  BY <1>1 DEF Files, Threads, Shuffled

(* the file that is being read is one of the directory's, and no name else *)
SourceShape ==
  /\ src = [next |-> src.next, current |-> src.current, opened |-> src.opened, offset |-> src.offset]
  /\ src.next \in Nat /\ src.current \in Files \cup {NoFile}
  /\ src.offset \in [DOMAIN dir -> Nat]

LEMMA KeyIsFile ==
  ASSUME PlaceInv, SourceShape, HasKey(src, dir)
  PROVE  KeyOf(src, dir) \in Files
<1>1. FilesLeft(src, dir) \subseteq Files /\ Files \subseteq Nat
  BY InputShape DEF FilesLeft, Files
<1>2. CASE src.current = NoFile
  BY <1>1, <1>2, LeastIsMember DEF HasKey, KeyOf
<1>3. CASE src.current # NoFile
  BY <1>3 DEF KeyOf, SourceShape
<1>. QED
  BY <1>2, <1>3

LEMMA PlaceInit == Init => PlaceInv
<1>. SUFFICES ASSUME Init PROVE PlaceInv
  OBVIOUS
<1>1. /\ policy \in {"sequential", "parallel"} /\ cpus \in Cpus /\ dir \in Directories
      /\ phase = "map" /\ openMax \in Nat
      /\ thr = [w \in Slots |-> [at |-> IF w \in Threads THEN "key" ELSE "done",
                                 key |-> NoFile, data |-> <<>>, part |-> 0]]
  BY DiskAssumption DEF Init
<1>2. ASSUME NEW w \in Slots
      PROVE  IsThread(thr[w]) /\ thr[w].at = IF w \in Threads THEN "key" ELSE "done"
  BY <1>1 DEF IsThread
<1>. QED
  BY <1>1, <1>2 DEF PlaceInv, At, MapPlaces

LEMMA PlaceNext ==
  ASSUME PlaceInv, SourceShape, [Next]_vars
  PROVE  PlaceInv'
<1>0. /\ policy' = policy /\ cpus' = cpus /\ dir' = dir /\ openMax' = openMax
      /\ Files' = Files /\ Threads' = Threads
  BY InputStays
<1>00. Threads \subseteq Slots
  BY ThreadsAreSlots
<1>. USE DEF At, MapPlaces, ReducePlaces
<1>1. ASSUME thr' = thr, phase' \in {phase, "aborted"} PROVE PlaceInv'
  BY <1>0, <1>1 DEF PlaceInv
<1>2. ASSUME NEW w \in Slots, MapStep(w) PROVE PlaceInv'
  <2>1. \/ thr' = thr /\ phase' = "aborted"
        \/ /\ Only(w) /\ phase = "map" /\ phase' = phase /\ ~At(w, "done")
           /\ thr'[w].at \in MapPlaces
           /\ thr'[w].at \in {"data", "task"} => thr'[w].key \in Files
    <3>1. CASE NextKey(w)
      BY <3>1, NextKeyMoves, KeyIsFile DEF PlaceInv
    <3>2. CASE GetData(w)
      BY <3>2, GetDataMoves DEF PlaceInv
    <3>3. CASE GetNothing(w)
      BY <3>3, GetNothingMoves DEF PlaceInv
    <3>4. CASE Breaks(w)
      BY <3>4, BreaksMoves
    <3>5. CASE MapTask(w)
      BY <3>5, MapTaskMoves
    <3>6. CASE MapThrows(w)
      BY <3>6, MapThrowsMoves
    <3>7. CASE CombineFails(w)
      BY <3>7, CombineFailsMoves
    <3>. QED
      BY <1>2, <3>1, <3>2, <3>3, <3>4, <3>5, <3>6, <3>7 DEF MapStep, Breaks
  <2>2. CASE /\ Only(w) /\ phase = "map" /\ phase' = phase /\ ~At(w, "done")
             /\ thr'[w].at \in MapPlaces
             /\ thr'[w].at \in {"data", "task"} => thr'[w].key \in Files
    BY <1>0, <2>2 DEF Only, PlaceInv
  <2>. QED
    BY <1>1, <2>1, <2>2
<1>3. ASSUME NEW w \in Slots, ReduceStep(w) PROVE PlaceInv'
  <2>1. \/ thr' = thr /\ phase' = "aborted"
        \/ /\ Only(w) /\ phase = "reduce" /\ phase' = phase /\ ~At(w, "done")
           /\ thr'[w].at \in ReducePlaces
    BY <1>3, ClaimMoves, FindMoves, EraseMoves, ReduceMoves
       DEF ReduceStep, Crash, Aborts
  <2>2. CASE /\ Only(w) /\ phase = "reduce" /\ phase' = phase /\ ~At(w, "done")
             /\ thr'[w].at \in ReducePlaces
    BY <1>0, <2>2 DEF Only, PlaceInv
  <2>. QED
    BY <1>1, <2>1, <2>2
<1>4. ASSUME NEW p \in Partitions, Shuffle(p) PROVE PlaceInv'
  BY <1>1, <1>4 DEF Shuffle
<1>5. CASE JoinMaps
  <2>1. CASE phase' = "aborted" /\ thr' = thr
    BY <1>1, <2>1
  <2>2. CASE phase = "map" /\ phase' = "shuffle" /\ thr' = thr /\ \A w \in Threads : At(w, "done")
    BY <1>0, <1>00, <2>2 DEF PlaceInv
  <2>. QED
    BY <1>5, <2>1, <2>2 DEF JoinMaps, Aborts
<1>6. CASE JoinShuffles
  <2>. DEFINE place == [w \in Slots |-> IF w \in Reducers THEN "claim" ELSE "done"]
  <2>1. phase' = "reduce" /\ thr' = [w \in Slots |-> [thr[w] EXCEPT !.at = place[w]]]
    BY <1>6 DEF JoinShuffles
  <2>5. \A w \in Slots : place[w] \in ReducePlaces /\ (w \notin Threads => place[w] = "done")
    BY DEF Reducers
  <2>. HIDE DEF place
  <2>3. ASSUME NEW w \in Slots PROVE IsThread(thr'[w]) /\ thr'[w].at = place[w]
    <3>1. IsThread(thr[w])
      BY DEF PlaceInv
    <3>2. thr'[w] = [thr[w] EXCEPT !.at = place[w]]
      BY <2>1
    <3>. QED
      BY <3>1, <3>2, PlaceChanged
  <2>4. thr' = [w \in Slots |-> thr'[w]]
    BY <2>1
  <2>. QED
    BY <1>0, <2>1, <2>3, <2>4, <2>5 DEF PlaceInv
<1>7. CASE JoinReducers
  BY <1>0, <1>00, <1>7 DEF JoinReducers, PlaceInv
<1>8. CASE UNCHANGED vars
  BY <1>1, <1>8 DEF vars
<1>. QED
  BY <1>2, <1>3, <1>4, <1>5, <1>6, <1>7, <1>8 DEF Next, Work, Over

(* What the calls of the datasource do to it. *)

LEMMA NextKeySource ==
  ASSUME SourceShape, NEW w \in Slots, NextKey(w)
  PROVE  /\ src' = [next |-> src'.next, current |-> src.current, opened |-> src.opened,
                    offset |-> src.offset]
         /\ src'.next = IF ~HasKey(src, dir) THEN Len(dir) + 1
                        ELSE IF src.current # NoFile THEN src.next ELSE KeyOf(src, dir) + 1
         /\ ends' = ends /\ reported' = reported
<1>. USE DEF SourceShape
<1>1. CASE ~HasKey(src, dir)
  <2>1. src' = [src EXCEPT !.next = Len(dir) + 1]
    BY <1>1 DEF NextKey, AtEnd
  <2>. QED
    BY <1>1, <2>1 DEF NextKey
<1>2. CASE HasKey(src, dir) /\ src.current # NoFile
  BY <1>2 DEF NextKey, AfterKey
<1>3. CASE HasKey(src, dir) /\ src.current = NoFile
  <2>1. src' = [src EXCEPT !.next = KeyOf(src, dir) + 1]
    BY <1>3 DEF NextKey, AfterKey
  <2>. QED
    BY <1>3, <2>1 DEF NextKey
<1>. QED
  BY <1>1, <1>2, <1>3

(* the segment that thread w reads *)
NewSegment(w) ==
  [file |-> thr[w].key, from |-> src.offset[thr[w].key], to |-> SegmentEnd(src, dir, thr[w].key)]

LEMMA GetDataSource ==
  ASSUME SourceShape, NEW w \in Slots, GetData(w)
  PROVE  \/ /\ phase' = "aborted" /\ UNCHANGED <<src, thr, ends, reported>>
            /\ src.current \notin {NoFile, thr[w].key}
         \/ /\ phase' = phase /\ reported'
            /\ src' = [next |-> src.next, current |-> thr[w].key, opened |-> src.opened,
                       offset |-> src.offset]
            /\ ends' = ends
         \/ /\ phase' = phase /\ reported' = reported
            /\ src.current \in {NoFile, thr[w].key}
            /\ src' = [next |-> src.next,
                       current |-> IF Reach(src, dir, thr[w].key) = Len(dir[thr[w].key])
                                   THEN NoFile ELSE thr[w].key,
                       opened |-> src.opened \union {thr[w].key},
                       offset |-> [src.offset EXCEPT ![thr[w].key] = NewSegment(w).to]]
            /\ ends' = ends \union {NewSegment(w)}
<1>. USE DEF SourceShape
<1>. DEFINE k == thr[w].key
<1>1. CASE AssertFails(src, k)
  BY <1>1 DEF GetData, Aborts, AssertFails
<1>2. CASE ~AssertFails(src, k) /\ reported' /\ src' = AfterFailure(src, k) /\ ends' = ends
  <2>1. src' = [src EXCEPT !.current = k] /\ phase' = phase /\ reported' /\ ends' = ends
    BY <1>2 DEF GetData, AfterFailure
  <2>. QED
    BY <2>1
<1>3. CASE ~AssertFails(src, k) /\ ~(reported' /\ src' = AfterFailure(src, k) /\ ends' = ends)
  <2>1. /\ src' = AfterData(src, dir, k)
        /\ ends' = ends \union {NewSegment(w)}
        /\ reported' = reported /\ phase' = phase
    BY <1>3 DEF GetData, GivesUp, NewSegment
  <2>. DEFINE e == SegmentEnd(src, dir, k)
              c == IF Reach(src, dir, k) = Len(dir[k]) THEN NoFile ELSE k
              o == src.opened \union {k}
  <2>2. src' = [src EXCEPT !.current = c, !.opened = o, !.offset[k] = e]
    BY <2>1, Zenon DEF AfterData
  <2>. HIDE DEF e, c, o, k
  <2>3. src' = [next |-> src.next, current |-> c, opened |-> o, offset |-> [src.offset EXCEPT ![k] = e]]
    BY <2>2
  <2>4. NewSegment(w).to = e
    BY DEF NewSegment, e, k
  <2>5. src.current \in {NoFile, k}
    BY <1>3 DEF AssertFails, k
  <2>6. src'.opened = o
    BY <2>3
  <2>. QED
    BY <2>1, <2>3, <2>4, <2>5, <2>6 DEF c, k, o
<1>. QED
  BY <1>1, <1>2, <1>3

LEMMA GetNothingSource ==
  ASSUME SourceShape, NEW w \in Slots, GetNothing(w)
  PROVE  /\ src' = [next |-> src.next, current |-> NoFile, opened |-> src.opened, offset |-> src.offset]
         /\ src'.next = src.next /\ src'.current = NoFile /\ src'.opened = src.opened
         /\ src'.offset = src.offset
         /\ ends' = ends /\ reported' = reported
<1>1. src' = [src EXCEPT !.current = NoFile]
  BY DEF GetNothing, PutAway
<1>2. src' = [next |-> src.next, current |-> NoFile, opened |-> src.opened, offset |-> src.offset]
  BY <1>1 DEF SourceShape
<1>. QED
  BY <1>2 DEF GetNothing

(* A segment goes on from where the last one ended to the end of a line. *)
LEMMA SegmentBounds ==
  ASSUME PlaceInv, SourceShape, NEW f \in Files, src.offset[f] <= Len(dir[f])
  PROVE  /\ SegmentEnd(src, dir, f) \in LineEnds(f)
         /\ src.offset[f] <= SegmentEnd(src, dir, f) /\ SegmentEnd(src, dir, f) <= Len(dir[f])
         /\ Reach(src, dir, f) = Len(dir[f]) => SegmentEnd(src, dir, f) = Len(dir[f])
         /\ Reach(src, dir, f) # Len(dir[f]) => Segment < Len(dir[f])
<1>. DEFINE n == Len(dir[f])
            o == src.offset[f]
            r == Reach(src, dir, f)
            stops == {i \in r .. n : i = n \/ dir[f][i + 1] = Newline}
<1>1. n \in Nat /\ o \in Nat /\ o <= n
  BY InputShape DEF SourceShape, Files
<1>2. r = Min({o + Segment, n})
  BY DEF Reach
<1>3. r \in Nat /\ r <= o + Segment /\ r <= n /\ (r = o + Segment \/ r = n) /\ o <= r
  <2>. DEFINE S == {o + Segment, n}
  <2>1. S \subseteq Nat /\ S # {}
    BY <1>1
  <2>2. Min(S) \in S /\ \A y \in S : Min(S) <= y
    BY <2>1, LeastIsMember
  <2>. QED
    BY <1>1, <1>2, <2>2
<1>4. SegmentEnd(src, dir, f) = Min(stops)
  BY DEF SegmentEnd, LineEnd
<1>. HIDE DEF o, r
<1>5. stops \subseteq Nat /\ n \in stops
  BY <1>1, <1>3
<1>. DEFINE e == Min(stops)
<1>6. e \in stops
  BY <1>5, LeastIsMember
<1>7. e \in LineEnds(f)
  BY <1>1, <1>3, <1>6 DEF LineEnds
<1>8. e \in Nat /\ r <= e /\ e <= n
  BY <1>1, <1>3, <1>6
<1>. HIDE DEF e, stops
<1>9. r = n => e = n
  BY <1>1, <1>3, <1>8
<1>10. o <= e
  BY <1>1, <1>3, <1>8
<1>11. r # n => Segment < n
  BY <1>1, <1>3
<1>12. SegmentEnd(src, dir, f) = e
  BY <1>4 DEF e
<1>. HIDE DEF n
<1>. QED
  BY <1>7, <1>8, <1>9, <1>10, <1>11, <1>12 DEF o, r, n

(* What has been handed out of a file, in segments that do not overlap, is all that was
   read of it. *)
DividedInv ==
  /\ \A f \in Files : src.offset[f] \in LineEnds(f)
  /\ \A s \in ends : /\ s.file \in Files /\ s.from \in LineEnds(s.file) /\ s.to \in LineEnds(s.file)
                     /\ s.from <= s.to /\ s.to <= src.offset[s.file]
  /\ \A s, t \in ends : s.file = t.file /\ s # t => Range1(s) \intersect Range1(t) = {}
  /\ \A f \in Files : \A i \in Nat \ {0} :
       i <= src.offset[f] <=> \E s \in ends : s.file = f /\ i \in Range1(s)

(* Until an error is met a file that has been begun is read to its end, since some thread
   goes on with it, and no thread is done before that. *)
InHand(f) == src.current = f \/ \E w \in Slots : At(w, "data") /\ thr[w].key = f
ReadOnInv ==
  ~reported =>
    /\ src.current \in src.opened \union {NoFile}
    /\ phase = "map" =>
         /\ \A f \in Files : f >= src.next \/ src.offset[f] = Len(dir[f]) \/ InHand(f)
         /\ (\E w \in Threads : At(w, "done")) => FilesLeft(src, dir) = {}
         /\ src.current # NoFile => \E w \in Threads : ~At(w, "done")
    /\ phase \in {"shuffle", "reduce", "ended"} => \A f \in Files : src.offset[f] = Len(dir[f])

LEMMA LineEndsShape ==
  ASSUME PlaceInv, NEW f \in Files
  PROVE  /\ LineEnds(f) \subseteq Nat /\ 0 \in LineEnds(f)
         /\ Len(dir[f]) \in Nat /\ \A i \in LineEnds(f) : i <= Len(dir[f])
BY InputShape DEF LineEnds

LEMMA DividedStays ==
  ASSUME PlaceInv, DividedInv, dir' = dir, src'.offset = src.offset, ends' = ends
  PROVE  DividedInv'
<1>1. Files' = Files /\ \A f \in Files : LineEnds(f)' = LineEnds(f)
  BY DEF Files, LineEnds
<1>. QED
  BY <1>1 DEF DividedInv, Range1

LEMMA DividedGrows ==
  ASSUME PlaceInv, SourceShape, DividedInv, dir' = dir, NEW w \in Slots, thr[w].key \in Files,
         src'.offset = [src.offset EXCEPT ![thr[w].key] = NewSegment(w).to],
         ends' = ends \union {NewSegment(w)}
  PROVE  DividedInv'
<1>. DEFINE k == thr[w].key
            o == src.offset[k]
            e == SegmentEnd(src, dir, k)
            new == NewSegment(w)
<1>1. Files' = Files /\ \A f \in Files : LineEnds(f)' = LineEnds(f)
  BY DEF Files, LineEnds
<1>2. new.file = k /\ new.from = o /\ new.to = e
  BY DEF NewSegment
<1>3. \A f \in Files : LineEnds(f) \subseteq Nat /\ \A i \in LineEnds(f) : i <= Len(dir[f])
  BY LineEndsShape
<1>4. o \in LineEnds(k) /\ e \in LineEnds(k) /\ o <= e /\ o \in Nat /\ e \in Nat
  <2>1. o \in LineEnds(k)
    BY DEF DividedInv
  <2>2. e \in LineEnds(k) /\ o <= e
    BY <1>3, <2>1, SegmentBounds
  <2>. QED
    BY <1>3, <2>1, <2>2
<1>5. k \in Files /\ k \in DOMAIN dir
  BY DEF Files
<1>. HIDE DEF k, o, e, new
<1>6. src'.offset[k] = e /\ \A f \in Files : f # k => src'.offset[f] = src.offset[f]
  BY <1>2, <1>5 DEF SourceShape, k, new, Files
<1>7. ends' = ends \union {new}
  BY DEF new
<1>8. o = src.offset[k]
  BY DEF o
<1>9. \A f \in Files : src'.offset[f] \in LineEnds(f) /\ src'.offset[f] \in Nat /\ src.offset[f] \in Nat
                       /\ src.offset[f] <= src'.offset[f]
  BY <1>3, <1>4, <1>6, <1>8 DEF DividedInv
<1>10. \A s \in ends' : /\ s.file \in Files /\ s.from \in LineEnds(s.file) /\ s.to \in LineEnds(s.file)
                        /\ s.from <= s.to /\ s.to <= src'.offset[s.file]
  <2>1. ASSUME NEW s \in ends
        PROVE  /\ s.file \in Files /\ s.from \in LineEnds(s.file) /\ s.to \in LineEnds(s.file)
               /\ s.from <= s.to /\ s.to <= src'.offset[s.file]
    BY <1>3, <1>9, <2>1 DEF DividedInv
  <2>2. /\ new.file \in Files /\ new.from \in LineEnds(new.file) /\ new.to \in LineEnds(new.file)
        /\ new.from <= new.to /\ new.to <= src'.offset[new.file]
    BY <1>2, <1>4, <1>5, <1>6
  <2>. QED
    BY <1>7, <2>1, <2>2
<1>11. \A s \in ends : s.file = k => s.to \in Nat /\ s.to <= o
  BY <1>3, <1>5, <1>8 DEF DividedInv
<1>12. \A s \in ends : s.file = k => Range1(s) \intersect Range1(new) = {}
  <2>1. SUFFICES ASSUME NEW s \in ends, s.file = k, NEW i \in Range1(s), i \in Range1(new) PROVE FALSE
    OBVIOUS
  <2>2. s.from \in Nat /\ s.to \in Nat /\ s.to <= o
    BY <1>3, <1>5, <1>11, <2>1 DEF DividedInv
  <2>3. i \in (s.from + 1)..s.to /\ i \in (o + 1)..e
    BY <1>2, <2>1 DEF Range1
  <2>. QED
    BY <1>4, <2>2, <2>3
<1>13. \A s, t \in ends' : s.file = t.file /\ s # t => Range1(s) \intersect Range1(t) = {}
  BY <1>2, <1>7, <1>12 DEF DividedInv
<1>14. ASSUME NEW f \in Files, NEW i \in Nat \ {0}
       PROVE  i <= src'.offset[f] <=> \E s \in ends' : s.file = f /\ i \in Range1(s)
  <2>1. i <= src.offset[f] <=> \E s \in ends : s.file = f /\ i \in Range1(s)
    BY DEF DividedInv
  <2>2. CASE f # k
    BY <1>2, <1>6, <1>7, <2>1, <2>2
  <2>3. CASE f = k
    <3>1. i \in Range1(new) <=> o < i /\ i <= e
      BY <1>2, <1>4 DEF Range1
    <3>2. i <= e <=> i <= o \/ (o < i /\ i <= e)
      BY <1>4
    <3>. QED
      BY <1>2, <1>6, <1>7, <1>8, <2>1, <2>3, <3>1, <3>2
  <2>. QED
    BY <2>2, <2>3
<1>. QED
  BY <1>1, <1>9, <1>10, <1>13, <1>14 DEF DividedInv, Range1

(* Only the calls of the datasource change what it has handed out. *)
LEMMA SourceStays ==
  ASSUME [Next]_vars, ~ \E w \in Slots : NextKey(w) \/ GetData(w) \/ GetNothing(w)
  PROVE  src' = src /\ ends' = ends
<1>0. ASSUME NEW w \in Slots, Breaks(w) PROVE src' = src /\ ends' = ends
  BY <1>0, BreaksMoves
<1>1. ASSUME NEW w \in Slots, MapTask(w) \/ MapThrows(w) \/ CombineFails(w) \/ ReduceStep(w)
      PROVE  src' = src /\ ends' = ends
  BY <1>1 DEF MapTask, MapThrows, CombineFails, ReduceStep, Claim, Find, Erase, Crash, Aborts, Reduce, ReduceThrows
<1>2. ASSUME NEW p \in Partitions, Shuffle(p) PROVE src' = src /\ ends' = ends
  BY <1>2 DEF Shuffle
<1>3. ASSUME JoinMaps \/ JoinShuffles \/ JoinReducers PROVE src' = src /\ ends' = ends
  BY <1>3 DEF JoinMaps, JoinShuffles, JoinReducers, Aborts
<1>. QED
  BY <1>0, <1>1, <1>2, <1>3 DEF Next, Work, MapStep, Breaks, Over, vars

LEMMA SourceInit == Init => SourceShape /\ DividedInv
<1>. SUFFICES ASSUME Init PROVE SourceShape /\ DividedInv
  OBVIOUS
<1>1. PlaceInv
  BY PlaceInit
<1>2. src = [next |-> 1, current |-> NoFile, opened |-> {}, offset |-> [i \in DOMAIN dir |-> 0]] /\ ends = {}
  BY DEF Init, Opening, NoSource
<1>3. SourceShape
  BY <1>2 DEF SourceShape
<1>4. \A f \in Files : src.offset[f] = 0
  BY <1>2 DEF Files
<1>. QED
  BY <1>1, <1>2, <1>3, <1>4, LineEndsShape DEF DividedInv

LEMMA SourceNext ==
  ASSUME PlaceInv, SourceShape, DividedInv, [Next]_vars
  PROVE  SourceShape' /\ DividedInv'
<1>0. dir' = dir /\ Files' = Files
  BY InputStays
<1>1. CASE ~ \E w \in Slots : NextKey(w) \/ GetData(w) \/ GetNothing(w)
  BY <1>0, <1>1, SourceStays, DividedStays DEF SourceShape
<1>4. ASSUME NEW w \in Slots, GetNothing(w) PROVE SourceShape' /\ DividedInv'
  BY <1>0, <1>4, GetNothingSource, DividedStays DEF SourceShape
<1>2. ASSUME NEW w \in Slots, NextKey(w) PROVE SourceShape' /\ DividedInv'
  <2>1. /\ src' = [next |-> src'.next, current |-> src.current, opened |-> src.opened,
                   offset |-> src.offset]
        /\ src'.next = (IF ~HasKey(src, dir) THEN Len(dir) + 1
                        ELSE IF src.current # NoFile THEN src.next ELSE KeyOf(src, dir) + 1)
        /\ ends' = ends
    BY <1>2, NextKeySource
  <2>2. Len(dir) \in Nat
    BY InputShape
  <2>3. src'.next \in Nat
    BY <2>1, <2>2, KeyIsFile, InputShape DEF SourceShape
  <2>4. src'.current = src.current /\ src'.offset = src.offset /\ src'.opened = src.opened
    BY <2>1
  <2>5. SourceShape'
    BY <1>0, <2>1, <2>3, <2>4 DEF SourceShape
  <2>. QED
    BY <1>0, <2>1, <2>4, <2>5, DividedStays
<1>3. ASSUME NEW w \in Slots, GetData(w) PROVE SourceShape' /\ DividedInv'
  <2>. DEFINE k == thr[w].key
  <2>0. k \in Files
    BY <1>3 DEF GetData, PlaceInv, At
  <2>1. CASE src' = src /\ ends' = ends
    BY <1>0, <2>1, DividedStays DEF SourceShape
  <2>2. CASE /\ src' = [next |-> src.next, current |-> k, opened |-> src.opened, offset |-> src.offset]
             /\ ends' = ends
    <3>. HIDE DEF k
    <3>1. src'.offset = src.offset /\ src'.next = src.next /\ src'.current = k /\ src'.opened = src.opened
      BY <2>2
    <3>2. SourceShape'
      BY <1>0, <2>0, <2>2, <3>1 DEF SourceShape
    <3>. QED
      BY <1>0, <2>2, <3>1, <3>2, DividedStays
  <2>3. CASE /\ src' = [next |-> src.next,
                        current |-> IF Reach(src, dir, k) = Len(dir[k]) THEN NoFile ELSE k,
                        opened |-> src.opened \union {k},
                        offset |-> [src.offset EXCEPT ![k] = NewSegment(w).to]]
             /\ ends' = ends \union {NewSegment(w)}
    <3>. DEFINE c == IF Reach(src, dir, k) = Len(dir[k]) THEN NoFile ELSE k
                offset == [src.offset EXCEPT ![k] = NewSegment(w).to]
                o == src.opened \union {k}
    <3>1. src' = [next |-> src.next, current |-> c, opened |-> o, offset |-> offset]
      BY <2>3
    <3>2. c \in Files \cup {NoFile}
      BY <2>0
    <3>3. offset \in [DOMAIN dir -> Nat]
      <4>1. src.offset[k] <= Len(dir[k])
        BY <2>0, LineEndsShape DEF DividedInv
      <4>2. SegmentEnd(src, dir, k) \in Nat
        BY <2>0, <4>1, SegmentBounds, LineEndsShape
      <4>. QED
        BY <4>2 DEF SourceShape, NewSegment
    <3>. HIDE DEF c, offset, o
    <3>4. src'.next = src.next /\ src'.current = c /\ src'.offset = offset /\ src'.opened = o
      BY <3>1
    <3>5. SourceShape'
      BY <1>0, <3>1, <3>2, <3>3, <3>4 DEF SourceShape
    <3>6. DividedInv'
      BY <1>0, <2>0, <2>3, <3>4, DividedGrows DEF offset
    <3>. QED
      BY <3>5, <3>6
  <2>. QED
    BY <1>3, <2>1, <2>2, <2>3, GetDataSource
<1>. QED
  BY <1>1, <1>2, <1>3, <1>4

LEMMA ErrorsStay ==
  ASSUME [Next]_vars, ~reported'
  PROVE  ~reported
<1>1. ASSUME NEW w \in Slots, MapStep(w) PROVE reported => reported'
  BY <1>1, BreaksMoves DEF MapStep, Breaks, NextKey, GetData, GetNothing, GivesUp, Aborts,
                           MapTask, MapThrows, CombineFails
<1>2. ASSUME NEW w \in Slots, ReduceStep(w) PROVE reported => reported'
  BY <1>2 DEF ReduceStep, Claim, Find, Erase, Crash, Aborts, Reduce, ReduceThrows
<1>3. ASSUME NEW p \in Partitions, Shuffle(p) PROVE reported => reported'
  BY <1>3 DEF Shuffle
<1>4. ASSUME JoinMaps \/ JoinShuffles \/ JoinReducers PROVE reported => reported'
  BY <1>4 DEF JoinMaps, JoinShuffles, JoinReducers, Aborts
<1>. QED
  BY <1>1, <1>2, <1>3, <1>4 DEF Next, Work, Over, vars

(* Threads that move without taking a segment in hand or giving one up. *)
LEMMA ReadOnStays ==
  ASSUME PlaceInv, ReadOnInv, dir' = dir, policy' = policy, cpus' = cpus, src' = src,
         ~reported' => ~reported,
         phase' = phase \/ phase' = "aborted"
                        \/ (phase # "map" /\ phase # "aborted" /\ phase' # "map"),
         NEW w \in Slots, \A v \in Slots : v # w => thr'[v] = thr[v],
         phase' = "map" => ~At(w, "data") /\ thr'[w].at # "done"
  PROVE  ReadOnInv'
<1>1. Files' = Files /\ Threads' = Threads /\ Threads \subseteq Slots
  BY ThreadsAreSlots DEF Files, Threads
<1>. SUFFICES ASSUME ~reported' PROVE ReadOnInv'
  BY DEF ReadOnInv
<1>0. src'.current \in src'.opened \union {NoFile}
  BY DEF ReadOnInv
<1>2. CASE phase' = "map"
  <2>1. phase = "map"
    BY <1>2
  <2>2. \A f \in Files : InHand(f) => InHand(f)'
    BY <1>2 DEF InHand, At
  <2>3. \A v \in Slots : At(v, "done")' => At(v, "done")
    BY <1>2 DEF At
  <2>4. \A v \in Slots : ~At(v, "done") => ~At(v, "done")'
    BY <1>2 DEF At
  <2>5. FilesLeft(src, dir)' = FilesLeft(src, dir)
    BY DEF FilesLeft
  <2>. QED
    BY <1>0, <1>1, <1>2, <2>1, <2>2, <2>3, <2>4, <2>5 DEF ReadOnInv
<1>3. CASE phase' \in {"shuffle", "reduce", "ended"}
  <2>1. phase \in {"shuffle", "reduce", "ended"}
    BY <1>3 DEF PlaceInv
  <2>. QED
    BY <1>0, <1>1, <1>3, <2>1 DEF ReadOnInv
<1>4. CASE phase' \notin {"map", "shuffle", "reduce", "ended"}
  BY <1>0, <1>4 DEF ReadOnInv
<1>. QED
  BY <1>2, <1>3, <1>4

(* A key that is new is that of the next file, so no file is passed over. *)
LEMMA ReadOnNextKey ==
  ASSUME PlaceInv, SourceShape, ReadOnInv, [Next]_vars, NEW w \in Slots, NextKey(w)
  PROVE  ReadOnInv'
<1>. SUFFICES ASSUME ~reported' PROVE ReadOnInv'
  BY DEF ReadOnInv
<1>1. /\ Files' = Files /\ Threads' = Threads /\ Threads \subseteq Slots /\ dir' = dir
      /\ ~reported
  BY ThreadsAreSlots, InputStays, ErrorsStay
<1>2. /\ src'.current = src.current /\ src'.offset = src.offset /\ src'.opened = src.opened
      /\ src'.next = IF ~HasKey(src, dir) THEN Len(dir) + 1
                     ELSE IF src.current # NoFile THEN src.next ELSE KeyOf(src, dir) + 1
  <2>1. /\ src' = [next |-> src'.next, current |-> src.current, opened |-> src.opened,
                   offset |-> src.offset]
        /\ src'.next = (IF ~HasKey(src, dir) THEN Len(dir) + 1
                        ELSE IF src.current # NoFile THEN src.next ELSE KeyOf(src, dir) + 1)
    BY NextKeySource
  <2>2. src'.current = src.current /\ src'.offset = src.offset /\ src'.opened = src.opened
    BY <2>1
  <2>. QED
    BY <2>1, <2>2
<1>3. /\ \A v \in Slots : v # w => thr'[v] = thr[v]
      /\ phase = "map" /\ phase' = "map" /\ At(w, "key")
      /\ \/ HasKey(src, dir) /\ thr'[w].at = "data" /\ thr'[w].key = KeyOf(src, dir)
         \/ ~HasKey(src, dir) /\ thr'[w].at = "done"
  BY NextKeyMoves DEF Only
<1>4. /\ Files \subseteq Nat /\ src.next \in Nat /\ FilesLeft(src, dir) = {f \in Files : f >= src.next}
      /\ FilesLeft(src, dir)' = {f \in Files : f >= src'.next} /\ Len(dir) \in Nat
      /\ \A f \in Files : f <= Len(dir)
  <2>1. dir \in Seq(Seq(Words \union {Newline}) \union {Directory}) /\ Files \subseteq Nat
    BY InputShape
  <2>. QED
    BY <1>1, <2>1 DEF FilesLeft, Files, SourceShape
<1>5. \A f \in Files : InHand(f) => InHand(f)'
  <2>1. \A v \in Slots : At(v, "data") => v # w /\ At(v, "data")' /\ thr'[v].key = thr[v].key
    BY <1>3 DEF At
  <2>. QED
    BY <1>2, <2>1 DEF InHand
<1>6. ASSUME NEW f \in Files PROVE f >= src'.next \/ src'.offset[f] = Len(dir[f]) \/ InHand(f)'
  <2>1. f >= src.next \/ src.offset[f] = Len(dir[f]) \/ InHand(f)
    BY <1>1, <1>3 DEF ReadOnInv
  <2>2. CASE src.offset[f] = Len(dir[f]) \/ InHand(f)
    BY <1>2, <1>5, <2>2
  <2>3. CASE f >= src.next /\ ~HasKey(src, dir)
    BY <1>4, <2>3 DEF HasKey
  <2>4. CASE f >= src.next /\ HasKey(src, dir) /\ src.current # NoFile
    BY <1>2, <2>4
  <2>5. CASE f >= src.next /\ HasKey(src, dir) /\ src.current = NoFile
    <3>1. KeyOf(src, dir) = Min(FilesLeft(src, dir))
      BY <2>5 DEF KeyOf
    <3>2. FilesLeft(src, dir) \subseteq Nat /\ FilesLeft(src, dir) # {} /\ f \in FilesLeft(src, dir)
      BY <1>4, <2>5
    <3>3. KeyOf(src, dir) \in Nat /\ KeyOf(src, dir) <= f
      BY <3>1, <3>2, LeastIsMember
    <3>4. CASE f = KeyOf(src, dir)
      BY <1>3, <2>5, <3>4 DEF InHand, At
    <3>5. CASE f # KeyOf(src, dir)
      BY <1>2, <1>4, <2>5, <3>3, <3>5
    <3>. QED
      BY <3>4, <3>5
  <2>. QED
    BY <2>1, <2>2, <2>3, <2>4, <2>5
<1>7. ASSUME \E v \in Threads : At(v, "done")' PROVE FilesLeft(src, dir)' = {}
  <2>1. CASE HasKey(src, dir)
    <3>1. \E v \in Threads : At(v, "done")
      BY <1>1, <1>3, <1>7, <2>1 DEF At
    <3>2. FilesLeft(src, dir) = {}
      BY <1>1, <1>3, <3>1 DEF ReadOnInv
    <3>3. src'.next = src.next
      BY <1>2, <2>1, <3>2 DEF HasKey
    <3>. QED
      BY <1>4, <3>2, <3>3
  <2>2. CASE ~HasKey(src, dir)
    <3>1. src'.next = Len(dir) + 1
      BY <1>2, <2>2
    <3>2. \A f \in Files : ~(f >= src'.next)
      BY <1>4, <3>1
    <3>. QED
      BY <1>4, <3>2, Zenon
  <2>. QED
    BY <2>1, <2>2
<1>8. ASSUME src'.current # NoFile PROVE \E v \in Threads : ~At(v, "done")'
  <2>1. HasKey(src, dir)
    BY <1>2, <1>8 DEF HasKey
  <2>2. thr'[w].at = "data" /\ w \in Threads
    BY <1>3, <2>1 DEF PlaceInv, At
  <2>. QED
    BY <2>2 DEF At
<1>. QED
  BY <1>1, <1>2, <1>3, <1>6, <1>7, <1>8 DEF ReadOnInv

LEMMA ReadOnGetData ==
  ASSUME PlaceInv, SourceShape, DividedInv, ReadOnInv, [Next]_vars, NEW w \in Slots, GetData(w)
  PROVE  ReadOnInv'
<1>. SUFFICES ASSUME ~reported' PROVE ReadOnInv'
  BY DEF ReadOnInv
<1>. DEFINE k == thr[w].key
<1>1. /\ Files' = Files /\ Threads' = Threads /\ Threads \subseteq Slots /\ dir' = dir
      /\ ~reported
  BY ThreadsAreSlots, InputStays, ErrorsStay
<1>2. phase = "map" /\ At(w, "data") /\ k \in Files /\ w \in Threads
  BY DEF GetData, PlaceInv, At
<1>3. CASE phase' = "aborted"
  BY <1>1, <1>2, <1>3, GetDataSource DEF ReadOnInv
<1>4. CASE phase' # "aborted"
  <2>1. /\ phase' = "map" /\ thr'[w].at = "task"
        /\ \A v \in Slots : v # w => thr'[v] = thr[v]
    BY <1>2, <1>4, GetDataMoves DEF Only
  <2>2. /\ src.current \in {NoFile, k}
        /\ src' = [next |-> src.next,
                   current |-> IF Reach(src, dir, k) = Len(dir[k]) THEN NoFile ELSE k,
                   opened |-> src.opened \union {k},
                   offset |-> [src.offset EXCEPT ![k] = NewSegment(w).to]]
    BY <1>4, GetDataSource
  <2>3. src.offset[k] <= Len(dir[k]) /\ k \in DOMAIN src.offset
    BY <1>2, LineEndsShape DEF DividedInv, SourceShape, Files
  <2>4. Reach(src, dir, k) = Len(dir[k]) => NewSegment(w).to = Len(dir[k])
    BY <1>2, <2>3, SegmentBounds DEF NewSegment
  <2>. DEFINE c == IF Reach(src, dir, k) = Len(dir[k]) THEN NoFile ELSE k
              e == NewSegment(w).to
              o == src.opened \union {k}
  <2>10. c \in o \union {NoFile}
    OBVIOUS
  <2>. HIDE DEF k, c, e, o
  <2>5. /\ src'.next = src.next /\ src'.current = c /\ src'.offset[k] = e /\ src'.opened = o
        /\ \A f \in Files : f # k => src'.offset[f] = src.offset[f]
    <3>1. src' = [next |-> src.next, current |-> c, opened |-> o,
                  offset |-> [src.offset EXCEPT ![k] = e]]
      BY <2>2 DEF c, e, o
    <3>2. /\ src'.next = src.next /\ src'.current = c /\ src'.offset = [src.offset EXCEPT ![k] = e]
          /\ src'.opened = o
      BY <3>1
    <3>. QED
      BY <2>3, <3>2
  <2>6. e = Len(dir[k]) \/ c = k
    BY <2>4 DEF c, e
  <2>7. ASSUME NEW f \in Files
        PROVE  f >= src'.next \/ src'.offset[f] = Len(dir[f]) \/ InHand(f)'
    <3>1. CASE f = k
      BY <2>5, <2>6, <3>1 DEF InHand
    <3>2. CASE f # k
      <4>1. f >= src.next \/ src.offset[f] = Len(dir[f]) \/ InHand(f)
        BY <1>1, <1>2 DEF ReadOnInv
      <4>2. ASSUME InHand(f) PROVE InHand(f)'
        <5>1. PICK v \in Slots : At(v, "data") /\ thr[v].key = f
          BY <2>2, <3>2, <4>2, InputShape DEF InHand
        <5>2. v # w
          BY <3>2, <5>1 DEF k
        <5>. QED
          BY <2>1, <5>1, <5>2 DEF InHand, At
      <4>. QED
        BY <2>5, <3>2, <4>1, <4>2
    <3>. QED
      BY <3>1, <3>2
  <2>8. ASSUME \E v \in Threads : At(v, "done")' PROVE FilesLeft(src, dir)' = {}
    <3>1. \E v \in Threads : At(v, "done")
      BY <1>1, <2>1, <2>8 DEF At
    <3>. QED
      BY <1>1, <1>2, <2>5, <3>1 DEF ReadOnInv, FilesLeft
  <2>9. ~At(w, "done")'
    BY <2>1 DEF At
  <2>. QED
    BY <1>1, <1>2, <2>1, <2>5, <2>7, <2>8, <2>9, <2>10 DEF ReadOnInv
<1>. QED
  BY <1>3, <1>4

(* No file is without its data until an error has been met. *)
LEMMA NothingAfterError ==
  ASSUME PlaceInv, ReadOnInv, NEW w \in Slots, GetNothing(w)
  PROVE  reported
<1>1. thr[w].key \in Files /\ src.current = thr[w].key /\ thr[w].key \notin src.opened
  BY DEF GetNothing, Unmapped, PlaceInv, At
<1>. QED
  BY <1>1, InputShape DEF ReadOnInv

LEMMA ReadOnInit == Init => ReadOnInv
<1>. SUFFICES ASSUME Init PROVE ReadOnInv
  OBVIOUS
<1>1. PlaceInv
  BY PlaceInit
<1>2. src = [next |-> 1, current |-> NoFile, opened |-> {}, offset |-> [i \in DOMAIN dir |-> 0]]
      /\ phase = "map"
  BY DEF Init, Opening, NoSource
<1>3. src.next = 1 /\ src.current = NoFile
  BY <1>2
<1>4. \A f \in Files : f >= src.next
  BY <1>1, <1>3, InputShape
<1>5. \A w \in Threads : ~At(w, "done")
  BY <1>1, ThreadsAreSlots DEF Init, At
<1>. QED
  BY <1>2, <1>3, <1>4, <1>5 DEF ReadOnInv

LEMMA ReadOnNext ==
  ASSUME PlaceInv, SourceShape, DividedInv, ReadOnInv, [Next]_vars
  PROVE  ReadOnInv'
<1>1. CASE \E w \in Slots : NextKey(w) \/ GetData(w)
  BY <1>1, ReadOnNextKey, ReadOnGetData
<1>3. ASSUME NEW w \in Slots, GetNothing(w) PROVE ReadOnInv'
  BY <1>3, NothingAfterError, ErrorsStay DEF ReadOnInv
<1>2. CASE ~ \E w \in Slots : NextKey(w) \/ GetData(w) \/ GetNothing(w)
  <2>1. /\ src' = src /\ dir' = dir /\ policy' = policy /\ cpus' = cpus
        /\ ~reported' => ~reported
    BY <1>2, SourceStays, InputStays, ErrorsStay
  <2>2. 1 \in Slots
    BY ThreadsAreSlots
  <2>3. ASSUME thr' = thr,
               \/ phase' = phase /\ phase # "map"
               \/ phase' = "aborted"
               \/ phase # "map" /\ phase # "aborted" /\ phase' # "map"
        PROVE  ReadOnInv'
    BY <2>1, <2>2, <2>3, ReadOnStays
  <2>4. ASSUME NEW w \in Slots, MapTask(w) PROVE ReadOnInv'
    <3>1. Only(w) /\ phase' = phase /\ At(w, "task") /\ thr'[w].at = "key"
      BY <2>4, MapTaskMoves
    <3>. QED
      BY <2>1, <3>1, ReadOnStays DEF Only, At
  <2>5. ASSUME NEW w \in Slots, MapThrows(w) \/ CombineFails(w) PROVE ReadOnInv'
    BY <2>5, MapThrowsMoves, CombineFailsMoves DEF ReadOnInv
  <2>11. ASSUME NEW w \in Slots, Breaks(w) PROVE ReadOnInv'
    BY <2>3, <2>11, BreaksMoves
  <2>6. ASSUME NEW w \in Slots, ReduceStep(w) PROVE ReadOnInv'
    <3>1. \/ thr' = thr /\ phase' = "aborted"
          \/ Only(w) /\ phase = "reduce" /\ phase' = phase
      BY <2>6, ClaimMoves, FindMoves, EraseMoves, ReduceMoves DEF ReduceStep, Crash, Aborts
    <3>. QED
      BY <2>1, <2>3, <3>1, ReadOnStays DEF Only
  <2>7. ASSUME NEW p \in Partitions, Shuffle(p) PROVE ReadOnInv'
    BY <2>3, <2>7 DEF Shuffle, Unmerged
  <2>8. CASE JoinMaps
    <3>1. CASE phase' = "aborted"
      BY <2>1, <3>1 DEF ReadOnInv
    <3>2. CASE phase' # "aborted" /\ ~reported'
      <4>1. /\ phase = "map" /\ phase' = "shuffle" /\ ~reported
            /\ \A w \in Threads : At(w, "done")
        BY <2>1, <2>8, <3>2 DEF JoinMaps, Aborts
      <4>2. FilesLeft(src, dir) = {} /\ src.current = NoFile
        BY <4>1, ThreadsAreSlots DEF ReadOnInv
      <4>3. ASSUME NEW f \in Files PROVE src.offset[f] = Len(dir[f])
        <5>1. f >= src.next \/ src.offset[f] = Len(dir[f]) \/ InHand(f)
          BY <4>1 DEF ReadOnInv
        <5>2. ~(f >= src.next)
          BY <4>2 DEF FilesLeft, Files
        <5>3. ~InHand(f)
          BY <4>1, <4>2, InputShape DEF InHand, PlaceInv, At
        <5>. QED
          BY <5>1, <5>2, <5>3
      <4>. QED
        BY <2>1, <4>1, <4>3, InputStays DEF ReadOnInv
    <3>. QED
      BY <3>1, <3>2 DEF ReadOnInv
  <2>9. CASE JoinShuffles \/ JoinReducers
    <3>1. phase \in {"shuffle", "reduce"} /\ phase' \in {"reduce", "ended"}
      BY <2>9 DEF JoinShuffles, JoinReducers
    <3>. QED
      BY <2>1, <3>1, InputStays DEF ReadOnInv
  <2>10. CASE UNCHANGED vars
    <3>1. /\ thr' = thr /\ phase' = phase /\ Files' = Files /\ Threads' = Threads /\ reported' = reported
      BY <2>10, InputStays DEF vars
    <3>2. \A f \in Files : InHand(f)' = InHand(f)
      BY <2>1, <3>1 DEF InHand, At
    <3>. QED
      BY <2>1, <3>1, <3>2 DEF ReadOnInv, FilesLeft, At
  <2>. QED
    BY <1>2, <2>4, <2>5, <2>6, <2>7, <2>8, <2>9, <2>10, <2>11 DEF Next, Work, MapStep, Breaks, Over
<1>. QED
  BY <1>1, <1>2, <1>3

SourceInv == PlaceInv /\ SourceShape /\ DividedInv /\ ReadOnInv

LEMMA SourceInvHolds == Spec => []SourceInv
<1>1. Init => SourceInv
  BY PlaceInit, SourceInit, ReadOnInit DEF SourceInv
<1>2. SourceInv /\ [Next]_vars => SourceInv'
  BY PlaceNext, SourceNext, ReadOnNext DEF SourceInv
<1>. QED
  BY <1>1, <1>2, PTL DEF Spec

(* The segments of a file that a job hands out, to however many threads in whatever order,
   do not overlap and end where lines do; and a job that has ended without an error has
   handed out every character of every file (datasource.hpp). *)
THEOREM SegmentsDivideHolds == Spec => []SegmentsDivide
<1>1. SourceInv => SegmentsDivide
  <2>. SUFFICES ASSUME SourceInv PROVE SegmentsDivide
    OBVIOUS
  <2>. USE DEF SourceInv
  <2>1. ASSUME phase = "ended", ~reported, NEW f \in DOMAIN dir, dir[f] # Directory
        PROVE  UNION {Range1(seg) : seg \in {s \in ends : s.file = f}} = 1..Len(dir[f])
    <3>1. f \in Files
      BY <2>1 DEF Files
    <3>2. src.offset[f] = Len(dir[f]) /\ Len(dir[f]) \in Nat
      BY <2>1, <3>1, LineEndsShape DEF ReadOnInv
    <3>3. \A s \in ends : s.file = f => Range1(s) \subseteq Nat \ {0}
      <4>1. \A s \in ends : s.file = f => s.from \in Nat /\ s.to \in Nat
        BY <3>1, LineEndsShape DEF DividedInv
      <4>. QED
        BY <4>1 DEF Range1
    <3>4. \A i \in Nat \ {0} : i <= Len(dir[f]) <=> \E s \in ends : s.file = f /\ i \in Range1(s)
      BY <3>1, <3>2 DEF DividedInv
    <3>. DEFINE Parts == {Range1(seg) : seg \in {s \in ends : s.file = f}}
    <3>5. \A i : i \in UNION Parts <=> \E s \in ends : s.file = f /\ i \in Range1(s)
      OBVIOUS
    <3>6. \A i : i \in 1..Len(dir[f]) <=> i \in Nat \ {0} /\ i <= Len(dir[f])
      BY <3>2
    <3>. HIDE DEF Parts
    <3>7. \A i : i \in UNION Parts <=> i \in 1..Len(dir[f])
      BY <3>3, <3>4, <3>5, <3>6
    <3>. QED
      BY <3>7 DEF Parts
  <2>2. \A seg \in ends : {seg.from, seg.to} \subseteq LineEnds(seg.file)
    BY DEF DividedInv
  <2>3. \A s, t \in ends : s.file = t.file /\ s # t => Range1(s) \intersect Range1(t) = {}
    BY DEF DividedInv
  <2>. QED
    BY <2>1, <2>2, <2>3 DEF SegmentsDivide
<1>. QED
  BY <1>1, SourceInvHolds, PTL

--------------------------------------------------------------------------------
(* What is stored of each partition, and who has the partition in hand. *)

IsSeq(s) == \E S : s \in Seq(S)
IsEntry(e) ==
  /\ e = [fragments |-> e.fragments, merging |-> e.merging, temps |-> e.temps, file |-> e.file]
  /\ IsSeq(e.fragments) /\ e.temps \in Nat
StoreShape == store = [p \in Partitions |-> store[p]] /\ \A p \in Partitions : IsEntry(store[p])

LEMMA EmptyEntry == IsEntry(NoEntry) /\ NoEntry.fragments = <<>> /\ NoEntry.temps = 0
<1>1. NoEntry = [fragments |-> <<>>, merging |-> <<>>, temps |-> 0, file |-> <<>>]
  BY DEF NoEntry, Entry
<1>2. <<>> \in Seq({})
  OBVIOUS
<1>. QED
  BY <1>1, <1>2, Zenon DEF IsEntry, IsSeq

LEMMA Appended ==
  ASSUME NEW s, IsSeq(s), NEW e
  PROVE  IsSeq(Append(s, e)) /\ Append(s, e) # <<>> /\ Len(s) \in Nat /\ Len(Append(s, e)) = Len(s) + 1
<1>1. PICK S : s \in Seq(S)
  BY DEF IsSeq
<1>2. s \in Seq(S \union {e}) /\ e \in S \union {e}
  BY <1>1
<1>3. Append(s, e) \in Seq(S \union {e}) /\ Len(Append(s, e)) = Len(s) + 1 /\ Len(s) \in Nat
  BY <1>2, AppendProperties
<1>4. Append(s, e) # <<>>
  BY <1>3
<1>. QED
  BY <1>3, <1>4, Zenon DEF IsSeq

LEMMA NewEntry ==
  ASSUME NEW s, IsSeq(s)
  PROVE  IsEntry(Entry(s)) /\ Entry(s).fragments = s /\ Entry(s).temps = 0
<1>. DEFINE e == Entry(s)
<1>1. e = [fragments |-> s, merging |-> <<>>, temps |-> 0, file |-> <<>>]
  BY DEF Entry
<1>. HIDE DEF e
<1>2. e.fragments = s /\ e.temps = 0 /\ e.merging = <<>> /\ e.file = <<>>
  BY <1>1
<1>3. IsEntry(e)
  BY <1>1, <1>2 DEF IsEntry
<1>. QED
  BY <1>2, <1>3 DEF e

(* A map task adds a file to the partitions for which its segment has words. *)
LEMMA MapTaskStore ==
  ASSUME StoreShape, NEW w \in Slots, MapTask(w)
  PROVE  /\ StoreShape'
         /\ \A p \in Partitions :
              IF p \in Filled(thr[w].data)
              THEN /\ HasEntry(p)' /\ store'[p].temps = 0
                   /\ Len(store'[p].fragments) = Len(store[p].fragments) + 1
              ELSE store'[p] = store[p]
<1>. DEFINE file(p) == Ordered(Ordered(RecordsFor(thr[w].data, p)))
<1>1. \A p \in Partitions :
        store'[p] = IF p \notin Filled(thr[w].data) THEN store[p]
                    ELSE Entry(Append(store[p].fragments, file(p)))
  BY DEF MapTask, Merged
<1>2. store' = [p \in Partitions |-> store'[p]]
  BY DEF MapTask, Merged
<1>. HIDE DEF file
<1>3. ASSUME NEW p \in Partitions
      PROVE  /\ IsEntry(store'[p])
             /\ IF p \in Filled(thr[w].data)
                THEN /\ store'[p].fragments # <<>> /\ store'[p].temps = 0
                     /\ Len(store'[p].fragments) = Len(store[p].fragments) + 1
                ELSE store'[p] = store[p]
  <2>1. IsEntry(store[p]) /\ IsSeq(store[p].fragments)
    BY DEF StoreShape, IsEntry
  <2>2. CASE p \notin Filled(thr[w].data)
    BY <1>1, <2>1, <2>2
  <2>3. CASE p \in Filled(thr[w].data)
    <3>. DEFINE files == Append(store[p].fragments, file(p))
    <3>1. store'[p] = Entry(files)
      BY <1>1, <2>3
    <3>2. IsSeq(files) /\ files # <<>> /\ Len(files) = Len(store[p].fragments) + 1
      BY <2>1, Appended
    <3>. HIDE DEF files
    <3>3. IsEntry(Entry(files)) /\ Entry(files).fragments = files /\ Entry(files).temps = 0
      BY <3>2, NewEntry
    <3>. QED
      BY <2>3, <3>1, <3>2, <3>3
  <2>. QED
    BY <2>2, <2>3
<1>. QED
  BY <1>2, <1>3 DEF StoreShape, HasEntry

LEMMA JoinMapsStore ==
  ASSUME StoreShape, JoinMaps, phase' # "aborted"
  PROVE  /\ StoreShape' /\ \A p \in Shuffled : HasEntry(p)
         /\ \A p \in Partitions :
              /\ store'[p].fragments = store[p].fragments /\ store'[p].temps = store[p].temps
              /\ p \in Shuffled => store'[p].merging = store[p].fragments
<1>1. store' = [p \in Partitions |-> IF p \in Shuffled THEN [store[p] EXCEPT !.merging = store[p].fragments]
                                     ELSE store[p]]
      /\ \A p \in Shuffled : HasEntry(p)
  BY DEF JoinMaps, Aborts
<1>2. ASSUME NEW p \in Partitions
      PROVE  /\ IsEntry(store'[p])
             /\ store'[p].fragments = store[p].fragments /\ store'[p].temps = store[p].temps
             /\ p \in Shuffled => store'[p].merging = store[p].fragments
  <2>1. IsEntry(store[p])
    BY DEF StoreShape
  <2>2. CASE p \notin Shuffled
    BY <1>1, <2>1, <2>2
  <2>3. CASE p \in Shuffled
    <3>1. store'[p] = [store[p] EXCEPT !.merging = store[p].fragments]
      BY <1>1, <2>3
    <3>. DEFINE e == store[p]  u == store'[p]
    <3>2. u = [e EXCEPT !.merging = e.fragments] /\ IsEntry(e)
      BY <2>1, <3>1
    <3>. HIDE DEF e, u
    <3>3. u = [fragments |-> e.fragments, merging |-> e.fragments, temps |-> e.temps, file |-> e.file]
      BY <3>2 DEF IsEntry
    <3>4. u.fragments = e.fragments /\ u.merging = e.fragments /\ u.temps = e.temps /\ u.file = e.file
      BY <3>3
    <3>5. IsEntry(u)
      BY <3>2, <3>3, <3>4 DEF IsEntry
    <3>. QED
      BY <3>4, <3>5 DEF e, u
  <2>. QED
    BY <2>2, <2>3
<1>. QED
  BY <1>1, <1>2 DEF StoreShape

LEMMA ShuffleStore ==
  ASSUME StoreShape, NEW p \in Partitions, Shuffle(p)
  PROVE  /\ StoreShape' /\ store[p].merging # <<>>
         /\ \A q \in Partitions : q # p => store'[q] = store[q]
         /\ store'[p].fragments = store[p].fragments
         /\ \E limit \in Nat :
              /\ store'[p].merging = MergeRound(store[p].merging, limit).left
              /\ store'[p].file = MergeRound(store[p].merging, limit).out
         /\ \/ /\ store'[p].merging = <<>>
               /\ disk' = disk - Len(store[p].fragments) - store[p].temps
            \/ /\ store'[p].merging # <<>> /\ store'[p].temps = store[p].temps + 1
               /\ disk' = disk + 1
<1>0. PICK limit \in Limits(p) :
        LET round == MergeRound(store[p].merging, limit)  last == round.left = <<>> IN
        /\ store' = [store EXCEPT ![p].merging = round.left, ![p].file = round.out,
                                  ![p].temps = IF last THEN 0 ELSE @ + 1]
        /\ disk' = IF last THEN disk - Len(store[p].fragments) - store[p].temps ELSE disk + 1
        /\ held' = held + NewName(p) + (IF last THEN 0 ELSE 1)
  BY Zenon DEF Shuffle
<1>00. limit \in Nat
  BY DEF Limits
<1>. DEFINE round == MergeRound(store[p].merging, limit)
            left == round.left
            out == round.out
            last == left = <<>>
            n == IF last THEN 0 ELSE store[p].temps + 1
            e == store[p]
            u == store'[p]
<1>1. /\ store' = [store EXCEPT ![p].merging = left, ![p].file = out,
                                ![p].temps = IF last THEN 0 ELSE @ + 1]
      /\ disk' = IF last THEN disk - Len(store[p].fragments) - store[p].temps ELSE disk + 1
      /\ store[p].merging # <<>>
  BY <1>0 DEF Shuffle, Unmerged
<1>. HIDE DEF left, out
<1>2. store' = [q \in Partitions |-> store'[q]] /\ \A q \in Partitions : q # p => store'[q] = store[q]
  BY <1>1 DEF StoreShape
<1>3. u = [e EXCEPT !.merging = left, !.file = out, !.temps = IF last THEN 0 ELSE @ + 1]
  BY <1>1 DEF StoreShape
<1>4. IsEntry(e)
  BY DEF StoreShape
<1>. HIDE DEF e, u
<1>5. u = [fragments |-> e.fragments, merging |-> left, temps |-> IF last THEN 0 ELSE e.temps + 1, file |-> out]
  BY <1>3, <1>4 DEF IsEntry
<1>. DEFINE temps == IF last THEN 0 ELSE e.temps + 1
<1>6. temps \in Nat
  BY <1>4 DEF IsEntry
<1>7. u = [fragments |-> e.fragments, merging |-> left, temps |-> temps, file |-> out]
  BY <1>5
<1>. HIDE DEF temps
<1>8. u.fragments = e.fragments /\ u.merging = left /\ u.temps = temps /\ u.file = out
  BY <1>7
<1>9. IsEntry(u)
  BY <1>4, <1>6, <1>7, <1>8 DEF IsEntry
<1>10. StoreShape'
  BY <1>2, <1>9 DEF StoreShape, u
<1>11. u.merging = round.left /\ u.file = round.out
  BY <1>8 DEF left, out
<1>. HIDE DEF round
<1>12. /\ store'[p].fragments = store[p].fragments
       /\ store'[p].merging = round.left /\ store'[p].file = round.out
       /\ \/ /\ store'[p].merging = <<>>
             /\ disk' = disk - Len(store[p].fragments) - store[p].temps
          \/ /\ store'[p].merging # <<>> /\ store'[p].temps = store[p].temps + 1
             /\ disk' = disk + 1
  BY <1>1, <1>8, <1>11 DEF e, u, temps
<1>. QED
  BY <1>00, <1>1, <1>2, <1>10, <1>12 DEF round

LEMMA EraseStore ==
  ASSUME StoreShape, NEW w \in Slots, Erase(w)
  PROVE  StoreShape' /\ \A p \in Partitions : p # thr[w].part => store'[p] = store[p]
<1>1. store' = [store EXCEPT ![thr[w].part] = NoEntry]
  BY DEF Erase
<1>. QED
  BY <1>1, EmptyEntry DEF StoreShape

LEMMA StoreStays ==
  ASSUME [Next]_vars, ~ (\E w \in Slots : MapTask(w) \/ Erase(w)), ~ (\E p \in Partitions : Shuffle(p)),
         ~JoinMaps
  PROVE  store' = store
<1>1. ASSUME NEW w \in Slots, NextKey(w) \/ GetData(w) \/ GetNothing(w) \/ MapThrows(w) \/ CombineFails(w)
      PROVE  store' = store
  BY <1>1 DEF NextKey, GetData, GetNothing, MapThrows, CombineFails, Aborts
<1>4. ASSUME NEW w \in Slots, Breaks(w) PROVE store' = store
  BY <1>4, BreaksMoves
<1>2. ASSUME NEW w \in Slots, Claim(w) \/ Find(w) \/ Crash(w) \/ Reduce(w) \/ ReduceThrows(w)
      PROVE  store' = store
  BY <1>2 DEF Claim, Find, Crash, Aborts, Reduce, ReduceThrows
<1>3. ASSUME JoinShuffles \/ JoinReducers PROVE store' = store
  BY <1>3 DEF JoinShuffles, JoinReducers
<1>. QED
  BY <1>1, <1>2, <1>3, <1>4 DEF Next, Work, MapStep, Breaks, ReduceStep, Over, vars

LEMMA StoreInit == Init => StoreShape
BY EmptyEntry DEF Init, StoreShape

LEMMA StoreNext ==
  ASSUME StoreShape, [Next]_vars
  PROVE  StoreShape'
<1>1. CASE JoinMaps /\ phase' = "aborted"
  <2>1. store' = store
    BY <1>1 DEF JoinMaps, Aborts
  <2>. QED
    BY <2>1 DEF StoreShape
<1>2. CASE ~ (\E w \in Slots : MapTask(w) \/ Erase(w)) /\ ~ (\E p \in Partitions : Shuffle(p)) /\ ~JoinMaps
  BY <1>2, StoreStays DEF StoreShape
<1>. QED
  BY <1>1, <1>2, MapTaskStore, EraseStore, ShuffleStore, JoinMapsStore

Holding == {"find", "erase", "reduce"}
Held(p) == \E w \in Slots : thr[w].at \in Holding /\ thr[w].part = p

(* Reducers claim the partitions in turn.  Two never have the same one in hand, and one that
   was left out of the shuffle is never let go of. *)
HandsInv ==
  /\ partition \in Nat
  /\ phase \in {"map", "shuffle"} => partition = 0
  /\ phase = "reduce" =>
       /\ \A w \in Slots : thr[w].at \in Holding => thr[w].part \in Partitions /\ thr[w].part < partition
       /\ \A v, w \in Slots : /\ thr[v].at \in Holding /\ thr[w].at \in Holding
                              /\ thr[v].part = thr[w].part
                              => v = w
       /\ \A p \in Partitions : p < partition => p \in Shuffled \/ Held(p)
       /\ \A w \in Reducers : At(w, "done") => P <= partition
  /\ phase = "ended" => Shuffled = Partitions /\ P <= partition /\ ~ \E p \in Partitions : Held(p)

LEMMA HandsInit == Init => HandsInv
BY DEF Init, HandsInv

LEMMA HandsNext ==
  ASSUME PlaceInv, HandsInv, PlaceInv', [Next]_vars
  PROVE  HandsInv'
<1>0. Threads' = Threads /\ Shuffled' = Shuffled /\ Reducers' = Reducers
  BY InputStays DEF Reducers
<1>1. CASE phase' = "aborted"
  <2>1. partition' \in Nat
    <3>1. ASSUME NEW w \in Slots, MapStep(w) \/ ReduceStep(w) PROVE partition' \in {partition, partition + 1}
      BY <3>1, BreaksMoves
         DEF MapStep, Breaks, NextKey, GetData, GetNothing, MapTask, MapThrows, CombineFails,
             ReduceStep, Claim, Find, Erase, Crash, Reduce, ReduceThrows, Aborts
    <3>2. ASSUME NEW p \in Partitions, Shuffle(p) PROVE partition' = partition
      BY <3>2 DEF Shuffle
    <3>. QED
      BY <3>1, <3>2 DEF Next, Work, JoinMaps, JoinShuffles, JoinReducers, Aborts, Over, vars, HandsInv
  <2>. QED
    BY <1>1, <2>1 DEF HandsInv
<1>2. ASSUME partition' = partition, thr' = thr, phase' = phase
             \/ (phase = "map" /\ phase' = "shuffle")
      PROVE  HandsInv'
  <2>1. \A p \in Partitions : Held(p)' = Held(p)
    BY <1>2 DEF Held
  <2>. QED
    BY <1>0, <1>2, <2>1 DEF HandsInv, At
<1>3. ASSUME NEW w \in Slots, MapStep(w), phase' # "aborted" PROVE HandsInv'
  <2>1. partition' = partition /\ phase = "map" /\ phase' = "map"
    BY <1>3, BreaksMoves
       DEF MapStep, Breaks, NextKey, GetData, GetNothing, MapTask, MapThrows, CombineFails, Aborts
  <2>. QED
    BY <2>1 DEF HandsInv
<1>4. ASSUME NEW w \in Slots, Claim(w) PROVE HandsInv'
  <2>1. /\ phase = "reduce" /\ phase' = "reduce" /\ At(w, "claim")
        /\ thr'[w].part = partition /\ thr'[w].at = IF partition < P THEN "find" ELSE "done"
        /\ \A v \in Slots : v # w => thr'[v] = thr[v]
        /\ partition' = partition + 1
    BY <1>4, ClaimMoves DEF Only, Claim
  <2>2. \A p \in Partitions : Held(p) => Held(p)'
    BY <2>1 DEF Held, Holding, At
  <2>3. partition \in Nat
    BY DEF HandsInv
  <2>4. ASSUME NEW v \in Slots, thr'[v].at \in Holding
        PROVE  thr'[v].part \in Partitions /\ thr'[v].part < partition'
    <3>1. CASE v = w
      BY <2>1, <2>3, <2>4, <3>1 DEF Holding, Partitions
    <3>2. CASE v # w
      <4>1. thr'[v] = thr[v] /\ thr[v].part \in Partitions /\ thr[v].part < partition
        BY <2>1, <2>4, <3>2 DEF HandsInv
      <4>. QED
        BY <2>1, <2>3, <4>1 DEF Partitions
    <3>. QED
      BY <3>1, <3>2
  <2>5. ASSUME NEW u \in Slots, NEW v \in Slots, thr'[u].at \in Holding, thr'[v].at \in Holding,
               thr'[u].part = thr'[v].part
        PROVE  u = v
    <3>1. \A x \in Slots : x # w /\ thr[x].at \in Holding => thr[x].part # partition
      BY <2>1, <2>3 DEF HandsInv, Partitions
    <3>. QED
      BY <2>1, <2>5, <3>1 DEF HandsInv
  <2>6. ASSUME NEW p \in Partitions, p < partition' PROVE p \in Shuffled \/ Held(p)'
    <3>1. CASE p < partition
      BY <2>1, <2>2, <3>1 DEF HandsInv
    <3>2. CASE ~(p < partition)
      <4>1. p = partition /\ partition < P
        BY <2>1, <2>3, <2>6, <3>2 DEF Partitions
      <4>. QED
        BY <2>1, <4>1 DEF Held, Holding
    <3>. QED
      BY <3>1, <3>2
  <2>7. ASSUME NEW v \in Reducers, At(v, "done")' PROVE P <= partition'
    <3>1. v \in Slots
      BY ThreadsAreSlots DEF Reducers
    <3>2. CASE v = w
      BY <2>1, <2>3, <2>7, <3>2 DEF At
    <3>3. CASE v # w
      <4>1. P <= partition
        BY <2>1, <2>7, <3>1, <3>3 DEF HandsInv, At
      <4>. QED
        BY <2>1, <2>3, <4>1
    <3>. QED
      BY <3>2, <3>3
  <2>. QED
    BY <1>0, <2>1, <2>3, <2>4, <2>5, <2>6, <2>7 DEF HandsInv
<1>5. ASSUME NEW w \in Slots, Find(w) \/ Erase(w), phase' # "aborted" PROVE HandsInv'
  <2>1. /\ phase = "reduce" /\ phase' = "reduce" /\ thr[w].at \in Holding /\ thr'[w].at \in Holding
        /\ thr'[w].part = thr[w].part
        /\ \A v \in Slots : v # w => thr'[v] = thr[v]
        /\ partition' = partition
    BY <1>5, FindMoves, EraseMoves DEF Only, At, Holding, Find, Erase
  <2>2. \A v \in Slots : (thr'[v].at \in Holding <=> thr[v].at \in Holding) /\ thr'[v].part = thr[v].part
                         /\ (At(v, "done")' => At(v, "done"))
    BY <2>1 DEF At, Holding
  <2>3. \A p \in Partitions : Held(p)' = Held(p)
    BY <2>2 DEF Held
  <2>4. Reducers \subseteq Slots
    BY ThreadsAreSlots DEF Reducers
  <2>. QED
    BY <1>0, <2>1, <2>2, <2>3, <2>4 DEF HandsInv
<1>6. ASSUME NEW w \in Slots, Reduce(w) \/ ReduceThrows(w) PROVE HandsInv'
  <2>1. /\ phase = "reduce" /\ phase' = "reduce" /\ thr[w].at \in Holding /\ thr'[w].at = "claim"
        /\ thr[w].part \in Shuffled
        /\ \A v \in Slots : v # w => thr'[v] = thr[v]
        /\ partition' = partition
    BY <1>6, ReduceMoves DEF Only, At, Holding, Reduce, ReduceThrows
  <2>2. \A v \in Slots : thr'[v].at \in Holding => v # w
    BY <2>1 DEF Holding
  <2>3. \A p \in Partitions : p \notin Shuffled /\ Held(p) => Held(p)'
    BY <2>1 DEF Held
  <2>4. \A v \in Reducers : v \in Slots /\ (At(v, "done")' => At(v, "done"))
    BY <2>1, ThreadsAreSlots DEF Reducers, At
  <2>. QED
    BY <1>0, <2>1, <2>2, <2>3, <2>4 DEF HandsInv
<1>7. ASSUME NEW p \in Partitions, Shuffle(p) PROVE HandsInv'
  BY <1>2, <1>7 DEF Shuffle
<1>8. ASSUME JoinMaps, phase' # "aborted" PROVE HandsInv'
  BY <1>2, <1>8 DEF JoinMaps, Aborts
<1>9. CASE JoinShuffles
  <2>1. /\ phase = "shuffle" /\ phase' = "reduce" /\ partition' = partition
        /\ thr' = [w \in Slots |-> [thr[w] EXCEPT !.at = IF w \in Reducers THEN "claim" ELSE "done"]]
    BY <1>9 DEF JoinShuffles
  <2>2. partition = 0
    BY <2>1 DEF HandsInv
  <2>3. ASSUME NEW w \in Slots PROVE thr'[w].at = IF w \in Reducers THEN "claim" ELSE "done"
    <3>. DEFINE a == IF w \in Reducers THEN "claim" ELSE "done"
    <3>1. thr'[w] = [thr[w] EXCEPT !.at = a] /\ IsThread(thr[w])
      BY <2>1 DEF PlaceInv
    <3>. HIDE DEF a
    <3>2. thr'[w].at = a
      BY <3>1, PlaceChanged
    <3>. QED
      BY <3>2 DEF a
  <2>4. \A w \in Reducers : w \in Slots /\ ~At(w, "done")'
    BY <2>3, ThreadsAreSlots DEF Reducers, At
  <2>5. \A w \in Slots : thr'[w].at \notin Holding
    BY <2>3 DEF Holding
  <2>6. \A p \in Partitions : ~(p < partition')
    BY <2>1, <2>2 DEF Partitions
  <2>7. \A w \in Reducers' : ~At(w, "done")'
    BY <1>0, <2>4
  <2>. QED
    BY <2>1, <2>2, <2>5, <2>6, <2>7 DEF HandsInv
<1>10. CASE JoinReducers
  <2>1. /\ phase = "reduce" /\ phase' = "ended" /\ partition' = partition /\ thr' = thr
        /\ \A w \in Threads : At(w, "done")
    BY <1>10 DEF JoinReducers
  <2>2. \A w \in Slots : At(w, "done")
    BY <2>1 DEF PlaceInv
  <2>3. \A p \in Partitions : ~Held(p)
    BY <2>2 DEF Held, Holding, At
  <2>4. 1 \in Reducers
    BY ThreadsAreSlots DEF Reducers
  <2>5. P <= partition /\ partition \in Nat
    BY <2>1, <2>2, <2>4, ThreadsAreSlots DEF HandsInv
  <2>6. Shuffled = Partitions
    BY <2>1, <2>3, <2>5 DEF HandsInv, Shuffled, Partitions
  <2>7. \A p \in Partitions : ~Held(p)'
    BY <2>1, <2>3 DEF Held
  <2>. QED
    BY <1>0, <2>1, <2>5, <2>6, <2>7 DEF HandsInv
<1>11. CASE UNCHANGED vars
  BY <1>2, <1>11 DEF vars
<1>. QED
  BY <1>1, <1>3, <1>4, <1>5, <1>6, <1>7, <1>8, <1>9, <1>10, <1>11, FindMoves
     DEF Next, Work, ReduceStep, Crash, Aborts, Over

--------------------------------------------------------------------------------
(* How many temporary files there are: the sum over the partitions of how many each has. *)

Total(f) == Numbers!PartialSums(P, f)[P]

LEMMA TotalIsNumber ==
  ASSUME NEW f \in [1..P -> Nat]
  PROVE  Total(f) \in Nat
<1>1. Numbers!IsPartialSums(Numbers!PartialSums(P, f), P, f)
  BY Numbers!PartialSumsExist
<1>. QED
  BY <1>1 DEF Numbers!IsPartialSums, Total

IsSumOf(h, f, g) ==
  /\ f \in [1..P -> Nat] /\ g \in [1..P -> Nat] /\ h \in [1..P -> Nat]
  /\ \A i \in 1..P : h[i] = f[i] + g[i]

LEMMA TotalOfSum ==
  ASSUME NEW f, NEW g, NEW h, IsSumOf(h, f, g)
  PROVE  Total(h) = Total(f) + Total(g)
<1>1. P \in Nat
  OBVIOUS
<1>2. Numbers!PartialSums(P, h)[P] = Numbers!PartialSums(P, f)[P] + Numbers!PartialSums(P, g)[P]
  BY <1>1, NumbersConstants, Numbers!PartialSumsAdd DEF IsSumOf
<1>. QED
  BY <1>2 DEF Total

(* the sum of a function that is d at w and nothing elsewhere *)
PointAt(w, d) == [i \in 1..P |-> IF i = w THEN d ELSE 0]

LEMMA TotalOfPoint ==
  ASSUME NEW w \in 1..P, NEW d \in Nat
  PROVE  Total(PointAt(w, d)) = d
<1>. DEFINE f == PointAt(w, d)
            U == [i \in 0..P |-> IF i < w THEN 0 ELSE d]
<1>1. f \in [1..P -> Nat] /\ \A i \in 1..P : f[i] = IF i = w THEN d ELSE 0
  BY DEF PointAt
<1>2. Numbers!IsPartialSums(Numbers!PartialSums(P, f), P, f)
  BY <1>1, Numbers!PartialSumsExist
<1>3. Numbers!IsPartialSums(U, P, f)
  <2>1. U \in [0..P -> Nat] /\ U[0] = 0
    OBVIOUS
  <2>2. ASSUME NEW i \in 1..P PROVE U[i] = U[i - 1] + f[i]
    <3>1. i - 1 \in 0..P /\ i \in 0..P
      OBVIOUS
    <3>2. U[i] = (IF i < w THEN 0 ELSE d) /\ U[i - 1] = (IF i - 1 < w THEN 0 ELSE d)
      BY <3>1
    <3>3. f[i] = IF i = w THEN d ELSE 0
      BY <1>1
    <3>. QED
      BY <3>2, <3>3
  <2>. QED
    BY <2>1, <2>2 DEF Numbers!IsPartialSums
<1>. HIDE DEF f, U
<1>4. Numbers!PartialSums(P, f) = U
  BY <1>2, <1>3, Numbers!PartialSumsUnique
<1>5. U[P] = d
  BY DEF U
<1>. QED
  BY <1>4, <1>5 DEF Total, f

(* A sum changes as its one term does. *)
DifferAt(f, g, w) ==
  /\ f \in [1..P -> Nat] /\ g \in [1..P -> Nat] /\ w \in 1..P
  /\ \A i \in 1..P : i # w => g[i] = f[i]

LEMMA TotalChanges ==
  ASSUME NEW f, NEW g, NEW w, DifferAt(f, g, w)
  PROVE  Total(g) + f[w] = Total(f) + g[w]
<1>. USE DEF DifferAt
<1>. DEFINE rest == [i \in 1..P |-> IF i = w THEN 0 ELSE f[i]]
<1>1. rest \in [1..P -> Nat] /\ \A i \in 1..P : rest[i] = IF i = w THEN 0 ELSE f[i]
  OBVIOUS
<1>. HIDE DEF rest
<1>2. ASSUME NEW h \in [1..P -> Nat], \A i \in 1..P : i # w => h[i] = f[i]
      PROVE  Total(h) = Total(rest) + h[w]
  <2>. DEFINE point == PointAt(w, h[w])
  <2>1. point \in [1..P -> Nat] /\ \A i \in 1..P : point[i] = IF i = w THEN h[w] ELSE 0
    BY DEF PointAt
  <2>2. Total(point) = h[w]
    BY TotalOfPoint
  <2>. HIDE DEF point
  <2>3. \A i \in 1..P : h[i] = rest[i] + point[i]
    BY <1>1, <1>2, <2>1, SMTT(30)
  <2>4. IsSumOf(h, rest, point)
    BY <1>1, <2>1, <2>3 DEF IsSumOf
  <2>. QED
    BY <2>2, <2>4, TotalOfSum
<1>3. Total(f) = Total(rest) + f[w] /\ Total(g) = Total(rest) + g[w]
  BY <1>2
<1>4. Total(rest) \in Nat /\ f[w] \in Nat /\ g[w] \in Nat
  BY <1>1, TotalIsNumber
<1>. QED
  BY <1>3, <1>4

(* one for each partition of a set *)
OnesAt(S) == [i \in 1..P |-> IF i - 1 \in S THEN 1 ELSE 0]

LEMMA TotalOfOnes ==
  ASSUME NEW S \in SUBSET Partitions
  PROVE  IsFiniteSet(S) /\ Total(OnesAt(S)) = Cardinality(S)
<1>. DEFINE f == OnesAt(S)
            Below(n) == S \intersect (0..(n - 1))
            U == [n \in 0..P |-> Cardinality(Below(n))]
<1>1. f \in [1..P -> Nat] /\ \A i \in 1..P : f[i] = IF i - 1 \in S THEN 1 ELSE 0
  BY DEF OnesAt
<1>2. IsFiniteSet(S)
  <2>1. IsFiniteSet(0..(P - 1))
    BY FS_Interval
  <2>. QED
    BY <2>1, FS_Subset DEF Partitions
<1>3. \A n \in 0..P : IsFiniteSet(Below(n)) /\ Cardinality(Below(n)) \in Nat
  <2>1. \A n \in 0..P : IsFiniteSet(Below(n))
    BY <1>2, FS_Subset
  <2>. QED
    BY <2>1, FS_CardinalityType
<1>4. Below(0) = {} /\ Below(P) = S
  <2>1. 0..(0 - 1) = {}
    OBVIOUS
  <2>2. S \subseteq 0..(P - 1)
    BY DEF Partitions
  <2>. QED
    BY <2>1, <2>2
<1>5. ASSUME NEW i \in 1..P PROVE U[i] = U[i - 1] + f[i]
  <2>0. i \in 0..P /\ i - 1 \in 0..P
    OBVIOUS
  <2>1. U[i] = Cardinality(Below(i)) /\ U[i - 1] = Cardinality(Below(i - 1)) /\ IsFiniteSet(Below(i - 1))
    BY <1>3, <2>0
  <2>2. CASE i - 1 \in S
    <3>1. Below(i) = Below(i - 1) \union {i - 1}
      <4>1. \A x \in 0..(i - 1) : x \in 0..(i - 1 - 1) \/ x = i - 1
        BY <2>0
      <4>2. 0..(i - 1 - 1) \subseteq 0..(i - 1) /\ i - 1 \in 0..(i - 1)
        BY <2>0
      <4>. QED
        BY <2>2, <4>1, <4>2
    <3>2. i - 1 \notin Below(i - 1)
      BY <2>0
    <3>3. Cardinality(Below(i)) = Cardinality(Below(i - 1)) + 1
      <4>. DEFINE B == Below(i - 1)
      <4>. HIDE DEF B
      <4>1. Cardinality(B \union {i - 1}) = Cardinality(B) + 1
        BY <2>1, <3>2, FS_AddElement DEF B
      <4>. QED
        BY <3>1, <4>1 DEF B
    <3>. QED
      BY <1>1, <2>1, <2>2, <3>3
  <2>3. CASE i - 1 \notin S
    <3>1. Below(i) = Below(i - 1)
      <4>1. \A x \in 0..(i - 1) : x \in 0..(i - 1 - 1) \/ x = i - 1
        BY <2>0
      <4>2. 0..(i - 1 - 1) \subseteq 0..(i - 1)
        BY <2>0
      <4>. QED
        BY <2>3, <4>1, <4>2
    <3>2. Cardinality(Below(i - 1)) \in Nat
      BY <1>3, <2>0
    <3>3. f[i] = 0
      BY <1>1, <2>3
    <3>4. U[i] = U[i - 1] /\ U[i - 1] \in Nat
      BY <2>1, <3>1, <3>2
    <3>. HIDE DEF U, f
    <3>. QED
      BY <3>3, <3>4
  <2>. QED
    BY <2>2, <2>3
<1>6. Numbers!IsPartialSums(U, P, f)
  <2>1. U \in [0..P -> Nat] /\ U[0] = 0
    BY <1>3, <1>4, FS_EmptySet
  <2>. QED
    BY <1>5, <2>1 DEF Numbers!IsPartialSums
<1>7. Numbers!IsPartialSums(Numbers!PartialSums(P, f), P, f)
  BY <1>1, Numbers!PartialSumsExist
<1>8. U[P] = Cardinality(S)
  <2>1. P \in 0..P
    OBVIOUS
  <2>. QED
    BY <1>4, <2>1, Zenon
<1>. HIDE DEF f, U
<1>9. Numbers!PartialSums(P, f) = U
  BY <1>6, <1>7, Numbers!PartialSumsUnique
<1>. QED
  BY <1>2, <1>8, <1>9 DEF Total, f

(* What a partition has: its fragments, with the result of the merge and the results that
   were renamed while it is merged; the merged file until it is reduced. *)
FilesOf(p) ==
  IF phase = "map" THEN Len(store[p].fragments)
  ELSE IF phase = "shuffle"
       THEN IF store[p].merging = <<>> THEN 1 ELSE Len(store[p].fragments) + store[p].temps + 1
       ELSE IF p < partition /\ ~Held(p) THEN 0 ELSE 1
FileCount == [p \in Partitions |-> FilesOf(p)]
FileCounts == [i \in 1..P |-> FileCount[i - 1]]
DiskInv ==
  /\ phase = "map" => \A p \in Partitions : store[p].temps = 0
  /\ ~reported /\ Shuffled = Partitions /\ phase # "aborted" => disk = Total(FileCounts)

FilesNumbered ==
  /\ \A p \in Partitions : Len(store[p].fragments) \in Nat /\ store[p].temps \in Nat
  /\ \A p \in Partitions : FilesOf(p) \in Nat
  /\ FileCounts \in [1..P -> Nat] /\ \A p \in Partitions : FileCounts[p + 1] = FilesOf(p)

LEMMA FilesAreNumbers == StoreShape => FilesNumbered
<1>. SUFFICES ASSUME StoreShape PROVE FilesNumbered
  OBVIOUS
<1>1. ASSUME NEW p \in Partitions
      PROVE  Len(store[p].fragments) \in Nat /\ store[p].temps \in Nat
  BY Appended DEF StoreShape, IsEntry
<1>2. ASSUME NEW p \in Partitions PROVE FilesOf(p) \in Nat
  <2>. DEFINE len == Len(store[p].fragments)  temps == store[p].temps
  <2>1. len \in Nat /\ temps \in Nat
    BY <1>1
  <2>2. FilesOf(p) \in {len, 1, len + temps + 1, 0}
    BY DEF FilesOf
  <2>. HIDE DEF len, temps
  <2>. QED
    BY <2>1, <2>2
<1>3. \A i \in 1..P : i - 1 \in Partitions
  BY DEF Partitions
<1>4. \A p \in Partitions : p + 1 \in 1..P /\ p + 1 - 1 = p
  BY DEF Partitions
<1>5. FileCounts \in [1..P -> Nat]
  BY <1>2, <1>3 DEF FileCounts, FileCount
<1>6. \A p \in Partitions : FileCounts[p + 1] = FilesOf(p)
  <2>1. ASSUME NEW p \in Partitions PROVE FileCounts[p + 1] = FilesOf(p)
    <3>1. \E i \in 1..P : i = p + 1 /\ i - 1 = p
      <4>. DEFINE i == p + 1
      <4>1. i \in 1..P /\ i - 1 = p
        BY DEF Partitions
      <4>. QED
        BY <4>1
    <3>2. PICK i \in 1..P : i = p + 1 /\ i - 1 = p
      BY <3>1
    <3>3. FileCounts[i] = FileCount[i - 1]
      BY DEF FileCounts
    <3>4. FileCounts[i] = FileCount[p]
      BY <3>2, <3>3
    <3>5. FileCount[p] = FilesOf(p)
      BY DEF FileCount
    <3>. QED
      BY <3>2, <3>4, <3>5
  <2>. QED
    BY <2>1
<1>. QED
  BY <1>1, <1>2, <1>5, <1>6 DEF FilesNumbered

LEMMA FilesStay ==
  ASSUME DiskInv, phase # "aborted", ~reported' => ~reported, Shuffled' = Shuffled,
         phase' = "map" => \A p \in Partitions : store'[p].temps = 0,
         disk' = disk, \A p \in Partitions : FilesOf(p)' = FilesOf(p)
  PROVE  DiskInv'
<1>1. \A i \in 1..P : i - 1 \in Partitions
  BY DEF Partitions
<1>2. FileCounts' = FileCounts
  BY <1>1 DEF FileCounts, FileCount
<1>. QED
  BY <1>2 DEF DiskInv, Total

LEMMA FilesMove ==
  ASSUME DiskInv, phase # "aborted", ~reported' => ~reported, Shuffled' = Shuffled,
         phase' = "map" => \A p \in Partitions : store'[p].temps = 0,
         StoreShape, StoreShape', NEW p \in Partitions,
         \A q \in Partitions : q # p => FilesOf(q)' = FilesOf(q),
         NEW d \in Int, FilesOf(p)' = FilesOf(p) + d,
         Shuffled = Partitions /\ ~reported => disk' = disk + d
  PROVE  DiskInv'
<1>. DEFINE f == FileCounts
            g == FileCounts'
<1>1. f \in [1..P -> Nat] /\ \A q \in Partitions : f[q + 1] = FilesOf(q)
  BY FilesAreNumbers DEF FilesNumbered
<1>2. g \in [1..P -> Nat] /\ \A q \in Partitions : g[q + 1] = FilesOf(q)'
  <2>1. FilesNumbered'
    BY FilesAreNumbers, PTL
  <2>. QED
    BY <2>1 DEF FilesNumbered
<1>. HIDE DEF f, g
<1>3. p + 1 \in 1..P /\ \A i \in 1..P : i - 1 \in Partitions /\ i - 1 + 1 = i
  BY DEF Partitions
<1>4. \A i \in 1..P : i # p + 1 => g[i] = f[i]
  <2>1. ASSUME NEW i \in 1..P, i # p + 1 PROVE g[i] = f[i]
    <3>1. i - 1 # p /\ i - 1 \in Partitions /\ i - 1 + 1 = i
      BY <1>3, <2>1 DEF Partitions
    <3>2. g[i - 1 + 1] = f[i - 1 + 1]
      BY <1>1, <1>2, <3>1
    <3>. QED
      BY <3>1, <3>2
  <2>. QED
    BY <2>1
<1>. DEFINE w == p + 1
<1>5. g[w] = f[w] + d /\ f[w] \in Nat
  BY <1>1, <1>2, <1>3
<1>6. w \in 1..P /\ \A i \in 1..P : i # w => g[i] = f[i]
  BY <1>3, <1>4
<1>. HIDE DEF w
<1>7. Total(g) + f[w] = Total(f) + g[w]
  <2>1. DifferAt(f, g, w)
    BY <1>1, <1>2, <1>6 DEF DifferAt
  <2>. QED
    BY <2>1, TotalChanges
<1>8. Total(f) \in Nat /\ Total(g) \in Nat
  BY <1>1, <1>2, TotalIsNumber
<1>9. Total(g) = Total(f) + d
  BY <1>5, <1>7, <1>8
<1>. QED
  BY <1>9 DEF DiskInv, f, g, Total

(* A file more for each partition of a set. *)
LEMMA FilesGrow ==
  ASSUME DiskInv, phase # "aborted", ~reported' => ~reported, Shuffled' = Shuffled,
         phase' = "map" => \A p \in Partitions : store'[p].temps = 0,
         StoreShape, StoreShape', NEW S \in SUBSET Partitions,
         Shuffled = Partitions =>
           /\ \A p \in Partitions : FilesOf(p)' = FilesOf(p) + IF p \in S THEN 1 ELSE 0
           /\ disk' = disk + Cardinality(S)
  PROVE  DiskInv'
<1>. SUFFICES ASSUME Shuffled = Partitions PROVE DiskInv'
  BY DEF DiskInv
<1>. DEFINE f == FileCounts
            g == FileCounts'
            h == OnesAt(S)
<1>1. f \in [1..P -> Nat] /\ \A q \in Partitions : f[q + 1] = FilesOf(q)
  BY FilesAreNumbers DEF FilesNumbered
<1>2. g \in [1..P -> Nat] /\ \A q \in Partitions : g[q + 1] = FilesOf(q)'
  <2>1. FilesNumbered'
    BY FilesAreNumbers, PTL
  <2>. QED
    BY <2>1 DEF FilesNumbered
<1>3. h \in [1..P -> Nat] /\ \A i \in 1..P : h[i] = IF i - 1 \in S THEN 1 ELSE 0
  BY DEF OnesAt
<1>4. Total(h) = Cardinality(S)
  BY TotalOfOnes
<1>. HIDE DEF f, g, h
<1>5. ASSUME NEW i \in 1..P PROVE g[i] = f[i] + h[i]
  <2>1. i - 1 \in Partitions /\ i - 1 + 1 = i
    BY DEF Partitions
  <2>2. g[i - 1 + 1] = f[i - 1 + 1] + IF i - 1 \in S THEN 1 ELSE 0
    BY <1>1, <1>2, <2>1
  <2>. QED
    BY <1>3, <2>1, <2>2
<1>6. Total(g) = Total(f) + Total(h)
  BY <1>1, <1>2, <1>3, <1>5, TotalOfSum DEF IsSumOf
<1>. QED
  BY <1>4, <1>6 DEF DiskInv, f, g, Total

LEMMA DiskInit == Init => DiskInv
<1>. SUFFICES ASSUME Init PROVE DiskInv
  OBVIOUS
<1>1. \A p \in Partitions : store[p] = NoEntry
  BY DEF Init
<1>2. StoreShape
  BY StoreInit
<1>3. \A p \in Partitions : store[p].temps = 0 /\ Len(store[p].fragments) = 0
  BY <1>1, EmptyEntry
<1>4. FileCounts = OnesAt({})
  <2>1. \A i \in 1..P : i - 1 \in Partitions
    BY DEF Partitions
  <2>2. \A p \in Partitions : FileCount[p] = 0
    BY <1>3 DEF FileCount, FilesOf, Init
  <2>. QED
    BY <2>1, <2>2 DEF FileCounts, OnesAt
<1>5. Total(OnesAt({})) = 0
  BY TotalOfOnes, FS_EmptySet
<1>6. Total(FileCounts) = 0
  BY <1>4, <1>5
<1>. QED
  BY <1>3, <1>6 DEF DiskInv, Init

LEMMA DiskNext ==
  ASSUME PlaceInv, StoreShape, HandsInv, DiskInv, StoreShape', PlaceInv', [Next]_vars
  PROVE  DiskInv'
<1>. SUFFICES ASSUME phase' # "aborted", ~reported' PROVE DiskInv'
  <2>1. CASE phase' = "aborted"
    BY <2>1 DEF DiskInv
  <2>2. CASE phase' # "aborted" /\ reported'
    <3>1. CASE phase' # "map"
      BY <2>2, <3>1 DEF DiskInv
    <3>2. CASE phase' = "map"
      <4>1. phase = "map"
        <5>1. ASSUME NEW w \in Slots, MapStep(w) \/ ReduceStep(w) PROVE phase' \in {phase, "aborted"}
          BY <5>1, BreaksMoves
             DEF MapStep, Breaks, NextKey, GetData, GetNothing, MapTask, MapThrows, CombineFails,
                 ReduceStep, Claim, Find, Erase, Crash, Reduce, ReduceThrows, Aborts
        <5>2. ASSUME NEW p \in Partitions, Shuffle(p) PROVE phase' = phase
          BY <5>2 DEF Shuffle
        <5>. QED
          BY <3>2, <5>1, <5>2 DEF Next, Work, JoinMaps, JoinShuffles, JoinReducers, Aborts, Over, vars
      <4>2. ASSUME NEW w \in Slots, MapTask(w) PROVE \A p \in Partitions : store'[p].temps = 0
        BY <4>1, <4>2, MapTaskStore DEF DiskInv
      <4>3. ~ (\E w \in Slots : Erase(w)) /\ ~ (\E p \in Partitions : Shuffle(p)) /\ ~JoinMaps
        BY <3>2, <4>1 DEF Erase, Shuffle, Unmerged, JoinMaps, Aborts
      <4>4. \A p \in Partitions : store'[p].temps = 0
        BY <4>1, <4>2, <4>3, StoreStays DEF DiskInv
      <4>. QED
        BY <2>2, <4>4 DEF DiskInv
    <3>. QED
      BY <3>1, <3>2
  <2>. QED
    BY <2>1, <2>2
<1>0. ~reported /\ Shuffled' = Shuffled /\ phase # "aborted"
  <2>1. phase = "aborted" => phase' = "aborted"
    <3>1. ASSUME NEW w \in Slots, MapStep(w) \/ ReduceStep(w) PROVE phase # "aborted"
      BY <3>1, BreaksMoves
         DEF MapStep, Breaks, NextKey, GetData, GetNothing, MapTask, MapThrows, CombineFails,
             ReduceStep, Claim, Find, Erase, Crash, Reduce, Reduces, ReduceThrows
    <3>2. ASSUME NEW p \in Partitions, Shuffle(p) PROVE phase # "aborted"
      BY <3>2 DEF Shuffle, Unmerged
    <3>. QED
      BY <3>1, <3>2 DEF Next, Work, JoinMaps, JoinShuffles, JoinReducers, Over, vars
  <2>. QED
    BY <2>1, ErrorsStay, InputStays
<1>13. ASSUME NEW w \in Slots, Breaks(w) PROVE FALSE
  BY <1>13, BreaksMoves
<1>1. ASSUME NEW w \in Slots, NextKey(w) \/ GetData(w) \/ GetNothing(w) PROVE DiskInv'
  <2>1. phase = "map" /\ phase' = phase /\ store' = store /\ disk' = disk
    BY <1>1 DEF NextKey, GetData, GetNothing, Aborts
  <2>. QED
    BY <1>0, <2>1, FilesStay DEF DiskInv, FilesOf
<1>2. ASSUME NEW w \in Slots, MapThrows(w) \/ CombineFails(w) PROVE FALSE
  BY <1>2 DEF MapThrows, CombineFails, GivesUp
<1>3. ASSUME NEW w \in Slots, MapTask(w) PROVE DiskInv'
  <2>. DEFINE S == Filled(thr[w].data) \intersect Partitions
  <2>1. phase = "map" /\ phase' = phase /\ disk' = disk + Cardinality(Filled(thr[w].data))
    BY <1>3 DEF MapTask, Streams
  <2>2. Filled(thr[w].data) \subseteq Partitions
    BY DEF Filled, Partitions
  <2>3. \A p \in Partitions :
          /\ store'[p].temps = 0
          /\ Len(store'[p].fragments) = Len(store[p].fragments) + IF p \in Filled(thr[w].data) THEN 1 ELSE 0
    <3>1. \A p \in Partitions : Len(store[p].fragments) \in Nat
      BY FilesAreNumbers DEF FilesNumbered
    <3>2. \A p \in Partitions :
            IF p \in Filled(thr[w].data)
            THEN store'[p].temps = 0 /\ Len(store'[p].fragments) = Len(store[p].fragments) + 1
            ELSE store'[p] = store[p]
      BY <1>3, MapTaskStore
    <3>3. SUFFICES ASSUME NEW p \in Partitions
                   PROVE  /\ store'[p].temps = 0
                          /\ Len(store'[p].fragments)
                               = Len(store[p].fragments) + IF p \in Filled(thr[w].data) THEN 1 ELSE 0
      OBVIOUS
    <3>4. CASE p \in Filled(thr[w].data)
      BY <3>2, <3>4
    <3>5. CASE p \notin Filled(thr[w].data)
      <4>1. store'[p] = store[p] /\ store[p].temps = 0 /\ Len(store[p].fragments) \in Nat
        BY <2>1, <3>1, <3>2, <3>5 DEF DiskInv
      <4>. QED
        BY <3>5, <4>1
    <3>. QED
      BY <3>4, <3>5
  <2>4. \A p \in Partitions : FilesOf(p)' = FilesOf(p) + IF p \in Filled(thr[w].data) THEN 1 ELSE 0
    BY <2>1, <2>3 DEF FilesOf
  <2>. QED
    BY <1>0, <2>1, <2>2, <2>3, <2>4, FilesGrow
<1>4. CASE JoinMaps
  <2>1. phase = "map" /\ phase' = "shuffle" /\ disk' = disk + Cardinality(Shuffled)
    BY <1>4 DEF JoinMaps, Aborts
  <2>2. ASSUME Shuffled = Partitions, NEW p \in Partitions
        PROVE  FilesOf(p)' = FilesOf(p) + IF p \in Shuffled THEN 1 ELSE 0
    <3>1. /\ store'[p].fragments = store[p].fragments /\ store'[p].temps = store[p].temps
          /\ store'[p].merging = store[p].fragments /\ store[p].fragments # <<>>
      BY <1>4, <2>2, JoinMapsStore DEF HasEntry
    <3>2. store[p].temps = 0 /\ Len(store[p].fragments) \in Nat
      BY <2>1, FilesAreNumbers DEF DiskInv, FilesNumbered
    <3>. QED
      BY <2>1, <2>2, <3>1, <3>2 DEF FilesOf
  <2>3. Shuffled \subseteq Partitions
    BY DEF Shuffled
  <2>. QED
    BY <1>0, <2>1, <2>2, <2>3, FilesGrow
<1>5. ASSUME NEW p \in Partitions, Shuffle(p) PROVE DiskInv'
  <2>1. /\ phase = "shuffle" /\ phase' = phase /\ store[p].merging # <<>>
        /\ \A q \in Partitions : q # p => store'[q] = store[q]
        /\ store'[p].fragments = store[p].fragments
        /\ \/ /\ store'[p].merging = <<>>
              /\ disk' = disk - Len(store[p].fragments) - store[p].temps
           \/ /\ store'[p].merging # <<>> /\ store'[p].temps = store[p].temps + 1
              /\ disk' = disk + 1
    <3>1. phase = "shuffle" /\ phase' = phase
      BY <1>5 DEF Shuffle, Unmerged
    <3>. QED
      BY <1>5, <3>1, ShuffleStore
  <2>2. \A q \in Partitions : q # p => FilesOf(q)' = FilesOf(q)
    BY <2>1 DEF FilesOf
  <2>. DEFINE n == Len(store[p].fragments)
              t == store[p].temps
  <2>3. n \in Nat /\ t \in Nat
    BY FilesAreNumbers DEF FilesNumbered
  <2>4. FilesOf(p) = n + t + 1
    BY <2>1 DEF FilesOf
  <2>5. Shuffled = Partitions => disk \in Nat
    <3>1. FileCounts \in [1..P -> Nat]
      BY FilesAreNumbers DEF FilesNumbered
    <3>2. Total(FileCounts) \in Nat
      BY <3>1, TotalIsNumber
    <3>. QED
      BY <1>0, <3>2 DEF DiskInv
  <2>6. CASE store'[p].merging = <<>> /\ disk' = disk - n - t
    <3>1. FilesOf(p)' = 1
      BY <2>1, <2>6 DEF FilesOf
    <3>. DEFINE d == 0 - n - t
    <3>. HIDE DEF n, t
    <3>2. d \in Int /\ FilesOf(p)' = FilesOf(p) + d /\ (Shuffled = Partitions => disk' = disk + d)
      BY <2>3, <2>4, <2>5, <2>6, <3>1
    <3>. HIDE DEF d
    <3>. QED
      BY <1>0, <2>1, <2>2, <3>2, FilesMove
  <2>7. CASE /\ store'[p].merging # <<>> /\ store'[p].temps = t + 1
             /\ disk' = disk + 1
    <3>1. FilesOf(p)' = FilesOf(p) + 1
      BY <2>1, <2>3, <2>4, <2>7, SMTT(30) DEF FilesOf
    <3>. QED
      BY <1>0, <2>1, <2>2, <2>7, <3>1, FilesMove
  <2>. QED
    BY <2>1, <2>6, <2>7
<1>6. CASE JoinShuffles
  <2>1. /\ phase = "shuffle" /\ phase' = "reduce" /\ store' = store /\ disk' = disk
        /\ partition' = partition /\ partition = 0
        /\ \A p \in Shuffled : store[p].merging = <<>>
    BY <1>6 DEF JoinShuffles, HandsInv
  <2>2. CASE Shuffled = Partitions
    <3>1. \A p \in Partitions : FilesOf(p)' = FilesOf(p)
      <4>1. \A p \in Partitions : ~(p < 0)
        BY DEF Partitions
      <4>. QED
        BY <2>1, <2>2, <4>1 DEF FilesOf
    <3>. QED
      BY <1>0, <2>1, <3>1, FilesStay
  <2>3. CASE Shuffled # Partitions
    BY <1>0, <2>1, <2>3 DEF DiskInv
  <2>. QED
    BY <2>2, <2>3
<1>7. ASSUME NEW w \in Slots, Claim(w) PROVE DiskInv'
  <2>1. /\ phase = "reduce" /\ phase' = phase /\ disk' = disk /\ partition' = partition + 1
        /\ At(w, "claim") /\ thr'[w].part = partition
        /\ thr'[w].at = IF partition < P THEN "find" ELSE "done"
        /\ \A v \in Slots : v # w => thr'[v] = thr[v]
    BY <1>7, ClaimMoves DEF Claim, Only
  <2>2. ASSUME NEW p \in Partitions PROVE FilesOf(p)' = FilesOf(p)
    <3>0. partition \in Nat /\ p \in Nat /\ p < P
      BY DEF HandsInv, Partitions
    <3>1. CASE p = partition
      <4>1. Held(p)'
        BY <2>1, <3>0, <3>1 DEF Held, Holding
      <4>2. ~(p < partition)
        BY <3>0, <3>1
      <4>. QED
        BY <2>1, <4>1, <4>2 DEF FilesOf
    <3>2. CASE p # partition
      <4>1. Held(p)' <=> Held(p)
        BY <2>1, <3>2 DEF Held, Holding, At
      <4>2. p < partition' <=> p < partition
        BY <2>1, <3>0, <3>2
      <4>. QED
        BY <2>1, <4>1, <4>2 DEF FilesOf
    <3>. QED
      BY <3>1, <3>2
  <2>. QED
    BY <1>0, <2>1, <2>2, FilesStay
<1>8. ASSUME NEW w \in Slots, Find(w) \/ Erase(w) PROVE DiskInv'
  <2>1. /\ phase = "reduce" /\ phase' = "reduce" /\ thr[w].at \in Holding /\ thr'[w].at \in Holding
        /\ thr'[w].part = thr[w].part
        /\ \A v \in Slots : v # w => thr'[v] = thr[v]
        /\ partition' = partition /\ disk' = disk
    BY <1>8, FindMoves, EraseMoves DEF Only, At, Holding, Find, Erase
  <2>2. \A p \in Partitions : Held(p)' <=> Held(p)
    BY <2>1 DEF Held
  <2>3. \A p \in Partitions : FilesOf(p)' = FilesOf(p)
    BY <2>1, <2>2 DEF FilesOf
  <2>. QED
    BY <1>0, <2>1, <2>3, FilesStay
<1>9. ASSUME NEW w \in Slots, ReduceThrows(w) PROVE FALSE
  BY <1>9 DEF ReduceThrows
<1>10. ASSUME NEW w \in Slots, Reduce(w) PROVE DiskInv'
  <2>0. PICK p : p = thr[w].part
    OBVIOUS
  <2>1. /\ phase = "reduce" /\ phase' = phase /\ At(w, "reduce") /\ thr'[w].at = "claim"
        /\ \A v \in Slots : v # w => thr'[v] = thr[v]
        /\ partition' = partition /\ disk' = disk - 1
    BY <1>10, ReduceMoves DEF Reduce, Only
  <2>2. p \in Partitions /\ p < partition
    BY <2>0, <2>1 DEF HandsInv, At, Holding
  <2>3. Held(p) /\ ~Held(p)'
    <3>1. Held(p)
      BY <2>0, <2>1 DEF Held, At, Holding
    <3>2. \A v \in Slots : v # w /\ thr[v].at \in Holding => thr[v].part # p
      BY <2>0, <2>1 DEF HandsInv, At, Holding
    <3>3. \A v \in Slots : thr'[v].at \in Holding => v # w
      BY <2>1 DEF Holding
    <3>4. ~ \E v \in Slots : thr'[v].at \in Holding /\ thr'[v].part = p
      BY <2>1, <3>2, <3>3
    <3>. QED
      BY <3>1, <3>4 DEF Held
  <2>4. \A q \in Partitions : q # p => FilesOf(q)' = FilesOf(q)
    <3>1. \A q \in Partitions : q # p => (Held(q)' <=> Held(q))
      BY <2>0, <2>1 DEF Held, Holding, At
    <3>. QED
      BY <2>1, <3>1 DEF FilesOf
  <2>5. FilesOf(p) = 1 /\ FilesOf(p)' = 0
    BY <2>1, <2>2, <2>3 DEF FilesOf
  <2>6. Shuffled = Partitions => disk' = disk + (0 - 1)
    <3>1. FileCounts \in [1..P -> Nat]
      BY FilesAreNumbers DEF FilesNumbered
    <3>2. Total(FileCounts) \in Nat
      BY <3>1, TotalIsNumber
    <3>. QED
      BY <1>0, <2>1, <3>2 DEF DiskInv
  <2>. DEFINE d == 0 - 1
  <2>7. d \in Int /\ FilesOf(p)' = FilesOf(p) + d
    BY <2>5
  <2>. HIDE DEF d
  <2>. QED
    BY <1>0, <2>1, <2>2, <2>4, <2>6, <2>7, FilesMove DEF d
<1>11. CASE JoinReducers
  <2>1. /\ phase = "reduce" /\ phase' = "ended" /\ disk' = disk /\ partition' = partition /\ thr' = thr
    BY <1>11 DEF JoinReducers
  <2>2. \A p \in Partitions : FilesOf(p)' = FilesOf(p)
    BY <2>1 DEF FilesOf, Held
  <2>. QED
    BY <1>0, <2>1, <2>2, FilesStay
<1>12. CASE UNCHANGED vars
  <2>1. phase' = phase /\ store' = store /\ disk' = disk /\ partition' = partition /\ thr' = thr
    BY <1>12 DEF vars
  <2>2. \A p \in Partitions : FilesOf(p)' = FilesOf(p)
    BY <2>1 DEF FilesOf, Held
  <2>. QED
    BY <1>0, <2>1, <2>2, FilesStay DEF DiskInv
<1>. QED
  BY <1>1, <1>2, <1>3, <1>4, <1>5, <1>6, <1>7, <1>8, <1>9, <1>10, <1>11, <1>12, <1>13
     DEF Next, Work, MapStep, Breaks, ReduceStep, Crash, Aborts, Over

DiskJobInv == PlaceInv /\ SourceShape /\ DividedInv /\ StoreShape /\ HandsInv /\ DiskInv

LEMMA DiskJobInvHolds == Spec => []DiskJobInv
<1>1. Init => DiskJobInv
  BY PlaceInit, SourceInit, StoreInit, HandsInit, DiskInit DEF DiskJobInv
<1>2. DiskJobInv /\ [Next]_vars => DiskJobInv'
  BY PlaceNext, SourceNext, StoreNext, HandsNext, DiskNext DEF DiskJobInv
<1>. QED
  BY <1>1, <1>2, PTL DEF Spec

(* A job that has ended had no partition that was left out of the shuffle, and if it met no
   error it has deleted every temporary file: the fragments, the results of the merge that
   were merged again, and the merged files (local_disk.hpp, cpu_parallel.hpp). *)
THEOREM NoFilesLeftHolds == Spec => []NoFilesLeft
<1>1. DiskJobInv => NoFilesLeft
  <2>. SUFFICES ASSUME DiskJobInv, phase = "ended"
                PROVE  Shuffled = Partitions /\ (~reported => disk = 0)
    BY DEF NoFilesLeft
  <2>1. Shuffled = Partitions /\ P <= partition /\ \A p \in Partitions : ~Held(p)
    BY DEF DiskJobInv, HandsInv
  <2>2. \A p \in Partitions : p < partition
    BY <2>1 DEF DiskJobInv, HandsInv, Partitions
  <2>3. \A p \in Partitions : FileCount[p] = 0
    BY <2>1, <2>2 DEF FileCount, FilesOf
  <2>4. FileCounts = OnesAt({})
    <3>1. \A i \in 1..P : i - 1 \in Partitions
      BY DEF Partitions
    <3>. QED
      BY <2>3, <3>1 DEF FileCounts, OnesAt
  <2>5. Total(FileCounts) = 0
    BY <2>4, TotalOfOnes, FS_EmptySet
  <2>. QED
    BY <2>1, <2>5 DEF DiskJobInv, DiskInv
<1>. QED
  BY <1>1, DiskJobInvHolds, PTL

--------------------------------------------------------------------------------
(* Why an assertion fails. *)

Several == \E w \in Threads : w # 1

(* One thread asks for the file it has; a file that is not put away is longer than a segment. *)
AskedInv ==
  ~reported =>
    /\ phase = "map" /\ ~Several => \A w \in Slots : At(w, "data") => src.current \in {NoFile, thr[w].key}
    /\ src.current # NoFile => Segment < Len(dir[src.current])

(* Every word that was handed out is in the store or in the hands of a thread; when all are,
   a partition without an entry has no words, or it was erased when it was reduced. *)
Kept(p) == HasEntry(p) \/ \E w \in Slots : At(w, "task") /\ p \in Filled(thr[w].data)
WordsInv ==
  ~reported =>
    /\ phase = "map" =>
         \A f \in Files : \A i \in 1..src.offset[f] : dir[f][i] \in Words => Kept(Part[dir[f][i]])
    /\ phase = "shuffle" => \A p \in Partitions : HasEntry(p) \/ NoRecords(p)
    /\ phase = "reduce" =>
         \A p \in Partitions :
           \/ HasEntry(p) \/ NoRecords(p)
           \/ p < partition /\ \A w \in Slots : ~(At(w, "find") /\ thr[w].part = p)

Excused ==
  \/ Several /\ (\E f, g \in Files : f # g) /\ \E f \in Files : Segment < Len(dir[f])
  \/ reported \/ torn
  \/ \E p \in Partitions : NoRecords(p)
  \/ \E f \in Files : WholePages(f)
  \/ \E w \in Threads : Exhausts(w)
ExcuseInv == phase = "aborted" => Excused

LEMMA AskedInit == Init => AskedInv
<1>. SUFFICES ASSUME Init PROVE AskedInv
  OBVIOUS
<1>1. src = [next |-> 1, current |-> NoFile, opened |-> {}, offset |-> [i \in DOMAIN dir |-> 0]]
  BY DEF Init, Opening, NoSource
<1>2. src.current = NoFile
  BY <1>1
<1>. QED
  BY <1>2 DEF AskedInv

LEMMA AskedNext ==
  ASSUME PlaceInv, SourceShape, DividedInv, AskedInv, [Next]_vars
  PROVE  AskedInv'
<1>. SUFFICES ASSUME ~reported' PROVE AskedInv'
  BY DEF AskedInv
<1>0. /\ dir' = dir /\ Threads' = Threads /\ (Several' <=> Several) /\ ~reported
      /\ Threads \subseteq Slots
  BY InputStays, ErrorsStay, ThreadsAreSlots DEF Several
<1>1. CASE ~ \E w \in Slots : NextKey(w) \/ GetData(w) \/ GetNothing(w)
  <2>1. src' = src
    BY <1>1, SourceStays
  <2>2. phase' = "map" => \A w \in Slots : At(w, "data")' => At(w, "data") /\ thr'[w].key = thr[w].key /\ phase = "map"
    <3>1. SUFFICES ASSUME phase' = "map"
                   PROVE  \A w \in Slots : At(w, "data")' => At(w, "data") /\ thr'[w].key = thr[w].key /\ phase = "map"
      OBVIOUS
    <3>2. ASSUME NEW w \in Slots, MapTask(w) PROVE \A v \in Slots : At(v, "data")' => At(v, "data") /\ thr'[v].key = thr[v].key /\ phase = "map"
      BY <3>2, MapTaskMoves DEF Only, At
    <3>3. ASSUME NEW w \in Slots, MapThrows(w) \/ CombineFails(w) PROVE FALSE
      BY <3>3 DEF MapThrows, CombineFails, GivesUp
    <3>7. ASSUME NEW w \in Slots, Breaks(w) PROVE FALSE
      BY <3>1, <3>7, BreaksMoves
    <3>4. ASSUME NEW w \in Slots, ReduceStep(w) PROVE FALSE
      BY <3>1, <3>4 DEF ReduceStep, Claim, Find, Erase, Crash, Aborts, Reduce, Reduces, ReduceThrows
    <3>5. ASSUME NEW p \in Partitions, Shuffle(p) PROVE FALSE
      BY <3>1, <3>5 DEF Shuffle, Unmerged
    <3>6. ~JoinMaps /\ ~JoinShuffles /\ ~JoinReducers
      BY <3>1 DEF JoinMaps, Aborts, JoinShuffles, JoinReducers
    <3>. QED
      BY <1>1, <3>1, <3>2, <3>3, <3>4, <3>5, <3>6, <3>7 DEF Next, Work, MapStep, Breaks, Over, vars, At
  <2>. QED
    BY <1>0, <2>1, <2>2 DEF AskedInv
<1>2. ASSUME NEW w \in Slots, NextKey(w) PROVE AskedInv'
  <2>1. src'.current = src.current
    <3>1. src' = [next |-> src'.next, current |-> src.current, opened |-> src.opened, offset |-> src.offset]
      BY <1>2, NextKeySource
    <3>. QED
      BY <3>1
  <2>2. /\ phase = "map" /\ \A v \in Slots : v # w => thr'[v] = thr[v]
        /\ \/ thr'[w].at = "data" /\ thr'[w].key = KeyOf(src, dir)
           \/ thr'[w].at = "done"
    BY <1>2, NextKeyMoves DEF Only
  <2>3. src.current # NoFile => KeyOf(src, dir) = src.current
    BY DEF KeyOf
  <2>. QED
    BY <1>0, <2>1, <2>2, <2>3 DEF AskedInv, At
<1>3. ASSUME NEW w \in Slots, GetData(w), phase' # "aborted" PROVE AskedInv'
  <2>. DEFINE k == thr[w].key
  <2>1. /\ phase = "map" /\ At(w, "data") /\ k \in Files /\ w \in Threads
    BY <1>3 DEF GetData, PlaceInv, At
  <2>2. thr'[w].at = "task" /\ \A v \in Slots : v # w => thr'[v] = thr[v]
    BY <1>3, GetDataMoves DEF Only
  <2>3. src'.current = IF Reach(src, dir, k) = Len(dir[k]) THEN NoFile ELSE k
    <3>. DEFINE c == IF Reach(src, dir, k) = Len(dir[k]) THEN NoFile ELSE k
    <3>1. src' = [next |-> src.next, current |-> c, opened |-> src.opened \union {k},
                  offset |-> [src.offset EXCEPT ![k] = NewSegment(w).to]]
      BY <1>3, GetDataSource
    <3>. HIDE DEF c
    <3>2. src'.current = c
      BY <3>1
    <3>. QED
      BY <3>2 DEF c
  <2>4. Reach(src, dir, k) # Len(dir[k]) => Segment < Len(dir[k])
    <3>1. src.offset[k] <= Len(dir[k])
      BY <2>1, LineEndsShape DEF DividedInv
    <3>. QED
      BY <2>1, <3>1, SegmentBounds
  <2>5. src'.current # NoFile => Segment < Len(dir'[src'.current])
    BY <1>0, <2>3, <2>4
  <2>6. ~Several => \A v \in Slots : ~At(v, "data")'
    <3>1. ~Several => \A v \in Slots : v # w => At(v, "done")
      BY <2>1 DEF PlaceInv, Several
    <3>. QED
      BY <2>2, <3>1 DEF At
  <2>. QED
    BY <1>0, <2>5, <2>6 DEF AskedInv
<1>4. ASSUME NEW w \in Slots, GetData(w), phase' = "aborted" PROVE AskedInv'
  <2>1. src' = src
    BY <1>4, GetDataSource DEF GetData
  <2>. QED
    BY <1>0, <1>4, <2>1 DEF AskedInv
<1>5. ASSUME NEW w \in Slots, GetNothing(w) PROVE AskedInv'
  <2>1. src'.current = NoFile
    BY <1>5, GetNothingSource
  <2>. QED
    BY <1>0, <2>1 DEF AskedInv
<1>. QED
  BY <1>1, <1>2, <1>3, <1>4, <1>5

(* The words between two places of a text are those of the part between them. *)
LEMMA FilledByPart ==
  ASSUME NEW S, NEW text \in Seq(S), NEW m \in Nat, NEW n \in Nat, m <= n, n <= Len(text)
  PROVE  \A i \in m + 1..n : text[i] \in Words => Part[text[i]] \in Filled(SubSeq(text, m + 1, n))
<1>. DEFINE part == SubSeq(text, m + 1, n)
<1>1. ASSUME NEW i \in m + 1..n, text[i] \in Words PROVE Part[text[i]] \in Filled(part)
  <2>1. i - m \in 1..n - m /\ m + 1 + (i - m) - 1 = i /\ Len(text) \in Nat
    OBVIOUS
  <2>2. /\ part \in Seq(S) /\ Len(part) = n - m
        /\ \A j \in 1..n - m : part[j] = text[m + j]
    <3>1. \A j \in m + 1..n : text[j] \in S
      BY <2>1
    <3>2. /\ part \in Seq(S)
          /\ Len(part) = IF m + 1 <= n THEN n - (m + 1) + 1 ELSE 0
          /\ \A j \in 1..n - (m + 1) + 1 : part[j] = text[m + 1 + j - 1]
      BY <3>1, SubSeqProperties
    <3>. HIDE DEF part
    <3>3. n - (m + 1) + 1 = n - m /\ \A j \in 1..n - m : m + 1 + j - 1 = m + j
      OBVIOUS
    <3>4. Len(part) = n - m
      BY <3>2, <3>3
    <3>. QED
      BY <3>2, <3>3, <3>4
  <2>. HIDE DEF part
  <2>3. part[i - m] = text[i] /\ i - m \in DOMAIN part
    BY <2>1, <2>2
  <2>4. text[i] \in Range(part) \intersect Words
    BY <1>1, <2>3 DEF Range
  <2>. QED
    BY <2>4 DEF Filled
<1>. QED
  BY <1>1

(* When all has been handed out and no thread is at its task the store has what there is. *)
LEMMA AllKept ==
  ASSUME PlaceInv, WordsInv, phase = "map", ~reported, \A w \in Slots : At(w, "done"),
         \A f \in Files : src.offset[f] = Len(dir[f])
  PROVE  \A p \in Partitions : HasEntry(p) \/ NoRecords(p)
<1>. SUFFICES ASSUME NEW p \in Partitions, ~HasEntry(p), NEW f \in Files, p \in Filled(dir[f])
              PROVE  FALSE
  BY DEF NoRecords, Files
<1>1. PICK c \in Range(dir[f]) \intersect Words : p = Part[c]
  BY DEF Filled
<1>2. PICK i \in DOMAIN dir[f] : dir[f][i] = c
  BY <1>1 DEF Range
<1>3. i \in 1..src.offset[f]
  <2>1. dir[f] \in Seq(Words \union {Newline})
    BY InputShape
  <2>. QED
    BY <1>2, <2>1
<1>4. Kept(Part[dir[f][i]])
  BY <1>1, <1>2, <1>3 DEF WordsInv
<1>5. Kept(p)
  BY <1>1, <1>2, <1>4
<1>. QED
  BY <1>5 DEF Kept, At

LEMMA WordsInit == Init => WordsInv
<1>. SUFFICES ASSUME Init PROVE WordsInv
  OBVIOUS
<1>1. \A f \in Files : src.offset[f] = 0
  <2>1. src = [next |-> 1, current |-> NoFile, opened |-> {}, offset |-> [i \in DOMAIN dir |-> 0]]
    BY DEF Init, Opening, NoSource
  <2>. QED
    BY <2>1 DEF Files
<1>. QED
  BY <1>1 DEF WordsInv, Init

LEMMA WordsGetData ==
  ASSUME PlaceInv, SourceShape, DividedInv, WordsInv, dir' = dir, store' = store, ~reported, ~reported',
         NEW w \in Slots, GetData(w), phase' = phase
  PROVE  WordsInv'
<1>. DEFINE k == thr[w].key
            o == src.offset[k]
            e == SegmentEnd(src, dir, k)
<1>1. phase = "map" /\ At(w, "data") /\ k \in Files
  BY DEF GetData, PlaceInv, At
<1>2. /\ thr'[w].at = "task" /\ thr'[w].data = SegmentOf(src, dir, k)
      /\ \A v \in Slots : v # w => thr'[v] = thr[v]
  BY <1>1, GetDataMoves DEF Only
<1>3. o \in Nat /\ e \in Nat /\ o <= e /\ e <= Len(dir[k]) /\ dir[k] \in Seq(Words \union {Newline})
  <2>1. o \in LineEnds(k) /\ o <= Len(dir[k]) /\ o \in Nat
    BY <1>1, LineEndsShape DEF DividedInv
  <2>2. e \in LineEnds(k) /\ o <= e /\ e <= Len(dir[k]) /\ e \in Nat
    BY <1>1, <2>1, SegmentBounds, LineEndsShape
  <2>. QED
    BY <1>1, <2>1, <2>2, InputShape
<1>4. src'.offset[k] = e /\ \A f \in Files : f # k => src'.offset[f] = src.offset[f]
  <2>. DEFINE c == IF Reach(src, dir, k) = Len(dir[k]) THEN NoFile ELSE k
  <2>1. src' = [next |-> src.next, current |-> c, opened |-> src.opened \union {k},
                offset |-> [src.offset EXCEPT ![k] = NewSegment(w).to]]
    BY <1>1, GetDataSource
  <2>2. NewSegment(w).to = e
    BY DEF NewSegment
  <2>. HIDE DEF c, k, e
  <2>3. src'.offset = [src.offset EXCEPT ![k] = e]
    BY <2>1, <2>2
  <2>. QED
    BY <1>1, <2>3 DEF SourceShape, Files
<1>5. \A i \in o + 1..e : dir[k][i] \in Words => Part[dir[k][i]] \in Filled(thr'[w].data)
  <2>1. thr'[w].data = SubSeq(dir[k], o + 1, e)
    BY <1>2 DEF SegmentOf
  <2>2. \A i \in o + 1..e : dir[k][i] \in Words => Part[dir[k][i]] \in Filled(SubSeq(dir[k], o + 1, e))
    BY <1>3, FilledByPart
  <2>. QED
    BY <2>1, <2>2
<1>6. ASSUME NEW p, Kept(p) PROVE HasEntry(p) \/ \E v \in Slots : thr'[v].at = "task" /\ p \in Filled(thr'[v].data)
  <2>1. \A v \in Slots : At(v, "task") => v # w /\ thr'[v] = thr[v]
    BY <1>1, <1>2 DEF At
  <2>. QED
    BY <1>6, <2>1 DEF Kept, At
<1>7. ASSUME NEW f \in Files, NEW i \in 1..src'.offset[f], dir[f][i] \in Words
      PROVE  \/ HasEntry(Part[dir[f][i]])
             \/ \E v \in Slots : thr'[v].at = "task" /\ Part[dir[f][i]] \in Filled(thr'[v].data)
  <2>1. CASE i \in 1..src.offset[f]
    <3>1. Kept(Part[dir[f][i]])
      BY <1>1, <1>7, <2>1 DEF WordsInv
    <3>. QED
      BY <1>6, <3>1
  <2>2. CASE i \notin 1..src.offset[f]
    <3>1. f = k
      BY <1>4, <1>7, <2>2
    <3>2. i \in o + 1..e
      BY <1>3, <1>4, <1>7, <2>2, <3>1
    <3>. QED
      BY <1>2, <1>5, <1>7, <3>1, <3>2
  <2>. QED
    BY <2>1, <2>2
<1>8. Files' = Files
  BY DEF Files
<1>. HIDE DEF k, o, e
<1>. QED
  BY <1>1, <1>7, <1>8 DEF WordsInv, Kept, HasEntry, At

(* Reducers: a partition loses its entry when the one that has it in hand erases it. *)
LEMMA WordsReduce ==
  ASSUME PlaceInv, StoreShape, HandsInv, WordsInv, dir' = dir, ~reported, ~reported',
         NEW w \in Slots, ReduceStep(w), phase' # "aborted"
  PROVE  WordsInv'
<1>1. phase = "reduce" /\ phase' = "reduce"
  BY DEF ReduceStep, Claim, Find, Erase, Crash, Aborts, Reduce, Reduces, ReduceThrows
<1>2. \A p \in Partitions : NoRecords(p)' = NoRecords(p)
  BY DEF NoRecords
<1>3. partition \in Nat
  BY DEF HandsInv
<1>4. \A v \in Slots : v # w => thr'[v] = thr[v]
  BY ClaimMoves, FindMoves, EraseMoves, ReduceMoves DEF ReduceStep, Crash, Aborts, Only
<1>5. SUFFICES ASSUME NEW p \in Partitions
               PROVE  \/ HasEntry(p)' \/ NoRecords(p)
                      \/ p < partition' /\ \A v \in Slots : ~(thr'[v].at = "find" /\ thr'[v].part = p)
  BY <1>1, <1>2 DEF WordsInv, At
<1>6. \/ HasEntry(p) \/ NoRecords(p)
      \/ p < partition /\ \A v \in Slots : ~(thr[v].at = "find" /\ thr[v].part = p)
  BY <1>1 DEF WordsInv, At
<1>7. CASE Claim(w)
  <2>1. store' = store /\ partition' = partition + 1 /\ thr'[w].part = partition
    BY <1>7, ClaimMoves DEF Claim
  <2>2. p < partition => p < partition' /\ p # thr'[w].part
    BY <1>3, <2>1 DEF Partitions
  <2>. QED
    BY <1>4, <1>6, <2>1, <2>2 DEF HasEntry
<1>8. CASE Find(w) \/ Reduce(w) \/ ReduceThrows(w)
  <2>1. store' = store /\ partition' = partition /\ thr'[w].at # "find"
    BY <1>1, <1>8, FindMoves, ReduceMoves DEF Find, Reduce, ReduceThrows
  <2>. QED
    BY <1>4, <1>6, <2>1 DEF HasEntry
<1>9. CASE Erase(w)
  <2>1. /\ thr[w].at = "erase" /\ thr'[w].at = "reduce" /\ partition' = partition
        /\ \A q \in Partitions : q # thr[w].part => store'[q] = store[q]
    BY <1>9, EraseMoves, EraseStore DEF Erase, At
  <2>2. CASE p # thr[w].part
    BY <1>4, <1>6, <2>1, <2>2 DEF HasEntry
  <2>3. CASE p = thr[w].part
    <3>1. p < partition /\ \A v \in Slots : v # w /\ thr[v].at \in Holding => thr[v].part # p
      BY <1>1, <2>1, <2>3 DEF HandsInv, Holding
    <3>2. \A v \in Slots : ~(thr'[v].at = "find" /\ thr'[v].part = p)
      BY <1>4, <2>1, <3>1 DEF Holding
    <3>. QED
      BY <2>1, <3>1, <3>2
  <2>. QED
    BY <2>2, <2>3
<1>10. ~Crash(w)
  BY DEF Crash, Aborts
<1>. QED
  BY <1>7, <1>8, <1>9, <1>10 DEF ReduceStep

LEMMA WordsNext ==
  ASSUME PlaceInv, SourceShape, DividedInv, ReadOnInv, StoreShape, HandsInv, WordsInv, [Next]_vars
  PROVE  WordsInv'
<1>. SUFFICES ASSUME ~reported', phase' # "aborted" PROVE WordsInv'
  BY DEF WordsInv
<1>0. dir' = dir /\ Files' = Files /\ ~reported
  BY InputStays, ErrorsStay
<1>00. \A p \in Partitions : NoRecords(p)' = NoRecords(p)
  BY <1>0 DEF NoRecords
<1>1. ASSUME NEW w \in Slots, GetData(w) PROVE WordsInv'
  <2>1. phase' = phase /\ store' = store
    BY <1>1 DEF GetData, Aborts
  <2>. QED
    BY <1>0, <1>1, <2>1, WordsGetData
<1>2. ASSUME phase = "map", phase' = "map", NEW w \in Slots, \A v \in Slots : v # w => thr'[v] = thr[v],
             src'.offset = src.offset, \A p \in Partitions : HasEntry(p) => HasEntry(p)',
             At(w, "task") => \A p \in Filled(thr[w].data) : HasEntry(p)'
      PROVE  WordsInv'
  <2>1. ASSUME NEW p \in Partitions, Kept(p)
        PROVE  HasEntry(p)' \/ \E v \in Slots : thr'[v].at = "task" /\ p \in Filled(thr'[v].data)
    BY <1>2, <2>1 DEF Kept, At
  <2>2. \A c \in Words : Part[c] \in Partitions
    BY DEF Partitions
  <2>3. ASSUME NEW f \in Files, NEW i \in 1..src.offset[f], dir[f][i] \in Words
        PROVE  \/ store'[Part[dir[f][i]]].fragments # <<>>
               \/ \E v \in Slots : thr'[v].at = "task" /\ Part[dir[f][i]] \in Filled(thr'[v].data)
    <3>1. Kept(Part[dir[f][i]])
      BY <1>0, <1>2, <2>3 DEF WordsInv
    <3>2. PICK p \in Partitions : p = Part[dir[f][i]]
      BY <2>2, <2>3
    <3>3. Kept(p)
      BY <3>1, <3>2 DEF Kept, HasEntry
    <3>4. HasEntry(p)' \/ \E v \in Slots : thr'[v].at = "task" /\ p \in Filled(thr'[v].data)
      BY <2>1, <3>3
    <3>. QED
      BY <3>2, <3>4 DEF HasEntry
  <2>. QED
    BY <1>0, <1>2, <2>3 DEF WordsInv, Kept, HasEntry, At
<1>3. ASSUME NEW w \in Slots, NextKey(w) PROVE WordsInv'
  <2>1. src'.offset = src.offset
    <3>1. src' = [next |-> src'.next, current |-> src.current, opened |-> src.opened, offset |-> src.offset]
      BY <1>3, NextKeySource
    <3>. QED
      BY <3>1
  <2>2. /\ phase = "map" /\ phase' = "map" /\ ~At(w, "task") /\ store' = store
        /\ \A v \in Slots : v # w => thr'[v] = thr[v]
    BY <1>3, NextKeyMoves DEF Only, At, NextKey
  <2>. QED
    BY <1>2, <2>1, <2>2 DEF HasEntry
<1>4. ASSUME NEW w \in Slots, MapTask(w) PROVE WordsInv'
  <2>1. /\ phase = "map" /\ phase' = "map" /\ src' = src
        /\ \A v \in Slots : v # w => thr'[v] = thr[v]
    BY <1>4, MapTaskMoves DEF Only, MapTask
  <2>2. \A p \in Partitions : IF p \in Filled(thr[w].data) THEN HasEntry(p)' ELSE store'[p] = store[p]
    BY <1>4, MapTaskStore
  <2>3. Filled(thr[w].data) \subseteq Partitions
    BY DEF Filled, Partitions
  <2>4. \A p \in Partitions : HasEntry(p) => HasEntry(p)'
    BY <2>2 DEF HasEntry
  <2>. QED
    BY <1>2, <2>1, <2>2, <2>3, <2>4
<1>5. ASSUME NEW w \in Slots, MapThrows(w) \/ CombineFails(w) \/ GetNothing(w) \/ Breaks(w) PROVE FALSE
  BY <1>0, <1>5, NothingAfterError, BreaksMoves DEF MapThrows, CombineFails, GivesUp
<1>6. CASE JoinMaps
  <2>1. phase = "map" /\ phase' = "shuffle" /\ \A w \in Threads : At(w, "done")
    BY <1>6 DEF JoinMaps, Aborts
  <2>2. \A w \in Slots : At(w, "done")
    BY <2>1 DEF PlaceInv
  <2>3. \A f \in Files : src.offset[f] = Len(dir[f])
    <3>1. ReadOnInv' /\ src' = src
      BY <1>6, ReadOnNext DEF JoinMaps, Aborts
    <3>. QED
      BY <1>0, <2>1, <3>1 DEF ReadOnInv
  <2>4. \A p \in Partitions : HasEntry(p) \/ NoRecords(p)
    BY <1>0, <2>1, <2>2, <2>3, AllKept
  <2>5. \A p \in Partitions : store'[p].fragments = store[p].fragments
    BY <1>6, JoinMapsStore
  <2>. QED
    BY <1>00, <2>1, <2>4, <2>5 DEF WordsInv, HasEntry
<1>7. ASSUME NEW p \in Partitions, Shuffle(p) PROVE WordsInv'
  <2>1. phase = "shuffle" /\ phase' = phase
    BY <1>7 DEF Shuffle, Unmerged
  <2>2. \A q \in Partitions : store'[q].fragments = store[q].fragments
    BY <1>7, ShuffleStore
  <2>. QED
    BY <1>0, <1>00, <2>1, <2>2 DEF WordsInv, HasEntry
<1>8. CASE JoinShuffles
  <2>1. phase = "shuffle" /\ phase' = "reduce" /\ store' = store
    BY <1>8 DEF JoinShuffles
  <2>2. \A p \in Partitions : HasEntry(p)' = HasEntry(p)
    BY <2>1 DEF HasEntry
  <2>. QED
    BY <1>0, <1>00, <2>1, <2>2 DEF WordsInv
<1>9. ASSUME NEW w \in Slots, ReduceStep(w) PROVE WordsInv'
  BY <1>0, <1>9, WordsReduce
<1>10. CASE JoinReducers
  BY <1>10 DEF JoinReducers, WordsInv
<1>11. CASE UNCHANGED vars
  <2>1. phase' = phase /\ store' = store /\ thr' = thr /\ src' = src /\ partition' = partition
    BY <1>11 DEF vars
  <2>. QED
    BY <1>0, <1>00, <2>1 DEF WordsInv, HasEntry, Kept, At
<1>. QED
  BY <1>1, <1>3, <1>4, <1>5, <1>6, <1>7, <1>8, <1>9, <1>10, <1>11 DEF Next, Work, MapStep, Breaks, Over

(* A file in which a reader goes past the mapping has whole pages and no line end at its end. *)
LEMMA OverrunInside ==
  ASSUME PlaceInv, SourceShape, DividedInv, NEW w \in Slots, Overrun(w)
  PROVE  thr[w].key \in Files /\ WholePages(thr[w].key)
<1>. DEFINE k == thr[w].key
            r == Reach(src, dir, k)
            n == Len(dir[k])
            stops == {i \in r .. n : i = n \/ dir[k][i + 1] = Newline}
<1>1. k \in Files /\ r < n /\ SegmentEnd(src, dir, k) = n /\ n % MapPage = 0
  BY DEF Overrun, Overruns, PlaceInv, At
<1>2. n \in Nat /\ src.offset[k] <= n
  BY <1>1, InputShape, LineEndsShape DEF DividedInv
<1>3. r \in Nat /\ Segment < n
  <2>. DEFINE S == {src.offset[k] + Segment, n}
  <2>1. src.offset[k] \in Nat
    BY <1>1 DEF SourceShape, Files
  <2>2. S \subseteq Nat /\ S # {}
    BY <1>2, <2>1
  <2>3. Min(S) \in S /\ \A y \in S : Min(S) <= y
    BY <2>2, LeastIsMember
  <2>4. r = Min(S)
    BY DEF Reach
  <2>. HIDE DEF r, n
  <2>. QED
    BY <1>1, <1>2, <2>1, <2>3, <2>4
<1>4. Min(stops) = n
  BY <1>1 DEF SegmentEnd, LineEnd
<1>. HIDE DEF r
<1>5. \A y \in stops : n <= y
  <2>1. stops \subseteq Nat /\ n \in stops
    BY <1>1, <1>2, <1>3
  <2>. HIDE DEF stops, n
  <2>. QED
    BY <1>4, <2>1, LeastIsMember
<1>6. dir[k][n] # Newline
  <2>1. SUFFICES ASSUME dir[k][n] = Newline PROVE FALSE
    OBVIOUS
  <2>2. n - 1 \in r .. n /\ (n - 1) + 1 = n
    BY <1>1, <1>2, <1>3
  <2>3. n - 1 \in stops
    BY <2>1, <2>2
  <2>. HIDE DEF stops, n
  <2>. QED
    BY <1>2, <1>5, <2>3
<1>7. n > Segment
  BY <1>2, <1>3
<1>. QED
  BY <1>1, <1>6, <1>7 DEF WholePages, Longer, Files

(* As long as nothing has failed three descriptors are held for every temporary file. *)
HeldInv == phase = "map" /\ ~reported => disk \in Nat /\ held = 3 * disk
LEMMA HeldInit == Init => HeldInv
BY DEF HeldInv, Init

LEMMA HeldNext ==
  ASSUME PlaceInv, ReadOnInv, HeldInv, [Next]_vars
  PROVE  HeldInv'
<1>. SUFFICES ASSUME phase' = "map", ~reported' PROVE disk' \in Nat /\ held' = 3 * disk'
  BY DEF HeldInv
<1>1. ~reported
  BY ErrorsStay
<1>2. ASSUME NEW w \in Slots, MapTask(w) PROVE disk' \in Nat /\ held' = 3 * disk'
  <2>1. Streams(w) \in Nat
    <3>1. Filled(thr[w].data) \subseteq Partitions
      BY DEF Filled, Partitions
    <3>2. IsFiniteSet(0..(P - 1))
      BY FS_Interval, DiskAssumption
    <3>. QED
      BY <3>1, <3>2, FS_Subset, FS_CardinalityType DEF Partitions, Streams
  <2>2. disk \in Nat /\ held = 3 * disk
    BY <1>1, <1>2 DEF HeldInv, MapTask
  <2>3. disk' = disk + Streams(w) /\ held' = held + 3 * Streams(w)
    BY <1>2 DEF MapTask
  <2>. QED
    BY <2>1, <2>2, <2>3
<1>3. ASSUME NEW w \in Slots, MapThrows(w) \/ CombineFails(w) PROVE FALSE
  BY <1>3 DEF MapThrows, CombineFails, GivesUp
<1>4. ASSUME NEW w \in Slots, NextKey(w) \/ GetData(w) \/ GetNothing(w) \/ Breaks(w)
      PROVE  disk' \in Nat /\ held' = 3 * disk'
  <2>1. phase = "map" /\ disk' = disk /\ held' = held
    BY <1>4 DEF NextKey, GetData, GetNothing, Breaks, Overrun, OutOfFiles, Aborts
  <2>. QED
    BY <1>1, <2>1 DEF HeldInv
<1>5. ASSUME NEW w \in Slots, ReduceStep(w) PROVE FALSE
  BY <1>5 DEF ReduceStep, Claim, Find, Erase, Crash, Aborts, Reduce, Reduces, ReduceThrows
<1>6. ASSUME NEW p \in Partitions, Shuffle(p) PROVE FALSE
  BY <1>6 DEF Shuffle, Unmerged
<1>7. ~JoinMaps /\ ~JoinShuffles /\ ~JoinReducers
  BY DEF JoinMaps, JoinShuffles, JoinReducers, Aborts
<1>8. CASE UNCHANGED vars
  BY <1>1, <1>8 DEF HeldInv, vars
<1>. QED
  BY <1>2, <1>3, <1>4, <1>5, <1>6, <1>7, <1>8 DEF Next, Work, MapStep, Breaks, Over

LEMMA ExcuseNext ==
  ASSUME PlaceInv, SourceShape, DividedInv, ReadOnInv, HandsInv, AskedInv, WordsInv, HeldInv, ExcuseInv,
         [Next]_vars
  PROVE  ExcuseInv'
<1>. SUFFICES ASSUME phase' = "aborted" PROVE Excused'
  BY DEF ExcuseInv
<1>0. /\ policy' = policy /\ cpus' = cpus /\ dir' = dir /\ openMax' = openMax
      /\ Files' = Files /\ Threads' = Threads /\ (Several' <=> Several)
  BY InputStays DEF Several
<1>1. ASSUME Excused, reported => reported', torn => torn',
             (thr' = thr /\ src' = src /\ disk' = disk) \/ ~(\E w \in Threads : Exhausts(w))
      PROVE  Excused'
  <2>1. \A p \in Partitions : NoRecords(p)' = NoRecords(p)
    BY <1>0 DEF NoRecords
  <2>2. \A f \in Files : WholePages(f)' = WholePages(f)
    BY <1>0 DEF WholePages, Longer
  <2>3. ASSUME NEW w \in Threads, Exhausts(w) PROVE Exhausts(w)'
    <3>1. thr' = thr /\ src' = src /\ disk' = disk
      BY <1>1, <2>3
    <3>2. Streams(w)' = Streams(w) /\ \A v \in Threads : TaskNeeds(v)' = TaskNeeds(v)
      BY <3>1 DEF TaskNeeds, Streams, At
    <3>3. Others(w)' = Others(w)
      BY <1>0, <3>2 DEF Others
    <3>. QED
      BY <1>0, <2>3, <3>1, <3>2, <3>3 DEF Exhausts, At
  <2>. QED
    BY <1>0, <1>1, <2>1, <2>2, <2>3 DEF Excused
<1>2. CASE phase = "aborted"
  <2>1. ASSUME NEW w \in Slots, MapStep(w) \/ ReduceStep(w) PROVE FALSE
    BY <1>2, <2>1 DEF MapStep, ReduceStep, NextKey, GetData, GetNothing, Overrun, MapTask, MapThrows,
                      OutOfFiles, CombineFails, Claim, Find, Erase, Crash, Reduce, Reduces, ReduceThrows
  <2>2. ASSUME NEW p \in Partitions, Shuffle(p) PROVE FALSE
    BY <1>2, <2>2 DEF Shuffle, Unmerged
  <2>3. reported' = reported /\ torn' = torn /\ thr' = thr /\ src' = src /\ disk' = disk
    BY <1>2, <2>1, <2>2 DEF Next, Work, JoinMaps, JoinShuffles, JoinReducers, Over, vars
  <2>. QED
    BY <1>1, <1>2, <2>3 DEF ExcuseInv
<1>3. ASSUME NEW w \in Slots, GetData(w), ~reported PROVE Excused'
  <2>. DEFINE k == thr[w].key
  <2>1. phase = "map" /\ At(w, "data") /\ k \in Files /\ phase' # phase
    BY <1>3 DEF GetData, PlaceInv, At
  <2>2. src.current \notin {NoFile, k}
    BY <1>3, <2>1, GetDataSource
  <2>3. src.current \in Files /\ Segment < Len(dir[src.current]) /\ src.current # k
    BY <1>3, <2>2 DEF SourceShape, AskedInv
  <2>4. Several
    BY <1>3, <2>1, <2>2 DEF AskedInv
  <2>5. torn' = torn /\ reported' = reported /\ thr' = thr /\ src' = src /\ disk' = disk
    BY <1>3, <2>1 DEF GetData, Aborts
  <2>. QED
    BY <1>1, <2>1, <2>3, <2>4, <2>5 DEF Excused
<1>4. CASE JoinMaps /\ ~reported
  <2>1. /\ phase = "map" /\ \A w \in Threads : At(w, "done")
        /\ \E p \in Shuffled : ~HasEntry(p)
        /\ reported' = reported /\ torn' = torn /\ thr' = thr /\ src' = src /\ disk' = disk
    BY <1>4 DEF JoinMaps, Aborts
  <2>2. \A w \in Slots : At(w, "done")
    BY <2>1 DEF PlaceInv
  <2>3. \A f \in Files : src.offset[f] = Len(dir[f])
    <3>1. FilesLeft(src, dir) = {} /\ src.current = NoFile
      BY <1>4, <2>1, ThreadsAreSlots DEF ReadOnInv
    <3>2. SUFFICES ASSUME NEW f \in Files PROVE src.offset[f] = Len(dir[f])
      OBVIOUS
    <3>3. f >= src.next \/ src.offset[f] = Len(dir[f]) \/ InHand(f)
      BY <1>4, <2>1 DEF ReadOnInv
    <3>4. ~(f >= src.next)
      BY <3>1 DEF FilesLeft, Files
    <3>5. ~InHand(f)
      BY <2>2, <3>1, InputShape DEF InHand, At
    <3>. QED
      BY <3>3, <3>4, <3>5
  <2>4. \A p \in Partitions : HasEntry(p) \/ NoRecords(p)
    BY <1>4, <2>1, <2>2, <2>3, AllKept
  <2>5. \E p \in Partitions : NoRecords(p)
    BY <2>1, <2>4 DEF Shuffled
  <2>. QED
    BY <1>1, <2>1, <2>5 DEF Excused
<1>5. ASSUME NEW w \in Slots, Find(w), ~reported PROVE Excused'
  <2>0. phase = "reduce"
    BY <1>5 DEF Find
  <2>1. At(w, "find") /\ ~HasEntry(thr[w].part) /\ thr[w].part \in Partitions
    BY <1>5, <2>0, FindMoves DEF HandsInv, Holding, At
  <2>2. NoRecords(thr[w].part)
    <3>1. PICK p \in Partitions : p = thr[w].part
      BY <2>1
    <3>2. ~HasEntry(p)
      BY <2>1, <3>1 DEF HasEntry
    <3>3. NoRecords(p)
      BY <1>5, <2>0, <2>1, <3>1, <3>2 DEF WordsInv
    <3>. QED
      BY <3>1, <3>3 DEF NoRecords
  <2>3. reported' = reported /\ torn' = torn /\ thr' = thr /\ src' = src /\ disk' = disk
    BY <1>5, <2>1 DEF Find, Aborts
  <2>4. \E p \in Partitions : NoRecords(p)
    BY <2>1, <2>2
  <2>. QED
    BY <1>1, <2>3, <2>4 DEF Excused
<1>6. ASSUME NEW w \in Slots, Crash(w) PROVE Excused'
  BY <1>6 DEF Crash, Aborts, Excused
<1>7. CASE reported
  BY <1>7, ErrorsStay DEF Excused
<1>8. ASSUME phase # "aborted"
      PROVE  (\E w \in Slots : GetData(w) \/ Breaks(w) \/ Find(w) \/ Crash(w)) \/ JoinMaps
  <2>1. ASSUME NEW w \in Slots, \/ NextKey(w) \/ GetNothing(w) \/ MapTask(w) \/ MapThrows(w) \/ CombineFails(w)
                                \/ Claim(w) \/ Erase(w) \/ Reduce(w) \/ ReduceThrows(w)
        PROVE  FALSE
    BY <1>8, <2>1 DEF NextKey, GetNothing, MapTask, MapThrows, CombineFails, Claim, Erase, Reduce, ReduceThrows
  <2>2. ASSUME NEW p \in Partitions, Shuffle(p) PROVE FALSE
    BY <1>8, <2>2 DEF Shuffle
  <2>. QED
    BY <1>8, <2>1, <2>2 DEF Next, Work, MapStep, Breaks, ReduceStep, JoinShuffles, JoinReducers, Over, vars
<1>9. ASSUME NEW w \in Slots, Overrun(w) PROVE Excused'
  <2>1. thr[w].key \in Files /\ WholePages(thr[w].key)
    BY <1>9, OverrunInside
  <2>2. reported' = reported /\ torn' = torn /\ thr' = thr /\ src' = src /\ disk' = disk
    BY <1>9, BreaksMoves DEF Breaks
  <2>3. \E f \in Files : WholePages(f)
    BY <2>1
  <2>. QED
    BY <1>1, <2>2, <2>3 DEF Excused
<1>10. ASSUME NEW w \in Slots, OutOfFiles(w), ~reported PROVE Excused'
  <2>1. /\ phase = "map" /\ reported' = reported /\ torn' = torn
        /\ thr' = thr /\ src' = src /\ disk' = disk
    BY <1>10, BreaksMoves DEF Breaks
  <2>2. At(w, "task") /\ ~(held + Cardinality(src.opened) + (Others(w) + 2 * Streams(w)) <= openMax)
    BY <1>10 DEF OutOfFiles, Scarce, Fits
  <2>3. held = 3 * disk
    BY <1>10, <2>1 DEF HeldInv
  <2>4. Exhausts(w)
    BY <2>2, <2>3 DEF Exhausts
  <2>5. w \in Threads
    BY <2>2 DEF PlaceInv, At
  <2>6. \E v \in Threads : Exhausts(v)
    BY <2>4, <2>5
  <2>. QED
    BY <1>1, <2>1, <2>6 DEF Excused
<1>. QED
  BY <1>2, <1>3, <1>4, <1>5, <1>6, <1>7, <1>8, <1>9, <1>10 DEF Breaks

LEMMA CardinalityTwo ==
  ASSUME NEW S, IsFiniteSet(S), NEW x \in S, NEW y \in S, x # y
  PROVE  Cardinality(S) > 1
<1>1. IsFiniteSet({x}) /\ Cardinality({x}) = 1
  BY FS_Singleton
<1>. DEFINE one == {x}
<1>2. y \notin one
  OBVIOUS
<1>. HIDE DEF one
<1>3. IsFiniteSet(one \union {y}) /\ Cardinality(one \union {y}) = 2
  <2>1. IsFiniteSet(one) /\ Cardinality(one) = 1
    BY <1>1 DEF one
  <2>2. Cardinality(one \union {y}) = Cardinality(one) + 1
    BY <1>2, <2>1, FS_AddElement
  <2>. QED
    BY <2>1, <2>2, FS_AddElement
<1>4. Cardinality(one \union {y}) <= Cardinality(S) /\ Cardinality(S) \in Nat
  <2>1. one \union {y} \subseteq S
    BY DEF one
  <2>. QED
    BY <2>1, FS_Subset, FS_CardinalityType
<1>. QED
  BY <1>3, <1>4

(* A job is aborted only when several threads ask the datasource for files of more than one
   segment, when an error was met, when reducers changed the store at once (cpu_parallel.hpp),
   when a partition has no word (local_disk.hpp), when a file of whole pages has no line end at
   its end (datasource.hpp), or when the three descriptors that each temporary file has left
   open (platform.hpp), with those in use, are as many as there may be. *)
THEOREM AbortsOnlyIfHolds == Spec => []AbortsOnlyIf
<1>. DEFINE Inv == SourceInv /\ StoreShape /\ HandsInv /\ AskedInv /\ WordsInv /\ HeldInv /\ ExcuseInv
<1>1. Init => Inv
  BY PlaceInit, SourceInit, ReadOnInit, StoreInit, HandsInit, AskedInit, WordsInit, HeldInit
     DEF SourceInv, ExcuseInv, Init
<1>2. Inv /\ [Next]_vars => Inv'
  BY PlaceNext, SourceNext, ReadOnNext, StoreNext, HandsNext, AskedNext, WordsNext, HeldNext, ExcuseNext
     DEF SourceInv
<1>3. Inv => AbortsOnlyIf
  <2>. SUFFICES ASSUME Inv, phase = "aborted", ~reported, ~torn, ~(\E p \in Partitions : NoRecords(p)),
                       ~(\E f \in DOMAIN dir : WholePages(f)), ~(\E w \in Threads : Exhausts(w))
                PROVE  TwoAsk
    BY DEF AbortsOnlyIf
  <2>. USE DEF SourceInv
  <2>0. \A f \in Files : f \in DOMAIN dir
    BY DEF Files
  <2>1. Several /\ (\E f, g \in Files : f # g) /\ \E f \in Files : Segment < Len(dir[f])
    BY <2>0 DEF ExcuseInv, Excused
  <2>2. IsFiniteSet(Threads)
    <3>1. (IF policy = "sequential" THEN 1 ELSE cpus) \in Nat
      BY DEF PlaceInv
    <3>. QED
      BY <3>1, FS_Interval DEF Threads
  <2>3. Cardinality(Threads) > 1
    BY <2>1, <2>2, ThreadsAreSlots, CardinalityTwo DEF Several
  <2>4. dir \in Seq(Seq(Words \union {Newline}) \union {Directory})
    BY InputShape
  <2>5. IsFiniteSet(Files)
    <3>1. DOMAIN dir = 1..Len(dir) /\ Len(dir) \in Nat
      BY <2>4
    <3>2. IsFiniteSet(1..Len(dir))
      BY <3>1, FS_Interval
    <3>. QED
      BY <3>1, <3>2, FS_Subset DEF Files
  <2>6. Cardinality(Files) > 1
    BY <2>1, <2>5, CardinalityTwo
  <2>7. \A f \in Files : Segment < Len(dir[f]) => Len(dir[f]) > Segment
    BY InputShape
  <2>. QED
    BY <2>1, <2>3, <2>6, <2>7 DEF Files, TwoAsk, Longer
<1>. QED
  BY <1>1, <1>2, <1>3, PTL DEF Spec


--------------------------------------------------------------------------------
(* Sums of lists of numbers, of any length. *)

SumTo(n, f) == Numbers!PartialSums(n, f)[n]

LEMMA SumIs ==
  ASSUME NEW n \in Nat, NEW f \in [1..n -> Nat], NEW U, Numbers!IsPartialSums(U, n, f)
  PROVE  SumTo(n, f) = U[n] /\ SumTo(n, f) \in Nat
<1>1. Numbers!IsPartialSums(Numbers!PartialSums(n, f), n, f)
  BY NumbersConstants, Numbers!PartialSumsExist
<1>2. Numbers!PartialSums(n, f) = U
  BY <1>1, NumbersConstants, Numbers!PartialSumsUnique
<1>3. n \in 0..n /\ U \in [0..n -> Nat]
  BY DEF Numbers!IsPartialSums
<1>. QED
  BY <1>2, <1>3 DEF SumTo

LEMMA SumIsNumber ==
  ASSUME NEW n \in Nat, NEW f \in [1..n -> Nat]
  PROVE  SumTo(n, f) \in Nat
<1>1. Numbers!IsPartialSums(Numbers!PartialSums(n, f), n, f)
  BY NumbersConstants, Numbers!PartialSumsExist
<1>. QED
  BY <1>1, SumIs

LEMMA SumOfNone ==
  ASSUME NEW f \in [1..0 -> Nat]
  PROVE  SumTo(0, f) = 0
<1>1. Numbers!IsPartialSums(Numbers!PartialSums(0, f), 0, f)
  BY NumbersConstants, Numbers!PartialSumsExist
<1>. QED
  BY <1>1 DEF SumTo, Numbers!IsPartialSums

(* what is added up entry by entry *)
AddsTo(n, f, g, h) ==
  /\ f \in [1..n -> Nat] /\ g \in [1..n -> Nat] /\ h \in [1..n -> Nat]
  /\ \A i \in 1..n : h[i] = f[i] + g[i]

LEMMA SumAdds ==
  ASSUME NEW n \in Nat, NEW f, NEW g, NEW h, AddsTo(n, f, g, h)
  PROVE  SumTo(n, h) = SumTo(n, f) + SumTo(n, g)
<1>1. Numbers!PartialSums(n, h)[n] = Numbers!PartialSums(n, f)[n] + Numbers!PartialSums(n, g)[n]
  BY NumbersConstants, Numbers!PartialSumsAdd, Zenon DEF AddsTo
<1>. QED
  BY <1>1 DEF SumTo

(* a list behind another one *)
Follows(m, f, k, g, h) ==
  /\ f \in [1..m -> Nat] /\ g \in [1..k -> Nat] /\ h \in [1..m + k -> Nat]
  /\ \A i \in 1..m : h[i] = f[i]
  /\ \A i \in 1..k : h[m + i] = g[i]

LEMMA SumJoins ==
  ASSUME NEW m \in Nat, NEW k \in Nat, NEW f, NEW g, NEW h, Follows(m, f, k, g, h)
  PROVE  SumTo(m + k, h) = SumTo(m, f) + SumTo(k, g)
<1>. DEFINE A == Numbers!PartialSums(m, f)
            B == Numbers!PartialSums(k, g)
            U == [i \in 0..m + k |-> IF i <= m THEN A[i] ELSE A[m] + B[i - m]]
<1>1. /\ A \in [0..m -> Nat] /\ A[0] = 0 /\ \A i \in 1..m : A[i] = A[i - 1] + f[i]
      /\ B \in [0..k -> Nat] /\ B[0] = 0 /\ \A i \in 1..k : B[i] = B[i - 1] + g[i]
  <2>1. Numbers!IsPartialSums(A, m, f) /\ Numbers!IsPartialSums(B, k, g)
    BY NumbersConstants, Numbers!PartialSumsExist DEF Follows
  <2>. HIDE DEF A, B
  <2>. QED
    BY <2>1 DEF Numbers!IsPartialSums
<1>. HIDE DEF A, B
<1>2. U \in [0..m + k -> Nat] /\ U[0] = 0
  <2>1. ASSUME NEW i \in 0..m + k PROVE (IF i <= m THEN A[i] ELSE A[m] + B[i - m]) \in Nat
    <3>1. CASE i <= m
      BY <1>1, <3>1
    <3>2. CASE ~(i <= m)
      <4>1. i - m \in 0..k /\ m \in 0..m
        BY <3>2
      <4>2. A[m] \in Nat /\ B[i - m] \in Nat
        BY <1>1, <4>1
      <4>. QED
        BY <3>2, <4>2
    <3>. QED
      BY <3>1, <3>2
  <2>. QED
    BY <1>1, <2>1
<1>3. ASSUME NEW i \in 1..m + k PROVE U[i] = U[i - 1] + h[i]
  <2>1. i \in 0..m + k /\ i - 1 \in 0..m + k
    OBVIOUS
  <2>2. CASE i <= m
    <3>1. i \in 1..m /\ i - 1 <= m
      BY <2>2
    <3>. QED
      BY <1>1, <2>1, <2>2, <3>1 DEF Follows
  <2>3. CASE i = m + 1
    <3>1. 1 \in 1..k /\ i - m = 1 /\ i - 1 = m /\ ~(i <= m) /\ 1 - 1 = 0 /\ m \in 0..m
      BY <2>3
    <3>2. h[m + 1] = g[1] /\ g[1] \in Nat /\ B[1] = B[0] + g[1] /\ A[m] \in Nat
      BY <1>1, <3>1 DEF Follows
    <3>3. U[i] = A[m] + B[1] /\ U[i - 1] = A[m]
      BY <2>1, <3>1
    <3>. QED
      BY <1>1, <2>3, <3>2, <3>3
  <2>4. CASE i > m + 1
    <3>1. i - m \in 1..k /\ (i - m) - 1 = (i - 1) - m /\ ~(i <= m) /\ ~(i - 1 <= m) /\ m \in 0..m
          /\ m + (i - m) = i /\ (i - 1) - m \in 0..k
      BY <2>4
    <3>2. h[i] = g[i - m] /\ g[i - m] \in Nat /\ B[i - m] = B[(i - 1) - m] + g[i - m] /\ A[m] \in Nat
          /\ B[(i - 1) - m] \in Nat
      BY <1>1, <3>1 DEF Follows
    <3>3. U[i] = A[m] + B[i - m] /\ U[i - 1] = A[m] + B[(i - 1) - m]
      BY <2>1, <3>1
    <3>. QED
      BY <3>2, <3>3
  <2>. QED
    BY <2>2, <2>3, <2>4
<1>4. Numbers!IsPartialSums(U, m + k, h)
  <2>. HIDE DEF U
  <2>. QED
    BY <1>2, <1>3 DEF Numbers!IsPartialSums
<1>5. U[m + k] = A[m] + B[k]
  <2>1. CASE k = 0
    <3>1. m + k \in 0..m + k /\ m + k <= m /\ m + k = m /\ m \in 0..m
      BY <2>1
    <3>2. U[m + k] = A[m] /\ A[m] \in Nat
      BY <1>1, <3>1
    <3>. QED
      BY <1>1, <2>1, <3>2
  <2>2. CASE k # 0
    <3>1. m + k \in 0..m + k /\ ~(m + k <= m) /\ (m + k) - m = k
      BY <2>2
    <3>. QED
      BY <3>1
  <2>. QED
    BY <2>1, <2>2
<1>6. SumTo(m + k, h) = U[m + k]
  <2>1. m + k \in Nat /\ h \in [1..m + k -> Nat]
    BY DEF Follows
  <2>. HIDE DEF U
  <2>. QED
    BY <1>4, <2>1, SumIs
<1>. QED
  BY <1>5, <1>6 DEF SumTo, A, B

(* one for each member of a set of positions *)
Ones(n, T) == [i \in 1..n |-> IF i \in T THEN 1 ELSE 0]

LEMMA SumOfOnes ==
  ASSUME NEW n \in Nat, NEW T \in SUBSET (1..n)
  PROVE  /\ Ones(n, T) \in [1..n -> Nat]
         /\ IsFiniteSet(T) /\ SumTo(n, Ones(n, T)) = Cardinality(T)
<1>. DEFINE f == Ones(n, T)
            Below(i) == T \intersect (1..i)
            U == [i \in 0..n |-> Cardinality(Below(i))]
<1>1. f \in [1..n -> Nat] /\ \A i \in 1..n : f[i] = IF i \in T THEN 1 ELSE 0
  BY DEF Ones
<1>2. IsFiniteSet(T)
  <2>1. IsFiniteSet(1..n)
    BY FS_Interval
  <2>. QED
    BY <2>1, FS_Subset
<1>3. \A i \in 0..n : IsFiniteSet(Below(i)) /\ Cardinality(Below(i)) \in Nat
  <2>1. \A i \in 0..n : IsFiniteSet(Below(i))
    BY <1>2, FS_Subset
  <2>. QED
    BY <2>1, FS_CardinalityType
<1>4. Below(0) = {} /\ Below(n) = T
  <2>1. 1..0 = {}
    OBVIOUS
  <2>. QED
    BY <2>1
<1>5. ASSUME NEW i \in 1..n PROVE U[i] = U[i - 1] + f[i]
  <2>0. i \in 0..n /\ i - 1 \in 0..n
    OBVIOUS
  <2>1. /\ U[i] = Cardinality(Below(i)) /\ U[i - 1] = Cardinality(Below(i - 1))
        /\ IsFiniteSet(Below(i - 1)) /\ Cardinality(Below(i - 1)) \in Nat
    BY <1>3, <2>0
  <2>2. 1..i = (1..(i - 1)) \union {i} /\ i \notin 1..(i - 1)
    OBVIOUS
  <2>3. CASE i \in T
    <3>1. Below(i) = Below(i - 1) \union {i} /\ i \notin Below(i - 1)
      BY <2>2, <2>3
    <3>. DEFINE B == Below(i - 1)
    <3>. HIDE DEF B
    <3>2. Cardinality(B \union {i}) = Cardinality(B) + 1
      BY <2>1, <3>1, FS_AddElement DEF B
    <3>. QED
      BY <1>1, <2>1, <2>3, <3>1, <3>2 DEF B
  <2>4. CASE i \notin T
    <3>1. Below(i) = Below(i - 1)
      BY <2>2, <2>4
    <3>2. f[i] = 0
      BY <1>1, <2>4
    <3>3. U[i] = U[i - 1] /\ U[i - 1] \in Nat
      BY <2>1, <3>1, Zenon
    <3>. HIDE DEF U, f
    <3>. QED
      BY <3>2, <3>3
  <2>. QED
    BY <2>3, <2>4
<1>6. Numbers!IsPartialSums(U, n, f)
  <2>1. U \in [0..n -> Nat] /\ U[0] = 0
    BY <1>3, <1>4, FS_EmptySet
  <2>. QED
    BY <1>5, <2>1 DEF Numbers!IsPartialSums
<1>7. U[n] = Cardinality(T)
  <2>1. n \in 0..n
    OBVIOUS
  <2>. QED
    BY <1>4, <2>1, Zenon
<1>8. SumTo(n, f) = U[n]
  <2>. HIDE DEF U, f
  <2>. QED
    BY <1>1, <1>6, SumIs
<1>. QED
  BY <1>1, <1>2, <1>7, <1>8 DEF f

--------------------------------------------------------------------------------
(* Records, their order, and how often a file has one. *)

Pairs == Nat \X Nat

(* ~Before(y, x): x may stand before y *)
LEMMA OrderOfRecords ==
  ASSUME NEW x \in Pairs, NEW y \in Pairs
  PROVE  /\ ~Before(x, x)
         /\ Before(x, y) => ~Before(y, x)
         /\ x = y \/ Before(x, y) \/ Before(y, x)
<1>1. PICK a \in Nat, b \in Nat : x = <<a, b>>
  BY DEF Pairs
<1>2. PICK c \in Nat, d \in Nat : y = <<c, d>>
  BY DEF Pairs
<1>. QED
  BY <1>1, <1>2 DEF Before

LEMMA OrderIsTransitive ==
  ASSUME NEW x \in Pairs, NEW y \in Pairs, NEW z \in Pairs
  PROVE  /\ ~Before(y, x) /\ ~Before(z, y) => ~Before(z, x)
         /\ Before(x, y) /\ Before(y, z) => Before(x, z)
<1>1. PICK a \in Nat, b \in Nat : x = <<a, b>>
  BY DEF Pairs
<1>2. PICK c \in Nat, d \in Nat : y = <<c, d>>
  BY DEF Pairs
<1>3. PICK e \in Nat, f \in Nat : z = <<e, f>>
  BY DEF Pairs
<1>. QED
  BY <1>1, <1>2, <1>3 DEF Before

LEMMA SmallestIs ==
  ASSUME NEW S \in SUBSET Pairs, S # {}
  PROVE  Smallest(S) \in S /\ \A y \in S : ~Before(y, Smallest(S))
<1>. DEFINE firsts == {x[1] : x \in S}
            a == Min(firsts)
            seconds == {x[2] : x \in {y \in S : y[1] = a}}
            b == Min(seconds)
<1>1. \A x \in S : x = <<x[1], x[2]>> /\ x[1] \in Nat /\ x[2] \in Nat
  BY DEF Pairs
<1>2. a \in firsts /\ \A n \in firsts : a <= n
  <2>1. firsts \subseteq Nat /\ firsts # {}
    BY <1>1
  <2>. HIDE DEF firsts
  <2>. QED
    BY <2>1, LeastIsMember
<1>3. \A x \in S : a <= x[1]
  BY <1>2
<1>4. PICK p \in S : p[1] = a
  BY <1>2
<1>. HIDE DEF a
<1>5. b \in seconds /\ \A n \in seconds : b <= n
  <2>1. seconds \subseteq Nat /\ seconds # {}
    BY <1>1, <1>4
  <2>. HIDE DEF seconds
  <2>. QED
    BY <2>1, LeastIsMember
<1>6. PICK q \in S : q[1] = a /\ q[2] = b
  BY <1>5
<1>7. \A y \in S : y[1] = a => b <= y[2]
  BY <1>5
<1>. HIDE DEF b
<1>8. \A y \in S : ~Before(y, q)
  <2>. SUFFICES ASSUME NEW y \in S PROVE ~Before(y, q)
    OBVIOUS
  <2>1. y[1] \in Nat /\ y[2] \in Nat /\ a \in Nat /\ b \in Nat
    BY <1>1, <1>6
  <2>. QED
    BY <1>3, <1>6, <1>7, <2>1 DEF Before
<1>. QED
  BY <1>8 DEF Smallest

(* a file in order, and a file that may stand before another *)
Ascends(f) == \A i, j \in DOMAIN f : i < j => ~Before(f[j], f[i])
MayPrecede(f, g) == \A i \in DOMAIN f : \A j \in DOMAIN g : ~Before(g[j], f[i])

LEMMA SortedIsInOrder ==
  ASSUME NEW X, NEW f \in Seq(X), Ascends(f)
  PROVE  InOrder(f)
<1>1. \A i \in 1..(Len(f) - 1) : i \in DOMAIN f /\ i + 1 \in DOMAIN f /\ i < i + 1
  OBVIOUS
<1>. QED
  BY <1>1 DEF Ascends, InOrder

LEMMA OneBehindTheOther ==
  ASSUME NEW X, NEW f \in Seq(X), NEW g \in Seq(X)
  PROVE  /\ f \o g \in Seq(X) /\ Len(f \o g) = Len(f) + Len(g)
         /\ DOMAIN (f \o g) = 1..Len(f) + Len(g)
         /\ \A i \in 1..Len(f) : (f \o g)[i] = f[i]
         /\ \A i \in 1..Len(g) : (f \o g)[Len(f) + i] = g[i]
         /\ \A i \in 1..Len(f) + Len(g) : i \in 1..Len(f) \/ (i - Len(f) \in 1..Len(g))
<1>. DEFINE h == f \o g
<1>1. h \in Seq(X) /\ Len(h) = Len(f) + Len(g) /\ Len(f) \in Nat /\ Len(g) \in Nat
  OBVIOUS
<1>2. \A i \in 1..Len(f) : h[i] = f[i]
  OBVIOUS
<1>3. ASSUME NEW i \in 1..Len(g) PROVE h[Len(f) + i] = g[i]
  <2>1. Len(f) + i \in 1..Len(f) + Len(g) /\ ~(Len(f) + i <= Len(f)) /\ (Len(f) + i) - Len(f) = i
    BY <1>1
  <2>. QED
    BY <2>1
<1>4. \A i \in 1..Len(f) + Len(g) : i \in 1..Len(f) \/ (i - Len(f) \in 1..Len(g))
  BY <1>1
<1>5. DOMAIN h = 1..Len(f) + Len(g)
  BY <1>1
<1>. QED
  BY <1>1, <1>2, <1>3, <1>4, <1>5

LEMMA SortedTogether ==
  ASSUME NEW f \in Seq(Pairs), NEW g \in Seq(Pairs), Ascends(f), Ascends(g), MayPrecede(f, g)
  PROVE  Ascends(f \o g)
<1>. DEFINE h == f \o g
            m == Len(f)
            k == Len(g)
<1>1. /\ DOMAIN h = 1..m + k
      /\ \A i \in 1..m : h[i] = f[i]
      /\ \A i \in 1..k : h[m + i] = g[i]
      /\ \A i \in 1..m + k : i \in 1..m \/ (i - m \in 1..k)
  BY OneBehindTheOther
<1>2. DOMAIN f = 1..m /\ DOMAIN g = 1..k /\ m \in Nat /\ k \in Nat
  OBVIOUS
<1>. HIDE DEF h, m, k
<1>3. \A i \in 1..m + k : i - m \in 1..k => h[i] = g[i - m]
  <2>1. \A i \in 1..m + k : m + (i - m) = i
    BY <1>2
  <2>. QED
    BY <1>1, <2>1
<1>4. ASSUME NEW i \in 1..m + k, NEW j \in 1..m + k, i < j PROVE ~Before(h[j], h[i])
  <2>1. CASE i \in 1..m /\ j \in 1..m
    BY <1>1, <1>2, <1>4, <2>1 DEF Ascends
  <2>2. CASE i \in 1..m /\ j - m \in 1..k
    BY <1>1, <1>2, <1>3, <2>2 DEF MayPrecede
  <2>3. CASE i - m \in 1..k /\ j - m \in 1..k
    <3>1. i - m < j - m
      BY <1>2, <1>4
    <3>. QED
      BY <1>2, <1>3, <2>3, <3>1 DEF Ascends
  <2>4. i - m \in 1..k => ~(j \in 1..m)
    BY <1>2, <1>4
  <2>. QED
    BY <1>1, <2>1, <2>2, <2>3, <2>4
<1>. QED
  BY <1>1, <1>4 DEF Ascends, h

(* how often is a sum of ones *)
Places(f, x) == {i \in DOMAIN f : f[i] = x}

LEMMA CountIsSum ==
  ASSUME NEW X, NEW f \in Seq(X), NEW x
  PROVE  /\ Count(f, x) \in Nat /\ Count(f, x) = SumTo(Len(f), Ones(Len(f), Places(f, x)))
         /\ Places(f, x) \in SUBSET (1..Len(f)) /\ IsFiniteSet(Places(f, x))
         /\ Ones(Len(f), Places(f, x)) \in [1..Len(f) -> Nat]
<1>1. Len(f) \in Nat /\ Places(f, x) \in SUBSET (1..Len(f))
  BY DEF Places
<1>2. Count(f, x) = Cardinality(Places(f, x))
  BY DEF Count, Places
<1>3. /\ Ones(Len(f), Places(f, x)) \in [1..Len(f) -> Nat] /\ IsFiniteSet(Places(f, x))
      /\ SumTo(Len(f), Ones(Len(f), Places(f, x))) = Cardinality(Places(f, x))
  BY <1>1, SumOfOnes
<1>4. Cardinality(Places(f, x)) \in Nat
  BY <1>3, FS_CardinalityType
<1>. QED
  BY <1>1, <1>2, <1>3, <1>4

LEMMA CountsJoin ==
  ASSUME NEW X, NEW f \in Seq(X), NEW g \in Seq(X), NEW x
  PROVE  Count(f \o g, x) = Count(f, x) + Count(g, x)
<1>. DEFINE h == f \o g
            m == Len(f)
            k == Len(g)
            a == Ones(m, Places(f, x))
            b == Ones(k, Places(g, x))
            c == Ones(m + k, Places(h, x))
<1>1. /\ h \in Seq(X) /\ Len(h) = m + k /\ DOMAIN h = 1..m + k
      /\ \A i \in 1..m : h[i] = f[i]
      /\ \A i \in 1..k : h[m + i] = g[i]
  BY OneBehindTheOther
<1>2. DOMAIN f = 1..m /\ DOMAIN g = 1..k /\ m \in Nat /\ k \in Nat
  OBVIOUS
<1>. HIDE DEF h
<1>3. /\ Count(f, x) = SumTo(m, a) /\ a \in [1..m -> Nat]
      /\ Count(g, x) = SumTo(k, b) /\ b \in [1..k -> Nat]
      /\ Count(h, x) = SumTo(m + k, c) /\ c \in [1..m + k -> Nat]
  BY <1>1, CountIsSum
<1>4. /\ \A i \in 1..m : a[i] = IF f[i] = x THEN 1 ELSE 0
      /\ \A i \in 1..k : b[i] = IF g[i] = x THEN 1 ELSE 0
      /\ \A i \in 1..m + k : c[i] = IF h[i] = x THEN 1 ELSE 0
  BY <1>1, <1>2 DEF Ones, Places
<1>. HIDE DEF m, k, a, b, c
<1>5. (\A i \in 1..m : i \in 1..m + k) /\ \A i \in 1..k : m + i \in 1..m + k
  BY <1>2
<1>6. Follows(m, a, k, b, c)
  BY <1>1, <1>3, <1>4, <1>5 DEF Follows
<1>7. SumTo(m + k, c) = SumTo(m, a) + SumTo(k, b)
  BY <1>2, <1>6, SumJoins
<1>. QED
  BY <1>3, <1>7 DEF h

LEMMA CountInTimes ==
  ASSUME NEW X, NEW r \in X, NEW n \in Nat, NEW x
  PROVE  /\ Times(r, n) \in Seq(X) /\ Len(Times(r, n)) = n
         /\ DOMAIN Times(r, n) = 1..n /\ \A i \in 1..n : Times(r, n)[i] = r
         /\ Count(Times(r, n), x) = IF x = r THEN n ELSE 0
<1>1. /\ Times(r, n) \in Seq(X) /\ Len(Times(r, n)) = n
      /\ DOMAIN Times(r, n) = 1..n /\ \A i \in 1..n : Times(r, n)[i] = r
  BY DEF Times
<1>2. Count(Times(r, n), x) = Cardinality({i \in 1..n : r = x})
  <2>1. {i \in DOMAIN Times(r, n) : Times(r, n)[i] = x} = {i \in 1..n : r = x}
    BY <1>1
  <2>. QED
    BY <2>1 DEF Count
<1>3. CASE x = r
  <2>1. {i \in 1..n : r = x} = 1..n
    BY <1>3
  <2>2. Cardinality(1..n) = n
    BY FS_Interval
  <2>. QED
    BY <1>1, <1>2, <1>3, <2>1, <2>2
<1>4. CASE x # r
  <2>1. {i \in 1..n : r = x} = {}
    BY <1>4
  <2>. QED
    BY <1>1, <1>2, <1>4, <2>1, FS_EmptySet
<1>. QED
  BY <1>3, <1>4

LEMMA CountWithoutFirst ==
  ASSUME NEW X, NEW f \in Seq(X), f # <<>>, NEW x
  PROVE  /\ Tail(f) \in Seq(X) /\ Head(f) \in X /\ Len(Tail(f)) = Len(f) - 1 /\ Len(f) \in Nat \ {0}
         /\ \A i \in 1..Len(f) - 1 : Tail(f)[i] = f[i + 1]
         /\ Head(f) = f[1] /\ 1 \in DOMAIN f
         /\ Count(f, x) = Count(Tail(f), x) + IF x = Head(f) THEN 1 ELSE 0
<1>1. /\ Tail(f) \in Seq(X) /\ Head(f) \in X /\ Len(Tail(f)) = Len(f) - 1 /\ Len(f) \in Nat \ {0}
      /\ Head(f) = f[1] /\ 1 \in DOMAIN f
      /\ \A i \in 1..Len(f) - 1 : Tail(f)[i] = f[i + 1]
  OBVIOUS
<1>. DEFINE one == Times(Head(f), 1)
            t == Tail(f)
<1>2. /\ one \in Seq(X) /\ Len(one) = 1 /\ one[1] = Head(f)
      /\ Count(one, x) = IF x = Head(f) THEN 1 ELSE 0
  <2>1. PICK r \in X : r = Head(f)
    BY <1>1
  <2>2. PICK n \in Nat : n = 1
    OBVIOUS
  <2>3. Times(r, n) \in Seq(X) /\ Len(Times(r, n)) = n
    BY CountInTimes
  <2>4. \A i \in 1..n : Times(r, n)[i] = r
    BY CountInTimes
  <2>5. Count(Times(r, n), x) = IF x = r THEN n ELSE 0
    BY CountInTimes
  <2>6. 1 \in 1..n
    BY <2>2
  <2>. QED
    BY <2>1, <2>2, <2>3, <2>4, <2>5, <2>6
<1>. HIDE DEF one, t
<1>3. f = one \o t
  <2>1. /\ one \o t \in Seq(X) /\ Len(one \o t) = 1 + (Len(f) - 1)
        /\ \A i \in 1..1 : (one \o t)[i] = one[i]
        /\ \A i \in 1..Len(f) - 1 : (one \o t)[1 + i] = t[i]
    <3>1. one \in Seq(X) /\ t \in Seq(X) /\ Len(one) = 1 /\ Len(t) = Len(f) - 1
      BY <1>1, <1>2 DEF t
    <3>2. ASSUME NEW a \in Seq(X), NEW b \in Seq(X)
          PROVE  /\ a \o b \in Seq(X) /\ Len(a \o b) = Len(a) + Len(b)
                 /\ \A i \in 1..Len(a) : (a \o b)[i] = a[i]
                 /\ \A i \in 1..Len(b) : (a \o b)[Len(a) + i] = b[i]
      BY OneBehindTheOther
    <3>3. /\ one \o t \in Seq(X) /\ Len(one \o t) = Len(one) + Len(t)
          /\ \A i \in 1..Len(one) : (one \o t)[i] = one[i]
          /\ \A i \in 1..Len(t) : (one \o t)[Len(one) + i] = t[i]
      BY <3>1, <3>2, Zenon
    <3>. QED
      BY <3>1, <3>3, Zenon
  <2>2. Len(one \o t) = Len(f)
    BY <1>1, <2>1
  <2>3. ASSUME NEW i \in 1..Len(f) PROVE (one \o t)[i] = f[i]
    <3>1. CASE i = 1
      BY <1>1, <1>2, <2>1, <3>1
    <3>2. CASE i # 1
      <4>1. i - 1 \in 1..Len(f) - 1 /\ 1 + (i - 1) = i /\ (i - 1) + 1 = i
        BY <1>1, <3>2
      <4>2. (one \o t)[1 + (i - 1)] = t[i - 1]
        BY <2>1, <4>1
      <4>3. Tail(f)[i - 1] = f[(i - 1) + 1]
        BY <1>1, <4>1
      <4>. QED
        BY <4>1, <4>2, <4>3, Zenon DEF t
    <3>. QED
      BY <3>1, <3>2
  <2>. DEFINE h == one \o t
  <2>4. DOMAIN f = 1..Len(f) /\ f = [i \in 1..Len(f) |-> f[i]]
    OBVIOUS
  <2>5. DOMAIN h = 1..Len(f) /\ h = [i \in 1..Len(f) |-> h[i]]
    <3>1. h \in Seq(X) /\ Len(h) = Len(f)
      BY <2>1, <2>2
    <3>. HIDE DEF h
    <3>. QED
      BY <3>1
  <2>. QED
    BY <2>3, <2>4, <2>5, Zenon
<1>4. Count(one \o t, x) = Count(one, x) + Count(t, x)
  <2>1. one \in Seq(X) /\ t \in Seq(X)
    BY <1>1, <1>2 DEF t
  <2>. QED
    BY <2>1, CountsJoin
<1>5. Count(one, x) \in Nat /\ Count(t, x) \in Nat
  BY <1>1, <1>2, CountIsSum DEF t
<1>6. Count(f, x) = Count(t, x) + Count(one, x)
  <2>1. Count(f, x) = Count(one \o t, x)
    BY <1>3
  <2>. QED
    BY <1>4, <1>5, <2>1
<1>. QED
  BY <1>1, <1>2, <1>6 DEF t

LEMMA CountInNothing ==
  ASSUME NEW x
  PROVE  Count(<<>>, x) = 0
<1>1. {i \in DOMAIN <<>> : <<>>[i] = x} = {}
  OBVIOUS
<1>. QED
  BY <1>1, FS_EmptySet DEF Count

--------------------------------------------------------------------------------
(* The files of a list together. *)

LEMMA UpTo ==
  ASSUME NEW n \in Nat, NEW S, 0 \in S, \A i \in 1..n : i - 1 \in S => i \in S
  PROVE  \A i \in 0..n : i \in S
<1>. DEFINE Wrong == {i \in 0..n : i \notin S}
<1>. SUFFICES ASSUME Wrong # {} PROVE FALSE
  OBVIOUS
<1>1. PICK i \in Wrong : \A j \in Wrong : i <= j
  <2>1. Wrong \subseteq Nat
    OBVIOUS
  <2>. HIDE DEF Wrong
  <2>. QED
    BY <2>1, NumbersConstants, Numbers!LeastNumber
<1>2. i \in 1..n /\ i - 1 \in 0..n /\ ~(i <= i - 1)
  BY <1>1
<1>3. i - 1 \in S
  BY <1>1, <1>2
<1>. QED
  BY <1>1, <1>2, <1>3

(* the parts of a list put one behind the other: what FlattenSeq has done after each *)
IsJoining(J, seqs, X) ==
  /\ J \in [0..Len(seqs) -> Seq(X)]
  /\ J[0] = <<>>
  /\ \A i \in 1..Len(seqs) : J[i] = J[i - 1] \o seqs[i]
  /\ FlattenSeq(seqs) = J[Len(seqs)]

LEMMA JoiningExists ==
  ASSUME NEW X, NEW seqs \in Seq(Seq(X))
  PROVE  \E J : IsJoining(J, seqs, X)
<1>1. PICK J \in [0 .. Len(seqs) -> Seq(X)] :
           /\ J[0] = <<>>
           /\ \A i \in 1 .. Len(seqs) : J[i] = J[i - 1] \o seqs[i]
           /\ Numbers!FlattenSeq(seqs) = J[Len(seqs)]
  BY NumbersConstants, Numbers!FlattenSteps
<1>2. Numbers!FlattenSeq(seqs) = FlattenSeq(seqs)
  BY Zenon DEF FlattenSeq, Numbers!FlattenSeq
<1>3. IsJoining(J, seqs, X)
  BY <1>1, <1>2, Zenon DEF IsJoining
<1>. QED
  BY <1>3

CountsOf(files, x) == [i \in 1..Len(files) |-> Count(files[i], x)]
InAll(files, x) == SumTo(Len(files), CountsOf(files, x))

LEMMA CountsOfShape ==
  ASSUME NEW X, NEW files \in Seq(Seq(X)), NEW x
  PROVE  /\ CountsOf(files, x) \in [1..Len(files) -> Nat] /\ Len(files) \in Nat
         /\ InAll(files, x) \in Nat
<1>1. Len(files) \in Nat /\ \A i \in 1..Len(files) : files[i] \in Seq(X)
  OBVIOUS
<1>2. \A i \in 1..Len(files) : Count(files[i], x) \in Nat
  BY <1>1, CountIsSum
<1>3. CountsOf(files, x) \in [1..Len(files) -> Nat]
  BY <1>2 DEF CountsOf
<1>. QED
  BY <1>1, <1>3, SumIsNumber DEF InAll

LEMMA CountInJoined ==
  ASSUME NEW X, NEW files \in Seq(Seq(X)), NEW x
  PROVE  /\ FlattenSeq(files) \in Seq(X)
         /\ Count(FlattenSeq(files), x) = InAll(files, x)
<1>. DEFINE n == Len(files)
            c == CountsOf(files, x)
<1>1. PICK J : IsJoining(J, files, X)
  BY JoiningExists
<1>. DEFINE U == [i \in 0..n |-> Count(J[i], x)]
<1>2. n \in Nat /\ c \in [1..n -> Nat] /\ \A i \in 1..n : files[i] \in Seq(X) /\ c[i] = Count(files[i], x)
  <2>1. n \in Nat /\ c \in [1..n -> Nat]
    BY CountsOfShape
  <2>2. \A i \in 1..n : files[i] \in Seq(X)
    OBVIOUS
  <2>3. \A i \in 1..n : c[i] = Count(files[i], x)
    BY DEF CountsOf
  <2>. QED
    BY <2>1, <2>2, <2>3
<1>3. \A i \in 0..n : J[i] \in Seq(X)
  BY <1>1 DEF IsJoining
<1>4. U \in [0..n -> Nat] /\ \A i \in 0..n : U[i] = Count(J[i], x)
  BY <1>3, CountIsSum
<1>5. U[0] = 0
  BY <1>1, <1>2, <1>4, CountInNothing DEF IsJoining
<1>6. ASSUME NEW i \in 1..n PROVE U[i] = U[i - 1] + c[i]
  <2>1. i \in 0..n /\ i - 1 \in 0..n
    BY <1>2
  <2>4. J[i] = J[i - 1] \o files[i]
    BY <1>1 DEF IsJoining
  <2>2. Count(J[i - 1] \o files[i], x) = Count(J[i - 1], x) + Count(files[i], x)
    <3>1. PICK a \in Seq(X) : a = J[i - 1]
      BY <1>3, <2>1
    <3>2. PICK b \in Seq(X) : b = files[i]
      BY <1>2
    <3>3. Count(a \o b, x) = Count(a, x) + Count(b, x)
      BY CountsJoin
    <3>. QED
      BY <3>1, <3>2, <3>3
  <2>. QED
    BY <1>2, <1>4, <2>1, <2>2, <2>4
<1>. HIDE DEF U, c
<1>7. Numbers!IsPartialSums(U, n, c)
  BY <1>4, <1>5, <1>6 DEF Numbers!IsPartialSums
<1>8. SumTo(n, c) = U[n]
  BY <1>2, <1>7, SumIs
<1>9. FlattenSeq(files) = J[n] /\ n \in 0..n
  BY <1>1, <1>2 DEF IsJoining
<1>. QED
  BY <1>3, <1>4, <1>8, <1>9 DEF InAll, c

LEMMA InOneFile ==
  ASSUME NEW X, NEW f \in Seq(X), NEW x
  PROVE  <<f>> \in Seq(Seq(X)) /\ InAll(<<f>>, x) = Count(f, x)
<1>. DEFINE c == CountsOf(<<f>>, x)
            U == [i \in 0..1 |-> IF i = 0 THEN 0 ELSE Count(f, x)]
<1>1. <<f>> \in Seq(Seq(X)) /\ Len(<<f>>) = 1 /\ <<f>>[1] = f
  OBVIOUS
<1>2. Count(f, x) \in Nat
  BY CountIsSum
<1>3. c \in [1..1 -> Nat] /\ c[1] = Count(f, x)
  BY <1>1, <1>2 DEF CountsOf
<1>. HIDE DEF c
<1>4. Numbers!IsPartialSums(U, 1, c)
  BY <1>2, <1>3 DEF Numbers!IsPartialSums
<1>5. U[1] = Count(f, x)
  OBVIOUS
<1>. HIDE DEF U
<1>6. SumTo(1, c) = U[1]
  BY <1>3, <1>4, SumIs
<1>. QED
  BY <1>1, <1>5, <1>6 DEF InAll, c

LEMMA InAllJoins ==
  ASSUME NEW X, NEW a \in Seq(Seq(X)), NEW b \in Seq(Seq(X)), NEW x
  PROVE  InAll(a \o b, x) = InAll(a, x) + InAll(b, x)
<1>. DEFINE h == a \o b
            m == Len(a)
            k == Len(b)
<1>1. /\ h \in Seq(Seq(X)) /\ Len(h) = m + k /\ DOMAIN h = 1..m + k
      /\ \A i \in 1..m : h[i] = a[i]
      /\ \A i \in 1..k : h[m + i] = b[i]
  <2>1. PICK Y : Y = Seq(X)
    OBVIOUS
  <2>2. a \in Seq(Y) /\ b \in Seq(Y)
    BY <2>1
  <2>3. a \o b \in Seq(Y) /\ Len(a \o b) = Len(a) + Len(b)
         /\ DOMAIN (a \o b) = 1..Len(a) + Len(b)
         /\ (\A i \in 1..Len(a) : (a \o b)[i] = a[i])
         /\ (\A i \in 1..Len(b) : (a \o b)[Len(a) + i] = b[i])
    BY <2>2, OneBehindTheOther
  <2>. QED
    BY <2>1, <2>3
<1>2. m \in Nat /\ k \in Nat
  OBVIOUS
<1>. HIDE DEF h
<1>3. /\ CountsOf(a, x) \in [1..m -> Nat] /\ CountsOf(b, x) \in [1..k -> Nat]
      /\ CountsOf(h, x) \in [1..m + k -> Nat]
  BY <1>1, CountsOfShape
<1>4. /\ \A i \in 1..m : CountsOf(a, x)[i] = Count(a[i], x)
      /\ \A i \in 1..k : CountsOf(b, x)[i] = Count(b[i], x)
      /\ \A i \in 1..m + k : CountsOf(h, x)[i] = Count(h[i], x)
  BY <1>1 DEF CountsOf
<1>5. (\A i \in 1..m : i \in 1..m + k) /\ \A i \in 1..k : m + i \in 1..m + k
  BY <1>2
<1>. HIDE DEF m, k
<1>6. Follows(m, CountsOf(a, x), k, CountsOf(b, x), CountsOf(h, x))
  BY <1>1, <1>3, <1>4, <1>5 DEF Follows
<1>7. SumTo(m + k, CountsOf(h, x)) = SumTo(m, CountsOf(a, x)) + SumTo(k, CountsOf(b, x))
  BY <1>2, <1>6, SumJoins
<1>8. InAll(h, x) = SumTo(m + k, CountsOf(h, x)) /\ InAll(a, x) = SumTo(m, CountsOf(a, x))
      /\ InAll(b, x) = SumTo(k, CountsOf(b, x))
  BY <1>1 DEF InAll, m, k
<1>. QED
  BY <1>7, <1>8 DEF h

--------------------------------------------------------------------------------
(* A file is in order when it is closed. *)

Rank(S, x) == Cardinality({y \in S : Before(y, x)})

LEMMA RankShape ==
  ASSUME NEW S \in SUBSET Pairs, IsFiniteSet(S), NEW x \in S
  PROVE  /\ Rank(S, x) \in 0..Cardinality(S) - 1
         /\ Cardinality(S) \in Nat \ {0}
         /\ \A y \in S : Before(y, x) => Rank(S, y) < Rank(S, x)
<1>. DEFINE Below(z) == {y \in S : Before(y, z)}
<1>1. Cardinality(S) \in Nat
  BY FS_CardinalityType
<1>2. \A z \in S : z \in Pairs
  OBVIOUS
<1>3. \A z \in S : z \notin Below(z)
  BY <1>2, OrderOfRecords
<1>4. ASSUME NEW z \in S
      PROVE  /\ IsFiniteSet(Below(z)) /\ Cardinality(Below(z)) \in Nat
             /\ Cardinality(Below(z)) < Cardinality(S)
  <2>1. Below(z) \in SUBSET S /\ Below(z) # S
    BY <1>3
  <2>. HIDE DEF Below
  <2>2. IsFiniteSet(Below(z)) /\ Cardinality(Below(z)) <= Cardinality(S)
    BY <2>1, FS_Subset
  <2>3. Cardinality(S) # Cardinality(Below(z))
    BY <2>1, FS_Subset
  <2>4. Cardinality(Below(z)) \in Nat
    BY <2>2, FS_CardinalityType
  <2>. QED
    BY <1>1, <2>2, <2>3, <2>4
<1>5. ASSUME NEW y \in S, Before(y, x)
      PROVE  Cardinality(Below(y)) < Cardinality(Below(x))
  <2>1. Below(y) \in SUBSET Below(x)
    <3>1. ASSUME NEW z \in S, Before(z, y) PROVE Before(z, x)
      BY <1>2, <1>5, <3>1, OrderIsTransitive
    <3>. QED
      BY <3>1
  <2>2. y \in Below(x) /\ y \notin Below(y)
    BY <1>3, <1>5
  <2>. HIDE DEF Below
  <2>3. IsFiniteSet(Below(x)) /\ Cardinality(Below(y)) \in Nat /\ Cardinality(Below(x)) \in Nat
    BY <1>4
  <2>4. Cardinality(Below(y)) <= Cardinality(Below(x))
    BY <2>1, <2>3, FS_Subset
  <2>5. Cardinality(Below(x)) # Cardinality(Below(y))
    BY <2>1, <2>2, <2>3, FS_Subset
  <2>. QED
    BY <2>3, <2>4, <2>5
<1>6. \A z \in S : Rank(S, z) = Cardinality(Below(z))
  BY DEF Rank
<1>. HIDE DEF Below
<1>. QED
  BY <1>1, <1>4, <1>5, <1>6

LEMMA RankedIs ==
  ASSUME NEW S \in SUBSET Pairs, IsFiniteSet(S)
  PROVE  /\ Cardinality(S) \in Nat
         /\ Ranked(S) \in [1..Cardinality(S) -> S]
         /\ \A i, j \in 1..Cardinality(S) : i < j => ~Before(Ranked(S)[j], Ranked(S)[i])
         /\ \A i, j \in 1..Cardinality(S) : Ranked(S)[i] = Ranked(S)[j] => i = j
         /\ \A x \in S : \E i \in 1..Cardinality(S) : Ranked(S)[i] = x
<1>. DEFINE n == Cardinality(S)
            T == 0..n - 1
            rank == [x \in S |-> Rank(S, x)]
            r == Ranked(S)
<1>1. n \in Nat
  BY FS_CardinalityType
<1>2. rank \in [S -> T] /\ \A x \in S : rank[x] = Rank(S, x)
  BY RankShape
<1>3. \A x, y \in S : Before(y, x) => rank[y] < rank[x]
  BY <1>2, RankShape
<1>4. \A x \in S : rank[x] \in Nat
  BY <1>1, <1>2
<1>5. IsFiniteSet(T) /\ Cardinality(T) = n
  BY <1>1, FS_Interval
<1>6. r = [i \in 1..n |-> CHOOSE x \in S : Rank(S, x) = i - 1]
  BY DEF Ranked, Rank
<1>. HIDE DEF rank, T, r
<1>7. \A x, y \in S : rank[x] = rank[y] => x = y
  <2>1. SUFFICES ASSUME NEW x \in S, NEW y \in S, rank[x] = rank[y] PROVE x = y
    OBVIOUS
  <2>2. x = y \/ Before(x, y) \/ Before(y, x)
    BY OrderOfRecords
  <2>3. ~(rank[x] < rank[y]) /\ ~(rank[y] < rank[x])
    BY <1>4, <2>1
  <2>. QED
    BY <1>3, <2>2, <2>3
<1>8. rank \in Injection(S, T)
  BY <1>2, <1>7 DEF Injection, IsInjective
<1>9. rank \in Surjection(S, T)
  BY <1>5, <1>8, FS_Injection
<1>10. \A k \in T : \E x \in S : rank[x] = k
  BY <1>9 DEF Surjection
<1>11. ASSUME NEW i \in 1..n PROVE r[i] \in S /\ rank[r[i]] = i - 1
  <2>1. i - 1 \in T
    BY <1>1 DEF T
  <2>2. \E x \in S : Rank(S, x) = i - 1
    BY <1>2, <1>10, <2>1
  <2>3. r[i] = CHOOSE x \in S : Rank(S, x) = i - 1
    BY <1>6
  <2>4. r[i] \in S /\ Rank(S, r[i]) = i - 1
    BY <2>2, <2>3, Zenon
  <2>. QED
    BY <1>2, <2>4
<1>12. r \in [1..n -> S]
  <2>1. r = [i \in 1..n |-> r[i]]
    BY <1>6
  <2>. QED
    BY <1>11, <2>1
<1>13. ASSUME NEW i \in 1..n, NEW j \in 1..n, i < j PROVE ~Before(r[j], r[i])
  <2>1. rank[r[i]] < rank[r[j]] /\ rank[r[i]] \in Nat /\ rank[r[j]] \in Nat
    BY <1>1, <1>11, <1>13
  <2>2. ~(rank[r[j]] < rank[r[i]])
    BY <2>1
  <2>. QED
    BY <1>3, <1>11, <2>2
<1>14. ASSUME NEW i \in 1..n, NEW j \in 1..n, r[i] = r[j] PROVE i = j
  BY <1>1, <1>11, <1>14
<1>15. ASSUME NEW x \in S PROVE \E i \in 1..n : r[i] = x
  <2>1. rank[x] + 1 \in 1..n
    <3>1. rank[x] \in 0..n - 1
      BY <1>2 DEF T
    <3>. QED
      BY <1>1, <3>1
  <2>2. rank[r[rank[x] + 1]] = rank[x] /\ r[rank[x] + 1] \in S
    BY <1>4, <1>11, <2>1
  <2>. QED
    BY <1>7, <2>1, <2>2
<1>. QED
  BY <1>1, <1>12, <1>13, <1>14, <1>15 DEF r

LEMMA OrderedAscends ==
  ASSUME NEW file \in Seq(Pairs)
  PROVE  Ordered(file) \in Seq(Pairs) /\ Ascends(Ordered(file))
<1>. DEFINE S == Range(file)
            n == Cardinality(S)
            kinds == Ranked(S)
            parts == [i \in DOMAIN kinds |-> Times(kinds[i], Count(file, kinds[i]))]
<1>1. S \in SUBSET Pairs /\ IsFiniteSet(S)
  <2>1. file \in Surjection(DOMAIN file, S)
    BY DEF Range, Surjection
  <2>2. IsFiniteSet(DOMAIN file)
    BY FS_Interval
  <2>3. S \in SUBSET Pairs
    BY DEF Range
  <2>. HIDE DEF S
  <2>. QED
    BY <2>1, <2>2, <2>3, FS_Surjection
<1>. HIDE DEF S
<1>2. /\ n \in Nat /\ kinds \in [1..n -> S]
      /\ \A i, j \in 1..n : i < j => ~Before(kinds[j], kinds[i])
  BY <1>1, RankedIs
<1>3. Ordered(file) = FlattenSeq(parts)
  BY DEF Ordered, S
<1>4. DOMAIN kinds = 1..n /\ \A i \in 1..n : kinds[i] \in Pairs
  BY <1>1, <1>2
<1>. HIDE DEF kinds, n
<1>5. \A i \in 1..n : parts[i] \in Seq(Pairs) /\ \A k \in DOMAIN parts[i] : parts[i][k] = kinds[i]
  <2>1. SUFFICES ASSUME NEW i \in 1..n
                 PROVE  parts[i] \in Seq(Pairs) /\ \A k \in DOMAIN parts[i] : parts[i][k] = kinds[i]
    OBVIOUS
  <2>2. PICK r \in Pairs : r = kinds[i]
    BY <1>4
  <2>3. PICK m \in Nat : m = Count(file, r)
    BY CountIsSum
  <2>4. Times(r, m) \in Seq(Pairs)
    BY CountInTimes
  <2>5. DOMAIN Times(r, m) = 1..m /\ \A k \in 1..m : Times(r, m)[k] = r
    BY CountInTimes
  <2>6. parts[i] = Times(r, m)
    BY <1>4, <2>2, <2>3
  <2>. QED
    BY <2>2, <2>4, <2>5, <2>6
<1>6. parts \in [1..n -> Seq(Pairs)]
  <2>1. parts = [i \in 1..n |-> parts[i]]
    BY <1>4
  <2>. HIDE DEF parts
  <2>. QED
    BY <1>5, <2>1
<1>. HIDE DEF parts
<1>7. parts \in Seq(Seq(Pairs)) /\ Len(parts) = n
  BY <1>2, <1>6
<1>8. PICK J : IsJoining(J, parts, Pairs)
  BY <1>7, JoiningExists
<1>9. /\ J \in [0..n -> Seq(Pairs)] /\ J[0] = <<>>
      /\ \A i \in 1..n : J[i] = J[i - 1] \o parts[i]
      /\ FlattenSeq(parts) = J[n]
  BY <1>7, <1>8 DEF IsJoining
<1>. DEFINE Good == {i \in 0..n : /\ Ascends(J[i])
                                  /\ \A e \in DOMAIN J[i] : \E k \in 1..i : J[i][e] = kinds[k]}
<1>10. 0 \in Good
  <2>1. DOMAIN J[0] = {} /\ 0 \in 0..n
    BY <1>2, <1>9
  <2>. QED
    BY <2>1 DEF Ascends
<1>11. ASSUME NEW i \in 1..n, i - 1 \in Good PROVE i \in Good
  <2>1. PICK f \in Seq(Pairs) : f = J[i - 1]
    <3>1. i - 1 \in 0..n
      BY <1>2
    <3>. QED
      BY <1>9, <3>1
  <2>2. PICK g \in Seq(Pairs) : g = parts[i]
    BY <1>5
  <2>3. J[i] = f \o g
    BY <1>9, <2>1, <2>2
  <2>4. Ascends(f) /\ \A e \in DOMAIN f : \E k \in 1..i - 1 : f[e] = kinds[k]
    BY <1>11, <2>1
  <2>5. \A e \in DOMAIN g : g[e] = kinds[i]
    BY <1>5, <2>2
  <2>6. ~Before(kinds[i], kinds[i])
    BY <1>4, OrderOfRecords
  <2>7. Ascends(g)
    BY <2>5, <2>6 DEF Ascends
  <2>8. \A k \in 1..i - 1 : k \in 1..n /\ k \in 1..i /\ k < i
    BY <1>2
  <2>9. MayPrecede(f, g)
    BY <1>2, <2>4, <2>5, <2>8 DEF MayPrecede
  <2>10. Ascends(f \o g)
    BY <2>4, <2>7, <2>9, SortedTogether
  <2>11. \A e \in DOMAIN (f \o g) : \E k \in 1..i : (f \o g)[e] = kinds[k]
    <3>1. /\ DOMAIN (f \o g) = 1..Len(f) + Len(g)
          /\ \A e \in 1..Len(f) : (f \o g)[e] = f[e]
          /\ \A e \in 1..Len(g) : (f \o g)[Len(f) + e] = g[e]
          /\ \A e \in 1..Len(f) + Len(g) : e \in 1..Len(f) \/ (e - Len(f) \in 1..Len(g))
      BY OneBehindTheOther
    <3>2. DOMAIN f = 1..Len(f) /\ DOMAIN g = 1..Len(g) /\ Len(f) \in Nat /\ Len(g) \in Nat
      OBVIOUS
    <3>3. i \in 1..i
      OBVIOUS
    <3>. DEFINE h == f \o g
    <3>4. ASSUME NEW e \in 1..Len(f) + Len(g) PROVE \E k \in 1..i : h[e] = kinds[k]
      <4>1. CASE e \in 1..Len(f)
        BY <2>4, <2>8, <3>1, <3>2, <4>1
      <4>2. CASE e - Len(f) \in 1..Len(g)
        <5>1. e = Len(f) + (e - Len(f))
          BY <3>2
        <5>2. h[e] = g[e - Len(f)]
          <6>1. PICK d \in 1..Len(g) : d = e - Len(f)
            BY <4>2
          <6>2. e = Len(f) + d
            BY <3>2, <6>1
          <6>. QED
            BY <3>1, <6>1, <6>2
        <5>. QED
          BY <2>5, <3>2, <3>3, <4>2, <5>2
      <4>. QED
        BY <3>1, <4>1, <4>2
    <3>. QED
      BY <3>1, <3>4
  <2>12. i \in 0..n
    BY <1>2
  <2>13. /\ Ascends(J[i])
         /\ \A e \in DOMAIN J[i] : \E k \in 1..i : J[i][e] = kinds[k]
    <3>. DEFINE h == f \o g
    <3>1. J[i] = h /\ Ascends(h) /\ \A e \in DOMAIN h : \E k \in 1..i : h[e] = kinds[k]
      BY <2>3, <2>10, <2>11
    <3>. HIDE DEF h
    <3>. QED
      BY <3>1
  <2>. QED
    BY <2>12, <2>13
<1>. HIDE DEF Good
<1>12. \A i \in 0..n : i \in Good
  BY <1>2, <1>10, <1>11, UpTo
<1>13. n \in 0..n
  BY <1>2
<1>. QED
  BY <1>3, <1>9, <1>12, <1>13 DEF Good

--------------------------------------------------------------------------------
(* file_merger::merge_files, one record at a time. *)

MergeStates(n) == [files : [1..n -> Seq(Pairs)], out : Seq(Pairs)]
LensOf(files) == [i \in 1..Len(files) |-> Len(files[i])]
Remaining(m) == SumTo(Len(m.files), LensOf(m.files))

(* the files that are read are in order, and so is what has been written of them *)
InOrderSoFar(m) ==
  /\ Ascends(m.out)
  /\ \A i \in 1..Len(m.files) : Ascends(m.files[i]) /\ MayPrecede(m.out, m.files[i])

LEMMA MergeStateShape ==
  ASSUME NEW n \in Nat, NEW m \in MergeStates(n)
  PROVE  /\ m.files \in [1..n -> Seq(Pairs)] /\ m.files \in Seq(Seq(Pairs)) /\ Len(m.files) = n
         /\ m.out \in Seq(Pairs) /\ DOMAIN m.files = 1..n
         /\ LensOf(m.files) \in [1..n -> Nat] /\ Remaining(m) \in Nat
         /\ \A i \in 1..n : LensOf(m.files)[i] = Len(m.files[i])
<1>1. m.files \in [1..n -> Seq(Pairs)] /\ m.out \in Seq(Pairs)
  BY DEF MergeStates
<1>2. m.files \in Seq(Seq(Pairs)) /\ Len(m.files) = n /\ DOMAIN m.files = 1..n
  BY <1>1
<1>3. \A i \in 1..n : Len(m.files[i]) \in Nat
  BY <1>1
<1>4. LensOf(m.files) \in [1..n -> Nat] /\ \A i \in 1..n : LensOf(m.files)[i] = Len(m.files[i])
  BY <1>2, <1>3 DEF LensOf
<1>. QED
  BY <1>1, <1>2, <1>4, SumIsNumber DEF Remaining

(* what one record is taken from, and what is left *)
Taking(n, files, open, record, taken, left) ==
  /\ files \in [1..n -> Seq(Pairs)]
  /\ open = {i \in 1..n : files[i] # <<>>} /\ open # {}
  /\ record = Smallest({Head(files[i]) : i \in open})
  /\ taken = {i \in open : Head(files[i]) = record}
  /\ left = [i \in 1..n |-> IF i \in taken THEN Tail(files[i]) ELSE files[i]]

LEMMA SomethingIsTaken ==
  ASSUME NEW n \in Nat, NEW files, NEW open, NEW record, NEW taken, NEW left,
         Taking(n, files, open, record, taken, left)
  PROVE  /\ record \in Pairs /\ taken # {} /\ taken \in SUBSET (1..n) /\ open \in SUBSET (1..n)
         /\ IsFiniteSet(taken) /\ Cardinality(taken) \in Nat \ {0}
         /\ \A i \in open : ~Before(Head(files[i]), record)
<1>. USE DEF Taking
<1>. DEFINE S == {Head(files[i]) : i \in open}
<1>1. \A i \in open : files[i] \in Seq(Pairs) /\ files[i] # <<>>
  OBVIOUS
<1>2. \A i \in open : Head(files[i]) \in Pairs
  BY <1>1
<1>3. S \in SUBSET Pairs /\ S # {}
  <2>1. PICK i : i \in open
    OBVIOUS
  <2>2. Head(files[i]) \in S
    BY <2>1, Zenon
  <2>. QED
    BY <1>2, <2>2
<1>. HIDE DEF S
<1>4. Smallest(S) \in S /\ \A y \in S : ~Before(y, Smallest(S))
  BY <1>3, SmallestIs
<1>5. record \in S /\ \A y \in S : ~Before(y, record)
  BY <1>4 DEF S
<1>6. record \in Pairs /\ taken # {}
  BY <1>3, <1>5 DEF S
<1>7. taken \in SUBSET (1..n) /\ open \in SUBSET (1..n)
  OBVIOUS
<1>8. IsFiniteSet(taken) /\ Cardinality(taken) \in Nat
  BY <1>7, SumOfOnes, FS_CardinalityType
<1>9. Cardinality(taken) # 0
  BY <1>6, <1>8, FS_EmptySet
<1>10. \A i \in open : ~Before(Head(files[i]), record)
  BY <1>5 DEF S
<1>. QED
  BY <1>6, <1>7, <1>8, <1>9, <1>10

(* Of the files that begin with the record the first is gone; all else is as it was. *)
LEMMA TakenCounts ==
  ASSUME NEW n \in Nat, NEW f, NEW open, NEW r, NEW T, NEW g, Taking(n, f, open, r, T, g), NEW x
  PROVE  /\ g \in [1..n -> Seq(Pairs)]
         /\ SumTo(n, LensOf(f)) = SumTo(n, LensOf(g)) + Cardinality(T)
         /\ InAll(f, x) = InAll(g, x) + IF x = r THEN Cardinality(T) ELSE 0
<1>. DEFINE one == Ones(n, T)
<1>1. f \in [1..n -> Seq(Pairs)] /\ \A i \in 1..n : f[i] \in Seq(Pairs) /\ Len(f[i]) \in Nat
  BY DEF Taking
<1>2. g = [i \in 1..n |-> g[i]] /\ \A i \in 1..n : g[i] = IF i \in T THEN Tail(f[i]) ELSE f[i]
  BY DEF Taking
<1>14. T \in SUBSET (1..n) /\ r \in Pairs /\ \A i \in T : f[i] # <<>> /\ Head(f[i]) = r
  <2>1. T \in SUBSET (1..n) /\ r \in Pairs
    BY SomethingIsTaken
  <2>. QED
    BY <2>1 DEF Taking
<1>3. ASSUME NEW i \in T
      PROVE  /\ i \in 1..n /\ Tail(f[i]) \in Seq(Pairs) /\ Len(f[i]) = Len(Tail(f[i])) + 1
             /\ Len(Tail(f[i])) \in Nat
             /\ Count(f[i], x) = Count(Tail(f[i]), x) + IF x = r THEN 1 ELSE 0
  <2>1. PICK h \in Seq(Pairs) : h = f[i]
    BY <1>1, <1>14
  <2>2. h # <<>> /\ Head(h) = r
    BY <1>14, <2>1
  <2>3. Tail(h) \in Seq(Pairs) /\ Len(Tail(h)) = Len(h) - 1 /\ Len(h) \in Nat \ {0}
    BY <2>2, CountWithoutFirst
  <2>4. Count(h, x) = Count(Tail(h), x) + IF x = Head(h) THEN 1 ELSE 0
    BY <2>2, CountWithoutFirst
  <2>5. Len(h) = Len(Tail(h)) + 1 /\ Len(Tail(h)) \in Nat
    BY <2>3
  <2>. QED
    BY <1>14, <2>1, <2>2, <2>3, <2>4, <2>5
<1>4. g \in [1..n -> Seq(Pairs)]
  <2>1. \A i \in 1..n : g[i] \in Seq(Pairs)
    BY <1>1, <1>2, <1>3
  <2>. QED
    BY <1>2, <2>1
<1>. HIDE DEF one
<1>5. /\ one \in [1..n -> Nat] /\ SumTo(n, one) = Cardinality(T)
      /\ \A i \in 1..n : one[i] = IF i \in T THEN 1 ELSE 0
  BY <1>14, SumOfOnes DEF Ones, one
<1>6. /\ f \in Seq(Seq(Pairs)) /\ Len(f) = n /\ g \in Seq(Seq(Pairs)) /\ Len(g) = n
  BY <1>1, <1>4
<1>7. \A i \in 1..n : g[i] \in Seq(Pairs) /\ Len(g[i]) \in Nat
  BY <1>4
<1>8. AddsTo(n, LensOf(g), one, LensOf(f))
  <2>1. LensOf(f) \in [1..n -> Nat] /\ LensOf(g) \in [1..n -> Nat]
    BY <1>1, <1>6, <1>7 DEF LensOf
  <2>2. \A i \in 1..n : LensOf(f)[i] = Len(f[i]) /\ LensOf(g)[i] = Len(g[i])
    BY <1>6 DEF LensOf
  <2>3. \A i \in 1..n : Len(f[i]) = Len(g[i]) + one[i]
    BY <1>1, <1>2, <1>3, <1>5
  <2>. QED
    BY <1>5, <2>1, <2>2, <2>3 DEF AddsTo
<1>9. SumTo(n, LensOf(f)) = SumTo(n, LensOf(g)) + Cardinality(T)
  BY <1>5, <1>8, SumAdds
<1>10. /\ CountsOf(f, x) \in [1..n -> Nat] /\ CountsOf(g, x) \in [1..n -> Nat]
       /\ \A i \in 1..n : CountsOf(f, x)[i] = Count(f[i], x) /\ CountsOf(g, x)[i] = Count(g[i], x)
  <2>1. CountsOf(f, x) \in [1..n -> Nat] /\ CountsOf(g, x) \in [1..n -> Nat]
    BY <1>6, CountsOfShape
  <2>2. \A i \in 1..n : CountsOf(f, x)[i] = Count(f[i], x) /\ CountsOf(g, x)[i] = Count(g[i], x)
    BY <1>6 DEF CountsOf
  <2>. QED
    BY <2>1, <2>2
<1>11. InAll(f, x) = SumTo(n, CountsOf(f, x)) /\ InAll(g, x) = SumTo(n, CountsOf(g, x))
       /\ InAll(g, x) \in Nat
  BY <1>6, CountsOfShape DEF InAll
<1>12. CASE x = r
  <2>1. \A i \in 1..n : Count(g[i], x) \in Nat
    BY <1>7, CountIsSum
  <2>2. \A i \in 1..n : Count(f[i], x) = Count(g[i], x) + one[i]
    <3>1. SUFFICES ASSUME NEW i \in 1..n PROVE Count(f[i], x) = Count(g[i], x) + one[i]
      OBVIOUS
    <3>2. Count(g[i], x) \in Nat
      BY <2>1
    <3>3. CASE i \in T
      BY <1>2, <1>3, <1>5, <1>12, <3>3
    <3>4. CASE i \notin T
      BY <1>2, <1>5, <3>2, <3>4
    <3>. QED
      BY <3>3, <3>4
  <2>3. AddsTo(n, CountsOf(g, x), one, CountsOf(f, x))
    BY <1>5, <1>10, <2>2 DEF AddsTo
  <2>4. SumTo(n, CountsOf(f, x)) = SumTo(n, CountsOf(g, x)) + SumTo(n, one)
    BY <2>3, SumAdds
  <2>. QED
    BY <1>4, <1>5, <1>9, <1>11, <1>12, <2>4
<1>13. CASE x # r
  <2>1. \A i \in 1..n : Count(f[i], x) = Count(g[i], x)
    <3>1. SUFFICES ASSUME NEW i \in 1..n PROVE Count(f[i], x) = Count(g[i], x)
      OBVIOUS
    <3>2. Count(g[i], x) \in Nat
      BY <1>7, CountIsSum
    <3>3. CASE i \in T
      <4>1. g[i] = Tail(f[i])
        BY <1>2, <3>3
      <4>2. Count(f[i], x) = Count(Tail(f[i]), x) + 0
        BY <1>3, <1>13, <3>3
      <4>. QED
        BY <3>2, <4>1, <4>2
    <3>4. CASE i \notin T
      BY <1>2, <3>4
    <3>. QED
      BY <3>3, <3>4
  <2>2. CountsOf(f, x) = CountsOf(g, x)
    <3>1. CountsOf(f, x) = [i \in 1..n |-> Count(f[i], x)] /\ CountsOf(g, x) = [i \in 1..n |-> Count(g[i], x)]
      BY <1>6, Zenon DEF CountsOf
    <3>. QED
      BY <2>1, <3>1, Zenon
  <2>. QED
    BY <1>4, <1>9, <1>11, <1>13, <2>2
<1>. QED
  BY <1>12, <1>13

LEMMA MergeStepKeeps ==
  ASSUME NEW n \in Nat, NEW m \in MergeStates(n)
  PROVE  /\ MergeStep(m) \in MergeStates(n)
         /\ InOrderSoFar(m) => InOrderSoFar(MergeStep(m))
         /\ \A x : InAll(MergeStep(m).files, x) + Count(MergeStep(m).out, x)
                     = InAll(m.files, x) + Count(m.out, x)
         /\ IF \E i \in 1..n : m.files[i] # <<>> THEN Remaining(MergeStep(m)) < Remaining(m)
            ELSE MergeStep(m) = m
<1>. DEFINE f == m.files
            open == {i \in 1..n : f[i] # <<>>}
            r == Smallest({Head(f[i]) : i \in open})
            T == {i \in open : Head(f[i]) = r}
            g == [i \in 1..n |-> IF i \in T THEN Tail(f[i]) ELSE f[i]]
            c == Cardinality(T)
            out == m.out \o Times(r, c)
<1>1. f \in [1..n -> Seq(Pairs)] /\ Len(f) = n /\ m.out \in Seq(Pairs) /\ DOMAIN f = 1..n
  BY MergeStateShape
<1>2. MergeStep(m) = IF open = {} THEN m ELSE [files |-> g, out |-> out]
  BY <1>1, Zenon DEF MergeStep
<1>3. CASE open = {}
  BY <1>2, <1>3
<1>4. CASE open # {}
  <2>1. open = {i \in 1..n : f[i] # <<>>} /\ r = Smallest({Head(f[i]) : i \in open})
        /\ T = {i \in open : Head(f[i]) = r} /\ g = [i \in 1..n |-> IF i \in T THEN Tail(f[i]) ELSE f[i]]
    OBVIOUS
  <2>14. Taking(n, f, open, r, T, g)
    BY <1>1, <1>4, Zenon DEF Taking
  <2>. HIDE DEF f, open, r, T, g
  <2>2. /\ r \in Pairs /\ T # {} /\ T \in SUBSET (1..n) /\ open \in SUBSET (1..n)
        /\ IsFiniteSet(T) /\ c \in Nat \ {0}
    BY <2>14, SomethingIsTaken
  <2>3. \A i \in open : ~Before(Head(f[i]), r)
    BY <2>14, SomethingIsTaken
  <2>4. \A i \in T : f[i] # <<>> /\ Head(f[i]) = r
    BY <2>1
  <2>5. g \in [1..n -> Seq(Pairs)] /\ SumTo(n, LensOf(f)) = SumTo(n, LensOf(g)) + c
    BY <2>14, TakenCounts
  <2>6. \A x : InAll(f, x) = InAll(g, x) + IF x = r THEN c ELSE 0
    BY <2>14, TakenCounts
  <2>7. MergeStep(m) = [files |-> g, out |-> out]
    BY <1>2, <1>4
  <2>. HIDE DEF c
  <2>8. Times(r, c) \in Seq(Pairs) /\ DOMAIN Times(r, c) = 1..c /\ \A i \in 1..c : Times(r, c)[i] = r
    BY <2>2, CountInTimes
  <2>9. out \in Seq(Pairs)
    BY <1>1, <2>8
  <2>. DEFINE new == MergeStep(m)
  <2>. HIDE DEF new, out
  <2>10. new.files = g /\ new.out = out /\ new \in MergeStates(n)
    BY <2>5, <2>7, <2>9 DEF new, MergeStates
  <2>11. ASSUME NEW x
         PROVE  InAll(g, x) + Count(out, x) = InAll(f, x) + Count(m.out, x)
    <3>1. Count(out, x) = Count(m.out, x) + Count(Times(r, c), x)
      <4>1. PICK a \in Seq(Pairs) : a = m.out
        BY <1>1
      <4>2. PICK b \in Seq(Pairs) : b = Times(r, c)
        BY <2>8
      <4>3. Count(a \o b, x) = Count(a, x) + Count(b, x)
        BY CountsJoin
      <4>. QED
        BY <4>1, <4>2, <4>3 DEF out
    <3>2. Count(Times(r, c), x) = IF x = r THEN c ELSE 0
      BY <2>2, CountInTimes
    <3>3. Count(m.out, x) \in Nat
      BY <1>1, CountIsSum
    <3>4. InAll(g, x) \in Nat
      <4>1. g \in Seq(Seq(Pairs))
        BY <2>5
      <4>. QED
        BY <4>1, CountsOfShape
    <3>5. InAll(f, x) = InAll(g, x) + IF x = r THEN c ELSE 0
      BY <2>6
    <3>. QED
      BY <2>2, <3>1, <3>2, <3>3, <3>4, <3>5
  <2>12. Remaining(new) < Remaining(m) /\ \E i \in 1..n : f[i] # <<>>
    <3>1. Remaining(new) = SumTo(n, LensOf(g)) /\ Remaining(m) = SumTo(n, LensOf(f))
      <4>1. Len(g) = n
        BY <2>5
      <4>. QED
        BY <1>1, <2>10, <4>1 DEF Remaining, f
    <3>2. Remaining(new) \in Nat
      BY <2>10, MergeStateShape
    <3>. QED
      BY <1>4, <2>1, <2>2, <2>5, <3>1, <3>2
  <2>13. ASSUME InOrderSoFar(m) PROVE InOrderSoFar(new)
    <3>1. Ascends(m.out) /\ \A i \in 1..n : Ascends(f[i]) /\ MayPrecede(m.out, f[i])
      BY <1>1, <2>13 DEF InOrderSoFar, f
    <3>2. \A i \in 1..n : f[i] \in Seq(Pairs) /\ g[i] \in Seq(Pairs)
      BY <1>1, <2>5
    <3>3. \A i \in 1..n : g[i] = IF i \in T THEN Tail(f[i]) ELSE f[i]
      BY <2>1
    <3>4. ASSUME NEW i \in T
          PROVE  /\ i \in 1..n /\ i \in open /\ 1 \in DOMAIN f[i] /\ Head(f[i]) = f[i][1] /\ f[i][1] = r
                 /\ \A j \in DOMAIN Tail(f[i]) : j \in DOMAIN f[i] /\ j + 1 \in DOMAIN f[i]
                                                  /\ Tail(f[i])[j] = f[i][j + 1]
      <4>1. PICK h \in Seq(Pairs) : h = f[i]
        BY <2>2, <3>2
      <4>2. h # <<>> /\ Head(h) = r
        BY <2>4, <4>1
      <4>3. Tail(h) \in Seq(Pairs) /\ Len(Tail(h)) = Len(h) - 1 /\ Len(h) \in Nat \ {0}
        BY <4>2, CountWithoutFirst
      <4>4. Head(h) = h[1] /\ 1 \in DOMAIN h
        BY <4>2, CountWithoutFirst
      <4>5. \A j \in 1..Len(h) - 1 : Tail(h)[j] = h[j + 1]
        BY <4>2, CountWithoutFirst
      <4>6. DOMAIN Tail(h) = 1..Len(h) - 1 /\ DOMAIN h = 1..Len(h)
        BY <4>3
      <4>7. \A j \in 1..Len(h) - 1 : j \in 1..Len(h) /\ j + 1 \in 1..Len(h)
        BY <4>3
      <4>8. i \in open /\ i \in 1..n
        BY <2>1, <2>2
      <4>. QED
        BY <4>1, <4>2, <4>4, <4>5, <4>6, <4>7, <4>8
    <3>5. ASSUME NEW i \in 1..n PROVE Ascends(g[i])
      <4>1. CASE i \notin T
        BY <3>1, <3>3, <4>1
      <4>2. CASE i \in T
        <5>1. PICK t \in Seq(Pairs) : t = Tail(f[i]) /\ t = g[i]
          BY <3>2, <3>3, <4>2
        <5>2. ASSUME NEW j \in DOMAIN t, NEW k \in DOMAIN t, j < k PROVE ~Before(t[k], t[j])
          <6>1. t[j] = f[i][j + 1] /\ t[k] = f[i][k + 1] /\ j + 1 \in DOMAIN f[i] /\ k + 1 \in DOMAIN f[i]
            BY <3>4, <4>2, <5>1
          <6>2. j + 1 < k + 1
            BY <5>2
          <6>. QED
            BY <3>1, <6>1, <6>2 DEF Ascends
        <5>. QED
          BY <5>1, <5>2 DEF Ascends
      <4>. QED
        BY <4>1, <4>2
    <3>6. ASSUME NEW i \in 1..n, NEW j \in DOMAIN g[i]
          PROVE  \E k \in DOMAIN f[i] : g[i][j] = f[i][k]
      <4>1. CASE i \notin T
        <5>1. g[i] = f[i]
          BY <3>3, <4>1
        <5>. QED
          BY <3>6, <5>1
      <4>2. CASE i \in T
        <5>1. g[i] = Tail(f[i])
          BY <3>3, <4>2
        <5>. QED
          BY <3>4, <3>6, <4>2, <5>1
      <4>. QED
        BY <4>1, <4>2
    <3>7. ASSUME NEW i \in 1..n, NEW k \in DOMAIN f[i] PROVE ~Before(f[i][k], r)
      <4>1. PICK h \in Seq(Pairs) : h = f[i]
        BY <3>2
      <4>2. h # <<>> /\ DOMAIN h = 1..Len(h) /\ Len(h) \in Nat \ {0}
        BY <3>7, <4>1
      <4>3. i \in open /\ Head(h) = h[1] /\ h[1] \in Pairs /\ h[k] \in Pairs /\ 1 \in DOMAIN h
        BY <2>1, <3>7, <4>1, <4>2
      <4>4. ~Before(h[1], r)
        BY <2>3, <4>1, <4>3
      <4>5. ~Before(h[k], h[1])
        <5>1. CASE k = 1
          BY <4>3, <5>1, OrderOfRecords
        <5>2. CASE k # 1
          <6>1. 1 < k
            BY <3>7, <4>1, <4>2, <5>2
          <6>. QED
            BY <3>1, <3>7, <4>1, <4>3, <6>1 DEF Ascends
        <5>. QED
          BY <5>1, <5>2
      <4>. QED
        BY <2>2, <4>1, <4>3, <4>4, <4>5, OrderIsTransitive
    <3>8. MayPrecede(m.out, Times(r, c)) /\ Ascends(Times(r, c))
      <4>1. PICK i \in T : TRUE
        BY <2>2
      <4>2. \A j \in DOMAIN m.out : ~Before(r, m.out[j])
        BY <3>1, <3>4, <4>1 DEF MayPrecede
      <4>3. ~Before(r, r)
        BY <2>2, OrderOfRecords
      <4>. QED
        BY <2>8, <4>2, <4>3 DEF MayPrecede, Ascends
    <3>9. Ascends(out)
      BY <1>1, <2>8, <3>1, <3>8, SortedTogether DEF out
    <3>10. ASSUME NEW j \in DOMAIN out PROVE out[j] = r \/ \E k \in DOMAIN m.out : out[j] = m.out[k]
      <4>1. PICK a \in Seq(Pairs) : a = m.out
        BY <1>1
      <4>2. PICK b \in Seq(Pairs) : b = Times(r, c)
        BY <2>8
      <4>3. /\ DOMAIN (a \o b) = 1..Len(a) + Len(b)
            /\ \A i \in 1..Len(a) : (a \o b)[i] = a[i]
            /\ \A i \in 1..Len(b) : (a \o b)[Len(a) + i] = b[i]
            /\ \A i \in 1..Len(a) + Len(b) : i \in 1..Len(a) \/ (i - Len(a) \in 1..Len(b))
        BY OneBehindTheOther
      <4>4. out = a \o b /\ DOMAIN a = 1..Len(a) /\ DOMAIN b = 1..Len(b) /\ Len(a) \in Nat /\ Len(b) \in Nat
        BY <4>1, <4>2 DEF out
      <4>5. j \in 1..Len(a) + Len(b)
        BY <3>10, <4>3, <4>4
      <4>6. CASE j \in 1..Len(a)
        BY <4>1, <4>3, <4>4, <4>6
      <4>7. CASE j - Len(a) \in 1..Len(b)
        <5>1. PICK d \in 1..Len(b) : d = j - Len(a)
          BY <4>7
        <5>2. j = Len(a) + d
          BY <4>4, <4>5, <5>1
        <5>3. out[j] = b[d]
          BY <4>3, <4>4, <5>2
        <5>. QED
          BY <2>8, <4>2, <4>4, <5>3
      <4>. QED
        BY <4>3, <4>5, <4>6, <4>7
    <3>11. ASSUME NEW i \in 1..n PROVE MayPrecede(out, g[i])
      <4>1. SUFFICES ASSUME NEW j \in DOMAIN out, NEW k \in DOMAIN g[i] PROVE ~Before(g[i][k], out[j])
        BY DEF MayPrecede
      <4>2. PICK l \in DOMAIN f[i] : g[i][k] = f[i][l]
        BY <3>6
      <4>3. CASE out[j] = r
        BY <3>7, <4>2, <4>3
      <4>4. CASE \E e \in DOMAIN m.out : out[j] = m.out[e]
        BY <3>1, <4>2, <4>4 DEF MayPrecede
      <4>. QED
        BY <3>10, <4>3, <4>4
    <3>12. Len(g) = n
      BY <2>5
    <3>. QED
      BY <2>10, <3>5, <3>9, <3>11, <3>12 DEF InOrderSoFar
  <2>. QED
    BY <2>10, <2>11, <2>12, <2>13 DEF new, f
<1>. QED
  BY <1>3, <1>4

--------------------------------------------------------------------------------
(* What a fold over a list has done after each of its members. *)

LEMMA LastIsIn ==
  ASSUME NEW n \in Nat, NEW s \in SUBSET (1..n), s # {}
  PROVE  Max(s) \in s
<1>1. Numbers!Largest(s) \in s
  BY NumbersConstants, Numbers!LargestIsIn, Zenon
<1>. QED
  BY <1>1, Zenon DEF Max, Numbers!Largest

LEMMA LastOfFirst ==
  ASSUME NEW n \in Nat, n # 0
  PROVE  Max(1..n) = n /\ (1..n) \ {n} = 1..n - 1 /\ 1..n # {}
<1>1. Numbers!Largest(1..n) = n /\ (1..n) \ {n} = 1..n - 1 /\ 1..n # {}
  BY NumbersConstants, Numbers!LargestOfPrefix, Zenon
<1>. QED
  BY <1>1, Zenon DEF Max, Numbers!Largest

(* W folds f over the positions 1..n, for every set of them. *)
FoldedBy(W, n, X, base, op, f) ==
  /\ W \in [SUBSET (1..n) -> X]
  /\ \A s \in SUBSET (1..n) :
       W[s] = IF s = {} THEN base ELSE op[<<f[Max(s)], W[s \ {Max(s)}]>>]

LEMMA FoldOfPositions ==
  ASSUME NEW n \in Nat, NEW X, NEW base \in X, NEW F, NEW op \in [F \X X -> X], NEW f \in [1..n -> F]
  PROVE  \E W : FoldedBy(W, n, X, base, op, f)
<1>. DEFINE S == 1..n
            pick == [s \in SUBSET S |-> Max(s)]
<1>1. \A s \in SUBSET S : pick[s] = Max(s) /\ (s # {} => pick[s] \in s)
  BY LastIsIn
<1>2. Numbers!IsFiniteSet(S)
  <2>1. IsFiniteSet(S)
    BY FS_Interval
  <2>. QED
    BY <2>1, Zenon DEF IsFiniteSet, Numbers!IsFiniteSet
<1>3. f \in [S -> F]
  OBVIOUS
<1>. HIDE DEF pick, S
<1>4. PICK W : Numbers!IsFoldWith(W, S, X, base, op, f, pick)
  BY <1>1, <1>2, <1>3, NumbersConstants, Numbers!FoldWithExists, Zenon
<1>5. FoldedBy(W, n, X, base, op, f)
  BY <1>1, <1>4, Zenon DEF Numbers!IsFoldWith, FoldedBy, S
<1>. QED
  BY <1>5

(* Lengths adds up the lengths. *)
LEMMA LengthsAreSummed ==
  ASSUME NEW n \in Nat, NEW files \in [1..n -> Seq(Pairs)]
  PROVE  \E R \in [0..n -> Nat] :
           /\ R[0] = 0
           /\ \A i \in 1..n : R[i] = R[i - 1] + Len(files[i])
           /\ Lengths(files) = R[n]
<1>. DEFINE S == 1..n
            Body(W) == [s \in SUBSET S |-> IF s = {} THEN 0 ELSE W[s \ {Max(s)}] + Len(files[Max(s)])]
            op == [q \in (Seq(Pairs)) \X (Nat) |-> q[2] + Len(q[1])]
            G == CHOOSE U : U = Body(U)
<1>0. n \in Nat /\ files \in [S -> Seq(Pairs)] /\ 0 \in Nat
  OBVIOUS
<1>1. op \in [(Seq(Pairs)) \X (Nat) -> Nat] /\ \A v \in Seq(Pairs), y \in Nat : op[<<v, y>>] = y + Len(v)
  <2>1. \A v \in Seq(Pairs), y \in Nat : y + Len(v) \in Nat
    OBVIOUS
  <2>2. \A q \in (Seq(Pairs)) \X (Nat) : q[1] \in Seq(Pairs) /\ q[2] \in Nat
    OBVIOUS
  <2>3. \A q \in (Seq(Pairs)) \X (Nat) : q[2] + Len(q[1]) \in Nat
    BY <2>1, <2>2
  <2>. QED
    BY <2>3
<1>2. PICK W : FoldedBy(W, n, Nat, 0, op, files)
  <2>. HIDE DEF op
  <2>. QED
    BY <1>0, <1>1, FoldOfPositions
<1>. HIDE DEF op
<1>3. \A s \in SUBSET S : W[s] = IF s = {} THEN 0 ELSE W[s \ {Max(s)}] + Len(files[Max(s)])
  <2>. SUFFICES ASSUME NEW s \in SUBSET S, s # {}
                PROVE  W[s] = W[s \ {Max(s)}] + Len(files[Max(s)])
    BY <1>2 DEF FoldedBy
  <2>1. Max(s) \in S /\ files[Max(s)] \in Seq(Pairs)
    BY <1>0, LastIsIn
  <2>2. W[s \ {Max(s)}] \in Nat
    BY <1>2 DEF FoldedBy
  <2>3. W[s] = op[<<files[Max(s)], W[s \ {Max(s)}]>>]
    BY <1>2 DEF FoldedBy
  <2>. QED
    BY <1>1, <2>1, <2>2, <2>3
<1>4. W = Body(W)
  <2>1. W = [s \in SUBSET S |-> W[s]]
    BY <1>2 DEF FoldedBy
  <2>. QED
    BY <1>3, <2>1, Zenon
<1>5. Lengths(files) = G[S]
  <2>1. DOMAIN files = S
    BY <1>0
  <2>2. Lengths(files) = (CHOOSE iter : iter = [s \in SUBSET DOMAIN files |->
           IF s = {} THEN 0 ELSE iter[s \ {Max(s)}] + Len(files[Max(s)])])[DOMAIN files]
    BY Zenon DEF Lengths, FoldLeft, MapThenFoldSet
  <2>. QED
    BY <2>1, <2>2, Zenon
<1>6. G = Body(G)
  <2>. HIDE DEF Body
  <2>1. G = CHOOSE U : U = Body(U)
    OBVIOUS
  <2>. QED
    BY <1>4, <2>1, Zenon
<1>. HIDE DEF G
<1>7. G[{}] = 0 /\ \A s \in SUBSET S : s # {} => G[s] = G[s \ {Max(s)}] + Len(files[Max(s)])
  BY <1>6
<1>. DEFINE R == [i \in 0..n |-> G[1..i]]
<1>8. \A i \in 0..n : R[i] = G[1..i] /\ 1..i \in SUBSET S
  BY <1>0
<1>9. R[0] = 0
  <2>1. 0 \in 0..n /\ 1..0 = {}
    BY <1>0
  <2>. QED
    BY <1>7, <1>8, <2>1
<1>10. ASSUME NEW i \in 1..n PROVE R[i] = R[i - 1] + Len(files[i])
  <2>1. i \in Nat /\ i # 0 /\ i \in 0..n /\ i - 1 \in 0..n
    BY <1>0
  <2>2. Max(1..i) = i /\ (1..i) \ {i} = 1..i - 1 /\ 1..i # {}
    BY <2>1, LastOfFirst
  <2>3. R[i] = G[1..i] /\ 1..i \in SUBSET S /\ R[i - 1] = G[1..i - 1]
    BY <1>8, <2>1
  <2>. HIDE DEF R
  <2>4. G[1..i] = G[(1..i) \ {Max(1..i)}] + Len(files[Max(1..i)])
    BY <1>7, <2>2, <2>3, Zenon
  <2>. QED
    BY <2>2, <2>3, <2>4
<1>11. \A i \in 0..n : i \in {k \in 0..n : R[k] \in Nat}
  <2>. DEFINE Good == {k \in 0..n : R[k] \in Nat}
  <2>1. 0 \in Good
    <3>1. 0 \in 0..n
      BY <1>0
    <3>2. R[0] \in Nat
      BY <1>0, <1>9, Zenon
    <3>. HIDE DEF R
    <3>. QED
      BY <3>1, <3>2
  <2>2. ASSUME NEW i \in 1..n, i - 1 \in Good PROVE i \in Good
    <3>1. R[i - 1] \in Nat /\ files[i] \in Seq(Pairs) /\ i \in 0..n
      BY <1>0, <2>2
    <3>. HIDE DEF R
    <3>2. R[i - 1] + Len(files[i]) \in Nat
      BY <3>1
    <3>. QED
      BY <1>10, <3>1, <3>2
  <2>. HIDE DEF Good
  <2>3. \A i \in 0..n : i \in Good
    BY <1>0, <2>1, <2>2, UpTo
  <2>. QED
    BY <2>3 DEF Good
<1>12. R \in [0..n -> Nat]
  <2>1. R = [i \in 0..n |-> R[i]]
    BY <1>8
  <2>. HIDE DEF R
  <2>. QED
    BY <1>11, <2>1
<1>13. Lengths(files) = R[n]
  <2>1. n \in 0..n
    BY <1>0
  <2>. QED
    BY <1>5, <1>8, <2>1
<1>. HIDE DEF R
<1>. QED
  BY <1>9, <1>10, <1>12, <1>13

Merging(files, todo) ==
  FoldLeft(LAMBDA m, i : MergeStep(m), [files |-> files, out |-> <<>>], Times(0, todo))

IsMerging(R, n, files, todo) ==
  /\ R \in [0..todo -> MergeStates(n)]
  /\ R[0] = [files |-> files, out |-> <<>>]
  /\ \A i \in 1..todo : R[i] = MergeStep(R[i - 1])
  /\ Merging(files, todo) = R[todo]

(* MergeFiles takes a record as often as there are records. *)
LEMMA FilesAreMerged ==
  ASSUME NEW n \in Nat, NEW files \in [1..n -> Seq(Pairs)], NEW todo \in Nat
  PROVE  \E R : IsMerging(R, n, files, todo)
<1>. DEFINE S == 1..todo
            Body(W) == [s \in SUBSET S |-> IF s = {} THEN [files |-> files, out |-> <<>>] ELSE MergeStep(W[s \ {Max(s)}])]
            op == [q \in ({0}) \X (MergeStates(n)) |-> MergeStep(q[2])]
            G == CHOOSE U : U = Body(U)
<1>0. todo \in Nat /\ Times(0, todo) \in [S -> {0}] /\ [files |-> files, out |-> <<>>] \in MergeStates(n)
  BY DEF MergeStates, Times
<1>1. op \in [({0}) \X (MergeStates(n)) -> MergeStates(n)] /\ \A v \in {0}, y \in MergeStates(n) : op[<<v, y>>] = MergeStep(y)
  <2>1. \A v \in {0}, y \in MergeStates(n) : MergeStep(y) \in MergeStates(n)
    BY MergeStepKeeps
  <2>2. \A q \in ({0}) \X (MergeStates(n)) : q[1] \in {0} /\ q[2] \in MergeStates(n)
    OBVIOUS
  <2>3. \A q \in ({0}) \X (MergeStates(n)) : MergeStep(q[2]) \in MergeStates(n)
    BY <2>1, <2>2
  <2>. QED
    BY <2>3
<1>2. PICK W : FoldedBy(W, todo, MergeStates(n), [files |-> files, out |-> <<>>], op, Times(0, todo))
  <2>. HIDE DEF op
  <2>. QED
    BY <1>0, <1>1, FoldOfPositions
<1>. HIDE DEF op
<1>3. \A s \in SUBSET S : W[s] = IF s = {} THEN [files |-> files, out |-> <<>>] ELSE MergeStep(W[s \ {Max(s)}])
  <2>. SUFFICES ASSUME NEW s \in SUBSET S, s # {}
                PROVE  W[s] = MergeStep(W[s \ {Max(s)}])
    BY <1>2 DEF FoldedBy
  <2>1. Max(s) \in S /\ Times(0, todo)[Max(s)] \in {0}
    BY <1>0, LastIsIn
  <2>2. W[s \ {Max(s)}] \in MergeStates(n)
    BY <1>2 DEF FoldedBy
  <2>3. W[s] = op[<<Times(0, todo)[Max(s)], W[s \ {Max(s)}]>>]
    BY <1>2 DEF FoldedBy
  <2>. QED
    BY <1>1, <2>1, <2>2, <2>3
<1>4. W = Body(W)
  <2>1. W = [s \in SUBSET S |-> W[s]]
    BY <1>2 DEF FoldedBy
  <2>. QED
    BY <1>3, <2>1, Zenon
<1>5. Merging(files, todo) = G[S]
  <2>1. DOMAIN Times(0, todo) = S
    BY <1>0
  <2>2. Merging(files, todo) = (CHOOSE iter : iter = [s \in SUBSET DOMAIN Times(0, todo) |->
           IF s = {} THEN [files |-> files, out |-> <<>>] ELSE MergeStep(iter[s \ {Max(s)}])])[DOMAIN Times(0, todo)]
    BY Zenon DEF Merging, FoldLeft, MapThenFoldSet
  <2>. QED
    BY <2>1, <2>2, Zenon
<1>6. G = Body(G)
  <2>. HIDE DEF Body
  <2>1. G = CHOOSE U : U = Body(U)
    OBVIOUS
  <2>. QED
    BY <1>4, <2>1, Zenon
<1>. HIDE DEF G
<1>7. G[{}] = [files |-> files, out |-> <<>>] /\ \A s \in SUBSET S : s # {} => G[s] = MergeStep(G[s \ {Max(s)}])
  BY <1>6
<1>. DEFINE R == [i \in 0..todo |-> G[1..i]]
<1>8. \A i \in 0..todo : R[i] = G[1..i] /\ 1..i \in SUBSET S
  BY <1>0
<1>9. R[0] = [files |-> files, out |-> <<>>]
  <2>1. 0 \in 0..todo /\ 1..0 = {}
    BY <1>0
  <2>. QED
    BY <1>7, <1>8, <2>1
<1>10. ASSUME NEW i \in 1..todo PROVE R[i] = MergeStep(R[i - 1])
  <2>1. i \in Nat /\ i # 0 /\ i \in 0..todo /\ i - 1 \in 0..todo
    BY <1>0
  <2>2. Max(1..i) = i /\ (1..i) \ {i} = 1..i - 1 /\ 1..i # {}
    BY <2>1, LastOfFirst
  <2>3. R[i] = G[1..i] /\ 1..i \in SUBSET S /\ R[i - 1] = G[1..i - 1]
    BY <1>8, <2>1
  <2>. HIDE DEF R
  <2>4. G[1..i] = MergeStep(G[(1..i) \ {Max(1..i)}])
    BY <1>7, <2>2, <2>3, Zenon
  <2>. QED
    BY <2>2, <2>3, <2>4
<1>11. \A i \in 0..todo : i \in {k \in 0..todo : R[k] \in MergeStates(n)}
  <2>. DEFINE Good == {k \in 0..todo : R[k] \in MergeStates(n)}
  <2>1. 0 \in Good
    <3>1. 0 \in 0..todo
      BY <1>0
    <3>2. R[0] \in MergeStates(n)
      BY <1>0, <1>9, Zenon
    <3>. HIDE DEF R
    <3>. QED
      BY <3>1, <3>2
  <2>2. ASSUME NEW i \in 1..todo, i - 1 \in Good PROVE i \in Good
    <3>1. R[i - 1] \in MergeStates(n) /\ Times(0, todo)[i] \in {0} /\ i \in 0..todo
      BY <1>0, <2>2
    <3>. HIDE DEF R
    <3>2. MergeStep(R[i - 1]) \in MergeStates(n)
      BY <3>1, MergeStepKeeps
    <3>. QED
      BY <1>10, <3>1, <3>2
  <2>. HIDE DEF Good
  <2>3. \A i \in 0..todo : i \in Good
    BY <1>0, <2>1, <2>2, UpTo
  <2>. QED
    BY <2>3 DEF Good
<1>12. R \in [0..todo -> MergeStates(n)]
  <2>1. R = [i \in 0..todo |-> R[i]]
    BY <1>8
  <2>. HIDE DEF R
  <2>. QED
    BY <1>11, <2>1
<1>13. Merging(files, todo) = R[todo]
  <2>1. todo \in 0..todo
    BY <1>0
  <2>. QED
    BY <1>5, <1>8, <2>1
<1>. HIDE DEF R
<1>14. IsMerging(R, n, files, todo)
  BY <1>9, <1>10, <1>12, <1>13, Zenon DEF IsMerging
<1>. QED
  BY <1>14

LEMMA NextRecord ==
  ASSUME NEW y \in Seq(Pairs), NEW v, NEW p
  PROVE  (IF v \in Words /\ Part[v] = p THEN Append(y, <<v, 1>>) ELSE y) \in Seq(Pairs)
<1>1. v \in Words => <<v, 1>> \in Pairs
  BY DEF Pairs
<1>. QED
  BY <1>1

IsTaking(R, n, data, p) ==
  /\ R[0] = <<>>
  /\ \A i \in 1..n : R[i] = (IF data[i] \in Words /\ Part[data[i]] = p THEN Append(R[i - 1], <<data[i], 1>>) ELSE R[i - 1])
  /\ RecordsFor(data, p) = R[n]

(* RecordsFor looks at each character of a segment. *)
LEMMA RecordsAreTaken ==
  ASSUME NEW n \in Nat, NEW X, NEW data \in [1..n -> X], NEW p
  PROVE  \E R \in [0..n -> Seq(Pairs)] :
           IsTaking(R, n, data, p)
<1>. DEFINE S == 1..n
            Body(W) == [s \in SUBSET S |-> IF s = {} THEN <<>> ELSE (IF data[Max(s)] \in Words /\ Part[data[Max(s)]] = p THEN Append(W[s \ {Max(s)}], <<data[Max(s)], 1>>) ELSE W[s \ {Max(s)}])]
            op == [q \in (X) \X (Seq(Pairs)) |-> (IF q[1] \in Words /\ Part[q[1]] = p THEN Append(q[2], <<q[1], 1>>) ELSE q[2])]
            G == CHOOSE U : U = Body(U)
<1>0. n \in Nat /\ data \in [S -> X] /\ <<>> \in Seq(Pairs)
  OBVIOUS
<1>1. op \in [(X) \X (Seq(Pairs)) -> Seq(Pairs)] /\ \A v \in X, y \in Seq(Pairs) : op[<<v, y>>] = (IF v \in Words /\ Part[v] = p THEN Append(y, <<v, 1>>) ELSE y)
  <2>1. \A v \in X, y \in Seq(Pairs) : (IF v \in Words /\ Part[v] = p THEN Append(y, <<v, 1>>) ELSE y) \in Seq(Pairs)
    BY NextRecord, Zenon
  <2>2. \A q \in (X) \X (Seq(Pairs)) : q[1] \in X /\ q[2] \in Seq(Pairs)
    OBVIOUS
  <2>3. \A q \in (X) \X (Seq(Pairs)) : (IF q[1] \in Words /\ Part[q[1]] = p THEN Append(q[2], <<q[1], 1>>) ELSE q[2]) \in Seq(Pairs)
    BY <2>1, <2>2
  <2>. QED
    BY <2>3
<1>2. PICK W : FoldedBy(W, n, Seq(Pairs), <<>>, op, data)
  <2>. HIDE DEF op
  <2>. QED
    BY <1>0, <1>1, FoldOfPositions
<1>. HIDE DEF op
<1>3. \A s \in SUBSET S : W[s] = IF s = {} THEN <<>> ELSE (IF data[Max(s)] \in Words /\ Part[data[Max(s)]] = p THEN Append(W[s \ {Max(s)}], <<data[Max(s)], 1>>) ELSE W[s \ {Max(s)}])
  <2>. SUFFICES ASSUME NEW s \in SUBSET S, s # {}
                PROVE  W[s] = (IF data[Max(s)] \in Words /\ Part[data[Max(s)]] = p THEN Append(W[s \ {Max(s)}], <<data[Max(s)], 1>>) ELSE W[s \ {Max(s)}])
    BY <1>2 DEF FoldedBy
  <2>1. Max(s) \in S /\ data[Max(s)] \in X
    BY <1>0, LastIsIn
  <2>2. W[s \ {Max(s)}] \in Seq(Pairs)
    BY <1>2 DEF FoldedBy
  <2>3. W[s] = op[<<data[Max(s)], W[s \ {Max(s)}]>>]
    BY <1>2 DEF FoldedBy
  <2>. QED
    BY <1>1, <2>1, <2>2, <2>3
<1>4. W = Body(W)
  <2>1. W = [s \in SUBSET S |-> W[s]]
    BY <1>2 DEF FoldedBy
  <2>. QED
    BY <1>3, <2>1, Zenon
<1>5. RecordsFor(data, p) = G[S]
  <2>1. DOMAIN data = S
    BY <1>0
  <2>2. RecordsFor(data, p) = (CHOOSE iter : iter = [s \in SUBSET DOMAIN data |->
           IF s = {} THEN <<>> ELSE (IF data[Max(s)] \in Words /\ Part[data[Max(s)]] = p THEN Append(iter[s \ {Max(s)}], <<data[Max(s)], 1>>) ELSE iter[s \ {Max(s)}])])[DOMAIN data]
    BY Zenon DEF RecordsFor, FoldLeft, MapThenFoldSet
  <2>. QED
    BY <2>1, <2>2, Zenon
<1>6. G = Body(G)
  <2>. HIDE DEF Body
  <2>1. G = CHOOSE U : U = Body(U)
    OBVIOUS
  <2>. QED
    BY <1>4, <2>1, Zenon
<1>. HIDE DEF G
<1>7. G[{}] = <<>> /\ \A s \in SUBSET S : s # {} => G[s] = (IF data[Max(s)] \in Words /\ Part[data[Max(s)]] = p THEN Append(G[s \ {Max(s)}], <<data[Max(s)], 1>>) ELSE G[s \ {Max(s)}])
  BY <1>6
<1>. DEFINE R == [i \in 0..n |-> G[1..i]]
<1>8. \A i \in 0..n : R[i] = G[1..i] /\ 1..i \in SUBSET S
  BY <1>0
<1>9. R[0] = <<>>
  <2>1. 0 \in 0..n /\ 1..0 = {}
    BY <1>0
  <2>. QED
    BY <1>7, <1>8, <2>1
<1>10. ASSUME NEW i \in 1..n PROVE R[i] = (IF data[i] \in Words /\ Part[data[i]] = p THEN Append(R[i - 1], <<data[i], 1>>) ELSE R[i - 1])
  <2>1. i \in Nat /\ i # 0 /\ i \in 0..n /\ i - 1 \in 0..n
    BY <1>0
  <2>2. Max(1..i) = i /\ (1..i) \ {i} = 1..i - 1 /\ 1..i # {}
    BY <2>1, LastOfFirst
  <2>3. R[i] = G[1..i] /\ 1..i \in SUBSET S /\ R[i - 1] = G[1..i - 1]
    BY <1>8, <2>1
  <2>. HIDE DEF R
  <2>4. G[1..i] = (IF data[Max(1..i)] \in Words /\ Part[data[Max(1..i)]] = p THEN Append(G[(1..i) \ {Max(1..i)}], <<data[Max(1..i)], 1>>) ELSE G[(1..i) \ {Max(1..i)}])
    BY <1>7, <2>2, <2>3, Zenon
  <2>. QED
    BY <2>2, <2>3, <2>4
<1>11. \A i \in 0..n : i \in {k \in 0..n : R[k] \in Seq(Pairs)}
  <2>. DEFINE Good == {k \in 0..n : R[k] \in Seq(Pairs)}
  <2>1. 0 \in Good
    <3>1. 0 \in 0..n
      BY <1>0
    <3>2. R[0] \in Seq(Pairs)
      BY <1>0, <1>9, Zenon
    <3>. HIDE DEF R
    <3>. QED
      BY <3>1, <3>2
  <2>2. ASSUME NEW i \in 1..n, i - 1 \in Good PROVE i \in Good
    <3>1. R[i - 1] \in Seq(Pairs) /\ data[i] \in X /\ i \in 0..n
      BY <1>0, <2>2
    <3>. HIDE DEF R
    <3>2. (IF data[i] \in Words /\ Part[data[i]] = p THEN Append(R[i - 1], <<data[i], 1>>) ELSE R[i - 1]) \in Seq(Pairs)
      BY <3>1, NextRecord
    <3>. QED
      BY <1>10, <3>1, <3>2
  <2>. HIDE DEF Good
  <2>3. \A i \in 0..n : i \in Good
    BY <1>0, <2>1, <2>2, UpTo
  <2>. QED
    BY <2>3 DEF Good
<1>12. R \in [0..n -> Seq(Pairs)]
  <2>1. R = [i \in 0..n |-> R[i]]
    BY <1>8
  <2>. HIDE DEF R
  <2>. QED
    BY <1>11, <2>1
<1>13. RecordsFor(data, p) = R[n]
  <2>1. n \in 0..n
    BY <1>0
  <2>. QED
    BY <1>5, <1>8, <2>1
<1>. HIDE DEF R
<1>. QED
  BY <1>9, <1>10, <1>12, <1>13 DEF IsTaking

LEMMA LengthsIs ==
  ASSUME NEW n \in Nat, NEW files \in [1..n -> Seq(Pairs)]
  PROVE  Lengths(files) \in Nat /\ Lengths(files) = SumTo(n, LensOf(files))
<1>1. PICK R \in [0..n -> Nat] :
           /\ R[0] = 0
           /\ \A i \in 1..n : R[i] = R[i - 1] + Len(files[i])
           /\ Lengths(files) = R[n]
  BY LengthsAreSummed
<1>2. files \in Seq(Seq(Pairs)) /\ Len(files) = n /\ \A i \in 1..n : Len(files[i]) \in Nat
  OBVIOUS
<1>3. LensOf(files) \in [1..n -> Nat] /\ \A i \in 1..n : LensOf(files)[i] = Len(files[i])
  BY <1>2 DEF LensOf
<1>4. Numbers!IsPartialSums(R, n, LensOf(files))
  BY <1>1, <1>3 DEF Numbers!IsPartialSums
<1>5. SumTo(n, LensOf(files)) = R[n] /\ SumTo(n, LensOf(files)) \in Nat
  BY <1>3, <1>4, SumIs
<1>. QED
  BY <1>1, <1>5

LEMMA NothingInAll ==
  ASSUME NEW n \in Nat, NEW files \in [1..n -> Seq(Pairs)], \A i \in 1..n : files[i] = <<>>, NEW x
  PROVE  InAll(files, x) = 0
<1>. DEFINE U == [i \in 0..n |-> 0]
            c == CountsOf(files, x)
<1>1. Len(files) = n /\ n \in 0..n
  OBVIOUS
<1>2. c = [i \in 1..n |-> Count(files[i], x)]
  BY <1>1, Zenon DEF CountsOf
<1>3. \A i \in 1..n : c[i] = 0
  BY <1>2, CountInNothing
<1>4. c \in [1..n -> Nat]
  <2>1. c = [i \in 1..n |-> c[i]]
    BY <1>2
  <2>. HIDE DEF c
  <2>. QED
    BY <1>3, <2>1
<1>. HIDE DEF c
<1>5. Numbers!IsPartialSums(U, n, c)
  BY <1>3, <1>4 DEF Numbers!IsPartialSums
<1>6. U[n] = 0
  BY <1>1
<1>. HIDE DEF U
<1>7. SumTo(n, c) = U[n]
  BY <1>4, <1>5, SumIs
<1>. QED
  BY <1>1, <1>6, <1>7 DEF InAll, c

(* The merge leaves out nothing and writes nothing twice, and what it writes is in order. *)
LEMMA MergeFilesIs ==
  ASSUME NEW files \in Seq(Seq(Pairs)), \A i \in 1..Len(files) : Ascends(files[i]), NEW x
  PROVE  /\ MergeFiles(files) \in Seq(Pairs) /\ Ascends(MergeFiles(files))
         /\ Count(MergeFiles(files), x) = InAll(files, x)
<1>. DEFINE n == Len(files)
            m0 == [files |-> files, out |-> <<>>]
<1>1. n \in Nat /\ files \in [1..n -> Seq(Pairs)]
  OBVIOUS
<1>. HIDE DEF n
<1>2. PICK todo \in Nat : todo = Lengths(files) /\ todo = SumTo(n, LensOf(files))
  BY <1>1, LengthsIs
<1>16. PICK R : IsMerging(R, n, files, todo)
  BY <1>1, FilesAreMerged
<1>3. /\ R \in [0..todo -> MergeStates(n)]
      /\ R[0] = m0
      /\ \A i \in 1..todo : R[i] = MergeStep(R[i - 1])
      /\ Merging(files, todo) = R[todo]
  BY <1>16 DEF IsMerging
<1>4. m0.files = files /\ m0.out = <<>> /\ m0 \in MergeStates(n)
  BY <1>1 DEF MergeStates
<1>. HIDE DEF m0
<1>. DEFINE Empty(m) == \A j \in 1..n : m.files[j] = <<>>
            Good == {i \in 0..todo :
                       /\ InOrderSoFar(R[i])
                       /\ InAll(R[i].files, x) + Count(R[i].out, x) = InAll(files, x)
                       /\ Empty(R[i]) \/ Remaining(R[i]) + i <= todo}
<1>5. InAll(files, x) \in Nat /\ Len(files) = n
  BY <1>1, CountsOfShape
<1>6. 0 \in Good
  <2>1. 0 \in 0..todo
    BY <1>2
  <2>2. InOrderSoFar(m0)
    <3>1. \A i \in 1..n : Ascends(m0.files[i])
      BY <1>4 DEF n
    <3>2. DOMAIN m0.out = {}
      BY <1>4
    <3>. QED
      BY <1>4, <1>5, <3>1, <3>2 DEF InOrderSoFar, Ascends, MayPrecede
  <2>3. InAll(m0.files, x) + Count(m0.out, x) = InAll(files, x)
    BY <1>4, <1>5, CountInNothing
  <2>4. Remaining(m0) + 0 <= todo
    BY <1>2, <1>4, <1>5 DEF Remaining
  <2>. QED
    BY <1>3, <2>1, <2>2, <2>3, <2>4
<1>7. ASSUME NEW i \in 1..todo, i - 1 \in Good PROVE i \in Good
  <2>1. i \in 0..todo /\ i - 1 \in 0..todo
    BY <1>2
  <2>2. PICK m \in MergeStates(n) : m = R[i - 1]
    BY <1>3, <2>1
  <2>3. R[i] = MergeStep(m)
    BY <1>3, <2>2
  <2>4. /\ InOrderSoFar(m)
        /\ InAll(m.files, x) + Count(m.out, x) = InAll(files, x)
        /\ Empty(m) \/ Remaining(m) + (i - 1) <= todo
    BY <1>7, <2>2
  <2>. DEFINE k == MergeStep(m)
  <2>5. k \in MergeStates(n)
    BY <1>1, MergeStepKeeps
  <2>6. InOrderSoFar(k)
    BY <1>1, <2>4, MergeStepKeeps
  <2>7. InAll(k.files, x) + Count(k.out, x) = InAll(m.files, x) + Count(m.out, x)
    BY <1>1, MergeStepKeeps
  <2>8. IF \E j \in 1..n : m.files[j] # <<>> THEN Remaining(k) < Remaining(m) ELSE k = m
    BY <1>1, MergeStepKeeps
  <2>9. Remaining(k) \in Nat /\ Remaining(m) \in Nat
    BY <1>1, <2>5, MergeStateShape
  <2>. HIDE DEF k
  <2>10. Empty(k) \/ Remaining(k) + i <= todo
    <3>1. CASE Empty(m)
      BY <2>8, <3>1
    <3>2. CASE ~Empty(m)
      <4>1. Remaining(k) < Remaining(m)
        BY <2>8, <3>2
      <4>2. Remaining(m) + (i - 1) <= todo
        BY <2>4, <3>2, Zenon
      <4>3. i \in Nat
        BY <1>2
      <4>. HIDE DEF Empty
      <4>. QED
        BY <1>2, <2>9, <4>1, <4>2, <4>3
    <3>. QED
      BY <3>1, <3>2
  <2>11. R[i] = k
    BY <2>3 DEF k
  <2>. HIDE DEF Empty
  <2>. QED
    BY <2>1, <2>4, <2>6, <2>7, <2>10, <2>11
<1>8. \A i \in 0..todo : i \in Good
  <2>. HIDE DEF Good
  <2>. QED
    BY <1>2, <1>6, <1>7, UpTo
<1>9. PICK m \in MergeStates(n) : m = R[todo]
  BY <1>2, <1>3
<1>10. /\ InOrderSoFar(m)
       /\ InAll(m.files, x) + Count(m.out, x) = InAll(files, x)
       /\ Empty(m) \/ Remaining(m) + todo <= todo
  <2>1. todo \in 0..todo
    BY <1>2
  <2>2. todo \in Good
    BY <1>8, <2>1
  <2>. QED
    BY <1>9, <2>2
<1>11. Remaining(m) \in Nat /\ m.files \in [1..n -> Seq(Pairs)] /\ m.out \in Seq(Pairs)
  BY <1>1, MergeStateShape
<1>12. Empty(m)
  <2>1. SUFFICES ASSUME ~Empty(m) PROVE FALSE
    OBVIOUS
  <2>2. Remaining(MergeStep(m)) < Remaining(m)
    BY <1>1, <2>1, MergeStepKeeps
  <2>3. MergeStep(m) \in MergeStates(n)
    BY <1>1, MergeStepKeeps
  <2>4. Remaining(MergeStep(m)) \in Nat
    BY <1>1, <2>3, MergeStateShape
  <2>. QED
    BY <1>2, <1>10, <1>11, <2>1, <2>2, <2>4
<1>13. InAll(m.files, x) = 0
  BY <1>1, <1>11, <1>12, NothingInAll
<1>14. Count(m.out, x) \in Nat /\ Count(m.out, x) = InAll(files, x)
  <2>1. Count(m.out, x) \in Nat
    BY <1>11, CountIsSum
  <2>. QED
    BY <1>10, <1>13, <2>1
<1>15. MergeFiles(files) = m.out
  <2>1. MergeFiles(files) = Merging(files, todo).out
    BY <1>2, Zenon DEF MergeFiles, Merging
  <2>. QED
    BY <1>3, <1>9, <2>1
<1>. QED
  BY <1>10, <1>11, <1>14, <1>15 DEF InOrderSoFar

--------------------------------------------------------------------------------
(* The files of a partition while they are merged. *)

AreFiles(files) == files \in Seq(Seq(Pairs)) /\ \A i \in 1..Len(files) : Ascends(files[i])

LEMMA OneIsFiles ==
  ASSUME NEW f \in Seq(Pairs), Ascends(f)
  PROVE  AreFiles(<<f>>)
<1>1. <<f>> \in Seq(Seq(Pairs)) /\ Len(<<f>>) = 1 /\ <<f>>[1] = f
  OBVIOUS
<1>2. \A i \in 1..1 : i = 1
  OBVIOUS
<1>. QED
  BY <1>1, <1>2 DEF AreFiles

LEMMA AppendIsFiles ==
  ASSUME NEW files, AreFiles(files), NEW f \in Seq(Pairs), Ascends(f), NEW x
  PROVE  /\ AreFiles(Append(files, f)) /\ Append(files, f) # <<>>
         /\ InAll(Append(files, f), x) = InAll(files, x) + Count(f, x)
<1>. DEFINE n == Len(files)
            g == Append(files, f)
<1>1. files \in Seq(Seq(Pairs)) /\ n \in Nat /\ \A i \in 1..n : Ascends(files[i])
  BY DEF AreFiles
<1>2. /\ g \in Seq(Seq(Pairs)) /\ Len(g) = n + 1
      /\ \A i \in 1..n : g[i] = files[i]
      /\ g[n + 1] = f
  BY <1>1
<1>3. g = files \o <<f>>
  <2>1. PICK Y : Y = Seq(Pairs)
    OBVIOUS
  <2>2. files \in Seq(Y) /\ f \in Y
    BY <1>1, <2>1
  <2>. QED
    BY <2>2, AppendIsConcat
<1>. HIDE DEF g, n
<1>4. \A i \in 1..n + 1 : Ascends(g[i])
  <2>1. \A i \in 1..n + 1 : i \in 1..n \/ i = n + 1
    BY <1>1
  <2>. QED
    BY <1>1, <1>2, <2>1
<1>5. g # <<>>
  BY <1>1, <1>2
<1>6. <<f>> \in Seq(Seq(Pairs)) /\ InAll(<<f>>, x) = Count(f, x)
  BY InOneFile
<1>7. InAll(g, x) = InAll(files, x) + InAll(<<f>>, x)
  <2>1. PICK one \in Seq(Seq(Pairs)) : one = <<f>>
    BY <1>6
  <2>2. InAll(files \o one, x) = InAll(files, x) + InAll(one, x)
    BY <1>1, InAllJoins
  <2>. QED
    BY <1>3, <2>1, <2>2
<1>. QED
  BY <1>2, <1>4, <1>5, <1>6, <1>7 DEF AreFiles, g

(* A round of the merge: no record is lost or written twice, whether it is the last or not. *)
LEMMA MergeRoundKeeps ==
  ASSUME NEW files, AreFiles(files), NEW limit \in Nat, NEW x
  PROVE  /\ MergeRound(files, limit).out \in Seq(Pairs) /\ Ascends(MergeRound(files, limit).out)
         /\ IF MergeRound(files, limit).left = <<>>
            THEN Count(MergeRound(files, limit).out, x) = InAll(files, x)
            ELSE /\ AreFiles(MergeRound(files, limit).left)
                 /\ InAll(MergeRound(files, limit).left, x) = InAll(files, x)
<1>. DEFINE all == Len(files)
            n == IF Len(files) < limit THEN Len(files) ELSE limit
            a == SubSeq(files, 1, n)
            b == SubSeq(files, n + 1, all)
            merged == MergeFiles(a)
<1>1. files \in Seq(Seq(Pairs)) /\ all \in Nat /\ n \in 0..all /\ \A i \in 1..all : Ascends(files[i])
  BY DEF AreFiles
<1>2. /\ MergeRound(files, limit).left = IF n = all THEN <<>> ELSE Append(b, merged)
      /\ MergeRound(files, limit).out = merged
  BY DEF MergeRound
<1>. HIDE DEF n
<1>3. /\ a \in Seq(Seq(Pairs)) /\ Len(a) = n /\ \A i \in 1..n : a[i] = files[i]
  <2>1. \A i \in 1..n : files[i] \in Seq(Pairs)
    BY <1>1
  <2>2. /\ a \in Seq(Seq(Pairs)) /\ Len(a) = IF 1 <= n THEN n - 1 + 1 ELSE 0
        /\ \A i \in 1..n - 1 + 1 : a[i] = files[1 + i - 1]
    BY <1>1, <2>1, SubSeqProperties
  <2>3. n - 1 + 1 = n /\ \A i \in 1..n : 1 + i - 1 = i
    BY <1>1
  <2>. HIDE DEF a
  <2>. QED
    BY <1>1, <2>2, <2>3
<1>4. /\ b \in Seq(Seq(Pairs)) /\ Len(b) = all - n /\ \A i \in 1..all - n : b[i] = files[n + i]
  <2>1. \A i \in n + 1..all : files[i] \in Seq(Pairs)
    BY <1>1
  <2>2. /\ b \in Seq(Seq(Pairs)) /\ Len(b) = IF n + 1 <= all THEN all - (n + 1) + 1 ELSE 0
        /\ \A i \in 1..all - (n + 1) + 1 : b[i] = files[n + 1 + i - 1]
    BY <1>1, <2>1, SubSeqProperties
  <2>3. all - (n + 1) + 1 = all - n /\ \A i \in 1..all - n : n + 1 + i - 1 = n + i
    BY <1>1
  <2>4. (IF n + 1 <= all THEN all - (n + 1) + 1 ELSE 0) = all - n
    BY <1>1
  <2>. HIDE DEF b, all
  <2>5. \A i \in 1..all - n : b[i] = files[n + i]
    <3>1. SUFFICES ASSUME NEW i \in 1..all - n PROVE b[i] = files[n + i]
      OBVIOUS
    <3>2. b[i] = files[n + 1 + i - 1] /\ n + 1 + i - 1 = n + i
      BY <2>2, <2>3
    <3>. QED
      BY <3>2
  <2>. QED
    BY <2>2, <2>4, <2>5
<1>5. files = a \o b
  <2>1. PICK Y : Y = Seq(Pairs)
    OBVIOUS
  <2>2. files \in Seq(Y) /\ n \in 0..Len(files) /\ Len(files) \in Nat
    BY <1>1, <2>1
  <2>5. PICK m \in 1..Len(files) + 1 : m = 1
    BY <2>2
  <2>6. n \in m - 1..Len(files) /\ Len(files) \in n..Len(files)
    BY <2>2, <2>5
  <2>7. SubSeq(files, m, n) \o SubSeq(files, n + 1, Len(files)) = SubSeq(files, m, Len(files))
    BY <2>2, <2>6, ConcatAdjacentSubSeq
  <2>3. SubSeq(files, 1, n) \o SubSeq(files, n + 1, Len(files)) = SubSeq(files, 1, Len(files))
    BY <2>5, <2>7
  <2>4. SubSeq(files, 1, Len(files)) = files
    BY <2>2, SubSeqFull
  <2>. QED
    BY <2>3, <2>4
<1>. HIDE DEF a, b
<1>6. \A i \in 1..Len(a) : Ascends(a[i])
  <2>1. \A i \in 1..n : i \in 1..all
    BY <1>1
  <2>. QED
    BY <1>1, <1>3, <2>1
<1>7. AreFiles(b)
  <2>1. \A i \in 1..all - n : n + i \in 1..all
    BY <1>1
  <2>. QED
    BY <1>1, <1>4, <2>1 DEF AreFiles
<1>8. merged \in Seq(Pairs) /\ Ascends(merged)
  BY <1>3, <1>6, MergeFilesIs
<1>9. Count(merged, x) = InAll(a, x)
  BY <1>3, <1>6, MergeFilesIs
<1>. HIDE DEF merged
<1>10. InAll(files, x) = InAll(a, x) + InAll(b, x) /\ InAll(a, x) \in Nat /\ InAll(b, x) \in Nat
  BY <1>3, <1>4, <1>5, InAllJoins, CountsOfShape
<1>11. CASE n = all
  <2>1. InAll(b, x) = 0
    <3>1. \A i \in 1..0 : b[i] = <<>>
      OBVIOUS
    <3>2. PICK k \in Nat : k = 0
      OBVIOUS
    <3>3. b \in [1..k -> Seq(Pairs)] /\ \A i \in 1..k : b[i] = <<>>
      BY <1>1, <1>4, <1>11, <3>1, <3>2
    <3>. QED
      BY <3>3, NothingInAll
  <2>. QED
    BY <1>2, <1>8, <1>9, <1>10, <1>11, <2>1
<1>12. CASE n # all
  <2>1. AreFiles(Append(b, merged)) /\ Append(b, merged) # <<>>
    BY <1>7, <1>8, AppendIsFiles
  <2>2. InAll(Append(b, merged), x) = InAll(b, x) + Count(merged, x)
    BY <1>7, <1>8, AppendIsFiles
  <2>. QED
    BY <1>2, <1>8, <1>9, <1>10, <1>12, <2>1, <2>2
<1>. QED
  BY <1>11, <1>12

LEMMA TaskFile ==
  ASSUME NEW data, IsSeq(data), NEW p
  PROVE  /\ Ordered(Ordered(RecordsFor(data, p))) \in Seq(Pairs)
         /\ Ascends(Ordered(Ordered(RecordsFor(data, p))))
<1>1. PICK X : data \in Seq(X)
  BY DEF IsSeq
<1>2. PICK n \in Nat : data \in [1..n -> X]
  BY <1>1
<1>3. RecordsFor(data, p) \in Seq(Pairs)
  <2>1. n \in 0..n
    OBVIOUS
  <2>2. PICK R \in [0..n -> Seq(Pairs)] : IsTaking(R, n, data, p)
    BY <1>2, RecordsAreTaken
  <2>. QED
    BY <2>1, <2>2 DEF IsTaking
<1>. QED
  BY <1>3, OrderedAscends

(* what is left to merge of a partition: its files, or the one they became *)
LeftOf(p) == IF store[p].merging = <<>> THEN <<store[p].file>> ELSE store[p].merging

(* A task has characters of its file.  Fragments are files in order, and while they are merged
   so is all that is left of them, and it has each record as often as they have it. *)
MergeInv ==
  /\ phase = "map" => \A w \in Slots : At(w, "task") => IsSeq(thr[w].data)
  /\ phase = "map" => \A p \in Partitions : AreFiles(store[p].fragments)
  /\ phase = "shuffle" =>
       \A p \in Shuffled :
         /\ AreFiles(store[p].fragments) /\ AreFiles(LeftOf(p))
         /\ \A x \in Pairs : InAll(LeftOf(p), x) = InAll(store[p].fragments, x)

LEMMA MergeInit == Init => MergeInv
<1>. SUFFICES ASSUME Init PROVE MergeInv
  OBVIOUS
<1>1. phase = "map" /\ \A p \in Partitions : store[p] = NoEntry
  BY DEF Init
<1>2. \A w \in Slots : ~At(w, "task")
  BY DEF Init, At
<1>3. AreFiles(NoEntry.fragments)
  BY EmptyEntry DEF AreFiles
<1>. QED
  BY <1>1, <1>2, <1>3 DEF MergeInv

(* What a task reads is part of its file. *)
LEMMA TaskReads ==
  ASSUME PlaceInv, SourceShape, DividedInv, NEW f \in Files
  PROVE  IsSeq(SegmentOf(src, dir, f))
<1>. DEFINE o == src.offset[f]
            e == SegmentEnd(src, dir, f)
            X == Words \union {Newline}
<1>1. o \in LineEnds(f) /\ o <= Len(dir[f]) /\ o \in Nat
  BY LineEndsShape DEF DividedInv
<1>2. e \in LineEnds(f) /\ o <= e /\ e <= Len(dir[f]) /\ e \in Nat
  BY <1>1, SegmentBounds, LineEndsShape
<1>3. dir[f] \in Seq(X)
  BY InputShape
<1>. HIDE DEF o, e, X
<1>4. \A i \in o + 1..e : dir[f][i] \in X
  BY <1>1, <1>2, <1>3
<1>5. SubSeq(dir[f], o + 1, e) \in Seq(X)
  <2>1. o + 1 \in Int /\ e \in Int
    BY <1>1, <1>2
  <2>. QED
    BY <1>4, <2>1, SubSeqProperties
<1>. QED
  BY <1>5, Zenon DEF SegmentOf, IsSeq, o, e

LEMMA MergeNext ==
  ASSUME PlaceInv, SourceShape, DividedInv, StoreShape, MergeInv, PlaceInv', [Next]_vars
  PROVE  MergeInv'
<1>0. Shuffled' = Shuffled /\ Shuffled \subseteq Partitions
  BY InputStays DEF Shuffled
<1>1. ASSUME phase' = phase, store' = store,
             phase = "map" => \A w \in Slots : thr'[w].at = "task" =>
                                thr'[w] = thr[w] \/ IsSeq(thr'[w].data)
      PROVE  MergeInv'
  <2>1. phase' = "map" => \A w \in Slots : thr'[w].at = "task" => IsSeq(thr'[w].data)
    BY <1>1 DEF MergeInv, At
  <2>2. \A p \in Partitions : LeftOf(p)' = LeftOf(p)
    BY <1>1 DEF LeftOf
  <2>. QED
    BY <1>0, <1>1, <2>1, <2>2 DEF MergeInv, At
<1>2. ASSUME NEW w \in Slots, NextKey(w) PROVE MergeInv'
  BY <1>1, <1>2, NextKeyMoves DEF NextKey, Only
<1>3. ASSUME NEW w \in Slots, GetData(w) PROVE MergeInv'
  <2>1. phase = "map" /\ store' = store /\ thr[w].key \in Files
    BY <1>3 DEF GetData, Aborts, PlaceInv, At
  <2>2. IsSeq(SegmentOf(src, dir, thr[w].key))
    BY <2>1, TaskReads
  <2>3. CASE phase' = "aborted"
    BY <2>3 DEF MergeInv
  <2>4. CASE phase' # "aborted"
    <3>1. /\ phase' = phase /\ Only(w)
          /\ thr'[w].at = "task" => thr'[w].data = SegmentOf(src, dir, thr[w].key)
      BY <1>3, <2>4, GetDataMoves
    <3>. QED
      BY <1>1, <2>1, <2>2, <3>1 DEF Only
  <2>. QED
    BY <2>3, <2>4
<1>4. ASSUME NEW w \in Slots, MapTask(w) PROVE MergeInv'
  <2>. DEFINE data == thr[w].data
              file(p) == Ordered(Ordered(RecordsFor(data, p)))
  <2>1. Only(w) /\ phase = "map" /\ phase' = phase /\ At(w, "task") /\ thr'[w].at = "key"
    BY <1>4, MapTaskMoves
  <2>2. IsSeq(data)
    BY <2>1 DEF MergeInv
  <2>3. \A p \in Partitions :
          store'[p] = IF p \notin Filled(data) THEN store[p] ELSE Entry(Append(store[p].fragments, file(p)))
    BY <1>4 DEF MapTask, Merged
  <2>4. \A p \in Partitions : file(p) \in Seq(Pairs) /\ Ascends(file(p))
    BY <2>2, TaskFile
  <2>. HIDE DEF data, file
  <2>5. ASSUME NEW p \in Partitions PROVE AreFiles(store'[p].fragments)
    <3>1. AreFiles(store[p].fragments)
      BY <2>1 DEF MergeInv
    <3>2. CASE p \notin Filled(data)
      BY <2>3, <3>1, <3>2
    <3>3. CASE p \in Filled(data)
      <4>1. PICK old : old = store[p].fragments
        OBVIOUS
      <4>2. PICK f \in Seq(Pairs) : f = file(p) /\ Ascends(f)
        BY <2>4
      <4>3. AreFiles(Append(old, f))
        BY <3>1, <4>1, <4>2, AppendIsFiles
      <4>4. store'[p] = Entry(Append(old, f))
        BY <2>3, <3>3, <4>1, <4>2
      <4>5. Entry(Append(old, f)).fragments = Append(old, f)
        BY DEF Entry
      <4>. QED
        BY <4>3, <4>4, <4>5
    <3>. QED
      BY <3>2, <3>3
  <2>6. \A v \in Slots : thr'[v].at = "task" => IsSeq(thr'[v].data)
    BY <2>1 DEF MergeInv, Only, At
  <2>. QED
    BY <2>1, <2>5, <2>6 DEF MergeInv, At
<1>5. ASSUME NEW w \in Slots, MapThrows(w) \/ CombineFails(w) PROVE MergeInv'
  <2>1. Only(w) /\ phase' = phase /\ thr'[w].at # "task" /\ store' = store
    BY <1>5, MapThrowsMoves, CombineFailsMoves DEF MapThrows, CombineFails
  <2>. QED
    BY <1>1, <2>1 DEF Only
<1>6. CASE JoinMaps
  <2>1. CASE phase' = "aborted"
    BY <2>1 DEF MergeInv
  <2>2. CASE phase' # "aborted"
    <3>1. phase = "map" /\ phase' = "shuffle"
      BY <1>6, <2>2 DEF JoinMaps, Aborts
    <3>2. ASSUME NEW p \in Shuffled
          PROVE  /\ store'[p].fragments = store[p].fragments /\ LeftOf(p)' = store[p].fragments
                 /\ AreFiles(store[p].fragments)
      <4>1. store'[p].fragments = store[p].fragments /\ store'[p].merging = store[p].fragments
            /\ store[p].fragments # <<>>
        BY <1>0, <1>6, <2>2, JoinMapsStore DEF HasEntry
      <4>2. AreFiles(store[p].fragments)
        BY <1>0, <3>1 DEF MergeInv
      <4>. QED
        BY <4>1, <4>2 DEF LeftOf
    <3>. QED
      BY <1>0, <3>1, <3>2 DEF MergeInv
  <2>. QED
    BY <2>1, <2>2
<1>7. ASSUME NEW p \in Partitions, Shuffle(p) PROVE MergeInv'
  <2>1. phase = "shuffle" /\ phase' = "shuffle"
    BY <1>7 DEF Shuffle, Unmerged
  <2>6. PICK limit \in Nat : /\ store'[p].merging = MergeRound(store[p].merging, limit).left
                             /\ store'[p].file = MergeRound(store[p].merging, limit).out
    BY <1>7, ShuffleStore
  <2>. DEFINE round == MergeRound(store[p].merging, limit)
  <2>2. /\ store[p].merging # <<>>
        /\ \A q \in Partitions : q # p => store'[q] = store[q]
        /\ store'[p].fragments = store[p].fragments
        /\ store'[p].merging = round.left /\ store'[p].file = round.out
    BY <1>7, <2>6, ShuffleStore
  <2>3. ASSUME p \in Shuffled
        PROVE  /\ AreFiles(store[p].fragments) /\ AreFiles(LeftOf(p)')
               /\ \A x \in Pairs : InAll(LeftOf(p)', x) = InAll(store[p].fragments, x)
    <3>1. PICK files : files = store[p].merging
      OBVIOUS
    <3>2. /\ AreFiles(store[p].fragments) /\ AreFiles(files)
          /\ \A x \in Pairs : InAll(files, x) = InAll(store[p].fragments, x)
      BY <2>1, <2>2, <2>3, <3>1 DEF MergeInv, LeftOf
    <3>3. LeftOf(p)' = IF round.left = <<>> THEN <<round.out>> ELSE round.left
      BY <2>2 DEF LeftOf
    <3>4. round = MergeRound(files, limit)
      BY <3>1
    <3>5. limit \in Nat
      BY <2>6
    <3>. HIDE DEF round
    <3>6. round.out \in Seq(Pairs) /\ Ascends(round.out)
      BY <3>2, <3>4, <3>5, MergeRoundKeeps
    <3>7. \A x \in Pairs : IF round.left = <<>> THEN Count(round.out, x) = InAll(files, x)
                           ELSE AreFiles(round.left) /\ InAll(round.left, x) = InAll(files, x)
      BY <3>2, <3>4, <3>5, MergeRoundKeeps
    <3>8. CASE round.left = <<>>
      <4>1. AreFiles(<<round.out>>)
        BY <3>6, OneIsFiles
      <4>2. \A x \in Pairs : InAll(<<round.out>>, x) = Count(round.out, x)
        BY <3>6, InOneFile
      <4>3. LeftOf(p)' = <<round.out>>
        BY <3>3, <3>8
      <4>. QED
        BY <3>2, <3>7, <3>8, <4>1, <4>2, <4>3
    <3>9. CASE round.left # <<>>
      <4>1. <<0, 0>> \in Pairs
        BY DEF Pairs
      <4>. QED
        BY <3>2, <3>3, <3>7, <3>9, <4>1
    <3>. QED
      BY <3>8, <3>9
  <2>4. ASSUME NEW q \in Shuffled, q # p
        PROVE  store'[q].fragments = store[q].fragments /\ LeftOf(q)' = LeftOf(q)
    BY <1>0, <2>2, <2>4 DEF LeftOf
  <2>. HIDE DEF round
  <2>5. ASSUME NEW q \in Shuffled
        PROVE  /\ AreFiles(store'[q].fragments) /\ AreFiles(LeftOf(q)')
               /\ \A x \in Pairs : InAll(LeftOf(q)', x) = InAll(store'[q].fragments, x)
    <3>1. CASE q = p
      BY <2>2, <2>3, <3>1
    <3>2. CASE q # p
      BY <2>1, <2>4, <3>2 DEF MergeInv
    <3>. QED
      BY <3>1, <3>2
  <2>. QED
    BY <1>0, <2>1, <2>5 DEF MergeInv
<1>8. CASE JoinShuffles \/ JoinReducers
  BY <1>8 DEF JoinShuffles, JoinReducers, MergeInv
<1>9. ASSUME NEW w \in Slots, ReduceStep(w) PROVE MergeInv'
  <2>1. phase' = "reduce" \/ phase' = "aborted"
    BY <1>9 DEF ReduceStep, Claim, Find, Erase, Crash, Reduce, ReduceThrows, Reduces, Aborts
  <2>. QED
    BY <2>1 DEF MergeInv
<1>10. CASE UNCHANGED vars
  BY <1>1, <1>10 DEF vars
<1>11. ASSUME NEW w \in Slots, GetNothing(w) PROVE MergeInv'
  <2>1. Only(w) /\ phase' = phase /\ thr'[w].data = <<>> /\ store' = store
    BY <1>11, GetNothingMoves DEF GetNothing
  <2>2. <<>> \in Seq({}) /\ IsSeq(<<>>)
    BY DEF IsSeq
  <2>3. IsSeq(thr'[w].data)
    BY <2>1, <2>2
  <2>4. \A v \in Slots : thr'[v] = thr[v] \/ IsSeq(thr'[v].data)
    BY <2>1, <2>3 DEF Only
  <2>. QED
    BY <1>1, <2>1, <2>4
<1>12. ASSUME NEW w \in Slots, Breaks(w) PROVE MergeInv'
  BY <1>12, BreaksMoves DEF MergeInv
<1>. QED
  BY <1>2, <1>3, <1>4, <1>5, <1>6, <1>7, <1>8, <1>9, <1>10, <1>11, <1>12
     DEF Next, Work, MapStep, Breaks, Over

(* While the fragments of a partition are merged, the files that are still to be merged are in
   order and have every record as often as the fragments have it; so has the one file in the
   end: no round of the merge loses a record or takes one twice (file_merger, local_disk.hpp). *)
THEOREM MergesAllHolds == Spec => []MergesAll
<1>. DEFINE Inv == PlaceInv /\ SourceShape /\ DividedInv /\ StoreShape /\ MergeInv
<1>1. Init => Inv
  BY PlaceInit, SourceInit, StoreInit, MergeInit
<1>2. Inv /\ [Next]_vars => Inv'
  BY PlaceNext, SourceNext, StoreNext, MergeNext
<1>3. Inv => MergesAll
  <2>. SUFFICES ASSUME Inv, phase = "shuffle", NEW p \in Shuffled
                PROVE  /\ \A i \in DOMAIN LeftOf(p) : InOrder(LeftOf(p)[i])
                       /\ SameRecords(FlattenSeq(LeftOf(p)), FlattenSeq(store[p].fragments))
    BY DEF MergesAll, LeftOf
  <2>1. PICK left : left = LeftOf(p)
    OBVIOUS
  <2>2. PICK all : all = store[p].fragments
    OBVIOUS
  <2>3. AreFiles(left) /\ AreFiles(all) /\ \A x \in Pairs : InAll(left, x) = InAll(all, x)
    BY <2>1, <2>2 DEF MergeInv
  <2>4. ASSUME NEW i \in DOMAIN left PROVE InOrder(left[i])
    <3>1. left \in Seq(Seq(Pairs)) /\ \A j \in 1..Len(left) : Ascends(left[j])
      BY <2>3 DEF AreFiles
    <3>2. i \in 1..Len(left) /\ left[i] \in Seq(Pairs)
      BY <3>1
    <3>. QED
      BY <3>1, <3>2, SortedIsInOrder
  <2>. DEFINE a == FlattenSeq(left)
              b == FlattenSeq(all)
  <2>5. a \in Seq(Pairs) /\ b \in Seq(Pairs)
    BY <2>3, CountInJoined DEF AreFiles
  <2>6. \A x \in Pairs : Count(a, x) = InAll(left, x) /\ Count(b, x) = InAll(all, x)
    BY <2>3, CountInJoined DEF AreFiles
  <2>. HIDE DEF a, b
  <2>7. Range(a) \union Range(b) \subseteq Pairs
    BY <2>5 DEF Range
  <2>8. SameRecords(a, b)
    BY <2>3, <2>6, <2>7 DEF SameRecords
  <2>. QED
    BY <2>1, <2>2, <2>4, <2>8 DEF a, b
<1>. QED
  BY <1>1, <1>2, <1>3, PTL DEF Spec

--------------------------------------------------------------------------------
(* What the reduce tasks write: the words with how often they occur. *)

(* a sum whose terms are all 0 but one *)
IsPoint(n, f, w) == f \in [1..n -> Nat] /\ w \in 1..n /\ \A i \in 1..n : i # w => f[i] = 0

LEMMA SumOfPoint ==
  ASSUME NEW n \in Nat, NEW f, NEW w, IsPoint(n, f, w)
  PROVE  SumTo(n, f) = f[w]
<1>. USE DEF IsPoint
<1>. DEFINE U == [i \in 0..n |-> IF i < w THEN 0 ELSE f[w]]
<1>1. Numbers!IsPartialSums(U, n, f)
  <2>1. U \in [0..n -> Nat] /\ U[0] = 0
    OBVIOUS
  <2>2. ASSUME NEW i \in 1..n PROVE U[i] = U[i - 1] + f[i]
    <3>1. i - 1 \in 0..n /\ i \in 0..n /\ f[w] \in Nat /\ f[i] \in Nat
      OBVIOUS
    <3>2. U[i] = (IF i < w THEN 0 ELSE f[w]) /\ U[i - 1] = (IF i - 1 < w THEN 0 ELSE f[w])
      BY <3>1
    <3>3. CASE i = w
      BY <3>1, <3>2, <3>3
    <3>4. CASE i # w
      <4>1. f[i] = 0
        BY <3>4
      <4>. QED
        BY <3>1, <3>2, <3>4, <4>1
    <3>. QED
      BY <3>3, <3>4
  <2>. QED
    BY <2>1, <2>2 DEF Numbers!IsPartialSums
<1>2. n \in 0..n /\ ~(n < w)
  OBVIOUS
<1>3. U[n] = f[w]
  BY <1>2
<1>. HIDE DEF U
<1>. QED
  BY <1>1, <1>3, SumIs

IsZero(n, f) == f \in [1..n -> Nat] /\ \A i \in 1..n : f[i] = 0

LEMMA SumOfZeros ==
  ASSUME NEW n \in Nat, NEW f, IsZero(n, f)
  PROVE  SumTo(n, f) = 0
<1>. USE DEF IsZero
<1>. DEFINE U == [i \in 0..n |-> 0]
<1>1. Numbers!IsPartialSums(U, n, f)
  BY DEF Numbers!IsPartialSums
<1>2. U[n] = 0
  OBVIOUS
<1>. HIDE DEF U
<1>. QED
  BY <1>1, <1>2, SumIs

(* a sum changes as its one term does *)
DifferOnly(n, f, g, w) ==
  /\ f \in [1..n -> Nat] /\ g \in [1..n -> Nat] /\ w \in 1..n
  /\ \A i \in 1..n : i # w => g[i] = f[i]

LEMMA SumChanges ==
  ASSUME NEW n \in Nat, NEW f, NEW g, NEW w, DifferOnly(n, f, g, w)
  PROVE  SumTo(n, g) + f[w] = SumTo(n, f) + g[w]
<1>. USE DEF DifferOnly
<1>. DEFINE rest == [i \in 1..n |-> IF i = w THEN 0 ELSE f[i]]
<1>1. rest \in [1..n -> Nat] /\ \A i \in 1..n : rest[i] = IF i = w THEN 0 ELSE f[i]
  OBVIOUS
<1>. HIDE DEF rest
<1>2. ASSUME NEW h \in [1..n -> Nat], \A i \in 1..n : i # w => h[i] = f[i]
      PROVE  SumTo(n, h) = SumTo(n, rest) + h[w]
  <2>. DEFINE point == [i \in 1..n |-> IF i = w THEN h[w] ELSE 0]
  <2>1. point \in [1..n -> Nat] /\ \A i \in 1..n : point[i] = IF i = w THEN h[w] ELSE 0
    OBVIOUS
  <2>. HIDE DEF point
  <2>2. SumTo(n, point) = point[w]
    <3>1. \A i \in 1..n : i # w => point[i] = 0
      BY <2>1
    <3>2. n \in Nat /\ w \in 1..n /\ point \in [1..n -> Nat]
      BY <2>1
    <3>3. IsPoint(n, point, w)
      BY <3>1, <3>2 DEF IsPoint
    <3>. QED
      BY <3>2, <3>3, SumOfPoint
  <2>3. ASSUME NEW i \in 1..n PROVE h[i] = rest[i] + point[i]
    <3>1. CASE i = w
      <4>1. rest[i] = 0 /\ point[i] = h[i]
        BY <1>1, <2>1, <3>1
      <4>2. h[i] \in Nat
        BY <1>2
      <4>. QED
        BY <4>1, <4>2
    <3>2. CASE i # w
      <4>1. rest[i] = f[i] /\ point[i] = 0 /\ h[i] = f[i]
        BY <1>1, <1>2, <2>1, <3>2
      <4>2. h[i] \in Nat
        BY <1>2
      <4>. QED
        BY <4>1, <4>2
    <3>. QED
      BY <3>1, <3>2
  <2>4. AddsTo(n, rest, point, h)
    BY <1>1, <2>1, <2>3 DEF AddsTo
  <2>. QED
    BY <2>1, <2>2, <2>4, SumAdds
<1>3. SumTo(n, f) = SumTo(n, rest) + f[w] /\ SumTo(n, g) = SumTo(n, rest) + g[w]
  BY <1>2
<1>4. SumTo(n, rest) \in Nat /\ f[w] \in Nat /\ g[w] \in Nat
  BY <1>1, SumIsNumber
<1>. QED
  BY <1>3, <1>4

(* a sum of terms that are at most those of another *)
NoLarger(n, f, g) ==
  f \in [1..n -> Nat] /\ g \in [1..n -> Nat] /\ \A i \in 1..n : f[i] <= g[i]

LEMMA SumIsLess ==
  ASSUME NEW n \in Nat, NEW f, NEW g, NoLarger(n, f, g)
  PROVE  SumTo(n, f) <= SumTo(n, g)
<1>. USE DEF NoLarger
<1>. DEFINE d == [i \in 1..n |-> g[i] - f[i]]
<1>1. d \in [1..n -> Nat] /\ \A i \in 1..n : g[i] = f[i] + d[i]
  OBVIOUS
<1>. HIDE DEF d
<1>2. SumTo(n, g) = SumTo(n, f) + SumTo(n, d)
  BY <1>1, SumAdds DEF AddsTo
<1>3. SumTo(n, d) \in Nat /\ SumTo(n, f) \in Nat
  BY <1>1, SumIsNumber
<1>. QED
  BY <1>2, <1>3

(* SumOf adds up the values. *)
LEMMA ValuesAreSummed ==
  ASSUME NEW n \in Nat, NEW values \in [1..n -> Nat]
  PROVE  \E R \in [0..n -> Nat] :
           /\ R[0] = 0
           /\ \A i \in 1..n : R[i] = R[i - 1] + values[i]
           /\ SumOf(values) = R[n]
<1>. DEFINE S == 1..n
            Body(W) == [s \in SUBSET S |-> IF s = {} THEN 0 ELSE W[s \ {Max(s)}] + values[Max(s)]]
            op == [q \in (Nat) \X (Nat) |-> q[2] + q[1]]
            G == CHOOSE U : U = Body(U)
<1>0. n \in Nat /\ values \in [S -> Nat] /\ 0 \in Nat
  OBVIOUS
<1>1. op \in [(Nat) \X (Nat) -> Nat] /\ \A v \in Nat, y \in Nat : op[<<v, y>>] = y + v
  <2>1. \A v \in Nat, y \in Nat : y + v \in Nat
    OBVIOUS
  <2>2. \A q \in (Nat) \X (Nat) : q[1] \in Nat /\ q[2] \in Nat
    OBVIOUS
  <2>3. \A q \in (Nat) \X (Nat) : q[2] + q[1] \in Nat
    BY <2>1, <2>2
  <2>. QED
    BY <2>3
<1>2. PICK W : FoldedBy(W, n, Nat, 0, op, values)
  <2>. HIDE DEF op
  <2>. QED
    BY <1>0, <1>1, FoldOfPositions
<1>. HIDE DEF op
<1>3. \A s \in SUBSET S : W[s] = IF s = {} THEN 0 ELSE W[s \ {Max(s)}] + values[Max(s)]
  <2>. SUFFICES ASSUME NEW s \in SUBSET S, s # {}
                PROVE  W[s] = W[s \ {Max(s)}] + values[Max(s)]
    BY <1>2 DEF FoldedBy
  <2>1. Max(s) \in S /\ values[Max(s)] \in Nat
    BY <1>0, LastIsIn
  <2>2. W[s \ {Max(s)}] \in Nat
    BY <1>2 DEF FoldedBy
  <2>3. W[s] = op[<<values[Max(s)], W[s \ {Max(s)}]>>]
    BY <1>2 DEF FoldedBy
  <2>. QED
    BY <1>1, <2>1, <2>2, <2>3
<1>4. W = Body(W)
  <2>1. W = [s \in SUBSET S |-> W[s]]
    BY <1>2 DEF FoldedBy
  <2>. QED
    BY <1>3, <2>1, Zenon
<1>5. SumOf(values) = G[S]
  <2>1. DOMAIN values = S
    BY <1>0
  <2>2. SumOf(values) = (CHOOSE iter : iter = [s \in SUBSET DOMAIN values |->
           IF s = {} THEN 0 ELSE iter[s \ {Max(s)}] + values[Max(s)]])[DOMAIN values]
    BY Zenon DEF SumOf, FoldLeft, MapThenFoldSet
  <2>. QED
    BY <2>1, <2>2, Zenon
<1>6. G = Body(G)
  <2>. HIDE DEF Body
  <2>1. G = CHOOSE U : U = Body(U)
    OBVIOUS
  <2>. QED
    BY <1>4, <2>1, Zenon
<1>. HIDE DEF G
<1>7. G[{}] = 0 /\ \A s \in SUBSET S : s # {} => G[s] = G[s \ {Max(s)}] + values[Max(s)]
  BY <1>6
<1>. DEFINE R == [i \in 0..n |-> G[1..i]]
<1>8. \A i \in 0..n : R[i] = G[1..i] /\ 1..i \in SUBSET S
  BY <1>0
<1>9. R[0] = 0
  <2>1. 0 \in 0..n /\ 1..0 = {}
    BY <1>0
  <2>. QED
    BY <1>7, <1>8, <2>1
<1>10. ASSUME NEW i \in 1..n PROVE R[i] = R[i - 1] + values[i]
  <2>1. i \in Nat /\ i # 0 /\ i \in 0..n /\ i - 1 \in 0..n
    BY <1>0
  <2>2. Max(1..i) = i /\ (1..i) \ {i} = 1..i - 1 /\ 1..i # {}
    BY <2>1, LastOfFirst
  <2>3. R[i] = G[1..i] /\ 1..i \in SUBSET S /\ R[i - 1] = G[1..i - 1]
    BY <1>8, <2>1
  <2>. HIDE DEF R
  <2>4. G[1..i] = G[(1..i) \ {Max(1..i)}] + values[Max(1..i)]
    BY <1>7, <2>2, <2>3, Zenon
  <2>. QED
    BY <2>2, <2>3, <2>4
<1>11. \A i \in 0..n : i \in {k \in 0..n : R[k] \in Nat}
  <2>. DEFINE Good == {k \in 0..n : R[k] \in Nat}
  <2>1. 0 \in Good
    <3>1. 0 \in 0..n
      BY <1>0
    <3>2. R[0] \in Nat
      BY <1>0, <1>9, Zenon
    <3>. HIDE DEF R
    <3>. QED
      BY <3>1, <3>2
  <2>2. ASSUME NEW i \in 1..n, i - 1 \in Good PROVE i \in Good
    <3>1. R[i - 1] \in Nat /\ values[i] \in Nat /\ i \in 0..n
      BY <1>0, <2>2
    <3>. HIDE DEF R
    <3>2. R[i - 1] + values[i] \in Nat
      BY <3>1
    <3>. QED
      BY <1>10, <3>1, <3>2
  <2>. HIDE DEF Good
  <2>3. \A i \in 0..n : i \in Good
    BY <1>0, <2>1, <2>2, UpTo
  <2>. QED
    BY <2>3 DEF Good
<1>12. R \in [0..n -> Nat]
  <2>1. R = [i \in 0..n |-> R[i]]
    BY <1>8
  <2>. HIDE DEF R
  <2>. QED
    BY <1>11, <2>1
<1>13. SumOf(values) = R[n]
  <2>1. n \in 0..n
    BY <1>0
  <2>. QED
    BY <1>5, <1>8, <2>1
<1>. HIDE DEF R
<1>. QED
  BY <1>9, <1>10, <1>12, <1>13

LEMMA SumOfIs ==
  ASSUME NEW n \in Nat, NEW values \in [1..n -> Nat]
  PROVE  SumOf(values) = SumTo(n, values) /\ SumOf(values) \in Nat
<1>1. PICK R \in [0..n -> Nat] :
           /\ R[0] = 0
           /\ \A i \in 1..n : R[i] = R[i - 1] + values[i]
           /\ SumOf(values) = R[n]
  BY ValuesAreSummed
<1>2. Numbers!IsPartialSums(R, n, values)
  BY <1>1 DEF Numbers!IsPartialSums
<1>3. SumTo(n, values) = R[n] /\ SumTo(n, values) \in Nat
  BY <1>2, SumIs
<1>. QED
  BY <1>1, <1>3

(* the values of a word: ones, as often as it occurs *)
LEMMA SumOfSingles ==
  ASSUME NEW values \in Seq({1})
  PROVE  SumOf(values) = Len(values)
<1>1. PICK n \in Nat : n = Len(values) /\ values \in [1..n -> Nat] /\ \A i \in 1..n : values[i] = 1
  OBVIOUS
<1>2. values = Ones(n, 1..n)
  <2>1. values = [i \in 1..n |-> values[i]]
    BY <1>1
  <2>. QED
    BY <1>1, <2>1 DEF Ones
<1>3. SumTo(n, Ones(n, 1..n)) = Cardinality(1..n)
  BY SumOfOnes
<1>4. Cardinality(1..n) = n
  BY FS_Interval
<1>. QED
  BY <1>1, <1>2, <1>3, <1>4, SumOfIs

(* How often the file of a task has a record. *)

LEMMA CountOfNone ==
  ASSUME NEW X, NEW f \in Seq(X), NEW x, x \notin Range(f)
  PROVE  Count(f, x) = 0
<1>1. {i \in DOMAIN f : f[i] = x} = {}
  BY DEF Range
<1>. QED
  BY <1>1, FS_EmptySet DEF Count

LEMMA CountOfAppend ==
  ASSUME NEW X, NEW f \in Seq(X), NEW r \in X, NEW x
  PROVE  Count(Append(f, r), x) = Count(f, x) + IF x = r THEN 1 ELSE 0
<1>1. Append(f, r) = f \o Times(r, 1)
  BY DEF Times
<1>2. Times(r, 1) \in Seq(X) /\ Count(Times(r, 1), x) = IF x = r THEN 1 ELSE 0
  BY CountInTimes
<1>. QED
  BY <1>1, <1>2, CountsJoin

LEMMA OrderedCounts ==
  ASSUME NEW file \in Seq(Pairs), NEW x
  PROVE  Count(Ordered(file), x) = Count(file, x)
<1>. DEFINE S == Range(file)
            n == Cardinality(S)
            kinds == Ranked(S)
            parts == [i \in DOMAIN kinds |-> Times(kinds[i], Count(file, kinds[i]))]
<1>1. S \in SUBSET Pairs /\ IsFiniteSet(S)
  <2>1. file \in Surjection(DOMAIN file, S)
    BY DEF Range, Surjection
  <2>2. IsFiniteSet(DOMAIN file)
    BY FS_Interval
  <2>3. S \in SUBSET Pairs
    BY DEF Range
  <2>. HIDE DEF S
  <2>. QED
    BY <2>1, <2>2, <2>3, FS_Surjection
<1>0. x \notin S => Count(file, x) = 0
  BY CountOfNone
<1>. HIDE DEF S
<1>2. /\ n \in Nat /\ kinds \in [1..n -> S]
      /\ \A i, j \in 1..n : kinds[i] = kinds[j] => i = j
      /\ \A y \in S : \E i \in 1..n : kinds[i] = y
  BY <1>1, RankedIs
<1>3. Ordered(file) = FlattenSeq(parts)
  BY DEF Ordered, S
<1>4. DOMAIN kinds = 1..n /\ \A i \in 1..n : kinds[i] \in Pairs
  BY <1>1, <1>2
<1>. HIDE DEF kinds, n
<1>5. \A i \in 1..n : /\ parts[i] \in Seq(Pairs)
                      /\ Count(parts[i], x) = IF x = kinds[i] THEN Count(file, x) ELSE 0
  <2>1. SUFFICES ASSUME NEW i \in 1..n
                 PROVE  /\ parts[i] \in Seq(Pairs)
                        /\ Count(parts[i], x) = IF x = kinds[i] THEN Count(file, x) ELSE 0
    OBVIOUS
  <2>2. PICK r \in Pairs : r = kinds[i]
    BY <1>4
  <2>3. PICK m \in Nat : m = Count(file, r)
    BY CountIsSum
  <2>4. Times(r, m) \in Seq(Pairs) /\ Count(Times(r, m), x) = IF x = r THEN m ELSE 0
    BY CountInTimes
  <2>6. parts[i] = Times(r, m)
    BY <1>4, <2>2, <2>3
  <2>. QED
    BY <2>2, <2>3, <2>4, <2>6
<1>6. parts \in [1..n -> Seq(Pairs)]
  <2>1. parts = [i \in 1..n |-> parts[i]]
    BY <1>4
  <2>. HIDE DEF parts
  <2>. QED
    BY <1>5, <2>1
<1>. HIDE DEF parts
<1>7. parts \in Seq(Seq(Pairs)) /\ Len(parts) = n
  BY <1>2, <1>6
<1>8. Count(FlattenSeq(parts), x) = InAll(parts, x)
  BY <1>7, CountInJoined
<1>. DEFINE c == CountsOf(parts, x)
<1>9. c \in [1..n -> Nat] /\ \A i \in 1..n : c[i] = IF x = kinds[i] THEN Count(file, x) ELSE 0
  <2>1. c \in [1..n -> Nat]
    BY <1>7, CountsOfShape
  <2>2. \A i \in 1..n : c[i] = Count(parts[i], x)
    BY <1>7 DEF CountsOf
  <2>. HIDE DEF c
  <2>. QED
    BY <1>5, <2>1, <2>2
<1>10. InAll(parts, x) = SumTo(n, c)
  BY <1>7 DEF InAll
<1>. HIDE DEF c
<1>11. CASE x \in S
  <2>1. PICK i \in 1..n : kinds[i] = x
    BY <1>2, <1>11
  <2>2. \A j \in 1..n : j # i => c[j] = 0
    BY <1>2, <1>9, <2>1
  <2>3. IsPoint(n, c, i)
    BY <1>9, <2>2 DEF IsPoint
  <2>4. SumTo(n, c) = c[i]
    BY <1>2, <2>3, SumOfPoint
  <2>5. c[i] = Count(file, x)
    BY <1>9, <2>1
  <2>. QED
    BY <1>3, <1>8, <1>10, <2>4, <2>5
<1>12. CASE x \notin S
  <2>1. IsZero(n, c)
    BY <1>2, <1>9, <1>12 DEF IsZero
  <2>2. SumTo(n, c) = 0
    BY <1>2, <2>1, SumOfZeros
  <2>. QED
    BY <1>0, <1>3, <1>8, <1>10, <1>12, <2>2
<1>. QED
  BY <1>11, <1>12

(* the records of the words of a partition *)
WordRecords(p) == {x \in Pairs : x[1] \in Words /\ Part[x[1]] = p /\ x[2] = 1}

LEMMA RecordsCount ==
  ASSUME NEW X, NEW data \in Seq(X), NEW p, NEW x \in Pairs
  PROVE  /\ RecordsFor(data, p) \in Seq(Pairs)
         /\ Count(RecordsFor(data, p), x) = IF x \in WordRecords(p) THEN Count(data, x[1]) ELSE 0
<1>1. PICK n \in Nat : n = Len(data) /\ data \in [1..n -> X] /\ DOMAIN data = 1..n
  OBVIOUS
<1>2. PICK R \in [0..n -> Seq(Pairs)] :
        /\ R[0] = <<>>
        /\ \A i \in 1..n : R[i] = (IF data[i] \in Words /\ Part[data[i]] = p
                                   THEN Append(R[i - 1], <<data[i], 1>>) ELSE R[i - 1])
        /\ RecordsFor(data, p) = R[n]
  <2>1. PICK Q \in [0..n -> Seq(Pairs)] : IsTaking(Q, n, data, p)
    BY <1>1, RecordsAreTaken
  <2>. QED
    BY <2>1 DEF IsTaking
<1>. DEFINE T == IF x \in WordRecords(p) THEN Places(data, x[1]) ELSE {}
            ones == Ones(n, T)
            U == [i \in 0..n |-> Count(R[i], x)]
<1>3. T \in SUBSET (1..n)
  BY <1>1 DEF Places
<1>4. \A i \in 0..n : R[i] \in Seq(Pairs) /\ U[i] = Count(R[i], x) /\ U[i] \in Nat
  BY CountIsSum
<1>5. U \in [0..n -> Nat]
  <2>1. U = [i \in 0..n |-> U[i]]
    OBVIOUS
  <2>. HIDE DEF U
  <2>. QED
    BY <1>4, <2>1
<1>. HIDE DEF U
<1>6. ones \in [1..n -> Nat] /\ SumTo(n, ones) = Cardinality(T)
  BY <1>3, SumOfOnes
<1>7. \A i \in 1..n : ones[i] = IF i \in T THEN 1 ELSE 0
  BY DEF Ones
<1>8. \A i \in 1..n : i \in T <=> x \in WordRecords(p) /\ data[i] = x[1]
  BY <1>1 DEF Places
<1>. HIDE DEF T, ones
<1>9. U[0] = 0
  BY <1>2, <1>4, CountInNothing
<1>10. ASSUME NEW i \in 1..n PROVE U[i] = U[i - 1] + ones[i]
  <2>1. i \in 0..n /\ i - 1 \in 0..n
    OBVIOUS
  <2>2. PICK f \in Seq(Pairs) : f = R[i - 1] /\ U[i - 1] = Count(f, x) /\ U[i - 1] \in Nat
    BY <1>4, <2>1
  <2>3. CASE data[i] \in Words /\ Part[data[i]] = p
    <3>1. PICK r \in Pairs : r = <<data[i], 1>>
      BY <2>3 DEF Pairs
    <3>2. Count(Append(f, r), x) = Count(f, x) + IF x = r THEN 1 ELSE 0
      BY CountOfAppend
    <3>3. U[i] = Count(Append(f, r), x)
      BY <1>2, <1>4, <2>1, <2>2, <2>3, <3>1
    <3>4. x = r <=> x \in WordRecords(p) /\ data[i] = x[1]
      BY <2>3, <3>1 DEF WordRecords, Pairs
    <3>. QED
      BY <1>7, <1>8, <2>2, <3>2, <3>3, <3>4
  <2>4. CASE ~(data[i] \in Words /\ Part[data[i]] = p)
    <3>1. U[i] = U[i - 1]
      BY <1>2, <1>4, <2>1, <2>2, <2>4
    <3>2. i \notin T
      BY <1>8, <2>4 DEF WordRecords
    <3>. QED
      BY <1>7, <2>2, <3>1, <3>2
  <2>. QED
    BY <2>3, <2>4
<1>11. Numbers!IsPartialSums(U, n, ones)
  BY <1>5, <1>9, <1>10 DEF Numbers!IsPartialSums
<1>12. SumTo(n, ones) = U[n]
  BY <1>6, <1>11, SumIs
<1>13. n \in 0..n
  OBVIOUS
<1>14. Cardinality(T) = IF x \in WordRecords(p) THEN Count(data, x[1]) ELSE 0
  BY FS_EmptySet DEF T, Count, Places
<1>. QED
  BY <1>2, <1>4, <1>6, <1>12, <1>13, <1>14

(* A task's file is in order and has a record for each place of a word of its partition. *)
LEMMA TaskFileIs ==
  ASSUME NEW X, NEW data \in Seq(X), NEW p, NEW x \in Pairs
  PROVE  Count(Ordered(Ordered(RecordsFor(data, p))), x)
           = IF x \in WordRecords(p) THEN Count(data, x[1]) ELSE 0
<1>1. RecordsFor(data, p) \in Seq(Pairs)
  BY RecordsCount
<1>2. Ordered(RecordsFor(data, p)) \in Seq(Pairs)
  BY <1>1, OrderedAscends
<1>3. Count(Ordered(Ordered(RecordsFor(data, p))), x) = Count(RecordsFor(data, p), x)
  BY <1>1, <1>2, OrderedCounts
<1>. QED
  BY <1>3, RecordsCount

--------------------------------------------------------------------------------
(* reduce: the calls for the groups of a file. *)

Singles == Nat \X {1}
GroupStates == [calls : Seq(Nat \X Seq({1})), last : Nat, values : Seq({1})]
NoGroups == [calls |-> <<>>, last |-> 0, values |-> <<>>]
Grouped(file) == FoldLeft(Grouping, NoGroups, file)

(* a record either begins a group, and ends the one before if there is any, or it goes on with one *)
LEMMA GroupingIs ==
  ASSUME NEW g \in GroupStates, NEW r \in Singles, r[1] # 0
  PROVE  /\ Grouping(g, r) \in GroupStates
         /\ Grouping(g, r).last = r[1]
         /\ IF r[1] = g.last
            THEN Grouping(g, r).calls = g.calls /\ Grouping(g, r).values = Append(g.values, 1)
            ELSE IF g.last = 0
                 THEN Grouping(g, r).calls = g.calls /\ Grouping(g, r).values = Append(g.values, 1)
                 ELSE /\ Grouping(g, r).calls = Append(g.calls, <<g.last, g.values>>)
                      /\ Grouping(g, r).values = <<1>>
<1>1. r[1] \in Nat /\ r[2] = 1
  BY DEF Singles
<1>2. /\ g.calls \in Seq(Nat \X Seq({1})) /\ g.last \in Nat /\ g.values \in Seq({1})
      /\ <<g.last, g.values>> \in Nat \X Seq({1})
  BY DEF GroupStates
<1>. DEFINE C == Nat \X Seq({1})
<1>3. g.calls \in Seq(C) /\ <<g.last, g.values>> \in C
  BY <1>2
<1>. HIDE DEF C
<1>4. Append(g.calls, <<g.last, g.values>>) \in Seq(C)
  BY <1>3
<1>5. Append(g.values, 1) \in Seq({1}) /\ Append(<<>>, 1) = <<1>> /\ <<1>> \in Seq({1})
  BY <1>2
<1>6. Grouping(g, r) = [calls |-> IF r[1] # g.last /\ g.last # 0 THEN Append(g.calls, <<g.last, g.values>>) ELSE g.calls,
                        last |-> r[1],
                        values |-> Append(IF r[1] # g.last /\ g.last # 0 THEN <<>> ELSE g.values, 1)]
  BY <1>1 DEF Grouping
<1>7. /\ Grouping(g, r).last = r[1]
      /\ Grouping(g, r).calls = IF r[1] # g.last /\ g.last # 0 THEN Append(g.calls, <<g.last, g.values>>) ELSE g.calls
      /\ Grouping(g, r).values = IF r[1] # g.last /\ g.last # 0 THEN <<1>> ELSE Append(g.values, 1)
  BY <1>5, <1>6
<1>8. Grouping(g, r) \in GroupStates
  <2>1. /\ Grouping(g, r).calls \in Seq(C) /\ Grouping(g, r).last \in Nat
        /\ Grouping(g, r).values \in Seq({1})
    BY <1>1, <1>3, <1>4, <1>5, <1>7
  <2>2. Grouping(g, r) = [calls |-> Grouping(g, r).calls, last |-> Grouping(g, r).last,
                          values |-> Grouping(g, r).values]
    BY <1>6
  <2>. QED
    BY <2>1, <2>2 DEF GroupStates, C
<1>. QED
  BY <1>7, <1>8

IsGrouping(R, n, file) ==
  /\ R[0] = NoGroups
  /\ \A i \in 1..n : R[i] = Grouping(R[i - 1], file[i])
  /\ Grouped(file) = R[n]

(* reduce reads its file record by record. *)
LEMMA RecordsAreGrouped ==
  ASSUME NEW n \in Nat, NEW file \in [1..n -> {r \in Singles : r[1] # 0}]
  PROVE  \E R \in [0..n -> GroupStates] :
           IsGrouping(R, n, file)
<1>. DEFINE S == 1..n
            Body(W) == [s \in SUBSET S |-> IF s = {} THEN NoGroups ELSE Grouping(W[s \ {Max(s)}], file[Max(s)])]
            op == [q \in ({r \in Singles : r[1] # 0}) \X (GroupStates) |-> Grouping(q[2], q[1])]
            G == CHOOSE U : U = Body(U)
<1>0. n \in Nat /\ file \in [S -> {r \in Singles : r[1] # 0}] /\ NoGroups \in GroupStates
  BY DEF NoGroups, GroupStates
<1>1. op \in [({r \in Singles : r[1] # 0}) \X (GroupStates) -> GroupStates] /\ \A v \in {r \in Singles : r[1] # 0}, y \in GroupStates : op[<<v, y>>] = Grouping(y, v)
  <2>1. \A v \in {r \in Singles : r[1] # 0}, y \in GroupStates : Grouping(y, v) \in GroupStates
    BY GroupingIs
  <2>2. \A q \in ({r \in Singles : r[1] # 0}) \X (GroupStates) : q[1] \in {r \in Singles : r[1] # 0} /\ q[2] \in GroupStates
    OBVIOUS
  <2>3. \A q \in ({r \in Singles : r[1] # 0}) \X (GroupStates) : Grouping(q[2], q[1]) \in GroupStates
    BY <2>1, <2>2
  <2>. QED
    BY <2>3
<1>2. PICK W : FoldedBy(W, n, GroupStates, NoGroups, op, file)
  <2>. HIDE DEF op
  <2>. QED
    BY <1>0, <1>1, FoldOfPositions
<1>. HIDE DEF op
<1>3. \A s \in SUBSET S : W[s] = IF s = {} THEN NoGroups ELSE Grouping(W[s \ {Max(s)}], file[Max(s)])
  <2>. SUFFICES ASSUME NEW s \in SUBSET S, s # {}
                PROVE  W[s] = Grouping(W[s \ {Max(s)}], file[Max(s)])
    BY <1>2 DEF FoldedBy
  <2>1. Max(s) \in S /\ file[Max(s)] \in {r \in Singles : r[1] # 0}
    BY <1>0, LastIsIn
  <2>2. W[s \ {Max(s)}] \in GroupStates
    BY <1>2 DEF FoldedBy
  <2>3. W[s] = op[<<file[Max(s)], W[s \ {Max(s)}]>>]
    BY <1>2 DEF FoldedBy
  <2>. QED
    BY <1>1, <2>1, <2>2, <2>3
<1>4. W = Body(W)
  <2>1. W = [s \in SUBSET S |-> W[s]]
    BY <1>2 DEF FoldedBy
  <2>. QED
    BY <1>3, <2>1, Zenon
<1>5. Grouped(file) = G[S]
  <2>1. DOMAIN file = S
    BY <1>0
  <2>2. Grouped(file) = (CHOOSE iter : iter = [s \in SUBSET DOMAIN file |->
           IF s = {} THEN NoGroups ELSE Grouping(iter[s \ {Max(s)}], file[Max(s)])])[DOMAIN file]
    BY Zenon DEF Grouped, FoldLeft, MapThenFoldSet
  <2>. QED
    BY <2>1, <2>2, Zenon
<1>6. G = Body(G)
  <2>. HIDE DEF Body
  <2>1. G = CHOOSE U : U = Body(U)
    OBVIOUS
  <2>. QED
    BY <1>4, <2>1, Zenon
<1>. HIDE DEF G
<1>7. G[{}] = NoGroups /\ \A s \in SUBSET S : s # {} => G[s] = Grouping(G[s \ {Max(s)}], file[Max(s)])
  BY <1>6
<1>. DEFINE R == [i \in 0..n |-> G[1..i]]
<1>8. \A i \in 0..n : R[i] = G[1..i] /\ 1..i \in SUBSET S
  BY <1>0
<1>9. R[0] = NoGroups
  <2>1. 0 \in 0..n /\ 1..0 = {}
    BY <1>0
  <2>. QED
    BY <1>7, <1>8, <2>1
<1>10. ASSUME NEW i \in 1..n PROVE R[i] = Grouping(R[i - 1], file[i])
  <2>1. i \in Nat /\ i # 0 /\ i \in 0..n /\ i - 1 \in 0..n
    BY <1>0
  <2>2. Max(1..i) = i /\ (1..i) \ {i} = 1..i - 1 /\ 1..i # {}
    BY <2>1, LastOfFirst
  <2>3. R[i] = G[1..i] /\ 1..i \in SUBSET S /\ R[i - 1] = G[1..i - 1]
    BY <1>8, <2>1
  <2>. HIDE DEF R
  <2>4. G[1..i] = Grouping(G[(1..i) \ {Max(1..i)}], file[Max(1..i)])
    BY <1>7, <2>2, <2>3, Zenon
  <2>. QED
    BY <2>2, <2>3, <2>4
<1>11. \A i \in 0..n : i \in {k \in 0..n : R[k] \in GroupStates}
  <2>. DEFINE Good == {k \in 0..n : R[k] \in GroupStates}
  <2>1. 0 \in Good
    <3>1. 0 \in 0..n
      BY <1>0
    <3>2. R[0] \in GroupStates
      BY <1>0, <1>9, Zenon
    <3>. HIDE DEF R
    <3>. QED
      BY <3>1, <3>2
  <2>2. ASSUME NEW i \in 1..n, i - 1 \in Good PROVE i \in Good
    <3>1. R[i - 1] \in GroupStates /\ file[i] \in {r \in Singles : r[1] # 0} /\ i \in 0..n
      BY <1>0, <2>2
    <3>. HIDE DEF R
    <3>2. Grouping(R[i - 1], file[i]) \in GroupStates
      BY <3>1, GroupingIs
    <3>. QED
      BY <1>10, <3>1, <3>2
  <2>. HIDE DEF Good
  <2>3. \A i \in 0..n : i \in Good
    BY <1>0, <2>1, <2>2, UpTo
  <2>. QED
    BY <2>3 DEF Good
<1>12. R \in [0..n -> GroupStates]
  <2>1. R = [i \in 0..n |-> R[i]]
    BY <1>8
  <2>. HIDE DEF R
  <2>. QED
    BY <1>11, <2>1
<1>13. Grouped(file) = R[n]
  <2>1. n \in 0..n
    BY <1>0
  <2>. QED
    BY <1>5, <1>8, <2>1
<1>. HIDE DEF R
<1>. QED
  BY <1>9, <1>10, <1>12, <1>13 DEF IsGrouping

(* how often a word is among the first records of a file *)
Among(file, j, x) == {k \in 1..j : file[k][1] = x}
Occurs(file, j, x) == Cardinality(Among(file, j, x))

LEMMA OccursOnce ==
  ASSUME NEW file, NEW j \in Nat \ {0}, NEW x
  PROVE  /\ Occurs(file, j, x) \in Nat
         /\ Occurs(file, j, x) = Occurs(file, j - 1, x) + IF file[j][1] = x THEN 1 ELSE 0
<1>1. IsFiniteSet(1..j - 1) /\ IsFiniteSet(1..j)
  BY FS_Interval
<1>2. IsFiniteSet(Among(file, j - 1, x)) /\ IsFiniteSet(Among(file, j, x))
  <2>1. Among(file, j - 1, x) \in SUBSET (1..j - 1) /\ Among(file, j, x) \in SUBSET (1..j)
    BY DEF Among
  <2>. QED
    BY <1>1, <2>1, FS_Subset
<1>3. Cardinality(Among(file, j - 1, x)) \in Nat /\ Cardinality(Among(file, j, x)) \in Nat
  BY <1>2, FS_CardinalityType
<1>4. CASE file[j][1] = x
  <2>1. Among(file, j, x) = Among(file, j - 1, x) \cup {j} /\ j \notin Among(file, j - 1, x)
    BY <1>4 DEF Among
  <2>2. Cardinality(Among(file, j - 1, x) \cup {j}) = Cardinality(Among(file, j - 1, x)) + 1
    BY <1>2, <2>1, FS_AddElement
  <2>. QED
    BY <1>3, <1>4, <2>1, <2>2 DEF Occurs
<1>5. CASE file[j][1] # x
  <2>1. Among(file, j, x) = Among(file, j - 1, x)
    BY <1>5 DEF Among
  <2>. QED
    BY <1>3, <1>5, <2>1 DEF Occurs
<1>. QED
  BY <1>4, <1>5

LEMMA OccursNever ==
  ASSUME NEW file, NEW j \in Nat, NEW x, \A k \in 1..j : file[k][1] # x
  PROVE  Occurs(file, j, x) = 0
<1>1. Among(file, j, x) = {}
  BY DEF Among
<1>. QED
  BY <1>1, FS_EmptySet DEF Occurs

(* a file of words, in order *)
IsWordFile(file) ==
  /\ file \in Seq(Singles) /\ Ascends(file)
  /\ \A i \in 1..Len(file) : file[i][1] # 0

(* Each key has one call, with a value for each of its records. *)
IsCall(c, file, j) == c[1] # 0 /\ Len(c[2]) = Occurs(file, j, c[1]) /\ Len(c[2]) # 0
AreCalls(calls, file, j) ==
  /\ calls \in Seq(Nat \X Seq({1}))
  /\ \A i \in 1..Len(calls) : IsCall(calls[i], file, j)
  /\ \A i, k \in 1..Len(calls) : calls[i][1] = calls[k][1] => i = k

(* The groups of the first j records: that of the last is still open. *)
GroupsOf(g, file, j) ==
  /\ AreCalls(g.calls, file, j)
  /\ j = 0 => g = NoGroups
  /\ j # 0 => /\ g.last = file[j][1]
              /\ Len(g.values) = Occurs(file, j, g.last) /\ Len(g.values) # 0
              /\ \A i \in 1..Len(g.calls) : g.calls[i][1] < g.last
              /\ \A k \in 1..j : \/ file[k][1] = g.last
                                 \/ \E i \in 1..Len(g.calls) : g.calls[i][1] = file[k][1]

LEMMA WordFileShape ==
  ASSUME NEW file, IsWordFile(file)
  PROVE  /\ Len(file) \in Nat /\ DOMAIN file = 1..Len(file)
         /\ file \in [1..Len(file) -> {r \in Singles : r[1] # 0}]
         /\ \A i \in 1..Len(file) : file[i] \in Singles /\ file[i][1] \in Nat \ {0} /\ file[i][2] = 1
         /\ \A i, k \in 1..Len(file) : i <= k => file[i][1] <= file[k][1]
<1>1. /\ Len(file) \in Nat /\ DOMAIN file = 1..Len(file)
      /\ \A i \in 1..Len(file) : file[i] \in Singles /\ file[i][1] \in Nat \ {0} /\ file[i][2] = 1
  BY DEF IsWordFile, Singles
<1>2. file \in [1..Len(file) -> {r \in Singles : r[1] # 0}]
  BY <1>1 DEF IsWordFile
<1>3. ASSUME NEW i \in 1..Len(file), NEW k \in 1..Len(file), i <= k PROVE file[i][1] <= file[k][1]
  <2>1. CASE i = k
    BY <1>1, <2>1
  <2>2. CASE i # k
    <3>1. ~Before(file[k], file[i])
      BY <1>1, <1>3, <2>2 DEF IsWordFile, Ascends
    <3>. QED
      BY <1>1, <3>1 DEF Before
  <2>. QED
    BY <2>1, <2>2
<1>. QED
  BY <1>1, <1>2, <1>3

LEMMA GroupsGoOn ==
  ASSUME NEW file, IsWordFile(file), NEW j \in 1..Len(file), NEW g \in GroupStates,
         GroupsOf(g, file, j - 1)
  PROVE  GroupsOf(Grouping(g, file[j]), file, j)
<1>. DEFINE r == file[j]
            h == Grouping(g, r)
            x == file[j][1]
            N == Len(file)
<1>1. /\ N \in Nat /\ r \in Singles /\ x \in Nat \ {0} /\ x = r[1]
      /\ \A i \in 1..N : file[i][1] \in Nat \ {0}
      /\ \A i, k \in 1..N : i <= k => file[i][1] <= file[k][1]
  BY WordFileShape
<1>2. /\ g.calls \in Seq(Nat \X Seq({1})) /\ g.values \in Seq({1}) /\ g.last \in Nat
  BY DEF GroupStates
<1>3. /\ h.last = x
      /\ IF x = g.last \/ g.last = 0 THEN h.calls = g.calls /\ h.values = Append(g.values, 1)
         ELSE h.calls = Append(g.calls, <<g.last, g.values>>) /\ h.values = <<1>>
  <2>1. r \in Singles /\ r[1] # 0
    BY <1>1
  <2>. HIDE DEF r
  <2>. QED
    BY <1>1, <2>1, GroupingIs
<1>4. \A y : Occurs(file, j, y) \in Nat /\ Occurs(file, j, y) = Occurs(file, j - 1, y) + IF x = y THEN 1 ELSE 0
  <2>1. j \in Nat \ {0}
    BY <1>1
  <2>. QED
    BY <2>1, OccursOnce
<1>5. j # 0 /\ j \in Nat /\ j - 1 \in Nat
  BY <1>1
<1>6. AreCalls(g.calls, file, j - 1)
  BY DEF GroupsOf
<1>7. CASE j - 1 = 0
  <2>1. g.calls = <<>> /\ g.values = <<>> /\ g.last = 0
    BY <1>7 DEF GroupsOf, NoGroups
  <2>2. h.calls = <<>> /\ h.values = <<1>>
    BY <1>3, <2>1
  <2>3. Occurs(file, j - 1, x) = 0
    BY <1>5, <1>7, OccursNever
  <2>4. Occurs(file, j, x) = 1
    BY <1>4, <2>3
  <2>5. AreCalls(h.calls, file, j)
    BY <2>2 DEF AreCalls
  <2>6. Len(h.values) = 1 /\ \A i \in 1..Len(h.calls) : FALSE
    BY <2>2
  <2>7. \A k \in 1..j : k = j
    BY <1>7
  <2>. HIDE DEF h, x, r
  <2>8. \A k \in 1..j : file[k][1] = h.last
    BY <1>3, <2>7 DEF x
  <2>9. file[j][1] = x
    BY DEF x
  <2>10. GroupsOf(h, file, j)
    BY <1>3, <1>5, <2>4, <2>5, <2>6, <2>8, <2>9 DEF GroupsOf
  <2>. QED
    BY <2>10 DEF h, r
<1>8. CASE j - 1 # 0
  <2>. DEFINE y == g.last
  <2>1. /\ y = file[j - 1][1] /\ Len(g.values) = Occurs(file, j - 1, y) /\ Len(g.values) # 0
        /\ \A i \in 1..Len(g.calls) : g.calls[i][1] < y
        /\ \A k \in 1..j - 1 : file[k][1] = y \/ \E i \in 1..Len(g.calls) : g.calls[i][1] = file[k][1]
    BY <1>8 DEF GroupsOf
  <2>2. j - 1 \in 1..N
    BY <1>1, <1>8
  <2>3. y # 0 /\ y \in Nat /\ y <= x /\ \A k \in 1..j - 1 : file[k][1] <= y
    <3>1. \A k \in 1..j - 1 : k \in 1..N /\ k <= j - 1
      BY <1>1
    <3>. QED
      BY <1>1, <2>1, <2>2, <3>1
  <2>4. /\ Len(g.calls) \in Nat
        /\ \A i \in 1..Len(g.calls) : g.calls[i][1] \in Nat /\ IsCall(g.calls[i], file, j - 1)
    <3>1. \A i \in 1..Len(g.calls) : g.calls[i] \in Nat \X Seq({1})
      BY <1>2
    <3>. QED
      BY <1>2, <1>6, <3>1 DEF AreCalls
  <2>5. \A i \in 1..Len(g.calls) : IsCall(g.calls[i], file, j)
    <3>1. SUFFICES ASSUME NEW i \in 1..Len(g.calls) PROVE IsCall(g.calls[i], file, j)
      OBVIOUS
    <3>2. g.calls[i][1] # x
      BY <1>1, <2>1, <2>3, <2>4
    <3>3. Occurs(file, j, g.calls[i][1]) = Occurs(file, j - 1, g.calls[i][1])
      <4>1. Occurs(file, j - 1, g.calls[i][1]) \in Nat
        BY <1>5, <1>8, OccursOnce
      <4>. HIDE DEF x
      <4>. QED
        BY <1>4, <3>2, <4>1
    <3>. QED
      BY <2>4, <3>3 DEF IsCall
  <2>6. \A k \in 1..j : k = j \/ k \in 1..j - 1
    BY <1>5
  <2>7. Occurs(file, j - 1, y) \in Nat /\ Occurs(file, j - 1, x) \in Nat
    BY <1>5, <1>8, OccursOnce
  <2>. HIDE DEF h, r, y, N
  <2>8. CASE x = y
    <3>1. h.calls = g.calls /\ h.values = Append(g.values, 1) /\ h.last = y
      BY <1>3, <2>8 DEF y
    <3>2. Len(h.values) = Len(g.values) + 1 /\ Len(g.values) \in Nat
      BY <1>2, <3>1
    <3>3. Len(h.values) = Occurs(file, j, y) /\ Len(h.values) # 0
      BY <1>4, <2>1, <2>7, <2>8, <3>2
    <3>4. AreCalls(h.calls, file, j)
      BY <1>2, <1>6, <2>5, <3>1 DEF AreCalls
    <3>5. \A k \in 1..j : file[k][1] = y \/ \E i \in 1..Len(h.calls) : h.calls[i][1] = file[k][1]
      BY <2>1, <2>6, <2>8, <3>1
    <3>6. y = file[j][1]
      BY <2>8
    <3>7. GroupsOf(h, file, j)
      BY <1>5, <2>1, <3>1, <3>3, <3>4, <3>5, <3>6 DEF GroupsOf
    <3>. QED
      BY <3>7 DEF h, r
  <2>9. CASE x # y
    <3>. DEFINE m == Len(g.calls)
                last == <<y, g.values>>
    <3>1. h.calls = Append(g.calls, last) /\ h.values = <<1>> /\ h.last = x
      BY <1>3, <2>3, <2>9 DEF y
    <3>2. y < x
      BY <1>1, <2>3, <2>9
    <3>3. last \in Nat \X Seq({1}) /\ last[1] = y /\ last[2] = g.values
      BY <1>2 DEF y
    <3>4. /\ h.calls \in Seq(Nat \X Seq({1})) /\ Len(h.calls) = m + 1
          /\ \A i \in 1..m : h.calls[i] = g.calls[i]
          /\ h.calls[m + 1] = last
      <4>. DEFINE C == Nat \X Seq({1})
      <4>1. g.calls \in Seq(C) /\ last \in C
        BY <1>2, <3>3
      <4>. HIDE DEF C, last
      <4>2. PICK s \in Seq(C) : s = g.calls
        BY <4>1
      <4>3. Append(s, last) \in Seq(C) /\ Len(Append(s, last)) = Len(s) + 1
            /\ (\A i \in 1..Len(s) : Append(s, last)[i] = s[i]) /\ Append(s, last)[Len(s) + 1] = last
        BY <4>1
      <4>. QED
        BY <3>1, <4>2, <4>3 DEF C
    <3>5. \A i \in 1..m + 1 : i \in 1..m \/ i = m + 1
      BY <2>4
    <3>6. Occurs(file, j, y) = Occurs(file, j - 1, y)
      BY <1>4, <2>7, <2>9
    <3>7. IsCall(last, file, j)
      BY <2>1, <2>3, <3>3, <3>6 DEF IsCall
    <3>. HIDE DEF last, m
    <3>8. \A i \in 1..m + 1 : IsCall(h.calls[i], file, j)
      BY <2>5, <3>4, <3>5, <3>7 DEF m
    <3>9. \A i, k \in 1..m + 1 : h.calls[i][1] = h.calls[k][1] => i = k
      <4>1. \A i \in 1..m : g.calls[i][1] < y /\ g.calls[i][1] \in Nat
        BY <2>1, <2>4 DEF m
      <4>2. \A i, k \in 1..m : g.calls[i][1] = g.calls[k][1] => i = k
        BY <1>6 DEF AreCalls, m
      <4>3. \A i \in 1..m : h.calls[i][1] = g.calls[i][1] /\ h.calls[i][1] # y
        BY <2>3, <3>4, <4>1
      <4>4. h.calls[m + 1][1] = y
        BY <3>3, <3>4
      <4>. QED
        BY <3>5, <4>2, <4>3, <4>4
    <3>10. AreCalls(h.calls, file, j)
      BY <3>4, <3>8, <3>9 DEF AreCalls
    <3>11. Occurs(file, j - 1, x) = 0
      <4>1. \A k \in 1..j - 1 : file[k][1] # x
        <5>1. \A k \in 1..j - 1 : file[k][1] \in Nat /\ file[k][1] <= y
          BY <1>1, <2>3 DEF N
        <5>. QED
          BY <1>1, <2>3, <3>2, <5>1
      <4>. QED
        BY <1>5, <4>1, OccursNever
    <3>12. Occurs(file, j, x) = 1 /\ Len(h.values) = 1
      BY <1>4, <3>1, <3>11
    <3>13. \A i \in 1..m + 1 : h.calls[i][1] < x
      <4>1. \A i \in 1..m : g.calls[i][1] < y /\ g.calls[i][1] \in Nat
        BY <2>1, <2>4 DEF m
      <4>2. \A i \in 1..m : h.calls[i][1] < x
        <5>1. \A a \in Nat : a < y => a < x
          BY <1>1, <2>3, <3>2
        <5>. QED
          BY <3>4, <4>1, <5>1
      <4>3. h.calls[m + 1][1] < x
        BY <3>2, <3>3, <3>4
      <4>. QED
        BY <3>5, <4>2, <4>3
    <3>14. \A k \in 1..j : file[k][1] = x \/ \E i \in 1..m + 1 : h.calls[i][1] = file[k][1]
      <4>1. m \in Nat /\ m + 1 \in 1..m + 1 /\ (\A i \in 1..m : i \in 1..m + 1)
        BY <2>4 DEF m
      <4>2. \A k \in 1..j - 1 : file[k][1] = y \/ \E i \in 1..m : h.calls[i][1] = file[k][1]
        BY <2>1, <3>4 DEF m
      <4>3. h.calls[m + 1][1] = y
        BY <3>3, <3>4
      <4>. QED
        BY <2>6, <4>1, <4>2, <4>3
    <3>15. GroupsOf(h, file, j)
      <4>1. Len(h.calls) = m + 1 /\ x = file[j][1]
        BY <3>4
      <4>. HIDE DEF x
      <4>. QED
        BY <1>5, <3>1, <3>10, <3>12, <3>13, <3>14, <4>1 DEF GroupsOf
    <3>. QED
      BY <3>15 DEF h, r
  <2>. QED
    BY <2>8, <2>9
<1>. QED
  BY <1>7, <1>8

(* The calls for a file: one for each word in it, with a value for each of its records. *)
LEMMA CallsAre ==
  ASSUME NEW file, IsWordFile(file)
  PROVE  /\ AreCalls(Calls(file), file, Len(file))
         /\ \A k \in 1..Len(file) : \E i \in 1..Len(Calls(file)) : Calls(file)[i][1] = file[k][1]
<1>. DEFINE n == Len(file)
<1>1. n \in Nat /\ file \in [1..n -> {r \in Singles : r[1] # 0}] /\ \A i \in 1..n : file[i][1] \in Nat \ {0}
  BY WordFileShape
<1>. HIDE DEF n
<1>2. PICK R \in [0..n -> GroupStates] : IsGrouping(R, n, file)
  BY <1>1, RecordsAreGrouped
<1>3. R[0] = NoGroups /\ (\A i \in 1..n : R[i] = Grouping(R[i - 1], file[i])) /\ Grouped(file) = R[n]
  BY <1>2 DEF IsGrouping
<1>. DEFINE Good == {i \in 0..n : GroupsOf(R[i], file, i)}
<1>4. 0 \in Good
  <2>1. 0 \in 0..n
    BY <1>1
  <2>2. GroupsOf(NoGroups, file, 0)
    BY DEF GroupsOf, NoGroups, AreCalls
  <2>. QED
    BY <1>3, <2>1, <2>2
<1>5. ASSUME NEW i \in 1..n, i - 1 \in Good PROVE i \in Good
  <2>1. i - 1 \in 0..n /\ i \in 0..n /\ i \in 1..Len(file)
    BY <1>1 DEF n
  <2>2. R[i - 1] \in GroupStates /\ GroupsOf(R[i - 1], file, i - 1)
    BY <1>5, <2>1
  <2>3. GroupsOf(Grouping(R[i - 1], file[i]), file, i)
    BY <2>1, <2>2, GroupsGoOn
  <2>. QED
    BY <1>3, <2>1, <2>3
<1>. HIDE DEF Good
<1>6. \A i \in 0..n : i \in Good
  BY <1>1, <1>4, <1>5, UpTo
<1>7. n \in 0..n
  BY <1>1
<1>8. PICK g \in GroupStates : g = Grouped(file) /\ GroupsOf(g, file, n)
  BY <1>3, <1>6, <1>7 DEF Good
<1>9. Calls(file) = IF g.last = 0 THEN g.calls ELSE Append(g.calls, <<g.last, g.values>>)
  BY <1>8, Zenon DEF Calls, Grouped, NoGroups
<1>10. CASE n = 0
  <2>1. g = NoGroups
    BY <1>8, <1>10 DEF GroupsOf
  <2>2. Calls(file) = <<>>
    BY <1>9, <2>1 DEF NoGroups
  <2>. QED
    BY <1>10, <2>2 DEF AreCalls, n
<1>11. CASE n # 0
  <2>. DEFINE y == g.last
              m == Len(g.calls)
              last == <<y, g.values>>
              c == Calls(file)
  <2>1. /\ AreCalls(g.calls, file, n) /\ y = file[n][1]
        /\ Len(g.values) = Occurs(file, n, y) /\ Len(g.values) # 0
        /\ \A i \in 1..m : g.calls[i][1] < y
        /\ \A k \in 1..n : file[k][1] = y \/ \E i \in 1..m : g.calls[i][1] = file[k][1]
    BY <1>8, <1>11 DEF GroupsOf
  <2>2. y \in Nat \ {0}
    BY <1>1, <1>11, <2>1
  <2>3. g.calls \in Seq(Nat \X Seq({1})) /\ g.values \in Seq({1}) /\ last \in Nat \X Seq({1})
        /\ last[1] = y /\ last[2] = g.values
    BY DEF GroupStates
  <2>4. c = Append(g.calls, last)
    BY <1>9, <2>2
  <2>. HIDE DEF c
  <2>5. /\ c \in Seq(Nat \X Seq({1})) /\ Len(c) = m + 1 /\ m \in Nat
        /\ \A i \in 1..m : c[i] = g.calls[i] /\ g.calls[i][1] \in Nat
        /\ c[m + 1] = last
    <3>. DEFINE C == Nat \X Seq({1})
    <3>1. g.calls \in Seq(C) /\ last \in C /\ \A q \in C : q[1] \in Nat
      BY <2>3
    <3>. HIDE DEF C, last
    <3>2. PICK s \in Seq(C) : s = g.calls
      BY <3>1
    <3>3. /\ Append(s, last) \in Seq(C) /\ Len(Append(s, last)) = Len(s) + 1 /\ Len(s) \in Nat
          /\ (\A i \in 1..Len(s) : Append(s, last)[i] = s[i] /\ s[i] \in C) /\ Append(s, last)[Len(s) + 1] = last
      BY <3>1
    <3>. QED
      BY <2>4, <3>1, <3>2, <3>3 DEF C
  <2>6. \A i \in 1..m + 1 : i \in 1..m \/ i = m + 1
    BY <2>5
  <2>7. IsCall(last, file, n)
    BY <2>1, <2>2, <2>3 DEF IsCall
  <2>8. /\ \A i \in 1..m : IsCall(g.calls[i], file, n)
        /\ \A i, k \in 1..m : g.calls[i][1] = g.calls[k][1] => i = k
    BY <2>1 DEF AreCalls
  <2>. HIDE DEF last, m, y
  <2>9. \A i \in 1..m + 1 : IsCall(c[i], file, n)
    BY <2>5, <2>6, <2>7, <2>8
  <2>10. \A i \in 1..m : c[i][1] = g.calls[i][1] /\ c[i][1] # y
    BY <2>1, <2>2, <2>5
  <2>11. c[m + 1][1] = y
    BY <2>3, <2>5
  <2>12. \A i, k \in 1..m + 1 : c[i][1] = c[k][1] => i = k
    BY <2>6, <2>8, <2>10, <2>11
  <2>13. AreCalls(c, file, n)
    BY <2>5, <2>9, <2>12 DEF AreCalls
  <2>14. \A k \in 1..n : \E i \in 1..m + 1 : c[i][1] = file[k][1]
    <3>1. m + 1 \in 1..m + 1 /\ \A i \in 1..m : i \in 1..m + 1
      BY <2>5
    <3>. QED
      BY <2>1, <2>10, <2>11, <3>1
  <2>. QED
    BY <2>5, <2>13, <2>14 DEF c, n
<1>. QED
  BY <1>10, <1>11

LEMMA OccursIsCount ==
  ASSUME NEW file, IsWordFile(file), NEW x
  PROVE  Occurs(file, Len(file), x) = Count(file, <<x, 1>>)
<1>1. Among(file, Len(file), x) = {i \in DOMAIN file : file[i] = <<x, 1>>}
  <2>1. DOMAIN file = 1..Len(file)
    BY WordFileShape
  <2>2. \A i \in 1..Len(file) : file[i][1] = x <=> file[i] = <<x, 1>>
    <3>1. \A i \in 1..Len(file) : file[i] \in Singles
      BY WordFileShape
    <3>2. \A r \in Singles : r[1] = x <=> r = <<x, 1>>
      BY DEF Singles
    <3>. QED
      BY <3>1, <3>2
  <2>. QED
    BY <2>1, <2>2 DEF Among
<1>. QED
  BY <1>1 DEF Occurs, Count

(* what the rows of a result file are for a word *)
Tallied(rows, x) ==
  Tally(Cardinality({i \in DOMAIN rows : rows[i][1] = x}),
        SumOf([i \in DOMAIN rows |-> IF rows[i][1] = x THEN rows[i][2] ELSE 0]))

RowsTally(calls, file, j, x) ==
  Tallied(Results(calls), x) = IF \E i \in 1..Len(calls) : calls[i][1] = x
                               THEN Tally(1, Occurs(file, j, x)) ELSE Tally(0, 0)

LEMMA RowsAre ==
  ASSUME NEW file, NEW j \in Nat, NEW calls, AreCalls(calls, file, j), NEW x
  PROVE  RowsTally(calls, file, j, x)
<1>. USE DEF RowsTally
<1>. DEFINE rows == Results(calls)
            n == Len(calls)
            f == [i \in DOMAIN rows |-> IF rows[i][1] = x THEN rows[i][2] ELSE 0]
            at == {i \in DOMAIN rows : rows[i][1] = x}
<1>1. /\ n \in Nat /\ DOMAIN calls = 1..n
      /\ \A i \in 1..n : calls[i][2] \in Seq({1}) /\ IsCall(calls[i], file, j)
      /\ \A i, k \in 1..n : calls[i][1] = calls[k][1] => i = k
  <2>1. calls \in Seq(Nat \X Seq({1}))
    BY DEF AreCalls
  <2>2. n \in Nat /\ DOMAIN calls = 1..n /\ \A i \in 1..n : calls[i] \in Nat \X Seq({1})
    BY <2>1
  <2>. QED
    BY <2>2 DEF AreCalls
<1>2. rows = [i \in 1..n |-> <<calls[i][1], SumOf(calls[i][2])>>]
  BY <1>1 DEF Results
<1>3. DOMAIN rows = 1..n
  BY <1>2
<1>4. \A i \in 1..n : rows[i][1] = calls[i][1] /\ rows[i][2] = Occurs(file, j, calls[i][1]) /\ rows[i][2] \in Nat
  <2>1. SUFFICES ASSUME NEW i \in 1..n
                 PROVE  rows[i][1] = calls[i][1] /\ rows[i][2] = Occurs(file, j, calls[i][1]) /\ rows[i][2] \in Nat
    OBVIOUS
  <2>2. SumOf(calls[i][2]) = Len(calls[i][2]) /\ Len(calls[i][2]) \in Nat
    BY <1>1, SumOfSingles
  <2>3. rows[i] = <<calls[i][1], SumOf(calls[i][2])>>
    BY <1>2
  <2>. HIDE DEF rows
  <2>. QED
    BY <1>1, <2>2, <2>3 DEF IsCall
<1>. HIDE DEF rows
<1>5. f = [i \in 1..n |-> IF rows[i][1] = x THEN rows[i][2] ELSE 0]
  BY <1>3
<1>6. f \in [1..n -> Nat] /\ \A i \in 1..n : f[i] = IF rows[i][1] = x THEN rows[i][2] ELSE 0
  <2>1. \A i \in 1..n : (IF rows[i][1] = x THEN rows[i][2] ELSE 0) \in Nat
    BY <1>4
  <2>. HIDE DEF f
  <2>. QED
    BY <1>5, <2>1
<1>7. at = {i \in 1..n : calls[i][1] = x}
  BY <1>3, <1>4
<1>8. Tallied(rows, x) = Tally(Cardinality(at), SumOf(f))
  BY DEF Tallied
<1>. HIDE DEF f, at, n
<1>9. SumOf(f) = SumTo(n, f)
  BY <1>1, <1>6, SumOfIs
<1>10. CASE \E i \in 1..n : calls[i][1] = x
  <2>1. PICK i \in 1..n : calls[i][1] = x
    BY <1>10
  <2>2. at = {i}
    BY <1>1, <1>7, <2>1
  <2>3. Cardinality(at) = 1
    BY <2>2, FS_Singleton
  <2>4. IsPoint(n, f, i)
    <3>1. \A k \in 1..n : k # i => rows[k][1] # x
      BY <1>1, <1>4, <2>1
    <3>. QED
      BY <1>6, <3>1 DEF IsPoint
  <2>5. SumTo(n, f) = f[i]
    BY <1>1, <2>4, SumOfPoint
  <2>6. f[i] = Occurs(file, j, x)
    BY <1>4, <1>6, <2>1
  <2>. QED
    BY <1>8, <1>9, <1>10, <2>3, <2>5, <2>6 DEF n, rows
<1>11. CASE ~ \E i \in 1..n : calls[i][1] = x
  <2>1. at = {}
    BY <1>7, <1>11
  <2>2. Cardinality(at) = 0
    BY <2>1, FS_EmptySet
  <2>3. IsZero(n, f)
    BY <1>4, <1>6, <1>11 DEF IsZero
  <2>4. SumTo(n, f) = 0
    BY <1>1, <2>3, SumOfZeros
  <2>. QED
    BY <1>8, <1>9, <1>11, <2>2, <2>4 DEF n, rows
<1>. QED
  BY <1>10, <1>11

LEMMA PartOfCalls ==
  ASSUME NEW file, NEW j \in Nat, NEW calls, AreCalls(calls, file, j), NEW n \in 0..Len(calls)
  PROVE  AreCalls(SubSeq(calls, 1, n), file, j)
<1>. DEFINE C == Nat \X Seq({1})
<1>1. calls \in Seq(C) /\ Len(calls) \in Nat
  BY DEF AreCalls
<1>. HIDE DEF C
<1>2. PICK s \in Seq(C) : s = SubSeq(calls, 1, n) /\ Len(s) = n /\ \A i \in 1..n : s[i] = calls[i]
  <2>1. \A i \in 1..n : calls[i] \in C
    BY <1>1
  <2>2. SubSeq(calls, 1, n) = [i \in 1..n |-> calls[i]]
    BY <1>1
  <2>3. [i \in 1..n |-> calls[i]] \in Seq(C) /\ Len([i \in 1..n |-> calls[i]]) = n
    BY <1>1, <2>1
  <2>. QED
    BY <2>2, <2>3
<1>3. n \in Nat /\ \A i \in 1..n : i \in 1..Len(calls)
  BY <1>1
<1>4. /\ \A i \in 1..Len(calls) : IsCall(calls[i], file, j)
      /\ \A i, k \in 1..Len(calls) : calls[i][1] = calls[k][1] => i = k
  BY DEF AreCalls
<1>5. AreCalls(s, file, j)
  BY <1>2, <1>3, <1>4 DEF AreCalls, C
<1>. QED
  BY <1>2, <1>5

(* the results owed for a word that is there so often *)
TallyOf(n) == Tally(IF n = 0 THEN 0 ELSE 1, n)

(* The results of a partition are those of its file, or fewer when the task throws. *)
LEMMA ResultsAre ==
  ASSUME NEW file, IsWordFile(file), NEW x
  PROVE  /\ Count(file, <<x, 1>>) \in Nat
         /\ Tallied(Results(Calls(file)), x) = TallyOf(Count(file, <<x, 1>>))
         /\ \A n \in 0..Len(Calls(file)) :
              LET t == Tallied(Results(SubSeq(Calls(file), 1, n)), x)
              IN  t.list[1] \in Nat /\ t.list[1] <= Count(file, <<x, 1>>)
<1>. DEFINE N == Len(file)
            c == Calls(file)
            d == Count(file, <<x, 1>>)
<1>1. /\ AreCalls(c, file, N) /\ N \in Nat
      /\ \A k \in 1..N : \E i \in 1..Len(c) : c[i][1] = file[k][1]
  BY CallsAre, WordFileShape
<1>2. d = Occurs(file, N, x) /\ d \in Nat
  <2>1. d \in Nat
    BY CountIsSum DEF IsWordFile
  <2>. QED
    BY <2>1, OccursIsCount
<1>3. \A k, r \in Nat : Tally(k, r).list[1] = r
  BY DEF Tally
<1>4. (\E i \in 1..Len(c) : c[i][1] = x) <=> d # 0
  <2>1. ASSUME NEW i \in 1..Len(c), c[i][1] = x PROVE d # 0
    BY <1>1, <1>2, <2>1 DEF AreCalls, IsCall
  <2>2. ASSUME d # 0 PROVE \E i \in 1..Len(c) : c[i][1] = x
    <3>1. \E k \in 1..N : file[k][1] = x
      BY <1>1, <1>2, <2>2, OccursNever
    <3>. QED
      BY <1>1, <3>1
  <2>. QED
    BY <2>1, <2>2
<1>. HIDE DEF c, d, N
<1>5. Tallied(Results(c), x) = TallyOf(d)
  <2>1. Tallied(Results(c), x) = IF \E i \in 1..Len(c) : c[i][1] = x THEN Tally(1, d) ELSE Tally(0, 0)
    <3>1. RowsTally(c, file, N, x)
      BY <1>1, RowsAre
    <3>. QED
      BY <1>2, <3>1 DEF RowsTally
  <2>. QED
    BY <1>4, <2>1 DEF TallyOf
<1>6. ASSUME NEW n \in 0..Len(c)
      PROVE  /\ Tallied(Results(SubSeq(c, 1, n)), x).list[1] \in Nat
             /\ Tallied(Results(SubSeq(c, 1, n)), x).list[1] <= d
  <2>1. PICK part : part = SubSeq(c, 1, n)
    OBVIOUS
  <2>2. AreCalls(part, file, N)
    BY <1>1, <2>1, PartOfCalls
  <2>3. Tallied(Results(part), x) = IF \E i \in 1..Len(part) : part[i][1] = x THEN Tally(1, d) ELSE Tally(0, 0)
    <3>1. RowsTally(part, file, N, x)
      BY <1>1, <2>2, RowsAre
    <3>. QED
      BY <1>2, <3>1 DEF RowsTally
  <2>4. Tallied(Results(part), x).list[1] \in {0, d}
    BY <1>2, <1>3, <2>3
  <2>. QED
    BY <1>2, <2>1, <2>4
<1>. QED
  BY <1>2, <1>5, <1>6 DEF c, d


--------------------------------------------------------------------------------
(* The job implements its contract: what is in the store and in the hands of threads is what
   was read, and what a partition's reducer has in hand is what the files have for it. *)

Characters == Words \union {Newline}

LEMMA PartsJoin ==
  ASSUME NEW X, NEW t \in Seq(X), NEW o \in Nat, NEW e \in Nat, o <= e, e <= Len(t), NEW x
  PROVE  /\ SubSeq(t, 1, o) \in Seq(X) /\ SubSeq(t, 1, e) \in Seq(X) /\ SubSeq(t, o + 1, e) \in Seq(X)
         /\ Count(SubSeq(t, 1, e), x) = Count(SubSeq(t, 1, o), x) + Count(SubSeq(t, o + 1, e), x)
<1>. DEFINE a == SubSeq(t, 1, o)
            b == SubSeq(t, o + 1, e)
            c == SubSeq(t, 1, e)
<1>1. /\ Len(t) \in Nat /\ \A i \in 1..Len(t) : t[i] \in X
  OBVIOUS
<1>2. a \in Seq(X) /\ Len(a) = o /\ \A i \in 1..o : a[i] = t[i]
  <2>1. \A i \in 1..o : t[i] \in X
    BY <1>1
  <2>. QED
    BY <2>1, SubSeqProperties
<1>3. c \in Seq(X) /\ Len(c) = e /\ \A i \in 1..e : c[i] = t[i]
  <2>1. \A i \in 1..e : t[i] \in X
    BY <1>1
  <2>. QED
    BY <2>1, SubSeqProperties
<1>4. b \in Seq(X) /\ Len(b) = e - o /\ \A i \in 1..e - o : b[i] = t[o + i]
  <2>1. \A i \in o + 1..e : t[i] \in X
    BY <1>1
  <2>. QED
    BY <2>1, SubSeqProperties
<1>. HIDE DEF a, b, c
<1>5. c = a \o b
  <2>1. 1 \in 1..Len(t) + 1 /\ o \in 1 - 1..Len(t) /\ e \in o..Len(t)
    BY <1>1
  <2>. QED
    BY <2>1, ConcatAdjacentSubSeq DEF a, b, c
<1>6. Count(a \o b, x) = Count(a, x) + Count(b, x)
  BY <1>2, <1>4, CountsJoin
<1>. QED
  BY <1>2, <1>3, <1>4, <1>5, <1>6 DEF a, b, c

LEMMA WholeAndNothing ==
  ASSUME NEW X, NEW t \in Seq(X)
  PROVE  SubSeq(t, 1, Len(t)) = t /\ SubSeq(t, 1, 0) = <<>> /\ Len(t) \in Nat
<1>1. Len(t) \in Nat /\ \A i \in 1..Len(t) : t[i] \in X
  OBVIOUS
<1>2. SubSeq(t, 1, Len(t)) \in Seq(X) /\ Len(SubSeq(t, 1, Len(t))) = Len(t)
      /\ \A i \in 1..Len(t) : SubSeq(t, 1, Len(t))[i] = t[i]
  BY <1>1, SubSeqProperties
<1>3. SubSeq(t, 1, 0) \in Seq(X) /\ Len(SubSeq(t, 1, 0)) = 0
  BY <1>1, SubSeqProperties
<1>. QED
  BY <1>1, <1>2, <1>3, SeqEqual

LEMMA PartIsLess ==
  ASSUME NEW X, NEW t \in Seq(X), NEW o \in Nat, o <= Len(t), NEW x
  PROVE  /\ Count(SubSeq(t, 1, o), x) \in Nat /\ Count(t, x) \in Nat
         /\ Count(SubSeq(t, 1, o), x) <= Count(t, x)
<1>1. PICK n \in Nat : n = Len(t)
  OBVIOUS
<1>2. /\ SubSeq(t, 1, o) \in Seq(X) /\ SubSeq(t, o + 1, n) \in Seq(X) /\ SubSeq(t, 1, n) = t
      /\ Count(SubSeq(t, 1, n), x) = Count(SubSeq(t, 1, o), x) + Count(SubSeq(t, o + 1, n), x)
  BY <1>1, PartsJoin, WholeAndNothing
<1>3. Count(SubSeq(t, 1, o), x) \in Nat /\ Count(SubSeq(t, o + 1, n), x) \in Nat
  BY <1>2, CountIsSum
<1>4. PICK i \in Nat : i = Count(SubSeq(t, 1, o), x)
  BY <1>3
<1>5. PICK j \in Nat : j = Count(SubSeq(t, o + 1, n), x)
  BY <1>3
<1>6. Count(t, x) = i + j
  BY <1>2, <1>4, <1>5
<1>. QED
  BY <1>4, <1>6

AlikeBut(X, n, f, g, w) ==
  /\ f \in [1..n -> Seq(X)] /\ g \in [1..n -> Seq(X)] /\ w \in 1..n
  /\ \A i \in 1..n : i # w => g[i] = f[i]

AreCounts(a, n, f, x) ==
  /\ a \in [1..n -> Nat] /\ \A i \in 1..n : a[i] = Count(f[i], x)
  /\ InAll(f, x) = SumTo(n, a) /\ InAll(f, x) \in Nat

LEMMA CountsShape ==
  ASSUME NEW n \in Nat, NEW X, NEW f \in [1..n -> Seq(X)], NEW x
  PROVE  AreCounts(CountsOf(f, x), n, f, x)
<1>1. f \in Seq(Seq(X)) /\ Len(f) = n
  OBVIOUS
<1>2. CountsOf(f, x) \in [1..n -> Nat] /\ InAll(f, x) \in Nat
  BY <1>1, CountsOfShape
<1>. QED
  BY <1>1, <1>2 DEF CountsOf, InAll, AreCounts

LEMMA InAllChanges ==
  ASSUME NEW n \in Nat, NEW X, NEW f, NEW g, NEW w, AlikeBut(X, n, f, g, w), NEW x
  PROVE  /\ InAll(f, x) \in Nat /\ InAll(g, x) \in Nat
         /\ InAll(g, x) + Count(f[w], x) = InAll(f, x) + Count(g[w], x)
<1>1. f \in [1..n -> Seq(X)] /\ g \in [1..n -> Seq(X)] /\ w \in 1..n
      /\ \A i \in 1..n : i # w => g[i] = f[i]
  BY DEF AlikeBut
<1>2. PICK a : AreCounts(a, n, f, x)
  BY <1>1, CountsShape
<1>3. PICK b : AreCounts(b, n, g, x)
  BY <1>1, CountsShape
<1>4. DifferOnly(n, a, b, w)
  BY <1>1, <1>2, <1>3 DEF DifferOnly, AreCounts
<1>5. SumTo(n, b) + a[w] = SumTo(n, a) + b[w]
  BY <1>4, SumChanges
<1>. QED
  BY <1>1, <1>2, <1>3, <1>5 DEF AreCounts

(* no file of f has x more often than the same file of g *)
NoMore(n, f, g, x) == \A i \in 1..n : Count(f[i], x) <= Count(g[i], x)

LEMMA InAllIsLess ==
  ASSUME NEW n \in Nat, NEW X, NEW f \in [1..n -> Seq(X)], NEW g \in [1..n -> Seq(X)], NEW x, NoMore(n, f, g, x)
  PROVE  InAll(f, x) \in Nat /\ InAll(g, x) \in Nat /\ InAll(f, x) <= InAll(g, x)
<1>1. PICK a : AreCounts(a, n, f, x)
  BY CountsShape
<1>2. PICK b : AreCounts(b, n, g, x)
  BY CountsShape
<1>3. NoLarger(n, a, b)
  BY <1>1, <1>2 DEF NoLarger, NoMore, AreCounts
<1>4. SumTo(n, a) <= SumTo(n, b)
  BY <1>3, SumIsLess
<1>. QED
  BY <1>1, <1>2, <1>4 DEF AreCounts

LEMMA NothingIsIn ==
  ASSUME NEW n \in Nat, NEW f, f = [i \in 1..n |-> <<>>], NEW x
  PROVE  InAll(f, x) = 0
<1>1. f \in [1..n -> Seq(Nat)] /\ \A i \in 1..n : f[i] = <<>>
  OBVIOUS
<1>2. PICK a : AreCounts(a, n, f, x)
  BY <1>1, CountsShape
<1>3. IsZero(n, a)
  BY <1>1, <1>2, CountInNothing DEF IsZero, AreCounts
<1>4. SumTo(n, a) = 0
  BY <1>3, SumOfZeros
<1>. QED
  BY <1>2, <1>4 DEF AreCounts


(* the texts of the directory's files, and as much of each as has been handed out *)
Texts == [f \in 1..Len(dir) |-> IF f \in Files THEN dir[f] ELSE <<>>]
Begun == [f \in 1..Len(dir) |-> IF f \in Files THEN SubSeq(dir[f], 1, src.offset[f]) ELSE <<>>]

(* how often a word occurs in the files *)
Owes(x) == Count(AllWords, x)

LEMMA TextsShape ==
  ASSUME PlaceInv, NEW x
  PROVE  /\ Len(dir) \in Nat /\ Texts \in [1..Len(dir) -> Seq(Characters)]
         /\ Owes(x) = InAll(Texts, x) /\ Owes(x) \in Nat
<1>1. Len(dir) \in Nat /\ DOMAIN dir = 1..Len(dir)
  BY InputShape
<1>2. Texts \in [1..Len(dir) -> Seq(Characters)]
  BY InputShape DEF Texts, Characters
<1>3. [f \in DOMAIN dir |-> IF dir[f] = Directory THEN <<>> ELSE dir[f]] = Texts
  BY <1>1 DEF Texts, Files
<1>4. Texts \in Seq(Seq(Characters)) /\ Len(Texts) = Len(dir)
  BY <1>1, <1>2
<1>5. AllWords = FlattenSeq(Texts)
  BY <1>3 DEF AllWords
<1>. HIDE DEF Texts
<1>6. Count(FlattenSeq(Texts), x) = InAll(Texts, x)
  BY <1>4, CountInJoined
<1>7. InAll(Texts, x) \in Nat
  BY <1>4, CountsOfShape
<1>. QED
  BY <1>1, <1>2, <1>5, <1>6, <1>7 DEF Owes

OffsetsShape(f) == src.offset[f] \in Nat /\ src.offset[f] <= Len(dir[f]) /\ dir[f] \in Seq(Characters)

LEMMA OffsetsAre ==
  ASSUME PlaceInv, SourceShape, DividedInv, NEW f \in Files
  PROVE  OffsetsShape(f)
<1>1. src.offset[f] \in LineEnds(f) /\ dir[f] \in Seq(Characters)
  BY InputShape DEF DividedInv, Characters
<1>. QED
  BY <1>1, LineEndsShape DEF OffsetsShape

LEMMA BegunShape ==
  ASSUME PlaceInv, SourceShape, DividedInv
  PROVE  Begun \in [1..Len(dir) -> Seq(Characters)]
<1>1. ASSUME NEW f \in Files PROVE SubSeq(dir[f], 1, src.offset[f]) \in Seq(Characters)
  <2>1. src.offset[f] \in Nat /\ src.offset[f] <= Len(dir[f]) /\ dir[f] \in Seq(Characters)
    BY OffsetsAre DEF OffsetsShape
  <2>. QED
    BY <2>1, PartsJoin
<1>. QED
  BY <1>1 DEF Begun

LEMMA BegunIsLess ==
  ASSUME PlaceInv, SourceShape, DividedInv, NEW x
  PROVE  /\ InAll(Begun, x) \in Nat /\ InAll(Begun, x) <= Owes(x)
         /\ (\A f \in Files : src.offset[f] = Len(dir[f])) => InAll(Begun, x) = Owes(x)
<1>. DEFINE n == Len(dir)
<1>1. n \in Nat /\ Texts \in [1..n -> Seq(Characters)] /\ Owes(x) = InAll(Texts, x)
  BY TextsShape
<1>2. Begun \in [1..n -> Seq(Characters)]
  BY BegunShape
<1>3. NoMore(n, Begun, Texts, x)
  <2>. SUFFICES ASSUME NEW f \in 1..n PROVE Count(Begun[f], x) <= Count(Texts[f], x)
    BY DEF NoMore
  <2>1. CASE f \in Files
    <3>1. src.offset[f] \in Nat /\ src.offset[f] <= Len(dir[f]) /\ dir[f] \in Seq(Characters)
      BY <2>1, OffsetsAre DEF OffsetsShape
    <3>2. Count(SubSeq(dir[f], 1, src.offset[f]), x) <= Count(dir[f], x)
      BY <3>1, PartIsLess
    <3>. QED
      BY <2>1, <3>2 DEF Begun, Texts
  <2>2. CASE f \notin Files
    <3>1. Begun[f] = <<>> /\ Texts[f] = <<>>
      BY <2>2 DEF Begun, Texts
    <3>. QED
      BY <3>1, CountInNothing
  <2>. QED
    BY <2>1, <2>2
<1>4. ASSUME \A f \in Files : src.offset[f] = Len(dir[f]) PROVE Begun = Texts
  <2>1. ASSUME NEW f \in Files PROVE SubSeq(dir[f], 1, src.offset[f]) = dir[f]
    <3>1. dir[f] \in Seq(Characters) /\ src.offset[f] = Len(dir[f])
      BY <1>4, OffsetsAre DEF OffsetsShape
    <3>. QED
      BY <3>1, WholeAndNothing
  <2>. QED
    BY <2>1 DEF Begun, Texts
<1>. HIDE DEF n, Begun, Texts
<1>5. InAll(Begun, x) \in Nat /\ InAll(Begun, x) <= InAll(Texts, x)
  BY <1>1, <1>2, <1>3, InAllIsLess
<1>. QED
  BY <1>1, <1>4, <1>5

LEMMA BegunGrows ==
  ASSUME PlaceInv, SourceShape, DividedInv, dir' = dir, NEW f \in Files,
         src'.offset = [src.offset EXCEPT ![f] = SegmentEnd(src, dir, f)], NEW x
  PROVE  /\ SegmentOf(src, dir, f) \in Seq(Characters)
         /\ InAll(Begun', x) = InAll(Begun, x) + Count(SegmentOf(src, dir, f), x)
<1>. DEFINE n == Len(dir)
            o == src.offset[f]
            e == SegmentEnd(src, dir, f)
            a == SubSeq(dir[f], 1, o)
            c == SubSeq(dir[f], 1, e)
            s == SubSeq(dir[f], o + 1, e)
<1>1. o \in Nat /\ o <= Len(dir[f]) /\ dir[f] \in Seq(Characters)
  BY OffsetsAre DEF OffsetsShape
<1>2. e \in Nat /\ o <= e /\ e <= Len(dir[f])
  <2>1. e \in LineEnds(f) /\ o <= e /\ e <= Len(dir[f])
    BY <1>1, SegmentBounds
  <2>. QED
    BY <2>1, LineEndsShape
<1>3. src'.offset[f] = e /\ \A g \in Files : g # f => src'.offset[g] = src.offset[g]
  <2>1. src.offset \in [DOMAIN dir -> Nat] /\ Files \subseteq DOMAIN dir
    BY DEF SourceShape, Files
  <2>. HIDE DEF e
  <2>2. src'.offset = [src.offset EXCEPT ![f] = e]
    BY DEF e
  <2>. QED
    BY <2>1, <2>2
<1>4. SegmentOf(src, dir, f) = s
  BY DEF SegmentOf
<1>5. n \in Nat /\ f \in 1..n /\ Files' = Files
  BY InputShape DEF Files
<1>6. Begun[f] = a /\ Begun'[f] = c
  <2>1. Begun[f] = a
    BY <1>5 DEF Begun
  <2>2. Begun'[f] = SubSeq(dir[f], 1, src'.offset[f])
    BY <1>5 DEF Begun
  <2>. QED
    BY <1>3, <2>1, <2>2
<1>7. \A g \in 1..n : g # f => Begun'[g] = Begun[g]
  BY <1>3, <1>5 DEF Begun
<1>8. Begun \in [1..n -> Seq(Characters)] /\ Begun' = [g \in 1..n |-> Begun'[g]]
  <2>1. Begun \in [1..n -> Seq(Characters)]
    BY BegunShape
  <2>2. Begun' = [g \in 1..n |-> Begun'[g]]
    BY <1>5 DEF Begun
  <2>. QED
    BY <2>1, <2>2
<1>. HIDE DEF n, o, e, Begun
<1>9. /\ s \in Seq(Characters) /\ a \in Seq(Characters) /\ c \in Seq(Characters)
      /\ Count(c, x) = Count(a, x) + Count(s, x)
  BY <1>1, <1>2, PartsJoin
<1>. HIDE DEF a, c, s
<1>10. AlikeBut(Characters, n, Begun, Begun', f)
  <2>1. Begun' \in [1..n -> Seq(Characters)]
    BY <1>6, <1>7, <1>8, <1>9
  <2>. QED
    BY <1>5, <1>7, <1>8, <2>1 DEF AlikeBut
<1>11. /\ InAll(Begun, x) \in Nat /\ InAll(Begun', x) \in Nat
       /\ InAll(Begun', x) + Count(Begun[f], x) = InAll(Begun, x) + Count(Begun'[f], x)
  BY <1>5, <1>10, InAllChanges
<1>12. Count(a, x) \in Nat /\ Count(s, x) \in Nat /\ Count(c, x) \in Nat
  BY <1>9, CountIsSum
<1>13. PICK i \in Nat : i = InAll(Begun, x)
  BY <1>11
<1>14. PICK j \in Nat : j = InAll(Begun', x)
  BY <1>11
<1>15. PICK k \in Nat : k = Count(a, x)
  BY <1>12
<1>16. PICK l \in Nat : l = Count(s, x)
  BY <1>12
<1>17. j + k = i + (k + l)
  BY <1>6, <1>9, <1>11, <1>13, <1>14, <1>15, <1>16
<1>18. j = i + l
  BY <1>17
<1>. QED
  BY <1>4, <1>9, <1>13, <1>14, <1>16, <1>18


(* what threads have in hand that is not in the store yet *)
Handing == [w \in 1..Max(Cpus) |-> IF At(w, "task") THEN thr[w].data ELSE <<>>]
TasksRead == \A w \in Slots : At(w, "task") => thr[w].data \in Seq(Characters)

LEMMA SlotsShape == Max(Cpus) \in Nat /\ Slots = 1..Max(Cpus)
<1>1. Cpus \subseteq Nat \ {0} /\ Cpus # {} /\ IsFiniteSet(Cpus)
  BY DiskAssumption
<1>2. Max(Cpus) \in Cpus
  BY <1>1, LargestIsMember
<1>. QED
  BY <1>1, <1>2 DEF Slots

LEMMA HandsChange ==
  ASSUME TasksRead, TasksRead', NEW w \in Slots, \A v \in Slots : v # w => thr'[v] = thr[v], NEW x
  PROVE  /\ InAll(Handing, x) \in Nat /\ InAll(Handing', x) \in Nat
         /\ Count(Handing[w], x) \in Nat /\ Count(Handing'[w], x) \in Nat
         /\ InAll(Handing', x) + Count(Handing[w], x) = InAll(Handing, x) + Count(Handing'[w], x)
<1>. DEFINE n == Max(Cpus)
<1>1. n \in Nat /\ Slots = 1..n
  BY SlotsShape
<1>2. Handing \in [1..n -> Seq(Characters)]
  BY <1>1 DEF Handing, TasksRead
<1>3. Handing' \in [1..n -> Seq(Characters)]
  <2>1. \A v \in Slots : thr'[v].at = "task" => thr'[v].data \in Seq(Characters)
    BY DEF TasksRead, At, Slots, Characters
  <2>. QED
    BY <1>1, <2>1 DEF Handing, At
<1>4. \A v \in 1..n : v # w => Handing'[v] = Handing[v]
  BY <1>1 DEF Handing, At
<1>. HIDE DEF n, Handing
<1>5. AlikeBut(Characters, n, Handing, Handing', w)
  BY <1>1, <1>2, <1>3, <1>4 DEF AlikeBut
<1>6. Handing[w] \in Seq(Characters) /\ Handing'[w] \in Seq(Characters)
  BY <1>1, <1>2, <1>3
<1>. QED
  BY <1>1, <1>5, <1>6, InAllChanges, CountIsSum

(* So far the store has been given what was read and is in nobody's hands, but for what was
   lost with an error; and a partition's files have nothing else than records of its words. *)
Stored(x) == InAll(store[Part[x]].fragments, <<x, 1>>)
Balance(given, handing, read) == given + handing <= read /\ (~reported => given + handing = read)
CountedInv ==
  phase = "map" =>
    /\ TasksRead
    /\ \A p \in Partitions : \A r \in Pairs \ WordRecords(p) : InAll(store[p].fragments, r) = 0
    /\ \A x \in Words : Balance(Stored(x), InAll(Handing, x), InAll(Begun, x))

LEMMA WordFacts ==
  ASSUME NEW x \in Words
  PROVE  Part[x] \in Partitions /\ <<x, 1>> \in Pairs /\ <<x, 1>> \in WordRecords(Part[x]) /\ x \in Nat \ {0}
<1>1. Words \subseteq Nat \ {0} /\ Part \in [Words -> 0..(P - 1)]
  BY DiskAssumption
<1>. QED
  BY <1>1 DEF Partitions, Pairs, WordRecords

LEMMA StoredIsNumber ==
  ASSUME NEW p, AreFiles(store[p].fragments), NEW r
  PROVE  InAll(store[p].fragments, r) \in Nat
<1>1. store[p].fragments \in Seq(Seq(Pairs))
  BY DEF AreFiles
<1>. QED
  BY <1>1, CountsOfShape

LEMMA CountedStays ==
  ASSUME PlaceInv, SourceShape, DividedInv, MergeInv, CountedInv, phase = "map",
         store' = store, dir' = dir, src'.offset = src.offset, ~reported' => ~reported,
         NEW w \in Slots, \A v \in Slots : v # w => thr'[v] = thr[v],
         thr'[w].at # "task" \/ thr'[w].data = <<>>, ~At(w, "task") \/ reported'
  PROVE  CountedInv'
<1>1. TasksRead /\ TasksRead'
  <2>1. <<>> \in Seq(Characters)
    OBVIOUS
  <2>. QED
    BY <2>1 DEF CountedInv, TasksRead, At, Slots, Characters
<1>2. Begun' = Begun
  BY DEF Begun, Files
<1>3. ASSUME NEW x \in Words
      PROVE  Balance(Stored(x), InAll(Handing, x), InAll(Begun, x))'
  <2>1. PICK s \in Nat : s = Stored(x)
    BY WordFacts, StoredIsNumber DEF MergeInv, Stored
  <2>2. Stored(x)' = s
    BY <2>1 DEF Stored
  <2>3. PICK b \in Nat : b = InAll(Begun, x)
    BY BegunIsLess
  <2>4. /\ InAll(Handing, x) \in Nat /\ InAll(Handing', x) \in Nat
        /\ Count(Handing[w], x) \in Nat
        /\ InAll(Handing', x) + Count(Handing[w], x) = InAll(Handing, x) + Count(Handing'[w], x)
    BY <1>1, HandsChange
  <2>5. Count(Handing'[w], x) = 0 /\ (~At(w, "task") => Count(Handing[w], x) = 0)
    <3>1. Handing'[w] = <<>> /\ (~At(w, "task") => Handing[w] = <<>>)
      BY SlotsShape DEF Handing, At
    <3>. QED
      BY <3>1, CountInNothing
  <2>6. PICK h \in Nat : h = InAll(Handing, x)
    BY <2>4
  <2>7. PICK g \in Nat : g = InAll(Handing', x)
    BY <2>4
  <2>8. PICK c \in Nat : c = Count(Handing[w], x)
    BY <2>4
  <2>9. s + h <= b /\ (~reported => s + h = b)
    BY <2>1, <2>3, <2>6 DEF CountedInv, Balance
  <2>10. g + c = h /\ (~reported' => c = 0)
    BY <2>4, <2>5, <2>6, <2>7, <2>8
  <2>11. s + g <= b /\ (~reported' => s + g = b)
    BY <2>9, <2>10
  <2>12. InAll(Handing, x)' = g /\ InAll(Begun, x)' = b
    BY <1>2, <2>3, <2>7
  <2>. QED
    BY <2>2, <2>11, <2>12 DEF Balance
<1>4. \A p \in Partitions : \A r \in Pairs \ WordRecords(p) : InAll(store[p].fragments, r)' = 0
  BY DEF CountedInv
<1>. QED
  BY <1>1, <1>3, <1>4 DEF CountedInv, Partitions, Pairs, WordRecords


LEMMA CountedInit == Init => CountedInv
<1>. SUFFICES ASSUME Init PROVE CountedInv
  OBVIOUS
<1>1. \A f \in Files : src.offset[f] = 0
  <2>1. src = [next |-> 1, current |-> NoFile, opened |-> {}, offset |-> [i \in DOMAIN dir |-> 0]]
    BY DEF Init, Opening, NoSource
  <2>. QED
    BY <2>1 DEF Files
<1>2. \A w \in Slots : ~At(w, "task")
  BY DEF Init, At
<1>3. ASSUME NEW p \in Partitions, NEW r PROVE InAll(store[p].fragments, r) = 0
  <2>1. store[p].fragments = <<>>
    BY EmptyEntry DEF Init
  <2>2. <<>> = [i \in 1..0 |-> <<>>]
    OBVIOUS
  <2>. QED
    BY <2>1, <2>2, NothingIsIn
<1>4. ASSUME NEW x PROVE InAll(Handing, x) = 0
  <2>1. Handing = [w \in 1..Max(Cpus) |-> <<>>]
    BY <1>2, SlotsShape DEF Handing
  <2>. QED
    BY <2>1, SlotsShape, NothingIsIn
<1>5. ASSUME NEW x PROVE InAll(Begun, x) = 0
  <2>1. PlaceInv
    BY PlaceInit
  <2>2. ASSUME NEW f \in Files PROVE SubSeq(dir[f], 1, src.offset[f]) = <<>>
    <3>1. dir[f] \in Seq(Words \union {Newline})
      BY <2>1, InputShape
    <3>. QED
      BY <1>1, <3>1, WholeAndNothing
  <2>3. Begun = [f \in 1..Len(dir) |-> <<>>]
    BY <2>2 DEF Begun
  <2>4. Len(dir) \in Nat
    BY <2>1, InputShape
  <2>. QED
    BY <2>3, <2>4, NothingIsIn
<1>6. \A x \in Words : Balance(Stored(x), InAll(Handing, x), InAll(Begun, x))
  <2>. SUFFICES ASSUME NEW x \in Words PROVE Balance(Stored(x), InAll(Handing, x), InAll(Begun, x))
    OBVIOUS
  <2>1. Stored(x) = 0
    BY <1>3, WordFacts DEF Stored
  <2>2. InAll(Handing, x) = 0 /\ InAll(Begun, x) = 0
    BY <1>4, <1>5
  <2>. QED
    BY <2>1, <2>2 DEF Balance
<1>. QED
  BY <1>2, <1>3, <1>6 DEF CountedInv, TasksRead

LEMMA CountedGetData ==
  ASSUME PlaceInv, SourceShape, DividedInv, MergeInv, CountedInv, dir' = dir, ~reported' => ~reported,
         NEW w \in Slots, GetData(w)
  PROVE  CountedInv'
<1>. DEFINE k == thr[w].key
<1>1. phase = "map" /\ ~At(w, "task") /\ k \in Files
  BY DEF GetData, PlaceInv, At
<1>2. CASE AssertFails(src, k)
  <2>1. phase' = "aborted"
    BY <1>2 DEF GetData, Aborts
  <2>. QED
    BY <2>1 DEF CountedInv
<1>3. CASE ~AssertFails(src, k) /\ GivesUp(w) /\ src' = AfterFailure(src, k)
  <2>1. /\ thr' = [thr EXCEPT ![w].at = IF policy = "sequential" THEN "done" ELSE "key"]
        /\ phase' = phase /\ reported' /\ store' = store /\ src' = AfterFailure(src, k)
    BY <1>3 DEF GetData, GivesUp, Goto
  <2>2. thr'[w].at # "task" /\ \A v \in Slots : v # w => thr'[v] = thr[v]
    <3>1. thr = [v \in Slots |-> thr[v]] /\ IsThread(thr[w])
      BY DEF PlaceInv
    <3>2. thr'[w] = [thr[w] EXCEPT !.at = IF policy = "sequential" THEN "done" ELSE "key"]
      BY <2>1, <3>1
    <3>3. thr'[w].at = IF policy = "sequential" THEN "done" ELSE "key"
      BY <3>1, <3>2 DEF IsThread
    <3>. QED
      BY <2>1, <3>1, <3>3
  <2>3. src'.offset = src.offset
    <3>1. src' = [src EXCEPT !.current = k]
      BY <2>1 DEF AfterFailure
    <3>. QED
      BY <3>1 DEF SourceShape
  <2>. QED
    BY <1>1, <2>1, <2>2, <2>3, CountedStays
<1>4. CASE ~AssertFails(src, k) /\ ~(GivesUp(w) /\ src' = AfterFailure(src, k))
  <2>0. /\ thr' = [thr EXCEPT ![w].data = SegmentOf(src, dir, k), ![w].at = "task"]
        /\ phase' = phase /\ store' = store /\ reported' = reported
        /\ src' = AfterData(src, dir, k)
    BY <1>4 DEF GetData
  <2>1. thr'[w].at = "task" /\ thr'[w].data = SegmentOf(src, dir, k) /\ Only(w)
    <3>1. thr = [v \in Slots |-> thr[v]] /\ IsThread(thr[w])
      BY DEF PlaceInv
    <3>2. PICK segment : segment = SegmentOf(src, dir, k)
      OBVIOUS
    <3>3. thr'[w] = [thr[w] EXCEPT !.data = segment, !.at = "task"]
      BY <2>0, <3>1, <3>2
    <3>4. thr'[w].at = "task" /\ thr'[w].data = segment
      BY <3>1, <3>3 DEF IsThread
    <3>5. phase' # "aborted"
      BY <1>1, <2>0
    <3>6. Only(w)
      BY <3>5, GetDataMoves
    <3>. QED
      BY <3>2, <3>4, <3>6
  <2>2. src'.offset = [src.offset EXCEPT ![k] = SegmentEnd(src, dir, k)]
    <3>. DEFINE e == SegmentEnd(src, dir, k)
                c == IF Reach(src, dir, k) = Len(dir[k]) THEN NoFile ELSE k
                o == src.opened \union {k}
    <3>1. src' = [src EXCEPT !.current = c, !.opened = o, !.offset[k] = e]
      BY <2>0, Zenon DEF AfterData
    <3>. HIDE DEF e, c, o, k
    <3>2. src'.offset = [src.offset EXCEPT ![k] = e]
      BY <3>1 DEF SourceShape
    <3>. QED
      BY <3>2 DEF e
  <2>. PICK seg : seg = SegmentOf(src, dir, k)
    OBVIOUS
  <2>3. seg \in Seq(Characters) /\ \A x : InAll(Begun', x) = InAll(Begun, x) + Count(seg, x)
    BY <1>1, <2>2, BegunGrows
  <2>4. TasksRead /\ TasksRead'
    <3>1. TasksRead
      BY <1>1 DEF CountedInv
    <3>2. \A v \in Slots : thr'[v].at = "task" => thr'[v].data \in Seq(Characters)
      BY <2>1, <2>3, <3>1 DEF TasksRead, At, Only
    <3>. QED
      BY <3>1, <3>2 DEF TasksRead, At, Slots, Characters
  <2>5. ASSUME NEW x \in Words
        PROVE  Balance(Stored(x), InAll(Handing, x), InAll(Begun, x))'
    <3>1. PICK s \in Nat : s = Stored(x)
      BY <1>1, WordFacts, StoredIsNumber DEF MergeInv, Stored
    <3>2. Stored(x)' = s
      BY <2>0, <3>1 DEF Stored
    <3>3. PICK b \in Nat : b = InAll(Begun, x)
      BY BegunIsLess
    <3>4. PICK c \in Nat : c = Count(seg, x)
      BY <2>3, CountIsSum
    <3>5. InAll(Begun', x) = b + c
      BY <2>3, <3>3, <3>4
    <3>6. /\ InAll(Handing, x) \in Nat /\ InAll(Handing', x) \in Nat
          /\ InAll(Handing', x) + Count(Handing[w], x) = InAll(Handing, x) + Count(Handing'[w], x)
      BY <2>1, <2>4, HandsChange DEF Only
    <3>7. Handing[w] = <<>> /\ Handing'[w] = seg
      <4>1. ~(thr[w].at = "task") /\ thr'[w].at = "task" /\ thr'[w].data = seg
        BY <1>1, <2>1 DEF At
      <4>. QED
        BY <4>1, SlotsShape DEF Handing, At
    <3>8. Count(Handing[w], x) = 0 /\ Count(Handing'[w], x) = c
      BY <3>4, <3>7, CountInNothing
    <3>9. PICK h \in Nat : h = InAll(Handing, x)
      BY <3>6
    <3>10. InAll(Handing', x) = h + c
      BY <3>6, <3>8, <3>9
    <3>11. s + h <= b /\ (~reported => s + h = b)
      BY <1>1, <3>1, <3>3, <3>9 DEF CountedInv, Balance
    <3>12. s + (h + c) <= b + c /\ (~reported' => s + (h + c) = b + c)
      BY <2>0, <3>11
    <3>13. InAll(Handing, x)' = h + c /\ InAll(Begun, x)' = b + c
      BY <3>5, <3>10
    <3>. QED
      BY <3>2, <3>12, <3>13 DEF Balance
  <2>6. \A p \in Partitions : \A r \in Pairs \ WordRecords(p) : InAll(store[p].fragments, r)' = 0
    BY <1>1, <2>0 DEF CountedInv
  <2>. QED
    BY <2>4, <2>5, <2>6 DEF CountedInv, Partitions, Pairs, WordRecords
<1>. QED
  BY <1>2, <1>3, <1>4

LEMMA CountedMapTask ==
  ASSUME PlaceInv, SourceShape, DividedInv, MergeInv, CountedInv, dir' = dir, ~reported' => ~reported,
         NEW w \in Slots, MapTask(w)
  PROVE  CountedInv'
<1>. DEFINE file(d, p) == Ordered(Ordered(RecordsFor(d, p)))
<1>1. /\ Only(w) /\ phase = "map" /\ phase' = phase /\ At(w, "task") /\ thr'[w].at = "key"
      /\ src' = src /\ reported' = reported
  BY MapTaskMoves DEF MapTask
<1>2. PICK data \in Seq(Characters) : data = thr[w].data
  BY <1>1 DEF CountedInv, TasksRead
<1>3. \A p \in Partitions :
        store'[p] = IF p \notin Filled(data) THEN store[p] ELSE Entry(Append(store[p].fragments, file(data, p)))
  BY <1>2 DEF MapTask, Merged
<1>4. TasksRead /\ TasksRead'
  <2>1. TasksRead
    BY <1>1 DEF CountedInv
  <2>. QED
    BY <1>1, <2>1 DEF TasksRead, At, Slots, Characters, Only
<1>5. ASSUME NEW p \in Partitions, NEW r \in Pairs
      PROVE  /\ InAll(store[p].fragments, r) \in Nat
             /\ InAll(store'[p].fragments, r)
                  = InAll(store[p].fragments, r) + IF r \in WordRecords(p) THEN Count(data, r[1]) ELSE 0
  <2>1. AreFiles(store[p].fragments)
    BY <1>1 DEF MergeInv
  <2>2. InAll(store[p].fragments, r) \in Nat
    BY <2>1, StoredIsNumber
  <2>3. CASE p \in Filled(data)
    <3>1. PICK f \in Seq(Pairs) : f = file(data, p) /\ Ascends(f)
      <4>1. IsSeq(data)
        BY DEF IsSeq
      <4>. QED
        BY <4>1, TaskFile
    <3>2. Count(f, r) = IF r \in WordRecords(p) THEN Count(data, r[1]) ELSE 0
      BY <3>1, TaskFileIs
    <3>3. PICK old : old = store[p].fragments
      OBVIOUS
    <3>. HIDE DEF file
    <3>4. store'[p].fragments = Append(old, f)
      <4>1. store'[p] = Entry(Append(old, f))
        BY <1>3, <2>3, <3>1, <3>3
      <4>2. Entry(Append(old, f)).fragments = Append(old, f)
        BY DEF Entry
      <4>. QED
        BY <4>1, <4>2
    <3>5. InAll(Append(old, f), r) = InAll(old, r) + Count(f, r)
      BY <2>1, <3>1, <3>3, AppendIsFiles
    <3>. QED
      BY <2>2, <3>2, <3>3, <3>4, <3>5
  <2>4. CASE p \notin Filled(data)
    <3>1. store'[p] = store[p]
      BY <1>3, <2>4
    <3>2. r \in WordRecords(p) => Count(data, r[1]) = 0
      <4>. SUFFICES ASSUME r \in WordRecords(p) PROVE Count(data, r[1]) = 0
        OBVIOUS
      <4>1. r[1] \in Words /\ Part[r[1]] = p
        BY DEF WordRecords
      <4>2. r[1] \notin Range(data)
        BY <2>4, <4>1 DEF Filled
      <4>. QED
        BY <4>2, CountOfNone
    <3>. QED
      BY <2>2, <3>1, <3>2
  <2>. QED
    BY <2>3, <2>4
<1>6. Begun' = Begun
  BY <1>1 DEF Begun, Files
<1>. HIDE DEF file
<1>7. ASSUME NEW x \in Words
      PROVE  Balance(Stored(x), InAll(Handing, x), InAll(Begun, x))'
  <2>1. PICK s \in Nat : s = Stored(x)
    BY <1>1, WordFacts, StoredIsNumber DEF MergeInv, Stored
  <2>2. PICK b \in Nat : b = InAll(Begun, x)
    BY BegunIsLess
  <2>3. PICK c \in Nat : c = Count(data, x)
    BY CountIsSum
  <2>4. InAll(store'[Part[x]].fragments, <<x, 1>>) = s + c
    <3>1. /\ Part[x] \in Partitions /\ <<x, 1>> \in Pairs /\ <<x, 1>> \in WordRecords(Part[x])
          /\ <<x, 1>>[1] = x
      BY WordFacts
    <3>2. InAll(store'[Part[x]].fragments, <<x, 1>>) = InAll(store[Part[x]].fragments, <<x, 1>>) + Count(data, x)
      BY <1>5, <3>1
    <3>. QED
      BY <2>1, <2>3, <3>2 DEF Stored
  <2>5. /\ InAll(Handing, x) \in Nat /\ InAll(Handing', x) \in Nat
        /\ InAll(Handing', x) + Count(Handing[w], x) = InAll(Handing, x) + Count(Handing'[w], x)
    BY <1>1, <1>4, HandsChange DEF Only
  <2>6. Handing[w] = data /\ Handing'[w] = <<>>
    BY <1>1, <1>2, SlotsShape DEF Handing, At
  <2>7. Count(Handing[w], x) = c /\ Count(Handing'[w], x) = 0
    BY <2>3, <2>6, CountInNothing
  <2>8. PICK h \in Nat : h = InAll(Handing', x)
    BY <2>5
  <2>9. InAll(Handing, x) = h + c
    BY <2>5, <2>7, <2>8
  <2>10. s + (h + c) <= b /\ (~reported => s + (h + c) = b)
    BY <1>1, <2>1, <2>2, <2>9 DEF CountedInv, Balance
  <2>11. (s + c) + h <= b /\ (~reported' => (s + c) + h = b)
    BY <1>1, <2>10
  <2>12. Stored(x)' = s + c /\ InAll(Handing, x)' = h /\ InAll(Begun, x)' = b
    BY <1>6, <2>2, <2>4, <2>8 DEF Stored
  <2>. QED
    BY <2>11, <2>12 DEF Balance
<1>8. \A p \in Partitions : \A r \in Pairs \ WordRecords(p) : InAll(store[p].fragments, r)' = 0
  BY <1>1, <1>5 DEF CountedInv
<1>. QED
  BY <1>4, <1>7, <1>8 DEF CountedInv, Partitions, Pairs, WordRecords

LEMMA CountedNext ==
  ASSUME PlaceInv, SourceShape, DividedInv, MergeInv, CountedInv, [Next]_vars
  PROVE  CountedInv'
<1>1. dir' = dir /\ (~reported' => ~reported)
  BY InputStays, ErrorsStay
<1>2. ASSUME NEW w \in Slots, NextKey(w) PROVE CountedInv'
  <2>1. Only(w) /\ phase = "map" /\ At(w, "key") /\ thr'[w].at # "task" /\ store' = store
    BY <1>2, NextKeyMoves DEF NextKey
  <2>2. src'.offset = src.offset
    BY <1>2, NextKeySource
  <2>. QED
    BY <1>1, <2>1, <2>2, CountedStays DEF Only, At
<1>3. ASSUME NEW w \in Slots, GetData(w) PROVE CountedInv'
  BY <1>1, <1>3, CountedGetData
<1>4. ASSUME NEW w \in Slots, MapTask(w) PROVE CountedInv'
  BY <1>1, <1>4, CountedMapTask
<1>5. ASSUME NEW w \in Slots, MapThrows(w) \/ CombineFails(w) PROVE CountedInv'
  <2>1. Only(w) /\ phase = "map" /\ reported' /\ thr'[w].at # "task" /\ store' = store /\ src' = src
    BY <1>5, MapThrowsMoves, CombineFailsMoves DEF MapThrows, CombineFails
  <2>. QED
    BY <1>1, <2>1, CountedStays DEF Only
<1>9. ASSUME NEW w \in Slots, GetNothing(w) PROVE CountedInv'
  <2>1. Only(w) /\ phase = "map" /\ ~At(w, "task") /\ thr'[w].data = <<>> /\ store' = store
    BY <1>9, GetNothingMoves DEF GetNothing, At
  <2>2. src'.offset = src.offset
    BY <1>9, GetNothingSource
  <2>. QED
    BY <1>1, <2>1, <2>2, CountedStays DEF Only
<1>10. ASSUME NEW w \in Slots, Breaks(w) PROVE CountedInv'
  BY <1>10, BreaksMoves DEF CountedInv
<1>6. CASE JoinMaps \/ JoinShuffles \/ JoinReducers \/ \E p \in Partitions : Shuffle(p)
  <2>1. phase' # "map"
    <3>1. CASE JoinMaps
      BY <3>1 DEF JoinMaps, Aborts
    <3>2. CASE JoinShuffles \/ JoinReducers
      BY <3>2 DEF JoinShuffles, JoinReducers
    <3>3. ASSUME NEW p \in Partitions, Shuffle(p) PROVE phase' # "map"
      BY <3>3 DEF Shuffle, Unmerged
    <3>. QED
      BY <1>6, <3>1, <3>2, <3>3
  <2>. QED
    BY <2>1 DEF CountedInv
<1>7. ASSUME NEW w \in Slots, ReduceStep(w) PROVE CountedInv'
  <2>1. phase' = "reduce" \/ phase' = "aborted"
    BY <1>7 DEF ReduceStep, Claim, Find, Erase, Crash, Reduce, ReduceThrows, Reduces, Aborts
  <2>. QED
    BY <2>1 DEF CountedInv
<1>8. CASE UNCHANGED vars
  <2>1. /\ phase' = phase /\ thr' = thr /\ store' = store /\ src' = src /\ dir' = dir /\ reported' = reported
    BY <1>8 DEF vars
  <2>2. Begun' = Begun /\ Handing' = Handing /\ TasksRead' = TasksRead
    BY <2>1 DEF Begun, Handing, TasksRead, Files, At, Slots, Characters
  <2>. QED
    BY <2>1, <2>2 DEF CountedInv, Stored, Balance, Partitions, Pairs, WordRecords
<1>. QED
  BY <1>2, <1>3, <1>4, <1>5, <1>6, <1>7, <1>8, <1>9, <1>10 DEF Next, Work, MapStep, Breaks, Over


(* a number of a record of partition p that is what the files have, or less after an error *)
RightCount(n, r, p) ==
  IF r \in WordRecords(p) THEN n \in Nat /\ n <= Owes(r[1]) /\ (~reported => n = Owes(r[1])) ELSE n = 0
RightFiles(files, p) == \A r \in Pairs : RightCount(InAll(files, r), r, p)
RightFile(file, p) ==
  file \in Seq(Pairs) /\ Ascends(file) /\ \A r \in Pairs : RightCount(Count(file, r), r, p)

(* the rows of partition p hold what the files have, or less after an error *)
NotTooMuch(rows, x) == Tallied(rows, x).list[1] \in Nat /\ Tallied(rows, x).list[1] <= Owes(x)
RightRows(rows, p) ==
  \A x \in Words : Part[x] = p =>
    NotTooMuch(rows, x) /\ (~reported => Tallied(rows, x) = TallyOf(Owes(x)))

LEMMA RightCarries ==
  ASSUME dir' = dir, ~reported' => ~reported, NEW f, NEW p
  PROVE  /\ RightFiles(f, p) => RightFiles(f, p)'
         /\ RightFile(f, p) => RightFile(f, p)'
         /\ RightRows(f, p) => RightRows(f, p)'
<1>1. \A x : Owes(x)' = Owes(x)
  BY DEF Owes, AllWords
<1>2. \A n, r : RightCount(n, r, p) => RightCount(n, r, p)'
  BY <1>1 DEF RightCount, WordRecords, Pairs
<1>3. RightFiles(f, p) => RightFiles(f, p)'
  BY <1>2 DEF RightFiles, Pairs
<1>4. RightFile(f, p) => RightFile(f, p)'
  BY <1>2 DEF RightFile, Pairs
<1>5. RightRows(f, p) => RightRows(f, p)'
  BY <1>1 DEF RightRows, NotTooMuch
<1>. QED
  BY <1>3, <1>4, <1>5

LEMMA RightIsWordFile ==
  ASSUME NEW file, NEW p, RightFile(file, p)
  PROVE  IsWordFile(file)
<1>1. /\ file \in Seq(Pairs) /\ Ascends(file) /\ \A r \in Pairs : RightCount(Count(file, r), r, p)
  BY DEF RightFile
<1>2. ASSUME NEW i \in 1..Len(file) PROVE file[i] \in WordRecords(p)
  <2>1. PICK r \in Pairs : r = file[i]
    BY <1>1
  <2>2. IsFiniteSet(Places(file, r)) /\ i \in Places(file, r)
    BY <1>1, <2>1, CountIsSum DEF Places
  <2>3. Count(file, r) = Cardinality(Places(file, r))
    BY DEF Count, Places
  <2>4. Cardinality(Places(file, r)) # 0
    BY <2>2, FS_EmptySet
  <2>. QED
    BY <1>1, <2>1, <2>3, <2>4 DEF RightCount
<1>3. ASSUME NEW i \in 1..Len(file) PROVE file[i] \in Singles /\ file[i][1] # 0
  <2>1. file[i] \in Pairs /\ file[i][1] \in Words /\ file[i][2] = 1
    BY <1>2 DEF WordRecords
  <2>. QED
    BY <2>1, DiskAssumption DEF Pairs, Singles
<1>4. file \in Seq(Singles)
  BY <1>1, <1>3
<1>. QED
  BY <1>1, <1>3, <1>4 DEF IsWordFile

LEMMA RightResults ==
  ASSUME PlaceInv, NEW file, NEW p, RightFile(file, p)
  PROVE  /\ RightRows(Results(Calls(file)), p)
         /\ \A n \in 0..Len(Calls(file)) : \A x \in Words :
              Part[x] = p => NotTooMuch(Results(SubSeq(Calls(file), 1, n)), x)
<1>1. IsWordFile(file)
  BY RightIsWordFile
<1>. SUFFICES ASSUME NEW x \in Words, Part[x] = p
              PROVE  /\ NotTooMuch(Results(Calls(file)), x)
                     /\ ~reported => Tallied(Results(Calls(file)), x) = TallyOf(Owes(x))
                     /\ \A n \in 0..Len(Calls(file)) : NotTooMuch(Results(SubSeq(Calls(file), 1, n)), x)
  BY DEF RightRows
<1>2. PICK c \in Nat : c = Count(file, <<x, 1>>) /\ c <= Owes(x) /\ (~reported => c = Owes(x))
  <2>1. <<x, 1>> \in Pairs /\ <<x, 1>> \in WordRecords(p) /\ <<x, 1>>[1] = x
    BY WordFacts
  <2>2. RightCount(Count(file, <<x, 1>>), <<x, 1>>, p)
    BY <2>1 DEF RightFile
  <2>. QED
    BY <2>1, <2>2 DEF RightCount
<1>3. Tallied(Results(Calls(file)), x) = TallyOf(c)
  BY <1>1, <1>2, ResultsAre
<1>4. TallyOf(c).list[1] = c
  BY DEF TallyOf, Tally
<1>5. ASSUME NEW n \in 0..Len(Calls(file)) PROVE NotTooMuch(Results(SubSeq(Calls(file), 1, n)), x)
  <2>1. PICK t : t = Tallied(Results(SubSeq(Calls(file), 1, n)), x)
    OBVIOUS
  <2>2. t.list[1] \in Nat /\ t.list[1] <= c
    BY <1>1, <1>2, <2>1, ResultsAre
  <2>3. t.list[1] <= Owes(x)
    <3>1. Owes(x) \in Nat
      BY TextsShape
    <3>. QED
      BY <1>2, <2>2, <3>1
  <2>. QED
    BY <2>1, <2>2, <2>3 DEF NotTooMuch
<1>. QED
  BY <1>2, <1>3, <1>4, <1>5 DEF NotTooMuch


(* The files that are merged and reduced, from hand to hand, and then the results are right. *)
RightInv ==
  /\ output = [p \in Partitions |-> output[p]]
  /\ phase = "shuffle" => \A p \in Shuffled : RightFiles(store[p].fragments, p)
  /\ phase = "reduce" =>
       /\ \A p \in Shuffled : p >= partition => RightFile(store[p].file, p)
       /\ \A w \in Slots : thr[w].part \in Shuffled =>
            /\ At(w, "find") => RightFile(store[thr[w].part].file, thr[w].part)
            /\ thr[w].at \in {"erase", "reduce"} => RightFile(thr[w].data, thr[w].part)
  /\ phase \in {"reduce", "ended"} =>
       \A p \in Shuffled : p < partition /\ ~Held(p) => RightRows(output[p], p)

LEMMA RightInit == Init => RightInv
BY DEF Init, RightInv

LEMMA RightJoinMaps ==
  ASSUME PlaceInv, SourceShape, DividedInv, StoreShape, MergeInv, CountedInv, RightInv, ReadOnInv', [Next]_vars,
         JoinMaps
  PROVE  RightInv'
<1>1. /\ phase = "map" /\ output' = output /\ reported' = reported /\ dir' = dir /\ src' = src
      /\ Shuffled' = Shuffled /\ Files' = Files /\ Shuffled \subseteq Partitions
  BY InputStays DEF JoinMaps, Aborts, Shuffled
<1>2. output' = [p \in Partitions |-> output'[p]]
  BY <1>1 DEF RightInv
<1>3. CASE phase' = "aborted"
  BY <1>2, <1>3 DEF RightInv, Partitions
<1>4. CASE phase' # "aborted"
  <2>1. phase' = "shuffle" /\ \A w \in Slots : ~At(w, "task")
    BY <1>4 DEF JoinMaps, Aborts, PlaceInv, At
  <2>2. ~reported => \A f \in Files : src.offset[f] = Len(dir[f])
    BY <1>1, <2>1 DEF ReadOnInv
  <2>3. ASSUME NEW x \in Words
        PROVE  Stored(x) \in Nat /\ Stored(x) <= Owes(x) /\ (~reported => Stored(x) = Owes(x))
    <3>1. InAll(Handing, x) = 0
      <4>1. Handing = [w \in 1..Max(Cpus) |-> <<>>]
        BY <2>1, SlotsShape DEF Handing
      <4>. QED
        BY <4>1, SlotsShape, NothingIsIn
    <3>2. PICK s \in Nat : s = Stored(x)
      BY <1>1, WordFacts, StoredIsNumber DEF MergeInv, Stored
    <3>3. PICK b \in Nat : b = InAll(Begun, x) /\ b <= Owes(x) /\ (~reported => b = Owes(x))
      BY <2>2, BegunIsLess
    <3>4. s + 0 <= b /\ (~reported => s + 0 = b)
      BY <1>1, <3>1, <3>2, <3>3 DEF CountedInv, Balance
    <3>5. Owes(x) \in Nat
      BY TextsShape
    <3>. QED
      BY <3>2, <3>3, <3>4, <3>5
  <2>4. ASSUME NEW p \in Shuffled PROVE RightFiles(store[p].fragments, p)'
    <3>1. PICK f : f = store[p].fragments
      OBVIOUS
    <3>2. store'[p].fragments = f
      BY <1>1, <1>4, <3>1, JoinMapsStore
    <3>3. ASSUME NEW r \in Pairs PROVE RightCount(InAll(f, r), r, p)
      <4>1. CASE r \in WordRecords(p)
        <5>1. PICK x \in Words : x = r[1] /\ Part[x] = p /\ r = <<x, 1>>
          BY <4>1 DEF WordRecords, Pairs
        <5>2. InAll(f, r) = Stored(x)
          BY <3>1, <5>1 DEF Stored
        <5>. QED
          BY <2>3, <4>1, <5>1, <5>2 DEF RightCount
      <4>2. CASE r \notin WordRecords(p)
        <5>1. InAll(f, r) = 0
          BY <1>1, <3>1, <4>2 DEF CountedInv
        <5>. QED
          BY <4>2, <5>1 DEF RightCount
      <4>. QED
        BY <4>1, <4>2
    <3>4. RightFiles(f, p)
      BY <3>3 DEF RightFiles
    <3>5. RightFiles(f, p)'
      BY <1>1, <3>4, RightCarries
    <3>. QED
      BY <3>2, <3>5
  <2>. QED
    BY <1>1, <1>2, <2>1, <2>4 DEF RightInv, Partitions
<1>. QED
  BY <1>3, <1>4

LEMMA RightShuffles ==
  ASSUME PlaceInv, StoreShape, RightInv, [Next]_vars, NEW p \in Partitions, Shuffle(p)
  PROVE  RightInv'
<1>1. /\ phase = "shuffle" /\ phase' = "shuffle" /\ output' = output /\ reported' = reported /\ dir' = dir
      /\ Shuffled' = Shuffled /\ Shuffled \subseteq Partitions
  BY InputStays DEF Shuffle, Shuffled, Unmerged
<1>2. ASSUME NEW q \in Shuffled PROVE RightFiles(store[q].fragments, q)'
  <2>1. PICK f : f = store[q].fragments
    OBVIOUS
  <2>2. store'[q].fragments = f
    BY <1>1, <2>1, ShuffleStore
  <2>3. RightFiles(f, q)'
    BY <1>1, <2>1, RightCarries DEF RightInv
  <2>. QED
    BY <2>2, <2>3
<1>. QED
  BY <1>1, <1>2 DEF RightInv, Partitions

LEMMA RightJoinShuffles ==
  ASSUME PlaceInv, StoreShape, HandsInv, MergeInv, RightInv, [Next]_vars, JoinShuffles
  PROVE  RightInv'
<1>1. /\ phase = "shuffle" /\ phase' = "reduce" /\ UNCHANGED <<output, reported, dir, store, partition>>
      /\ Shuffled' = Shuffled /\ Shuffled \subseteq Partitions
  BY InputStays DEF JoinShuffles, Shuffled, Input
<1>2. \A w \in Slots : thr'[w].at \in {"claim", "done"}
  BY DEF JoinShuffles, PlaceInv, IsThread
<1>3. \A q \in Partitions : ~(q < partition')
  BY <1>1 DEF HandsInv, Partitions
<1>4. ASSUME NEW q \in Shuffled PROVE RightFile(store[q].file, q)'
  <2>1. PICK f : f = store[q].file
    OBVIOUS
  <2>2. PICK all : all = store[q].fragments
    OBVIOUS
  <2>3. store[q].merging = <<>>
    BY DEF JoinShuffles
  <2>4. LeftOf(q) = <<f>>
    BY <2>1, <2>3 DEF LeftOf
  <2>5. AreFiles(<<f>>) /\ \A r \in Pairs : InAll(<<f>>, r) = InAll(all, r)
    BY <1>1, <2>2, <2>4 DEF MergeInv
  <2>6. f \in Seq(Pairs) /\ Ascends(f)
    <3>1. Len(<<f>>) = 1 /\ <<f>>[1] = f
      OBVIOUS
    <3>2. <<f>> \in Seq(Seq(Pairs)) /\ \A i \in 1..Len(<<f>>) : Ascends(<<f>>[i])
      BY <2>5 DEF AreFiles
    <3>3. <<f>>[1] \in Seq(Pairs)
      BY <3>1, <3>2
    <3>. QED
      BY <3>1, <3>2, <3>3
  <2>7. ASSUME NEW r \in Pairs PROVE RightCount(Count(f, r), r, q)
    <3>1. InAll(<<f>>, r) = Count(f, r)
      BY <2>6, InOneFile
    <3>2. RightCount(InAll(all, r), r, q)
      BY <1>1, <2>2 DEF RightInv, RightFiles
    <3>. QED
      BY <2>5, <3>1, <3>2
  <2>8. RightFile(f, q)
    BY <2>6, <2>7 DEF RightFile
  <2>9. RightFile(f, q)'
    BY <1>1, <2>8, RightCarries
  <2>. QED
    BY <1>1, <2>1, <2>9
<1>. QED
  BY <1>1, <1>2, <1>3, <1>4 DEF RightInv, Partitions, At


LEMMA RightClaim ==
  ASSUME PlaceInv, HandsInv, RightInv, [Next]_vars, NEW w \in Slots, Claim(w)
  PROVE  RightInv'
<1>1. /\ phase = "reduce" /\ phase' = "reduce" /\ UNCHANGED <<output, reported, dir, store>>
      /\ partition' = partition + 1 /\ partition \in Nat
      /\ Shuffled' = Shuffled /\ Shuffled \subseteq Partitions
  BY InputStays DEF Claim, Shuffled, HandsInv
<1>2. /\ Only(w) /\ At(w, "claim") /\ thr'[w].part = partition
      /\ thr'[w].at = IF partition < P THEN "find" ELSE "done"
  BY ClaimMoves
<1>3. \A p \in Shuffled : RightFile(store[p].file, p) => RightFile(store[p].file, p)'
  <2>. SUFFICES ASSUME NEW p \in Shuffled, RightFile(store[p].file, p) PROVE RightFile(store[p].file, p)'
    OBVIOUS
  <2>1. PICK f : f = store[p].file
    OBVIOUS
  <2>2. RightFile(f, p)'
    BY <1>1, <2>1, RightCarries
  <2>. QED
    BY <1>1, <2>1, <2>2
<1>4. ASSUME NEW p \in Shuffled, p >= partition' PROVE RightFile(store[p].file, p)'
  <2>1. p \in Int /\ p >= partition
    BY <1>1, <1>4 DEF Partitions
  <2>. QED
    BY <1>1, <1>3, <2>1 DEF RightInv
<1>5. ASSUME NEW v \in Slots, thr'[v].part \in Shuffled, thr'[v].at = "find"
      PROVE  RightFile(store[thr[v].part].file, thr[v].part)'
  <2>1. PICK p \in Shuffled : p = thr'[v].part
    BY <1>5
  <2>2. RightFile(store[p].file, p)
    <3>1. CASE v = w
      <4>1. p = partition /\ p \in Int
        BY <1>1, <1>2, <2>1, <3>1
      <4>. QED
        BY <1>1, <4>1 DEF RightInv
    <3>2. CASE v # w
      <4>1. thr'[v] = thr[v]
        BY <1>2, <3>2 DEF Only
      <4>. QED
        BY <1>1, <1>5, <2>1, <4>1 DEF RightInv, At
    <3>. QED
      BY <3>1, <3>2
  <2>3. PICK f : f = store[p].file
    OBVIOUS
  <2>4. RightFile(f, p)'
    BY <1>1, <2>2, <2>3, RightCarries
  <2>5. (store[thr[v].part].file)' = f /\ (thr[v].part)' = p
    BY <1>1, <2>1, <2>3
  <2>. QED
    BY <2>4, <2>5
<1>6. ASSUME NEW v \in Slots, thr'[v].part \in Shuffled, thr'[v].at \in {"erase", "reduce"}
      PROVE  RightFile(thr[v].data, thr[v].part)'
  <2>1. v # w /\ thr'[v] = thr[v]
    BY <1>2, <1>6 DEF Only
  <2>2. PICK p \in Shuffled : p = thr[v].part
    BY <1>6, <2>1
  <2>3. PICK f : f = thr[v].data
    OBVIOUS
  <2>4. RightFile(f, p)
    BY <1>1, <1>6, <2>1, <2>2, <2>3 DEF RightInv
  <2>5. RightFile(f, p)'
    BY <1>1, <2>4, RightCarries
  <2>. QED
    BY <2>1, <2>2, <2>3, <2>5
<1>7. ASSUME NEW p \in Shuffled, p < partition', ~Held(p)' PROVE RightRows(output[p], p)'
  <2>1. ~Held(p)
    <3>. SUFFICES ASSUME NEW v \in Slots, thr[v].at \in Holding, thr[v].part = p PROVE FALSE
      BY DEF Held
    <3>1. v # w
      BY <1>2 DEF At, Holding
    <3>2. thr'[v] = thr[v]
      BY <1>2, <3>1 DEF Only
    <3>. QED
      BY <1>7, <3>2 DEF Held, Holding, Slots
  <2>2. p < partition
    <3>1. p \in Nat /\ p < P /\ P \in Nat
      BY <1>1, DiskAssumption DEF Partitions
    <3>2. p # partition
      <4>. SUFFICES ASSUME p = partition PROVE FALSE
        OBVIOUS
      <4>1. thr'[w].at = "find" /\ thr'[w].part = p
        BY <1>2, <3>1
      <4>. QED
        BY <1>7, <4>1 DEF Held, Holding, Slots
    <3>. QED
      BY <1>1, <1>7, <3>1, <3>2
  <2>3. PICK rows : rows = output[p]
    OBVIOUS
  <2>4. RightRows(rows, p)'
    BY <1>1, <2>1, <2>2, <2>3, RightCarries DEF RightInv
  <2>. QED
    BY <1>1, <2>3, <2>4
<1>. QED
  BY <1>1, <1>4, <1>5, <1>6, <1>7 DEF RightInv, Partitions, At, Slots

LEMMA RightFind ==
  ASSUME PlaceInv, HandsInv, RightInv, [Next]_vars, NEW w \in Slots, Find(w), phase' # "aborted"
  PROVE  RightInv'
<1>1. /\ phase = "reduce" /\ phase' = "reduce" /\ UNCHANGED <<output, reported, dir, store, partition>>
      /\ thr' = [thr EXCEPT ![w].data = store[thr[w].part].file, ![w].at = "erase"]
      /\ Shuffled' = Shuffled /\ Shuffled \subseteq Partitions
  BY InputStays DEF Find, Aborts, Shuffled
<1>2. /\ Only(w) /\ At(w, "find") /\ thr'[w].part = thr[w].part /\ thr'[w].at = "erase"
  BY FindMoves
<1>3. thr'[w].data = store[thr[w].part].file
  <2>1. thr = [v \in Slots |-> thr[v]] /\ IsThread(thr[w])
    BY DEF PlaceInv
  <2>2. PICK f : f = store[thr[w].part].file
    OBVIOUS
  <2>3. thr'[w] = [thr[w] EXCEPT !.data = f, !.at = "erase"]
    BY <1>1, <2>1, <2>2
  <2>. QED
    BY <2>1, <2>2, <2>3 DEF IsThread
<1>4. ASSUME NEW p \in Shuffled, p >= partition' PROVE RightFile(store[p].file, p)'
  <2>1. PICK f : f = store[p].file
    OBVIOUS
  <2>2. RightFile(f, p)'
    BY <1>1, <1>4, <2>1, RightCarries DEF RightInv
  <2>. QED
    BY <1>1, <2>1, <2>2
<1>5. ASSUME NEW v \in Slots, thr'[v].part \in Shuffled, thr'[v].at = "find"
      PROVE  RightFile(store[thr[v].part].file, thr[v].part)'
  <2>1. v # w /\ thr'[v] = thr[v]
    BY <1>2, <1>5 DEF Only
  <2>2. PICK p \in Shuffled : p = thr[v].part
    BY <1>5, <2>1
  <2>3. PICK f : f = store[p].file
    OBVIOUS
  <2>4. RightFile(f, p)
    BY <1>1, <1>5, <2>1, <2>2, <2>3 DEF RightInv, At
  <2>5. RightFile(f, p)'
    BY <1>1, <2>4, RightCarries
  <2>6. (store[thr[v].part].file)' = f /\ (thr[v].part)' = p
    BY <1>1, <2>1, <2>2, <2>3
  <2>. QED
    BY <2>5, <2>6
<1>6. ASSUME NEW v \in Slots, thr'[v].part \in Shuffled, thr'[v].at \in {"erase", "reduce"}
      PROVE  RightFile(thr[v].data, thr[v].part)'
  <2>1. PICK p \in Shuffled : p = thr[v].part /\ p = thr'[v].part
    BY <1>2, <1>6 DEF Only
  <2>2. PICK f : f = thr'[v].data
    OBVIOUS
  <2>3. RightFile(f, p)
    <3>1. CASE v = w
      BY <1>1, <1>2, <1>3, <2>1, <2>2, <3>1 DEF RightInv
    <3>2. CASE v # w
      <4>1. thr'[v] = thr[v]
        BY <1>2, <3>2 DEF Only
      <4>2. f = thr[v].data /\ thr[v].at \in {"erase", "reduce"}
        BY <1>6, <2>2, <4>1
      <4>. QED
        BY <1>1, <2>1, <4>2 DEF RightInv
    <3>. QED
      BY <3>1, <3>2
  <2>4. RightFile(f, p)'
    BY <1>1, <2>3, RightCarries
  <2>. QED
    BY <2>1, <2>2, <2>4
<1>7. ASSUME NEW p \in Shuffled, p < partition', ~Held(p)' PROVE RightRows(output[p], p)'
  <2>1. ~Held(p)
    BY <1>2, <1>7 DEF Held, Holding, Slots, Only, At
  <2>2. PICK rows : rows = output[p]
    OBVIOUS
  <2>3. RightRows(rows, p)'
    BY <1>1, <1>7, <2>1, <2>2, RightCarries DEF RightInv
  <2>. QED
    BY <1>1, <2>2, <2>3
<1>. QED
  BY <1>1, <1>4, <1>5, <1>6, <1>7 DEF RightInv, Partitions, At, Slots


LEMMA RightErase ==
  ASSUME PlaceInv, StoreShape, HandsInv, RightInv, [Next]_vars, NEW w \in Slots, Erase(w)
  PROVE  RightInv'
<1>1. /\ phase = "reduce" /\ phase' = "reduce" /\ UNCHANGED <<output, reported, dir, partition>>
      /\ Shuffled' = Shuffled /\ Shuffled \subseteq Partitions
  BY InputStays DEF Erase, Shuffled
<1>2. /\ Only(w) /\ At(w, "erase") /\ thr'[w].part = thr[w].part /\ thr'[w].at = "reduce"
      /\ \A p \in Partitions : p # thr[w].part => store'[p] = store[p]
  BY EraseMoves, EraseStore
<1>3. thr'[w].data = thr[w].data
  <2>1. thr = [v \in Slots |-> thr[v]] /\ IsThread(thr[w])
    BY DEF PlaceInv
  <2>2. thr'[w] = [thr[w] EXCEPT !.at = "reduce"]
    BY <2>1 DEF Erase, Goto
  <2>. QED
    BY <2>1, <2>2 DEF IsThread
<1>4. ASSUME NEW p \in Shuffled, p >= partition' PROVE RightFile(store[p].file, p)'
  <2>1. PICK f : f = store[p].file
    OBVIOUS
  <2>2. p # thr[w].part
    <3>1. thr[w].part \in Partitions /\ thr[w].part < partition /\ partition \in Nat
      BY <1>1, <1>2 DEF HandsInv, Holding, At
    <3>. QED
      BY <1>1, <1>4, <3>1 DEF Partitions
  <2>3. store'[p] = store[p]
    BY <1>1, <1>2, <2>2
  <2>4. RightFile(f, p)'
    BY <1>1, <1>4, <2>1, RightCarries DEF RightInv
  <2>. QED
    BY <2>1, <2>3, <2>4
<1>5. ASSUME NEW v \in Slots, thr'[v].part \in Shuffled, thr'[v].at = "find"
      PROVE  RightFile(store[thr[v].part].file, thr[v].part)'
  <2>1. v # w /\ thr'[v] = thr[v]
    BY <1>2, <1>5 DEF Only
  <2>2. PICK p \in Shuffled : p = thr[v].part
    BY <1>5, <2>1
  <2>3. PICK f : f = store[p].file
    OBVIOUS
  <2>4. RightFile(f, p)
    BY <1>1, <1>5, <2>1, <2>2, <2>3 DEF RightInv, At
  <2>5. RightFile(f, p)'
    BY <1>1, <2>4, RightCarries
  <2>6. p # thr[w].part
    BY <1>1, <1>2, <1>5, <2>1, <2>2 DEF HandsInv, Holding, At
  <2>7. store'[p] = store[p]
    BY <1>1, <1>2, <2>6
  <2>8. (store[thr[v].part].file)' = f /\ (thr[v].part)' = p
    BY <2>1, <2>2, <2>3, <2>7
  <2>. QED
    BY <2>5, <2>8
<1>6. ASSUME NEW v \in Slots, thr'[v].part \in Shuffled, thr'[v].at \in {"erase", "reduce"}
      PROVE  RightFile(thr[v].data, thr[v].part)'
  <2>1. PICK p \in Shuffled : p = thr[v].part /\ p = thr'[v].part
    BY <1>2, <1>6 DEF Only
  <2>2. PICK f : f = thr'[v].data
    OBVIOUS
  <2>3. f = thr[v].data /\ thr[v].at \in {"erase", "reduce"}
    BY <1>2, <1>3, <1>6, <2>2 DEF Only, At
  <2>4. RightFile(f, p)
    BY <1>1, <2>1, <2>3 DEF RightInv
  <2>5. RightFile(f, p)'
    BY <1>1, <2>4, RightCarries
  <2>. QED
    BY <2>1, <2>2, <2>5
<1>7. ASSUME NEW p \in Shuffled, p < partition', ~Held(p)' PROVE RightRows(output[p], p)'
  <2>1. ~Held(p)
    BY <1>2, <1>7 DEF Held, Holding, Slots, Only, At
  <2>2. PICK rows : rows = output[p]
    OBVIOUS
  <2>3. RightRows(rows, p)'
    BY <1>1, <1>7, <2>1, <2>2, RightCarries DEF RightInv
  <2>. QED
    BY <1>1, <2>2, <2>3
<1>. QED
  BY <1>1, <1>4, <1>5, <1>6, <1>7 DEF RightInv, Partitions, At, Slots

LEMMA RightReduce ==
  ASSUME PlaceInv, HandsInv, RightInv, [Next]_vars, NEW w \in Slots, Reduce(w) \/ ReduceThrows(w)
  PROVE  RightInv'
<1>1. /\ phase = "reduce" /\ phase' = "reduce" /\ UNCHANGED <<dir, partition, store>>
      /\ Shuffled' = Shuffled /\ Shuffled \subseteq Partitions /\ (~reported' => ~reported)
  BY InputStays, ErrorsStay DEF Reduce, ReduceThrows, Reduces, Shuffled
<1>2. /\ Only(w) /\ At(w, "reduce") /\ thr[w].part \in Shuffled /\ thr'[w].at = "claim"
  BY ReduceMoves
<1>3. PICK p \in Shuffled : p = thr[w].part
  BY <1>2
<1>4. PICK data : data = thr[w].data /\ RightFile(data, p)
  BY <1>1, <1>2, <1>3 DEF RightInv, At
<1>5. PICK rows : /\ output' = [output EXCEPT ![p] = rows]
                  /\ RightRows(rows, p)'
  <2>1. \A x : Owes(x)' = Owes(x)
    BY <1>1 DEF Owes, AllWords
  <2>2. CASE Reduce(w)
    <3>1. PICK rows : rows = Results(Calls(data))
      OBVIOUS
    <3>2. output' = [output EXCEPT ![p] = rows]
      BY <1>3, <1>4, <2>2, <3>1 DEF Reduce
    <3>3. RightRows(rows, p)
      BY <1>4, <3>1, RightResults
    <3>4. RightRows(rows, p)'
      BY <1>1, <3>3, RightCarries
    <3>. QED
      BY <3>2, <3>4
  <2>3. CASE ReduceThrows(w)
    <3>1. PICK n \in DOMAIN Calls(data) : output' = [output EXCEPT ![p] = Results(SubSeq(Calls(data), 1, n - 1))]
      BY <1>3, <1>4, <2>3 DEF ReduceThrows
    <3>2. n - 1 \in 0..Len(Calls(data))
      <4>1. IsWordFile(data)
        BY <1>4, RightIsWordFile
      <4>2. Calls(data) \in Seq(Nat \X Seq({1}))
        BY <4>1, CallsAre DEF AreCalls
      <4>3. PICK calls \in Seq(Nat \X Seq({1})) : calls = Calls(data)
        BY <4>2
      <4>4. n \in 1..Len(calls) /\ Len(calls) \in Nat
        BY <3>1, <4>3
      <4>. QED
        BY <4>3, <4>4
    <3>3. PICK rows : rows = Results(SubSeq(Calls(data), 1, n - 1))
      OBVIOUS
    <3>4. PICK k \in 0..Len(Calls(data)) : k = n - 1
      BY <3>2
    <3>5. \A x \in Words : Part[x] = p => NotTooMuch(Results(SubSeq(Calls(data), 1, k)), x)
      BY <1>4, RightResults
    <3>6. \A x \in Words : Part[x] = p => NotTooMuch(rows, x)
      BY <3>3, <3>4, <3>5
    <3>7. reported'
      BY <2>3 DEF ReduceThrows
    <3>8. RightRows(rows, p)'
      BY <2>1, <3>6, <3>7 DEF RightRows, NotTooMuch
    <3>. QED
      BY <3>1, <3>3, <3>8
  <2>. QED
    BY <2>2, <2>3
<1>6. /\ output' = [q \in Partitions |-> output'[q]] /\ output'[p] = rows
      /\ \A q \in Partitions : q # p => output'[q] = output[q]
  BY <1>1, <1>3, <1>5 DEF RightInv
<1>7. ASSUME NEW q \in Shuffled, q >= partition' PROVE RightFile(store[q].file, q)'
  <2>1. PICK f : f = store[q].file
    OBVIOUS
  <2>2. RightFile(f, q)'
    BY <1>1, <1>7, <2>1, RightCarries DEF RightInv
  <2>. QED
    BY <1>1, <2>1, <2>2
<1>8. ASSUME NEW v \in Slots, thr'[v].part \in Shuffled, thr'[v].at = "find"
      PROVE  RightFile(store[thr[v].part].file, thr[v].part)'
  <2>1. v # w /\ thr'[v] = thr[v]
    BY <1>2, <1>8 DEF Only
  <2>2. PICK q \in Shuffled : q = thr[v].part
    BY <1>8, <2>1
  <2>3. PICK f : f = store[q].file
    OBVIOUS
  <2>4. RightFile(f, q)
    BY <1>1, <1>8, <2>1, <2>2, <2>3 DEF RightInv, At
  <2>5. RightFile(f, q)'
    BY <1>1, <2>4, RightCarries
  <2>6. (store[thr[v].part].file)' = f /\ (thr[v].part)' = q
    BY <1>1, <2>1, <2>2, <2>3
  <2>. QED
    BY <2>5, <2>6
<1>9. ASSUME NEW v \in Slots, thr'[v].part \in Shuffled, thr'[v].at \in {"erase", "reduce"}
      PROVE  RightFile(thr[v].data, thr[v].part)'
  <2>1. v # w /\ thr'[v] = thr[v]
    BY <1>2, <1>9 DEF Only
  <2>2. PICK q \in Shuffled : q = thr[v].part
    BY <1>9, <2>1
  <2>3. PICK f : f = thr[v].data
    OBVIOUS
  <2>4. RightFile(f, q)
    BY <1>1, <1>9, <2>1, <2>2, <2>3 DEF RightInv
  <2>5. RightFile(f, q)'
    BY <1>1, <2>4, RightCarries
  <2>. QED
    BY <2>1, <2>2, <2>3, <2>5
<1>10. ASSUME NEW q \in Shuffled, q < partition', ~Held(q)' PROVE RightRows(output[q], q)'
  <2>1. CASE q = p
    BY <1>5, <1>6, <2>1
  <2>2. CASE q # p
    <3>1. ~Held(q)
      <4>. SUFFICES ASSUME NEW v \in Slots, thr[v].at \in Holding, thr[v].part = q PROVE FALSE
        BY DEF Held
      <4>1. v # w
        BY <1>3, <2>2
      <4>2. thr'[v] = thr[v]
        BY <1>2, <4>1 DEF Only
      <4>. QED
        BY <1>10, <4>2 DEF Held, Holding, Slots
    <3>2. PICK old : old = output[q]
      OBVIOUS
    <3>3. RightRows(old, q)'
      BY <1>1, <1>10, <3>1, <3>2, RightCarries DEF RightInv
    <3>4. output'[q] = old
      BY <1>1, <1>6, <2>2, <3>2
    <3>. QED
      BY <3>3, <3>4
  <2>. QED
    BY <2>1, <2>2
<1>. QED
  BY <1>1, <1>6, <1>7, <1>8, <1>9, <1>10 DEF RightInv, Partitions, At, Slots


LEMMA RightNext ==
  ASSUME PlaceInv, SourceShape, DividedInv, StoreShape, HandsInv, MergeInv, CountedInv, RightInv,
         ReadOnInv', HandsInv', [Next]_vars
  PROVE  RightInv'
<1>1. /\ dir' = dir /\ (~reported' => ~reported) /\ Shuffled' = Shuffled
      /\ output = [p \in Partitions |-> output[p]]
  BY InputStays, ErrorsStay DEF RightInv
<1>2. ASSUME phase' \in {"map", "aborted"}, output' = output PROVE RightInv'
  BY <1>1, <1>2 DEF RightInv, Partitions
<1>3. ASSUME NEW w \in Slots, MapStep(w) PROVE RightInv'
  <2>1. phase = "map" /\ output' = output /\ (phase' = phase \/ phase' = "aborted")
    BY <1>3 DEF MapStep, NextKey, GetData, GetNothing, Overrun, MapTask, MapThrows, OutOfFiles, CombineFails, Aborts
  <2>. QED
    BY <1>2, <2>1
<1>4. ASSUME NEW w \in Slots, ReduceStep(w) PROVE RightInv'
  <2>1. CASE Claim(w)
    BY <2>1, RightClaim
  <2>2. CASE Find(w)
    <3>1. CASE phase' = "aborted"
      <4>1. output' = output
        BY <2>2 DEF Find, Aborts
      <4>. QED
        BY <1>2, <3>1, <4>1
    <3>2. CASE phase' # "aborted"
      BY <2>2, <3>2, RightFind
    <3>. QED
      BY <3>1, <3>2
  <2>3. CASE Erase(w)
    BY <2>3, RightErase
  <2>4. CASE Crash(w)
    BY <1>2, <2>4 DEF Crash, Aborts
  <2>5. CASE Reduce(w) \/ ReduceThrows(w)
    BY <2>5, RightReduce
  <2>. QED
    BY <1>4, <2>1, <2>2, <2>3, <2>4, <2>5 DEF ReduceStep
<1>5. CASE JoinMaps
  BY <1>5, RightJoinMaps
<1>6. ASSUME NEW p \in Partitions, Shuffle(p) PROVE RightInv'
  BY <1>6, RightShuffles
<1>7. CASE JoinShuffles
  BY <1>7, RightJoinShuffles
<1>8. CASE JoinReducers
  <2>1. phase = "reduce" /\ phase' = "ended" /\ UNCHANGED <<thr, output, partition>>
    BY <1>8 DEF JoinReducers
  <2>2. ASSUME NEW p \in Shuffled, p < partition', ~Held(p)' PROVE RightRows(output[p], p)'
    <3>1. ~Held(p)
      BY <2>1, <2>2 DEF Held, Holding, Slots
    <3>2. PICK rows : rows = output[p]
      OBVIOUS
    <3>3. RightRows(rows, p)'
      BY <1>1, <2>1, <2>2, <3>1, <3>2, RightCarries DEF RightInv
    <3>. QED
      BY <2>1, <3>2, <3>3
  <2>. QED
    BY <1>1, <2>1, <2>2 DEF RightInv, Partitions
<1>9. CASE UNCHANGED vars
  <2>1. UNCHANGED <<policy, cpus, dir, phase, thr, store, partition, output, reported>>
    BY <1>9 DEF vars
  <2>2. RightInv' = RightInv
    BY <2>1 DEF RightInv, RightFiles, RightFile, RightRows, RightCount, NotTooMuch, Owes, AllWords, Held, At, Shuffled
  <2>. QED
    BY <2>2
<1>. QED
  BY <1>3, <1>4, <1>5, <1>6, <1>7, <1>8, <1>9 DEF Next, Work, Over

LEMMA RightEnd ==
  ASSUME PlaceInv, RightInv, phase = "reduce",
         Shuffled = Partitions, partition \in Nat, P <= partition, ~ \E p \in Partitions : Held(p)
  PROVE  /\ \A x \in Words : Contract!Within(Written[x], Owed[x])
         /\ DOMAIN Owed = Words /\ (~reported => Written = Owed)
<1>1. ASSUME NEW x \in Words
      PROVE  /\ Written[x] = Tallied(output[Part[x]], x) /\ Owed[x] = TallyOf(Owes(x))
             /\ NotTooMuch(output[Part[x]], x)
             /\ ~reported => Tallied(output[Part[x]], x) = TallyOf(Owes(x))
  <2>1. Written[x] = Tallied(output[Part[x]], x)
    BY DEF Written, Tallied
  <2>2. Owed[x] = TallyOf(Owes(x))
    BY DEF Owed, TallyOf, Owes
  <2>3. Part[x] \in Shuffled /\ Part[x] < partition /\ ~Held(Part[x])
    <3>1. Part[x] \in Partitions
      BY WordFacts
    <3>2. ~Held(Part[x])
      BY <3>1
    <3>3. P \in Nat
      BY DiskAssumption
    <3>. QED
      BY <3>1, <3>2, <3>3 DEF Partitions
  <2>4. RightRows(output[Part[x]], Part[x])
    BY <2>3 DEF RightInv
  <2>. QED
    BY <2>1, <2>2, <2>4 DEF RightRows
<1>2. ASSUME NEW x \in Words PROVE Contract!Within(Written[x], Owed[x])
  <2>1. PICK t : t = Tallied(output[Part[x]], x)
    OBVIOUS
  <2>2. t.list[1] <= Owes(x) /\ Written[x] = t
    BY <1>1, <2>1 DEF NotTooMuch
  <2>3. Owed[x].list = [v \in {1} |-> Owes(x)]
    <3>1. PICK n : n = Owes(x)
      OBVIOUS
    <3>2. Owed[x] = TallyOf(n)
      BY <1>1, <3>1
    <3>3. TallyOf(n).list = [v \in {1} |-> n]
      BY DEF TallyOf, Tally
    <3>. QED
      BY <3>1, <3>2, <3>3
  <2>. QED
    BY <2>2, <2>3 DEF Contract!Within
<1>3. DOMAIN Owed = Words /\ DOMAIN Written = Words
  BY DEF Owed, Written
<1>4. Owed = [x \in Words |-> Owed[x]] /\ Written = [x \in Words |-> Written[x]]
  BY DEF Owed, Written
<1>5. ~reported => Written = Owed
  BY <1>1, <1>4
<1>. QED
  BY <1>2, <1>3, <1>5

LEMMA FlagNext ==
  ASSUME [Next]_vars
  PROVE  reported' = reported \/ reported' = TRUE
<1>1. ASSUME NEW w \in Slots, MapStep(w) PROVE reported' = reported \/ reported' = TRUE
  BY <1>1 DEF MapStep, NextKey, GetData, GetNothing, Overrun, GivesUp, MapTask, MapThrows, OutOfFiles,
                    CombineFails, Aborts
<1>2. ASSUME NEW w \in Slots, ReduceStep(w) PROVE reported' = reported \/ reported' = TRUE
  BY <1>2 DEF ReduceStep, Claim, Find, Erase, Crash, Reduce, ReduceThrows, Aborts
<1>3. ASSUME NEW p \in Partitions, Shuffle(p) PROVE reported' = reported
  BY <1>3 DEF Shuffle
<1>4. CASE JoinMaps \/ JoinShuffles \/ JoinReducers
  BY <1>4 DEF JoinMaps, JoinShuffles, JoinReducers, Aborts
<1>5. CASE UNCHANGED vars
  BY <1>5 DEF vars
<1>. QED
  BY <1>1, <1>2, <1>3, <1>4, <1>5 DEF Next, Work, Over

LEMMA EndOrNot ==
  ASSUME [Next]_vars
  PROVE  UNCHANGED vars \/ JoinReducers \/ (phase # "ended" /\ phase' # "ended")
<1>1. ASSUME NEW w \in Slots, MapStep(w) PROVE phase # "ended" /\ phase' # "ended"
  <2>1. phase = "map" /\ phase' \in {"map", "aborted"}
    BY <1>1 DEF MapStep, NextKey, GetData, GetNothing, Overrun, MapTask, MapThrows, OutOfFiles, CombineFails, Aborts
  <2>. QED
    BY <2>1
<1>2. ASSUME NEW w \in Slots, ReduceStep(w) PROVE phase # "ended" /\ phase' # "ended"
  <2>1. phase = "reduce" /\ phase' \in {"reduce", "aborted"}
    BY <1>2 DEF ReduceStep, Claim, Find, Erase, Crash, Reduce, ReduceThrows, Reduces, Aborts
  <2>. QED
    BY <2>1
<1>3. ASSUME NEW p \in Partitions, Shuffle(p) PROVE phase # "ended" /\ phase' # "ended"
  BY <1>3 DEF Shuffle, Unmerged
<1>4. CASE JoinMaps
  BY <1>4 DEF JoinMaps, Aborts
<1>5. CASE JoinShuffles
  BY <1>5 DEF JoinShuffles
<1>. QED
  BY <1>1, <1>2, <1>3, <1>4, <1>5 DEF Next, Work, Over

JobInv ==
  /\ PlaceInv /\ SourceShape /\ DividedInv /\ ReadOnInv /\ StoreShape /\ HandsInv /\ MergeInv
  /\ CountedInv /\ RightInv /\ reported \in BOOLEAN

LEMMA JobSteps ==
  ASSUME JobInv, JobInv', [Next]_vars
  PROVE  [Contract!Next(Owed)]_(Contract!vars)
<1>. DEFINE results == IF phase = "ended" THEN Written ELSE Nothing
<1>. SUFFICES Contract!Next(Owed) \/ UNCHANGED Contract!vars
  OBVIOUS
<1>0. Nothing' = Nothing
  BY DEF Nothing
<1>1. CASE UNCHANGED vars
  <2>1. phase' = phase /\ reported' = reported /\ output' = output
    BY <1>1 DEF vars
  <2>2. Written' = Written
    BY <2>1 DEF Written
  <2>. QED
    BY <1>0, <2>1, <2>2 DEF Contract!vars
<1>2. CASE JoinReducers
  <2>1. /\ phase = "reduce" /\ phase' = "ended" /\ reported' = reported /\ output' = output
        /\ thr' = thr /\ partition' = partition
    BY <1>2 DEF JoinReducers
  <2>2. Owed' = Owed /\ Written' = Written
    BY <2>1, InputStays DEF Owed, AllWords, Written
  <2>3. /\ \A x \in Words : Contract!Within(Written[x], Owed[x])
        /\ DOMAIN Owed = Words /\ (~reported => Written = Owed)
    <3>1. Shuffled' = Partitions /\ P <= partition /\ partition \in Nat /\ ~ \E p \in Partitions : Held(p)'
      BY <2>1 DEF JobInv, HandsInv, Partitions
    <3>2. Shuffled = Partitions /\ ~ \E p \in Partitions : Held(p)
      BY <2>1, <3>1, InputStays DEF Held, Holding, Slots
    <3>. QED
      BY <2>1, <3>1, <3>2, RightEnd DEF JobInv
  <2>4. results' = Written
    BY <2>1, <2>2
  <2>. QED
    BY <2>1, <2>3, <2>4 DEF Contract!Next, Contract!Finish
<1>3. CASE phase # "ended" /\ phase' # "ended"
  <2>1. results = Nothing /\ results' = Nothing
    BY <1>0, <1>3
  <2>2. reported \in BOOLEAN /\ (reported' = reported \/ reported' = TRUE)
    BY FlagNext DEF JobInv
  <2>. QED
    BY <1>3, <2>1, <2>2 DEF Contract!Next, Contract!Report, Contract!vars
<1>. QED
  BY <1>1, <1>2, <1>3, EndOrNot


(* A run of the job with the local_disk store is a run of the contract its callers rely on,
   for every directory, segment size, number of threads, partition of the words and limit on
   open files: when the job ends its result files have each word of the input once, with the
   number of times it occurs there, and what falls short of that was announced first
   (job.hpp, local_disk.hpp, datasource.hpp). *)
THEOREM DiskImplementsContract == Spec => ImplementsContract
<1>1. Init => JobInv
  <2>1. Init => reported \in BOOLEAN
    BY DEF Init
  <2>. QED
    BY <2>1, PlaceInit, SourceInit, ReadOnInit, StoreInit, HandsInit, MergeInit, CountedInit, RightInit
       DEF JobInv
<1>2. JobInv /\ [Next]_vars => JobInv'
  <2>. SUFFICES ASSUME JobInv, [Next]_vars PROVE JobInv'
    OBVIOUS
  <2>1. PlaceInv' /\ SourceShape' /\ DividedInv' /\ ReadOnInv' /\ StoreShape'
    BY PlaceNext, SourceNext, ReadOnNext, StoreNext DEF JobInv
  <2>2. HandsInv' /\ MergeInv' /\ CountedInv'
    BY <2>1, HandsNext, MergeNext, CountedNext DEF JobInv
  <2>3. RightInv'
    BY <2>1, <2>2, RightNext DEF JobInv
  <2>4. reported' \in BOOLEAN
    BY FlagNext DEF JobInv
  <2>. QED
    BY <2>1, <2>2, <2>3, <2>4 DEF JobInv
<1>3. Init => Contract!Init(Nothing)
  BY DEF Init, Contract!Init
<1>4. JobInv /\ JobInv' /\ [Next]_vars => [Contract!Next(Owed)]_(Contract!vars)
  BY JobSteps
<1>. QED
  BY <1>1, <1>2, <1>3, <1>4, PTL DEF Spec, ImplementsContract
================================================================================
