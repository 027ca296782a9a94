---------------------------- MODULE MpiBase_proofs ----------------------------
(***************************************************************************)
(* Theorems of MpiBase, for every set of input files, every number of      *)
(* processes, every hash function and every page size.                     *)
(***************************************************************************)
EXTENDS MpiBase, WebGraph_proofs

--------------------------------------------------------------------------------
(* Sequences: what Ascending, At and Sorted return. *)

(* In a finite set with a strict total order each position is taken by one    *)
(* member; below[x] are the members before x.                                 *)
IsOrder(S, below) ==
  /\ below \in [S -> SUBSET S]
  /\ \A x \in S : x \notin below[x]
  /\ \A x, y \in S : x # y => x \in below[y] \/ y \in below[x]
  /\ \A x, y \in S : x \in below[y] => below[x] \subseteq below[y]

LEMMA Ranking ==
  ASSUME NEW S, IsFiniteSet(S), NEW below, IsOrder(S, below)
  PROVE  /\ Cardinality(S) \in Nat
         /\ \A n \in 1 .. Cardinality(S) : \E x \in S : Cardinality(below[x]) = n - 1
         /\ \A x, y \in S : Cardinality(below[x]) = Cardinality(below[y]) => x = y
         /\ \A x, y \in S : x \in below[y] => Cardinality(below[x]) < Cardinality(below[y])
         /\ \A x \in S : Cardinality(below[x]) \in Nat
                          /\ Cardinality(below[x]) + 1 \in 1 .. Cardinality(S)
<1>1. Cardinality(S) \in Nat
  BY FS_CardinalityType
<1>2. ASSUME NEW x \in S
      PROVE  IsFiniteSet(below[x]) /\ Cardinality(below[x]) \in Nat /\ below[x] \subseteq S
  <2>1. below[x] \in SUBSET S
    BY DEF IsOrder
  <2> QED
    BY <2>1, FS_Subset, FS_CardinalityType
<1>3. ASSUME NEW x \in S, NEW y \in S, x \in below[y]
      PROVE  Cardinality(below[x]) < Cardinality(below[y])
  <2>1. below[x] \cup {x} \subseteq below[y] /\ x \notin below[x]
    BY <1>3 DEF IsOrder
  <2>2. Cardinality(below[x] \cup {x}) = Cardinality(below[x]) + 1
    BY <1>2, <2>1, FS_AddElement
  <2>3. Cardinality(below[x] \cup {x}) <= Cardinality(below[y])
    BY <1>2, <2>1, FS_Subset
  <2> QED
    BY <1>2, <2>2, <2>3
<1>4. ASSUME NEW x \in S, NEW y \in S, Cardinality(below[x]) = Cardinality(below[y])
      PROVE  x = y
  <2>1. SUFFICES ASSUME x # y PROVE FALSE
    OBVIOUS
  <2>2. x \in below[y] \/ y \in below[x]
    BY <2>1 DEF IsOrder
  <2>3. Cardinality(below[x]) \in Nat /\ Cardinality(below[y]) \in Nat
    BY <1>2
  <2> QED
    BY <1>3, <1>4, <2>2, <2>3
<1>5. ASSUME NEW x \in S
      PROVE  Cardinality(below[x]) + 1 \in 1 .. Cardinality(S)
  <2>1. below[x] \cup {x} \subseteq S /\ x \notin below[x]
    BY <1>2 DEF IsOrder
  <2>2. Cardinality(below[x] \cup {x}) = Cardinality(below[x]) + 1
    BY <1>2, <2>1, FS_AddElement
  <2>3. Cardinality(below[x] \cup {x}) <= Cardinality(S)
    BY <2>1, FS_Subset
  <2> QED
    BY <1>1, <1>2, <2>2, <2>3
<1>6. ASSUME NEW n \in 1 .. Cardinality(S)
      PROVE  \E x \in S : Cardinality(below[x]) = n - 1
  <2> DEFINE places == 1 .. Cardinality(S)
             f == [x \in S |-> Cardinality(below[x]) + 1]
  <2>1. f \in [S -> places]
    BY <1>5
  <2>2. ASSUME NEW x \in S, NEW y \in S, f[x] = f[y] PROVE x = y
    <3>1. Cardinality(below[x]) = Cardinality(below[y])
      BY <1>2, <2>2
    <3> QED
      BY <1>4, <3>1
  <2>3. f \in Injection(S, places)
    BY <2>1, <2>2 DEF Injection, IsInjective
  <2>4. IsFiniteSet(places) /\ Cardinality(places) = Cardinality(S)
    <3>1. 1 \in Int /\ Cardinality(S) \in Int
      BY <1>1
    <3> QED
      BY <1>1, <3>1, FS_Interval
  <2>5. f \in Surjection(S, places)
    BY <2>3, <2>4, FS_Injection
  <2>6. PICK x \in S : f[x] = n
    BY <2>5 DEF Surjection
  <2> QED
    BY <1>2, <2>6
<1> QED
  BY <1>1, <1>2, <1>3, <1>4, <1>5, <1>6

(* Ascending lists the members of a set, each once. *)
LEMMA AscendingLists ==
  ASSUME NEW S, S \subseteq Nat, IsFiniteSet(S)
  PROVE  /\ Cardinality(S) \in Nat
         /\ Ascending(S) \in [1 .. Cardinality(S) -> S]
         /\ \A x \in S : \E n \in 1 .. Cardinality(S) : Ascending(S)[n] = x
         /\ \A m, n \in 1 .. Cardinality(S) : Ascending(S)[m] = Ascending(S)[n] => m = n
<1> DEFINE below == [x \in S |-> {y \in S : y < x}]
           place(x) == Cardinality({y \in S : y < x})
<1>1. IsOrder(S, below)
  <2>1. below \in [S -> SUBSET S]
    OBVIOUS
  <2>2. \A x \in S : below[x] = {y \in S : y < x}
    OBVIOUS
  <2> HIDE DEF below
  <2>3. \A x \in S : x \notin below[x]
    BY <2>2
  <2>4. \A x, y \in S : x # y => x \in below[y] \/ y \in below[x]
    BY <2>2
  <2>5. ASSUME NEW x \in S, NEW y \in S, x \in below[y]
        PROVE  below[x] \subseteq below[y]
    <3> SUFFICES ASSUME NEW z \in below[x] PROVE z \in below[y]
      OBVIOUS
    <3>1. x < y /\ z \in S /\ z < x
      BY <2>2, <2>5
    <3>2. x \in Nat /\ y \in Nat /\ z \in Nat
      BY <3>1
    <3>3. z < y
      BY <3>1, <3>2
    <3> QED
      BY <2>2, <3>1, <3>3
  <2> QED
    BY <2>1, <2>3, <2>4, <2>5 DEF IsOrder
<1>2. \A x \in S : Cardinality(below[x]) = place(x)
  OBVIOUS
<1> HIDE DEF below, place
<1>3. /\ Cardinality(S) \in Nat
      /\ \A n \in 1 .. Cardinality(S) : \E x \in S : place(x) = n - 1
      /\ \A x, y \in S : place(x) = place(y) => x = y
      /\ \A x \in S : place(x) \in Nat /\ place(x) + 1 \in 1 .. Cardinality(S)
  BY <1>1, <1>2, Ranking
<1> DEFINE nth(n) == CHOOSE x \in S : place(x) = n - 1
<1>4. ASSUME NEW n \in 1 .. Cardinality(S)
      PROVE  nth(n) \in S /\ place(nth(n)) = n - 1
  BY <1>3
<1>5. Ascending(S) = [n \in 1 .. Cardinality(S) |-> nth(n)]
  BY DEF Ascending, place
<1> HIDE DEF nth
<1>6. ASSUME NEW x \in S
      PROVE  \E n \in 1 .. Cardinality(S) : Ascending(S)[n] = x
  <2>1. place(x) + 1 \in 1 .. Cardinality(S) /\ (place(x) + 1) - 1 = place(x)
    BY <1>3
  <2>2. nth(place(x) + 1) = x
    BY <1>3, <1>4, <2>1
  <2> QED
    BY <1>5, <2>1, <2>2
<1>7. ASSUME NEW m \in 1 .. Cardinality(S), NEW n \in 1 .. Cardinality(S),
             Ascending(S)[m] = Ascending(S)[n]
      PROVE  m = n
  <2>1. m - 1 = n - 1
    BY <1>4, <1>5, <1>7
  <2> QED
    BY <2>1
<1> QED
  BY <1>3, <1>4, <1>5, <1>6, <1>7

LEMMA AtLists ==
  ASSUME NEW X, NEW seq \in Seq(X), NEW S, S \subseteq DOMAIN seq
  PROVE  At(seq, S) \in Seq(X) /\ Elements(At(seq, S)) = {seq[i] : i \in S}
<1>1. S \subseteq Nat /\ IsFiniteSet(S)
  <2>1. DOMAIN seq = 1 .. Len(seq) /\ Len(seq) \in Nat
    OBVIOUS
  <2>2. IsFiniteSet(1 .. Len(seq))
    BY <2>1, FS_Interval
  <2> QED
    BY <2>1, <2>2, FS_Subset
<1> DEFINE place == Ascending(S)
           n == Cardinality(S)
<1>2. /\ n \in Nat /\ place \in [1 .. n -> S]
      /\ \A x \in S : \E i \in 1 .. n : place[i] = x
  BY <1>1, AscendingLists
<1>3. At(seq, S) = [i \in DOMAIN place |-> seq[place[i]]]
  BY DEF At
<1> HIDE DEF place, n
<1>4. At(seq, S) = [i \in 1 .. n |-> seq[place[i]]]
  BY <1>2, <1>3
<1>5. \A i \in 1 .. n : seq[place[i]] \in X
  BY <1>2
<1>6. At(seq, S) \in Seq(X)
  BY <1>2, <1>4, <1>5
<1>7. Elements(At(seq, S)) = {seq[i] : i \in S}
  <2>1. Elements(At(seq, S)) = {seq[place[i]] : i \in 1 .. n}
    BY <1>4 DEF Elements
  <2>2. \A i \in 1 .. n : place[i] \in S
    BY <1>2
  <2>3. \A x \in S : \E i \in 1 .. n : seq[x] = seq[place[i]]
    BY <1>2
  <2> QED
    BY <2>1, <2>2, <2>3
<1> QED
  BY <1>6, <1>7

LEMMA KeysOfElements ==
  ASSUME NEW pairs
  PROVE  KeysIn(pairs) = {pair.key : pair \in Elements(pairs)}
BY DEF KeysIn, Elements

LEMMA ConcatDistinct ==
  ASSUME NEW X, NEW s \in Seq(X), NEW t \in Seq(X), Distinct(s), Distinct(t),
         KeysIn(s) \cap KeysIn(t) = {}
  PROVE  Distinct(s \o t)
<1> DEFINE m == Len(s)
           n == Len(t)
           c == s \o t
<1>1. /\ c \in Seq(X) /\ Len(c) = m + n
      /\ \A i \in 1 .. m + n : c[i] = IF i <= m THEN s[i] ELSE t[i - m]
  BY ConcatProperties
<1>2. m \in Nat /\ n \in Nat /\ DOMAIN s = 1 .. m /\ DOMAIN t = 1 .. n /\ DOMAIN c = 1 .. m + n
  BY <1>1
<1> HIDE DEF c, m, n
<1>3. \A i \in 1 .. m : s[i].key \in KeysIn(s)
  BY <1>2 DEF KeysIn
<1>4. \A i \in 1 .. n : t[i].key \in KeysIn(t)
  BY <1>2 DEF KeysIn
<1>5. ASSUME NEW i \in 1 .. m + n, NEW j \in 1 .. m + n, c[i].key = c[j].key
      PROVE  i = j
  <2>1. CASE i <= m /\ j <= m
    <3>1. i \in 1 .. m /\ j \in 1 .. m /\ s[i].key = s[j].key
      BY <1>1, <1>2, <1>5, <2>1
    <3> QED
      BY <1>2, <3>1 DEF Distinct
  <2>2. CASE ~(i <= m) /\ ~(j <= m)
    <3>1. i - m \in 1 .. n /\ j - m \in 1 .. n /\ t[i - m].key = t[j - m].key
      BY <1>1, <1>2, <1>5, <2>2
    <3>2. i - m = j - m
      BY <1>2, <3>1 DEF Distinct
    <3> QED
      BY <1>2, <3>2
  <2>3. CASE i <= m /\ ~(j <= m)
    <3>1. i \in 1 .. m /\ j - m \in 1 .. n /\ s[i].key = t[j - m].key
      BY <1>1, <1>2, <1>5, <2>3
    <3> QED
      BY <1>3, <1>4, <3>1
  <2>4. CASE ~(i <= m) /\ j <= m
    <3>1. j \in 1 .. m /\ i - m \in 1 .. n /\ s[j].key = t[i - m].key
      BY <1>1, <1>2, <1>5, <2>4
    <3> QED
      BY <1>3, <1>4, <3>1
  <2> QED
    BY <2>1, <2>2, <2>3, <2>4
<1> QED
  BY <1>2, <1>5 DEF Distinct, c

LEMMA FlattenDistinct ==
  ASSUME NEW X, NEW seqs \in Seq(Seq(X)),
         \A i \in DOMAIN seqs : Distinct(seqs[i]),
         \A i, j \in DOMAIN seqs : i # j => KeysIn(seqs[i]) \cap KeysIn(seqs[j]) = {}
  PROVE  Distinct(FlattenSeq(seqs))
<1> DEFINE n == Len(seqs)
           All(k) == UNION {KeysIn(seqs[i]) : i \in 1 .. k}
<1>1. PICK P \in [0 .. n -> Seq(X)] :
        /\ P[0] = <<>>
        /\ \A i \in 1 .. n : P[i] = P[i - 1] \o seqs[i]
        /\ FlattenSeq(seqs) = P[n]
  BY FlattenSteps
<1>2. n \in Nat /\ seqs \in [1 .. n -> Seq(X)] /\ DOMAIN seqs = 1 .. n
  OBVIOUS
<1> HIDE DEF n
<1> DEFINE Bad == {k \in 0 .. n : ~(Distinct(P[k]) /\ KeysIn(P[k]) = All(k))}
<1>3. Bad = {}
  <2> SUFFICES ASSUME Bad # {} PROVE FALSE
    OBVIOUS
  <2> HIDE DEF All
  <2>1. Bad \subseteq Nat
    BY <1>2
  <2>2. PICK k \in Bad : \A j \in Bad : k <= j
    BY <2>1, LeastNumber
  <2>3. Distinct(P[0]) /\ KeysIn(P[0]) = {} /\ All(0) = {}
    BY <1>1 DEF Distinct, KeysIn, All
  <2>4. k # 0 /\ k \in 0 .. n
    BY <2>3
  <2>5. k \in 1 .. n /\ k - 1 \in 0 .. n /\ ~(k <= k - 1)
    BY <1>2, <2>4
  <2>6. Distinct(P[k - 1]) /\ KeysIn(P[k - 1]) = All(k - 1)
    BY <2>2, <2>5
  <2>7. P[k] = P[k - 1] \o seqs[k] /\ P[k - 1] \in Seq(X) /\ seqs[k] \in Seq(X)
    BY <1>1, <1>2, <2>5
  <2>8. KeysIn(P[k]) = KeysIn(P[k - 1]) \cup KeysIn(seqs[k])
    <3>1. Elements(P[k]) = Elements(P[k - 1]) \cup Elements(seqs[k])
      BY <2>7, ConcatLists
    <3> QED
      BY <3>1, KeysOfElements
  <2>9. All(k) = All(k - 1) \cup KeysIn(seqs[k])
    <3>1. 1 .. k = (1 .. k - 1) \cup {k}
      BY <2>5
    <3> QED
      BY <3>1 DEF All
  <2>10. All(k - 1) \cap KeysIn(seqs[k]) = {}
    <3>1. \A i \in 1 .. k - 1 : i \in DOMAIN seqs /\ i # k
      BY <1>2, <2>5
    <3>2. k \in DOMAIN seqs
      BY <1>2, <2>5
    <3>3. \A i \in 1 .. k - 1 : KeysIn(seqs[i]) \cap KeysIn(seqs[k]) = {}
      BY <3>1, <3>2
    <3> QED
      BY <3>3 DEF All
  <2>11. Distinct(P[k])
    <3>1. Distinct(seqs[k])
      BY <1>2, <2>5
    <3> QED
      BY <2>6, <2>7, <2>10, <3>1, ConcatDistinct
  <2> QED
    BY <2>2, <2>6, <2>8, <2>9, <2>11
<1>4. n \in 0 .. n
  BY <1>2
<1> QED
  BY <1>1, <1>3, <1>4

(* Sorted returns the pairs that it is given; when their keys are the numbers *)
(* below n, once each, the pair of v is at position v + 1.                    *)
LEMMA SortedLists ==
  ASSUME NEW K, K \subseteq Nat, NEW X, NEW pairs \in Seq([key : K, value : X])
  PROVE  /\ Sorted(pairs) \in Seq([key : K, value : X])
         /\ Elements(Sorted(pairs)) \subseteq Elements(pairs)
         /\ \A n \in Nat : Distinct(pairs) /\ KeysIn(pairs) = 0 .. n - 1 =>
              Len(Sorted(pairs)) = n /\ \A v \in 0 .. n - 1 : Sorted(pairs)[v + 1].key = v
<1> DEFINE m == Len(pairs)
           D == 1 .. m
           below == [i \in D |-> {j \in D : Before(pairs, j, i)}]
           place(i) == Cardinality({j \in D : Before(pairs, j, i)})
           key(i) == pairs[i].key
<1>1. m \in Nat /\ DOMAIN pairs = D /\ \A i \in D : pairs[i] \in [key : K, value : X]
  <2>1. m \in Nat /\ DOMAIN pairs = D
    OBVIOUS
  <2>2. \A i \in D : pairs[i] \in [key : K, value : X]
    BY ElementOfSeq
  <2> QED
    BY <2>1, <2>2
<1>2. \A i \in D : key(i) \in Nat /\ pairs[i].key = key(i)
  <2>1. \A i \in D : pairs[i].key \in K
    BY <1>1
  <2> QED
    BY <2>1
<1> HIDE DEF m, key
<1>3. IsFiniteSet(D) /\ Cardinality(D) = m
  <2>1. 1 \in Int /\ m \in Int /\ (1 > m => m = 0) /\ (m - 1) + 1 = m
    BY <1>1
  <2> QED
    BY <2>1, FS_Interval
<1>4. \A i, j \in D : Before(pairs, j, i) <=> key(j) < key(i) \/ (key(j) = key(i) /\ j < i)
  BY <1>2 DEF Before
<1>5. IsOrder(D, below)
  <2>1. \A i \in D : below[i] = {j \in D : key(j) < key(i) \/ (key(j) = key(i) /\ j < i)}
    BY <1>4
  <2>2. below \in [D -> SUBSET D]
    OBVIOUS
  <2> HIDE DEF below
  <2>3. \A i \in D : i \notin below[i]
    BY <1>2, <2>1
  <2>4. \A i, j \in D : i # j => i \in below[j] \/ j \in below[i]
    <3> SUFFICES ASSUME NEW i \in D, NEW j \in D, i # j
                 PROVE  i \in below[j] \/ j \in below[i]
      OBVIOUS
    <3>1. key(i) < key(j) \/ key(j) < key(i) \/ (key(i) = key(j) /\ (i < j \/ j < i))
      BY <1>1, <1>2
    <3> QED
      BY <2>1, <3>1
  <2>5. ASSUME NEW i \in D, NEW j \in D, i \in below[j]
        PROVE  below[i] \subseteq below[j]
    <3> SUFFICES ASSUME NEW h \in below[i] PROVE h \in below[j]
      OBVIOUS
    <3>1. h \in D /\ (key(h) < key(i) \/ (key(h) = key(i) /\ h < i))
      BY <2>1
    <3>2. key(i) < key(j) \/ (key(i) = key(j) /\ i < j)
      BY <2>1, <2>5
    <3>3. key(h) < key(j) \/ (key(h) = key(j) /\ h < j)
      BY <1>1, <1>2, <3>1, <3>2
    <3> QED
      BY <2>1, <3>1, <3>3
  <2> QED
    BY <2>2, <2>3, <2>4, <2>5 DEF IsOrder
<1>6. \A i \in D : Cardinality(below[i]) = place(i)
  OBVIOUS
<1>7. /\ \A n \in D : \E i \in D : place(i) = n - 1
      /\ \A i, j \in D : place(i) = place(j) => i = j
  <2> HIDE DEF below, place, D
  <2>1. /\ \A n \in 1 .. Cardinality(D) : \E i \in D : Cardinality(below[i]) = n - 1
        /\ \A i, j \in D : Cardinality(below[i]) = Cardinality(below[j]) => i = j
    BY <1>3, <1>5, Ranking
  <2>2. D = 1 .. Cardinality(D)
    BY <1>3 DEF D
  <2> QED
    BY <1>6, <2>1, <2>2
<1> DEFINE nth(n) == CHOOSE i \in D : place(i) = n - 1
<1>8. \A n \in D : nth(n) \in D /\ place(nth(n)) = n - 1
  <2> HIDE DEF place
  <2> QED
    BY <1>7
<1>9. Sorted(pairs) = [n \in D |-> pairs[nth(n)]]
  BY <1>1 DEF Sorted
<1> HIDE DEF nth, below
<1>10. Sorted(pairs) \in Seq([key : K, value : X]) /\ Len(Sorted(pairs)) = m
  <2>1. Sorted(pairs) \in [1 .. m -> [key : K, value : X]]
    <3> HIDE DEF place
    <3> QED
      BY <1>1, <1>8, <1>9
  <2> QED
    BY <1>1, <2>1
<1>11. Elements(Sorted(pairs)) \subseteq Elements(pairs)
  <2> HIDE DEF place
  <2> QED
    BY <1>1, <1>8, <1>9 DEF Elements
<1>12. ASSUME NEW n \in Nat, Distinct(pairs), KeysIn(pairs) = 0 .. n - 1
       PROVE  m = n /\ \A v \in 0 .. n - 1 : Sorted(pairs)[v + 1].key = v
  <2>1. \A i \in D : key(i) \in 0 .. n - 1
    BY <1>1, <1>2, <1>12 DEF KeysIn
  <2>2. \A v \in 0 .. n - 1 : \E i \in D : key(i) = v
    BY <1>1, <1>2, <1>12 DEF KeysIn
  <2>3. \A i, j \in D : key(i) = key(j) => i = j
    BY <1>1, <1>2, <1>12 DEF Distinct
  <2>4. \A k \in 0 .. n : IsFiniteSet(0 .. k - 1) /\ Cardinality(0 .. k - 1) = k
    <3> SUFFICES ASSUME NEW k \in 0 .. n
                 PROVE  IsFiniteSet(0 .. k - 1) /\ Cardinality(0 .. k - 1) = k
      OBVIOUS
    <3>1. 0 \in Int /\ k - 1 \in Int /\ (0 > k - 1 => k = 0) /\ ((k - 1) - 0) + 1 = k
      BY <1>12
    <3> QED
      BY <3>1, FS_Interval
  <2>5. ASSUME NEW S \in SUBSET D, NEW k \in 0 .. n, \A i \in D : i \in S <=> key(i) < k
        PROVE  Cardinality(S) = k
    <3> DEFINE f == [i \in S |-> key(i)]
               I == 0 .. k - 1
    <3>1. f \in [S -> I]
      BY <2>1, <2>5
    <3>2. \A i, j \in S : f[i] = f[j] => i = j
      BY <2>3
    <3>3. f \in Injection(S, I)
      BY <3>1, <3>2 DEF Injection, IsInjective
    <3>4. \A v \in I : \E i \in S : f[i] = v
      <4> SUFFICES ASSUME NEW v \in I PROVE \E i \in S : f[i] = v
        OBVIOUS
      <4>1. v \in 0 .. n - 1 /\ v < k
        BY <1>12
      <4>2. PICK i \in D : key(i) = v
        BY <2>2, <4>1
      <4> QED
        BY <2>5, <4>1, <4>2
    <3>5. f \in Surjection(S, I)
      BY <3>1, <3>4 DEF Surjection
    <3>6. IsFiniteSet(I) /\ Cardinality(I) = k
      BY <2>4
    <3> HIDE DEF f, I
    <3> QED
      BY <3>3, <3>5, <3>6, FS_Injection
  <2>6. m = n
    <3>1. \A i \in D : key(i) < n
      BY <2>1
    <3>2. n \in 0 .. n /\ D \in SUBSET D
      BY <1>12
    <3>3. Cardinality(D) = n
      BY <2>5, <3>1, <3>2
    <3> QED
      BY <1>3, <3>3
  <2>7. ASSUME NEW i \in D PROVE place(i) = key(i)
    <3> DEFINE S == {j \in D : Before(pairs, j, i)}
    <3>1. \A j \in D : j \in S <=> key(j) < key(i)
      <4> SUFFICES ASSUME NEW j \in D PROVE Before(pairs, j, i) <=> key(j) < key(i)
        OBVIOUS
      <4>1. key(j) = key(i) => j = i
        BY <2>3
      <4> QED
        BY <1>1, <1>2, <1>4, <4>1
    <3>2. key(i) \in 0 .. n
      BY <2>1, <1>12
    <3>3. S \in SUBSET D
      OBVIOUS
    <3> HIDE DEF S
    <3>4. Cardinality(S) = key(i)
      BY <2>5, <3>1, <3>2, <3>3
    <3> QED
      BY <3>4 DEF S
  <2>8. ASSUME NEW v \in 0 .. n - 1 PROVE Sorted(pairs)[v + 1].key = v
    <3>1. v + 1 \in D /\ (v + 1) - 1 = v
      BY <2>6, <1>12
    <3> DEFINE i == nth(v + 1)
    <3>2. i \in D /\ place(i) = v
      <4> HIDE DEF place
      <4> QED
        BY <1>8, <3>1
    <3>3. Sorted(pairs)[v + 1] = pairs[i]
      BY <1>9, <3>1
    <3> HIDE DEF i, place
    <3> QED
      BY <1>2, <2>7, <3>2, <3>3
  <2> QED
    BY <2>6, <2>8
<1> QED
  BY <1>10, <1>11, <1>12

(* the column and the norm that a process has now *)
Now(r) == [norm |-> norm[r], pageRanks |-> pageRanks[r]]

LEMMA ResultNow ==
  ASSUME NEW r \in Ranks, job # "page" \/ pc[r] # "take"
  PROVE  Result(r) = Now(r)
BY DEF Result, Now

LEMMA ResultTaken ==
  ASSUME NEW r \in Ranks, job = "page", pc[r] = "take"
  PROVE  Result(r) = Gathered(Now(r), kv[r])
BY DEF Result, Now

LEMMA ResultNowPrime ==
  ASSUME NEW r \in Ranks, job' # "page" \/ pc'[r] # "take"
  PROVE  Result(r)' = Now(r)'
BY DEF Result, Now

LEMMA ResultTakenPrime ==
  ASSUME NEW r \in Ranks, job' = "page", pc'[r] = "take"
  PROVE  Result(r)' = Gathered(Now(r)', kv'[r])
BY DEF Result, Now

(* The other processes are in the part of the program that one is in. *)
LEMMA InStage ==
  ASSUME LockStep, NEW r \in Ranks, NEW stage \in Stages, pc[r] \in stage
  PROVE  \A s \in Ranks : pc[s] \in stage
BY DEF LockStep, Stages, Returned

(* A step of one process inside its part of the program *)
LEMMA LocalShape ==
  ASSUME Shape, LockStep, NEW r \in Ranks, NEW stage \in Stages, NEW label \in stage,
         label \in Labels, pc[r] \in stage, Goto(r, label)
  PROVE  /\ pc' \in [Ranks -> Labels] /\ LockStep'
         /\ pc'[r] = label /\ \A s \in Ranks \ {r} : pc'[s] = pc[s]
<1>1. \A s \in Ranks : pc[s] \in stage
  BY InStage
<1>2. pc'[r] = label /\ \A s \in Ranks \ {r} : pc'[s] = pc[s]
  BY DEF Goto, Shape
<1>3. pc' \in [Ranks -> Labels]
  BY DEF Goto, Shape
<1> QED
  BY <1>1, <1>2, <1>3 DEF LockStep

(* A step of all processes together *)
LEMMA TogetherShape ==
  ASSUME NEW from, NEW to \in Labels, Together(from, to)
  PROVE  /\ pc' \in [Ranks -> Labels] /\ LockStep'
         /\ \A s \in Ranks : pc[s] = from /\ pc'[s] = to
<1>1. \A s \in Ranks : pc[s] = from /\ pc'[s] = to
  BY DEF Together
<1>2. \E stage \in Stages : to \in stage
  BY DEF Stages, Returned, Labels
<1> QED
  BY <1>1, <1>2 DEF Together, LockStep

--------------------------------------------------------------------------------
Inner == {"map", "collate", "reduce", "gather", "sort", "broadcast"}

(* Nothing changes for the column and the norm where pairs are only moved. *)
LEMMA InnerStep ==
  ASSUME SameColumn, SameNorm, UNCHANGED <<pageRanks, norm>>,
         \A s \in Ranks : pc[s] \in Inner /\ pc'[s] \in Inner
  PROVE  SameColumn' /\ SameNorm'
<1>1. \A s \in Ranks : Result(s) = Now(s) /\ Result(s)' = Now(s)'
  BY ResultNow, ResultNowPrime DEF Inner
<1>2. \A s \in Ranks : Now(s)' = Now(s)
  BY DEF Now
<1>3. \A s \in Ranks : Result(s)' = Result(s)
  BY <1>1, <1>2
<1>4. SameColumn'
  BY <1>3 DEF SameColumn
<1>5. SameNorm'
  BY <1>3 DEF SameNorm, Inner, Returned
<1> QED
  BY <1>4, <1>5

LEMMA BarrierAgrees == AgreeInv /\ Barrier => AgreeInv'
<1> SUFFICES ASSUME AgreeInv, Barrier PROVE AgreeInv'
  OBVIOUS
<1>1. Together("barrier", "map") /\ UNCHANGED <<pageRanks, norm, kv>>
  BY DEF Barrier
<1>2. /\ pc' \in [Ranks -> Labels] /\ LockStep'
      /\ \A s \in Ranks : pc[s] = "barrier" /\ pc'[s] = "map"
  BY <1>1, TogetherShape DEF Labels
<1>3. \A s \in Ranks : Result(s) = Now(s) /\ Result(s)' = Now(s)' /\ Now(s)' = Now(s)
  BY <1>1, <1>2, ResultNow, ResultNowPrime DEF Now
<1>4. SameColumn'
  BY <1>3 DEF AgreeInv, SameColumn
<1>5. SameNorm'
  <2>1. \A s \in Ranks : norm'[s] = Zero
    BY <1>1, <1>2 DEF AgreeInv, SameNorm
  <2>2. \A s \in Ranks : Now(s)'.norm = norm'[s]
    BY DEF Now
  <2>3. \A s \in Ranks : Result(s)' = Now(s)'
    BY <1>3
  <2>4. \A s \in Ranks : Result(s)'.norm = Zero
    BY <2>1, <2>2, <2>3
  <2> QED
    BY <2>4, <1>2 DEF SameNorm, Returned
<1> QED
  BY <1>1, <1>2, <1>4, <1>5 DEF AgreeInv, Shape

LEMMA MapAgrees ==
  ASSUME NEW r \in Ranks, AgreeInv, Map(r) \/ Reduce(r) \/ SortKeys(r)
  PROVE  AgreeInv'
<1>1. PICK stage \in {{"map", "collate"}, {"reduce", "gather"}, {"sort", "broadcast"}},
           label \in Inner : label \in stage /\ pc[r] \in stage /\ Goto(r, label)
  <2>1. CASE Map(r)
    BY <2>1 DEF Map, Inner
  <2>2. CASE Reduce(r)
    BY <2>2 DEF Reduce, Inner
  <2>3. CASE SortKeys(r)
    BY <2>3 DEF SortKeys, Inner
  <2> QED
    BY <2>1, <2>2, <2>3
<1>2. stage \in Stages /\ stage \subseteq Inner /\ stage \subseteq Labels
  BY DEF Stages, Inner, Labels
<1>3. /\ pc' \in [Ranks -> Labels] /\ LockStep'
      /\ pc'[r] = label /\ \A s \in Ranks \ {r} : pc'[s] = pc[s]
  BY <1>1, <1>2, LocalShape DEF AgreeInv
<1>4. \A s \in Ranks : pc[s] \in stage
  BY <1>1, <1>2, InStage DEF AgreeInv
<1>5. \A s \in Ranks : pc[s] \in Inner /\ pc'[s] \in Inner
  BY <1>1, <1>2, <1>3, <1>4
<1>6. UNCHANGED <<pageRanks, norm>> /\ DOMAIN kv' = Ranks
  BY DEF Map, Reduce, SortKeys, AgreeInv, Shape
<1>7. SameColumn' /\ SameNorm'
  BY <1>5, <1>6, InnerStep DEF AgreeInv
<1> QED
  BY <1>3, <1>6, <1>7 DEF AgreeInv, Shape

LEMMA CollateAgrees == AgreeInv /\ (Collate \/ Gather) => AgreeInv'
<1> SUFFICES ASSUME AgreeInv, Collate \/ Gather PROVE AgreeInv'
  OBVIOUS
<1>1. PICK from \in Inner, to \in Inner : Together(from, to)
  BY DEF Collate, Gather, Inner
<1>2. /\ pc' \in [Ranks -> Labels] /\ LockStep'
      /\ \A s \in Ranks : pc[s] = from /\ pc'[s] = to
  BY <1>1, TogetherShape DEF Labels, Inner
<1>3. UNCHANGED <<pageRanks, norm>> /\ DOMAIN kv' = Ranks
  BY DEF Collate, Gather
<1>4. SameColumn' /\ SameNorm'
  BY <1>1, <1>2, <1>3, InnerStep DEF AgreeInv
<1> QED
  BY <1>2, <1>3, <1>4 DEF AgreeInv, Shape

(* All processes are given the same pairs, and have the same column and norm. *)
LEMMA BroadcastAgrees == AgreeInv /\ Broadcast => AgreeInv'
<1> SUFFICES ASSUME AgreeInv, Broadcast PROVE AgreeInv'
  OBVIOUS
<1>1. /\ Together("broadcast", "take")
      /\ kv' = [s \in Ranks |-> kv[0]] /\ UNCHANGED <<pageRanks, norm, job>>
  BY DEF Broadcast
<1>2. /\ pc' \in [Ranks -> Labels] /\ LockStep'
      /\ \A s \in Ranks : pc[s] = "broadcast" /\ pc'[s] = "take"
  BY <1>1, TogetherShape DEF Labels
<1>3. \A s \in Ranks : Result(s) = Now(s) /\ Now(s)' = Now(s) /\ kv'[s] = kv[0]
  BY <1>1, <1>2, ResultNow DEF Now
<1>4. \A r, s \in Ranks : Now(r) = Now(s)
  <2> SUFFICES ASSUME NEW r \in Ranks, NEW s \in Ranks PROVE Now(r) = Now(s)
    OBVIOUS
  <2>1. Now(r).pageRanks = Now(s).pageRanks
    BY <1>3 DEF AgreeInv, SameColumn
  <2>2. Now(r).norm = Now(s).norm
    BY <1>2, <1>3 DEF AgreeInv, SameNorm
  <2> QED
    BY <2>1, <2>2 DEF Now
<1>5. \A r, s \in Ranks : Result(r)' = Result(s)'
  <2> SUFFICES ASSUME NEW r \in Ranks, NEW s \in Ranks PROVE Result(r)' = Result(s)'
    OBVIOUS
  <2>1. CASE job' = "page"
    <3>1. Result(r)' = Gathered(Now(r)', kv'[r]) /\ Result(s)' = Gathered(Now(s)', kv'[s])
      BY <2>1, <1>2, ResultTakenPrime
    <3> QED
      BY <3>1, <1>3, <1>4
  <2>2. CASE job' # "page"
    <3>1. Result(r)' = Now(r)' /\ Result(s)' = Now(s)'
      BY <2>2, ResultNowPrime
    <3> QED
      BY <3>1, <1>3, <1>4
  <2> QED
    BY <2>1, <2>2
<1>6. SameColumn'
  BY <1>5 DEF SameColumn
<1>7. SameNorm'
  BY <1>2, <1>5 DEF SameNorm, Returned
<1> QED
  BY <1>1, <1>2, <1>6, <1>7 DEF AgreeInv, Shape

(* Taking the pairs makes the announced result the present one. *)
LEMMA TakeAgrees ==
  ASSUME NEW r \in Ranks, AgreeInv, TakeFactor(r) \/ TakePageRanks(r)
  PROVE  AgreeInv'
<1> DEFINE stage == {"take", "taken"}
<1>1. pc[r] = "take" /\ Goto(r, "taken") /\ UNCHANGED job
  BY DEF TakeFactor, TakePageRanks
<1>2. stage \in Stages
  BY DEF Stages
<1>3. /\ pc' \in [Ranks -> Labels] /\ LockStep'
      /\ pc'[r] = "taken" /\ \A s \in Ranks \ {r} : pc'[s] = pc[s]
  BY <1>1, <1>2, LocalShape DEF AgreeInv, Labels
<1>4. \A s \in Ranks : pc[s] \in stage /\ pc'[s] \in stage
  <2>1. \A s \in Ranks : pc[s] \in stage
    BY <1>1, <1>2, InStage DEF AgreeInv
  <2> QED
    BY <2>1, <1>3
<1>5. DOMAIN pageRanks' = Ranks /\ DOMAIN norm' = Ranks /\ DOMAIN kv' = Ranks
  BY DEF TakeFactor, TakePageRanks, AgreeInv, Shape
<1>6. \A s \in Ranks \ {r} : Result(s)' = Result(s)
  <2> SUFFICES ASSUME NEW s \in Ranks \ {r} PROVE Result(s)' = Result(s)
    OBVIOUS
  <2>1. norm'[s] = norm[s] /\ pageRanks'[s] = pageRanks[s] /\ kv'[s] = kv[s] /\ pc'[s] = pc[s]
    BY <1>3 DEF TakeFactor, TakePageRanks, AgreeInv, Shape
  <2> QED
    BY <2>1, <1>1 DEF Result
<1>7. Result(r)' = Now(r)'
  BY <1>3, ResultNowPrime
<1>8. Result(r)'.pageRanks = Result(r).pageRanks /\ Result(r)'.norm = Result(r).norm
  <2>1. CASE TakeFactor(r)
    <3>1. Result(r) = Now(r)
      BY <2>1, ResultNow DEF TakeFactor
    <3>2. Now(r)' = Now(r)
      BY <2>1 DEF TakeFactor, Now
    <3> QED
      BY <3>1, <3>2, <1>7
  <2>2. CASE TakePageRanks(r)
    <3>1. Result(r) = Gathered(Now(r), kv[r])
      BY <2>2, ResultTaken DEF TakePageRanks
    <3>2. /\ norm'[r] = Gathered(Now(r), kv[r]).norm
          /\ pageRanks'[r] = Gathered(Now(r), kv[r]).pageRanks
      BY <2>2 DEF TakePageRanks, Now, AgreeInv, Shape
    <3> QED
      BY <3>1, <3>2, <1>7 DEF Now
  <2> QED
    BY <2>1, <2>2
<1>9. \A s \in Ranks : Result(s)'.pageRanks = Result(s).pageRanks /\ Result(s)'.norm = Result(s).norm
  BY <1>6, <1>8
<1>10. SameColumn'
  BY <1>9 DEF AgreeInv, SameColumn
<1>11. SameNorm'
  BY <1>4, <1>9 DEF AgreeInv, SameNorm, Returned
<1> QED
  BY <1>3, <1>5, <1>10, <1>11 DEF AgreeInv, Shape

LEMMA EndTakeAgrees == AgreeInv /\ EndTake => AgreeInv'
<1> SUFFICES ASSUME AgreeInv, EndTake PROVE AgreeInv'
  OBVIOUS
<1>1. PICK to \in {"map", "test"} : Together("taken", to)
  BY DEF EndTake
<1>2. /\ pc' \in [Ranks -> Labels] /\ LockStep'
      /\ \A s \in Ranks : pc[s] = "taken" /\ pc'[s] = to
  BY <1>1, TogetherShape DEF Labels
<1>3. UNCHANGED <<pageRanks, norm, kv>>
  BY DEF EndTake
<1>4. \A s \in Ranks : Result(s)' = Result(s)
  <2>1. \A s \in Ranks : Result(s) = Now(s) /\ Result(s)' = Now(s)' /\ Now(s)' = Now(s)
    BY <1>2, <1>3, ResultNow, ResultNowPrime DEF Now
  <2> QED
    BY <2>1
<1>5. SameColumn'
  BY <1>4 DEF AgreeInv, SameColumn
<1>6. SameNorm'
  BY <1>2, <1>4 DEF AgreeInv, SameNorm, Returned
<1> QED
  BY <1>2, <1>3, <1>5, <1>6 DEF AgreeInv, Shape

(* The processes that stay in the loop leave it to none: all norms that are   *)
(* still to be tested are too large as well.                                  *)
LEMMA TestAgrees ==
  ASSUME NEW r \in Ranks, AgreeInv, Test(r)
  PROVE  AgreeInv'
<1> DEFINE stage == {"test", "barrier"} \cup Returned
<1>1. PICK label \in {"barrier", "open"} : pc[r] = "test" /\ Goto(r, label)
  BY DEF Test
<1>2. stage \in Stages
  BY DEF Stages
<1>3. /\ pc' \in [Ranks -> Labels] /\ LockStep'
      /\ pc'[r] = label /\ \A s \in Ranks \ {r} : pc'[s] = pc[s]
  BY <1>1, <1>2, LocalShape DEF AgreeInv, Labels, Returned
<1>4. \A s \in Ranks : pc[s] \in stage /\ pc'[s] \in stage
  <2>1. \A s \in Ranks : pc[s] \in stage
    BY <1>1, <1>2, InStage DEF AgreeInv
  <2> QED
    BY <2>1, <1>3, <1>1 DEF Returned
<1>5. UNCHANGED <<pageRanks, kv>> /\ DOMAIN norm' = Ranks
  BY DEF Test, AgreeInv, Shape
<1>6. \A s \in Ranks : Result(s) = Now(s) /\ Result(s)' = Now(s)'
  BY <1>4, ResultNow, ResultNowPrime DEF Returned
<1>7. SameColumn'
  BY <1>5, <1>6 DEF AgreeInv, SameColumn, Now
<1>8. \A s \in Ranks \ {r} : norm'[s] = norm[s]
  BY DEF Test, AgreeInv, Shape
<1>9. \A s \in Ranks : pc[s] # "barrier" => norm[s] = norm[r]
  BY <1>1, <1>6 DEF AgreeInv, SameNorm, Now
<1>10. SameNorm'
  <2>1. CASE Above(norm[r]) /\ pc'[r] = "barrier" /\ norm' = [norm EXCEPT ![r] = Zero]
    <3>1. norm'[r] = Zero
      BY <2>1 DEF AgreeInv, Shape
    <3>2. \A s \in Ranks : pc[s] # "barrier" => Above(norm[s])
      BY <2>1, <1>9
    <3>3. \A s \in Ranks : pc[s] \notin Returned
      BY <3>2 DEF AgreeInv, SameNorm, Returned
    <3> QED
      BY <2>1, <3>1, <3>2, <3>3, <1>3, <1>4, <1>6, <1>8, <1>9 DEF AgreeInv, SameNorm, Now, Returned
  <2>2. CASE ~Above(norm[r]) /\ pc'[r] = "open" /\ UNCHANGED norm
    <3>1. \A s \in Ranks : pc[s] # "barrier"
      BY <2>2, <1>1 DEF AgreeInv, SameNorm
    <3> QED
      BY <2>2, <3>1, <1>3, <1>6, <1>9 DEF AgreeInv, SameNorm, Now, Returned
  <2> QED
    BY <1>3, <2>1, <2>2 DEF Test, Goto, AgreeInv, Shape
<1> QED
  BY <1>3, <1>5, <1>7, <1>10 DEF AgreeInv, Shape

LEMMA PrintAgrees ==
  ASSUME NEW r \in Ranks, AgreeInv, OpenFile(r) \/ PrintLine(r) \/ CloseFile(r)
  PROVE  AgreeInv'
<1> DEFINE stage == {"test", "barrier"} \cup Returned
<1>1. UNCHANGED <<pageRanks, norm, kv, job>>
  BY DEF OpenFile, PrintLine, CloseFile
<1>2. CASE UNCHANGED pc
  <2>1. \A s \in Ranks : Result(s)' = Result(s)
    BY <1>1, <1>2 DEF Result
  <2>2. SameColumn' /\ SameNorm'
    BY <1>1, <1>2, <2>1 DEF AgreeInv, SameColumn, SameNorm
  <2> QED
    BY <1>1, <1>2, <2>2 DEF AgreeInv, Shape, LockStep
<1>3. CASE OpenFile(r) \/ CloseFile(r)
  <2>1. PICK label \in Returned : pc[r] \in Returned /\ Goto(r, label)
    BY <1>3 DEF OpenFile, CloseFile, Returned
  <2>2. /\ pc' \in [Ranks -> Labels] /\ LockStep'
        /\ pc'[r] = label /\ \A s \in Ranks \ {r} : pc'[s] = pc[s]
    <3>1. stage \in Stages /\ label \in stage /\ label \in Labels /\ pc[r] \in stage
      BY <2>1 DEF Stages, Labels, Returned
    <3> QED
      BY <3>1, <2>1, LocalShape DEF AgreeInv
  <2>3. \A s \in Ranks : pc[s] \in stage
    BY <2>1, InStage DEF AgreeInv, Stages
  <2>4. \A s \in Ranks : Result(s)' = Result(s)
    <3>1. \A s \in Ranks : Result(s) = Now(s) /\ Result(s)' = Now(s)' /\ Now(s)' = Now(s)
      BY <1>1, <2>1, <2>2, <2>3, ResultNow, ResultNowPrime DEF Now, Returned
    <3> QED
      BY <3>1
  <2>5. SameColumn' /\ SameNorm'
    BY <1>1, <2>1, <2>2, <2>4 DEF AgreeInv, SameColumn, SameNorm, Returned
  <2> QED
    BY <1>1, <2>2, <2>5 DEF AgreeInv, Shape
<1> QED
  BY <1>2, <1>3 DEF PrintLine

--------------------------------------------------------------------------------
LEMMA AgreeInit == Init => AgreeInv
<1> SUFFICES ASSUME Init PROVE AgreeInv
  OBVIOUS
<1>1. /\ pc = [r \in Ranks |-> "barrier"]
      /\ pageRanks = [r \in Ranks |-> getInitPageRank(N)] /\ norm = [r \in Ranks |-> Zero]
      /\ kv = [r \in Ranks |-> <<>>]
  BY DEF Init
<1>2. \A r \in Ranks : Result(r) = Now(r)
  BY <1>1, ResultNow
<1>3. Shape /\ LockStep
  BY <1>1 DEF Shape, Labels, LockStep, Stages
<1>4. SameColumn
  BY <1>1, <1>2 DEF SameColumn, Now
<1>5. SameNorm
  BY <1>1 DEF SameNorm, Returned
<1> QED
  BY <1>3, <1>4, <1>5 DEF AgreeInv

LEMMA AgreeNext == AgreeInv /\ [Next]_vars => AgreeInv'
<1> SUFFICES ASSUME AgreeInv, [Next]_vars PROVE AgreeInv'
  OBVIOUS
<1>1. CASE UNCHANGED vars
  <2>1. UNCHANGED <<pc, job, pageRanks, norm, kv>>
    BY <1>1 DEF vars
  <2>2. \A s \in Ranks : Result(s)' = Result(s)
    BY <2>1 DEF Result
  <2>3. SameColumn' /\ SameNorm'
    BY <2>1, <2>2 DEF AgreeInv, SameColumn, SameNorm
  <2> QED
    BY <2>1, <2>3 DEF AgreeInv, Shape, LockStep
<1>2. ASSUME NEW r \in Ranks, Local(r) PROVE AgreeInv'
  BY <1>2, MapAgrees, TakeAgrees, TestAgrees, PrintAgrees DEF Local
<1>3. CASE Collective
  BY <1>3, BarrierAgrees, CollateAgrees, BroadcastAgrees, EndTakeAgrees DEF Collective
<1> QED
  BY <1>1, <1>2, <1>3 DEF Next, Terminated

(* All processes stay in the same iteration and agree on the column and the   *)
(* norm, which they compute each for itself.                                  *)
THEOREM ProcessesAgree == Spec => []AgreeInv
BY AgreeInit, AgreeNext, PTL DEF Spec

(* No process of MPI Base ever leaves the loop while another one goes on, for *)
(* any graph, number of processes, hash and page size: the collectives of the *)
(* next iteration have all their partners.                                    *)
THEOREM LeaveTogetherHolds == Spec => []LeaveTogether
<1>1. AgreeInv => LeaveTogether
  <2> SUFFICES ASSUME AgreeInv, NEW r \in Ranks, NEW s \in Ranks, pc[r] \in Returned
               PROVE  pc[s] \in Returned \cup {"test"}
    BY DEF LeaveTogether
  <2>1. pc[s] \in {"test", "barrier"} \cup Returned
    BY InStage DEF AgreeInv, Stages
  <2>2. pc[s] # "barrier"
    BY DEF AgreeInv, SameNorm
  <2> QED
    BY <2>1, <2>2
<1> QED
  BY <1>1, ProcessesAgree, PTL

--------------------------------------------------------------------------------
(* The input is never changed, and its vertices are an interval from 0. *)
GraphInv == \E m \in Nat : V = 0 .. m

THEOREM GraphInvariant == Spec => []GraphInv
<1>1. Init => GraphInv
  <2> SUFFICES ASSUME Init PROVE GraphInv
    OBVIOUS
  <2>1. PICK file \in Files : graph = Graph(file)
    BY DEF Init
  <2>2. V = Vertices(file)
    BY <2>1 DEF Init, Graph, V, calculateHyperLinkColumn
  <2> QED
    BY <2>1, <2>2, VerticesOfFile, FilesAssumption DEF GraphInv
<1>2. GraphInv /\ [Next]_vars => GraphInv'
  <2> SUFFICES ASSUME GraphInv, [Next]_vars PROVE GraphInv'
    OBVIOUS
  <2>1. hyperlink' = hyperlink
    BY DEF Next, vars, input, Local, Collective, Map, Reduce, SortKeys, TakeFactor, TakePageRanks,
           Test, OpenFile, PrintLine, CloseFile, Barrier, Collate, Gather, Broadcast, EndTake,
           Terminated
  <2> QED
    BY <2>1 DEF GraphInv, V
<1> QED
  BY <1>1, <1>2, PTL DEF Spec

LEMMA NumVertices == GraphInv => N \in Nat \ {0} /\ V = 0 .. N-1
<1> SUFFICES ASSUME NEW m \in Nat, V = 0 .. m
             PROVE  N \in Nat \ {0} /\ V = 0 .. N-1
  BY DEF GraphInv
<1>1. N = m + 1
  BY FS_Interval DEF N
<1>2. m + 1 \in Nat \ {0} /\ (m + 1) - 1 = m
  OBVIOUS
<1> QED
  BY <1>1, <1>2

(* a quotient and a bound, multiplied out *)
LEMMA QuotientBelow ==
  ASSUME NEW a \in Nat, NEW s \in Nat \ {0}, NEW q \in Nat
  PROVE  a \div s <= q <=> a < s * q + s
<1> DEFINE d == a \div s
<1>1. d \in Nat /\ s * d <= a /\ a < s * d + s
  BY Division
<1> HIDE DEF d
<1>2. ASSUME d <= q PROVE a < s * q + s
  <2>1. d * s <= q * s /\ d * s = s * d /\ q * s = s * q
    BY <1>1, <1>2, Monotone, SMT
  <2> QED
    BY <2>1, <1>1, SMT
<1>3. ASSUME q < d PROVE ~(a < s * q + s)
  <2>1. (q + 1) * s <= d * s /\ d * s = s * d
    BY <1>1, <1>3, Monotone, SMT
  <2>2. (q + 1) * s = s * q + s
    BY SMT
  <2> QED
    BY <2>1, <2>2, <1>1, SMT
<1> QED
  BY <1>1, <1>2, <1>3 DEF d

LEMMA ChunksOfVertices ==
  ASSUME N \in Nat \ {0}, V = 0 .. N-1
  PROVE  ChunksDivide
<1>0. N \in Nat \ {0} /\ V = 0 .. N-1
  OBVIOUS
<1>9. Size \in Nat \ {0} /\ Ranks = 0 .. Size-1
  BY SizeAssumption DEF Ranks
<1>1. \A r \in Nat : r * N \in Nat
  BY <1>0, Monotone
<1>2. \A r \in Nat : Lo(r) \in Nat
  BY <1>9, <1>1, Division DEF Lo
<1>3. ASSUME NEW v \in V, NEW r \in Nat
      PROVE  v \in Lo(r) .. Lo(r + 1) - 1
               <=> r * N < Size * v + Size /\ Size * v + Size <= (r + 1) * N
  <2>1. v \in Nat
    BY <1>0
  <2>2. r + 1 \in Nat
    OBVIOUS
  <2>3. Lo(r) <= v <=> r * N < Size * v + Size
    BY <1>9, <1>1, <2>1, QuotientBelow DEF Lo
  <2>4. Lo(r + 1) <= v <=> (r + 1) * N < Size * v + Size
    BY <1>9, <1>1, <2>1, <2>2, QuotientBelow DEF Lo
  <2>5. Size * v + Size \in Nat /\ (r + 1) * N \in Nat
    BY <1>9, <1>1, <2>1, <2>2, SMT
  <2>6. ~((r + 1) * N < Size * v + Size) <=> Size * v + Size <= (r + 1) * N
    BY <2>5
  <2>7. Lo(r) \in Nat /\ Lo(r + 1) \in Nat
    BY <1>2, <2>2
  <2>8. v \in Lo(r) .. Lo(r + 1) - 1 <=> Lo(r) <= v /\ ~(Lo(r + 1) <= v)
    BY <2>1, <2>7
  <2> QED
    BY <2>3, <2>4, <2>6, <2>8
<1>4. ASSUME NEW v \in V
      PROVE  \E r \in Ranks : v \in Lo(r) .. Lo(r + 1) - 1
  <2> DEFINE x == (Size * v + Size) - 1
             r == x \div N
  <2>1. v \in Nat /\ v + 1 \in Nat /\ v + 1 <= N /\ N \in Nat
    BY <1>0
  <2>2. (v + 1) * Size <= N * Size /\ (v + 1) * Size \in Nat /\ N * Size \in Nat
    BY <1>9, <2>1, Monotone
  <2>3. (v + 1) * Size = Size * v + Size
    BY <1>9, <2>1, SMT
  <2>4. x \in Nat /\ x < N * Size
    BY <1>9, <2>1, <2>2, <2>3, SMT
  <2>5. r \in Nat /\ N * r <= x /\ x < N * r + N
    BY <1>0, <2>4, Division
  <2> HIDE DEF r
  <2>6. r * N = N * r /\ (r + 1) * N = N * r + N
    BY <1>0, <2>5, SMT
  <2>7. r < Size
    <3>1. SUFFICES ASSUME Size <= r PROVE FALSE
      BY <1>9, <2>5
    <3>2. Size * N <= r * N /\ Size * N = N * Size
      BY <3>1, <1>9, <1>0, <2>5, Monotone, SMT
    <3> QED
      BY <3>2, <2>2, <2>4, <2>5, <2>6, <1>1, SMT
  <2>8. r \in Ranks
    BY <1>9, <2>5, <2>7, SMT
  <2>9. r * N < Size * v + Size /\ Size * v + Size <= (r + 1) * N
    <3> DEFINE w == Size * v + Size
               y == N * r
    <3>1. w \in Nat /\ y \in Nat
      BY <2>2, <2>3, <2>5, <1>0, SMT
    <3>2. y <= w - 1 /\ w - 1 < y + N
      BY <2>5
    <3> HIDE DEF w, y
    <3>3. y < w /\ w <= y + N
      BY <3>1, <3>2, <2>1, SMT
    <3> QED
      BY <3>3, <2>6 DEF w, y
  <2> QED
    BY <2>5, <2>8, <2>9, <1>3
<1>5. ASSUME NEW v \in V, NEW r \in Ranks, NEW s \in Ranks, r < s,
             v \in Lo(r) .. Lo(r + 1) - 1
      PROVE  v \notin Lo(s) .. Lo(s + 1) - 1
  <2>1. r \in Nat /\ s \in Nat /\ r + 1 \in Nat /\ r + 1 <= s
    BY <1>9, <1>5
  <2>2. (r + 1) * N <= s * N /\ (r + 1) * N \in Nat /\ s * N \in Nat
    BY <1>0, <2>1, Monotone
  <2>3. Size * v + Size <= (r + 1) * N
    BY <1>5, <1>3, <2>1
  <2>4. Size * v + Size \in Nat
    BY <1>9, <1>0, SMT
  <2>5. ~ (s * N < Size * v + Size)
    BY <2>2, <2>3, <2>4, SMT
  <2> QED
    BY <2>5, <2>1, <1>3
<1>6. ASSUME NEW v \in V
      PROVE  \E r \in Ranks :
               /\ v \in Lo(r) .. Lo(r + 1) - 1
               /\ \A s \in Ranks \ {r} : v \notin Lo(s) .. Lo(s + 1) - 1
  <2>1. PICK r \in Ranks : v \in Lo(r) .. Lo(r + 1) - 1
    BY <1>4
  <2>2. ASSUME NEW s \in Ranks \ {r}
        PROVE  v \notin Lo(s) .. Lo(s + 1) - 1
    <3>1. s \in Ranks /\ (r < s \/ s < r)
      BY <1>9
    <3> QED
      BY <3>1, <2>1, <1>5
  <2> QED
    BY <2>1, <2>2
<1> QED
  BY <1>6 DEF ChunksDivide

(* The chunks of map_tasks divide the vertices of every graph among every     *)
(* number of processes.                                                       *)
THEOREM ChunksDivideHolds == Spec => []ChunksDivide
BY NumVertices, ChunksOfVertices, GraphInvariant, PTL

--------------------------------------------------------------------------------
(* What the operators of the model return. *)

LEMMA LoBounds ==
  ASSUME N \in Nat \ {0}, NEW r \in Ranks
  PROVE  /\ Lo(r) \in Nat /\ Lo(r + 1) \in Nat
         /\ Lo(r) <= Lo(r + 1) /\ Lo(r + 1) <= N
<1>1. Size \in Nat \ {0} /\ r \in Nat /\ r + 1 \in Nat /\ r + 1 <= Size /\ N \in Nat
  BY SizeAssumption DEF Ranks
<1>2. r * N \in Nat /\ (r + 1) * N \in Nat /\ r * N <= (r + 1) * N
  BY <1>1, Monotone
<1>3. (r + 1) * N <= Size * N /\ Size * N \in Nat
  BY <1>1, Monotone
<1> DEFINE a == r * N
           b == (r + 1) * N
           c == Size * N
<1>4. Lo(r) = a \div Size /\ Lo(r + 1) = b \div Size
  BY DEF Lo
<1> HIDE DEF a, b
<1>5. a \in Nat /\ b \in Nat /\ a <= b
  BY <1>2 DEF a, b
<1>6. /\ Lo(r) \in Nat /\ Lo(r + 1) \in Nat
      /\ b < Size * Lo(r + 1) + Size
  BY <1>1, <1>4, <1>5, Division
<1>7. Lo(r) <= Lo(r + 1)
  <2>1. Size * Lo(r + 1) \in Nat
    BY <1>1, <1>6, Monotone
  <2>2. a < Size * Lo(r + 1) + Size
    BY <1>1, <1>5, <1>6, <2>1
  <2> QED
    BY <1>1, <1>4, <1>5, <1>6, <2>2, QuotientBelow
<1>8. Lo(r + 1) <= N
  <2>1. b <= c /\ c \in Nat
    BY <1>3 DEF b
  <2> HIDE DEF c
  <2>2. b < c + Size
    BY <1>1, <1>5, <2>1
  <2>3. b < Size * N + Size
    BY <2>2 DEF c
  <2> QED
    BY <1>1, <1>4, <1>5, <2>3, QuotientBelow
<1> QED
  BY <1>6, <1>7, <1>8

LEMMA ChunkLists ==
  ASSUME N \in Nat \ {0}, V = 0 .. N - 1, NEW r \in Ranks
  PROVE  Chunk(r) \in Seq(V) /\ Elements(Chunk(r)) = Lo(r) .. Lo(r + 1) - 1
<1> DEFINE lo == Lo(r)
           hi == Lo(r + 1)
           n == hi - lo
<1>1. lo \in Nat /\ hi \in Nat /\ lo <= hi /\ hi <= N
  BY LoBounds
<1>2. Chunk(r) = [i \in 1 .. n |-> lo + i - 1]
  BY DEF Chunk
<1> HIDE DEF lo, hi
<1>3. n \in Nat /\ \A i \in 1 .. n : lo + i - 1 \in lo .. hi - 1 /\ lo + i - 1 \in V
  BY <1>1
<1>4. \A x \in lo .. hi - 1 : (x - lo) + 1 \in 1 .. n /\ lo + ((x - lo) + 1) - 1 = x
  BY <1>1
<1>5. Chunk(r) \in Seq(V) /\ DOMAIN Chunk(r) = 1 .. n
  <2>1. Chunk(r) \in [1 .. n -> V]
    BY <1>2, <1>3
  <2> HIDE DEF n
  <2> QED
    BY <1>3, <2>1
<1>6. Elements(Chunk(r)) = {lo + i - 1 : i \in 1 .. n}
  <2> HIDE DEF n
  <2> QED
    BY <1>2 DEF Elements
<1>7. {lo + i - 1 : i \in 1 .. n} = lo .. hi - 1
  <2>1. {lo + i - 1 : i \in 1 .. n} \subseteq lo .. hi - 1
    <3> HIDE DEF n
    <3> QED
      BY <1>3
  <2>2. ASSUME NEW x \in lo .. hi - 1 PROVE x \in {lo + i - 1 : i \in 1 .. n}
    <3>1. (x - lo) + 1 \in 1 .. n /\ x = lo + ((x - lo) + 1) - 1
      BY <1>1
    <3> HIDE DEF n
    <3> QED
      BY <3>1
  <2> QED
    BY <2>1, <2>2
<1> QED
  BY <1>5, <1>6, <1>7 DEF lo, hi

(* doubles stay doubles *)
LEMMA DoubleOps ==
  /\ \A x, y \in Double : Add(x, y) \in Double /\ Distance(x, y) \in Double
  /\ \A a \in Value, x \in Double : Scaled(a, x) \in Double
  /\ Zero \in Double /\ ALPHA \in Value /\ BETA \in Value /\ GAMMA \in Value
  /\ \A n \in Nat \ {0} : <<1, n>> \in Value
<1>1. Fraction \subseteq Value
  BY FractionIsValue
<1>2. \A x, y \in Value : plus(x, y) \in Value /\ absDiff(x, y) \in Value /\ times(x, y) \in Value
  BY <1>1, PlusReduces, AbsDiffFraction, TimesReduces
<1>3. Zero \in Value /\ ALPHA \in Value /\ BETA \in Value /\ GAMMA \in Value
  BY <1>1, UnitFractions, Constants
<1>4. \A n \in Nat \ {0} : <<1, n>> \in Value
  BY DEF Value
<1>5. \A x \in Double : x = NaN \/ x \in Value
  BY DEF Double
<1>6. \A x, y \in Double : Add(x, y) \in Double /\ Distance(x, y) \in Double
  BY <1>2, <1>5 DEF Add, Distance, Double
<1>7. \A a \in Value, x \in Double : Scaled(a, x) \in Double
  BY <1>2, <1>5 DEF Scaled, Double
<1> QED
  BY <1>3, <1>4, <1>6, <1>7 DEF Double

LEMMA SumDouble ==
  ASSUME NEW values \in Seq(Double)
  PROVE  Sum(values) \in Double
<1>1. CASE \E i \in DOMAIN values : values[i] = NaN
  BY <1>1 DEF Sum, Double
<1>2. CASE ~ \E i \in DOMAIN values : values[i] = NaN
  <2>1. Len(values) \in Nat /\ DOMAIN values = 1 .. Len(values) /\ values \in [1 .. Len(values) -> Double]
    OBVIOUS
  <2>2. values \in [1 .. Len(values) -> Value]
    BY <1>2, <2>1 DEF Double
  <2>3. IsFiniteSet(1 .. Len(values))
    BY <2>1, FS_Interval
  <2>4. Accumulate(values) \in Fraction
    BY <2>2, <2>3, AccumulateFraction
  <2> QED
    BY <1>2, <2>4, FractionIsValue DEF Sum, Double
<1> QED
  BY <1>1, <1>2

LEMMA ReducedDouble ==
  ASSUME NEW values \in Seq(Double)
  PROVE  ReducedFactor(values) \in Double /\ ReducedPageRank(values) \in Double
<1> DEFINE seen == Seen(values)
<1>1. seen \in Seq(Double)
  BY DEF Seen
<1> HIDE DEF seen
<1>2. Sum(seen) \in Double
  BY <1>1, SumDouble
<1>3. Average(seen) \in Double
  <2>1. CASE seen = <<>>
    BY <2>1 DEF Average, Double
  <2>2. CASE seen # <<>>
    <3>1. Len(seen) \in Nat \ {0}
      BY <1>1, <2>2
    <3>2. <<1, Len(seen)>> \in Value
      BY <3>1, DoubleOps
    <3> QED
      BY <1>2, <2>2, <3>2, DoubleOps DEF Average
  <2> QED
    BY <2>1, <2>2
<1> QED
  BY <1>2, <1>3, DoubleOps DEF ReducedFactor, ReducedPageRank, seen

PairType == [key : V, value : Double]
CalcType == [norm : Double, pageRanks : [V -> Double]]

(* the fold of GatherPageRank over the first positions *)
Gathering(calc, pairs) ==
  CHOOSE iter : iter = [s \in SUBSET DOMAIN pairs |->
    IF s = {} THEN calc ELSE GatherPageRank(iter[s \ {Max(s)}], pairs[Max(s)])]

LEMMA GatheredIsFold == \A calc, pairs : Gathered(calc, pairs) = Gathering(calc, pairs)[DOMAIN pairs]
BY Zenon DEF Gathered, Gathering, FoldLeft, MapThenFoldSet

LEMMA GatherType ==
  ASSUME NEW calc \in CalcType, NEW pair \in PairType
  PROVE  GatherPageRank(calc, pair) \in CalcType
<1>1. pair.key \in V /\ pair.value \in Double
  BY DEF PairType
<1>2. calc.norm \in Double /\ calc.pageRanks \in [V -> Double]
  BY DEF CalcType
<1>3. calc.pageRanks[pair.key] \in Double
  BY <1>1, <1>2
<1>4. Add(calc.norm, Distance(calc.pageRanks[pair.key], pair.value)) \in Double
  BY <1>1, <1>2, <1>3, DoubleOps
<1>5. [calc.pageRanks EXCEPT ![pair.key] = pair.value] \in [V -> Double]
  BY <1>1, <1>2
<1> QED
  BY <1>4, <1>5 DEF GatherPageRank, CalcType

LEMMA GatheringUnfold ==
  ASSUME NEW calc \in CalcType, NEW pairs \in Seq(PairType)
  PROVE  \A s \in SUBSET DOMAIN pairs :
           /\ Gathering(calc, pairs)[s] \in CalcType
           /\ s = {} => Gathering(calc, pairs)[s] = calc
           /\ s # {} => Gathering(calc, pairs)[s] =
                          GatherPageRank(Gathering(calc, pairs)[s \ {Max(s)}], pairs[Max(s)])
<1> DEFINE n == Len(pairs)
           S == DOMAIN pairs
           Body(W) == [s \in SUBSET S |->
                         IF s = {} THEN calc ELSE GatherPageRank(W[s \ {Max(s)}], pairs[Max(s)])]
           op == [p \in PairType \X CalcType |-> GatherPageRank(p[2], p[1])]
           pick == [s \in SUBSET S |-> Max(s)]
<1>1. n \in Nat /\ S = 1 .. n /\ pairs \in [S -> PairType] /\ IsFiniteSet(S)
  <2>1. n \in Nat /\ S = 1 .. n /\ pairs \in [S -> PairType]
    OBVIOUS
  <2> HIDE DEF n, S
  <2>2. IsFiniteSet(S)
    BY <2>1, FS_Interval
  <2> QED
    BY <2>1, <2>2
<1> HIDE DEF n, S
<1>2. \A s \in SUBSET S : s # {} => Max(s) \in s
  <2> SUFFICES ASSUME NEW s \in SUBSET S, s # {} PROVE Max(s) \in s
    OBVIOUS
  <2>1. Largest(s) \in s
    BY <1>1, LargestIsIn
  <2> QED
    BY <2>1, Zenon DEF Max, Largest
<1>3. \A s \in SUBSET S : s # {} => pick[s] \in s
  BY <1>2
<1>4. op \in [PairType \X CalcType -> CalcType]
      /\ \A pair \in PairType, c \in CalcType : op[<<pair, c>>] = GatherPageRank(c, pair)
  BY GatherType
<1>5. \A s \in SUBSET S : pick[s] = Max(s)
  OBVIOUS
<1> HIDE DEF op, pick
<1>6. PICK W : IsFoldWith(W, S, CalcType, calc, op, pairs, pick)
  BY <1>1, <1>3, <1>4, FoldWithExists
<1>7. \A s \in SUBSET S :
        W[s] = IF s = {} THEN calc ELSE GatherPageRank(W[s \ {Max(s)}], pairs[Max(s)])
  <2> SUFFICES ASSUME NEW s \in SUBSET S, s # {}
               PROVE  W[s] = GatherPageRank(W[s \ {Max(s)}], pairs[Max(s)])
    BY <1>6 DEF IsFoldWith
  <2>1. Max(s) \in S /\ pairs[Max(s)] \in PairType
    BY <1>1, <1>2
  <2>2. W[s \ {Max(s)}] \in CalcType
    BY <1>6 DEF IsFoldWith
  <2>3. W[s] = op[<<pairs[Max(s)], W[s \ {Max(s)}]>>]
    BY <1>5, <1>6 DEF IsFoldWith
  <2> QED
    BY <1>4, <2>1, <2>2, <2>3
<1>8. W = Body(W)
  <2>1. W = [s \in SUBSET S |-> W[s]]
    BY <1>6 DEF IsFoldWith
  <2> QED
    BY <1>7, <2>1, Zenon
<1> DEFINE G == Gathering(calc, pairs)
<1>9. G = CHOOSE U : U = Body(U)
  BY Zenon DEF Gathering, S
<1>10. G = Body(G)
  <2> HIDE DEF Body, G
  <2> QED
    BY <1>8, <1>9
<1> HIDE DEF G
<1>11. \A s \in SUBSET S : G[s] \in CalcType
  <2> DEFINE Bad == {s \in SUBSET S : G[s] \notin CalcType}
  <2>1. SUFFICES ASSUME Bad # {} PROVE FALSE
    OBVIOUS
  <2>2. PICK s \in Bad : \A t \in Bad : t \subseteq s => t = s
    <3>1. Bad \subseteq SUBSET S
      OBVIOUS
    <3>2. IsFiniteSet(S)
      BY <1>1
    <3> HIDE DEF Bad
    <3> QED
      BY <2>1, <3>1, <3>2, MinimalSet
  <2>3. s \in SUBSET S
    OBVIOUS
  <2>4. s # {}
    <3>1. {} \in SUBSET S /\ G[{}] = calc
      BY <1>10
    <3> QED
      BY <3>1
  <2>5. Max(s) \in s /\ pairs[Max(s)] \in PairType
    BY <1>1, <1>2, <2>3, <2>4
  <2>6. G[s \ {Max(s)}] \in CalcType
    BY <2>2, <2>3, <2>5
  <2>7. G[s] = GatherPageRank(G[s \ {Max(s)}], pairs[Max(s)])
    BY <1>10, <2>3, <2>4
  <2>8. G[s] \in CalcType
    BY <2>5, <2>6, <2>7, GatherType
  <2> QED
    BY <2>8
<1>12. \A s \in SUBSET S :
         /\ s = {} => G[s] = calc
         /\ s # {} => G[s] = GatherPageRank(G[s \ {Max(s)}], pairs[Max(s)])
  BY <1>10
<1> QED
  BY <1>11, <1>12 DEF G, S

LEMMA GatheredType ==
  ASSUME NEW calc \in CalcType, NEW pairs \in Seq(PairType)
  PROVE  Gathered(calc, pairs) \in CalcType
<1>1. DOMAIN pairs \in SUBSET DOMAIN pairs
  OBVIOUS
<1> QED
  BY <1>1, GatheringUnfold, GatheredIsFold

(* pair after pair *)
LEMMA GatheredSteps ==
  ASSUME NEW calc \in CalcType, NEW pairs \in Seq(PairType)
  PROVE  \E P \in [0 .. Len(pairs) -> CalcType] :
           /\ P[0] = calc
           /\ \A i \in 1 .. Len(pairs) : P[i] = GatherPageRank(P[i - 1], pairs[i])
           /\ Gathered(calc, pairs) = P[Len(pairs)]
<1> DEFINE n == Len(pairs)
           G == Gathering(calc, pairs)
           P == [k \in 0 .. n |-> G[1 .. k]]
<1>1. n \in Nat /\ DOMAIN pairs = 1 .. n
  OBVIOUS
<1>2. \A s \in SUBSET (1 .. n) :
        /\ G[s] \in CalcType
        /\ s = {} => G[s] = calc
        /\ s # {} => G[s] = GatherPageRank(G[s \ {Max(s)}], pairs[Max(s)])
  BY <1>1, GatheringUnfold
<1>3. Gathered(calc, pairs) = G[1 .. n]
  BY <1>1, GatheredIsFold
<1> HIDE DEF n, G
<1>4. \A k \in 0 .. n : 1 .. k \in SUBSET (1 .. n) /\ P[k] = G[1 .. k]
  BY <1>1
<1>5. P \in [0 .. n -> CalcType]
  BY <1>2, <1>4
<1>6. P[0] = calc
  <2>1. 1 .. 0 = {} /\ 0 \in 0 .. n
    BY <1>1
  <2> QED
    BY <1>2, <1>4, <2>1
<1>7. ASSUME NEW i \in 1 .. n PROVE P[i] = GatherPageRank(P[i - 1], pairs[i])
  <2>1. /\ 1 .. i # {} /\ i \in 0 .. n /\ i - 1 \in 0 .. n
        /\ (1 .. i) \ {i} = 1 .. i - 1
    <3>1. i \in Nat \ {0}
      BY <1>1
    <3>2. 1 .. i # {} /\ (1 .. i) \ {i} = 1 .. i - 1
      <4>1. i \in 1 .. i
        BY <3>1
      <4>2. \A j : j \in (1 .. i) \ {i} <=> j \in 1 .. i - 1
        BY <3>1
      <4> QED
        BY <4>1, <4>2
    <3>3. i \in 0 .. n /\ i - 1 \in 0 .. n
      BY <1>1
    <3> QED
      BY <3>2, <3>3
  <2>2. Max(1 .. i) = i
    <3>1. i \in 1 .. i /\ \A y \in 1 .. i : i >= y
      BY <1>1
    <3>2. \A x \in 1 .. i : (\A y \in 1 .. i : x >= y) => x = i
      BY <1>1
    <3> QED
      BY <3>1, <3>2 DEF Max
  <2>3. G[1 .. i] = GatherPageRank(G[(1 .. i) \ {Max(1 .. i)}], pairs[Max(1 .. i)])
    BY <1>2, <1>4, <2>1
  <2> QED
    BY <1>4, <2>1, <2>2, <2>3
<1>8. Gathered(calc, pairs) = P[n]
  BY <1>1, <1>3, <1>4
<1> QED
  BY <1>5, <1>6, <1>7, <1>8 DEF n

LEMMA GroupedLists ==
  ASSUME NEW K, NEW X, NEW pairs \in Seq([key : K, value : X])
  PROVE  /\ DOMAIN Grouped(pairs) = KeysIn(pairs) /\ KeysIn(pairs) \subseteq K
         /\ \A key \in KeysIn(pairs) : Grouped(pairs)[key] \in Seq(X)
<1>1. KeysIn(pairs) \subseteq K
  <2>1. \A i \in DOMAIN pairs : pairs[i] \in [key : K, value : X]
    <3>1. DOMAIN pairs = 1 .. Len(pairs)
      OBVIOUS
    <3> QED
      BY <3>1, ElementOfSeq
  <2> QED
    BY <2>1 DEF KeysIn
<1>2. ASSUME NEW key \in KeysIn(pairs) PROVE Grouped(pairs)[key] \in Seq(X)
  <2> DEFINE own == At(pairs, {i \in DOMAIN pairs : pairs[i].key = key})
  <2>1. Grouped(pairs)[key] = [i \in DOMAIN own |-> own[i].value]
    BY DEF Grouped
  <2>2. own \in Seq([key : K, value : X])
    BY AtLists
  <2> HIDE DEF own
  <2>3. Len(own) \in Nat /\ DOMAIN own = 1 .. Len(own)
    BY <2>2
  <2>4. \A i \in DOMAIN own : own[i].value \in X
    <3>1. \A i \in DOMAIN own : own[i] \in [key : K, value : X]
      BY <2>2, <2>3, ElementOfSeq
    <3> QED
      BY <3>1
  <2>5. Grouped(pairs)[key] \in [1 .. Len(own) -> X]
    BY <2>1, <2>3, <2>4
  <2> QED
    BY <2>3, <2>5
<1>3. DOMAIN Grouped(pairs) = KeysIn(pairs)
  BY DEF Grouped
<1> QED
  BY <1>1, <1>2, <1>3

(* The input: a graph on the vertices below N, each owned by a process. *)
InputInv ==
  /\ GraphInv /\ IsGraphOn(graph, V) /\ V \subseteq DOMAIN Owner
  /\ hyperlink = calculateHyperLinkColumn(graph.toList)

LEMMA InputFacts ==
  ASSUME InputInv
  PROVE  /\ N \in Nat \ {0} /\ V = 0 .. N - 1 /\ V \subseteq Nat /\ IsFiniteSet(V)
         /\ hyperlink \in [V -> Value]
         /\ \A u, v \in V : graph.toList[u][v] \in Nat
         /\ \A v \in V : Owner[v] \in Ranks
         /\ COMMON \in V
<1>1. N \in Nat \ {0} /\ V = 0 .. N - 1
  BY NumVertices DEF InputInv
<1>2. IsFiniteSet(V)
  BY <1>1, FS_Interval
<1>3. graph.toList \in [V -> [V -> Nat]]
  BY DEF InputInv, IsGraphOn
<1>4. hyperlink \in [V -> Value]
  <2>1. calculateHyperLinkColumn(graph.toList) \in [V -> Fraction]
    BY <1>2, <1>3, HyperLinks
  <2> QED
    BY <2>1, FractionIsValue DEF InputInv
<1>5. \A v \in V : Owner[v] \in Ranks
  BY OwnerAssumption DEF InputInv
<1> QED
  BY <1>1, <1>2, <1>3, <1>4, <1>5 DEF COMMON

LEMMA PairTyped ==
  ASSUME NEW v \in V, NEW x \in Double
  PROVE  Pair(v, x) \in PairType /\ Pair(v, x).key = v
BY DEF Pair, PairType

LEMMA FactorPairsType ==
  ASSUME InputInv, NEW r \in Ranks, NEW key \in V, pageRanks \in [Ranks -> [V -> Double]]
  PROVE  FactorPairs(r, key) \in Seq(PairType)
<1> DEFINE rank == pageRanks[r][key]
           x == IF rank = NaN THEN NaN ELSE FactorValue(hyperlink[key], rank)
<1>1. rank \in Double
  OBVIOUS
<1> HIDE DEF rank
<1>2. x \in Double
  <2>1. ASSUME rank \in Value PROVE FactorValue(hyperlink[key], rank) \in Value
    BY <2>1, DoubleOps, TimesReduces DEF FactorValue
  <2> QED
    BY <1>1, <2>1 DEF Double
<1>3. FactorPairs(r, key) = <<Pair(COMMON, x)>>
  BY DEF FactorPairs, rank
<1> HIDE DEF x
<1>4. Pair(COMMON, x) \in PairType
  BY <1>2, InputFacts, PairTyped
<1> QED
  BY <1>3, <1>4

LEMMA PageRankPairsType ==
  ASSUME InputInv, NEW r \in Ranks, NEW key \in V,
         pageRanks \in [Ranks -> [V -> Double]], factor \in [Ranks -> Double]
  PROVE  PageRankPairs(r, key) \in Seq(PairType) /\ key \in KeysIn(PageRankPairs(r, key))
<1> DEFINE x == Scaled(hyperlink[key], pageRanks[r][key])
           share(i) == [copy \in 1 .. graph.toList[key][i - 1] |-> Pair(i - 1, x)]
           shares == [i \in 1 .. N |-> share(i)]
           first == <<Pair(key, factor[r])>>
<1>1. N \in Nat /\ \A i \in 1 .. N : i - 1 \in V /\ graph.toList[key][i - 1] \in Nat
  <2>1. N \in Nat \ {0} /\ V = 0 .. N - 1
    BY InputFacts
  <2>2. \A i \in 1 .. N : i - 1 \in V
    BY <2>1
  <2> QED
    BY <2>1, <2>2, InputFacts
<1>2. x \in Double
  <2>1. hyperlink[key] \in Value /\ pageRanks[r][key] \in Double
    BY InputFacts
  <2> QED
    BY <2>1, DoubleOps
<1> HIDE DEF x
<1>3. ASSUME NEW i \in 1 .. N PROVE share(i) \in Seq(PairType)
  <2> DEFINE n == graph.toList[key][i - 1]
  <2>1. Pair(i - 1, x) \in PairType /\ n \in Nat
    BY <1>1, <1>2, PairTyped
  <2>2. share(i) \in [1 .. n -> PairType]
    BY <2>1
  <2> HIDE DEF n, share
  <2> QED
    BY <2>1, <2>2
<1> HIDE DEF share
<1>4. shares \in Seq(Seq(PairType))
  <2>1. shares \in [1 .. N -> Seq(PairType)]
    BY <1>3
  <2> HIDE DEF shares
  <2> QED
    BY <1>1, <2>1
<1>5. FlattenSeq(shares) \in Seq(PairType)
  <2> HIDE DEF shares
  <2> QED
    BY <1>4, FlattenLists
<1>6. PageRankPairs(r, key) = first \o FlattenSeq(shares)
  BY Zenon DEF PageRankPairs, share, x
<1>7. Pair(key, factor[r]) \in PairType /\ Pair(key, factor[r]).key = key
  BY PairTyped
<1>8. first \in Seq(PairType) /\ key \in KeysIn(first)
  BY <1>7 DEF KeysIn
<1> HIDE DEF first, shares
<1>9. /\ first \o FlattenSeq(shares) \in Seq(PairType)
      /\ Elements(first \o FlattenSeq(shares)) = Elements(first) \cup Elements(FlattenSeq(shares))
  BY <1>5, <1>8, ConcatLists
<1>10. key \in KeysIn(first \o FlattenSeq(shares))
  BY <1>8, <1>9, KeysOfElements
<1> QED
  BY <1>6, <1>9, <1>10

LEMMA MappedLists ==
  ASSUME InputInv, NEW r \in Ranks,
         pageRanks \in [Ranks -> [V -> Double]], factor \in [Ranks -> Double]
  PROVE  /\ Mapped(r) \in Seq(PairType)
         /\ job = "page" => Lo(r) .. Lo(r + 1) - 1 \subseteq KeysIn(Mapped(r))
         /\ job = "factor" /\ Lo(r) .. Lo(r + 1) - 1 # {} => COMMON \in KeysIn(Mapped(r))
<1> DEFINE c == Chunk(r)
           piece(i) == IF job = "factor" THEN FactorPairs(r, c[i]) ELSE PageRankPairs(r, c[i])
           pieces == [i \in DOMAIN c |-> piece(i)]
<1>1. c \in Seq(V) /\ Elements(c) = Lo(r) .. Lo(r + 1) - 1
  BY InputFacts, ChunkLists
<1>2. Mapped(r) = FlattenSeq(pieces)
  BY Zenon DEF Mapped
<1> HIDE DEF c
<1>3. Len(c) \in Nat /\ DOMAIN c = 1 .. Len(c) /\ \A i \in DOMAIN c : c[i] \in V
  <2>1. Len(c) \in Nat /\ DOMAIN c = 1 .. Len(c)
    BY <1>1
  <2> QED
    BY <1>1, <2>1, ElementOfSeq
<1>4. \A i \in DOMAIN c :
        /\ piece(i) \in Seq(PairType)
        /\ job = "page" => c[i] \in KeysIn(piece(i))
        /\ job = "factor" => COMMON \in KeysIn(piece(i))
  <2> SUFFICES ASSUME NEW i \in DOMAIN c
               PROVE  /\ piece(i) \in Seq(PairType)
                      /\ job = "page" => c[i] \in KeysIn(piece(i))
                      /\ job = "factor" => COMMON \in KeysIn(piece(i))
    OBVIOUS
  <2>1. c[i] \in V
    BY <1>3
  <2> DEFINE key == c[i]
  <2> HIDE DEF key
  <2>2. key \in V
    BY <2>1 DEF key
  <2>3. FactorPairs(r, key) \in Seq(PairType)
    BY <2>2, FactorPairsType
  <2>4. PageRankPairs(r, key) \in Seq(PairType) /\ key \in KeysIn(PageRankPairs(r, key))
    BY <2>2, PageRankPairsType
  <2>5. piece(i) = IF job = "factor" THEN FactorPairs(r, key) ELSE PageRankPairs(r, key)
    BY DEF key
  <2> HIDE DEF piece
  <2>6. c[i] = key
    BY DEF key
  <2>7. COMMON \in KeysIn(FactorPairs(r, key))
    BY DEF KeysIn, FactorPairs, Pair
  <2> QED
    BY <2>3, <2>4, <2>5, <2>6, <2>7
<1> HIDE DEF piece
<1>5. pieces \in Seq(Seq(PairType)) /\ DOMAIN pieces = DOMAIN c
      /\ \A i \in DOMAIN c : pieces[i] = piece(i)
  <2>1. pieces \in [1 .. Len(c) -> Seq(PairType)]
    BY <1>3, <1>4
  <2>2. DOMAIN pieces = DOMAIN c /\ \A i \in DOMAIN c : pieces[i] = piece(i)
    OBVIOUS
  <2> HIDE DEF pieces
  <2> QED
    BY <1>3, <2>1, <2>2
<1> HIDE DEF pieces
<1>6. FlattenSeq(pieces) \in Seq(PairType)
      /\ Elements(FlattenSeq(pieces)) = UNION {Elements(pieces[i]) : i \in DOMAIN pieces}
  BY <1>5, FlattenLists
<1>7. ASSUME job = "page", NEW key \in Lo(r) .. Lo(r + 1) - 1
      PROVE  key \in KeysIn(FlattenSeq(pieces))
  <2>1. PICK i \in DOMAIN c : c[i] = key
    BY <1>1 DEF Elements
  <2>2. key \in KeysIn(pieces[i])
    BY <1>4, <1>5, <1>7, <2>1
  <2>3. PICK pair \in Elements(pieces[i]) : key = pair.key
    BY <2>2, KeysOfElements
  <2>4. pair \in Elements(FlattenSeq(pieces))
    BY <1>5, <1>6, <2>3
  <2> QED
    BY <2>3, <2>4, KeysOfElements
<1>8. ASSUME job = "factor", Lo(r) .. Lo(r + 1) - 1 # {}
      PROVE  COMMON \in KeysIn(FlattenSeq(pieces))
  <2>1. PICK i \in DOMAIN c : TRUE
    BY <1>1, <1>8 DEF Elements
  <2>2. COMMON \in KeysIn(pieces[i])
    BY <1>4, <1>5, <1>8, <2>1
  <2>3. PICK pair \in Elements(pieces[i]) : COMMON = pair.key
    BY <2>2, KeysOfElements
  <2>4. pair \in Elements(FlattenSeq(pieces))
    BY <1>5, <1>6, <2>3
  <2> QED
    BY <2>3, <2>4, KeysOfElements
<1> QED
  BY <1>2, <1>6, <1>7, <1>8

LEMMA ReceivedLists ==
  ASSUME InputInv, NEW r \in Ranks, kv \in [Ranks -> Seq(PairType)]
  PROVE  /\ Received(r) \in Seq(PairType)
         /\ KeysIn(Received(r)) = {k \in UNION {KeysIn(kv[s]) : s \in Ranks} : Owner[k] = r}
<1> DEFINE mine(s) == {i \in DOMAIN kv[s - 1] : Owner[kv[s - 1][i].key] = r}
           part(s) == At(kv[s - 1], mine(s))
           parts == [s \in 1 .. Size |-> part(s)]
<1>1. Size \in Nat /\ \A s \in 1 .. Size : s - 1 \in Ranks
  BY SizeAssumption DEF Ranks
<1>2. \A s \in Ranks : s + 1 \in 1 .. Size /\ (s + 1) - 1 = s
  BY SizeAssumption DEF Ranks
<1>3. Received(r) = FlattenSeq(parts)
  BY Zenon DEF Received
<1>4. ASSUME NEW s \in 1 .. Size
      PROVE  /\ part(s) \in Seq(PairType)
             /\ Elements(part(s)) = {kv[s - 1][i] : i \in mine(s)}
  <2>1. kv[s - 1] \in Seq(PairType)
    BY <1>1
  <2>2. mine(s) \subseteq DOMAIN kv[s - 1]
    OBVIOUS
  <2> DEFINE q == kv[s - 1]
             m == mine(s)
  <2> HIDE DEF q, m
  <2>3. At(q, m) \in Seq(PairType) /\ Elements(At(q, m)) = {q[i] : i \in m}
    BY <2>1, <2>2, AtLists DEF q, m
  <2> QED
    BY <2>3 DEF q, m
<1> HIDE DEF part
<1>5. parts \in Seq(Seq(PairType)) /\ DOMAIN parts = 1 .. Size
      /\ \A s \in 1 .. Size : parts[s] = part(s)
  <2>1. parts \in [1 .. Size -> Seq(PairType)]
    BY <1>4
  <2>2. DOMAIN parts = 1 .. Size /\ \A s \in 1 .. Size : parts[s] = part(s)
    OBVIOUS
  <2> HIDE DEF parts
  <2> QED
    BY <1>1, <2>1, <2>2
<1> HIDE DEF parts
<1>6. FlattenSeq(parts) \in Seq(PairType)
      /\ Elements(FlattenSeq(parts)) = UNION {Elements(parts[s]) : s \in DOMAIN parts}
  BY <1>5, FlattenLists
<1>7. ASSUME NEW k \in KeysIn(FlattenSeq(parts))
      PROVE  k \in UNION {KeysIn(kv[s]) : s \in Ranks} /\ Owner[k] = r
  <2>1. PICK pair \in Elements(FlattenSeq(parts)) : k = pair.key
    BY KeysOfElements
  <2>2. PICK s \in 1 .. Size : pair \in Elements(part(s))
    BY <1>5, <1>6, <2>1
  <2>3. PICK i \in mine(s) : pair = kv[s - 1][i]
    BY <1>4, <2>2
  <2>4. s - 1 \in Ranks /\ k \in KeysIn(kv[s - 1])
    BY <1>1, <2>1, <2>3 DEF KeysIn
  <2> QED
    BY <2>1, <2>3, <2>4
<1>8. ASSUME NEW s \in Ranks, NEW k \in KeysIn(kv[s]), Owner[k] = r
      PROVE  k \in KeysIn(FlattenSeq(parts))
  <2>1. PICK i \in DOMAIN kv[s] : k = kv[s][i].key
    BY DEF KeysIn
  <2> DEFINE t == s + 1
  <2>2. t \in 1 .. Size /\ t - 1 = s
    BY <1>2
  <2> HIDE DEF t
  <2>3. i \in mine(t)
    BY <1>8, <2>1, <2>2
  <2>4. kv[s][i] \in Elements(part(t))
    BY <1>4, <2>2, <2>3
  <2>5. kv[s][i] \in Elements(FlattenSeq(parts))
    BY <1>5, <1>6, <2>2, <2>4
  <2> QED
    BY <2>1, <2>5, KeysOfElements
<1> HIDE DEF mine
<1> QED
  BY <1>3, <1>6, <1>7, <1>8

(* gather: the pairs of all processes, one process after the other *)
Assembled == FlattenSeq([s \in 1 .. Size |-> kv[s - 1]])

LEMMA AssembledLists ==
  ASSUME InputInv, kv \in [Ranks -> Seq(PairType)]
  PROVE  /\ Assembled \in Seq(PairType)
         /\ (\A r \in Ranks : Distinct(kv[r]) /\ KeysIn(kv[r]) = Own(r)) =>
              Distinct(Assembled) /\ KeysIn(Assembled) = V
<1> DEFINE parts == [s \in 1 .. Size |-> kv[s - 1]]
<1>1. Size \in Nat /\ \A s \in 1 .. Size : s - 1 \in Ranks
  BY SizeAssumption DEF Ranks
<1>2. \A s \in Ranks : s + 1 \in 1 .. Size /\ (s + 1) - 1 = s
  BY SizeAssumption DEF Ranks
<1>3. parts \in Seq(Seq(PairType)) /\ DOMAIN parts = 1 .. Size
      /\ \A s \in 1 .. Size : parts[s] = kv[s - 1]
  <2>1. parts \in [1 .. Size -> Seq(PairType)]
    BY <1>1
  <2>2. DOMAIN parts = 1 .. Size /\ \A s \in 1 .. Size : parts[s] = kv[s - 1]
    OBVIOUS
  <2> HIDE DEF parts
  <2> QED
    BY <1>1, <2>1, <2>2
<1>4. Assembled = FlattenSeq(parts)
  BY DEF Assembled
<1> HIDE DEF parts
<1>5. FlattenSeq(parts) \in Seq(PairType)
      /\ Elements(FlattenSeq(parts)) = UNION {Elements(parts[s]) : s \in DOMAIN parts}
  BY <1>3, FlattenLists
<1>6. ASSUME \A r \in Ranks : Distinct(kv[r]) /\ KeysIn(kv[r]) = Own(r)
      PROVE  Distinct(FlattenSeq(parts)) /\ KeysIn(FlattenSeq(parts)) = V
  <2>1. \A s \in DOMAIN parts : Distinct(parts[s]) /\ KeysIn(parts[s]) = Own(s - 1)
    BY <1>1, <1>3, <1>6
  <2>2. \A s, t \in DOMAIN parts : s # t => KeysIn(parts[s]) \cap KeysIn(parts[t]) = {}
    <3> SUFFICES ASSUME NEW s \in DOMAIN parts, NEW t \in DOMAIN parts, s # t
                 PROVE  KeysIn(parts[s]) \cap KeysIn(parts[t]) = {}
      OBVIOUS
    <3>1. s - 1 # t - 1
      BY <1>3
    <3>2. Own(s - 1) \cap Own(t - 1) = {}
      BY <3>1 DEF Own
    <3> QED
      BY <2>1, <3>2
  <2>3. Distinct(FlattenSeq(parts))
    BY <1>3, <2>1, <2>2, FlattenDistinct
  <2>4. ASSUME NEW k \in KeysIn(FlattenSeq(parts)) PROVE k \in V
    <3>1. PICK pair \in Elements(FlattenSeq(parts)) : k = pair.key
      BY KeysOfElements
    <3>2. PICK s \in DOMAIN parts : pair \in Elements(parts[s])
      BY <1>5, <3>1
    <3>3. k \in KeysIn(parts[s])
      BY <3>1, <3>2, KeysOfElements
    <3> QED
      BY <2>1, <3>3 DEF Own
  <2>5. ASSUME NEW k \in V PROVE k \in KeysIn(FlattenSeq(parts))
    <3> DEFINE r == Owner[k]
               s == r + 1
    <3>1. r \in Ranks /\ k \in Own(r)
      BY InputFacts DEF Own
    <3> HIDE DEF r
    <3>2. s \in 1 .. Size /\ s - 1 = r
      BY <1>2, <3>1
    <3> HIDE DEF s
    <3>3. k \in KeysIn(parts[s])
      BY <1>3, <2>1, <3>1, <3>2
    <3>4. PICK pair \in Elements(parts[s]) : k = pair.key
      BY <3>3, KeysOfElements
    <3>5. pair \in Elements(FlattenSeq(parts))
      BY <1>3, <1>5, <3>2, <3>4
    <3> QED
      BY <3>4, <3>5, KeysOfElements
  <2> QED
    BY <2>3, <2>4, <2>5
<1> QED
  BY <1>4, <1>5, <1>6

LEMMA ReducedLists ==
  ASSUME InputInv, NEW map, DOMAIN map \subseteq V, \A key \in DOMAIN map : map[key] \in Seq(Double)
  PROVE  /\ Reduced(map) \in Seq(PairType)
         /\ Distinct(Reduced(map)) /\ KeysIn(Reduced(map)) = DOMAIN map
<1> DEFINE D == DOMAIN map
           keys == Keys(map)
           n == Cardinality(D)
           x(i) == IF job = "factor" THEN ReducedFactor(map[keys[i]])
                   ELSE ReducedPageRank(map[keys[i]])
<1>1. D \subseteq Nat /\ IsFiniteSet(D)
  <2>1. V \subseteq Nat /\ IsFiniteSet(V)
    BY InputFacts
  <2> QED
    BY <2>1, FS_Subset
<1>2. keys = Ascending(D)
  BY DEF Keys
<1> HIDE DEF D, keys, n
<1>3. /\ n \in Nat /\ keys \in [1 .. n -> D]
      /\ \A k \in D : \E i \in 1 .. n : keys[i] = k
      /\ \A i, j \in 1 .. n : keys[i] = keys[j] => i = j
  BY <1>1, <1>2, AscendingLists DEF n
<1>4. Reduced(map) = [i \in 1 .. n |-> Pair(keys[i], x(i))]
  <2>1. Reduced(map) = [i \in DOMAIN keys |-> Pair(keys[i], x(i))]
    BY Zenon DEF Reduced, keys
  <2> HIDE DEF x
  <2> QED
    BY <1>3, <2>1
<1>5. ASSUME NEW i \in 1 .. n
      PROVE  /\ Pair(keys[i], x(i)) \in PairType /\ Pair(keys[i], x(i)).key = keys[i]
             /\ keys[i] \in D
  <2>1. keys[i] \in D /\ keys[i] \in V
    BY <1>3 DEF D
  <2> DEFINE values == map[keys[i]]
  <2>2. values \in Seq(Double)
    BY <2>1 DEF D
  <2> HIDE DEF values
  <2>3. ReducedFactor(values) \in Double /\ ReducedPageRank(values) \in Double
    BY <2>2, ReducedDouble
  <2>4. x(i) \in Double
    BY <2>3 DEF values
  <2> HIDE DEF x
  <2> QED
    BY <2>1, <2>4, PairTyped
<1> HIDE DEF x
<1>6. Reduced(map) \in Seq(PairType)
  <2>1. Reduced(map) \in [1 .. n -> PairType]
    BY <1>4, <1>5
  <2> QED
    BY <1>3, <2>1
<1>7. DOMAIN Reduced(map) = 1 .. n /\ \A i \in 1 .. n : Reduced(map)[i].key = keys[i]
  BY <1>4, <1>5
<1>8. Distinct(Reduced(map))
  BY <1>3, <1>7 DEF Distinct
<1>9. KeysIn(Reduced(map)) = D
  BY <1>3, <1>5, <1>7 DEF KeysIn
<1> QED
  BY <1>6, <1>8, <1>9 DEF D

--------------------------------------------------------------------------------
(* Type correctness *)

CtrlType  == pc \in [Ranks -> Labels] /\ job \in {"factor", "page"}
RankType  == pageRanks \in [Ranks -> [V -> Double]] /\ factor \in [Ranks -> Double]
             /\ norm \in [Ranks -> Double]
KvType    == kv \in [Ranks -> Seq(PairType)]
GroupType(map) == DOMAIN map \subseteq V /\ \A key \in DOMAIN map : map[key] \in Seq(Double)
KmvType   == DOMAIN kmv = Ranks /\ \A r \in Ranks : GroupType(kmv[r])
FileType  == line \in [Ranks -> 0 .. N] /\ output \in [V -> Double \cup {Hole}]

LEMMA TypeParts == TypeOK <=> CtrlType /\ RankType /\ KvType /\ KmvType /\ FileType
BY DEF TypeOK, CtrlType, RankType, KvType, KmvType, FileType, GroupType, PairType

TypeInv == InputInv /\ TypeOK

LEMMA InputInit == Init => InputInv
<1> SUFFICES ASSUME Init PROVE InputInv
  OBVIOUS
<1>1. PICK file \in Files : graph = Graph(file)
  BY DEF Init
<1>2. IsFile(file) /\ Vertices(file) \subseteq DOMAIN Owner
  BY FilesAssumption, OwnerAssumption
<1>3. V = Vertices(file)
  BY <1>1 DEF Init, Graph, V, calculateHyperLinkColumn
<1>4. IsGraphOn(graph, V)
  BY <1>1, <1>2, <1>3, GraphOfFile
<1>5. GraphInv
  BY <1>2, <1>3, VerticesOfFile DEF GraphInv
<1> QED
  BY <1>2, <1>3, <1>4, <1>5 DEF InputInv, Init

LEMMA InputNext ==
  ASSUME InputInv, [Next]_vars
  PROVE  InputInv' /\ V' = V /\ N' = N
<1>1. graph' = graph /\ hyperlink' = hyperlink
  BY DEF Next, vars, input, Local, Collective, Map, Reduce, SortKeys, TakeFactor, TakePageRanks,
         Test, OpenFile, PrintLine, CloseFile, Barrier, Collate, Gather, Broadcast, EndTake,
         Terminated
<1>2. V' = V /\ N' = N
  BY <1>1 DEF V, N
<1>3. GraphInv' /\ IsGraphOn(graph, V)'
  BY <1>1, <1>2 DEF InputInv, GraphInv, IsGraphOn
<1> QED
  BY <1>1, <1>2, <1>3 DEF InputInv

LEMMA EmptyPairs ==
  <<>> \in Seq(PairType) /\ Seq(PairType) # {} /\ GroupType(<<>>)
<1>1. <<>> \in Seq(PairType)
  OBVIOUS
<1>2. GroupType(<<>>)
  BY DEF GroupType
<1> QED
  BY <1>1, <1>2

LEMMA TypeInit == Init => TypeInv
<1> SUFFICES ASSUME Init PROVE TypeInv
  OBVIOUS
<1>1. InputInv
  BY InputInit
<1>2. N \in Nat \ {0} /\ V = 0 .. N - 1
  BY <1>1, InputFacts
<1>3. CtrlType
  BY DEF Init, CtrlType, Labels
<1>4. RankType
  <2>1. \A v \in V : <<1, N>> \in Double
    BY <1>2, DoubleOps DEF Double
  <2>2. getInitPageRank(N) \in [V -> Double]
    BY <1>2, <2>1 DEF getInitPageRank
  <2>3. Zero \in Double
    BY DoubleOps
  <2> QED
    BY <2>2, <2>3 DEF Init, RankType
<1>5. KvType /\ KmvType
  BY EmptyPairs DEF Init, KvType, KmvType
<1>6. FileType
  BY <1>2 DEF Init, FileType, OutFile!EmptyFile
<1> QED
  BY <1>1, <1>3, <1>4, <1>5, <1>6, TypeParts DEF TypeInv

LEMMA CtrlNext ==
  ASSUME CtrlType, [Next]_vars
  PROVE  CtrlType'
<1>1. CASE UNCHANGED vars
  BY <1>1 DEF CtrlType, vars
<1>2. ASSUME NEW r \in Ranks, Local(r) PROVE CtrlType'
  <2>1. job' = job
    BY <1>2 DEF Local, Map, Reduce, SortKeys, TakeFactor, TakePageRanks, Test, OpenFile, PrintLine,
                CloseFile
  <2>2. pc' = pc \/ \E label \in Labels : Goto(r, label)
    BY <1>2 DEF Labels, Local, Map, Reduce, SortKeys, TakeFactor, TakePageRanks, Test, OpenFile,
                PrintLine, CloseFile
  <2>3. pc' \in [Ranks -> Labels]
    BY <2>2 DEF CtrlType, Goto
  <2> QED
    BY <2>1, <2>3 DEF CtrlType
<1>3. CASE Collective
  <2>1. job' \in {"factor", "page"}
    BY <1>3 DEF CtrlType, Collective, Barrier, Collate, Gather, Broadcast, EndTake
  <2>2. \E from, to \in Labels : Together(from, to)
    BY <1>3 DEF Labels, Collective, Barrier, Collate, Gather, Broadcast, EndTake
  <2>3. pc' \in [Ranks -> Labels]
    BY <2>2 DEF Together
  <2> QED
    BY <2>1, <2>3 DEF CtrlType
<1>4. CASE Terminated
  BY <1>4 DEF CtrlType, vars, Terminated
<1> QED
  BY <1>1, <1>2, <1>3, <1>4 DEF Next

LEMMA RankNext ==
  ASSUME InputInv, RankType, KvType, [Next]_vars
  PROVE  RankType'
<1>1. V' = V
  BY InputNext
<1>2. ASSUME UNCHANGED <<pageRanks, factor, norm>> PROVE RankType'
  BY <1>1, <1>2 DEF RankType
<1>3. CASE UNCHANGED vars
  BY <1>2, <1>3 DEF vars
<1>4. ASSUME NEW r \in Ranks, Local(r) PROVE RankType'
  <2>1. CASE TakeFactor(r)
    <3>1. ASSUME kv[r] # <<>> PROVE Last(kv[r]).value \in Double
      <4> DEFINE pairs == kv[r]
      <4>1. pairs \in Seq(PairType) /\ pairs # <<>>
        BY <3>1 DEF KvType
      <4> HIDE DEF pairs
      <4>2. Len(pairs) \in 1 .. Len(pairs)
        BY <4>1
      <4>3. Last(pairs) \in PairType
        BY <4>1, <4>2, ElementOfSeq DEF Last
      <4> QED
        BY <4>3 DEF pairs, PairType
    <3>2. factor' \in [Ranks -> Double]
      BY <2>1, <3>1 DEF TakeFactor, RankType
    <3> QED
      BY <1>1, <2>1, <3>2 DEF RankType, TakeFactor
  <2>2. CASE TakePageRanks(r)
    <3> DEFINE calc == Gathered([norm |-> norm[r], pageRanks |-> pageRanks[r]], kv[r])
    <3>1. calc \in CalcType
      <4>1. [norm |-> norm[r], pageRanks |-> pageRanks[r]] \in CalcType
        BY DEF RankType, CalcType
      <4>2. kv[r] \in Seq(PairType)
        BY DEF KvType
      <4> QED
        BY <4>1, <4>2, GatheredType
    <3>2. /\ norm' = [norm EXCEPT ![r] = calc.norm]
          /\ pageRanks' = [pageRanks EXCEPT ![r] = calc.pageRanks]
          /\ factor' = factor
      BY <2>2 DEF TakePageRanks
    <3> HIDE DEF calc
    <3>3. calc.norm \in Double /\ calc.pageRanks \in [V -> Double]
      BY <3>1 DEF CalcType
    <3> QED
      BY <1>1, <3>2, <3>3 DEF RankType
  <2>3. CASE Test(r)
    <3>1. norm' = norm \/ norm' = [norm EXCEPT ![r] = Zero]
      BY <2>3 DEF Test
    <3> QED
      BY <1>1, <2>3, <3>1, DoubleOps DEF RankType, Test
  <2> QED
    BY <1>2, <1>4, <2>1, <2>2, <2>3
       DEF Local, Map, Reduce, SortKeys, OpenFile, PrintLine, CloseFile
<1>5. CASE Collective
  BY <1>2, <1>5 DEF Collective, Barrier, Collate, Gather, Broadcast, EndTake
<1>6. CASE Terminated
  BY <1>2, <1>6 DEF vars, Terminated
<1> QED
  BY <1>3, <1>4, <1>5, <1>6 DEF Next

LEMMA PairsNext ==
  ASSUME InputInv, RankType, KvType, KmvType, [Next]_vars
  PROVE  KvType' /\ KmvType'
<1>1. V' = V /\ PairType' = PairType
  BY InputNext DEF PairType
<1>2. ASSUME kv' = kv PROVE KvType'
  BY <1>1, <1>2 DEF KvType
<1>3. ASSUME kmv' = kmv PROVE KmvType'
  BY <1>1, <1>3 DEF KmvType, GroupType
<1>4. ASSUME NEW r \in Ranks, NEW pairs \in Seq(PairType), kv' = [kv EXCEPT ![r] = pairs]
      PROVE  KvType'
  BY <1>1, <1>4 DEF KvType
<1>5. CASE UNCHANGED vars
  BY <1>2, <1>3, <1>5 DEF vars
<1>6. ASSUME NEW r \in Ranks, Local(r) PROVE KvType' /\ KmvType'
  <2>1. CASE Map(r)
    <3>1. Mapped(r) \in Seq(PairType)
      BY MappedLists DEF RankType
    <3> QED
      BY <1>3, <1>4, <2>1, <3>1 DEF Map
  <2>2. CASE Reduce(r)
    <3>1. Reduced(kmv[r]) \in Seq(PairType)
      <4> DEFINE map == kmv[r]
      <4>1. GroupType(map)
        BY DEF KmvType
      <4> HIDE DEF map
      <4> QED
        BY <4>1, ReducedLists DEF GroupType, map
    <3>2. KmvType'
      <4>1. kmv' = [kmv EXCEPT ![r] = <<>>]
        BY <2>2 DEF Reduce
      <4>2. \A s \in Ranks : GroupType(kmv'[s])
        BY <4>1, EmptyPairs DEF KmvType
      <4> QED
        BY <1>1, <4>1, <4>2 DEF KmvType, GroupType
    <3> QED
      BY <1>4, <2>2, <3>1, <3>2 DEF Reduce
  <2>3. CASE SortKeys(r)
    <3> DEFINE pairs == kv[r]
    <3>1. pairs \in Seq(PairType) /\ V \subseteq Nat
      BY InputFacts DEF KvType
    <3>2. kv' = [kv EXCEPT ![r] = Sorted(pairs)] /\ kmv' = kmv
      BY <2>3 DEF SortKeys
    <3> HIDE DEF pairs
    <3>3. Sorted(pairs) \in Seq(PairType)
      BY <3>1, SortedLists DEF PairType
    <3> QED
      BY <1>3, <1>4, <3>2, <3>3
  <2>4. CASE TakeFactor(r) \/ TakePageRanks(r)
    <3>1. kv' = [kv EXCEPT ![r] = <<>>] /\ kmv' = kmv
      BY <2>4 DEF TakeFactor, TakePageRanks
    <3> QED
      BY <1>3, <1>4, <3>1, EmptyPairs
  <2> QED
    BY <1>2, <1>3, <1>6, <2>1, <2>2, <2>3, <2>4
       DEF Local, Test, OpenFile, PrintLine, CloseFile
<1>7. CASE Collate
  <2>1. \A r \in Ranks : GroupType(Grouped(Received(r)))
    <3> SUFFICES ASSUME NEW r \in Ranks PROVE GroupType(Grouped(Received(r)))
      OBVIOUS
    <3> DEFINE pairs == Received(r)
    <3>1. pairs \in Seq(PairType)
      BY ReceivedLists DEF KvType
    <3> HIDE DEF pairs
    <3>2. /\ DOMAIN Grouped(pairs) = KeysIn(pairs) /\ KeysIn(pairs) \subseteq V
          /\ \A key \in KeysIn(pairs) : Grouped(pairs)[key] \in Seq(Double)
      BY <3>1, GroupedLists DEF PairType
    <3> QED
      BY <3>2 DEF GroupType, pairs
  <2>2. kmv' = [r \in Ranks |-> Grouped(Received(r))] /\ kv' = [r \in Ranks |-> <<>>]
    BY <1>7 DEF Collate
  <2>3. KvType'
    BY <1>1, <2>2, EmptyPairs DEF KvType
  <2>4. DOMAIN kmv' = Ranks /\ \A r \in Ranks : GroupType(kmv'[r])
    BY <2>1, <2>2
  <2> QED
    BY <1>1, <2>3, <2>4 DEF KmvType, GroupType
<1>8. CASE Gather
  <2>1. Assembled \in Seq(PairType)
    BY AssembledLists DEF KvType
  <2>2. kv' = [r \in Ranks |-> IF r = 0 THEN Assembled ELSE <<>>] /\ kmv' = kmv
    BY <1>8 DEF Gather, Assembled
  <2> QED
    BY <1>1, <1>3, <2>1, <2>2, EmptyPairs DEF KvType
<1>9. CASE Broadcast
  <2>1. 0 \in Ranks
    BY SizeAssumption DEF Ranks
  <2> QED
    BY <1>1, <1>3, <1>9, <2>1 DEF Broadcast, KvType
<1>10. CASE Barrier \/ EndTake
  BY <1>2, <1>3, <1>10 DEF Barrier, EndTake
<1>11. CASE Terminated
  BY <1>2, <1>3, <1>11 DEF vars, Terminated
<1> QED
  BY <1>5, <1>6, <1>7, <1>8, <1>9, <1>10, <1>11 DEF Next, Collective

LEMMA FileNext ==
  ASSUME InputInv, RankType, FileType, [Next]_vars
  PROVE  FileType'
<1>1. V' = V /\ N' = N /\ N \in Nat \ {0} /\ V = 0 .. N - 1
  BY InputNext, InputFacts
<1>2. ASSUME UNCHANGED outFile PROVE FileType'
  BY <1>1, <1>2 DEF FileType, outFile
<1>3. CASE UNCHANGED vars
  BY <1>2, <1>3 DEF vars
<1>4. ASSUME NEW r \in Ranks, Local(r) PROVE FileType'
  <2>1. CASE OpenFile(r)
    <3>1. output' = [v \in V |-> Hole] /\ line' = line
      BY <2>1 DEF OpenFile, OutFile!Open, OutFile!EmptyFile
    <3> QED
      BY <1>1, <3>1 DEF FileType
  <2>2. CASE PrintLine(r)
    <3>1. /\ line[r] \in DOMAIN pageRanks[r]
          /\ output' = [output EXCEPT ![line[r]] = pageRanks[r][line[r]]]
          /\ line' = [line EXCEPT ![r] = line[r] + 1]
      BY <2>2 DEF PrintLine, OutFile!WriteLine, FileType
    <3>2. line[r] \in V /\ pageRanks[r][line[r]] \in Double
      BY <3>1 DEF RankType
    <3>3. line[r] + 1 \in 0 .. N
      BY <1>1, <3>2
    <3>4. output' \in [V -> Double \cup {Hole}]
      BY <3>1, <3>2 DEF FileType
    <3>5. line' \in [Ranks -> 0 .. N]
      BY <3>1, <3>3 DEF FileType
    <3> QED
      BY <1>1, <3>4, <3>5 DEF FileType
  <2> QED
    BY <1>2, <1>4, <2>1, <2>2
       DEF Local, Map, Reduce, SortKeys, TakeFactor, TakePageRanks, Test, CloseFile
<1>5. CASE Collective
  BY <1>2, <1>5 DEF Collective, Barrier, Collate, Gather, Broadcast, EndTake
<1>6. CASE Terminated
  BY <1>2, <1>6 DEF vars, Terminated
<1> QED
  BY <1>3, <1>4, <1>5, <1>6 DEF Next

LEMMA TypeNext == TypeInv /\ [Next]_vars => TypeInv'
<1> SUFFICES ASSUME TypeInv, [Next]_vars PROVE TypeInv'
  OBVIOUS
<1>1. InputInv /\ CtrlType /\ RankType /\ KvType /\ KmvType /\ FileType
  BY TypeParts DEF TypeInv
<1>2. InputInv' /\ CtrlType' /\ RankType' /\ KvType' /\ KmvType' /\ FileType'
  BY <1>1, InputNext, CtrlNext, RankNext, PairsNext, FileNext
<1>3. TypeOK'
  <2>1. TypeOK' <=> CtrlType' /\ RankType' /\ KvType' /\ KmvType' /\ FileType'
    BY DEF TypeOK, CtrlType, RankType, KvType, KmvType, FileType, GroupType, PairType
  <2> QED
    BY <1>2, <2>1
<1> QED
  BY <1>2, <1>3 DEF TypeInv

LEMMA TypeAlways == Spec => []TypeInv
BY TypeInit, TypeNext, PTL DEF Spec

(* Every process always holds one double, which may be NaN, for each vertex;  *)
(* the pairs in the library name vertices only, and no process writes behind  *)
(* the last line of the file.                                                 *)
THEOREM TypeCorrect == Spec => []TypeOK
<1>1. TypeInv => TypeOK
  BY DEF TypeInv
<1> QED
  BY <1>1, TypeAlways, PTL

--------------------------------------------------------------------------------
(* Each vertex is reduced and taken once. *)

(* what OnceInv says of one process *)
Once(r) ==
  /\ pc[r] = "collate" => Lo(r) .. Lo(r + 1) - 1 \subseteq KeysIn(kv[r])
  /\ pc[r] = "reduce" => DOMAIN kmv[r] = Own(r)
  /\ pc[r] = "gather" => Distinct(kv[r]) /\ KeysIn(kv[r]) = Own(r)
  /\ pc[r] = "sort" /\ r = 0 => Distinct(kv[r]) /\ KeysIn(kv[r]) = V
  /\ pc[r] = "broadcast" /\ r = 0 => InOrder(kv[r])
  /\ pc[r] = "take" => InOrder(kv[r])

LEMMA OnceSame ==
  ASSUME NEW r \in Ranks, InputInv, [Next]_vars, Once(r),
         pc'[r] = pc[r], kv'[r] = kv[r], kmv'[r] = kmv[r]
  PROVE  Once(r)'
<1>1. V' = V /\ N' = N
  BY InputNext
<1> QED
  BY <1>1 DEF Once, Lo, Own, InOrder

LEMMA OnceFree ==
  ASSUME NEW r \in Ranks, pc'[r] \in Labels \ {"collate", "reduce", "gather", "sort", "broadcast", "take"}
  PROVE  Once(r)'
BY DEF Once, Labels

(* a step of one process: the others keep what they have *)
LEMMA OnceLocal ==
  ASSUME TypeInv, job = "page", \A s \in Ranks : Once(s), NEW r \in Ranks, Local(r)
  PROVE  \A s \in Ranks : Once(s)'
<1>1. InputInv /\ CtrlType /\ RankType /\ KvType /\ KmvType /\ [Next]_vars
  BY TypeParts DEF TypeInv, Next
<1>2. V' = V /\ N' = N /\ V \subseteq Nat /\ N \in Nat \ {0} /\ V = 0 .. N - 1
  BY <1>1, InputNext, InputFacts
<1>3. ASSUME NEW s \in Ranks, s # r PROVE Once(s)'
  <2>1. pc'[s] = pc[s] /\ kv'[s] = kv[s] /\ kmv'[s] = kmv[s]
    BY <1>1, <1>3
       DEF CtrlType, KvType, KmvType, Local, Map, Reduce, SortKeys, TakeFactor, TakePageRanks, Test,
           OpenFile, PrintLine, CloseFile, Goto
  <2> QED
    BY <1>1, <2>1, OnceSame
<1>4. Once(r)'
  <2>1. CASE Map(r)
    <3>1. kv'[r] = Mapped(r) /\ pc'[r] = "collate"
      BY <1>1, <2>1 DEF Map, Goto, CtrlType, KvType
    <3>2. Lo(r) .. Lo(r + 1) - 1 \subseteq KeysIn(Mapped(r))
      BY <1>1, MappedLists DEF RankType
    <3> QED
      BY <1>2, <3>1, <3>2 DEF Once, Lo
  <2>2. CASE Reduce(r)
    <3> DEFINE map == kmv[r]
    <3>1. kv'[r] = Reduced(map) /\ pc'[r] = "gather" /\ pc[r] = "reduce"
      BY <1>1, <2>2 DEF Reduce, Goto, CtrlType, KvType
    <3>2. GroupType(map) /\ DOMAIN map = Own(r)
      BY <1>1, <3>1 DEF KmvType, Once
    <3> HIDE DEF map
    <3>3. Distinct(Reduced(map)) /\ KeysIn(Reduced(map)) = Own(r)
      BY <1>1, <3>2, ReducedLists DEF GroupType
    <3> QED
      BY <1>2, <3>1, <3>3 DEF Once, Own
  <2>3. CASE SortKeys(r)
    <3> DEFINE pairs == kv[r]
    <3>1. kv'[r] = Sorted(pairs) /\ pc'[r] = "broadcast" /\ pc[r] = "sort"
      BY <1>1, <2>3 DEF SortKeys, Goto, CtrlType, KvType
    <3>2. pairs \in Seq(PairType) /\ (r = 0 => Distinct(pairs) /\ KeysIn(pairs) = V)
      BY <1>1, <3>1 DEF KvType, Once
    <3> HIDE DEF pairs
    <3>3. r = 0 => InOrder(Sorted(pairs))
      <4>1. \A n \in Nat : Distinct(pairs) /\ KeysIn(pairs) = 0 .. n - 1 =>
              Len(Sorted(pairs)) = n /\ \A v \in 0 .. n - 1 : Sorted(pairs)[v + 1].key = v
        BY <1>2, <3>2, SortedLists DEF PairType
      <4>2. N \in Nat /\ V = 0 .. N - 1
        BY <1>2
      <4> QED
        BY <3>2, <4>1, <4>2 DEF InOrder
    <3> QED
      BY <1>2, <3>1, <3>3 DEF Once, InOrder
  <2>4. CASE TakeFactor(r) \/ TakePageRanks(r) \/ Test(r) \/ OpenFile(r) \/ CloseFile(r)
    <3>1. pc'[r] \in {"taken", "barrier", "open", "print", "done"}
      BY <1>1, <2>4 DEF CtrlType, TakeFactor, TakePageRanks, Test, OpenFile, CloseFile, Goto
    <3> QED
      BY <3>1, OnceFree DEF Labels
  <2>5. CASE PrintLine(r)
    <3>1. pc' = pc /\ kv' = kv /\ kmv' = kmv
      BY <2>5 DEF PrintLine
    <3> QED
      BY <1>1, <3>1, OnceSame
  <2> QED
    BY <2>1, <2>2, <2>3, <2>4, <2>5 DEF Local
<1> QED
  BY <1>3, <1>4

(* collate: the chunks cover the vertices, and the hash gives each to one     *)
(* process                                                                    *)
LEMMA OnceCollate ==
  ASSUME TypeInv, job = "page", \A s \in Ranks : Once(s), Collate
  PROVE  \A s \in Ranks : Once(s)'
<1>1. InputInv /\ KvType /\ [Next]_vars
  BY TypeParts DEF TypeInv, Next, Collective
<1>2. V' = V /\ N' = N /\ N \in Nat \ {0} /\ V = 0 .. N - 1
  BY <1>1, InputNext, InputFacts
<1>3. \A r \in Ranks : pc[r] = "collate" /\ pc'[r] = "reduce" /\ kmv'[r] = Grouped(Received(r))
  BY DEF Collate, Together
<1>4. UNION {KeysIn(kv[s]) : s \in Ranks} = V
  <2>1. \A s \in Ranks : KeysIn(kv[s]) \subseteq V
    <3> SUFFICES ASSUME NEW s \in Ranks PROVE KeysIn(kv[s]) \subseteq V
      OBVIOUS
    <3> DEFINE pairs == kv[s]
    <3>1. pairs \in Seq(PairType)
      BY <1>1 DEF KvType
    <3> HIDE DEF pairs
    <3>2. KeysIn(pairs) \subseteq V
      BY <3>1, GroupedLists DEF PairType
    <3> QED
      BY <3>2 DEF pairs
  <2>2. ASSUME NEW v \in V PROVE \E s \in Ranks : v \in KeysIn(kv[s])
    <3>1. ChunksDivide
      BY <1>2, ChunksOfVertices
    <3>2. PICK s \in Ranks : v \in Lo(s) .. Lo(s + 1) - 1
      BY <3>1 DEF ChunksDivide
    <3>3. Lo(s) .. Lo(s + 1) - 1 \subseteq KeysIn(kv[s])
      BY <1>3 DEF Once
    <3> QED
      BY <3>2, <3>3
  <2> QED
    BY <2>1, <2>2
<1>5. ASSUME NEW r \in Ranks PROVE Once(r)'
  <2> DEFINE pairs == Received(r)
  <2>1. pairs \in Seq(PairType) /\ KeysIn(pairs) = {k \in V : Owner[k] = r}
    BY <1>1, <1>4, ReceivedLists DEF KvType
  <2>2. kmv'[r] = Grouped(pairs) /\ pc'[r] = "reduce"
    BY <1>3
  <2> HIDE DEF pairs
  <2>3. DOMAIN Grouped(pairs) = KeysIn(pairs)
    BY <2>1, GroupedLists DEF PairType
  <2> QED
    BY <1>2, <2>1, <2>2, <2>3 DEF Once, Own
<1> QED
  BY <1>5

LEMMA OnceGather ==
  ASSUME TypeInv, job = "page", \A s \in Ranks : Once(s), Gather
  PROVE  \A s \in Ranks : Once(s)'
<1>1. InputInv /\ KvType /\ [Next]_vars
  BY TypeParts DEF TypeInv, Next, Collective
<1>2. V' = V /\ N' = N
  BY <1>1, InputNext
<1>3. \A r \in Ranks : pc[r] = "gather" /\ pc'[r] = "sort"
  BY DEF Gather, Together
<1>4. 0 \in Ranks /\ kv' = [r \in Ranks |-> IF r = 0 THEN Assembled ELSE <<>>]
  BY SizeAssumption DEF Gather, Assembled, Ranks
<1>5. kv'[0] = Assembled
  BY <1>4
<1>6. \A r \in Ranks : Distinct(kv[r]) /\ KeysIn(kv[r]) = Own(r)
  BY <1>3 DEF Once
<1>7. Distinct(Assembled) /\ KeysIn(Assembled) = V
  BY <1>1, <1>6, AssembledLists DEF KvType
<1>8. ASSUME NEW r \in Ranks PROVE Once(r)'
  BY <1>2, <1>3, <1>5, <1>7 DEF Once
<1> QED
  BY <1>8

LEMMA OnceBroadcast ==
  ASSUME TypeInv, job = "page", \A s \in Ranks : Once(s), Broadcast
  PROVE  \A s \in Ranks : Once(s)'
<1>1. InputInv /\ [Next]_vars
  BY DEF TypeInv, Next, Collective
<1>2. V' = V /\ N' = N
  BY <1>1, InputNext
<1>3. 0 \in Ranks /\ \A r \in Ranks : pc[r] = "broadcast" /\ pc'[r] = "take" /\ kv'[r] = kv[0]
  BY SizeAssumption DEF Broadcast, Together, Ranks
<1>4. InOrder(kv[0])
  BY <1>3 DEF Once
<1>5. ASSUME NEW r \in Ranks PROVE Once(r)'
  BY <1>2, <1>3, <1>4 DEF Once, InOrder
<1> QED
  BY <1>5

LEMMA OnceIs == OnceInv <=> (job = "page" => \A r \in Ranks : Once(r))
BY DEF OnceInv, Once

LEMMA OnceNext == TypeInv /\ OnceInv /\ [Next]_vars => OnceInv'
<1> SUFFICES ASSUME TypeInv, job = "page" => \A s \in Ranks : Once(s), [Next]_vars, job' = "page"
             PROVE  \A s \in Ranks : Once(s)'
  BY OnceIs DEF OnceInv, Once
<1>1. CASE UNCHANGED vars
  <2>1. job' = job /\ pc' = pc /\ kv' = kv /\ kmv' = kmv
    BY <1>1 DEF vars
  <2> QED
    BY <2>1, OnceSame DEF TypeInv
<1>2. ASSUME NEW r \in Ranks, Local(r) PROVE \A s \in Ranks : Once(s)'
  <2>1. job' = job
    BY <1>2 DEF Local, Map, Reduce, SortKeys, TakeFactor, TakePageRanks, Test, OpenFile, PrintLine,
                CloseFile
  <2> QED
    BY <1>2, <2>1, OnceLocal
<1>3. CASE Collate \/ Gather \/ Broadcast
  <2>1. job' = job
    BY <1>3 DEF Collate, Gather, Broadcast
  <2> QED
    BY <1>3, <2>1, OnceCollate, OnceGather, OnceBroadcast
<1>4. CASE Barrier
  BY <1>4 DEF Barrier
<1>5. CASE EndTake
  <2>1. \A s \in Ranks : pc'[s] \in {"map", "test"}
    BY <1>5 DEF EndTake, Together
  <2> QED
    BY <2>1, OnceFree DEF Labels
<1>6. CASE Terminated
  <2>1. job' = job /\ pc' = pc /\ kv' = kv /\ kmv' = kmv
    BY <1>6 DEF vars, Terminated
  <2> QED
    BY <2>1, OnceSame DEF TypeInv
<1> QED
  BY <1>1, <1>2, <1>3, <1>4, <1>5, <1>6 DEF Next, Collective

(* Whatever the hash does and however many processes there are, the pairs     *)
(* that every process is about to take are the new ranks of all vertices,     *)
(* once each and in order: map_tasks gives each vertex to a process,          *)
(* aggregate brings all pairs of a vertex to its owner, gather appends lists  *)
(* that share no key, and sort_keys puts the keys 0 .. N-1 in their places.   *)
THEOREM EachVertexOnceHolds == Spec => []EachVertexOnce
<1>1. Init => OnceInv
  BY DEF Init, OnceInv
<1>2. OnceInv => EachVertexOnce
  BY DEF OnceInv, EachVertexOnce, InOrder
<1> QED
  BY <1>1, <1>2, OnceNext, TypeAlways, PTL DEF Spec

--------------------------------------------------------------------------------
(* The output file *)

(* processes that have returned have the same column *)
LEMMA SameRanks ==
  ASSUME AgreeInv, NEW r \in Ranks, NEW s \in Ranks, Opened(r), Opened(s)
  PROVE  pageRanks[r] = pageRanks[s]
<1>1. Result(r).pageRanks = Result(s).pageRanks
  BY DEF AgreeInv, SameColumn
<1>2. Result(r) = Now(r) /\ Result(s) = Now(s)
  BY ResultNow DEF Opened
<1> QED
  BY <1>1, <1>2 DEF Now

(* the process r has written what is in the file up to its next line *)
Written(r) == Opened(r) /\ \A v \in V : v < line[r] => output[v] = pageRanks[r][v]

(* the lines of the processes: none before it opens the file, all when done *)
LinesInv ==
  \A r \in Ranks : (~Opened(r) => line[r] = 0) /\ (pc[r] = "done" => line[r] = N)

LEMMA FileIs == FileInv <=> LinesInv /\ ((\E r \in Ranks : Opened(r)) => \E r \in Ranks : Written(r))
BY DEF FileInv, LinesInv, Written

LEMMA WrittenSame ==
  ASSUME InputInv, [Next]_vars, NEW r \in Ranks, Written(r), pc'[r] = pc[r],
         pageRanks'[r] = pageRanks[r], line' = line, output' = output
  PROVE  Written(r)'
<1>1. V' = V
  BY InputNext
<1> QED
  BY <1>1 DEF Written, Opened

LEMMA FileQuiet ==
  ASSUME InputInv, FileInv, [Next]_vars, pc' = pc, pageRanks' = pageRanks, UNCHANGED outFile
  PROVE  FileInv'
<1>1. N' = N /\ line' = line /\ output' = output
  BY InputNext DEF outFile
<1>2. LinesInv'
  BY <1>1 DEF FileIs, LinesInv, FileInv, Opened
<1>3. (\E r \in Ranks : Opened(r)') => \E r \in Ranks : Written(r)'
  <2> SUFFICES ASSUME \E r \in Ranks : Opened(r)' PROVE \E r \in Ranks : Written(r)'
    OBVIOUS
  <2>1. \E r \in Ranks : Opened(r)
    BY DEF Opened
  <2>2. PICK r \in Ranks : Written(r)
    BY <2>1, FileIs
  <2> QED
    BY <1>1, <2>2, WrittenSame
<1> QED
  BY <1>2, <1>3 DEF FileInv, LinesInv, Written

LEMMA FileLocal ==
  ASSUME TypeInv, AgreeInv, FileInv, NEW r \in Ranks, Local(r)
  PROVE  FileInv'
<1>1. InputInv /\ CtrlType /\ RankType /\ FileType /\ [Next]_vars
  BY TypeParts DEF TypeInv, Next
<1>2. V' = V /\ N' = N /\ N \in Nat \ {0} /\ V = 0 .. N - 1
  BY <1>1, InputNext, InputFacts
<1>3. LinesInv /\ ((\E s \in Ranks : Opened(s)) => \E s \in Ranks : Written(s))
  BY FileIs
<1>4. FileInv' <=> LinesInv' /\ ((\E s \in Ranks : Opened(s)') => \E s \in Ranks : Written(s)')
  BY DEF FileInv, LinesInv, Written
<1>5. ASSUME NEW s \in Ranks, s # r PROVE pc'[s] = pc[s] /\ pageRanks'[s] = pageRanks[s]
  BY <1>1, <1>5
     DEF CtrlType, RankType, Local, Map, Reduce, SortKeys, TakeFactor, TakePageRanks, Test,
         OpenFile, PrintLine, CloseFile, Goto
<1>6. CASE Map(r) \/ Reduce(r) \/ SortKeys(r) \/ TakeFactor(r) \/ TakePageRanks(r) \/ Test(r)
  <2>1. /\ pc[r] \in {"map", "reduce", "sort", "take", "test"}
        /\ pc'[r] \in {"collate", "gather", "broadcast", "taken", "barrier", "open"}
        /\ UNCHANGED outFile
    BY <1>1, <1>6 DEF CtrlType, Map, Reduce, SortKeys, TakeFactor, TakePageRanks, Test, Goto
  <2>2. line' = line /\ output' = output /\ ~Opened(r) /\ ~Opened(r)'
    BY <2>1 DEF outFile, Opened
  <2>3. LinesInv'
    BY <1>2, <1>3, <1>5, <2>1, <2>2 DEF LinesInv, Opened
  <2>4. ASSUME NEW s \in Ranks, Opened(s)' PROVE \E q \in Ranks : Written(q)'
    <3>1. s # r /\ Opened(s)
      BY <1>5, <2>2, <2>4 DEF Opened
    <3>2. PICK q \in Ranks : Written(q)
      BY <1>3, <3>1
    <3>3. q # r
      BY <2>2, <3>2 DEF Written
    <3> QED
      BY <1>1, <1>5, <2>2, <3>2, <3>3, WrittenSame
  <2> QED
    BY <1>4, <2>3, <2>4
<1>7. CASE OpenFile(r)
  <2>1. pc[r] = "open" /\ pc'[r] = "print" /\ line' = line
    BY <1>1, <1>7 DEF CtrlType, OpenFile, Goto, OutFile!Open
  <2>2. line[r] = 0 /\ Opened(r)'
    BY <1>3, <2>1 DEF LinesInv, Opened
  <2>3. LinesInv'
    BY <1>2, <1>3, <1>5, <2>1 DEF LinesInv, Opened
  <2>4. Written(r)'
    <3>1. \A v \in V : ~(v < line[r])
      BY <1>2, <2>2
    <3> QED
      BY <1>2, <2>1, <2>2, <3>1 DEF Written
  <2> QED
    BY <1>4, <2>3, <2>4
<1>8. CASE PrintLine(r)
  <2> DEFINE l == line[r]
  <2>1. /\ pc[r] = "print" /\ pc' = pc /\ pageRanks' = pageRanks
        /\ l \in DOMAIN pageRanks[r]
        /\ output' = [output EXCEPT ![l] = pageRanks[r][l]]
        /\ line' = [line EXCEPT ![r] = l + 1]
    BY <1>1, <1>8 DEF PrintLine, OutFile!WriteLine, FileType
  <2>2. l \in V /\ Opened(r)
    BY <1>1, <2>1 DEF RankType, Opened
  <2>3. /\ line'[r] = l + 1 /\ \A s \in Ranks : s # r => line'[s] = line[s]
        /\ output'[l] = pageRanks[r][l] /\ \A v \in V : v # l => output'[v] = output[v]
    BY <1>1, <2>1, <2>2 DEF FileType
  <2> HIDE DEF l
  <2>4. LinesInv'
    BY <1>2, <1>3, <2>1, <2>2, <2>3 DEF LinesInv, Opened
  <2>5. PICK q \in Ranks : Written(q)
    BY <1>3, <2>2
  <2>6. pageRanks[q] = pageRanks[r]
    BY <2>2, <2>5, SameRanks DEF Written
  <2>7. ASSUME NEW v \in V, v < line'[q] PROVE output'[v] = pageRanks[q][v]
    <3>1. CASE v = l
      BY <2>3, <2>6, <3>1
    <3>2. CASE v # l
      <4>1. v < line[q]
        <5>1. CASE q = r
          <6>1. v < l + 1 /\ v \in Nat /\ l \in Nat
            BY <1>2, <2>2, <2>3, <2>7, <5>1
          <6>2. v < l
            BY <3>2, <6>1
          <6> QED
            BY <5>1, <6>2 DEF l
        <5>2. CASE q # r
          BY <2>3, <2>7, <5>2
        <5> QED
          BY <5>1, <5>2
      <4> QED
        BY <2>3, <2>5, <3>2, <4>1 DEF Written
    <3> QED
      BY <3>1, <3>2
  <2>8. Written(q)'
    BY <1>2, <2>1, <2>5, <2>7 DEF Written, Opened
  <2> QED
    BY <1>4, <2>4, <2>8
<1>9. CASE CloseFile(r)
  <2>1. /\ pc[r] = "print" /\ pc'[r] = "done" /\ line' = line /\ output' = output
        /\ pageRanks' = pageRanks /\ line[r] \notin DOMAIN pageRanks[r]
    BY <1>1, <1>9 DEF CtrlType, CloseFile, Goto, OutFile!Printed, outFile
  <2>2. line[r] = N
    <3>1. line[r] \in 0 .. N /\ DOMAIN pageRanks[r] = V
      BY <1>1 DEF FileType, RankType
    <3> QED
      BY <1>2, <2>1, <3>1
  <2>3. LinesInv'
    BY <1>2, <1>3, <1>5, <2>1, <2>2 DEF LinesInv, Opened
  <2>4. Opened(r) /\ \A s \in Ranks : Opened(s) => Opened(s)'
    BY <1>5, <2>1 DEF Opened
  <2>5. PICK q \in Ranks : Written(q)
    BY <1>3, <2>4
  <2>6. Written(q)'
    BY <1>2, <2>1, <2>4, <2>5 DEF Written
  <2> QED
    BY <1>4, <2>3, <2>6
<1> QED
  BY <1>6, <1>7, <1>8, <1>9 DEF Local

(* no process has opened the file while another is in a collective *)
LEMMA FileCollective ==
  ASSUME TypeInv, FileInv, Collective
  PROVE  FileInv'
<1>1. InputInv /\ [Next]_vars
  BY DEF TypeInv, Next
<1>2. N' = N /\ line' = line
  BY <1>1, InputNext DEF Collective, Barrier, Collate, Gather, Broadcast, EndTake, outFile
<1>3. \A r \in Ranks : ~Opened(r) /\ ~Opened(r)'
  BY DEF Collective, Barrier, Collate, Gather, Broadcast, EndTake, Together, Opened
<1>4. \A r \in Ranks : line[r] = 0
  BY <1>3, FileIs DEF LinesInv
<1>5. \A r \in Ranks : line'[r] = 0 /\ pc'[r] # "done"
  BY <1>2, <1>3, <1>4 DEF Opened
<1> QED
  BY <1>3, <1>5 DEF FileInv

LEMMA FileInvNext == TypeInv /\ AgreeInv /\ FileInv /\ [Next]_vars => FileInv'
<1> SUFFICES ASSUME TypeInv, AgreeInv, FileInv, [Next]_vars PROVE FileInv'
  OBVIOUS
<1>1. CASE UNCHANGED vars \/ Terminated
  BY <1>1, FileQuiet DEF vars, Terminated, TypeInv
<1>2. ASSUME NEW r \in Ranks, Local(r) PROVE FileInv'
  BY <1>2, FileLocal
<1>3. CASE Collective
  BY <1>3, FileCollective
<1> QED
  BY <1>1, <1>2, <1>3 DEF Next

LEMMA FileInvInit == Init => FileInv
BY DEF Init, FileInv, Opened

LEMMA FileAtEnd == TypeInv /\ AgreeInv /\ FileInv => OutputIsPageRank
<1> SUFFICES ASSUME TypeInv, AgreeInv, FileInv, \A r \in Ranks : pc[r] = "done", NEW r \in Ranks
             PROVE  output = pageRanks[r]
  BY DEF OutputIsPageRank
<1>1. InputInv /\ RankType /\ FileType
  BY TypeParts DEF TypeInv
<1>2. N \in Nat \ {0} /\ V = 0 .. N - 1
  BY <1>1, InputFacts
<1>3. Opened(r)
  BY DEF Opened
<1>4. PICK q \in Ranks : Written(q)
  BY <1>3, FileIs
<1>5. line[q] = N
  BY FileIs DEF LinesInv
<1>6. \A v \in V : output[v] = pageRanks[q][v]
  BY <1>2, <1>4, <1>5 DEF Written
<1>7. output = pageRanks[q]
  <2>1. output = [v \in V |-> output[v]] /\ pageRanks[q] = [v \in V |-> pageRanks[q][v]]
    BY <1>1 DEF FileType, RankType
  <2> QED
    BY <1>6, <2>1, Zenon
<1> QED
  BY <1>3, <1>4, <1>7, SameRanks DEF Written

(* All processes write one file, and each truncates it when it opens it.      *)
(* When all have closed it, the file holds the ranks that every one of them   *)
(* computed: at any time one of the processes that have opened it has written *)
(* everything above its next line, since they write the same column.          *)
THEOREM OutputIsPageRankHolds == Spec => []OutputIsPageRank
BY FileInvInit, FileInvNext, FileAtEnd, TypeAlways, ProcessesAgree, PTL DEF Spec

--------------------------------------------------------------------------------
(* What the pairs of a list say of one key: the sum of its values, or, when   *)
(* counted, their number.  Each call of a map-reduce keeps the sum over all   *)
(* processes.                                                                 *)
Priced(K) == [key : K, value : Fraction]

Worth(pairs, key, counted) ==
  [i \in DOMAIN pairs |->
     IF pairs[i].key = key THEN IF counted THEN One ELSE pairs[i].value ELSE Zero]
Weight(pairs, key, counted) == Accumulate(Worth(pairs, key, counted))

LEMMA WorthType ==
  ASSUME NEW K, NEW pairs \in Seq(Priced(K)), NEW key, NEW counted
  PROVE  /\ Len(pairs) \in Nat /\ DOMAIN pairs = 1 .. Len(pairs)
         /\ \A i \in DOMAIN pairs : pairs[i] \in Priced(K)
         /\ Worth(pairs, key, counted) \in [1 .. Len(pairs) -> Fraction]
         /\ IsFiniteSet(1 .. Len(pairs))
         /\ Weight(pairs, key, counted) \in Fraction
<1>1. Len(pairs) \in Nat /\ DOMAIN pairs = 1 .. Len(pairs)
  OBVIOUS
<1>2. \A i \in DOMAIN pairs : pairs[i] \in Priced(K)
  BY <1>1, ElementOfSeq
<1>3. Worth(pairs, key, counted) \in [1 .. Len(pairs) -> Fraction]
  <2>1. \A i \in DOMAIN pairs : pairs[i].value \in Fraction
    BY <1>2 DEF Priced
  <2>2. One \in Fraction /\ Zero \in Fraction
    BY UnitFractions DEF One
  <2> QED
    BY <1>1, <2>1, <2>2 DEF Worth
<1>4. IsFiniteSet(1 .. Len(pairs))
  BY <1>1, FS_Interval
<1>5. Weight(pairs, key, counted) \in Fraction
  <2> DEFINE S == 1 .. Len(pairs)
             terms == Worth(pairs, key, counted)
  <2>1. IsFiniteSet(S) /\ terms \in [S -> Value]
    BY <1>3, <1>4, FractionIsValue
  <2> HIDE DEF S, terms
  <2>2. Accumulate(terms) \in Fraction
    BY <2>1, AccumulateFraction
  <2> QED
    BY <2>2 DEF Weight, terms
<1> QED
  BY <1>1, <1>2, <1>3, <1>4, <1>5

LEMMA WeightConcat ==
  ASSUME NEW K, NEW p \in Seq(Priced(K)), NEW q \in Seq(Priced(K)), NEW key, NEW counted
  PROVE  Weight(p \o q, key, counted) = plus(Weight(p, key, counted), Weight(q, key, counted))
<1> DEFINE m == Len(p)
           n == Len(q)
           c == p \o q
           wp == Worth(p, key, counted)
           wq == Worth(q, key, counted)
           wc == Worth(c, key, counted)
           M == 1 .. m
           Q == 1 .. n
           S == 1 .. m + n
           left == [i \in S |-> IF i <= m THEN wc[i] ELSE Zero]
           right == [i \in S |-> IF i <= m THEN Zero ELSE wc[i]]
           shift == [i \in Q |-> i + m]
           same == [i \in M |-> i]
<1>1. /\ c \in Seq(Priced(K)) /\ Len(c) = m + n
      /\ \A i \in 1 .. m + n : c[i] = IF i <= m THEN p[i] ELSE q[i - m]
  BY ConcatProperties
<1>2. /\ m \in Nat /\ n \in Nat /\ DOMAIN p = M /\ DOMAIN q = Q /\ DOMAIN c = S
      /\ wp \in [M -> Fraction] /\ wq \in [Q -> Fraction] /\ wc \in [S -> Fraction]
      /\ IsFiniteSet(M) /\ IsFiniteSet(Q) /\ IsFiniteSet(S)
  <2>1. /\ m \in Nat /\ DOMAIN p = M /\ wp \in [M -> Fraction] /\ IsFiniteSet(M)
    BY WorthType
  <2>2. /\ n \in Nat /\ DOMAIN q = Q /\ wq \in [Q -> Fraction] /\ IsFiniteSet(Q)
    BY WorthType
  <2> HIDE DEF c
  <2>3. /\ DOMAIN c = 1 .. Len(c) /\ wc \in [1 .. Len(c) -> Fraction] /\ IsFiniteSet(1 .. Len(c))
    BY <1>1, WorthType
  <2> HIDE DEF wc
  <2> QED
    BY <1>1, <2>1, <2>2, <2>3
<1>3. \A i \in M : wp[i] = wc[i] /\ i \in S
  <2> SUFFICES ASSUME NEW i \in M PROVE wp[i] = wc[i] /\ i \in S
    OBVIOUS
  <2>1. i \in S /\ i <= m
    BY <1>2
  <2>2. c[i] = p[i]
    BY <1>1, <2>1
  <2> HIDE DEF c
  <2> QED
    BY <1>2, <2>1, <2>2 DEF Worth
<1>4. \A i \in Q : wq[i] = wc[i + m] /\ i + m \in S /\ ~(i + m <= m)
  <2> SUFFICES ASSUME NEW i \in Q PROVE wq[i] = wc[i + m] /\ i + m \in S /\ ~(i + m <= m)
    OBVIOUS
  <2>1. i + m \in S /\ ~(i + m <= m) /\ (i + m) - m = i
    BY <1>2
  <2>2. c[i + m] = q[i]
    BY <1>1, <2>1
  <2> HIDE DEF c
  <2> QED
    BY <1>2, <2>1, <2>2 DEF Worth
<1>5. \A i \in S : ~(i <= m) => \E j \in Q : i = j + m
  <2> SUFFICES ASSUME NEW i \in S, ~(i <= m) PROVE \E j \in Q : i = j + m
    OBVIOUS
  <2>1. i - m \in Q /\ i = (i - m) + m
    BY <1>2
  <2> QED
    BY <2>1
<1>6. \A i \in M : i <= m
  BY <1>2
<1>7. \A i \in S : i <= m => i \in M
  BY <1>2
<1>8. shift \in [Q -> S] /\ \A i, j \in Q : shift[i] = shift[j] => i = j
  BY <1>2, <1>4
<1>9. same \in [M -> S] /\ \A i, j \in M : same[i] = same[j] => i = j
  BY <1>3
<1>10. left \in [S -> Fraction] /\ right \in [S -> Fraction]
  <2>1. Zero \in Fraction
    BY UnitFractions
  <2> HIDE DEF wc, S
  <2> QED
    BY <1>2, <2>1
<1> HIDE DEF wc, wp, wq, M, Q, S, c
<1>11. Accumulate(wp) = Accumulate(left)
  <2>1. \A i \in M : wp[i] = left[same[i]]
    BY <1>3, <1>6
  <2>2. \A i \in S : (\A j \in M : same[j] # i) => left[i] = Zero
    BY <1>7
  <2> HIDE DEF left, same
  <2>3. Embeds(M, S, same, wp, left)
    BY <1>2, <1>9, <1>10, <2>1, <2>2 DEF Embeds
  <2> QED
    BY <2>3, EmbeddedSums
<1>12. Accumulate(wq) = Accumulate(right)
  <2>1. \A i \in Q : wq[i] = right[shift[i]]
    BY <1>4
  <2>2. \A i \in S : (\A j \in Q : shift[j] # i) => right[i] = Zero
    BY <1>5
  <2> HIDE DEF right, shift
  <2>3. Embeds(Q, S, shift, wq, right)
    BY <1>2, <1>8, <1>10, <2>1, <2>2 DEF Embeds
  <2> QED
    BY <2>3, EmbeddedSums
<1>13. Accumulate(wc) = plus(Accumulate(left), Accumulate(right))
  <2>1. \A i \in S : wc[i] = plus(left[i], right[i])
    <3> SUFFICES ASSUME NEW i \in S PROVE wc[i] = plus(left[i], right[i])
      OBVIOUS
    <3>1. wc[i] \in Fraction
      BY <1>2
    <3>2. plus(wc[i], Zero) = wc[i] /\ plus(Zero, wc[i]) = wc[i]
      BY <3>1, PlusLaws
    <3> QED
      BY <3>2
  <2> HIDE DEF left, right
  <2>2. Adds(S, left, right, wc)
    BY <1>2, <1>10, <2>1 DEF Adds
  <2> QED
    BY <2>2, AddedSums
<1> QED
  BY <1>11, <1>12, <1>13 DEF Weight, wp, wq, wc, c

LEMMA WeightFlatten ==
  ASSUME NEW K, NEW seqs \in Seq(Seq(Priced(K))), NEW key, NEW counted
  PROVE  LET terms == [i \in 1 .. Len(seqs) |-> Weight(seqs[i], key, counted)]
         IN  /\ terms \in [1 .. Len(seqs) -> Fraction]
             /\ Weight(FlattenSeq(seqs), key, counted) = Accumulate(terms)
<1> DEFINE n == Len(seqs)
           X == Seq(Priced(K))
           terms == [i \in 1 .. n |-> Weight(seqs[i], key, counted)]
<1>1. PICK P \in [0 .. n -> X] :
        /\ P[0] = <<>>
        /\ \A i \in 1 .. n : P[i] = P[i - 1] \o seqs[i]
        /\ FlattenSeq(seqs) = P[n]
  BY FlattenSteps
<1>2. n \in Nat /\ seqs \in [1 .. n -> X]
  OBVIOUS
<1>3. \A p \in X : Weight(p, key, counted) \in Fraction
  BY WorthType
<1>4. terms \in [1 .. n -> Fraction]
  BY <1>2, <1>3
<1>5. \A p, q \in X :
        Weight(p \o q, key, counted) = plus(Weight(p, key, counted), Weight(q, key, counted))
  BY WeightConcat
<1>6. Weight(<<>>, key, counted) = Zero
  <2> DEFINE t == Worth(<<>>, key, counted)
  <2>1. IsFiniteSet({}) /\ t \in [{} -> Fraction]
    BY FS_EmptySet DEF Worth
  <2>2. \A y \in {} : t[y] = Zero
    OBVIOUS
  <2> HIDE DEF t
  <2>3. Accumulate(t) = Zero
    BY <2>1, <2>2, SingleTerm
  <2> QED
    BY <2>3 DEF Weight, t
<1> HIDE DEF n, X
<1>7. \A i \in 1 .. n : terms[i] = Weight(seqs[i], key, counted)
  OBVIOUS
<1> HIDE DEF terms
<1>8. /\ Sums(terms)[1 .. 0] = Zero /\ Accumulate(terms) = Sums(terms)[1 .. n]
      /\ \A k \in 0 .. n : Sums(terms)[1 .. k] \in Fraction
      /\ \A k \in 1 .. n : Sums(terms)[1 .. k] = plus(terms[k], Sums(terms)[1 .. k - 1])
  BY <1>2, <1>4, PrefixSums
<1> DEFINE Same(k) == Weight(P[k], key, counted) = Sums(terms)[1 .. k]
           Bad == {k \in 0 .. n : ~Same(k)}
<1>9. Bad = {}
  <2>1. SUFFICES ASSUME Bad # {} PROVE FALSE
    OBVIOUS
  <2>2. PICK k \in Bad : \A j \in Bad : k <= j
    <3>1. Bad \subseteq Nat
      BY <1>2
    <3> HIDE DEF Bad
    <3> QED
      BY <2>1, <3>1, LeastNumber
  <2>3. k \in 0 .. n /\ ~Same(k)
    OBVIOUS
  <2>4. k # 0
    BY <1>1, <1>6, <1>8, <2>3
  <2>5. k \in 1 .. n /\ k - 1 \in 0 .. n /\ ~(k <= k - 1)
    BY <1>2, <2>3, <2>4
  <2>6. Same(k - 1)
    <3> HIDE DEF Same
    <3> QED
      BY <2>2, <2>5
  <2> DEFINE a == P[k - 1]
             b == seqs[k]
             x == Sums(terms)[1 .. k - 1]
             y == terms[k]
  <2>7. a \in X /\ b \in X /\ P[k] = a \o b /\ x \in Fraction /\ y \in Fraction
    BY <1>1, <1>2, <1>4, <1>8, <2>5
  <2>8. Weight(a, key, counted) = x /\ Weight(b, key, counted) = y
    BY <1>7, <2>5, <2>6
  <2>9. Sums(terms)[1 .. k] = plus(y, x)
    BY <1>8, <2>5
  <2>10. Weight(P[k], key, counted) # Sums(terms)[1 .. k]
    BY <2>3
  <2> HIDE DEF a, b, x, y, Same
  <2>11. Weight(P[k], key, counted) = plus(x, y)
    BY <1>5, <2>7, <2>8
  <2>12. plus(x, y) = plus(y, x)
    BY <2>7, PlusLaws
  <2> QED
    BY <2>9, <2>10, <2>11, <2>12
<1>10. n \in 0 .. n
  BY <1>2
<1>11. Same(n)
  <2> HIDE DEF Same
  <2> QED
    BY <1>9, <1>10
<1> QED
  BY <1>1, <1>4, <1>8, <1>11 DEF terms, n

LEMMA WeightAt ==
  ASSUME NEW K, NEW pairs \in Seq(Priced(K)), NEW S, S \subseteq DOMAIN pairs, NEW key, NEW counted
  PROVE  /\ (\A i \in DOMAIN pairs : pairs[i].key = key => i \in S) =>
              Weight(At(pairs, S), key, counted) = Weight(pairs, key, counted)
         /\ (\A i \in S : pairs[i].key # key) => Weight(At(pairs, S), key, counted) = Zero
<1> DEFINE D == 1 .. Len(pairs)
           place == Ascending(S)
           m == Cardinality(S)
           M == 1 .. m
           p == Worth(At(pairs, S), key, counted)
           q == Worth(pairs, key, counted)
<1>1. Len(pairs) \in Nat /\ DOMAIN pairs = D /\ q \in [D -> Fraction] /\ IsFiniteSet(D)
  BY WorthType
<1>2. S \subseteq Nat /\ IsFiniteSet(S) /\ S \subseteq D
  BY <1>1, FS_Subset
<1>3. /\ m \in Nat /\ place \in [M -> S]
      /\ \A x \in S : \E n \in M : place[n] = x
      /\ \A i, j \in M : place[i] = place[j] => i = j
  BY <1>2, AscendingLists
<1>4. IsFiniteSet(M)
  BY <1>3, FS_Interval
<1>5. At(pairs, S) = [n \in DOMAIN place |-> pairs[place[n]]]
  BY DEF At
<1> HIDE DEF place, m
<1>6. At(pairs, S) = [n \in M |-> pairs[place[n]]]
  BY <1>3, <1>5
<1> HIDE DEF M, D
<1>7. DOMAIN p = M /\ \A n \in M : p[n] = q[place[n]] /\ place[n] \in S /\ place[n] \in D
  BY <1>1, <1>2, <1>3, <1>6 DEF Worth
<1>8. p = [n \in M |-> p[n]]
  BY <1>6 DEF Worth
<1>9. \A i \in D : pairs[i].key # key => q[i] = Zero
  BY <1>1 DEF Worth
<1> HIDE DEF p, q
<1>10. p \in [M -> Fraction] /\ place \in [M -> D]
  BY <1>1, <1>2, <1>3, <1>7, <1>8
<1>11. ASSUME \A i \in D : pairs[i].key = key => i \in S
       PROVE  Accumulate(p) = Accumulate(q)
  <2>1. \A y \in D : (\A x \in M : place[x] # y) => q[y] = Zero
    BY <1>3, <1>9, <1>11
  <2>2. Embeds(M, D, place, p, q)
    BY <1>1, <1>3, <1>4, <1>7, <1>10, <2>1 DEF Embeds
  <2> QED
    BY <2>2, EmbeddedSums
<1>12. ASSUME \A i \in S : pairs[i].key # key PROVE Accumulate(p) = Zero
  <2>1. \A n \in M : p[n] = Zero
    BY <1>7, <1>9, <1>12
  <2> QED
    BY <1>4, <1>10, <2>1, SingleTerm
<1> QED
  BY <1>1, <1>11, <1>12 DEF Weight, p, q

LEMMA WeightGrouped ==
  ASSUME NEW K, NEW pairs \in Seq(Priced(K)), NEW key \in KeysIn(pairs)
  PROVE  LET values == Grouped(pairs)[key]
         IN  /\ values \in Seq(Fraction) /\ Len(values) \in Nat \ {0}
             /\ Accumulate(values) = Weight(pairs, key, FALSE)
             /\ <<Len(values), 1>> = Weight(pairs, key, TRUE)
<1> DEFINE D == 1 .. Len(pairs)
           S == {i \in DOMAIN pairs : pairs[i].key = key}
           place == Ascending(S)
           m == Cardinality(S)
           own == At(pairs, S)
           values == Grouped(pairs)[key]
<1>1. /\ Len(pairs) \in Nat /\ DOMAIN pairs = D /\ IsFiniteSet(D)
      /\ \A i \in DOMAIN pairs : pairs[i] \in Priced(K)
  BY WorthType
<1>2. S \subseteq Nat /\ IsFiniteSet(S) /\ S \subseteq D
  <2>1. S \subseteq D /\ D \subseteq Nat
    BY <1>1
  <2> HIDE DEF S
  <2> QED
    BY <1>1, <2>1, FS_Subset
<1>3. \A i \in S : pairs[i].key = key /\ pairs[i].value \in Fraction
  BY <1>1 DEF Priced
<1>4. S # {}
  BY DEF KeysIn
<1>5. values = [i \in DOMAIN own |-> own[i].value]
  BY DEF Grouped
<1>6. S \subseteq DOMAIN pairs /\ \A i \in DOMAIN pairs : pairs[i].key = key => i \in S
  OBVIOUS
<1> HIDE DEF S
<1>7. /\ m \in Nat /\ place \in [1 .. m -> S]
      /\ \A x \in S : \E n \in 1 .. m : place[n] = x
  BY <1>2, AscendingLists
<1>8. own = [n \in DOMAIN place |-> pairs[place[n]]]
  BY DEF At
<1>9. \A counted : Weight(own, key, counted) = Weight(pairs, key, counted)
  BY <1>6, WeightAt
<1> HIDE DEF place, m, own, values
<1>10. m # 0
  <2> SUFFICES ASSUME m = 0 PROVE FALSE
    OBVIOUS
  <2>1. 1 .. m = {}
    BY <1>7
  <2> QED
    BY <1>4, <1>7, <2>1
<1>11. own = [n \in 1 .. m |-> pairs[place[n]]]
  BY <1>7, <1>8
<1>12. /\ DOMAIN own = 1 .. m
       /\ \A n \in 1 .. m : own[n].key = key /\ own[n].value \in Fraction
  BY <1>3, <1>7, <1>11
<1>13. values = [n \in 1 .. m |-> own[n].value]
  BY <1>5, <1>12
<1>14. values \in Seq(Fraction) /\ Len(values) = m
  BY <1>7, <1>12, <1>13
<1>15. Worth(own, key, FALSE) = values
  BY <1>12, <1>13 DEF Worth
<1>16. Worth(own, key, TRUE) = [n \in 1 .. m |-> One]
  BY <1>12 DEF Worth
<1>17. Accumulate(Worth(own, key, TRUE)) = Multiple(m, One)
  <2>1. One \in Fraction
    BY UnitFractions DEF One
  <2> QED
    BY <1>7, <1>16, <2>1, Copies
<1>18. Multiple(m, One) = <<m, 1>>
  <2>1. One \in Fraction
    BY UnitFractions DEF One
  <2> QED
    BY <1>7, <2>1, MultipleStep
<1>19. /\ Accumulate(values) = Weight(pairs, key, FALSE)
       /\ <<m, 1>> = Weight(pairs, key, TRUE)
  BY <1>9, <1>15, <1>17, <1>18 DEF Weight
<1> QED
  BY <1>7, <1>10, <1>14, <1>19 DEF values

(* the chunks of map_tasks: a sum over the vertices, chunk after chunk *)
LEMMA LoEnds == ASSUME N \in Nat \ {0} PROVE Lo(0) = 0 /\ Lo(Size) = N
<1>1. Size \in Nat \ {0}
  BY SizeAssumption
<1> DEFINE a == Size * N
<1>2. Lo(0) = (0 * N) \div Size /\ Lo(Size) = a \div Size
  BY DEF Lo
<1>3. 0 * N = 0 /\ 0 \div Size = 0
  BY <1>1, SMT
<1>4. a \in Nat
  BY <1>1, SMT
<1> HIDE DEF a
<1>5. /\ a \div Size \in Nat
      /\ Size * (a \div Size) <= a /\ a < Size * (a \div Size) + Size
  BY <1>1, <1>4, Division
<1> DEFINE d == a \div Size
<1>6. d \in Nat /\ Size * d <= Size * N /\ Size * N < Size * d + Size
  BY <1>5 DEF a
<1> HIDE DEF d
<1>7. d = N
  BY <1>1, <1>6, SMT
<1> QED
  BY <1>2, <1>3, <1>7 DEF d

PartSum(g, s) == Accumulate([i \in DOMAIN Chunk(s - 1) |-> g[Chunk(s - 1)[i]]])

LEMMA ChunkSums ==
  ASSUME InputInv, NEW g \in [V -> Fraction], NEW part, part = [s \in 1 .. Size |-> PartSum(g, s)]
  PROVE  part \in [1 .. Size -> Fraction] /\ Accumulate(part) = Accumulate(g)
<1> DEFINE U(s) == [v \in V |-> IF v < Lo(s) THEN g[v] ELSE Zero]
           D(s) == [v \in V |-> IF v \in Lo(s - 1) .. Lo(s) - 1 THEN g[v] ELSE Zero]
<1>1. /\ N \in Nat \ {0} /\ V = 0 .. N - 1 /\ IsFiniteSet(V) /\ V \subseteq Nat
      /\ Size \in Nat \ {0} /\ Zero \in Fraction
  BY InputFacts, SizeAssumption, UnitFractions
<1>2. \A s \in 1 .. Size : s - 1 \in Ranks /\ (s - 1) + 1 = s
  BY <1>1 DEF Ranks
<1>3. ASSUME NEW s \in 1 .. Size
      PROVE  Lo(s - 1) \in Nat /\ Lo(s) \in Nat /\ Lo(s - 1) <= Lo(s) /\ Lo(s) <= N
  <2> DEFINE r == s - 1
  <2>1. r \in Ranks /\ r + 1 = s
    BY <1>2
  <2> HIDE DEF r
  <2>2. Lo(r) \in Nat /\ Lo(r + 1) \in Nat /\ Lo(r) <= Lo(r + 1) /\ Lo(r + 1) <= N
    BY <1>1, <2>1, LoBounds
  <2> QED
    BY <2>1, <2>2 DEF r
<1>4. \A s : U(s) \in [V -> Fraction] /\ D(s) \in [V -> Fraction]
  BY <1>1
<1>5. ASSUME NEW s \in 1 .. Size
      PROVE  PartSum(g, s) \in Fraction /\ PartSum(g, s) = Accumulate(D(s))
  <2> DEFINE lo == Lo(s - 1)
             hi == Lo(s)
             n == hi - lo
             M == 1 .. n
             c == Chunk(s - 1)
             p == [i \in M |-> g[c[i]]]
             q == D(s)
  <2>1. lo \in Nat /\ hi \in Nat /\ lo <= hi /\ hi <= N
    BY <1>3
  <2>2. c = [i \in 1 .. n |-> lo + i - 1]
    BY <1>2 DEF Chunk
  <2>3. q = [v \in V |-> IF v \in lo .. hi - 1 THEN g[v] ELSE Zero] /\ q \in [V -> Fraction]
    BY <1>4
  <2> HIDE DEF lo, hi, q
  <2>4. n \in Nat /\ IsFiniteSet(M)
    BY <2>1, FS_Interval
  <2>5. \A i \in M : lo + i - 1 \in V /\ lo + i - 1 \in lo .. hi - 1
    BY <1>1, <2>1
  <2>6. \A v \in lo .. hi - 1 : \E i \in M : lo + i - 1 = v
    <3> SUFFICES ASSUME NEW v \in lo .. hi - 1 PROVE \E i \in M : lo + i - 1 = v
      OBVIOUS
    <3>1. (v - lo) + 1 \in M /\ lo + ((v - lo) + 1) - 1 = v
      BY <2>1
    <3> QED
      BY <3>1
  <2>7. \A i, j \in M : lo + i - 1 = lo + j - 1 => i = j
    BY <2>1
  <2> HIDE DEF M
  <2>8. c = [i \in M |-> lo + i - 1]
    BY <2>2 DEF M
  <2>9. c \in [M -> V] /\ \A i, j \in M : c[i] = c[j] => i = j
    BY <2>5, <2>7, <2>8
  <2>10. \A i \in M : c[i] \in V /\ c[i] \in lo .. hi - 1
    BY <2>5, <2>8
  <2>11. p \in [M -> Fraction]
    BY <2>10
  <2>12. \A i \in M : p[i] = q[c[i]]
    BY <2>3, <2>10
  <2>13. \A y \in V : (\A i \in M : c[i] # y) => q[y] = Zero
    BY <2>3, <2>6, <2>8
  <2>14. PartSum(g, s) = Accumulate(p)
    BY <2>9 DEF PartSum
  <2> HIDE DEF c, p
  <2>15. Embeds(M, V, c, p, q)
    BY <1>1, <2>3, <2>4, <2>9, <2>11, <2>12, <2>13 DEF Embeds
  <2>16. Accumulate(p) = Accumulate(q)
    BY <2>15, EmbeddedSums
  <2>17. Accumulate(p) \in Fraction
    BY <2>4, <2>11, AccumulateFraction, FractionIsValue
  <2> QED
    BY <2>14, <2>16, <2>17 DEF q
<1>6. part \in [1 .. Size -> Fraction] /\ \A s \in 1 .. Size : part[s] = Accumulate(D(s))
  BY <1>5
<1>7. /\ Sums(part)[1 .. 0] = Zero /\ Accumulate(part) = Sums(part)[1 .. Size]
      /\ \A k \in 1 .. Size : Sums(part)[1 .. k] = plus(part[k], Sums(part)[1 .. k - 1])
  BY <1>1, <1>6, PrefixSums
<1>8. ASSUME NEW s \in 1 .. Size
      PROVE  Accumulate(U(s)) = plus(Accumulate(D(s)), Accumulate(U(s - 1)))
  <2> DEFINE f == D(s)
             h == U(s)
             e == U(s - 1)
  <2>1. f \in [V -> Fraction] /\ h \in [V -> Fraction] /\ e \in [V -> Fraction]
    BY <1>4
  <2>2. \A v \in V : h[v] = plus(f[v], e[v])
    <3> SUFFICES ASSUME NEW v \in V PROVE h[v] = plus(f[v], e[v])
      OBVIOUS
    <3> DEFINE lo == Lo(s - 1)
               hi == Lo(s)
    <3>1. lo \in Nat /\ hi \in Nat /\ lo <= hi /\ v \in Nat
      BY <1>1, <1>3
    <3>2. /\ h[v] = IF v < hi THEN g[v] ELSE Zero
          /\ e[v] = IF v < lo THEN g[v] ELSE Zero
          /\ f[v] = IF v \in lo .. hi - 1 THEN g[v] ELSE Zero
      OBVIOUS
    <3> HIDE DEF f, h, e, lo, hi
    <3>3. g[v] \in Fraction
      OBVIOUS
    <3>4. plus(g[v], Zero) = g[v] /\ plus(Zero, g[v]) = g[v] /\ plus(Zero, Zero) = Zero
      BY <1>1, <3>3, PlusLaws
    <3>5. CASE v < lo
      <4>1. v < hi /\ v \notin lo .. hi - 1
        BY <3>1, <3>5
      <4> QED
        BY <3>2, <3>4, <3>5, <4>1
    <3>6. CASE ~(v < lo) /\ v < hi
      <4>1. v \in lo .. hi - 1
        BY <3>1, <3>6
      <4> QED
        BY <3>2, <3>4, <3>6, <4>1
    <3>7. CASE ~(v < hi)
      <4>1. ~(v < lo) /\ v \notin lo .. hi - 1
        BY <3>1, <3>7
      <4> QED
        BY <3>2, <3>4, <3>7, <4>1
    <3> QED
      BY <3>5, <3>6, <3>7
  <2> HIDE DEF f, h, e
  <2>3. Adds(V, f, e, h)
    BY <1>1, <2>1, <2>2 DEF Adds
  <2>4. Accumulate(h) = plus(Accumulate(f), Accumulate(e))
    BY <2>3, AddedSums
  <2> QED
    BY <2>4 DEF f, h, e
<1>9. Accumulate(U(0)) = Zero
  <2> DEFINE h == U(0)
  <2>1. h \in [V -> Fraction]
    BY <1>4
  <2>2. \A v \in V : h[v] = Zero
    BY <1>1, LoEnds
  <2> HIDE DEF h
  <2>3. Accumulate(h) = Zero
    BY <1>1, <2>1, <2>2, SingleTerm
  <2> QED
    BY <2>3 DEF h
<1>10. U(Size) = g
  <2>1. \A v \in V : v < Lo(Size)
    BY <1>1, LoEnds
  <2>2. U(Size) = [v \in V |-> g[v]]
    BY <2>1
  <2> QED
    BY <2>2
<1> DEFINE Same(k) == Sums(part)[1 .. k] = Accumulate(U(k))
           Bad == {k \in 0 .. Size : ~Same(k)}
<1> HIDE DEF U, D
<1>11. Bad = {}
  <2>1. SUFFICES ASSUME Bad # {} PROVE FALSE
    OBVIOUS
  <2>2. PICK k \in Bad : \A j \in Bad : k <= j
    <3>1. Bad \subseteq Nat
      BY <1>1
    <3> HIDE DEF Bad
    <3> QED
      BY <2>1, <3>1, LeastNumber
  <2>3. k \in 0 .. Size /\ ~Same(k)
    OBVIOUS
  <2>4. k # 0
    BY <1>7, <1>9, <2>3
  <2>5. k \in 1 .. Size /\ k - 1 \in 0 .. Size /\ ~(k <= k - 1)
    BY <1>1, <2>3, <2>4
  <2>6. Same(k - 1)
    <3> HIDE DEF Same
    <3> QED
      BY <2>2, <2>5
  <2> QED
    BY <1>6, <1>7, <1>8, <2>3, <2>5, <2>6
<1>12. Size \in 0 .. Size
  BY <1>1
<1>13. Same(Size)
  <2> HIDE DEF Same
  <2> QED
    BY <1>11, <1>12
<1> QED
  BY <1>6, <1>7, <1>10, <1>13

--------------------------------------------------------------------------------
(* The calls of a map-reduce keep the sums. *)

(* aggregate: the owner of a key receives what all processes have for it *)
LEMMA WeightReceived ==
  ASSUME InputInv, NEW r \in Ranks, NEW held \in [Ranks -> Seq(Priced(V))], kv = held,
         NEW key, Owner[key] = r, NEW counted
  PROVE  LET terms == [s \in 1 .. Size |-> Weight(held[s - 1], key, counted)]
         IN  /\ terms \in [1 .. Size -> Fraction]
             /\ Received(r) \in Seq(Priced(V))
             /\ Weight(Received(r), key, counted) = Accumulate(terms)
<1> DEFINE mine(s) == {i \in DOMAIN held[s - 1] : Owner[held[s - 1][i].key] = r}
           part(s) == At(held[s - 1], mine(s))
           parts == [s \in 1 .. Size |-> part(s)]
           terms == [s \in 1 .. Size |-> Weight(held[s - 1], key, counted)]
<1>1. Size \in Nat /\ \A s \in 1 .. Size : s - 1 \in Ranks
  BY SizeAssumption DEF Ranks
<1>2. Received(r) = FlattenSeq(parts)
  BY Zenon DEF Received
<1>3. ASSUME NEW s \in 1 .. Size
      PROVE  /\ part(s) \in Seq(Priced(V))
             /\ Weight(part(s), key, counted) = Weight(held[s - 1], key, counted)
             /\ Weight(held[s - 1], key, counted) \in Fraction
  <2> DEFINE q == held[s - 1]
             m == {i \in DOMAIN q : Owner[q[i].key] = r}
  <2>1. q \in Seq(Priced(V))
    BY <1>1
  <2>2. m \subseteq DOMAIN q /\ \A i \in DOMAIN q : q[i].key = key => i \in m
    OBVIOUS
  <2>3. mine(s) = m /\ held[s - 1] = q
    OBVIOUS
  <2> HIDE DEF q, m
  <2>4. At(q, m) \in Seq(Priced(V))
    BY <2>1, <2>2, AtLists
  <2>5. Weight(At(q, m), key, counted) = Weight(q, key, counted)
    BY <2>1, <2>2, WeightAt
  <2>6. Weight(q, key, counted) \in Fraction
    BY <2>1, WorthType
  <2> HIDE DEF mine
  <2> QED
    BY <2>3, <2>4, <2>5, <2>6
<1> HIDE DEF part
<1>4. /\ parts \in Seq(Seq(Priced(V))) /\ Len(parts) = Size
      /\ \A s \in 1 .. Size : parts[s] = part(s)
  <2>1. parts \in [1 .. Size -> Seq(Priced(V))]
    BY <1>3
  <2>2. \A s \in 1 .. Size : parts[s] = part(s)
    OBVIOUS
  <2> HIDE DEF parts
  <2> QED
    BY <1>1, <2>1, <2>2
<1> HIDE DEF parts
<1>5. FlattenSeq(parts) \in Seq(Priced(V))
  BY <1>4, FlattenLists
<1> DEFINE flat == [s \in 1 .. Len(parts) |-> Weight(parts[s], key, counted)]
<1>6. Weight(FlattenSeq(parts), key, counted) = Accumulate(flat)
  BY <1>4, WeightFlatten
<1>7. flat = terms
  BY <1>3, <1>4
<1>8. terms \in [1 .. Size -> Fraction]
  BY <1>3
<1> HIDE DEF flat, terms
<1> QED
  BY <1>2, <1>5, <1>6, <1>7, <1>8 DEF terms

Repeated(n, pair) == [copy \in 1 .. n |-> pair]

LEMMA WeightCopies ==
  ASSUME NEW K, NEW k \in K, NEW x \in Fraction, NEW n \in Nat, NEW key, NEW counted,
         NEW pairs, pairs = Repeated(n, Pair(k, x))
  PROVE  /\ pairs \in Seq(Priced(K))
         /\ k # key => Weight(pairs, key, counted) = Zero
         /\ k = key => Weight(pairs, key, counted) = Multiple(n, IF counted THEN One ELSE x)
<1> DEFINE w == Worth(pairs, key, counted)
           y == IF counted THEN One ELSE x
<1>1. Pair(k, x) \in Priced(K) /\ Pair(k, x).key = k /\ Pair(k, x).value = x
  BY DEF Pair, Priced
<1>2. pairs \in Seq(Priced(K))
  BY <1>1 DEF Repeated
<1>3. y \in Fraction
  BY UnitFractions DEF One
<1>4. w = [i \in 1 .. n |-> IF k = key THEN y ELSE Zero]
  BY <1>1 DEF Worth, Repeated
<1> HIDE DEF y
<1>5. ASSUME k = key PROVE Accumulate(w) = Multiple(n, y)
  <2>1. w = [i \in 1 .. n |-> y]
    BY <1>4, <1>5
  <2> HIDE DEF w
  <2> QED
    BY <1>3, <2>1, Copies
<1>6. ASSUME k # key PROVE Accumulate(w) = Zero
  <2>1. IsFiniteSet(1 .. n)
    BY FS_Interval
  <2>2. w \in [1 .. n -> Fraction] /\ \A i \in 1 .. n : w[i] = Zero
    BY <1>4, <1>6, UnitFractions
  <2> HIDE DEF w
  <2> QED
    BY <2>1, <2>2, SingleTerm
<1> QED
  BY <1>2, <1>5, <1>6 DEF Weight, y

LEMMA WeightSingle ==
  ASSUME NEW K, NEW k \in K, NEW x \in Fraction, NEW key, NEW counted
  PROVE  /\ <<Pair(k, x)>> \in Seq(Priced(K))
         /\ k # key => Weight(<<Pair(k, x)>>, key, counted) = Zero
         /\ k = key => Weight(<<Pair(k, x)>>, key, counted) = IF counted THEN One ELSE x
<1> DEFINE pairs == [copy \in 1 .. 1 |-> Pair(k, x)]
           m == 1
<1>1. <<Pair(k, x)>> = pairs
  OBVIOUS
<1>2. m \in Nat /\ pairs = Repeated(m, Pair(k, x))
  BY DEF Repeated
<1>3. \A y : Multiple(m, y) = y
  BY DEF Multiple
<1> HIDE DEF pairs, m
<1>4. /\ pairs \in Seq(Priced(K))
      /\ k # key => Weight(pairs, key, counted) = Zero
      /\ k = key => Weight(pairs, key, counted) = Multiple(m, IF counted THEN One ELSE x)
  BY <1>2, WeightCopies
<1> QED
  BY <1>1, <1>3, <1>4

(* what a vertex sends to another one, and to itself *)
Share(key, x, f, v) ==
  plus(IF key = v THEN f ELSE Zero, Multiple(graph.toList[key][v], x))

LEMMA WeightPageRankPairs ==
  ASSUME InputInv, NEW r \in Ranks, NEW key \in V, NEW v \in V,
         pageRanks[r] \in [V -> Fraction], factor[r] \in Fraction
  PROVE  LET x == times(hyperlink[key], pageRanks[r][key])
         IN  /\ PageRankPairs(r, key) \in Seq(Priced(V))
             /\ x \in Fraction /\ Share(key, x, factor[r], v) \in Fraction
             /\ Weight(PageRankPairs(r, key), v, FALSE) = Share(key, x, factor[r], v)
<1> DEFINE x == times(hyperlink[key], pageRanks[r][key])
           share(i) == [copy \in 1 .. graph.toList[key][i - 1] |-> Pair(i - 1, x)]
           shares == [i \in 1 .. N |-> share(i)]
           first == <<Pair(key, factor[r])>>
           n == graph.toList[key][v]
<1>0. PICK counted : counted = FALSE
  OBVIOUS
<1>1. /\ N \in Nat \ {0} /\ V = 0 .. N - 1 /\ n \in Nat
      /\ \A i \in 1 .. N : i - 1 \in V /\ graph.toList[key][i - 1] \in Nat
  <2>1. N \in Nat \ {0} /\ V = 0 .. N - 1
    BY InputFacts
  <2>2. \A i \in 1 .. N : i - 1 \in V
    BY <2>1
  <2> QED
    BY <2>1, <2>2, InputFacts
<1>2. x \in Fraction
  <2>1. hyperlink \in [V -> Fraction]
    BY InputFacts, HyperLinks DEF InputInv, IsGraphOn
  <2>2. hyperlink[key] \in Fraction /\ pageRanks[r][key] \in Fraction
    BY <2>1
  <2> QED
    BY <2>2, TimesCommutes
<1>3. Scaled(hyperlink[key], pageRanks[r][key]) = x
  <2>1. pageRanks[r][key] # NaN
    BY NaNAssumption, FractionIsValue
  <2> QED
    BY <2>1 DEF Scaled
<1>4. PageRankPairs(r, key) = first \o FlattenSeq(shares)
  BY <1>3, Zenon DEF PageRankPairs
<1> HIDE DEF x, n
<1>5. ASSUME NEW i \in 1 .. N
      PROVE  /\ share(i) \in Seq(Priced(V))
             /\ Weight(share(i), v, counted) = IF i - 1 = v THEN Multiple(n, x) ELSE Zero
  <2> DEFINE k == i - 1
             c == graph.toList[key][k]
  <2>1. k \in V /\ c \in Nat /\ k = i - 1
    BY <1>1
  <2>2. share(i) = [copy \in 1 .. c |-> Pair(k, x)]
    OBVIOUS
  <2>3. c = n \/ k # v
    BY DEF n
  <2> DEFINE pairs == share(i)
  <2> HIDE DEF k, c, share
  <2>4. pairs = Repeated(c, Pair(k, x))
    BY <2>2 DEF Repeated
  <2> HIDE DEF pairs
  <2>5. /\ pairs \in Seq(Priced(V))
        /\ k # v => Weight(pairs, v, counted) = Zero
        /\ k = v => Weight(pairs, v, counted) = Multiple(c, IF counted THEN One ELSE x)
    BY <1>2, <2>1, <2>4, WeightCopies, SMTT(60)
  <2> QED
    BY <1>0, <2>1, <2>3, <2>5 DEF pairs
<1> HIDE DEF share
<1>6. /\ shares \in Seq(Seq(Priced(V))) /\ Len(shares) = N
      /\ \A i \in 1 .. N : shares[i] = share(i)
  <2>1. shares \in [1 .. N -> Seq(Priced(V))]
    BY <1>5
  <2>2. \A i \in 1 .. N : shares[i] = share(i)
    OBVIOUS
  <2> HIDE DEF shares
  <2> QED
    BY <1>1, <2>1, <2>2
<1> HIDE DEF shares
<1> DEFINE terms == [i \in 1 .. Len(shares) |-> Weight(shares[i], v, counted)]
<1>7. /\ terms \in [1 .. Len(shares) -> Fraction]
      /\ Weight(FlattenSeq(shares), v, counted) = Accumulate(terms)
  BY <1>6, WeightFlatten
<1>8. \A i \in 1 .. N : terms[i] = IF i - 1 = v THEN Multiple(n, x) ELSE Zero
  BY <1>5, <1>6
<1>9. v + 1 \in 1 .. N /\ (v + 1) - 1 = v /\ \A i \in 1 .. N : i # v + 1 => i - 1 # v
  BY <1>1
<1>10. Accumulate(terms) = Multiple(n, x)
  <2> DEFINE j == v + 1
  <2>1. j \in 1 .. N /\ terms[j] = Multiple(n, x)
    BY <1>8, <1>9
  <2>2. \A i \in 1 .. N : i # j => terms[i] = Zero
    BY <1>8, <1>9
  <2>3. terms \in [1 .. N -> Fraction] /\ IsFiniteSet(1 .. N)
    <3>1. 1 \in Int /\ N \in Int
      BY <1>1
    <3>2. IsFiniteSet(1 .. N)
      BY <3>1, FS_Interval
    <3> HIDE DEF terms
    <3> QED
      BY <1>6, <1>7, <3>2
  <2> HIDE DEF terms, j
  <2>4. Accumulate(terms) = terms[j]
    BY <2>1, <2>2, <2>3, SingleTerm
  <2> QED
    BY <2>1, <2>4
<1> HIDE DEF terms
<1>11. FlattenSeq(shares) \in Seq(Priced(V))
  BY <1>6, FlattenLists
<1>12. /\ first \in Seq(Priced(V))
       /\ Weight(first, v, counted) = IF key = v THEN factor[r] ELSE Zero
  <2> DEFINE f == factor[r]
  <2>1. f \in Fraction
    OBVIOUS
  <2> HIDE DEF f
  <2>2. /\ <<Pair(key, f)>> \in Seq(Priced(V))
        /\ key # v => Weight(<<Pair(key, f)>>, v, counted) = Zero
        /\ key = v => Weight(<<Pair(key, f)>>, v, counted) = IF counted THEN One ELSE f
    BY <2>1, WeightSingle
  <2> QED
    BY <1>0, <2>2 DEF f
<1> DEFINE rest == FlattenSeq(shares)
<1> HIDE DEF first, rest
<1>13. /\ first \o rest \in Seq(Priced(V))
       /\ Weight(first \o rest, v, counted) = plus(Weight(first, v, counted), Weight(rest, v, counted))
  <2>1. first \in Seq(Priced(V)) /\ rest \in Seq(Priced(V))
    BY <1>11, <1>12 DEF rest
  <2>2. first \o rest \in Seq(Priced(V))
    BY <2>1
  <2> QED
    BY <2>1, <2>2, WeightConcat
<1>14. Weight(first \o rest, v, counted) = Share(key, x, factor[r], v)
  BY <1>7, <1>10, <1>12, <1>13 DEF rest, Share, n
<1>15. Weight(first \o rest, v, counted) \in Fraction
  BY <1>13, WorthType
<1> QED
  BY <1>0, <1>2, <1>4, <1>13, <1>14, <1>15 DEF rest, x

(* map: a process's callbacks, vertex after vertex of its chunk *)
ChunkPieces(r, piece) == FlattenSeq([i \in DOMAIN Chunk(r) |-> piece[Chunk(r)[i]]])

PieceWeights(piece, g, key, counted) ==
  /\ g \in [V -> Fraction] /\ piece \in [V -> Seq(Priced(V))]
  /\ \A u \in V : Weight(piece[u], key, counted) = g[u]

LEMMA WeightPieces ==
  ASSUME InputInv, NEW r \in Ranks, NEW piece, NEW g, NEW key, NEW counted,
         PieceWeights(piece, g, key, counted), NEW all, all = ChunkPieces(r, piece)
  PROVE  all \in Seq(Priced(V)) /\ Weight(all, key, counted) = PartSum(g, r + 1)
<1> DEFINE c == Chunk(r)
           pieces == [i \in DOMAIN c |-> piece[c[i]]]
           terms == [i \in 1 .. Len(pieces) |-> Weight(pieces[i], key, counted)]
<1>0. /\ g \in [V -> Fraction] /\ piece \in [V -> Seq(Priced(V))]
      /\ \A u \in V : Weight(piece[u], key, counted) = g[u]
  BY DEF PieceWeights
<1>1. c \in Seq(V)
  BY InputFacts, ChunkLists
<1>2. all = FlattenSeq(pieces)
  BY DEF ChunkPieces
<1>3. (r + 1) - 1 = r
  BY SizeAssumption DEF Ranks
<1>4. PartSum(g, r + 1) = Accumulate([i \in DOMAIN c |-> g[c[i]]])
  BY <1>3 DEF PartSum
<1> HIDE DEF c
<1>5. Len(c) \in Nat /\ DOMAIN c = 1 .. Len(c) /\ \A i \in DOMAIN c : c[i] \in V
  <2>1. Len(c) \in Nat /\ DOMAIN c = 1 .. Len(c)
    BY <1>1
  <2> QED
    BY <1>1, <2>1, ElementOfSeq
<1>6. /\ pieces \in Seq(Seq(Priced(V))) /\ Len(pieces) = Len(c)
      /\ \A i \in 1 .. Len(c) : pieces[i] = piece[c[i]]
  <2>1. pieces \in [1 .. Len(c) -> Seq(Priced(V))]
    BY <1>0, <1>5
  <2>2. \A i \in 1 .. Len(c) : pieces[i] = piece[c[i]]
    BY <1>5
  <2> HIDE DEF pieces
  <2> QED
    BY <1>5, <2>1, <2>2
<1> HIDE DEF pieces
<1>7. FlattenSeq(pieces) \in Seq(Priced(V))
  BY <1>6, FlattenLists
<1>8. Weight(FlattenSeq(pieces), key, counted) = Accumulate(terms)
  BY <1>6, WeightFlatten
<1>9. terms = [i \in DOMAIN c |-> g[c[i]]]
  BY <1>0, <1>5, <1>6
<1> QED
  BY <1>2, <1>4, <1>7, <1>8, <1>9

PageShares(r, v) ==
  [u \in V |-> Share(u, times(hyperlink[u], pageRanks[r][u]), factor[r], v)]
FactorShares(r, counted) ==
  [u \in V |-> IF counted THEN One ELSE FactorValue(hyperlink[u], pageRanks[r][u])]

LEMMA WeightMappedPage ==
  ASSUME InputInv, job = "page", NEW r \in Ranks, NEW v \in V,
         pageRanks[r] \in [V -> Fraction], factor[r] \in Fraction
  PROVE  /\ Mapped(r) \in Seq(Priced(V)) /\ PageShares(r, v) \in [V -> Fraction]
         /\ Weight(Mapped(r), v, FALSE) = PartSum(PageShares(r, v), r + 1)
<1> DEFINE g == PageShares(r, v)
           piece == [u \in V |-> PageRankPairs(r, u)]
           all == FlattenSeq([i \in DOMAIN Chunk(r) |-> piece[Chunk(r)[i]]])
<1>0. PICK counted : counted = FALSE
  OBVIOUS
<1>1. \A u \in V :
        LET x == times(hyperlink[u], pageRanks[r][u])
        IN  /\ PageRankPairs(r, u) \in Seq(Priced(V))
            /\ x \in Fraction /\ Share(u, x, factor[r], v) \in Fraction
            /\ Weight(PageRankPairs(r, u), v, FALSE) = Share(u, x, factor[r], v)
  BY WeightPageRankPairs
<1>2. g \in [V -> Fraction] /\ piece \in [V -> Seq(Priced(V))]
      /\ \A u \in V : Weight(piece[u], v, counted) = g[u]
  BY <1>0, <1>1 DEF PageShares
<1>3. Mapped(r) = all
  <2>1. \A i \in DOMAIN Chunk(r) : Chunk(r)[i] \in V
    <3>1. Chunk(r) \in Seq(V)
      BY InputFacts, ChunkLists
    <3> DEFINE c == Chunk(r)
    <3> HIDE DEF c
    <3>2. DOMAIN c = 1 .. Len(c) /\ c \in Seq(V)
      BY <3>1 DEF c
    <3>3. \A i \in DOMAIN c : c[i] \in V
      BY <3>2, ElementOfSeq
    <3> QED
      BY <3>3 DEF c
  <2>2. \A i \in DOMAIN Chunk(r) : piece[Chunk(r)[i]] = PageRankPairs(r, Chunk(r)[i])
    BY <2>1
  <2>3. [i \in DOMAIN Chunk(r) |->
           IF job = "factor" THEN FactorPairs(r, Chunk(r)[i]) ELSE PageRankPairs(r, Chunk(r)[i])]
          = [i \in DOMAIN Chunk(r) |-> piece[Chunk(r)[i]]]
    <3> HIDE DEF piece
    <3>1. job # "factor"
      OBVIOUS
    <3> QED
      BY <2>2, <3>1, Zenon
  <2> QED
    BY <2>3 DEF Mapped
<1> HIDE DEF g, piece
<1>4. all \in Seq(Priced(V)) /\ Weight(all, v, counted) = PartSum(g, r + 1)
  <2> HIDE DEF all
  <2>1. all = ChunkPieces(r, piece)
    BY DEF all, ChunkPieces
  <2>2. PieceWeights(piece, g, v, counted)
    BY <1>2 DEF PieceWeights
  <2> QED
    BY <2>1, <2>2, WeightPieces
<1> HIDE DEF all
<1> QED
  BY <1>0, <1>2, <1>3, <1>4 DEF g

LEMMA WeightMappedFactor ==
  ASSUME InputInv, job = "factor", NEW r \in Ranks, pageRanks[r] \in [V -> Fraction], NEW counted
  PROVE  /\ Mapped(r) \in Seq(Priced(V)) /\ FactorShares(r, counted) \in [V -> Fraction]
         /\ Weight(Mapped(r), COMMON, counted) = PartSum(FactorShares(r, counted), r + 1)
         /\ KeysIn(Mapped(r)) \subseteq {COMMON}
<1> DEFINE g == FactorShares(r, counted)
           piece == [u \in V |-> FactorPairs(r, u)]
           all == FlattenSeq([i \in DOMAIN Chunk(r) |-> piece[Chunk(r)[i]]])
<1>1. hyperlink \in [V -> Fraction] /\ COMMON \in V
  BY InputFacts, HyperLinks DEF InputInv, IsGraphOn
<1>2. ASSUME NEW u \in V
      PROVE  /\ FactorPairs(r, u) \in Seq(Priced(V)) /\ FactorPairs(r, u) \in Seq(Priced({COMMON}))
             /\ FactorValue(hyperlink[u], pageRanks[r][u]) \in Fraction
             /\ Weight(FactorPairs(r, u), COMMON, counted) =
                  IF counted THEN One ELSE FactorValue(hyperlink[u], pageRanks[r][u])
  <2> DEFINE x == FactorValue(hyperlink[u], pageRanks[r][u])
  <2>1. x \in Fraction
    <3>1. pageRanks[r][u] \in Fraction
      OBVIOUS
    <3> QED
      BY <3>1, FactorFraction
  <2>2. pageRanks[r][u] # NaN
    BY NaNAssumption, FractionIsValue
  <2>3. FactorPairs(r, u) = <<Pair(COMMON, x)>>
    BY <2>2 DEF FactorPairs
  <2> HIDE DEF x
  <2>4. /\ <<Pair(COMMON, x)>> \in Seq(Priced(V))
        /\ Weight(<<Pair(COMMON, x)>>, COMMON, counted) = IF counted THEN One ELSE x
    BY <1>1, <2>1, WeightSingle
  <2>5. Pair(COMMON, x) \in Priced({COMMON})
    BY <2>1 DEF Pair, Priced
  <2>6. <<Pair(COMMON, x)>> \in Seq(Priced({COMMON}))
    BY <2>5
  <2> QED
    BY <2>1, <2>3, <2>4, <2>6 DEF x
<1>3. One \in Fraction
  BY UnitFractions DEF One
<1>4. g \in [V -> Fraction] /\ piece \in [V -> Seq(Priced(V))]
      /\ \A u \in V : Weight(piece[u], COMMON, counted) = g[u]
  BY <1>2, <1>3 DEF FactorShares
<1>5. DOMAIN Chunk(r) = 1 .. Len(Chunk(r)) /\ Len(Chunk(r)) \in Nat
      /\ \A i \in DOMAIN Chunk(r) : Chunk(r)[i] \in V
  <2>1. Chunk(r) \in Seq(V)
    BY InputFacts, ChunkLists
  <2> DEFINE c == Chunk(r)
  <2> HIDE DEF c
  <2>2. DOMAIN c = 1 .. Len(c) /\ Len(c) \in Nat /\ c \in Seq(V)
    BY <2>1 DEF c
  <2>3. \A i \in DOMAIN c : c[i] \in V
    BY <2>2, ElementOfSeq
  <2> QED
    BY <2>2, <2>3 DEF c
<1>6. Mapped(r) = all
  <2>1. \A i \in DOMAIN Chunk(r) : piece[Chunk(r)[i]] = FactorPairs(r, Chunk(r)[i])
    BY <1>5
  <2>2. [i \in DOMAIN Chunk(r) |->
           IF job = "factor" THEN FactorPairs(r, Chunk(r)[i]) ELSE PageRankPairs(r, Chunk(r)[i])]
          = [i \in DOMAIN Chunk(r) |-> piece[Chunk(r)[i]]]
    <3> HIDE DEF piece
    <3> QED
      BY <2>1, Zenon
  <2> QED
    BY <2>2 DEF Mapped
<1>7. KeysIn(all) \subseteq {COMMON}
  <2> DEFINE c == Chunk(r)
             pieces == [i \in DOMAIN c |-> piece[c[i]]]
  <2>1. DOMAIN c = 1 .. Len(c) /\ Len(c) \in Nat
        /\ \A i \in DOMAIN c : piece[c[i]] \in Seq(Priced({COMMON}))
    BY <1>2, <1>5
  <2> HIDE DEF c, piece
  <2>2. pieces \in Seq(Seq(Priced({COMMON})))
    <3> DEFINE X == Seq(Priced({COMMON}))
               m == Len(c)
    <3>1. m \in Nat /\ pieces \in [1 .. m -> X]
      BY <2>1
    <3> HIDE DEF pieces, X, m
    <3>2. pieces \in Seq(X)
      BY <3>1
    <3> QED
      BY <3>2 DEF X
  <2>3. all = FlattenSeq(pieces)
    BY DEF c
  <2> HIDE DEF pieces, all
  <2>4. FlattenSeq(pieces) \in Seq(Priced({COMMON}))
    BY <2>2, FlattenLists
  <2>5. KeysIn(FlattenSeq(pieces)) \subseteq {COMMON}
    BY <2>4, GroupedLists DEF Priced
  <2> QED
    BY <2>3, <2>5
<1> HIDE DEF g, piece
<1>8. all \in Seq(Priced(V)) /\ Weight(all, COMMON, counted) = PartSum(g, r + 1)
  <2> HIDE DEF all
  <2>1. all = ChunkPieces(r, piece)
    BY DEF all, ChunkPieces
  <2>2. PieceWeights(piece, g, COMMON, counted)
    BY <1>4 DEF PieceWeights
  <2> QED
    BY <2>1, <2>2, WeightPieces
<1> HIDE DEF all
<1> QED
  BY <1>4, <1>6, <1>7, <1>8 DEF g

(* the sums of an iteration, over all vertices *)
LEMMA PageSum ==
  ASSUME InputInv, NEW r \in Ranks, NEW v \in V, pageRanks[r] \in [V -> Fraction],
         factor[r] \in Fraction
  PROVE  Accumulate(PageShares(r, v)) =
           plus(factor[r], LoopSum(V, graph.toList, hyperlink, pageRanks[r], v))
<1> DEFINE x(u) == times(hyperlink[u], pageRanks[r][u])
           f == [u \in V |-> IF u = v THEN factor[r] ELSE Zero]
           g == [u \in V |-> Multiple(graph.toList[u][v], x(u))]
           h == PageShares(r, v)
<1>1. \A u \in V : x(u) \in Fraction /\ graph.toList[u][v] \in Nat /\ IsFiniteSet(V)
  <2>1. hyperlink \in [V -> Fraction]
    BY InputFacts, HyperLinks DEF InputInv, IsGraphOn
  <2> SUFFICES ASSUME NEW u \in V
               PROVE  x(u) \in Fraction /\ graph.toList[u][v] \in Nat /\ IsFiniteSet(V)
    OBVIOUS
  <2>2. hyperlink[u] \in Fraction /\ pageRanks[r][u] \in Fraction
    BY <2>1
  <2> QED
    BY <2>2, TimesCommutes, InputFacts
<1>2. h = [u \in V |-> plus(f[u], g[u])]
  BY DEF PageShares, Share
<1>3. ASSUME NEW u \in V PROVE Multiple(graph.toList[u][v], x(u)) \in Fraction
  <2> DEFINE n == graph.toList[u][v]
             y == x(u)
  <2>1. n \in Nat /\ y \in Fraction
    BY <1>1
  <2> HIDE DEF n, y
  <2>2. Reduces(y, y[1], y[2]) /\ y[1] \in Nat /\ y[2] \in Nat
    BY <2>1, ReducesSelf, FractionIsValue
  <2>3. Multiple(n, y) \in Fraction
    BY <2>1, <2>2, MultipleReduces
  <2> QED
    BY <2>3 DEF n, y
<1>4. f \in [V -> Fraction] /\ g \in [V -> Fraction]
  BY <1>3, UnitFractions
<1>5. \A u \in V : plus(f[u], g[u]) \in Fraction
  <2> HIDE DEF f, g
  <2> SUFFICES ASSUME NEW u \in V PROVE plus(f[u], g[u]) \in Fraction
    OBVIOUS
  <2>1. f[u] \in Fraction /\ g[u] \in Fraction
    BY <1>4
  <2> QED
    BY <2>1, PlusLaws
<1>6. Accumulate(g) = LoopSum(V, graph.toList, hyperlink, pageRanks[r], v)
  BY DEF LoopSum
<1>7. \A u \in V : u # v => f[u] = Zero
  OBVIOUS
<1>8. f[v] = factor[r]
  OBVIOUS
<1> HIDE DEF f, g, h
<1>9. Accumulate(f) = f[v]
  BY <1>1, <1>4, <1>7, SingleTerm
<1>10. Adds(V, f, g, h)
  BY <1>1, <1>2, <1>4, <1>5 DEF Adds
<1>11. Accumulate(h) = plus(Accumulate(f), Accumulate(g))
  BY <1>10, AddedSums
<1> QED
  BY <1>6, <1>8, <1>9, <1>11 DEF h

LEMMA FactorSum ==
  ASSUME InputInv, NEW r \in Ranks, pageRanks[r] \in [V -> Fraction]
  PROVE  /\ times(<<1, N>>, Accumulate(FactorShares(r, FALSE)))
              = LoopFactor(V, N, hyperlink, pageRanks[r])
         /\ Accumulate(FactorShares(r, TRUE)) = <<N, 1>>
<1> DEFINE f == [u \in V |-> FactorValue(hyperlink[u], pageRanks[r][u])]
<1>1. N \in Nat \ {0} /\ V = 0 .. N - 1 /\ IsFiniteSet(V)
  BY InputFacts
<1>2. FactorShares(r, FALSE) = f /\ FactorShares(r, TRUE) = [v \in 0 .. N - 1 |-> One]
  BY <1>1 DEF FactorShares
<1>3. LoopFactor(V, N, hyperlink, pageRanks[r]) = times(Accumulate(f), <<1, N>>)
  BY DEF LoopFactor
<1>4. f \in [V -> Fraction]
  <2> SUFFICES ASSUME NEW u \in V PROVE FactorValue(hyperlink[u], pageRanks[r][u]) \in Fraction
    OBVIOUS
  <2>1. pageRanks[r][u] \in Fraction
    OBVIOUS
  <2> QED
    BY <2>1, FactorFraction
<1> HIDE DEF f
<1>5. Accumulate(f) \in Fraction /\ <<1, N>> \in Fraction
  <2>1. f \in [V -> Value]
    BY <1>4, FractionIsValue
  <2> QED
    BY <1>1, <2>1, AccumulateFraction, UnitFractions
<1>6. times(<<1, N>>, Accumulate(f)) = times(Accumulate(f), <<1, N>>)
  <2> DEFINE a == <<1, N>>
             b == Accumulate(f)
  <2>1. a \in Fraction /\ b \in Fraction
    BY <1>5
  <2> HIDE DEF a, b
  <2>2. times(a, b) = times(b, a)
    BY <2>1, TimesCommutes
  <2> QED
    BY <2>2 DEF a, b
<1>7. Accumulate([v \in 0 .. N - 1 |-> One]) = <<N, 1>>
  BY <1>1, Ones
<1> QED
  BY <1>2, <1>3, <1>6, <1>7

(* one round of the loop, on the column of a process *)
NextFactor(r) == LoopFactor(V, N, hyperlink, pageRanks[r])
NextColumn(r) == [v \in V |-> GoogleRank(V, N, graph.toList, pageRanks[r], v)]

LEMMA NextRanks ==
  ASSUME InputInv, NEW r \in Ranks, pageRanks[r] \in [V -> Fraction]
  PROVE  /\ NextFactor(r) \in Fraction /\ NextColumn(r) \in [V -> Fraction]
         /\ \A v \in V : times(ALPHA, plus(NextFactor(r),
                LoopSum(V, graph.toList, hyperlink, pageRanks[r], v))) = NextColumn(r)[v]
<1> DEFINE list == graph.toList
           h == hyperlink
           col == pageRanks[r]
           n == N
<1>1. /\ n \in Nat \ {0} /\ IsFiniteSet(V) /\ list \in [V -> [V -> Nat]]
      /\ h = calculateHyperLinkColumn(list) /\ col \in [V -> Fraction]
  BY InputFacts DEF InputInv, IsGraphOn
<1>2. 0 \in V
  BY InputFacts DEF COMMON
<1> HIDE DEF list, h, col, n
<1>3. ASSUME NEW v \in V
      PROVE  /\ LoopRank(V, n, list, h, col, v) = GoogleRank(V, n, list, col, v)
             /\ LoopFactor(V, n, h, col) \in Fraction
             /\ GoogleRank(V, n, list, col, v) \in Fraction
  <2>1. IsRound(V, n, list, h, col)
    BY <1>1 DEF IsRound
  <2> QED
    BY <2>1, RoundIsGoogle
<1>4. NextFactor(r) = LoopFactor(V, n, h, col)
      /\ NextColumn(r) = [v \in V |-> GoogleRank(V, n, list, col, v)]
  BY DEF NextFactor, NextColumn, n, h, list, col
<1>5. NextFactor(r) \in Fraction /\ NextColumn(r) \in [V -> Fraction]
  BY <1>2, <1>3, <1>4
<1>6. ASSUME NEW v \in V
      PROVE  times(ALPHA, plus(NextFactor(r), LoopSum(V, list, h, col, v))) = NextColumn(r)[v]
  BY <1>3, <1>4 DEF LoopRank
<1> QED
  BY <1>5, <1>6 DEF list, h, col

(* What the processes hold during a map-reduce, said of the values: the lists *)
(* of values from which reduce makes one round of the loop, and its results.  *)
FactorGroups(map, x) ==
  /\ DOMAIN map \subseteq {COMMON}
  /\ \A key \in DOMAIN map :
       /\ map[key] \in Seq(Fraction) /\ Len(map[key]) \in Nat \ {0}
       /\ times(<<1, Len(map[key])>>, Accumulate(map[key])) = x
PageGroups(map, col) ==
  \A v \in DOMAIN map :
    map[v] \in Seq(Fraction) /\ times(ALPHA, Accumulate(map[v])) = col[v]
AllAre(pairs, x)    == \A i \in DOMAIN pairs : pairs[i].value = x
AllFrom(pairs, col) == \A i \in DOMAIN pairs : pairs[i].value = col[pairs[i].key]

(* collate: the lists of the owner, whatever the chunks and the hash *)
LEMMA CollatedSum ==
  ASSUME InputInv, NEW r \in Ranks, NEW held \in [Ranks -> Seq(Priced(V))], kv = held,
         NEW key \in V, key \in KeysIn(Received(r)), Owner[key] = r, NEW counted,
         NEW g \in [V -> Fraction],
         \A s \in Ranks : Weight(held[s], key, counted) = PartSum(g, s + 1)
  PROVE  Weight(Received(r), key, counted) = Accumulate(g)
<1> DEFINE terms == [s \in 1 .. Size |-> Weight(held[s - 1], key, counted)]
           part == [s \in 1 .. Size |-> PartSum(g, s)]
<1>1. Weight(Received(r), key, counted) = Accumulate(terms)
  BY WeightReceived
<1>2. terms = part
  <2>1. \A s \in 1 .. Size : s - 1 \in Ranks /\ (s - 1) + 1 = s
    BY SizeAssumption DEF Ranks
  <2>2. \A s \in 1 .. Size : Weight(held[s - 1], key, counted) = PartSum(g, s)
    <3> SUFFICES ASSUME NEW s \in 1 .. Size
                 PROVE  Weight(held[s - 1], key, counted) = PartSum(g, s)
      OBVIOUS
    <3> DEFINE q == s - 1
    <3>1. q \in Ranks /\ q + 1 = s
      BY <2>1
    <3> HIDE DEF q
    <3>2. Weight(held[q], key, counted) = PartSum(g, q + 1)
      BY <3>1
    <3> QED
      BY <3>1, <3>2 DEF q
  <2> QED
    BY <2>2, Zenon
<1>3. part = [s \in 1 .. Size |-> PartSum(g, s)]
  OBVIOUS
<1> HIDE DEF terms, part
<1>4. Accumulate(part) = Accumulate(g)
  BY <1>3, ChunkSums
<1> QED
  BY <1>1, <1>2, <1>4

LEMMA PageCollated ==
  ASSUME InputInv, KvType, job = "page", NEW r \in Ranks, pageRanks[r] \in [V -> Fraction],
         \A s \in Ranks : /\ kv[s] = Mapped(s) /\ factor[s] = NextFactor(s)
                          /\ pageRanks[s] = pageRanks[r]
  PROVE  PageGroups(Grouped(Received(r)), NextColumn(r))
<1> DEFINE pairs == Received(r)
           map == Grouped(pairs)
           held == kv
<1>0. PICK counted : counted = FALSE
  OBVIOUS
<1>1. \A s \in Ranks : /\ pageRanks[s] \in [V -> Fraction] /\ factor[s] \in Fraction
                       /\ factor[s] = NextFactor(r)
  <2>1. NextFactor(r) \in Fraction
    BY NextRanks
  <2>2. \A s \in Ranks : NextFactor(s) = NextFactor(r)
    BY DEF NextFactor
  <2> QED
    BY <2>1, <2>2
<1>2. \A s \in Ranks : kv[s] \in Seq(Priced(V))
  <2> SUFFICES ASSUME NEW s \in Ranks PROVE kv[s] \in Seq(Priced(V))
    OBVIOUS
  <2>1. 0 \in V
    BY InputFacts DEF COMMON
  <2>2. Mapped(s) \in Seq(Priced(V))
    BY <1>1, <2>1, WeightMappedPage
  <2> QED
    BY <2>2
<1>3. held \in [Ranks -> Seq(Priced(V))]
  BY <1>2 DEF KvType
<1>4. pairs \in Seq(PairType)
      /\ KeysIn(pairs) = {k \in UNION {KeysIn(kv[s]) : s \in Ranks} : Owner[k] = r}
  BY ReceivedLists DEF KvType
<1>5. DOMAIN map = KeysIn(pairs)
  BY DEF Grouped
<1>6. KeysIn(pairs) \subseteq V
  <2> HIDE DEF pairs
  <2> QED
    BY <1>4, GroupedLists DEF PairType
<1>7. ASSUME NEW v \in DOMAIN map
      PROVE  map[v] \in Seq(Fraction) /\ times(ALPHA, Accumulate(map[v])) = NextColumn(r)[v]
  <2>1. v \in V /\ v \in KeysIn(pairs) /\ Owner[v] = r
    BY <1>4, <1>5, <1>6
  <2> DEFINE g == PageShares(r, v)
  <2>2. g \in [V -> Fraction]
    BY <1>1, <2>1, WeightMappedPage
  <2>3. \A s \in Ranks : Weight(held[s], v, counted) = PartSum(g, s + 1)
    <3> SUFFICES ASSUME NEW s \in Ranks PROVE Weight(kv[s], v, counted) = PartSum(g, s + 1)
      OBVIOUS
    <3>1. Weight(Mapped(s), v, FALSE) = PartSum(PageShares(s, v), s + 1)
      BY <1>1, <2>1, WeightMappedPage
    <3>2. PageShares(s, v) = g
      BY <1>1 DEF PageShares
    <3> QED
      BY <1>0, <3>1, <3>2
  <2>4. kv = held
    OBVIOUS
  <2> HIDE DEF g, held
  <2>5. Weight(pairs, v, counted) = Accumulate(g)
    BY <1>3, <2>1, <2>2, <2>3, <2>4, CollatedSum, ZenonT(60)
  <2>6. pairs \in Seq(Priced(V))
    BY <1>3, <2>1, <2>4, WeightReceived
  <2> HIDE DEF pairs
  <2>7. /\ map[v] \in Seq(Fraction)
        /\ Accumulate(map[v]) = Weight(pairs, v, FALSE)
    BY <2>1, <2>6, WeightGrouped
  <2>8. Accumulate(g) = plus(factor[r], LoopSum(V, graph.toList, hyperlink, pageRanks[r], v))
    BY <1>1, <2>1, PageSum DEF g
  <2>9. times(ALPHA, plus(NextFactor(r), LoopSum(V, graph.toList, hyperlink, pageRanks[r], v)))
          = NextColumn(r)[v]
    BY <2>1, NextRanks
  <2> QED
    BY <1>0, <1>1, <2>5, <2>7, <2>8, <2>9
<1> QED
  BY <1>7 DEF PageGroups

LEMMA FactorCollated ==
  ASSUME InputInv, KvType, job = "factor", NEW r \in Ranks, pageRanks[r] \in [V -> Fraction],
         \A s \in Ranks : kv[s] = Mapped(s) /\ pageRanks[s] = pageRanks[r]
  PROVE  FactorGroups(Grouped(Received(r)), NextFactor(r))
<1> DEFINE pairs == Received(r)
           map == Grouped(pairs)
           held == kv
<1>1. COMMON \in V
  BY InputFacts
<1>2. \A counted : \A s \in Ranks :
        /\ kv[s] \in Seq(Priced(V)) /\ KeysIn(kv[s]) \subseteq {COMMON}
        /\ FactorShares(s, counted) \in [V -> Fraction]
        /\ Weight(kv[s], COMMON, counted) = PartSum(FactorShares(s, counted), s + 1)
  <2> TAKE counted
  <2> TAKE s \in Ranks
  <2>1. pageRanks[s] \in [V -> Fraction]
    OBVIOUS
  <2> QED
    BY <2>1, WeightMappedFactor
<1>3. held \in [Ranks -> Seq(Priced(V))]
  BY <1>2 DEF KvType
<1>4. pairs \in Seq(PairType)
      /\ KeysIn(pairs) = {k \in UNION {KeysIn(kv[s]) : s \in Ranks} : Owner[k] = r}
  BY ReceivedLists DEF KvType
<1>5. DOMAIN map = KeysIn(pairs) /\ KeysIn(pairs) \subseteq {COMMON}
  <2>1. DOMAIN map = KeysIn(pairs)
    BY DEF Grouped
  <2>2. PICK counted : counted = FALSE
    OBVIOUS
  <2>3. \A s \in Ranks : KeysIn(kv[s]) \subseteq {COMMON}
    BY <1>2
  <2> HIDE DEF pairs
  <2>4. KeysIn(pairs) \subseteq {COMMON}
    BY <1>4, <2>3
  <2> QED
    BY <2>1, <2>4
<1>6. ASSUME NEW key \in DOMAIN map
      PROVE  /\ map[key] \in Seq(Fraction) /\ Len(map[key]) \in Nat \ {0}
             /\ times(<<1, Len(map[key])>>, Accumulate(map[key])) = NextFactor(r)
  <2>1. key = COMMON /\ key \in V /\ key \in KeysIn(pairs) /\ Owner[key] = r
    BY <1>1, <1>4, <1>5
  <2>2. \A counted : FactorShares(r, counted) \in [V -> Fraction]
    BY <1>2
  <2>3. \A counted : \A s \in Ranks :
          Weight(held[s], key, counted) = PartSum(FactorShares(r, counted), s + 1)
    <3> TAKE counted
    <3> TAKE s \in Ranks
    <3>1. Weight(kv[s], COMMON, counted) = PartSum(FactorShares(s, counted), s + 1)
      BY <1>2
    <3>2. FactorShares(s, counted) = FactorShares(r, counted)
      BY DEF FactorShares
    <3> QED
      BY <2>1, <3>1, <3>2
  <2>4. kv = held
    OBVIOUS
  <2> HIDE DEF held
  <2>5. \A counted : Weight(pairs, key, counted) = Accumulate(FactorShares(r, counted))
    <3> TAKE counted
    <3> DEFINE g == FactorShares(r, counted)
    <3>1. g \in [V -> Fraction]
          /\ \A s \in Ranks : Weight(held[s], key, counted) = PartSum(g, s + 1)
      BY <2>2, <2>3
    <3> HIDE DEF g
    <3>2. Weight(pairs, key, counted) = Accumulate(g)
      BY <1>3, <2>1, <2>4, <3>1, CollatedSum
    <3> QED
      BY <3>2 DEF g
  <2>6. pairs \in Seq(Priced(V))
    BY <1>3, <2>1, <2>4, WeightReceived
  <2> HIDE DEF pairs
  <2>7. /\ map[key] \in Seq(Fraction) /\ Len(map[key]) \in Nat \ {0}
        /\ Accumulate(map[key]) = Weight(pairs, key, FALSE)
        /\ <<Len(map[key]), 1>> = Weight(pairs, key, TRUE)
    BY <2>1, <2>6, WeightGrouped
  <2>8. /\ times(<<1, N>>, Accumulate(FactorShares(r, FALSE))) = NextFactor(r)
        /\ Accumulate(FactorShares(r, TRUE)) = <<N, 1>>
    BY FactorSum DEF NextFactor
  <2>9. Weight(pairs, key, FALSE) = Accumulate(FactorShares(r, FALSE))
        /\ Weight(pairs, key, TRUE) = Accumulate(FactorShares(r, TRUE))
    BY <2>5
  <2>10. Len(map[key]) = N
    <3> DEFINE l == Len(map[key])
    <3>1. <<l, 1>> = <<N, 1>>
      BY <2>7, <2>8, <2>9
    <3> HIDE DEF l
    <3>2. <<l, 1>>[1] = <<N, 1>>[1]
      BY <3>1
    <3> QED
      BY <3>2 DEF l
  <2> QED
    BY <2>7, <2>8, <2>9, <2>10
<1> QED
  BY <1>5, <1>6 DEF FactorGroups

--------------------------------------------------------------------------------
(* The refinement of PowerIteration.  What the processes hold after each call *)
(* of the two map-reduces, as numbers; a reduce callback sees all values of a *)
(* key only while they fit in a page.                                         *)

PagesFit == \A r \in Ranks : \A key \in DOMAIN kmv[r] : Len(kmv[r][key]) <= MaxValues

(* a column of numbers; the norm was reset unless an iteration has just ended *)
Real(r) ==
  /\ pageRanks[r] \in [V -> Fraction] /\ norm[r] \in Fraction
  /\ pc[r] \in {"sort", "test"} \cup Returned => job = "page"
  /\ norm[r] = Zero \/ pc[r] \in Returned \/ (job = "page" /\ pc[r] \in {"taken", "test"})

FactorFlow(r) ==
  /\ pc[r] = "collate" => kv[r] = Mapped(r)
  /\ pc[r] = "reduce" =>
       FactorGroups(kmv[r], NextFactor(r)) /\ (Owner[COMMON] = r => COMMON \in DOMAIN kmv[r])
  /\ pc[r] \in {"gather", "broadcast", "take"} => AllAre(kv[r], NextFactor(r))
  /\ pc[r] = "gather" /\ Owner[COMMON] = r => kv[r] # <<>>
  /\ (pc[r] = "broadcast" /\ r = 0) \/ pc[r] = "take" => kv[r] # <<>>
  /\ pc[r] = "taken" => factor[r] = NextFactor(r)

PageFlow(r) ==
  /\ pc[r] \in {"map", "collate"} => factor[r] = NextFactor(r)
  /\ pc[r] = "collate" => kv[r] = Mapped(r)
  /\ pc[r] = "reduce" => PageGroups(kmv[r], NextColumn(r))
  /\ pc[r] \in {"gather", "sort", "broadcast", "take"} => AllFrom(kv[r], NextColumn(r))

Flow(r) == Real(r) /\ (job = "factor" => FactorFlow(r)) /\ (job = "page" => PageFlow(r))

FlowInv == \A r \in Ranks : Flow(r)

(* the pairs that reduce leaves of lists of numbers *)
LEMMA ReducedPairs ==
  ASSUME InputInv, NEW map, DOMAIN map \subseteq V
  PROVE  \A i \in DOMAIN Reduced(map) :
           /\ Reduced(map)[i].key \in DOMAIN map
           /\ Reduced(map)[i].value =
                IF job = "factor" THEN ReducedFactor(map[Reduced(map)[i].key])
                ELSE ReducedPageRank(map[Reduced(map)[i].key])
<1> DEFINE D == DOMAIN map
           keys == Keys(map)
           x(i) == IF job = "factor" THEN ReducedFactor(map[keys[i]])
                   ELSE ReducedPageRank(map[keys[i]])
<1>1. D \subseteq Nat /\ IsFiniteSet(D)
  <2>1. V \subseteq Nat /\ IsFiniteSet(V)
    BY InputFacts
  <2> QED
    BY <2>1, FS_Subset
<1>2. keys = Ascending(D)
  BY DEF Keys
<1>3. Reduced(map) = [i \in DOMAIN keys |-> Pair(keys[i], x(i))]
  BY Zenon DEF Reduced
<1> HIDE DEF keys, D
<1>4. \A i \in DOMAIN keys : keys[i] \in D
  <2> DEFINE n == Cardinality(D)
  <2>1. keys \in [1 .. n -> D]
    BY <1>1, <1>2, AscendingLists
  <2> HIDE DEF n
  <2> QED
    BY <2>1
<1> HIDE DEF x
<1>5. \A i \in DOMAIN keys : Reduced(map)[i].key = keys[i] /\ Reduced(map)[i].value = x(i)
  BY <1>3 DEF Pair
<1>6. DOMAIN Reduced(map) = DOMAIN keys
  BY <1>3
<1> QED
  <2> SUFFICES ASSUME NEW i \in DOMAIN keys
               PROVE  /\ Reduced(map)[i].key \in D
                      /\ Reduced(map)[i].value =
                           IF job = "factor" THEN ReducedFactor(map[Reduced(map)[i].key])
                           ELSE ReducedPageRank(map[Reduced(map)[i].key])
    BY <1>6 DEF D
  <2>1. Reduced(map)[i].key = keys[i] /\ Reduced(map)[i].value = x(i) /\ keys[i] \in D
    BY <1>4, <1>5
  <2> QED
    BY <2>1 DEF x

(* a sum of numbers is a number *)
LEMMA SumOfFractions ==
  ASSUME NEW values \in Seq(Fraction)
  PROVE  /\ Sum(values) = Accumulate(values) /\ Accumulate(values) \in Fraction
         /\ \A a : Scaled(a, Sum(values)) = times(a, Accumulate(values))
<1>1. NaN \notin Fraction
  BY NaNAssumption, FractionIsValue
<1>2. Len(values) \in Nat /\ DOMAIN values = 1 .. Len(values)
      /\ values \in [1 .. Len(values) -> Fraction]
  BY ElementOfSeq
<1>3. \A i \in DOMAIN values : values[i] # NaN
  BY <1>1, <1>2
<1>4. Sum(values) = Accumulate(values)
  BY <1>3 DEF Sum
<1>5. Accumulate(values) \in Fraction
  <2> DEFINE S == 1 .. Len(values)
  <2>1. IsFiniteSet(S) /\ values \in [S -> Fraction]
    BY <1>2, FS_Interval
  <2> HIDE DEF S
  <2>2. values \in [S -> Value]
    BY <2>1, FractionIsValue
  <2> QED
    BY <2>1, <2>2, AccumulateFraction
<1> QED
  BY <1>1, <1>4, <1>5 DEF Scaled

(* reduce, when all values of each key fit in a page *)
LEMMA FactorReduced ==
  ASSUME InputInv, job = "factor", NEW map, NEW x, FactorGroups(map, x),
         \A key \in DOMAIN map : Len(map[key]) <= MaxValues
  PROVE  AllAre(Reduced(map), x)
<1>1. DOMAIN map \subseteq V
  BY InputFacts DEF FactorGroups
<1>2. ASSUME NEW key \in DOMAIN map PROVE ReducedFactor(map[key]) = x
  <2> DEFINE values == map[key]
  <2>1. /\ values \in Seq(Fraction) /\ Len(values) \in Nat \ {0} /\ Len(values) <= MaxValues
        /\ times(<<1, Len(values)>>, Accumulate(values)) = x
    BY DEF FactorGroups
  <2> HIDE DEF values
  <2>2. Seen(values) = values
    BY <2>1, SizeAssumption DEF Seen
  <2>3. values # <<>>
    BY <2>1
  <2>4. ReducedFactor(values) = Scaled(<<1, Len(values)>>, Sum(values))
    BY <2>2, <2>3 DEF ReducedFactor, Average
  <2>5. \A a : Scaled(a, Sum(values)) = times(a, Accumulate(values))
    BY <2>1, SumOfFractions
  <2> QED
    BY <2>1, <2>4, <2>5 DEF values
<1>3. \A i \in DOMAIN Reduced(map) :
        /\ Reduced(map)[i].key \in DOMAIN map
        /\ Reduced(map)[i].value = ReducedFactor(map[Reduced(map)[i].key])
  BY <1>1, ReducedPairs
<1> QED
  BY <1>2, <1>3 DEF AllAre

LEMMA PageReduced ==
  ASSUME InputInv, job = "page", NEW map, DOMAIN map \subseteq V, NEW col, PageGroups(map, col),
         \A key \in DOMAIN map : Len(map[key]) <= MaxValues
  PROVE  AllFrom(Reduced(map), col)
<1>1. ASSUME NEW key \in DOMAIN map PROVE ReducedPageRank(map[key]) = col[key]
  <2> DEFINE values == map[key]
  <2>1. /\ values \in Seq(Fraction) /\ Len(values) <= MaxValues
        /\ times(ALPHA, Accumulate(values)) = col[key]
    BY DEF PageGroups
  <2> HIDE DEF values
  <2>2. Seen(values) = values
    BY <2>1, SizeAssumption DEF Seen
  <2>3. \A a : Scaled(a, Sum(values)) = times(a, Accumulate(values))
    BY <2>1, SumOfFractions
  <2> QED
    BY <2>1, <2>2, <2>3 DEF ReducedPageRank, values
<1>2. \A i \in DOMAIN Reduced(map) :
        /\ Reduced(map)[i].key \in DOMAIN map
        /\ Reduced(map)[i].value = ReducedPageRank(map[Reduced(map)[i].key])
  BY ReducedPairs
<1> QED
  BY <1>1, <1>2 DEF AllFrom

(* gather, sort_keys and broadcast move pairs, and change none *)
LEMMA ElementsAll ==
  /\ \A pairs, x : AllAre(pairs, x) <=> \A pair \in Elements(pairs) : pair.value = x
  /\ \A pairs, col : AllFrom(pairs, col) <=> \A pair \in Elements(pairs) : pair.value = col[pair.key]
BY DEF AllAre, AllFrom, Elements

LEMMA AssembledElements ==
  ASSUME KvType
  PROVE  Elements(Assembled) = UNION {Elements(kv[s]) : s \in Ranks}
<1> DEFINE seqs == [s \in 1 .. Size |-> kv[s - 1]]
<1>1. Size \in Nat /\ Ranks = 0 .. Size - 1
  BY SizeAssumption DEF Ranks
<1>2. \A s \in 1 .. Size : s - 1 \in Ranks
  BY <1>1
<1>3. seqs \in Seq(Seq(PairType))
  <2>1. \A s \in 1 .. Size : kv[s - 1] \in Seq(PairType)
    BY <1>2 DEF KvType
  <2>2. seqs \in [1 .. Size -> Seq(PairType)]
    BY <2>1
  <2> HIDE DEF seqs
  <2> QED
    BY <1>1, <2>2
<1>4. DOMAIN seqs = 1 .. Size /\ \A s \in 1 .. Size : seqs[s] = kv[s - 1]
  OBVIOUS
<1> HIDE DEF seqs
<1>5. Elements(FlattenSeq(seqs)) = UNION {Elements(seqs[i]) : i \in DOMAIN seqs}
  BY <1>3, FlattenLists
<1>6. UNION {Elements(seqs[i]) : i \in DOMAIN seqs} = UNION {Elements(kv[s]) : s \in Ranks}
  <2>1. \A s \in Ranks : s + 1 \in 1 .. Size /\ (s + 1) - 1 = s
    BY <1>1
  <2>2. ASSUME NEW i \in 1 .. Size PROVE \E s \in Ranks : seqs[i] = kv[s]
    BY <1>2, <1>4
  <2>3. ASSUME NEW s \in Ranks PROVE \E i \in 1 .. Size : seqs[i] = kv[s]
    <3>1. seqs[s + 1] = kv[(s + 1) - 1]
      BY <1>4, <2>1
    <3> QED
      BY <2>1, <3>1
  <2> QED
    BY <1>4, <2>2, <2>3
<1> QED
  BY <1>5, <1>6 DEF Assembled, seqs

(* What is expected of a process depends on its column and its factor alone. *)
LEMMA NextSame ==
  ASSUME InputInv, [Next]_vars, NEW r \in Ranks, pageRanks'[r] = pageRanks[r]
  PROVE  NextFactor(r)' = NextFactor(r) /\ NextColumn(r)' = NextColumn(r)
<1>1. V' = V /\ N' = N /\ graph' = graph /\ hyperlink' = hyperlink
  <2>1. graph' = graph /\ hyperlink' = hyperlink
    BY DEF Next, Local, Collective, Terminated, Barrier, Map, Collate, Reduce, Gather, SortKeys,
           Broadcast, TakeFactor, TakePageRanks, EndTake, Test, OpenFile, PrintLine, CloseFile,
           input, vars
  <2> QED
    BY <2>1, InputNext
<1> QED
  BY <1>1 DEF NextFactor, NextColumn

LEMMA MappedSame ==
  ASSUME InputInv, [Next]_vars, NEW r \in Ranks, pageRanks'[r] = pageRanks[r],
         factor'[r] = factor[r], job' = job
  PROVE  Mapped(r)' = Mapped(r)
<1>1. V' = V /\ N' = N /\ graph' = graph /\ hyperlink' = hyperlink
  <2>1. graph' = graph /\ hyperlink' = hyperlink
    BY DEF Next, Local, Collective, Terminated, Barrier, Map, Collate, Reduce, Gather, SortKeys,
           Broadcast, TakeFactor, TakePageRanks, EndTake, Test, OpenFile, PrintLine, CloseFile,
           input, vars
  <2> QED
    BY <2>1, InputNext
<1>2. \A key : FactorPairs(r, key)' = FactorPairs(r, key)
  BY <1>1 DEF FactorPairs
<1>3. \A key : PageRankPairs(r, key)' = PageRankPairs(r, key)
  BY <1>1, Zenon DEF PageRankPairs
<1>4. Chunk(r)' = Chunk(r)
  BY <1>1 DEF Chunk, Lo
<1> QED
  BY <1>2, <1>3, <1>4, Zenon DEF Mapped

LEMMA FlowSame ==
  ASSUME InputInv, [Next]_vars, NEW r \in Ranks, Flow(r), job' = job, pc'[r] = pc[r],
         kv'[r] = kv[r], kmv'[r] = kmv[r], pageRanks'[r] = pageRanks[r],
         factor'[r] = factor[r], norm'[r] = norm[r]
  PROVE  Flow(r)'
<1>1. V' = V
  BY InputNext
<1>2. NextFactor(r)' = NextFactor(r) /\ NextColumn(r)' = NextColumn(r) /\ Mapped(r)' = Mapped(r)
  BY NextSame, MappedSame
<1>3. Real(r)'
  BY <1>1 DEF Flow, Real
<1>4. FactorFlow(r) => FactorFlow(r)'
  BY <1>2 DEF FactorFlow, FactorGroups, AllAre
<1>5. PageFlow(r) => PageFlow(r)'
  BY <1>2 DEF PageFlow, PageGroups, AllFrom
<1> QED
  BY <1>3, <1>4, <1>5 DEF Flow

(* Taking the pairs of all vertices in order, pair after pair and in place:   *)
(* the column is the new one, and the norm is the distance of the two.        *)
LEMMA GatheredInOrder ==
  ASSUME InputInv, NEW old \in [V -> Fraction], NEW col \in [V -> Fraction],
         NEW pairs \in Seq(PairType), InOrder(pairs), AllFrom(pairs, col),
         NEW calc, calc = [norm |-> Zero, pageRanks |-> old]
  PROVE  Gathered(calc, pairs) = [norm |-> calculateNorm(old, col), pageRanks |-> col]
<1> DEFINE terms == [i \in 1 .. N |-> absDiff(old[i - 1], col[i - 1])]
           Mixed(k) == [v \in V |-> IF v < k THEN col[v] ELSE old[v]]
           Expected(k) == [norm |-> Sums(terms)[1 .. k], pageRanks |-> Mixed(k)]
<1>1. N \in Nat \ {0} /\ V = 0 .. N - 1
  BY InputFacts
<1>2. \A v \in V : absDiff(old[v], col[v]) \in Fraction /\ old[v] # NaN /\ col[v] # NaN
  <2>1. \A v \in V : old[v] \in Value /\ col[v] \in Value
    BY FractionIsValue
  <2> QED
    BY <2>1, AbsDiffFraction, NaNAssumption
<1>3. \A i \in 1 .. N : i - 1 \in V
  BY <1>1
<1>4. terms \in [1 .. N -> Fraction] /\ \A i \in 1 .. N : terms[i] = absDiff(old[i - 1], col[i - 1])
  BY <1>2, <1>3
<1>5. calc \in CalcType
  <2>1. Zero \in Double /\ Fraction \subseteq Double
    BY DoubleOps, FractionIsValue DEF Double
  <2>2. old \in [V -> Double]
    BY <2>1
  <2> QED
    BY <2>1, <2>2 DEF CalcType
<1>6. Len(pairs) = N
  BY DEF InOrder
<1>7. PICK P \in [0 .. N -> CalcType] :
        /\ P[0] = calc
        /\ \A i \in 1 .. N : P[i] = GatherPageRank(P[i - 1], pairs[i])
        /\ Gathered(calc, pairs) = P[N]
  BY <1>5, <1>6, GatheredSteps
<1>8. ASSUME NEW i \in 1 .. N PROVE pairs[i].key = i - 1 /\ pairs[i].value = col[i - 1]
  <2>1. i - 1 \in V /\ (i - 1) + 1 = i
    BY <1>3
  <2>2. pairs[i].key = i - 1
    BY <2>1 DEF InOrder
  <2>3. i \in DOMAIN pairs
    BY <1>1, <1>6
  <2> QED
    BY <2>2, <2>3 DEF AllFrom
<1> HIDE DEF terms
<1>9. /\ Sums(terms)[1 .. 0] = Zero /\ Accumulate(terms) = Sums(terms)[1 .. N]
      /\ \A k \in 0 .. N : Sums(terms)[1 .. k] \in Fraction
      /\ \A k \in 1 .. N : Sums(terms)[1 .. k] = plus(terms[k], Sums(terms)[1 .. k - 1])
  BY <1>1, <1>4, PrefixSums
<1>10. P[0] = Expected(0)
  <2>1. Mixed(0) = old
    <3>1. \A v \in V : ~ v < 0
      BY <1>1
    <3> QED
      BY <3>1
  <2> QED
    BY <1>7, <1>9, <2>1
<1>11. ASSUME NEW i \in 1 .. N, P[i - 1] = Expected(i - 1) PROVE P[i] = Expected(i)
  <2> DEFINE u == i - 1
             x == Sums(terms)[1 .. u]
  <2>1. u \in V /\ u \in 0 .. N /\ pairs[i].key = u /\ pairs[i].value = col[u]
    BY <1>1, <1>8
  <2>2. P[i] = GatherPageRank([norm |-> x, pageRanks |-> Mixed(u)], pairs[i])
    BY <1>7, <1>11
  <2>3. x \in Fraction /\ Sums(terms)[1 .. i] = plus(terms[i], x)
        /\ terms[i] = absDiff(old[u], col[u]) /\ terms[i] \in Fraction
    BY <1>4, <1>9, <2>1
  <2>4. Mixed(u)[u] = old[u]
    BY <2>1
  <2>5. [Mixed(u) EXCEPT ![u] = col[u]] = Mixed(i)
    <3>1. \A v \in V : v < i <=> v < u \/ v = u
      BY <1>1, <2>1
    <3> HIDE DEF u
    <3> QED
      BY <2>1, <3>1
  <2> HIDE DEF u, x, Mixed
  <2>6. P[i] = [norm |-> Add(x, Distance(old[u], col[u])), pageRanks |-> Mixed(i)]
    BY <2>1, <2>2, <2>4, <2>5 DEF GatherPageRank
  <2>7. Add(x, Distance(old[u], col[u])) = plus(x, terms[i])
    <3>1. x # NaN /\ terms[i] # NaN
      BY <2>3, NaNAssumption, FractionIsValue
    <3> QED
      BY <1>2, <2>1, <2>3, <3>1 DEF Add, Distance
  <2>8. plus(x, terms[i]) = plus(terms[i], x)
    BY <2>3, PlusLaws
  <2> QED
    BY <2>3, <2>6, <2>7, <2>8
<1> HIDE DEF Mixed
<1>12. \A k \in 0 .. N : P[k] = Expected(k)
  <2> DEFINE Bad == {k \in 0 .. N : P[k] # Expected(k)}
  <2>1. SUFFICES ASSUME Bad # {} PROVE FALSE
    OBVIOUS
  <2>2. Bad \subseteq Nat
    OBVIOUS
  <2> HIDE DEF Bad
  <2>3. PICK k \in Bad : \A j \in Bad : k <= j
    BY <2>1, <2>2, LeastNumber
  <2> USE DEF Bad
  <2> HIDE DEF Expected
  <2>4. k \in 0 .. N /\ k # 0
    BY <1>10
  <2>5. k \in 1 .. N /\ k - 1 \in 0 .. N /\ ~ k <= k - 1
    BY <1>1, <2>4
  <2>6. P[k - 1] = Expected(k - 1)
    BY <2>3, <2>5
  <2>7. P[k] = Expected(k)
    BY <1>11, <2>5, <2>6
  <2> QED
    BY <2>3, <2>7
<1>13. Mixed(N) = col
  <2>1. \A v \in V : v < N
    BY <1>1
  <2> QED
    BY <2>1 DEF Mixed
<1>14. Accumulate(terms) = calculateNorm(old, col)
  <2> DEFINE q == [v \in V |-> absDiff(old[v], col[v])]
  <2>1. calculateNorm(old, col) = Accumulate(q)
    BY DEF calculateNorm, Total
  <2>2. q \in [0 .. N - 1 -> Fraction] /\ \A i \in 1 .. N : terms[i] = q[i - 1]
    BY <1>1, <1>2, <1>3, <1>4
  <2> HIDE DEF q
  <2>3. Accumulate(terms) = Accumulate(q)
    BY <1>1, <1>4, <2>2, Shifted
  <2> QED
    BY <2>1, <2>3
<1>15. P[N] = Expected(N)
  <2>1. N \in 0 .. N
    BY <1>1
  <2> HIDE DEF Expected
  <2> QED
    BY <1>12, <2>1
<1>16. P[N] = [norm |-> calculateNorm(old, col), pageRanks |-> col]
  BY <1>9, <1>13, <1>14, <1>15
<1> QED
  BY <1>7, <1>16

(* the steps of one process *)
LEMMA FlowOther ==
  ASSUME TypeInv, FlowInv, NEW r \in Ranks, Local(r), NEW s \in Ranks, s # r
  PROVE  Flow(s)'
<1>1. InputInv /\ CtrlType /\ RankType /\ KvType /\ KmvType /\ [Next]_vars
  BY TypeParts DEF TypeInv, Next
<1>2. /\ job' = job /\ pc'[s] = pc[s] /\ kv'[s] = kv[s] /\ kmv'[s] = kmv[s]
      /\ pageRanks'[s] = pageRanks[s] /\ factor'[s] = factor[s] /\ norm'[s] = norm[s]
  BY <1>1 DEF CtrlType, KvType, KmvType, RankType, Local, Map, Reduce, SortKeys, TakeFactor,
              TakePageRanks, Test, OpenFile, PrintLine, CloseFile, Goto
<1> QED
  BY <1>1, <1>2, FlowSame DEF FlowInv

LEMMA FlowMap ==
  ASSUME TypeInv, FlowInv, NEW r \in Ranks, Map(r)
  PROVE  Flow(r)'
<1>1. InputInv /\ CtrlType /\ KvType /\ [Next]_vars
  BY TypeParts DEF TypeInv, Next, Local
<1>2. V' = V
  BY <1>1, InputNext
<1>3. /\ pc[r] = "map" /\ pc'[r] = "collate" /\ kv'[r] = Mapped(r) /\ job' = job
      /\ pageRanks' = pageRanks /\ factor' = factor /\ norm' = norm
  BY <1>1 DEF Map, Goto, CtrlType, KvType
<1>4. NextFactor(r)' = NextFactor(r) /\ Mapped(r)' = Mapped(r)
  BY <1>1, <1>3, NextSame, MappedSame
<1>5. Flow(r)
  BY DEF FlowInv
<1>6. Real(r)'
  BY <1>2, <1>3, <1>5 DEF Flow, Real, Returned
<1>7. FactorFlow(r)'
  BY <1>3, <1>4 DEF FactorFlow
<1>8. job = "page" => PageFlow(r)'
  BY <1>3, <1>4, <1>5 DEF Flow, PageFlow
<1> QED
  BY <1>3, <1>6, <1>7, <1>8 DEF Flow

LEMMA FlowReduce ==
  ASSUME TypeInv, FlowInv, PagesFit, NEW r \in Ranks, Reduce(r)
  PROVE  Flow(r)'
<1>1. InputInv /\ CtrlType /\ KvType /\ KmvType /\ [Next]_vars
  BY TypeParts DEF TypeInv, Next, Local
<1>2. V' = V
  BY <1>1, InputNext
<1> DEFINE map == kmv[r]
           x == NextFactor(r)
           col == NextColumn(r)
<1>3. /\ pc[r] = "reduce" /\ pc'[r] = "gather" /\ kv'[r] = Reduced(map) /\ job' = job
      /\ pageRanks' = pageRanks /\ norm' = norm
  BY <1>1 DEF Reduce, Goto, CtrlType, KvType
<1>4. x' = x /\ col' = col
  BY <1>1, <1>3, NextSame
<1>5. Flow(r)
  BY DEF FlowInv
<1>6. Real(r)'
  BY <1>2, <1>3, <1>5 DEF Flow, Real, Returned
<1>7. GroupType(map) /\ \A key \in DOMAIN map : Len(map[key]) <= MaxValues
  BY <1>1 DEF KmvType, PagesFit
<1>8. ASSUME job = "factor" PROVE FactorFlow(r)'
  <2>1. FactorGroups(map, x) /\ (Owner[COMMON] = r => COMMON \in DOMAIN map)
    BY <1>3, <1>5, <1>8 DEF Flow, FactorFlow
  <2>2. kv'[r] = Reduced(map) /\ x' = x
    BY <1>3, <1>4
  <2> HIDE DEF map, x
  <2>3. AllAre(Reduced(map), x)
    BY <1>1, <1>7, <1>8, <2>1, FactorReduced
  <2>4. COMMON \in DOMAIN map => Reduced(map) # <<>>
    <3>1. KeysIn(Reduced(map)) = DOMAIN map
      BY <1>1, <1>7, ReducedLists DEF GroupType
    <3> QED
      BY <3>1 DEF KeysIn
  <2>5. AllAre(kv'[r], x')
    BY <2>2, <2>3
  <2> USE DEF x
  <2> QED
    BY <1>3, <2>1, <2>2, <2>4, <2>5 DEF FactorFlow, AllAre
<1>9. ASSUME job = "page" PROVE PageFlow(r)'
  <2>1. PageGroups(map, col)
    BY <1>3, <1>5, <1>9 DEF Flow, PageFlow
  <2>2. kv'[r] = Reduced(map) /\ col' = col
    BY <1>3, <1>4
  <2> HIDE DEF map, col
  <2>3. AllFrom(Reduced(map), col)
    BY <1>1, <1>7, <1>9, <2>1, PageReduced DEF GroupType
  <2>4. AllFrom(kv'[r], col')
    BY <2>2, <2>3
  <2> USE DEF col
  <2> QED
    BY <1>3, <2>4 DEF PageFlow, AllFrom
<1> QED
  BY <1>3, <1>6, <1>8, <1>9 DEF Flow

LEMMA FlowSort ==
  ASSUME TypeInv, FlowInv, NEW r \in Ranks, SortKeys(r)
  PROVE  Flow(r)'
<1>1. InputInv /\ CtrlType /\ KvType /\ [Next]_vars
  BY TypeParts DEF TypeInv, Next, Local
<1>2. V' = V /\ V \subseteq Nat
  BY <1>1, InputNext, InputFacts
<1> DEFINE pairs == kv[r]
           col == NextColumn(r)
<1>3. /\ pc[r] = "sort" /\ pc'[r] = "broadcast" /\ kv'[r] = Sorted(pairs) /\ job' = job
      /\ pageRanks' = pageRanks /\ norm' = norm /\ pairs \in Seq(PairType)
  BY <1>1 DEF SortKeys, Goto, CtrlType, KvType
<1>4. col' = col
  BY <1>1, <1>3, NextSame
<1>5. Flow(r) /\ job = "page"
  BY <1>3 DEF FlowInv, Flow, Real
<1>6. Real(r)'
  BY <1>2, <1>3, <1>5 DEF Flow, Real, Returned
<1>7. AllFrom(pairs, col)
  BY <1>3, <1>5 DEF Flow, PageFlow
<1>8. kv'[r] = Sorted(pairs) /\ col' = col /\ pairs \in Seq(PairType)
  BY <1>3, <1>4
<1> HIDE DEF pairs, col
<1>9. AllFrom(Sorted(pairs), col)
  <2>1. Elements(Sorted(pairs)) \subseteq Elements(pairs)
    BY <1>2, <1>8, SortedLists DEF PairType
  <2> QED
    BY <1>7, <2>1, ElementsAll
<1>10. AllFrom(kv'[r], col')
  BY <1>8, <1>9
<1> USE DEF col
<1>11. PageFlow(r)'
  BY <1>3, <1>10 DEF PageFlow, AllFrom
<1> QED
  BY <1>3, <1>5, <1>6, <1>11 DEF Flow

LEMMA FlowTakeFactor ==
  ASSUME TypeInv, FlowInv, NEW r \in Ranks, TakeFactor(r)
  PROVE  Flow(r)'
<1>1. InputInv /\ CtrlType /\ RankType /\ KvType /\ [Next]_vars
  BY TypeParts DEF TypeInv, Next, Local
<1>2. V' = V
  BY <1>1, InputNext
<1> DEFINE pairs == kv[r]
           x == NextFactor(r)
<1>3. /\ pc[r] = "take" /\ pc'[r] = "taken" /\ job = "factor" /\ job' = job
      /\ pageRanks' = pageRanks /\ norm' = norm /\ pairs \in Seq(PairType)
      /\ factor'[r] = IF pairs = <<>> THEN factor[r] ELSE Last(pairs).value
  BY <1>1 DEF TakeFactor, Goto, CtrlType, KvType, RankType
<1>4. x' = x
  BY <1>1, <1>3, NextSame
<1>5. Flow(r)
  BY DEF FlowInv
<1>6. Real(r)'
  BY <1>2, <1>3, <1>5 DEF Flow, Real, Returned
<1>7. AllAre(pairs, x) /\ pairs # <<>>
  BY <1>3, <1>5 DEF Flow, FactorFlow
<1> HIDE DEF pairs, x
<1>8. Last(pairs).value = x
  <2>1. Len(pairs) \in DOMAIN pairs
    BY <1>3, <1>7
  <2> QED
    BY <1>7, <2>1 DEF AllAre, Last
<1>9. factor'[r] = x'
  BY <1>3, <1>4, <1>7, <1>8
<1> USE DEF x
<1> QED
  BY <1>3, <1>6, <1>9 DEF Flow, FactorFlow

(* the end of an iteration *)
LEMMA TakenColumn ==
  ASSUME TypeInv, OnceInv, FlowInv, NEW r \in Ranks, TakePageRanks(r)
  PROVE  /\ pageRanks[r] \in [V -> Fraction] /\ NextColumn(r) \in [V -> Fraction]
         /\ pageRanks'[r] = NextColumn(r)
         /\ norm'[r] = calculateNorm(pageRanks[r], NextColumn(r))
<1>1. InputInv /\ CtrlType /\ RankType /\ KvType /\ [Next]_vars
  BY TypeParts DEF TypeInv, Next, Local
<1> DEFINE pairs == kv[r]
           col == NextColumn(r)
           old == pageRanks[r]
           calc == [norm |-> norm[r], pageRanks |-> pageRanks[r]]
<1>2. Flow(r) /\ pc[r] = "take" /\ job = "page"
  BY DEF FlowInv, TakePageRanks
<1>3. norm[r] = Zero /\ old \in [V -> Fraction]
  BY <1>2 DEF Flow, Real, Returned
<1>4. col \in [V -> Fraction]
  BY <1>1, <1>3, NextRanks
<1>5. pairs \in Seq(PairType) /\ InOrder(pairs) /\ AllFrom(pairs, col)
  BY <1>1, <1>2 DEF KvType, OnceInv, Flow, PageFlow
<1>6. pageRanks'[r] = Gathered(calc, pairs).pageRanks /\ norm'[r] = Gathered(calc, pairs).norm
  BY <1>1 DEF TakePageRanks, RankType
<1>7. calc = [norm |-> Zero, pageRanks |-> old]
  BY <1>3
<1> HIDE DEF pairs, col, old, calc
<1>8. Gathered(calc, pairs) = [norm |-> calculateNorm(old, col), pageRanks |-> col]
  BY <1>1, <1>3, <1>4, <1>5, <1>7, GatheredInOrder
<1> QED
  BY <1>3, <1>4, <1>6, <1>8 DEF old, col

LEMMA FlowTakePageRanks ==
  ASSUME TypeInv, OnceInv, FlowInv, NEW r \in Ranks, TakePageRanks(r)
  PROVE  Flow(r)'
<1>1. InputInv /\ CtrlType /\ [Next]_vars
  BY TypeParts DEF TypeInv, Next, Local
<1>2. V' = V /\ IsFiniteSet(V)
  BY <1>1, InputNext, InputFacts
<1>3. pc'[r] = "taken" /\ job = "page" /\ job' = job
  BY <1>1 DEF TakePageRanks, Goto, CtrlType
<1> DEFINE col == NextColumn(r)
           old == pageRanks[r]
<1>4. /\ old \in [V -> Fraction] /\ col \in [V -> Fraction]
      /\ pageRanks'[r] = col /\ norm'[r] = calculateNorm(old, col)
  BY TakenColumn
<1> HIDE DEF col, old
<1>5. calculateNorm(old, col) \in Fraction
  BY <1>2, <1>4, NormFraction
<1>6. Real(r)'
  BY <1>2, <1>3, <1>4, <1>5 DEF Real, Returned
<1> QED
  BY <1>3, <1>6 DEF Flow, PageFlow

LEMMA FlowTest ==
  ASSUME TypeInv, FlowInv, NEW r \in Ranks,
         Test(r) \/ OpenFile(r) \/ PrintLine(r) \/ CloseFile(r)
  PROVE  Flow(r)'
<1>1. InputInv /\ CtrlType /\ RankType /\ [Next]_vars
  BY TypeParts DEF TypeInv, Next, Local
<1>2. V' = V
  BY <1>1, InputNext
<1>3. /\ pc[r] \in {"test"} \cup Returned /\ pageRanks' = pageRanks /\ job' = job
      /\ \/ pc'[r] = "barrier" /\ norm'[r] = Zero
         \/ pc'[r] \in Returned /\ norm'[r] = norm[r]
  BY <1>1 DEF CtrlType, RankType, Returned, Test, OpenFile, PrintLine, CloseFile, Goto
<1>4. Flow(r) /\ job = "page"
  BY <1>3 DEF FlowInv, Flow, Real
<1>5. Zero \in Fraction
  BY UnitFractions
<1>6. Real(r)'
  BY <1>2, <1>3, <1>4, <1>5 DEF Flow, Real
<1> QED
  BY <1>3, <1>4, <1>6 DEF Flow, PageFlow, Returned

LEMMA FlowLocal ==
  ASSUME TypeInv, OnceInv, FlowInv, PagesFit, NEW r \in Ranks, Local(r)
  PROVE  FlowInv'
<1>1. \A s \in Ranks : s # r => Flow(s)'
  BY FlowOther
<1>2. Flow(r)'
  BY FlowMap, FlowReduce, FlowSort, FlowTakeFactor, FlowTakePageRanks, FlowTest DEF Local
<1> QED
  BY <1>1, <1>2 DEF FlowInv

(* the collectives *)
LEMMA FlowInit == Init => FlowInv
<1> SUFFICES ASSUME Init, NEW r \in Ranks PROVE Flow(r)
  BY DEF FlowInv
<1>1. InputInv
  BY InputInit
<1>2. PICK m \in Nat : V = 0 .. m
  BY <1>1 DEF InputInv, GraphInv
<1>3. N = m + 1
  BY <1>2, FS_Interval DEF N
<1>4. pageRanks[r] = getInitPageRank(m + 1)
  BY <1>3 DEF Init
<1>5. pageRanks[r] \in [V -> Fraction] /\ norm[r] = Zero /\ Zero \in Fraction
  BY <1>2, <1>4, UniformColumn, UnitFractions DEF Init
<1>6. pc[r] = "barrier" /\ job = "factor"
  BY DEF Init
<1> QED
  BY <1>5, <1>6 DEF Flow, Real, FactorFlow, Returned

LEMMA FlowBarrier ==
  ASSUME TypeInv, FlowInv, Barrier, NEW r \in Ranks
  PROVE  Flow(r)'
<1>1. InputInv /\ [Next]_vars
  BY DEF TypeInv, Next, Collective
<1>2. V' = V
  BY <1>1, InputNext
<1>3. /\ pc[r] = "barrier" /\ pc'[r] = "map" /\ job' = "factor"
      /\ pageRanks' = pageRanks /\ norm' = norm
  BY DEF Barrier, Together
<1>4. Real(r)'
  BY <1>2, <1>3 DEF FlowInv, Flow, Real, Returned
<1> QED
  BY <1>3, <1>4 DEF Flow, FactorFlow

LEMMA FlowEndTake ==
  ASSUME TypeInv, FlowInv, EndTake, NEW r \in Ranks
  PROVE  Flow(r)'
<1>1. InputInv /\ CtrlType /\ [Next]_vars
  BY TypeParts DEF TypeInv, Next, Collective
<1>2. V' = V
  BY <1>1, InputNext
<1>3. /\ pc[r] = "taken" /\ pc'[r] = (IF job = "factor" THEN "map" ELSE "test") /\ job' = "page"
      /\ pageRanks' = pageRanks /\ norm' = norm /\ factor' = factor
  BY DEF EndTake, Together
<1>4. Flow(r) /\ job \in {"factor", "page"}
  BY <1>1 DEF FlowInv, CtrlType
<1>5. Real(r)'
  BY <1>2, <1>3, <1>4 DEF Flow, Real, Returned
<1>6. NextFactor(r)' = NextFactor(r)
  BY <1>1, <1>3, NextSame
<1>7. PageFlow(r)'
  BY <1>3, <1>4, <1>6 DEF Flow, FactorFlow, PageFlow
<1> QED
  BY <1>3, <1>5, <1>7 DEF Flow

(* between two collectives all columns are the same *)
LEMMA EqualColumns ==
  ASSUME AgreeInv, \A r \in Ranks : job # "page" \/ pc[r] # "take"
  PROVE  \A r, s \in Ranks : /\ pageRanks[s] = pageRanks[r] /\ NextFactor(s) = NextFactor(r)
                             /\ NextColumn(s) = NextColumn(r)
<1> SUFFICES ASSUME NEW r \in Ranks, NEW s \in Ranks PROVE pageRanks[s] = pageRanks[r]
  BY DEF NextFactor, NextColumn
<1>1. Result(r) = Now(r) /\ Result(s) = Now(s)
  BY ResultNow
<1> QED
  BY <1>1 DEF AgreeInv, SameColumn, Now

LEMMA CommonReceived ==
  ASSUME InputInv, KvType, RankType, job = "factor", \A s \in Ranks : kv[s] = Mapped(s),
         NEW r \in Ranks, Owner[COMMON] = r
  PROVE  COMMON \in DOMAIN Grouped(Received(r))
<1>1. N \in Nat \ {0} /\ V = 0 .. N - 1 /\ COMMON \in V
  BY InputFacts
<1>2. ChunksDivide
  BY <1>1, ChunksOfVertices
<1>3. PICK s \in Ranks : COMMON \in Lo(s) .. Lo(s + 1) - 1
  BY <1>1, <1>2 DEF ChunksDivide
<1>4. COMMON \in KeysIn(Mapped(s))
  BY <1>3, MappedLists DEF RankType
<1> DEFINE pairs == Received(r)
<1>5. pairs \in Seq(PairType)
      /\ KeysIn(pairs) = {k \in UNION {KeysIn(kv[q]) : q \in Ranks} : Owner[k] = r}
  BY ReceivedLists DEF KvType
<1>6. COMMON \in KeysIn(pairs)
  BY <1>4, <1>5
<1> QED
  BY <1>6 DEF Grouped

LEMMA FlowCollate ==
  ASSUME TypeInv, AgreeInv, FlowInv, Collate, NEW r \in Ranks
  PROVE  Flow(r)'
<1>1. InputInv /\ CtrlType /\ KvType /\ RankType /\ [Next]_vars
  BY TypeParts DEF TypeInv, Next, Collective
<1>2. V' = V
  BY <1>1, InputNext
<1>3. /\ \A s \in Ranks : pc[s] = "collate" /\ pc'[s] = "reduce"
      /\ kmv'[r] = Grouped(Received(r)) /\ job' = job
      /\ pageRanks' = pageRanks /\ norm' = norm
  BY DEF Collate, Together
<1>4. \A s \in Ranks : Flow(s)
  BY DEF FlowInv
<1>5. pageRanks[r] \in [V -> Fraction] /\ Real(r)'
  BY <1>2, <1>3, <1>4 DEF Flow, Real, Returned
<1>6. \A s \in Ranks : pageRanks[s] = pageRanks[r]
  BY <1>3, EqualColumns
<1>7. NextFactor(r)' = NextFactor(r) /\ NextColumn(r)' = NextColumn(r)
  BY <1>1, <1>3, NextSame
<1>8. ASSUME job = "factor" PROVE FactorFlow(r)'
  <2>1. \A s \in Ranks : kv[s] = Mapped(s)
    BY <1>3, <1>4, <1>8 DEF Flow, FactorFlow
  <2>2. FactorGroups(Grouped(Received(r)), NextFactor(r))
    BY <1>1, <1>5, <1>6, <1>8, <2>1, FactorCollated
  <2>3. Owner[COMMON] = r => COMMON \in DOMAIN Grouped(Received(r))
    BY <1>1, <1>8, <2>1, CommonReceived
  <2>4. FactorGroups(kmv'[r], NextFactor(r)')
    BY <1>3, <1>7, <2>2
  <2> QED
    BY <1>3, <2>3, <2>4 DEF FactorFlow, FactorGroups
<1>9. ASSUME job = "page" PROVE PageFlow(r)'
  <2>1. \A s \in Ranks : kv[s] = Mapped(s) /\ factor[s] = NextFactor(s)
    BY <1>3, <1>4, <1>9 DEF Flow, PageFlow
  <2>2. PageGroups(Grouped(Received(r)), NextColumn(r))
    BY <1>1, <1>5, <1>6, <1>9, <2>1, PageCollated
  <2>3. PageGroups(kmv'[r], NextColumn(r)')
    BY <1>3, <1>7, <2>2
  <2> QED
    BY <1>3, <2>3 DEF PageFlow, PageGroups
<1> QED
  BY <1>3, <1>5, <1>8, <1>9 DEF Flow

LEMMA FlowGather ==
  ASSUME TypeInv, AgreeInv, FlowInv, Gather, NEW r \in Ranks
  PROVE  Flow(r)'
<1>1. InputInv /\ CtrlType /\ KvType /\ [Next]_vars
  BY TypeParts DEF TypeInv, Next, Collective
<1>2. V' = V
  BY <1>1, InputNext
<1>3. /\ \A s \in Ranks : pc[s] = "gather"
      /\ pc'[r] = (IF job = "page" THEN "sort" ELSE "broadcast") /\ job' = job
      /\ kv'[r] = (IF r = 0 THEN Assembled ELSE <<>>)
      /\ pageRanks' = pageRanks /\ norm' = norm
  BY DEF Gather, Together, Assembled
<1>4. \A s \in Ranks : Flow(s)
  BY DEF FlowInv
<1>5. Real(r)'
  BY <1>2, <1>3, <1>4 DEF Flow, Real, Returned
<1>6. \A s \in Ranks : NextFactor(s) = NextFactor(r) /\ NextColumn(s) = NextColumn(r)
  BY <1>3, EqualColumns
<1>7. NextFactor(r)' = NextFactor(r) /\ NextColumn(r)' = NextColumn(r)
  BY <1>1, <1>3, NextSame
<1>8. Elements(Assembled) = UNION {Elements(kv[s]) : s \in Ranks} /\ Elements(<<>>) = {}
  <2>1. Elements(<<>>) = {}
    BY DEF Elements
  <2> QED
    BY <1>1, <2>1, AssembledElements
<1> DEFINE x == NextFactor(r)
           col == NextColumn(r)
           all == Assembled
<1> HIDE DEF x, col, all
<1>9. ASSUME job = "factor" PROVE FactorFlow(r)'
  <2>1. \A s \in Ranks : AllAre(kv[s], x) /\ (Owner[COMMON] = s => kv[s] # <<>>)
    BY <1>3, <1>4, <1>6, <1>9 DEF Flow, FactorFlow, x
  <2>2. AllAre(all, x) /\ AllAre(<<>>, x)
    BY <1>8, <2>1, ElementsAll DEF all
  <2>3. all # <<>>
    <3>1. Owner[COMMON] \in Ranks
      BY <1>1, InputFacts
    <3> DEFINE pairs == kv[Owner[COMMON]]
    <3>2. pairs # <<>> /\ pairs \in Seq(PairType)
      BY <1>1, <2>1, <3>1 DEF KvType
    <3>3. Elements(pairs) \subseteq Elements(all)
      BY <1>8, <3>1 DEF all
    <3> HIDE DEF pairs
    <3>4. pairs[1] \in Elements(pairs)
      BY <3>2 DEF Elements
    <3> QED
      BY <1>8, <3>3, <3>4
  <2>4. AllAre(kv'[r], NextFactor(r)')
    BY <1>3, <1>7, <2>2 DEF x, all
  <2> QED
    BY <1>3, <1>9, <2>3, <2>4 DEF FactorFlow, AllAre, all
<1>10. ASSUME job = "page" PROVE PageFlow(r)'
  <2>1. \A s \in Ranks : AllFrom(kv[s], col)
    BY <1>3, <1>4, <1>6, <1>10 DEF Flow, PageFlow, col
  <2>2. AllFrom(all, col) /\ AllFrom(<<>>, col)
    BY <1>8, <2>1, ElementsAll DEF all
  <2>3. AllFrom(kv'[r], NextColumn(r)')
    BY <1>3, <1>7, <2>2 DEF col, all
  <2> QED
    BY <1>3, <1>10, <2>3 DEF PageFlow, AllFrom
<1> QED
  BY <1>3, <1>5, <1>9, <1>10 DEF Flow

LEMMA FlowBroadcast ==
  ASSUME TypeInv, AgreeInv, FlowInv, Broadcast, NEW r \in Ranks
  PROVE  Flow(r)'
<1>1. InputInv /\ CtrlType /\ [Next]_vars
  BY TypeParts DEF TypeInv, Next, Collective
<1>2. V' = V
  BY <1>1, InputNext
<1>3. /\ \A s \in Ranks : pc[s] = "broadcast"
      /\ 0 \in Ranks /\ pc'[r] = "take" /\ job' = job /\ kv'[r] = kv[0]
      /\ pageRanks' = pageRanks /\ norm' = norm
  BY SizeAssumption DEF Broadcast, Together, Ranks
<1>4. Flow(r) /\ Flow(0)
  BY <1>3 DEF FlowInv
<1>5. Real(r)'
  BY <1>2, <1>3, <1>4 DEF Flow, Real, Returned
<1>6. NextFactor(0) = NextFactor(r) /\ NextColumn(0) = NextColumn(r)
  BY <1>3, EqualColumns
<1>7. NextFactor(r)' = NextFactor(r) /\ NextColumn(r)' = NextColumn(r)
  BY <1>1, <1>3, NextSame
<1>8. ASSUME job = "factor" PROVE FactorFlow(r)'
  <2>1. AllAre(kv'[r], NextFactor(r)') /\ kv'[r] # <<>>
    BY <1>3, <1>4, <1>6, <1>7, <1>8 DEF Flow, FactorFlow
  <2> QED
    BY <1>3, <2>1 DEF FactorFlow, AllAre
<1>9. ASSUME job = "page" PROVE PageFlow(r)'
  <2>1. AllFrom(kv'[r], NextColumn(r)')
    BY <1>3, <1>4, <1>6, <1>7, <1>9 DEF Flow, PageFlow
  <2> QED
    BY <1>3, <2>1 DEF PageFlow, AllFrom
<1> QED
  BY <1>3, <1>5, <1>8, <1>9 DEF Flow

LEMMA FlowNext == TypeInv /\ AgreeInv /\ OnceInv /\ FlowInv /\ PagesFit /\ [Next]_vars => FlowInv'
<1> SUFFICES ASSUME TypeInv, AgreeInv, OnceInv, FlowInv, PagesFit, [Next]_vars
             PROVE  FlowInv'
  OBVIOUS
<1>1. CASE UNCHANGED vars
  <2> SUFFICES ASSUME NEW r \in Ranks PROVE Flow(r)'
    BY DEF FlowInv
  <2>1. /\ job' = job /\ pc' = pc /\ kv' = kv /\ kmv' = kmv /\ pageRanks' = pageRanks
        /\ factor' = factor /\ norm' = norm
    BY <1>1 DEF vars
  <2> QED
    BY <2>1, FlowSame DEF TypeInv, FlowInv
<1>2. ASSUME NEW r \in Ranks, Local(r) PROVE FlowInv'
  BY <1>2, FlowLocal
<1>3. CASE Collective
  BY <1>3, FlowBarrier, FlowCollate, FlowGather, FlowBroadcast, FlowEndTake DEF Collective, FlowInv
<1> QED
  BY <1>1, <1>2, <1>3 DEF Next, Terminated

--------------------------------------------------------------------------------
(* The arithmetic of PowerIteration, as each process instantiates it, is that *)
(* of MpiBase.                                                                *)

LEMMA SameFractions ==
  ASSUME NEW r \in Ranks
  PROVE  /\ Power(r)!Value = Value /\ Power(r)!Zero = Zero
         /\ Power(r)!gcd = gcd /\ Power(r)!lowest = lowest
         /\ Power(r)!sum = sum /\ Power(r)!product = product
<1>1. Power(r)!Value = Value /\ Power(r)!Zero = Zero
  BY DEF Value, Power!Value, Zero, Power!Zero
<1>2. Power(r)!gcd = gcd
  BY DEF gcd, Power!gcd
<1>3. Power(r)!lowest = lowest
  BY <1>2 DEF lowest, Power!lowest
<1>4. Power(r)!sum = sum
  BY <1>1, <1>2, <1>3
     DEF sum, Power!sum, Common, Power!Common, frac, Power!frac
<1>5. Power(r)!product = product
  BY <1>1, <1>3 DEF product, Power!product, frac, Power!frac
<1> QED
  BY <1>1, <1>2, <1>3, <1>4, <1>5

LEMMA SameArithmetic ==
  ASSUME NEW r \in Ranks
  PROVE  /\ \A p, q : Power(r)!frac(p, q) = frac(p, q)
         /\ \A x, y : Power(r)!plus(x, y) = plus(x, y)
         /\ \A x, y : Power(r)!times(x, y) = times(x, y)
         /\ \A x, y : Power(r)!absDiff(x, y) = absDiff(x, y)
         /\ \A x, y : Power(r)!AtMost(x, y) = AtMost(x, y)
<1>1. \A p, q : Power(r)!frac(p, q) = frac(p, q)
  BY SameFractions DEF frac, Power!frac
<1>2. \A x, y : Power(r)!plus(x, y) = plus(x, y)
  BY SameFractions, Zenon
     DEF plus, Power!plus, Accumulate, Power!Accumulate, FoldFunction, Power!FoldFunction,
         FoldFunctionOnSet, Power!FoldFunctionOnSet, MapThenFoldSet, Power!MapThenFoldSet
<1>3. \A x, y : Power(r)!times(x, y) = times(x, y)
  BY SameFractions DEF times, Power!times
<1>4. \A x, y : Power(r)!absDiff(x, y) = absDiff(x, y)
  BY <1>1, SameFractions DEF absDiff, Power!absDiff, Common, Power!Common
<1>5. \A x, y : Power(r)!AtMost(x, y) = AtMost(x, y)
  BY SameFractions DEF AtMost, Power!AtMost, Common, Power!Common
<1> QED
  BY <1>1, <1>2, <1>3, <1>4, <1>5

LEMMA SameAccumulate ==
  ASSUME NEW r \in Ranks
  PROVE  \A terms : Power(r)!Accumulate(terms) = Accumulate(terms)
<1>1. Power(r)!sum = sum /\ Power(r)!Zero = Zero
  BY SameFractions
<1> QED
  BY <1>1, Zenon DEF Accumulate, Power!Accumulate, FoldFunction, Power!FoldFunction,
     FoldFunctionOnSet, Power!FoldFunctionOnSet, MapThenFoldSet, Power!MapThenFoldSet,
     plus, Power!plus

LEMMA SameIteration ==
  ASSUME NEW r \in Ranks
  PROVE  /\ Power(r)!ALPHA = ALPHA /\ Power(r)!TOL = TOL
         /\ \A a, b : Power(r)!calculateNorm(a, b) = calculateNorm(a, b)
         /\ \A n : Power(r)!getInitPageRank(n) = getInitPageRank(n)
<1>1. Power(r)!ALPHA = ALPHA /\ Power(r)!TOL = TOL
  BY SameArithmetic DEF ALPHA, Power!ALPHA, TOL, Power!TOL
<1>2. \A a, b : Power(r)!calculateNorm(a, b) = calculateNorm(a, b)
  BY SameArithmetic, SameAccumulate DEF calculateNorm, Power!calculateNorm, Total, Power!Total
<1>3. \A n : Power(r)!getInitPageRank(n) = getInitPageRank(n)
  BY DEF getInitPageRank, Power!getInitPageRank
<1> QED
  BY <1>1, <1>2, <1>3

LEMMA SameGraph ==
  ASSUME NEW r \in Ranks
  PROVE  /\ \A file : Power(r)!Graph(file) = Graph(file)
         /\ \A list : Power(r)!OutDegree(list) = OutDegree(list)
<1>1. \A S : Power(r)!Max(S) = Max(S)
  BY DEF Max, Power!Max
<1>2. \A file : Power(r)!Vertices(file) = Vertices(file)
  BY <1>1 DEF Vertices, Power!Vertices, numVertices, Power!numVertices,
       VertexList, Power!VertexList
<1>3. \A file, u, v : Power(r)!Multiplicity(file, u, v) = Multiplicity(file, u, v)
  BY DEF Multiplicity, Power!Multiplicity, Cardinality, Power!Cardinality
<1>4. \A list : Power(r)!OutDegree(list) = OutDegree(list)
  BY DEF OutDegree, Power!OutDegree, MapThenSumSet, Power!MapThenSumSet,
       MapThenFoldSet, Power!MapThenFoldSet
<1> QED
  BY <1>2, <1>3, <1>4 DEF Graph, Power!Graph

LEMMA SameMatrix ==
  ASSUME InputInv, NEW r \in Ranks
  PROVE  /\ Power(r)!V = V /\ Power(r)!N = N
         /\ \A u, v : Power(r)!Google(u, v) =
              GoogleEntry(graph.toList[u][v], OutDegree(graph.toList[u]), N)
         /\ \A col : Power(r)!Multiplied(col) =
              [v \in V |-> GoogleRank(V, N, graph.toList, col, v)]
<1>1. DOMAIN graph.toList = V
  BY DEF InputInv, IsGraphOn
<1>2. Power(r)!V = V /\ Power(r)!N = N
  BY <1>1 DEF Power!V, Power!N, N, Cardinality, Power!Cardinality
<1>3. \A u, v : Power(r)!Google(u, v) =
        GoogleEntry(graph.toList[u][v], OutDegree(graph.toList[u]), N)
  BY <1>2, SameArithmetic, SameIteration, SameGraph DEF Power!Google, GoogleEntry
<1>4. \A col : Power(r)!Multiplied(col) = [v \in V |-> GoogleRank(V, N, graph.toList, col, v)]
  BY <1>2, <1>3, SameArithmetic, SameAccumulate DEF Power!Multiplied, Power!Total, GoogleRank
<1> QED
  BY <1>2, <1>3, <1>4

LEMMA InitIsPower ==
  ASSUME Init, NEW r \in Ranks
  PROVE  Power(r)!Init
<1>1. Power(r)!N = N
  BY InputInit, SameMatrix
<1>2. \E file \in Files : graph = Power(r)!Graph(file)
  BY SameGraph DEF Init
<1>3. pageRanks[r] = Power(r)!getInitPageRank(Power(r)!N)
  BY <1>1, SameIteration DEF Init
<1>4. pc[r] = "barrier" /\ job = "factor"
  BY DEF Init
<1> QED
  BY <1>2, <1>3, <1>4 DEF Power!Init, Returned

(* PowerIteration has ended for a process when it leaves the loop or will. *)
Ended(r) ==
  \/ pc[r] \in Returned
  \/ job = "page" /\ pc[r] \in {"taken", "test"} /\ ~Above(norm[r])

LEMMA PowerStutters ==
  ASSUME NEW r \in Ranks, graph' = graph, pageRanks'[r] = pageRanks[r], Ended(r)' <=> Ended(r)
  PROVE  UNCHANGED Power(r)!vars
<1>1. Ended(r)' = Ended(r)
  BY Zenon DEF Ended
<1> QED
  BY <1>1 DEF Power!vars, Ended

LEMMA QuietStep ==
  ASSUME TypeInv, FlowInv, NEW r \in Ranks,
         \/ Collective
         \/ \E s \in Ranks : Local(s) /\ (s = r => ~TakePageRanks(r))
         \/ UNCHANGED vars
  PROVE  UNCHANGED Power(r)!vars
<1>1. CtrlType /\ RankType /\ Real(r)
  BY TypeParts DEF TypeInv, FlowInv, Flow
<1>2. CASE Collective
  <2>1. /\ graph' = graph /\ pageRanks' = pageRanks /\ norm' = norm
    BY <1>2 DEF Collective, Barrier, Collate, Gather, Broadcast, EndTake, input
  <2>2. \/ /\ pc[r] \in {"barrier", "collate", "gather", "broadcast"}
           /\ pc'[r] \in {"map", "reduce", "sort", "broadcast", "take"}
        \/ pc[r] = "taken" /\ job = "factor" /\ pc'[r] = "map"
        \/ pc[r] = "taken" /\ job = "page" /\ pc'[r] = "test" /\ job' = "page"
    BY <1>1, <1>2
       DEF CtrlType, Collective, Barrier, Collate, Gather, Broadcast, EndTake, Together
  <2>3. Ended(r)' <=> Ended(r)
    BY <2>1, <2>2 DEF Ended, Returned
  <2> QED
    BY <2>1, <2>3, PowerStutters
<1>3. ASSUME NEW s \in Ranks, Local(s), s # r PROVE UNCHANGED Power(r)!vars
  <2>1. /\ graph' = graph /\ job' = job /\ pc'[r] = pc[r] /\ pageRanks'[r] = pageRanks[r]
        /\ norm'[r] = norm[r]
    BY <1>1, <1>3 DEF CtrlType, RankType, Local, Map, Reduce, SortKeys, TakeFactor, TakePageRanks,
                      Test, OpenFile, PrintLine, CloseFile, Goto, input
  <2>2. Ended(r)' <=> Ended(r)
    BY <2>1 DEF Ended
  <2> QED
    BY <2>1, <2>2, PowerStutters
<1>4. ASSUME Local(r), ~TakePageRanks(r) PROVE UNCHANGED Power(r)!vars
  <2>1. graph' = graph /\ job' = job /\ pageRanks' = pageRanks
    BY <1>4 DEF Local, Map, Reduce, SortKeys, TakeFactor, Test, OpenFile, PrintLine, CloseFile,
                input
  <2>2. CASE Map(r) \/ Reduce(r) \/ SortKeys(r)
    <3>1. pc[r] \in {"map", "reduce", "sort"} /\ pc'[r] \in {"collate", "gather", "broadcast"}
      BY <1>1, <2>2 DEF CtrlType, Map, Reduce, SortKeys, Goto
    <3>2. Ended(r)' <=> Ended(r)
      BY <3>1 DEF Ended, Returned
    <3> QED
      BY <2>1, <3>2, PowerStutters
  <2>3. CASE TakeFactor(r)
    <3>1. pc[r] = "take" /\ job = "factor" /\ pc'[r] = "taken"
      BY <1>1, <2>3 DEF CtrlType, TakeFactor, Goto
    <3>2. Ended(r)' <=> Ended(r)
      BY <2>1, <3>1 DEF Ended, Returned
    <3> QED
      BY <2>1, <3>2, PowerStutters
  <2>4. CASE Test(r)
    <3>1. /\ pc[r] = "test" /\ job = "page"
          /\ \/ Above(norm[r]) /\ pc'[r] = "barrier"
             \/ ~Above(norm[r]) /\ pc'[r] = "open"
      BY <1>1, <2>4 DEF CtrlType, Real, Test, Goto
    <3>2. Ended(r)' <=> Ended(r)
      BY <3>1 DEF Ended, Returned
    <3> QED
      BY <2>1, <3>2, PowerStutters
  <2>5. CASE OpenFile(r) \/ PrintLine(r) \/ CloseFile(r)
    <3>1. pc[r] \in Returned /\ pc'[r] \in Returned
      BY <1>1, <2>5 DEF CtrlType, OpenFile, PrintLine, CloseFile, Goto, Returned
    <3>2. Ended(r)' <=> Ended(r)
      BY <3>1 DEF Ended
    <3> QED
      BY <2>1, <3>2, PowerStutters
  <2> QED
    BY <1>4, <2>2, <2>3, <2>4, <2>5 DEF Local
<1>5. CASE UNCHANGED vars
  <2>1. graph' = graph /\ job' = job /\ pc' = pc /\ pageRanks' = pageRanks /\ norm' = norm
    BY <1>5 DEF vars, input
  <2>2. Ended(r)' <=> Ended(r)
    BY <2>1 DEF Ended
  <2> QED
    BY <2>1, <2>2, PowerStutters
<1> QED
  BY <1>2, <1>3, <1>4, <1>5

LEMMA TakeIsIterate ==
  ASSUME TypeInv, OnceInv, FlowInv, NEW r \in Ranks, TakePageRanks(r)
  PROVE  Power(r)!Iterate
<1>1. InputInv /\ CtrlType
  BY TypeParts DEF TypeInv
<1>2. graph' = graph /\ pc[r] = "take" /\ pc'[r] = "taken" /\ job = "page" /\ job' = "page"
  BY <1>1 DEF TakePageRanks, Goto, CtrlType, input
<1> DEFINE col == NextColumn(r)
           old == pageRanks[r]
<1>3. /\ old \in [V -> Fraction] /\ col \in [V -> Fraction]
      /\ pageRanks'[r] = col /\ norm'[r] = calculateNorm(old, col)
  BY TakenColumn
<1>4. Power(r)!Multiplied(old) = col
  BY <1>1, SameMatrix DEF NextColumn
<1>5. norm'[r] # NaN
  <2> HIDE DEF col, old
  <2>1. IsFiniteSet(V)
    BY <1>1, InputFacts
  <2>2. calculateNorm(old, col) \in Fraction
    BY <1>3, <2>1, NormFraction
  <2> QED
    BY <1>3, <2>2, NaNAssumption, FractionIsValue
<1>6. ~Ended(r)
  BY <1>2 DEF Ended, Returned
<1>7. Ended(r)' <=> AtMost(calculateNorm(old, col), TOL)
  <2>1. Ended(r)' <=> ~Above(norm'[r])
    BY <1>2 DEF Ended, Returned, Above
  <2> QED
    BY <1>3, <1>5, <2>1 DEF Above
<1>8. Ended(r)' = Power(r)!AtMost(Power(r)!calculateNorm(old, col), Power(r)!TOL)
  <2>1. Ended(r)' = AtMost(calculateNorm(old, col), TOL)
    <3> HIDE DEF col, old
    <3>1. AtMost(calculateNorm(old, col), TOL) \in BOOLEAN
      BY DEF AtMost
    <3>2. Ended(r)' \in BOOLEAN
      BY DEF Ended
    <3> QED
      BY <1>7, <3>1, <3>2
  <2> QED
    BY <2>1, SameArithmetic, SameIteration
<1> QED
  BY <1>2, <1>3, <1>4, <1>6, <1>8 DEF Power!Iterate, Ended

LEMMA StepIsPower ==
  ASSUME TypeInv, OnceInv, FlowInv, [Next]_vars
  PROVE  \A r \in Ranks : [Power(r)!Iterate]_(Power(r)!vars)
<1> SUFFICES ASSUME NEW r \in Ranks PROVE [Power(r)!Iterate]_(Power(r)!vars)
  OBVIOUS
<1>1. CASE TakePageRanks(r)
  BY <1>1, TakeIsIterate
<1>2. CASE ~TakePageRanks(r)
  <2>1. \/ Collective
        \/ \E s \in Ranks : Local(s) /\ (s = r => ~TakePageRanks(r))
        \/ UNCHANGED vars
    BY <1>2 DEF Next, Terminated
  <2> QED
    BY <2>1, QuietStep
<1> QED
  BY <1>1, <1>2

LEMMA OnceAlways == Spec => []OnceInv
<1>1. Init => OnceInv
  BY DEF Init, OnceInv
<1> QED
  BY <1>1, OnceNext, TypeAlways, PTL DEF Spec

LEMMA FlowAlways == Spec /\ []PagesFit => []FlowInv
BY FlowInit, FlowNext, TypeAlways, ProcessesAgree, OnceAlways, PTL DEF Spec

(* However the vertices are divided among the processes and whatever the hash *)
(* does, every process runs the promised iteration: from the uniform column,  *)
(* each pass of its loop multiplies with the Google matrix, and it leaves     *)
(* after the first iterate that is within TOL of the one before.  The         *)
(* hypothesis is that the values of each key fit in a page of the             *)
(* KeyMultiValue; MpiBaseLarge.cfg shows what happens without it.             *)
THEOREM ImplementsPowerIterationHolds == Spec /\ []PagesFit => ImplementsPowerIteration
<1> DEFINE Start == \A r \in Ranks : Power(r)!Init
           Steps == \A r \in Ranks : [Power(r)!Iterate]_(Power(r)!vars)
<1>1. Init => Start
  BY InitIsPower
<1>2. TypeInv /\ OnceInv /\ FlowInv /\ [Next]_vars => Steps
  BY StepIsPower
<1>3. Spec /\ []PagesFit => Start /\ [][Steps]_vars
  BY <1>1, <1>2, TypeAlways, OnceAlways, FlowAlways, PTL DEF Spec
<1> QED
  BY <1>3 DEF ImplementsPowerIteration

LEMMA NumberKept ==
  ASSUME TypeInv, FlowInv, \A r \in Ranks : factor[r] \in Fraction, [Next]_vars
  PROVE  \A r \in Ranks : factor'[r] \in Fraction
<1> SUFFICES ASSUME NEW r \in Ranks, factor'[r] # factor[r] PROVE factor'[r] \in Fraction
  OBVIOUS
<1>1. InputInv /\ RankType
  BY TypeParts DEF TypeInv
<1>2. TakeFactor(r)
  BY <1>1 DEF RankType, Next, Local, Collective, Terminated, vars, Barrier, Map, Collate, Reduce,
              Gather, SortKeys, Broadcast, TakeFactor, TakePageRanks, EndTake, Test, OpenFile,
              PrintLine, CloseFile
<1>3. pageRanks[r] \in [V -> Fraction] /\ pageRanks' = pageRanks
  BY <1>2 DEF FlowInv, Flow, Real, TakeFactor
<1>4. Flow(r)' /\ job' = "factor" /\ pc'[r] = "taken"
  BY <1>2, FlowTakeFactor, TypeParts DEF TakeFactor, Goto, TypeInv, CtrlType
<1>5. factor'[r] = NextFactor(r)'
  BY <1>4 DEF Flow, FactorFlow
<1>6. NextFactor(r)' = NextFactor(r)
  BY <1>1, <1>2, <1>3, NextSame DEF Next, Local
<1> QED
  BY <1>1, <1>3, <1>5, <1>6, NextRanks

(* What doc/reduce.html warns of is the only way to lose the factor: while the *)
(* values of each key fit in a page, the factor of every process is a number. *)
THEOREM FactorIsNumberHolds == Spec /\ []PagesFit => []FactorIsNumber
<1> DEFINE Numbers == \A r \in Ranks : factor[r] \in Fraction
<1>1. Init => Numbers
  BY UnitFractions DEF Init
<1>2. TypeInv /\ FlowInv /\ Numbers /\ [Next]_vars => Numbers'
  BY NumberKept
<1>3. Numbers => FactorIsNumber
  BY NaNAssumption, FractionIsValue DEF FactorIsNumber
<1>4. Spec /\ []PagesFit => []FlowInv
  BY FlowAlways
<1> QED
  BY <1>1, <1>2, <1>3, <1>4, TypeAlways, PTL DEF Spec
================================================================================
