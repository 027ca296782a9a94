------------------------------ MODULE Oink_proofs ------------------------------
(***************************************************************************)
(* Proofs about OINK and the map over files, for every script, file system *)
(* and number of ranks: the table of objects keeps what has a name and     *)
(* what commands point to, and the pieces of a file divide it.             *)
(***************************************************************************)
EXTENDS Oink, FiniteSetTheorems, SequenceTheorems, TLAPS

\* Facts on numbers and lists, which do not depend on the constants of WebGraph.
Numbers == INSTANCE WebGraph_proofs WITH A <- 1, B <- 2, T <- 1

LEMMA NumbersConstants == 1 \in Nat \ {0} /\ 2 \in Nat /\ 1 < 2
OBVIOUS

--------------------------------------------------------------------------------
(* Smallest and largest numbers, and folds over lists *)

LEMMA MinIsLeast ==
  ASSUME NEW S \in SUBSET Nat, S # {}
  PROVE  Min(S) \in S /\ \A y \in S : Min(S) <= y
<1>1. \E x \in S : \A y \in S : x <= y
  BY NumbersConstants, Numbers!LeastNumber
<1>. QED
  BY <1>1, Zenon DEF Min

LEMMA MaxIsIn ==
  ASSUME NEW n \in Nat, NEW s \in SUBSET (1 .. n), s # {}
  PROVE  Max(s) \in s
<1>1. Numbers!Largest(s) \in s
  BY NumbersConstants, Numbers!LargestIsIn, Zenon
<1>. QED
  BY <1>1, Zenon DEF Max, Numbers!Largest

LEMMA MaxOfPrefix ==
  ASSUME NEW n \in Nat, n # 0
  PROVE  Max(1 .. n) = n /\ (1 .. n) \ {n} = 1 .. n - 1 /\ 1 .. n # {}
<1>1. Numbers!Largest(1 .. n) = n /\ (1 .. n) \ {n} = 1 .. n - 1 /\ 1 .. n # {}
  BY NumbersConstants, Numbers!LargestOfPrefix, Zenon
<1>. QED
  BY <1>1, Zenon DEF Max, Numbers!Largest

LEMMA MaxOfTwo ==
  ASSUME NEW a \in Nat, NEW b \in Nat
  PROVE  Max({a, b}) \in {a, b} /\ a <= Max({a, b}) /\ b <= Max({a, b})
<1>1. \E x \in {a, b} : \A y \in {a, b} : x >= y
  OBVIOUS
<1>. QED
  BY <1>1, Zenon DEF Max

(* W computes a fold of f over the positions 1 .. n, for every set of them. *)
Folds(W, n, X, base, op, f) ==
  /\ W \in [SUBSET (1 .. n) -> X]
  /\ \A s \in SUBSET (1 .. n) :
       W[s] = IF s = {} THEN base ELSE op[<<f[Max(s)], W[s \ {Max(s)}]>>]

LEMMA FoldOfList ==
  ASSUME NEW n \in Nat, NEW X, NEW base \in X, NEW F, NEW op \in [F \X X -> X],
         NEW f \in [1 .. n -> F]
  PROVE  \E W : Folds(W, n, X, base, op, f)
<1>. DEFINE S == 1 .. n
            pick == [s \in SUBSET S |-> Max(s)]
<1>1. \A s \in SUBSET S : pick[s] = Max(s) /\ (s # {} => pick[s] \in s)
  BY MaxIsIn
<1>2. Numbers!IsFiniteSet(S)
  <2>1. IsFiniteSet(S)
    BY FS_Interval
  <2>. QED
    BY <2>1, Zenon DEF IsFiniteSet, Numbers!IsFiniteSet
<1>3. f \in [S -> F]
  OBVIOUS
<1>. HIDE DEF pick, S
<1>4. PICK W : Numbers!IsFoldWith(W, S, X, base, op, f, pick)
  BY <1>1, <1>2, <1>3, NumbersConstants, Numbers!FoldWithExists, Zenon
<1>5. Folds(W, n, X, base, op, f)
  BY <1>1, <1>4, Zenon DEF Numbers!IsFoldWith, Folds, S
<1>. QED
  BY <1>5

(* SumOf adds up a list of numbers. *)
Adding(list) ==
  CHOOSE iter : iter = [s \in SUBSET DOMAIN list |->
    IF s = {} THEN 0 ELSE iter[s \ {Max(s)}] + list[Max(s)]]

LEMMA SumIsPartialSum ==
  ASSUME NEW n \in Nat, NEW f \in [1 .. n -> Nat]
  PROVE  /\ SumOf(f) = Numbers!PartialSums(n, f)[n]
         /\ SumOf(f) \in Nat
<1>. DEFINE S == 1 .. n
            Body(W) == [s \in SUBSET S |-> IF s = {} THEN 0 ELSE W[s \ {Max(s)}] + f[Max(s)]]
            op == [p \in Nat \X Nat |-> p[2] + p[1]]
            G == Adding(f)
            P == Numbers!PartialSums(n, f)
<1>1. op \in [Nat \X Nat -> Nat] /\ \A x, y \in Nat : op[<<x, y>>] = y + x
  OBVIOUS
<1>2. PICK W : Folds(W, n, Nat, 0, op, f)
  <2>. HIDE DEF op
  <2>. QED
    BY <1>1, FoldOfList
<1>. HIDE DEF op
<1>3. \A s \in SUBSET S : W[s] = IF s = {} THEN 0 ELSE W[s \ {Max(s)}] + f[Max(s)]
  <2>. SUFFICES ASSUME NEW s \in SUBSET S, s # {}
                PROVE  W[s] = W[s \ {Max(s)}] + f[Max(s)]
    BY <1>2 DEF Folds
  <2>1. Max(s) \in S /\ f[Max(s)] \in Nat
    BY MaxIsIn
  <2>2. W[s \ {Max(s)}] \in Nat
    BY <1>2 DEF Folds
  <2>3. W[s] = op[<<f[Max(s)], W[s \ {Max(s)}]>>]
    BY <1>2 DEF Folds
  <2>. QED
    BY <1>1, <2>1, <2>2, <2>3
<1>4. W = Body(W)
  <2>1. W = [s \in SUBSET S |-> W[s]]
    BY <1>2 DEF Folds
  <2>. QED
    BY <1>3, <2>1, Zenon
<1>5. SumOf(f) = G[S] /\ G = CHOOSE U : U = Body(U)
  <2>1. DOMAIN f = S
    OBVIOUS
  <2>2. SumOf(f) = G[DOMAIN f]
    BY Zenon DEF SumOf, FoldLeft, MapThenFoldSet, Adding
  <2>. QED
    BY <2>1, <2>2, Zenon DEF Adding
<1>6. G = Body(G)
  <2>. HIDE DEF Body, G
  <2>. QED
    BY <1>4, <1>5
<1>. HIDE DEF G
<1>7. G[{}] = 0 /\ \A s \in SUBSET S : s # {} => G[s] = G[s \ {Max(s)}] + f[Max(s)]
  BY <1>6
<1>8. Numbers!IsPartialSums(P, n, f)
  BY Numbers!PartialSumsExist, NumbersConstants, Zenon
<1>. HIDE DEF P
<1>9. \A i \in 0 .. n : G[1 .. i] = P[i]
  <2>. DEFINE Wrong == {i \in 0 .. n : G[1 .. i] # P[i]}
  <2>. SUFFICES ASSUME Wrong # {} PROVE FALSE
    OBVIOUS
  <2>1. PICK i \in Wrong : \A j \in Wrong : i <= j
    <3>1. Wrong \in SUBSET Nat
      OBVIOUS
    <3>. HIDE DEF Wrong
    <3>. QED
      BY <3>1, MinIsLeast
  <2>2. i # 0
    <3>1. 1 .. 0 = {}
      OBVIOUS
    <3>. QED
      BY <1>7, <1>8, <3>1 DEF Numbers!IsPartialSums
  <2>3. i \in 1 .. n /\ i - 1 \in 0 .. n /\ i - 1 \notin Wrong
    BY <2>1, <2>2
  <2>4. (1 .. i) \in SUBSET S /\ 1 .. i # {} /\ Max(1 .. i) = i /\ (1 .. i) \ {i} = 1 .. i - 1
    BY <2>3, MaxOfPrefix
  <2>5. G[1 .. i] = G[1 .. i - 1] + f[i]
    BY <1>7, <2>4
  <2>6. G[1 .. i - 1] = P[i - 1] /\ P[i] = P[i - 1] + f[i]
    BY <1>8, <2>3 DEF Numbers!IsPartialSums
  <2>. QED
    BY <2>5, <2>6
<1>10. SumOf(f) = P[n] /\ P[n] \in Nat
  <2>1. n \in 0 .. n
    OBVIOUS
  <2>2. P[n] \in Nat
    BY <1>8, <2>1, Zenon DEF Numbers!IsPartialSums
  <2>. QED
    BY <1>5, <1>9, <2>1, <2>2, Zenon
<1>. QED
  BY <1>10 DEF P

(* h is, entry by entry, the sum of f and g. *)
Adds(n, f, g, h) ==
  /\ f \in [1 .. n -> Nat] /\ g \in [1 .. n -> Nat] /\ h \in [1 .. n -> Nat]
  /\ \A i \in 1 .. n : h[i] = f[i] + g[i]

LEMMA SumsAdd ==
  ASSUME NEW n \in Nat, NEW f, NEW g, NEW h, Adds(n, f, g, h)
  PROVE  SumOf(h) = SumOf(f) + SumOf(g) /\ SumOf(f) \in Nat /\ SumOf(g) \in Nat
<1>1. Numbers!PartialSums(n, h)[n] = Numbers!PartialSums(n, f)[n] + Numbers!PartialSums(n, g)[n]
  BY NumbersConstants, Numbers!PartialSumsAdd, Zenon DEF Adds
<1>2. /\ SumOf(f) = Numbers!PartialSums(n, f)[n] /\ SumOf(f) \in Nat
      /\ SumOf(g) = Numbers!PartialSums(n, g)[n] /\ SumOf(g) \in Nat
      /\ SumOf(h) = Numbers!PartialSums(n, h)[n]
  BY SumIsPartialSum, Zenon DEF Adds
<1>. QED
  BY <1>1, <1>2

(* What is in a list of lists put end to end, and how much it is. *)
IsFlat(flat, seqs) ==
  /\ \A t \in DOMAIN flat : \E i \in DOMAIN seqs : \E j \in DOMAIN seqs[i] : seqs[i][j] = flat[t]
  /\ \A i \in DOMAIN seqs : \A j \in DOMAIN seqs[i] : \E t \in DOMAIN flat : flat[t] = seqs[i][j]

LEMMA Flattened ==
  ASSUME NEW X, NEW seqs \in Seq(Seq(X))
  PROVE  /\ FlattenSeq(seqs) \in Seq(X)
         /\ IsFlat(FlattenSeq(seqs), seqs)
<1>1. Numbers!FlattenSeq(seqs) = FlattenSeq(seqs)
  BY Zenon DEF FlattenSeq, Numbers!FlattenSeq
<1>. DEFINE flat == FlattenSeq(seqs)
<1>2. /\ flat \in Seq(X)
      /\ Numbers!Elements(flat) = UNION {Numbers!Elements(seqs[i]) : i \in DOMAIN seqs}
  BY <1>1, NumbersConstants, Numbers!FlattenLists, Zenon
<1>. HIDE DEF flat
<1>3. \A x : (\E i \in DOMAIN flat : flat[i] = x)
               <=> \E i \in DOMAIN seqs : \E j \in DOMAIN seqs[i] : seqs[i][j] = x
  <2>. SUFFICES ASSUME NEW x
                PROVE  (\E i \in DOMAIN flat : flat[i] = x)
                         <=> \E i \in DOMAIN seqs : \E j \in DOMAIN seqs[i] : seqs[i][j] = x
    OBVIOUS
  <2>1. x \in Numbers!Elements(flat) <=> \E i \in DOMAIN seqs : x \in Numbers!Elements(seqs[i])
    BY <1>2
  <2>2. \A s : x \in Numbers!Elements(s) <=> \E j \in DOMAIN s : s[j] = x
    BY DEF Numbers!Elements
  <2>. QED
    BY <2>1, <2>2
<1>4. IsFlat(flat, seqs)
  BY <1>3 DEF IsFlat
<1>. QED
  BY <1>2, <1>4 DEF flat

LEMMA FlattenedLength ==
  ASSUME NEW X, NEW seqs \in Seq(Seq(X)),
         NEW lengths, lengths = [i \in 1 .. Len(seqs) |-> Len(seqs[i])]
  PROVE  Len(FlattenSeq(seqs)) = SumOf(lengths)
<1>. DEFINE n == Len(seqs)
<1>1. Numbers!FlattenSeq(seqs) = FlattenSeq(seqs)
  BY Zenon DEF FlattenSeq, Numbers!FlattenSeq
<1>2. PICK P \in [0 .. n -> Seq(X)] :
        /\ P[0] = <<>>
        /\ \A i \in 1 .. n : P[i] = P[i - 1] \o seqs[i]
        /\ FlattenSeq(seqs) = P[n]
  BY <1>1, NumbersConstants, Numbers!FlattenSteps, Zenon
<1>3. n \in Nat /\ seqs \in [1 .. n -> Seq(X)] /\ lengths \in [1 .. n -> Nat]
  OBVIOUS
<1>4. lengths = [i \in 1 .. n |-> Len(seqs[i])]
  OBVIOUS
<1>. HIDE DEF n
<1>. DEFINE U == [i \in 0 .. n |-> Len(P[i])]
<1>5. U \in [0 .. n -> Nat] /\ U[0] = 0
  <2>1. \A i \in 0 .. n : Len(P[i]) \in Nat
    BY <1>2
  <2>2. 0 \in 0 .. n /\ Len(P[0]) = 0
    BY <1>2, <1>3
  <2>. QED
    BY <2>1, <2>2
<1>6. ASSUME NEW i \in 1 .. n PROVE U[i] = U[i - 1] + lengths[i]
  <2>1. i \in 0 .. n /\ i - 1 \in 0 .. n
    BY <1>3
  <2>2. P[i] = P[i - 1] \o seqs[i] /\ P[i - 1] \in Seq(X) /\ seqs[i] \in Seq(X)
    BY <1>2, <1>3, <2>1
  <2>3. Len(P[i]) = Len(P[i - 1]) + Len(seqs[i])
    BY <2>2
  <2>. QED
    BY <1>4, <2>1, <2>3
<1>7. Numbers!IsPartialSums(U, n, lengths)
  <2>. HIDE DEF U
  <2>. QED
    BY <1>5, <1>6, Zenon DEF Numbers!IsPartialSums
<1>8. Numbers!PartialSums(n, lengths) = U
  <2>1. Numbers!IsPartialSums(Numbers!PartialSums(n, lengths), n, lengths)
    BY <1>3, NumbersConstants, Numbers!PartialSumsExist, Zenon
  <2>. HIDE DEF U
  <2>. QED
    BY <1>3, <1>7, <2>1, NumbersConstants, Numbers!PartialSumsUnique, Zenon
<1>9. SumOf(lengths) = U[n]
  BY <1>3, <1>8, SumIsPartialSum
<1>10. n \in 0 .. n
  BY <1>3
<1>. QED
  BY <1>2, <1>9, <1>10

--------------------------------------------------------------------------------
(* The table of objects: what cleanup() leaves *)

Passing(acc, e) ==
  IF acc.skip \/ e.mode = "PERMANENT"
    THEN [kept |-> Append(acc.kept, e), skip |-> FALSE]
    ELSE [acc EXCEPT !.skip = TRUE]
NothingPassed == [kept |-> <<>>, skip |-> FALSE]
Passed(X) == [kept : Seq(X), skip : BOOLEAN]

\* the fold of Survivors over a set of positions
Surviving(w) ==
  CHOOSE iter : iter = [s \in SUBSET DOMAIN w |->
    IF s = {} THEN NothingPassed ELSE Passing(iter[s \ {Max(s)}], w[Max(s)])]

LEMMA SurvivorsIsFold == \A w : Survivors(w) = Surviving(w)[DOMAIN w].kept
BY Zenon DEF Survivors, Surviving, FoldLeft, MapThenFoldSet, Passing, NothingPassed

LEMMA PassingType ==
  ASSUME NEW X, NEW acc \in Passed(X), NEW e \in X
  PROVE  Passing(acc, e) \in Passed(X)
<1>1. Append(acc.kept, e) \in Seq(X)
  BY DEF Passed
<1>. QED
  BY <1>1 DEF Passed, Passing

(* The loop of cleanup(), entry by entry. *)
IsPassage(R, w, X) ==
  /\ R \in [0 .. Len(w) -> Passed(X)]
  /\ R[0] = NothingPassed
  /\ \A i \in 1 .. Len(w) : R[i] = Passing(R[i - 1], w[i])
  /\ Survivors(w) = R[Len(w)].kept

LEMMA SurvivorsSteps ==
  ASSUME NEW X, NEW w \in Seq(X)
  PROVE  \E R : IsPassage(R, w, X)
<1>. DEFINE n == Len(w)
            S == 1 .. n
            Body(W) == [s \in SUBSET S |->
                          IF s = {} THEN NothingPassed ELSE Passing(W[s \ {Max(s)}], w[Max(s)])]
            op == [p \in X \X Passed(X) |-> Passing(p[2], p[1])]
            G == Surviving(w)
            R == [i \in 0 .. n |-> G[1 .. i]]
<1>0. n \in Nat /\ w \in [1 .. n -> X] /\ DOMAIN w = S
  OBVIOUS
<1>. HIDE DEF n
<1>1. /\ op \in [X \X Passed(X) -> Passed(X)]
      /\ \A e \in X, acc \in Passed(X) : op[<<e, acc>>] = Passing(acc, e)
  BY PassingType
<1>. HIDE DEF op
<1>2. NothingPassed \in Passed(X)
  BY DEF NothingPassed, Passed
<1>3. PICK W : Folds(W, n, Passed(X), NothingPassed, op, w)
  BY <1>0, <1>1, <1>2, FoldOfList
<1>4. \A s \in SUBSET S : W[s] = IF s = {} THEN NothingPassed ELSE Passing(W[s \ {Max(s)}], w[Max(s)])
  <2>. SUFFICES ASSUME NEW s \in SUBSET S, s # {}
                PROVE  W[s] = Passing(W[s \ {Max(s)}], w[Max(s)])
    BY <1>3 DEF Folds
  <2>1. Max(s) \in S /\ w[Max(s)] \in X
    BY <1>0, MaxIsIn
  <2>2. W[s \ {Max(s)}] \in Passed(X)
    BY <1>3 DEF Folds
  <2>3. W[s] = op[<<w[Max(s)], W[s \ {Max(s)}]>>]
    BY <1>3 DEF Folds
  <2>. QED
    BY <1>1, <2>1, <2>2, <2>3
<1>5. W = Body(W)
  <2>1. W = [s \in SUBSET S |-> W[s]]
    BY <1>3 DEF Folds
  <2>. QED
    BY <1>4, <2>1, Zenon
<1>6. G = CHOOSE U : U = Body(U)
  BY <1>0, Zenon DEF Surviving
<1>7. G = Body(G)
  <2>. HIDE DEF Body, G
  <2>. QED
    BY <1>5, <1>6
<1>8. Survivors(w) = G[S].kept
  BY <1>0, SurvivorsIsFold, Zenon
<1>. HIDE DEF G
<1>9. G[{}] = NothingPassed /\ \A s \in SUBSET S : s # {} => G[s] = Passing(G[s \ {Max(s)}], w[Max(s)])
  BY <1>7
<1>10. G[1 .. 0] = NothingPassed
  <2>1. 1 .. 0 = {}
    OBVIOUS
  <2>. QED
    BY <1>9, <2>1
<1>11. ASSUME NEW i \in 1 .. n PROVE G[1 .. i] = Passing(G[1 .. i - 1], w[i])
  <2>1. (1 .. i) \in SUBSET S /\ i \in Nat /\ i # 0
    BY <1>0
  <2>2. 1 .. i # {} /\ Max(1 .. i) = i /\ (1 .. i) \ {i} = 1 .. i - 1
    BY <2>1, MaxOfPrefix
  <2>. QED
    BY <1>9, <2>1, <2>2
<1>12. \A i \in 0 .. n : G[1 .. i] \in Passed(X)
  <2>. DEFINE Wrong == {i \in 0 .. n : G[1 .. i] \notin Passed(X)}
  <2>. SUFFICES ASSUME Wrong # {} PROVE FALSE
    OBVIOUS
  <2>1. PICK i \in Wrong : \A j \in Wrong : i <= j
    <3>1. Wrong \in SUBSET Nat
      BY <1>0
    <3>. HIDE DEF Wrong
    <3>. QED
      BY <3>1, MinIsLeast
  <2>2. i # 0
    BY <1>2, <1>10
  <2>3. i \in 1 .. n /\ i - 1 \in 0 .. n /\ i - 1 \notin Wrong
    BY <1>0, <2>1, <2>2
  <2>4. G[1 .. i - 1] \in Passed(X) /\ w[i] \in X
    BY <1>0, <2>3
  <2>5. Passing(G[1 .. i - 1], w[i]) \in Passed(X)
    BY <2>4, PassingType
  <2>. QED
    BY <1>11, <2>1, <2>3, <2>5
<1>13. /\ R \in [0 .. n -> Passed(X)]
       /\ R[0] = NothingPassed
       /\ \A i \in 1 .. n : R[i] = Passing(R[i - 1], w[i])
       /\ Survivors(w) = R[n].kept
  <2>1. R \in [0 .. n -> Passed(X)] /\ R[0] = NothingPassed
    BY <1>0, <1>10, <1>12
  <2>2. \A i \in 1 .. n : R[i] = Passing(R[i - 1], w[i])
    <3>. SUFFICES ASSUME NEW i \in 1 .. n PROVE R[i] = Passing(R[i - 1], w[i])
      OBVIOUS
    <3>1. i \in 0 .. n /\ i - 1 \in 0 .. n
      BY <1>0
    <3>2. R[i] = G[1 .. i] /\ R[i - 1] = G[1 .. i - 1]
      BY <3>1
    <3>. HIDE DEF R
    <3>. QED
      BY <1>11, <3>2
  <2>3. R[n] = G[S]
    BY <1>0
  <2>. HIDE DEF R
  <2>. QED
    BY <1>8, <2>1, <2>2, <2>3
<1>. HIDE DEF R
<1>. QED
  BY <1>13 DEF IsPassage, n

LEMMA Appended ==
  ASSUME NEW X, NEW s \in Seq(X), NEW e \in X
  PROVE  /\ Append(s, e) \in Seq(X) /\ Len(s) + 1 \notin DOMAIN s
         /\ DOMAIN Append(s, e) = DOMAIN s \cup {Len(s) + 1}
         /\ Append(s, e)[Len(s) + 1] = e
         /\ \A k \in DOMAIN s : Append(s, e)[k] = s[k]
OBVIOUS

(* Only entries of the table survive, and all that have a name do. *)
LEMMA NamedSurvive ==
  ASSUME NEW X, NEW w \in Seq(X)
  PROVE  /\ Survivors(w) \in Seq(X)
         /\ \A i \in DOMAIN Survivors(w) : \E j \in DOMAIN w : w[j] = Survivors(w)[i]
         /\ \A j \in DOMAIN w : Permanent(w, j) =>
              \E i \in DOMAIN Survivors(w) : Survivors(w)[i] = w[j]
<1>. DEFINE n == Len(w)
<1>1. PICK R : IsPassage(R, w, X)
  BY SurvivorsSteps
<1>2. n \in Nat /\ w \in [1 .. n -> X] /\ DOMAIN w = 1 .. n
  OBVIOUS
<1>3. /\ R \in [0 .. n -> Passed(X)]
      /\ R[0] = NothingPassed
      /\ \A i \in 1 .. n : R[i] = Passing(R[i - 1], w[i])
      /\ Survivors(w) = R[n].kept
  BY <1>1 DEF IsPassage
<1>. HIDE DEF n
<1>. DEFINE From(i) == \A k \in DOMAIN R[i].kept : \E j \in 1 .. i : w[j] = R[i].kept[k]
            Has(i) == \A j \in 1 .. i : Permanent(w, j) => \E k \in DOMAIN R[i].kept : R[i].kept[k] = w[j]
<1>4. \A i \in 0 .. n : From(i) /\ Has(i)
  <2>. DEFINE Wrong == {i \in 0 .. n : ~(From(i) /\ Has(i))}
  <2>. SUFFICES ASSUME Wrong # {} PROVE FALSE
    OBVIOUS
  <2>1. PICK i \in Wrong : \A j \in Wrong : i <= j
    <3>1. Wrong \in SUBSET Nat
      BY <1>2
    <3>. HIDE DEF Wrong
    <3>. QED
      BY <3>1, MinIsLeast
  <2>2. From(0) /\ Has(0)
    BY <1>3 DEF NothingPassed
  <2>3. i \in 1 .. n /\ i - 1 \in 0 .. n /\ i - 1 \notin Wrong
    <3>1. i # 0
      BY <2>2
    <3>. QED
      BY <1>2, <2>1, <3>1
  <2>4. From(i - 1) /\ Has(i - 1)
    BY <2>3
  <2>5. R[i] = Passing(R[i - 1], w[i]) /\ R[i - 1] \in Passed(X) /\ R[i - 1].kept \in Seq(X) /\ w[i] \in X
    BY <1>2, <1>3, <2>3 DEF Passed
  <2>6. 1 .. i = (1 .. i - 1) \cup {i}
    BY <1>2, <2>3
  <2>7. CASE R[i - 1].skip \/ w[i].mode = "PERMANENT"
    <3>1. R[i].kept = Append(R[i - 1].kept, w[i])
      BY <2>5, <2>7 DEF Passing
    <3>. DEFINE old == R[i - 1].kept
                new == R[i].kept
    <3>2. /\ DOMAIN new = DOMAIN old \cup {Len(old) + 1} /\ Len(old) + 1 \in DOMAIN new
          /\ new[Len(old) + 1] = w[i]
          /\ \A k \in DOMAIN old : new[k] = old[k]
      <4>1. old \in Seq(X) /\ w[i] \in X /\ new = Append(old, w[i])
        BY <2>5, <3>1
      <4>. HIDE DEF old, new
      <4>. QED
        BY <4>1, Appended
    <3>. HIDE DEF old, new
    <3>3. From(i)
      <4>. SUFFICES ASSUME NEW k \in DOMAIN new PROVE \E j \in 1 .. i : w[j] = new[k]
        BY DEF new
      <4>1. CASE k \in DOMAIN old
        BY <2>4, <2>6, <3>2, <4>1 DEF old
      <4>2. CASE k = Len(old) + 1
        BY <2>6, <3>2, <4>2
      <4>. QED
        BY <3>2, <4>1, <4>2
    <3>4. Has(i)
      <4>. SUFFICES ASSUME NEW j \in 1 .. i, Permanent(w, j) PROVE \E k \in DOMAIN new : new[k] = w[j]
        BY DEF new
      <4>1. CASE j \in 1 .. i - 1
        <5>1. PICK k \in DOMAIN old : old[k] = w[j]
          BY <2>4, <4>1 DEF old
        <5>. QED
          BY <3>2, <5>1
      <4>2. CASE j = i
        BY <3>2, <4>2
      <4>. QED
        BY <2>6, <4>1, <4>2
    <3>. QED
      BY <2>1, <3>3, <3>4
  <2>8. CASE ~(R[i - 1].skip \/ w[i].mode = "PERMANENT")
    <3>1. R[i].kept = R[i - 1].kept
      BY <2>5, <2>8 DEF Passing, Passed
    <3>2. ~Permanent(w, i)
      BY <2>8 DEF Permanent
    <3>3. From(i)
      BY <2>4, <2>6, <3>1
    <3>4. Has(i)
      <4>. SUFFICES ASSUME NEW j \in 1 .. i, Permanent(w, j)
                    PROVE  \E k \in DOMAIN R[i].kept : R[i].kept[k] = w[j]
        OBVIOUS
      <4>1. j \in 1 .. i - 1
        BY <2>6, <3>2
      <4>. QED
        BY <2>4, <3>1, <4>1
    <3>. QED
      BY <2>1, <3>3, <3>4
  <2>. QED
    BY <2>7, <2>8
<1>5. n \in 0 .. n /\ R[n] \in Passed(X)
  BY <1>2, <1>3
<1>6. R[n].kept \in Seq(X)
  BY <1>5 DEF Passed
<1>. QED
  BY <1>2, <1>3, <1>4, <1>5, <1>6

LEMMA TemporariesAppended ==
  ASSUME NEW X, NEW w \in Seq(X), NEW e \in X
  PROVE  /\ IsFiniteSet(Temporaries(w)) /\ Cardinality(Temporaries(w)) \in Nat
         /\ Cardinality(Temporaries(Append(w, e)))
              = IF e.mode = "PERMANENT" THEN Cardinality(Temporaries(w))
                ELSE Cardinality(Temporaries(w)) + 1
<1>. DEFINE m == Len(w) + 1
            v == Append(w, e)
<1>1. /\ DOMAIN w = 1 .. Len(w) /\ Len(w) \in Nat /\ m \notin DOMAIN w
      /\ DOMAIN v = DOMAIN w \cup {m} /\ v[m] = e /\ \A i \in DOMAIN w : v[i] = w[i]
  BY Appended
<1>. HIDE DEF m, v
<1>2. IsFiniteSet(Temporaries(w)) /\ m \notin Temporaries(w)
  <2>1. IsFiniteSet(1 .. Len(w))
    BY <1>1, FS_Interval
  <2>. QED
    BY <1>1, <2>1, FS_Subset DEF Temporaries
<1>3. Temporaries(v) = IF e.mode = "PERMANENT" THEN Temporaries(w) ELSE Temporaries(w) \cup {m}
  BY <1>1 DEF Temporaries, Permanent
<1>4. Cardinality(Temporaries(w)) \in Nat
  BY <1>2, FS_CardinalityType
<1>5. Cardinality(Temporaries(w) \cup {m}) = Cardinality(Temporaries(w)) + 1
  BY <1>2, FS_AddElement
<1>. QED
  BY <1>2, <1>3, <1>4, <1>5 DEF v

(* Of the temporary entries passed, at most half are kept, and one less while the
   next is to be passed over. *)
LEMMA HalfSurvives ==
  ASSUME NEW X, NEW w \in Seq(X)
  PROVE  2 * Cardinality(Temporaries(Survivors(w))) <= Cardinality(Temporaries(w))
<1>. DEFINE n == Len(w)
            Seen(i) == {j \in 1 .. i : ~Permanent(w, j)}
            Kept(r) == Cardinality(Temporaries(r.kept))
            Half(i, r) == 2 * Kept(r) + (IF r.skip THEN 1 ELSE 0) <= Cardinality(Seen(i))
<1>1. PICK R : IsPassage(R, w, X)
  BY SurvivorsSteps
<1>2. n \in Nat /\ w \in [1 .. n -> X] /\ DOMAIN w = 1 .. n
  OBVIOUS
<1>3. /\ R \in [0 .. n -> Passed(X)]
      /\ R[0] = NothingPassed
      /\ \A i \in 1 .. n : R[i] = Passing(R[i - 1], w[i])
      /\ Survivors(w) = R[n].kept
  BY <1>1 DEF IsPassage
<1>. HIDE DEF n
<1>4. \A i \in 0 .. n : IsFiniteSet(Seen(i)) /\ Cardinality(Seen(i)) \in Nat
  <2>. SUFFICES ASSUME NEW i \in 0 .. n PROVE IsFiniteSet(Seen(i)) /\ Cardinality(Seen(i)) \in Nat
    OBVIOUS
  <2>1. IsFiniteSet(1 .. i)
    BY <1>2, FS_Interval
  <2>2. IsFiniteSet(Seen(i))
    BY <2>1, FS_Subset
  <2>. QED
    BY <2>2, FS_CardinalityType
<1>5. \A i \in 0 .. n : Half(i, R[i])
  <2>. DEFINE Wrong == {i \in 0 .. n : ~Half(i, R[i])}
  <2>. SUFFICES ASSUME Wrong # {} PROVE FALSE
    OBVIOUS
  <2>. HIDE DEF Half
  <2>1. PICK i \in Wrong : \A j \in Wrong : i <= j
    <3>1. Wrong \in SUBSET Nat
      BY <1>2
    <3>. HIDE DEF Wrong
    <3>. QED
      BY <3>1, MinIsLeast
  <2>2. Half(0, R[0])
    <3>1. R[0].kept = <<>> /\ ~R[0].skip
      BY <1>3 DEF NothingPassed
    <3>2. Temporaries(R[0].kept) = {} /\ Seen(0) = {}
      BY <3>1 DEF Temporaries
    <3>3. Kept(R[0]) = 0 /\ Cardinality(Seen(0)) = 0
      BY <3>2, FS_EmptySet
    <3>. QED
      BY <3>1, <3>3 DEF Half
  <2>3. i \in 1 .. n /\ i - 1 \in 0 .. n /\ i - 1 \notin Wrong
    <3>1. i # 0
      BY <2>2
    <3>. QED
      BY <1>2, <2>1, <3>1
  <2>4. PICK r \in Passed(X) : r = R[i - 1] /\ Half(i - 1, r) /\ R[i] = Passing(r, w[i]) /\ w[i] \in X
    BY <1>2, <1>3, <2>3
  <2>5. r.kept \in Seq(X) /\ r.skip \in BOOLEAN
    BY DEF Passed
  <2>6. /\ Kept(r) \in Nat
        /\ Cardinality(Temporaries(Append(r.kept, w[i])))
             = IF w[i].mode = "PERMANENT" THEN Kept(r) ELSE Kept(r) + 1
    BY <2>4, <2>5, TemporariesAppended
  <2>7. Cardinality(Seen(i)) = IF w[i].mode = "PERMANENT" THEN Cardinality(Seen(i - 1))
                               ELSE Cardinality(Seen(i - 1)) + 1
    <3>1. 1 .. i = (1 .. i - 1) \cup {i} /\ i \notin 1 .. i - 1
      BY <1>2, <2>3
    <3>2. Seen(i) = IF w[i].mode = "PERMANENT" THEN Seen(i - 1) ELSE Seen(i - 1) \cup {i}
      BY <3>1 DEF Permanent
    <3>3. i \notin Seen(i - 1)
      BY <3>1
    <3>4. Cardinality(Seen(i - 1) \cup {i}) = Cardinality(Seen(i - 1)) + 1
      <4>1. IsFiniteSet(Seen(i - 1))
        BY <1>4, <2>3
      <4>. HIDE DEF Seen
      <4>. QED
        BY <3>3, <4>1, FS_AddElement
    <3>. HIDE DEF Seen
    <3>. QED
      BY <3>2, <3>4
  <2>. DEFINE c == Cardinality(Seen(i - 1))
              d == Cardinality(Seen(i))
              k == Kept(r)
  <2>8. c \in Nat /\ k \in Nat /\ d = (IF w[i].mode = "PERMANENT" THEN c ELSE c + 1)
        /\ 2 * k + (IF r.skip THEN 1 ELSE 0) <= c
    BY <1>4, <2>3, <2>4, <2>6, <2>7 DEF Half
  <2>. HIDE DEF c, d, k
  <2>9. CASE r.skip \/ w[i].mode = "PERMANENT"
    <3>1. R[i].kept = Append(r.kept, w[i]) /\ ~R[i].skip
      BY <2>4, <2>9 DEF Passing
    <3>2. Kept(R[i]) = IF w[i].mode = "PERMANENT" THEN k ELSE k + 1
      BY <2>6, <3>1 DEF k
    <3>3. 2 * Kept(R[i]) + 0 <= d
      <4>. HIDE DEF Kept
      <4>. QED
        BY <2>8, <2>9, <3>2
    <3>. QED
      BY <2>1, <3>1, <3>3 DEF Half, d
  <2>10. CASE ~(r.skip \/ w[i].mode = "PERMANENT")
    <3>1. R[i].kept = r.kept /\ R[i].skip
      BY <2>4, <2>10 DEF Passing, Passed
    <3>2. Kept(R[i]) = k
      BY <3>1 DEF k
    <3>3. 2 * Kept(R[i]) + 1 <= d
      <4>. HIDE DEF Kept
      <4>. QED
        BY <2>8, <2>10, <3>2
    <3>. QED
      BY <2>1, <3>1, <3>3 DEF Half, d
  <2>. QED
    BY <2>9, <2>10
<1>6. n \in 0 .. n /\ R[n] \in Passed(X) /\ Half(n, R[n])
  <2>1. n \in 0 .. n
    BY <1>2
  <2>. HIDE DEF Half
  <2>. QED
    BY <1>3, <1>5, <2>1
<1>7. Seen(n) = Temporaries(w)
  BY <1>2 DEF Temporaries
<1>8. Kept(R[n]) \in Nat /\ Cardinality(Seen(n)) \in Nat
  <2>1. R[n].kept \in Seq(X)
    BY <1>6 DEF Passed
  <2>2. IsFiniteSet(Temporaries(R[n].kept))
    <3>1. IsFiniteSet(1 .. Len(R[n].kept)) /\ DOMAIN R[n].kept = 1 .. Len(R[n].kept)
      BY <2>1, FS_Interval
    <3>. QED
      BY <3>1, FS_Subset DEF Temporaries
  <2>. QED
    BY <1>4, <1>6, <2>2, FS_CardinalityType
<1>9. 2 * Kept(R[n]) <= Cardinality(Seen(n))
  <2>1. 2 * Kept(R[n]) + (IF R[n].skip THEN 1 ELSE 0) <= Cardinality(Seen(n))
    BY <1>6
  <2>. HIDE DEF Kept, Seen
  <2>. QED
    BY <1>8, <2>1
<1>. QED
  BY <1>3, <1>7, <1>9

--------------------------------------------------------------------------------
(* The table of objects under the lines and steps of a script *)

IsList(s) == s \in Seq(Range(s))

LEMMA ListOf ==
  ASSUME NEW X, NEW s \in Seq(X)
  PROVE  IsList(s) /\ Range(s) \subseteq X /\ DOMAIN s = 1 .. Len(s) /\ Len(s) \in Nat
<1>1. s \in [1 .. Len(s) -> X] /\ Len(s) \in Nat
  OBVIOUS
<1>2. s \in [1 .. Len(s) -> Range(s)]
  BY <1>1 DEF Range
<1>. QED
  BY <1>1, <1>2 DEF IsList, Range

LEMMA ListIn ==
  ASSUME NEW s, IsList(s), NEW X, Range(s) \subseteq X
  PROVE  s \in Seq(X)
<1>1. s \in [1 .. Len(s) -> Range(s)] /\ Len(s) \in Nat
  BY DEF IsList
<1>2. s \in [1 .. Len(s) -> X]
  BY <1>1
<1>. QED
  BY <1>1, <1>2

TableInv ==
  /\ mrwrap \in Seq(Entry)
  /\ \A i \in DOMAIN mrwrap : (mrwrap[i].name = None) = (mrwrap[i].mode = "TEMPORARY")
  /\ alive \in SUBSET Nat /\ IsFiniteSet(alive)

LEMMA NewMrIsNumber ==
  ASSUME TableInv
  PROVE  NewMr \in Nat
<1>. DEFINE S == 1 .. Cardinality(alive) + 1
<1>1. IsFiniteSet(alive) /\ Cardinality(alive) \in Nat
  BY FS_CardinalityType DEF TableInv
<1>2. IsFiniteSet(S) /\ Cardinality(S) = Cardinality(alive) + 1
  <2>1. PICK c \in Nat : c = Cardinality(alive)
    BY <1>1
  <2>2. 1 \in Int /\ c + 1 \in Int /\ ~(1 > c + 1) /\ (c + 1) - 1 + 1 = c + 1
    BY SMT
  <2>3. IsFiniteSet(1 .. c + 1) /\ Cardinality(1 .. c + 1) = c + 1
    BY <2>2, FS_Interval
  <2>. QED
    BY <2>1, <2>3
<1>3. S \ alive # {}
  <2>1. SUFFICES ASSUME S \subseteq alive PROVE FALSE
    OBVIOUS
  <2>2. Cardinality(S) <= Cardinality(alive)
    BY <1>1, <2>1, FS_Subset
  <2>. HIDE DEF S
  <2>. QED
    BY <1>1, <1>2, <2>2
<1>4. S \ alive \in SUBSET Nat
  BY <1>1
<1>5. Min(S \ alive) \in S \ alive
  <2>. HIDE DEF S
  <2>. QED
    BY <1>3, <1>4, MinIsLeast
<1>. QED
  BY <1>1, <1>5 DEF NewMr

LEMMA FindMrFinds ==
  ASSUME TableInv, NEW name
  PROVE  FindMr(name) = 0 \/ /\ FindMr(name) \in DOMAIN mrwrap
                             /\ Permanent(mrwrap, FindMr(name)) /\ mrwrap[FindMr(name)].name = name
<1>. DEFINE at == {i \in DOMAIN mrwrap : Permanent(mrwrap, i) /\ mrwrap[i].name = name}
<1>1. FindMr(name) = IF at = {} THEN 0 ELSE Min(at)
  BY DEF FindMr
<1>2. at \in SUBSET Nat
  BY DEF TableInv
<1>3. at # {} => Min(at) \in at
  <2>. HIDE DEF at
  <2>. QED
    BY <1>2, MinIsLeast
<1>. QED
  BY <1>1, <1>3

(* v has the entries of w, and perhaps one more with the object mr. *)
Extends(v, w, mr) ==
  /\ v \in Seq(Entry)
  /\ \A i \in DOMAIN w : i \in DOMAIN v /\ v[i] = w[i]
  /\ \E i \in DOMAIN v : v[i].mr = mr

LEMMA WrapExtends ==
  ASSUME TableInv, NEW name \in Names \cup {None}, Wrap(name)
  PROVE  TableInv' /\ Extends(mrwrap', mrwrap, NewMr)
<1>. DEFINE e == IF name = None THEN Temporarily(NewMr) ELSE Permanently(NewMr, name)
<1>1. NewMr \in Nat
  BY NewMrIsNumber
<1>2. e \in Entry /\ e.mr = NewMr /\ (e.name = None) = (e.mode = "TEMPORARY")
  BY <1>1 DEF Entry, Temporarily, Permanently
<1>3. mrwrap \in Seq(Entry) /\ mrwrap' = Append(mrwrap, e)
  BY DEF TableInv, Wrap, AddMr
<1>. HIDE DEF e
<1>4. /\ mrwrap' \in Seq(Entry) /\ DOMAIN mrwrap' = DOMAIN mrwrap \cup {Len(mrwrap) + 1}
      /\ mrwrap'[Len(mrwrap) + 1] = e
      /\ \A k \in DOMAIN mrwrap : mrwrap'[k] = mrwrap[k]
  BY <1>2, <1>3, Appended
<1>5. Extends(mrwrap', mrwrap, NewMr)
  BY <1>2, <1>4 DEF Extends
<1>6. alive' \in SUBSET Nat /\ IsFiniteSet(alive')
  BY <1>1, FS_AddElement DEF TableInv, Wrap
<1>7. \A i \in DOMAIN mrwrap' : (mrwrap'[i].name = None) = (mrwrap'[i].mode = "TEMPORARY")
  BY <1>2, <1>4 DEF TableInv
<1>. QED
  BY <1>4, <1>5, <1>6, <1>7 DEF TableInv

LEMMA CleanupTable ==
  ASSUME TableInv, NEW w \in Seq(Entry), Cleanup(w),
         \A i \in DOMAIN w : (w[i].name = None) = (w[i].mode = "TEMPORARY")
  PROVE  TableInv'
<1>1. /\ Survivors(w) \in Seq(Entry)
      /\ \A i \in DOMAIN Survivors(w) : \E j \in DOMAIN w : w[j] = Survivors(w)[i]
  BY NamedSurvive
<1>2. mrwrap' = Survivors(w)
  BY DEF Cleanup
<1>3. alive' \in SUBSET alive
  BY DEF Cleanup
<1>4. alive' \in SUBSET Nat /\ IsFiniteSet(alive')
  BY <1>3, FS_Subset DEF TableInv
<1>. QED
  BY <1>1, <1>2, <1>4 DEF TableInv

LEMMA RenameTable ==
  ASSUME TableInv, NEW index, NEW name \in Names, mrwrap' = Rename(mrwrap, index, name),
         alive' = alive
  PROVE  /\ TableInv'
         /\ DOMAIN mrwrap' = DOMAIN mrwrap
         /\ \A i \in DOMAIN mrwrap : mrwrap'[i].mr = mrwrap[i].mr
<1>1. mrwrap \in [1 .. Len(mrwrap) -> Entry] /\ Len(mrwrap) \in Nat
  BY DEF TableInv
<1>2. DOMAIN mrwrap' = DOMAIN mrwrap
  BY DEF Rename
<1>3. name # None
  BY ScriptAssumption
<1>4. ASSUME NEW i \in DOMAIN mrwrap
      PROVE  /\ mrwrap'[i] \in Entry /\ mrwrap'[i].mr = mrwrap[i].mr
             /\ (mrwrap'[i].name = None) = (mrwrap'[i].mode = "TEMPORARY")
  <2>1. mrwrap[i] \in Entry /\ mrwrap[i].mr \in Nat
    BY <1>1 DEF Entry
  <2>2. CASE i = index
    <3>1. mrwrap'[i] = Permanently(mrwrap[i].mr, name)
      BY <2>2 DEF Rename
    <3>. QED
      BY <1>3, <2>1, <3>1 DEF Entry, Permanently
  <2>3. CASE i # index /\ Permanent(mrwrap, i) /\ mrwrap[i].name = name
    <3>1. mrwrap'[i] = Temporarily(mrwrap[i].mr)
      BY <2>3 DEF Rename
    <3>. QED
      BY <2>1, <3>1 DEF Entry, Temporarily
  <2>4. CASE i # index /\ ~(Permanent(mrwrap, i) /\ mrwrap[i].name = name)
    <3>1. mrwrap'[i] = mrwrap[i]
      BY <2>4 DEF Rename
    <3>. QED
      BY <2>1, <3>1 DEF TableInv
  <2>. QED
    BY <2>2, <2>3, <2>4
<1>5. mrwrap' \in Seq(Entry)
  <2>1. mrwrap' = [i \in 1 .. Len(mrwrap) |-> mrwrap'[i]]
    BY <1>1 DEF Rename
  <2>2. mrwrap' \in [1 .. Len(mrwrap) -> Entry]
    BY <1>1, <1>4, <2>1
  <2>. QED
    BY <1>1, <2>2
<1>. QED
  BY <1>2, <1>4, <1>5 DEF TableInv

--------------------------------------------------------------------------------
(* The commands: their steps, and which inputs and pointers a step uses *)

OutputStep(c) == IF c = "histo" THEN 4 ELSE 5
\* from the step after this one on, the pointer x has been set
PointerStep(c) == IF c = "degree_weight" THEN 3 ELSE 1

StepShape(c, k) ==
  /\ Run(c)[k][1] \in {"read", "create", "own", "alter", "output", "cleanup"}
  /\ Run(c)[k][1] # "cleanup" => k + 1 \in DOMAIN Run(c)
  /\ Run(c)[k][1] = "read" => Run(c)[k][3] \in 1 .. Inputs(c)
  /\ Run(c)[k][1] \in {"own", "output"} => Run(c)[k][2] = "x" /\ k > PointerStep(c)
  /\ k = PointerStep(c) => Run(c)[k][1] \in {"read", "create"} /\ Run(c)[k][2] = "x"
  /\ Run(c)[k][1] = "output" => k = OutputStep(c)

LEMMA RunShape ==
  ASSUME NEW c \in Commands
  PROVE  /\ 1 \in DOMAIN Run(c) /\ DOMAIN Run(c) \subseteq Nat
         /\ \A k \in DOMAIN Run(c) : StepShape(c, k)
<1>1. CASE c = "degree_weight"
  <2>1. Run(c) = <<<<"read", "e", 1>>, <<"read", "d", 2>>, <<"create", "x">>,
                   <<"alter", "x">>, <<"output", "x">>, <<"cleanup">>>>
    BY <1>1 DEF Run
  <2>2. DOMAIN Run(c) = 1 .. 6
    BY <2>1
  <2>3. /\ Run(c)[1] = <<"read", "e", 1>> /\ Run(c)[2] = <<"read", "d", 2>>
        /\ Run(c)[3] = <<"create", "x">> /\ Run(c)[4] = <<"alter", "x">>
        /\ Run(c)[5] = <<"output", "x">> /\ Run(c)[6] = <<"cleanup">>
    BY <2>1
  <2>4. 1 .. 6 = {1, 2, 3, 4, 5, 6}
    OBVIOUS
  <2>5. \A k \in {1, 2, 3, 4, 5, 6} : StepShape(c, k)
    BY <1>1, <2>2, <2>3 DEF StepShape, Inputs, OutputStep, PointerStep
  <2>. QED
    BY <2>2, <2>4, <2>5
<1>2. CASE c = "histo"
  <2>1. Run(c) = <<<<"read", "x", 1>>, <<"own", "x">>, <<"alter", "x">>,
                   <<"output", "x">>, <<"own", "x">>, <<"alter", "x">>, <<"cleanup">>>>
    BY <1>2 DEF Run
  <2>2. DOMAIN Run(c) = 1 .. 7
    BY <2>1
  <2>3. /\ Run(c)[1] = <<"read", "x", 1>> /\ Run(c)[2] = <<"own", "x">>
        /\ Run(c)[3] = <<"alter", "x">> /\ Run(c)[4] = <<"output", "x">>
        /\ Run(c)[5] = <<"own", "x">> /\ Run(c)[6] = <<"alter", "x">>
        /\ Run(c)[7] = <<"cleanup">>
    BY <2>1
  <2>4. 1 .. 7 = {1, 2, 3, 4, 5, 6, 7}
    OBVIOUS
  <2>5. \A k \in {1, 2, 3, 4, 5, 6, 7} : StepShape(c, k)
    BY <1>2, <2>2, <2>3 DEF StepShape, Inputs, OutputStep, PointerStep
  <2>. QED
    BY <2>2, <2>4, <2>5
<1>3. CASE c = "pagerank"
  <2>1. Run(c) = <<<<"read", "x", 1>>, <<"create", "v">>, <<"create", "r">>,
                   <<"alter", "v">>, <<"output", "x">>, <<"cleanup">>>>
    BY <1>3 DEF Run
  <2>2. DOMAIN Run(c) = 1 .. 6
    BY <2>1
  <2>3. /\ Run(c)[1] = <<"read", "x", 1>> /\ Run(c)[2] = <<"create", "v">>
        /\ Run(c)[3] = <<"create", "r">> /\ Run(c)[4] = <<"alter", "v">>
        /\ Run(c)[5] = <<"output", "x">> /\ Run(c)[6] = <<"cleanup">>
    BY <2>1
  <2>4. 1 .. 6 = {1, 2, 3, 4, 5, 6}
    OBVIOUS
  <2>5. \A k \in {1, 2, 3, 4, 5, 6} : StepShape(c, k)
    BY <1>3, <2>2, <2>3 DEF StepShape, Inputs, OutputStep, PointerStep
  <2>. QED
    BY <2>2, <2>4, <2>5
<1>. QED
  BY <1>1, <1>2, <1>3 DEF Commands

--------------------------------------------------------------------------------
(* The inputs of a command: add_input() for one text after the other *)

NoInputs == [inputs |-> <<>>, user |-> userinputs, crash |-> FALSE]

AddingInputs(texts) ==
  CHOOSE iter : iter = [s \in SUBSET DOMAIN [i \in DOMAIN texts |-> i] |->
    IF s = {} THEN NoInputs
    ELSE AddInput(iter[s \ {Max(s)}], [i \in DOMAIN texts |-> i][Max(s)],
                  texts[[i \in DOMAIN texts |-> i][Max(s)]])]

LEMMA AddInputsIsFold ==
  \A texts : AddInputs(texts) = AddingInputs(texts)[DOMAIN [i \in DOMAIN texts |-> i]]
BY Zenon DEF AddInputs, AddingInputs, FoldLeft, MapThenFoldSet, NoInputs

\* the inputs after the first text, and after both
One(texts) == AddInput(NoInputs, 1, texts[1])
Two(texts) == AddInput(One(texts), 2, texts[2])

LEMMA AddInputsSteps ==
  ASSUME NEW n \in {1, 2}, NEW texts, DOMAIN texts = 1 .. n
  PROVE  AddInputs(texts) = IF n = 1 THEN One(texts) ELSE Two(texts)
<1>. DEFINE D == 1 .. n
            own == [i \in DOMAIN texts |-> i]
            Next1(acc, k) == AddInput(acc, own[k], texts[own[k]])
            Body(W) == [s \in SUBSET D |-> IF s = {} THEN NoInputs ELSE Next1(W[s \ {Max(s)}], Max(s))]
            W == [s \in SUBSET D |->
                    IF s = {} THEN NoInputs ELSE IF s = {1} THEN One(texts)
                    ELSE IF s = {2} THEN AddInput(NoInputs, 2, texts[2]) ELSE Two(texts)]
            G == AddingInputs(texts)
<1>1. DOMAIN own = D /\ \A k \in D : own[k] = k
  OBVIOUS
<1>2. Max({1}) = 1 /\ Max({2}) = 2 /\ Max({1, 2}) = 2
  <2>1. {1} = 1 .. 1 /\ {1, 2} = 1 .. 2 /\ {2} \in SUBSET (1 .. 2) /\ {2} # {}
    OBVIOUS
  <2>2. Max(1 .. 1) = 1 /\ Max(1 .. 2) = 2
    <3>1. 1 \in Nat /\ 1 # 0 /\ 2 \in Nat /\ 2 # 0
      OBVIOUS
    <3>. QED
      BY <3>1, MaxOfPrefix, Zenon
  <2>3. Max({2}) \in {2}
    BY <2>1, MaxIsIn
  <2>. QED
    BY <2>1, <2>2, <2>3
<1>3. \A s \in SUBSET D : s = {} \/ s = {1} \/ (n = 2 /\ (s = {2} \/ s = {1, 2}))
  <2>1. D = IF n = 1 THEN {1} ELSE {1, 2}
    <3>1. 1 .. 1 = {1} /\ 1 .. 2 = {1, 2}
      OBVIOUS
    <3>. QED
      BY <3>1, Zenon
  <2>. HIDE DEF D
  <2>. SUFFICES ASSUME NEW s \in SUBSET D
                PROVE  s = {} \/ s = {1} \/ (n = 2 /\ (s = {2} \/ s = {1, 2}))
    OBVIOUS
  <2>2. CASE n = 1
    BY <2>1, <2>2
  <2>3. CASE n = 2
    <3>1. s \subseteq {1, 2}
      BY <2>1, <2>3
    <3>2. s = (IF 1 \in s THEN {1} ELSE {}) \cup (IF 2 \in s THEN {2} ELSE {})
      BY <3>1
    <3>3. CASE 1 \in s /\ 2 \in s
      BY <2>3, <3>1, <3>3
    <3>4. CASE 1 \notin s \/ 2 \notin s
      BY <2>3, <3>2, <3>4
    <3>. QED
      BY <3>3, <3>4
  <2>. QED
    BY <2>2, <2>3
<1>4. \A s \in SUBSET D : W[s] = IF s = {} THEN NoInputs ELSE Next1(W[s \ {Max(s)}], Max(s))
  <2>. SUFFICES ASSUME NEW s \in SUBSET D, s # {}
                PROVE  W[s] = Next1(W[s \ {Max(s)}], Max(s))
    OBVIOUS
  <2>1. {} \in SUBSET D /\ {1} \in SUBSET D /\ W[{}] = NoInputs /\ W[{1}] = One(texts)
    <3>1. 1 \in D
      OBVIOUS
    <3>2. {} \in SUBSET D /\ {1} \in SUBSET D /\ {1} # {}
      BY <3>1
    <3>. HIDE DEF D
    <3>. QED
      BY <3>2
  <2>2. CASE s = {1}
    <3>1. s \ {Max(s)} = {} /\ Max(s) = 1 /\ own[1] = 1
      BY <1>1, <1>2, <2>2
    <3>2. Next1(W[s \ {Max(s)}], Max(s)) = AddInput(NoInputs, 1, texts[1])
      BY <2>1, <3>1, Zenon
    <3>. QED
      BY <2>1, <2>2, <3>2, Zenon DEF One
  <2>3. CASE s = {2} /\ n = 2
    <3>1. s \ {Max(s)} = {} /\ Max(s) = 2 /\ own[2] = 2
      BY <1>1, <1>2, <2>3
    <3>2. Next1(W[s \ {Max(s)}], Max(s)) = AddInput(NoInputs, 2, texts[2])
      BY <2>1, <3>1, Zenon
    <3>3. {2} # {} /\ {2} # {1}
      OBVIOUS
    <3>4. W[s] = AddInput(NoInputs, 2, texts[2])
      <4>. HIDE DEF D
      <4>. QED
        BY <2>3, <3>3
    <3>. QED
      BY <3>2, <3>4
  <2>4. CASE s = {1, 2} /\ n = 2
    <3>1. s \ {Max(s)} = {1} /\ Max(s) = 2 /\ own[2] = 2
      BY <1>1, <1>2, <2>4
    <3>2. Next1(W[s \ {Max(s)}], Max(s)) = AddInput(One(texts), 2, texts[2])
      BY <2>1, <3>1, Zenon
    <3>3. {1, 2} # {} /\ {1, 2} # {1} /\ {1, 2} # {2}
      OBVIOUS
    <3>4. W[s] = Two(texts)
      <4>. HIDE DEF D
      <4>. QED
        BY <2>4, <3>3
    <3>. QED
      BY <3>2, <3>4, Zenon DEF Two
  <2>. QED
    BY <1>3, <2>2, <2>3, <2>4
<1>5. W = Body(W)
  <2>. HIDE DEF D, Next1
  <2>1. W = [s \in SUBSET D |-> W[s]]
    OBVIOUS
  <2>. HIDE DEF W
  <2>. QED
    BY <1>4, <2>1, Zenon
<1>6. G = CHOOSE U : U = Body(U)
  BY <1>1, Zenon DEF AddingInputs
<1>7. G = Body(G)
  <2>. HIDE DEF Body, G, W
  <2>. QED
    BY <1>5, <1>6
<1>8. AddInputs(texts) = G[D]
  BY <1>1, AddInputsIsFold, Zenon
<1>. HIDE DEF G
<1>9. \A s \in SUBSET D : G[s] = IF s = {} THEN NoInputs ELSE Next1(G[s \ {Max(s)}], Max(s))
  <2>. HIDE DEF Next1, D
  <2>. QED
    BY <1>7
<1>. HIDE DEF W, Body
<1>10. G[{}] = NoInputs
  <2>1. {} \in SUBSET D
    OBVIOUS
  <2>. QED
    BY <1>9, <2>1
<1>11. G[{1}] = One(texts)
  <2>1. {1} \in SUBSET D /\ {1} # {} /\ {1} \ {Max({1})} = {} /\ own[Max({1})] = 1
    BY <1>1, <1>2
  <2>2. G[{1}] = Next1(G[{1} \ {Max({1})}], Max({1}))
    BY <1>9, <2>1
  <2>. QED
    BY <1>10, <2>1, <2>2, Zenon DEF One
<1>12. CASE n = 1
  <2>1. D = {1}
    BY <1>12
  <2>. QED
    BY <1>8, <1>11, <1>12, <2>1
<1>13. CASE n = 2
  <2>1. D = {1, 2}
    BY <1>13
  <2>2. {1, 2} \in SUBSET D /\ {1, 2} # {} /\ {1, 2} \ {Max({1, 2})} = {1} /\ own[Max({1, 2})] = 2
    BY <1>1, <1>2, <2>1
  <2>3. G[{1, 2}] = Next1(G[{1, 2} \ {Max({1, 2})}], Max({1, 2}))
    BY <1>9, <2>2
  <2>4. G[{1, 2}] = Two(texts)
    BY <1>11, <2>2, <2>3, Zenon DEF Two
  <2>. QED
    BY <1>8, <1>13, <2>1, <2>4
<1>. QED
  BY <1>12, <1>13

IsSettings(in) ==
  /\ DOMAIN in = DOMAIN DefaultInput
  /\ in.multi \in Nat
  /\ in.self \in BOOLEAN /\ in.recurse \in BOOLEAN /\ in.readfile \in BOOLEAN

IsUsers(user) ==
  /\ IsList(user)
  /\ \A k \in DOMAIN user : user[k] # None => IsSettings(user[k].set)

IsDescriptor(in) ==
  /\ in.mode \in {"MR", "PATH"}
  /\ in.mode = "MR" => in.mrindex \in DOMAIN mrwrap
  /\ in.mode = "PATH" => IsSettings(in.set) /\ \A r \in Rank : IsList(in.strings[r])

AreInputs(list) == IsList(list) /\ \A k \in DOMAIN list : IsDescriptor(list[k])

LEMMA DefaultIsSettings == IsSettings(DefaultInput)
BY DEF IsSettings, DefaultInput

LEMMA ChangedIsSettings ==
  ASSUME NEW in, IsSettings(in), NEW settings \in Settings
  PROVE  IsSettings(Changed(in, settings))
<1>1. /\ DOMAIN in = {"prepend", "substitute", "multi", "mmode", "recurse", "self", "readfile"}
      /\ in.multi \in Nat
      /\ in.self \in BOOLEAN /\ in.recurse \in BOOLEAN /\ in.readfile \in BOOLEAN
  BY DEF IsSettings, DefaultInput
<1>2. DOMAIN Changed(in, settings) = DOMAIN in
  BY DEF Changed
<1>3. \A x \in DOMAIN in : Changed(in, settings)[x] = IF x \in DOMAIN settings THEN settings[x] ELSE in[x]
  BY DEF Changed
<1>4. \A x \in DOMAIN settings :
           /\ x = "multi" => settings[x] \in Nat
           /\ x \in {"recurse", "self", "readfile"} => settings[x] \in BOOLEAN
  BY ScriptAssumption
<1>5. /\ "multi" \in DOMAIN in /\ "self" \in DOMAIN in
      /\ "recurse" \in DOMAIN in /\ "readfile" \in DOMAIN in
  BY <1>1
<1>6. Changed(in, settings)["multi"] \in Nat
  BY <1>1, <1>3, <1>4, <1>5
<1>7. ASSUME NEW x \in {"recurse", "self", "readfile"}
      PROVE  Changed(in, settings)[x] \in BOOLEAN
  <2>1. x \in DOMAIN in /\ in[x] \in BOOLEAN
    BY <1>1
  <2>. QED
    BY <1>3, <1>4, <2>1
<1>. QED
  BY <1>1, <1>2, <1>6, <1>7 DEF IsSettings

LEMMA PathsAreList ==
  ASSUME NEW text \in DOMAIN Strings, NEW in, IsSettings(in), NEW r
  PROVE  IsList(PathsOf(text, in, r))
<1>. DEFINE prepend == IF in.prepend # None THEN in.prepend ELSE global.prepend
            substitute == IF in.substitute # None THEN in.substitute ELSE global.substitute
            list == Strings[text]
            path(i, j) == ExpandPath(list[i], r, prepend, substitute, j)
            X == {path(i, j) : i \in DOMAIN list, j \in 1 .. in.multi}
            seqs == [i \in DOMAIN list |-> [j \in 1 .. in.multi |-> path(i, j)]]
<1>1. PathsOf(text, in, r) = FlattenSeq(seqs)
  BY Zenon DEF PathsOf
<1>2. in.multi \in Nat
  BY DEF IsSettings
<1>3. list \in Seq(Range(list))
  BY ScriptAssumption
<1>. HIDE DEF path, list
<1>4. \A i \in DOMAIN list : seqs[i] \in Seq(X)
  <2>. SUFFICES ASSUME NEW i \in DOMAIN list PROVE [j \in 1 .. in.multi |-> path(i, j)] \in Seq(X)
    OBVIOUS
  <2>1. \A j \in 1 .. in.multi : path(i, j) \in X
    OBVIOUS
  <2>. HIDE DEF X
  <2>. QED
    BY <1>2, <2>1
<1>5. seqs \in Seq(Seq(X))
  <2>1. DOMAIN list = 1 .. Len(list) /\ Len(list) \in Nat
    BY <1>3
  <2>2. seqs \in [1 .. Len(list) -> Seq(X)]
    BY <1>4, <2>1
  <2>. QED
    BY <2>1, <2>2
<1>. HIDE DEF seqs, X
<1>6. FlattenSeq(seqs) \in Seq(X)
  BY <1>5, Flattened
<1>. QED
  BY <1>1, <1>6, ListOf

(* Where the search for the settings of an input ends *)
LEMMA SearchEnds ==
  ASSUME NEW user, IsList(user), NEW i
  PROVE  \/ Search(user, i) = 0 /\ None \in Range(user)
         \/ Search(user, i) = Len(user) + 1 /\ Len(user) \in Nat /\ Search(user, i) \notin DOMAIN user
         \/ /\ Search(user, i) \in DOMAIN user /\ Search(user, i) # 0
            /\ ~(Search(user, i) > Len(user)) /\ user[Search(user, i)] # None
<1>. DEFINE stops == {k \in DOMAIN user : user[k] = None \/ user[k].index = i}
<1>1. Search(user, i) = IF stops = {} THEN Len(user) + 1
                        ELSE IF user[Min(stops)] = None THEN 0 ELSE Min(stops)
  BY Zenon DEF Search
<1>2. DOMAIN user = 1 .. Len(user) /\ Len(user) \in Nat
  BY DEF IsList
<1>3. stops \in SUBSET DOMAIN user
  OBVIOUS
<1>. HIDE DEF stops
<1>4. stops # {} => Min(stops) \in stops
  BY <1>2, <1>3, MinIsLeast
<1>. QED
  BY <1>1, <1>2, <1>3, <1>4 DEF Range

\* What has been added after i texts, when the interpreter got so far
HasAdded(acc, i) ==
  /\ acc = [inputs |-> acc.inputs, user |-> acc.user, crash |-> acc.crash]
  /\ acc.crash \in BOOLEAN
  /\ AreInputs(acc.inputs) /\ IsUsers(acc.user)
  /\ acc.crash => Len(acc.inputs) < i /\ None \in Range(acc.user)
  /\ ~acc.crash => Len(acc.inputs) = i

LEMMA AddedIs ==
  ASSUME NEW list, NEW user, NEW crash \in BOOLEAN, NEW i,
         AreInputs(list), IsUsers(user),
         crash => Len(list) < i /\ None \in Range(user),
         ~crash => Len(list) = i
  PROVE  HasAdded([inputs |-> list, user |-> user, crash |-> crash], i)
<1>1. PICK acc : acc = [inputs |-> list, user |-> user, crash |-> crash]
  OBVIOUS
<1>2. acc.inputs = list /\ acc.user = user /\ acc.crash = crash
  BY <1>1
<1>. QED
  BY <1>1, <1>2, Zenon DEF HasAdded

LEMMA AddInputStep ==
  ASSUME TableInv, NEW i \in Nat, NEW acc, HasAdded(acc, i), NEW text \in Texts
  PROVE  HasAdded(AddInput(acc, i + 1, text), i + 1)
<1>. DEFINE k == Search(acc.user, i + 1)
            in == IF k > Len(acc.user) THEN DefaultInput ELSE acc.user[k].set
            descriptor ==
              IF FindMr(text) > 0
                THEN [mode |-> "MR", mrindex |-> FindMr(text), set |-> in]
                ELSE [mode |-> "PATH", set |-> in,
                      strings |-> [r \in Rank |-> PathsOf(text, in, r)]]
            user == IF k \in DOMAIN acc.user THEN [acc.user EXCEPT ![k] = None] ELSE acc.user
<1>1. AddInput(acc, i + 1, text) =
        IF acc.crash \/ k = 0 THEN [inputs |-> acc.inputs, user |-> acc.user, crash |-> TRUE]
        ELSE [inputs |-> Append(acc.inputs, descriptor), user |-> user, crash |-> FALSE]
  BY Zenon DEF AddInput
<1>2. /\ IsList(acc.inputs) /\ IsList(acc.user)
      /\ Len(acc.inputs) \in Nat /\ Len(acc.user) \in Nat
      /\ DOMAIN acc.inputs = 1 .. Len(acc.inputs) /\ DOMAIN acc.user = 1 .. Len(acc.user)
  BY DEF HasAdded, AreInputs, IsUsers, IsList
<1>3. \/ k = 0 /\ None \in Range(acc.user)
      \/ k = Len(acc.user) + 1 /\ k \notin DOMAIN acc.user
      \/ k \in DOMAIN acc.user /\ k # 0 /\ ~(k > Len(acc.user)) /\ acc.user[k] # None
  BY <1>2, SearchEnds
<1>. HIDE DEF k
<1>4. CASE acc.crash \/ k = 0
  <2>1. AddInput(acc, i + 1, text) = [inputs |-> acc.inputs, user |-> acc.user, crash |-> TRUE]
    BY <1>1, <1>4
  <2>2. Len(acc.inputs) < i + 1 /\ None \in Range(acc.user)
    BY <1>2, <1>3, <1>4 DEF HasAdded
  <2>3. AreInputs(acc.inputs) /\ IsUsers(acc.user)
    BY DEF HasAdded
  <2>. QED
    BY <2>1, <2>2, <2>3, AddedIs
<1>5. CASE ~(acc.crash \/ k = 0)
  <2>1. IsSettings(in)
    BY <1>2, <1>3, <1>5, DefaultIsSettings DEF HasAdded, IsUsers
  <2>. HIDE DEF in
  <2>2. IsDescriptor(descriptor)
    <3>1. FindMr(text) = 0 \/ FindMr(text) \in DOMAIN mrwrap
      BY FindMrFinds
    <3>2. text \in DOMAIN Strings
      BY ScriptAssumption
    <3>3. \A r \in Rank : IsList(PathsOf(text, in, r))
      BY <2>1, <3>2, PathsAreList
    <3>4. CASE FindMr(text) > 0
      <4>1. FindMr(text) \in DOMAIN mrwrap
        BY <3>1, <3>4
      <4>. QED
        BY <3>4, <4>1 DEF IsDescriptor
    <3>5. CASE ~(FindMr(text) > 0)
      BY <2>1, <3>3, <3>5 DEF IsDescriptor
    <3>. QED
      BY <3>4, <3>5
  <2>. HIDE DEF descriptor
  <2>3. AreInputs(Append(acc.inputs, descriptor)) /\ Len(Append(acc.inputs, descriptor)) = i + 1
    <3>. DEFINE X == Range(acc.inputs) \cup {descriptor}
    <3>1. acc.inputs \in Seq(X)
      <4>1. Range(acc.inputs) \subseteq X
        OBVIOUS
      <4>. HIDE DEF X
      <4>. QED
        BY <1>2, <4>1, ListIn
    <3>. DEFINE old == acc.inputs
                new == Append(old, descriptor)
    <3>2. /\ new \in Seq(X) /\ DOMAIN new = DOMAIN old \cup {Len(old) + 1}
          /\ new[Len(old) + 1] = descriptor
          /\ \A j \in DOMAIN old : new[j] = old[j]
      <4>1. old \in Seq(X) /\ descriptor \in X
        BY <3>1
      <4>. HIDE DEF old, X
      <4>. QED
        BY <4>1, Appended
    <3>3. Len(new) = Len(old) + 1
      <4>. HIDE DEF old, X
      <4>. QED
        BY <3>1 DEF old
    <3>4. IsList(new)
      <4>. HIDE DEF new, X
      <4>. QED
        BY <3>2, ListOf
    <3>5. \A j \in DOMAIN new : IsDescriptor(new[j])
      <4>1. \A j \in DOMAIN old : IsDescriptor(old[j])
        BY DEF HasAdded, AreInputs
      <4>. HIDE DEF new, old
      <4>. QED
        BY <2>2, <3>2, <4>1
    <3>6. Len(old) = i
      BY <1>5 DEF HasAdded
    <3>. HIDE DEF old
    <3>. QED
      BY <3>3, <3>4, <3>5, <3>6 DEF AreInputs, old
  <2>4. IsUsers(user)
    <3>1. CASE k \in DOMAIN acc.user
      <4>. DEFINE X == Range(acc.user) \cup {None}
      <4>1. user = [j \in 1 .. Len(acc.user) |-> IF j = k THEN None ELSE acc.user[j]]
        BY <1>2, <3>1
      <4>2. \A j \in 1 .. Len(acc.user) : user[j] = IF j = k THEN None ELSE acc.user[j]
        BY <4>1
      <4>3. user \in Seq(X)
        BY <1>2, <4>1 DEF Range
      <4>4. IsList(user) /\ DOMAIN user = 1 .. Len(acc.user)
        <5>1. DOMAIN user = 1 .. Len(acc.user)
          BY <4>1
        <5>. HIDE DEF user, X
        <5>. QED
          BY <4>3, <5>1, ListOf
      <4>. HIDE DEF user
      <4>. QED
        BY <1>2, <4>2, <4>4 DEF HasAdded, IsUsers
    <3>2. CASE k \notin DOMAIN acc.user
      BY <3>2 DEF HasAdded
    <3>. QED
      BY <3>1, <3>2
  <2>5. AddInput(acc, i + 1, text) =
          [inputs |-> Append(acc.inputs, descriptor), user |-> user, crash |-> FALSE]
    BY <1>1, <1>5
  <2>. HIDE DEF user
  <2>. QED
    BY <2>3, <2>4, <2>5, AddedIs
<1>. QED
  BY <1>4, <1>5

LEMMA AddInputsResult ==
  ASSUME TableInv, IsUsers(userinputs), NEW c \in Commands, NEW texts \in InputTexts(c)
  PROVE  HasAdded(AddInputs(texts), Inputs(c)) /\ Inputs(c) \in {1, 2}
<1>1. Inputs(c) \in {1, 2} /\ DOMAIN texts = 1 .. Inputs(c)
      /\ texts[1] \in Texts /\ (Inputs(c) = 2 => texts[2] \in Texts)
  <2>1. Inputs(c) \in {1, 2} /\ texts \in [1 .. Inputs(c) -> Texts]
    BY DEF Inputs, InputTexts
  <2>. QED
    BY <2>1
<1>2. HasAdded(NoInputs, 0)
  <2>1. IsList(<<>>) /\ AreInputs(<<>>) /\ Len(<<>>) = 0
    <3>1. <<>> \in Seq({})
      OBVIOUS
    <3>2. DOMAIN <<>> = {} /\ Len(<<>>) = 0
      OBVIOUS
    <3>3. IsList(<<>>)
      BY <3>1, ListOf
    <3>. QED
      BY <3>2, <3>3 DEF AreInputs
  <2>. QED
    BY <2>1, AddedIs DEF NoInputs
<1>3. HasAdded(One(texts), 1)
  <2>1. HasAdded(AddInput(NoInputs, 0 + 1, texts[1]), 0 + 1)
    BY <1>1, <1>2, AddInputStep
  <2>2. 0 + 1 = 1
    OBVIOUS
  <2>. QED
    BY <2>1, <2>2 DEF One
<1>4. Inputs(c) = 2 => HasAdded(Two(texts), 2)
  <2>. SUFFICES ASSUME Inputs(c) = 2 PROVE HasAdded(Two(texts), 2)
    OBVIOUS
  <2>1. HasAdded(AddInput(One(texts), 1 + 1, texts[2]), 1 + 1)
    BY <1>1, <1>3, AddInputStep
  <2>2. 1 + 1 = 2
    OBVIOUS
  <2>. QED
    BY <2>1, <2>2 DEF Two
<1>5. AddInputs(texts) = IF Inputs(c) = 1 THEN One(texts) ELSE Two(texts)
  BY <1>1, AddInputsSteps
<1>. QED
  BY <1>1, <1>3, <1>4, <1>5

--------------------------------------------------------------------------------
(* What holds of the script, between its lines and in a command *)

InTable(mr) == \E i \in DOMAIN mrwrap : mrwrap[i].mr = mr

Running == cmd.name \in Commands

CmdInv ==
  /\ cmd = [name |-> cmd.name, step |-> cmd.step, ptr |-> cmd.ptr, before |-> cmd.before,
            renamed |-> cmd.renamed, map |-> cmd.map]
  /\ Running => /\ cmd.step \in DOMAIN Run(cmd.name)
                /\ output.name \in Names \cup {None}
                /\ status = "ok" => Len(inputs) = Inputs(cmd.name)
                /\ cmd.step > PointerStep(cmd.name) => "x" \in DOMAIN cmd.ptr
                /\ cmd.renamed # {} => cmd.step > OutputStep(cmd.name)
  /\ \A x \in DOMAIN cmd.ptr : InTable(cmd.ptr[x])
  /\ cmd.name = "map" => cmd.map \in MapLines

ScriptInv == TableInv /\ IsUsers(userinputs) /\ AreInputs(inputs) /\ CmdInv

\* A step after which every pointer and every input still points into the table.
Keeps(v, w) ==
  /\ DOMAIN w \subseteq DOMAIN v
  /\ \A i \in DOMAIN w : v[i].mr = w[i].mr

LEMMA ExtendsKeeps ==
  ASSUME NEW v, NEW w, NEW mr, Extends(v, w, mr)
  PROVE  Keeps(v, w) /\ \E i \in DOMAIN v : v[i].mr = mr
BY DEF Extends, Keeps

LEMMA InputsKept ==
  ASSUME AreInputs(inputs), inputs' = inputs, Keeps(mrwrap', mrwrap)
  PROVE  AreInputs(inputs)'
<1>1. \A in : IsDescriptor(in) => IsDescriptor(in)'
  BY DEF IsDescriptor, Keeps
<1>. QED
  BY <1>1 DEF AreInputs

LEMMA PointersKept ==
  ASSUME Keeps(mrwrap', mrwrap)
  PROVE  \A mr : InTable(mr) => InTable(mr)'
BY DEF InTable, Keeps

\* Advance: the next step of a command, which keeps or sets pointers
LEMMA AdvanceCmd ==
  ASSUME CmdInv, Ready, Running, Run(cmd.name)[cmd.step][1] # "cleanup",
         Run(cmd.name)[cmd.step][1] # "output",
         inputs' = inputs, output' = output, NEW ptr,
         Keeps(mrwrap', mrwrap), Advance(ptr),
         DOMAIN cmd.ptr \subseteq DOMAIN ptr, \A x \in DOMAIN ptr : InTable(ptr[x])',
         Run(cmd.name)[cmd.step][1] \in {"read", "create"} => Arg(2) \in DOMAIN ptr
  PROVE  CmdInv'
<1>1. StepShape(cmd.name, cmd.step) /\ cmd.step \in Nat
  BY RunShape DEF CmdInv, Running
<1>2. /\ cmd' = [name |-> cmd.name, step |-> cmd.step + 1, ptr |-> ptr, before |-> cmd.before,
                 renamed |-> cmd.renamed, map |-> cmd.map]
  <2>1. cmd' = [cmd EXCEPT !.step = @ + 1, !.ptr = ptr]
    BY DEF Advance
  <2>2. cmd = [name |-> cmd.name, step |-> cmd.step, ptr |-> cmd.ptr, before |-> cmd.before,
               renamed |-> cmd.renamed, map |-> cmd.map]
    BY DEF CmdInv
  <2>. QED
    BY <2>1, <2>2
<1>3. /\ cmd'.name = cmd.name /\ cmd'.step = cmd.step + 1 /\ cmd'.ptr = ptr
      /\ cmd'.renamed = cmd.renamed /\ cmd'.map = cmd.map /\ cmd'.before = cmd.before
  BY <1>2
<1>4. cmd.step + 1 \in DOMAIN Run(cmd.name)
  BY <1>1 DEF StepShape
<1>5. status = "ok"
  BY DEF Ready
<1>6. cmd.step + 1 > PointerStep(cmd.name) => "x" \in DOMAIN ptr
  <2>1. CASE cmd.step > PointerStep(cmd.name)
    BY <2>1 DEF CmdInv
  <2>2. CASE cmd.step = PointerStep(cmd.name)
    <3>1. Run(cmd.name)[cmd.step][1] \in {"read", "create"} /\ Run(cmd.name)[cmd.step][2] = "x"
      BY <1>1, <2>2 DEF StepShape
    <3>. QED
      BY <3>1 DEF Arg
  <2>3. PointerStep(cmd.name) \in Nat
    BY DEF PointerStep
  <2>. QED
    BY <1>1, <2>1, <2>2, <2>3
<1>7. cmd.renamed # {} => cmd.step + 1 > OutputStep(cmd.name)
  <2>1. OutputStep(cmd.name) \in Nat
    BY DEF OutputStep
  <2>. QED
    BY <1>1, <2>1 DEF CmdInv
<1>8. cmd.name # "map"
  BY DEF Running, Commands
<1>. QED
  BY <1>2, <1>3, <1>4, <1>5, <1>6, <1>7, <1>8 DEF CmdInv, Running

LEMMA BeginShape ==
  ASSUME NEW name
  PROVE  /\ Begin(name) = [name |-> name, step |-> 1, ptr |-> Begin(name).ptr,
                           before |-> Named(mrwrap), renamed |-> {}, map |-> None]
         /\ Begin(name).name = name /\ Begin(name).step = 1 /\ DOMAIN Begin(name).ptr = {}
         /\ Begin(name).before = Named(mrwrap) /\ Begin(name).renamed = {}
BY DEF Begin

LEMMA NoCommandShape ==
  /\ NoCommand = [name |-> "none", step |-> 1, ptr |-> NoCommand.ptr,
                  before |-> {}, renamed |-> {}, map |-> None]
  /\ NoCommand.name = "none" /\ DOMAIN NoCommand.ptr = {}
  /\ NoCommand.before = {} /\ NoCommand.renamed = {}
BY BeginShape DEF NoCommand

LEMMA IdleCmd ==
  ASSUME cmd' = NoCommand
  PROVE  CmdInv' /\ cmd'.before = {} /\ cmd'.name = "none"
<1>1. /\ cmd' = [name |-> "none", step |-> 1, ptr |-> cmd'.ptr,
                 before |-> {}, renamed |-> {}, map |-> None]
      /\ cmd'.name = "none" /\ DOMAIN cmd'.ptr = {} /\ cmd'.before = {} /\ cmd'.renamed = {}
  BY NoCommandShape, Zenon
<1>2. cmd' = [name |-> cmd'.name, step |-> cmd'.step, ptr |-> cmd'.ptr, before |-> cmd'.before,
              renamed |-> cmd'.renamed, map |-> cmd'.map]
  BY <1>1
<1>3. cmd'.name \notin Commands /\ cmd'.name # "map"
  BY <1>1 DEF Commands
<1>. QED
  BY <1>1, <1>2, <1>3 DEF CmdInv, Running

LEMMA SameTable ==
  ASSUME TableInv, mrwrap' = mrwrap, alive' = alive
  PROVE  TableInv' /\ Keeps(mrwrap', mrwrap)
BY DEF TableInv, Keeps

LEMMA PointsInTable ==
  ASSUME CmdInv, Keeps(mrwrap', mrwrap), NEW name, NEW mr, InTable(mr)',
         NEW p, p = Points(name, mr)
  PROVE  DOMAIN cmd.ptr \subseteq DOMAIN p /\ name \in DOMAIN p /\ \A x \in DOMAIN p : InTable(p[x])'
<1>1. DOMAIN p = DOMAIN cmd.ptr \cup {name}
      /\ \A x \in DOMAIN p : p[x] = IF x = name THEN mr ELSE cmd.ptr[x]
  BY DEF Points
<1>2. ASSUME NEW x \in DOMAIN p PROVE InTable(p[x])'
  <2>1. CASE x = name
    BY <1>1, <2>1
  <2>2. CASE x # name
    <3>1. p[x] = cmd.ptr[x] /\ InTable(cmd.ptr[x])
      BY <1>1, <2>2 DEF CmdInv
    <3>2. InTable(p[x])
      BY <3>1
    <3>. QED
      BY <3>2, PointersKept
  <2>. QED
    BY <2>1, <2>2
<1>. QED
  BY <1>1, <1>2

LEMMA ReadObjectScript ==
  ASSUME ScriptInv, ReadObject
  PROVE  ScriptInv'
<1>. DEFINE k == inputs[Arg(3)].mrindex
<1>1. /\ Ready /\ Running /\ Run(cmd.name)[cmd.step][1] = "read"
      /\ inputs' = inputs /\ output' = output /\ mrwrap' = mrwrap /\ alive' = alive
      /\ userinputs' = userinputs
      /\ inputs[Arg(3)].mode = "MR"
      /\ Advance(Points(Arg(2), mrwrap[k].mr))
  BY DEF ReadObject, At, Running
<1>2. TableInv' /\ Keeps(mrwrap', mrwrap)
  BY <1>1, SameTable DEF ScriptInv
<1>3. k \in DOMAIN mrwrap
  <2>1. StepShape(cmd.name, cmd.step)
    BY <1>1, RunShape DEF ScriptInv, CmdInv, Running
  <2>2. Arg(3) \in 1 .. Inputs(cmd.name)
    BY <1>1, <2>1 DEF StepShape, Arg
  <2>3. Len(inputs) = Inputs(cmd.name) /\ DOMAIN inputs = 1 .. Len(inputs)
    BY <1>1 DEF ScriptInv, CmdInv, Ready, AreInputs, IsList
  <2>4. IsDescriptor(inputs[Arg(3)])
    BY <2>2, <2>3 DEF ScriptInv, AreInputs
  <2>. QED
    BY <1>1, <2>4 DEF IsDescriptor
<1>4. PICK mr : mr = mrwrap[k].mr
  OBVIOUS
<1>5. PICK name : name = Arg(2)
  OBVIOUS
<1>6. PICK p : p = Points(name, mr)
  OBVIOUS
<1>7. InTable(mr)'
  BY <1>1, <1>3, <1>4 DEF InTable
<1>8. DOMAIN cmd.ptr \subseteq DOMAIN p /\ name \in DOMAIN p /\ \A x \in DOMAIN p : InTable(p[x])'
  BY <1>2, <1>6, <1>7, PointsInTable DEF ScriptInv
<1>9. Advance(p)
  BY <1>1, <1>4, <1>5, <1>6
<1>10. CmdInv'
  BY <1>1, <1>2, <1>5, <1>8, <1>9, AdvanceCmd DEF ScriptInv
<1>11. IsUsers(userinputs)' /\ AreInputs(inputs)'
  <2>1. AreInputs(inputs)'
    BY <1>1, <1>2, InputsKept DEF ScriptInv
  <2>. QED
    BY <1>1, <2>1 DEF ScriptInv
<1>. QED
  BY <1>2, <1>10, <1>11 DEF ScriptInv

\* A step that makes an object and points to it, and changes nothing else
LEMMA MakesScript ==
  ASSUME ScriptInv, Ready, Running, Run(cmd.name)[cmd.step][1] \notin {"cleanup", "output"},
         inputs' = inputs, output' = output, userinputs' = userinputs,
         Wrap(None), Advance(Points(Arg(2), NewMr))
  PROVE  ScriptInv'
<1>1. TableInv' /\ Extends(mrwrap', mrwrap, NewMr)
  BY WrapExtends DEF ScriptInv
<1>2. PICK mr : mr = NewMr
  OBVIOUS
<1>3. PICK name : name = Arg(2)
  OBVIOUS
<1>4. PICK p : p = Points(name, mr)
  OBVIOUS
<1>5. Keeps(mrwrap', mrwrap) /\ InTable(mr)'
  BY <1>1, <1>2, ExtendsKeeps DEF InTable
<1>6. DOMAIN cmd.ptr \subseteq DOMAIN p /\ name \in DOMAIN p /\ \A x \in DOMAIN p : InTable(p[x])'
  BY <1>4, <1>5, PointsInTable DEF ScriptInv
<1>7. Advance(p)
  BY <1>2, <1>3, <1>4
<1>8. CmdInv'
  BY <1>3, <1>5, <1>6, <1>7, AdvanceCmd DEF ScriptInv
<1>9. AreInputs(inputs)'
  BY <1>5, InputsKept DEF ScriptInv
<1>. QED
  BY <1>1, <1>8, <1>9 DEF ScriptInv

\* A step that changes at most the table and the status
LEMMA UnderScript ==
  ASSUME ScriptInv, TableInv', Keeps(mrwrap', mrwrap), cmd' = cmd, inputs' = inputs,
         output' = output, userinputs' = userinputs, status' = "ok" => status = "ok"
  PROVE  ScriptInv'
<1>1. AreInputs(inputs)'
  BY InputsKept DEF ScriptInv
<1>2. CmdInv'
  <2>1. \A x \in DOMAIN cmd.ptr : InTable(cmd.ptr[x])'
    <3>. SUFFICES ASSUME NEW x \in DOMAIN cmd.ptr PROVE InTable(cmd.ptr[x])'
      OBVIOUS
    <3>1. PICK mr : mr = cmd.ptr[x]
      OBVIOUS
    <3>2. InTable(mr)
      BY <3>1 DEF ScriptInv, CmdInv
    <3>3. InTable(mr)'
      BY <3>2, PointersKept
    <3>. QED
      BY <3>1, <3>3 DEF InTable
  <2>. QED
    BY <2>1 DEF ScriptInv, CmdInv, Running, InTable
<1>. QED
  BY <1>1, <1>2 DEF ScriptInv

LEMMA ReadPathsScript ==
  ASSUME ScriptInv, ReadPaths
  PROVE  ScriptInv'
<1>1. /\ Ready /\ Running /\ Run(cmd.name)[cmd.step][1] = "read"
      /\ inputs' = inputs /\ output' = output /\ userinputs' = userinputs /\ Wrap(None)
      /\ \/ status' = "failed" /\ cmd' = cmd
         \/ Advance(Points(Arg(2), NewMr))
  BY DEF ReadPaths, At, Running
<1>2. CASE status' = "failed" /\ cmd' = cmd
  <2>1. TableInv' /\ Extends(mrwrap', mrwrap, NewMr)
    BY <1>1, WrapExtends DEF ScriptInv
  <2>2. Keeps(mrwrap', mrwrap)
    BY <2>1, ExtendsKeeps
  <2>. QED
    BY <1>1, <1>2, <2>1, <2>2, UnderScript
<1>3. CASE Advance(Points(Arg(2), NewMr))
  BY <1>1, <1>3, MakesScript
<1>. QED
  BY <1>1, <1>2, <1>3

LEMMA CreateMrScript ==
  ASSUME ScriptInv, CreateMr
  PROVE  ScriptInv'
<1>1. /\ Ready /\ Running /\ Run(cmd.name)[cmd.step][1] = "create"
      /\ inputs' = inputs /\ output' = output /\ userinputs' = userinputs
      /\ Wrap(None) /\ Advance(Points(Arg(2), NewMr))
  BY DEF CreateMr, At, Running
<1>. QED
  BY <1>1, MakesScript

\* A step that leaves the table and the pointers
LEMMA PassesScript ==
  ASSUME ScriptInv, Ready, Running,
         Run(cmd.name)[cmd.step][1] \notin {"cleanup", "output", "read", "create"},
         inputs' = inputs, output' = output, userinputs' = userinputs,
         mrwrap' = mrwrap, alive' = alive, Advance(cmd.ptr)
  PROVE  ScriptInv'
<1>1. TableInv' /\ Keeps(mrwrap', mrwrap)
  BY SameTable DEF ScriptInv
<1>2. PICK p : p = cmd.ptr
  OBVIOUS
<1>3. \A x \in DOMAIN p : InTable(p[x])'
  BY <1>1, <1>2, PointersKept DEF ScriptInv, CmdInv
<1>4. CmdInv'
  BY <1>1, <1>2, <1>3, AdvanceCmd DEF ScriptInv
<1>5. AreInputs(inputs)'
  BY <1>1, InputsKept DEF ScriptInv
<1>. QED
  BY <1>1, <1>4, <1>5 DEF ScriptInv

LEMMA OwnMrScript ==
  ASSUME ScriptInv, OwnMr
  PROVE  ScriptInv'
<1>1. /\ Ready /\ Running /\ Run(cmd.name)[cmd.step][1] = "own"
      /\ inputs' = inputs /\ output' = output /\ userinputs' = userinputs
      /\ \/ Wrap(None) /\ Advance(Points(Arg(2), NewMr))
         \/ Advance(cmd.ptr) /\ mrwrap' = mrwrap /\ alive' = alive
  BY DEF OwnMr, At, Running
<1>. QED
  BY <1>1, MakesScript, PassesScript

LEMMA AlterScript ==
  ASSUME ScriptInv, Alter
  PROVE  ScriptInv'
<1>1. /\ Ready /\ Running /\ Run(cmd.name)[cmd.step][1] = "alter"
      /\ inputs' = inputs /\ output' = output /\ userinputs' = userinputs
      /\ mrwrap' = mrwrap /\ alive' = alive /\ Advance(cmd.ptr)
  BY DEF Alter, At, Running
<1>. QED
  BY <1>1, PassesScript


LEMMA OutputScript ==
  ASSUME ScriptInv, Output
  PROVE  ScriptInv'
<1>1. /\ Ready /\ Running /\ Run(cmd.name)[cmd.step][1] = "output"
      /\ inputs' = inputs /\ output' = output /\ userinputs' = userinputs /\ alive' = alive
  BY DEF Output, At, Running
<1>2. PICK renamed : renamed = IF output.name = None THEN {}
                              ELSE {<<output.name, cmd.ptr[Arg(2)]>>}
  OBVIOUS
<1>3. cmd' = [cmd EXCEPT !.step = @ + 1, !.renamed = renamed]
  BY <1>2 DEF Output
<1>4. output.name \in Names \cup {None}
  BY <1>1 DEF ScriptInv, CmdInv
<1>5. TableInv' /\ Keeps(mrwrap', mrwrap)
  <2>1. CASE output.name = None
    BY <1>1, <2>1, SameTable DEF Output, ScriptInv
  <2>2. CASE output.name # None
    <3>1. PICK index : index = IndexOf(cmd.ptr[Arg(2)])
      OBVIOUS
    <3>2. PICK name \in Names : name = output.name
      BY <1>4, <2>2
    <3>3. mrwrap' = Rename(mrwrap, index, name)
      BY <2>2, <3>1, <3>2 DEF Output
    <3>4. /\ TableInv' /\ DOMAIN mrwrap' = DOMAIN mrwrap
          /\ \A i \in DOMAIN mrwrap : mrwrap'[i].mr = mrwrap[i].mr
      BY <1>1, <3>3, RenameTable DEF ScriptInv
    <3>. QED
      BY <3>4 DEF Keeps
  <2>. QED
    BY <2>1, <2>2
<1>6. AreInputs(inputs)'
  BY <1>1, <1>5, InputsKept DEF ScriptInv
<1>7. cmd' = [name |-> cmd.name, step |-> cmd.step + 1, ptr |-> cmd.ptr, before |-> cmd.before,
              renamed |-> renamed, map |-> cmd.map]
  <2>1. cmd = [name |-> cmd.name, step |-> cmd.step, ptr |-> cmd.ptr, before |-> cmd.before,
               renamed |-> cmd.renamed, map |-> cmd.map]
    BY DEF ScriptInv, CmdInv
  <2>. QED
    BY <1>3, <2>1
<1>8. StepShape(cmd.name, cmd.step) /\ cmd.step \in Nat
  BY <1>1, RunShape DEF ScriptInv, CmdInv, Running
<1>9. /\ cmd.step + 1 \in DOMAIN Run(cmd.name) /\ cmd.step = OutputStep(cmd.name)
      /\ cmd.step > PointerStep(cmd.name)
  BY <1>1, <1>8 DEF StepShape
<1>10. \A x \in DOMAIN cmd.ptr : InTable(cmd.ptr[x])'
  <2>. SUFFICES ASSUME NEW x \in DOMAIN cmd.ptr PROVE InTable(cmd.ptr[x])'
    OBVIOUS
  <2>1. PICK mr : mr = cmd.ptr[x]
    OBVIOUS
  <2>2. InTable(mr)'
    BY <1>5, <2>1, PointersKept DEF ScriptInv, CmdInv
  <2>3. cmd'.ptr = cmd.ptr
    BY <1>7
  <2>. QED
    BY <2>1, <2>2, <2>3 DEF InTable
<1>11. CmdInv'
  <2>1. /\ cmd'.name = cmd.name /\ cmd'.step = cmd.step + 1 /\ cmd'.ptr = cmd.ptr
        /\ cmd'.renamed = renamed /\ cmd'.map = cmd.map /\ cmd'.before = cmd.before
    BY <1>7
  <2>2. cmd.name # "map"
    BY <1>1 DEF Running, Commands
  <2>3. "x" \in DOMAIN cmd.ptr /\ output.name \in Names \cup {None}
        /\ Len(inputs) = Inputs(cmd.name)
    BY <1>1, <1>9 DEF ScriptInv, CmdInv, Ready
  <2>4. cmd.step + 1 > OutputStep(cmd.name)
    BY <1>8, <1>9
  <2>5. \A x \in DOMAIN cmd'.ptr : InTable(cmd.ptr[x])'
    BY <1>10, <2>1
  <2>. QED
    BY <1>1, <1>7, <1>9, <2>1, <2>2, <2>3, <2>4, <2>5 DEF CmdInv, Running, InTable
<1>. QED
  BY <1>1, <1>5, <1>6, <1>11 DEF ScriptInv

\* The descriptors and the settings are gone
LEMMA NothingKept ==
  ASSUME inputs' = <<>>, userinputs' = <<>>
  PROVE  AreInputs(inputs)' /\ IsUsers(userinputs)'
<1>1. IsList(<<>>)
  BY DEF IsList, Range
<1>. QED
  BY <1>1 DEF AreInputs, IsUsers

LEMMA EndCommandScript ==
  ASSUME ScriptInv, EndCommand
  PROVE  ScriptInv'
<1>1. Cleanup(mrwrap) /\ inputs' = <<>> /\ userinputs' = <<>>
  BY DEF EndCommand, Cleanup
<1>2. TableInv'
  BY <1>1, CleanupTable DEF ScriptInv, TableInv
<1>3. cmd' = [name |-> "none", step |-> cmd.step, ptr |-> cmd'.ptr, before |-> cmd.before,
              renamed |-> cmd.renamed, map |-> cmd.map] /\ DOMAIN cmd'.ptr = {}
  <2>1. cmd = [name |-> cmd.name, step |-> cmd.step, ptr |-> cmd.ptr, before |-> cmd.before,
               renamed |-> cmd.renamed, map |-> cmd.map]
    BY DEF ScriptInv, CmdInv
  <2>2. cmd' = [cmd EXCEPT !.name = "none", !.ptr = [x \in {} |-> 0]]
    BY DEF EndCommand
  <2>. QED
    BY <2>1, <2>2
<1>4. CmdInv'
  <2>1. cmd'.name = "none"
    BY <1>3
  <2>2. cmd'.name \notin Commands /\ cmd'.name # "map"
    BY <2>1 DEF Commands
  <2>3. cmd' = [name |-> cmd'.name, step |-> cmd'.step, ptr |-> cmd'.ptr,
                before |-> cmd'.before, renamed |-> cmd'.renamed, map |-> cmd'.map]
    BY <1>3
  <2>. QED
    BY <1>3, <2>2, <2>3 DEF CmdInv, Running
<1>. QED
  BY <1>1, <1>2, <1>4, NothingKept DEF ScriptInv

\* A line after which no command runs, and which takes no object away
LEMMA LineScript ==
  ASSUME ScriptInv, TableInv', Keeps(mrwrap', mrwrap), cmd' = NoCommand,
         inputs' = inputs, IsUsers(userinputs)'
  PROVE  ScriptInv'
<1>1. AreInputs(inputs)'
  BY InputsKept DEF ScriptInv
<1>. QED
  BY <1>1, IdleCmd DEF ScriptInv

LEMMA FreeStringsScript ==
  ASSUME ScriptInv, FreeStrings
  PROVE  ScriptInv'
<1>1. TableInv' /\ Keeps(mrwrap', mrwrap)
  BY SameTable DEF ScriptInv, FreeStrings
<1>2. inputs' = inputs /\ userinputs' = userinputs
  BY DEF FreeStrings
<1>3. CASE cmd' = NoCommand
  BY <1>1, <1>2, <1>3, LineScript DEF ScriptInv
<1>4. CASE cmd' = cmd
  <2>1. cmd.name = "map" /\ mrwrap' = mrwrap
    BY DEF FreeStrings
  <2>2. AreInputs(inputs)'
    BY <1>1, <1>2, InputsKept DEF ScriptInv
  <2>3. CmdInv'
    BY <1>4, <2>1 DEF ScriptInv, CmdInv, Running, Commands, InTable
  <2>. QED
    BY <1>1, <1>2, <2>2, <2>3 DEF ScriptInv
<1>. QED
  BY <1>3, <1>4 DEF FreeStrings

LEMMA WrapsScript ==
  ASSUME ScriptInv, NEW name \in Names,
         Wrap(name) \/ (mrwrap' = mrwrap /\ alive' = alive),
         cmd' = NoCommand, inputs' = inputs, userinputs' = userinputs
  PROVE  ScriptInv'
<1>1. CASE Wrap(name)
  <2>1. TableInv' /\ Extends(mrwrap', mrwrap, NewMr)
    BY <1>1, WrapExtends DEF ScriptInv
  <2>2. Keeps(mrwrap', mrwrap)
    BY <2>1, ExtendsKeeps
  <2>. QED
    BY <2>1, <2>2, LineScript DEF ScriptInv
<1>2. CASE mrwrap' = mrwrap /\ alive' = alive
  <2>1. TableInv' /\ Keeps(mrwrap', mrwrap)
    BY <1>2, SameTable DEF ScriptInv
  <2>. QED
    BY <2>1, LineScript DEF ScriptInv
<1>. QED
  BY <1>1, <1>2

LEMMA MrLineScript ==
  ASSUME ScriptInv, NEW name \in Names, MrLine(name)
  PROVE  ScriptInv'
<1>1. /\ Wrap(name) \/ (mrwrap' = mrwrap /\ alive' = alive)
      /\ cmd' = NoCommand /\ inputs' = inputs /\ userinputs' = userinputs
  BY DEF MrLine
<1>. QED
  BY <1>1, WrapsScript

LEMMA CopyLineScript ==
  ASSUME ScriptInv, NEW name \in Names, NEW new \in Names, CopyLine(name, new)
  PROVE  ScriptInv'
<1>1. /\ Wrap(new) \/ (mrwrap' = mrwrap /\ alive' = alive)
      /\ cmd' = NoCommand /\ inputs' = inputs /\ userinputs' = userinputs
  BY DEF CopyLine
<1>. QED
  BY <1>1, WrapsScript

LEMMA DeleteLineScript ==
  ASSUME ScriptInv, NEW name \in Names, DeleteLine(name)
  PROVE  ScriptInv'
<1>1. PICK k : k = FindMr(name)
  OBVIOUS
<1>2. PICK w : w = [mrwrap EXCEPT ![k].mode = "DELETE"]
  OBVIOUS
<1>3. /\ Cleanup(w) /\ inputs' = <<>> /\ userinputs' = <<>> /\ cmd' = NoCommand /\ k > 0
  BY <1>1, <1>2 DEF DeleteLine, Cleanup
<1>4. k \in DOMAIN mrwrap /\ Permanent(mrwrap, k)
  BY <1>1, <1>3, FindMrFinds DEF ScriptInv
<1>5. mrwrap \in [1 .. Len(mrwrap) -> Entry] /\ Len(mrwrap) \in Nat /\ DOMAIN mrwrap = 1 .. Len(mrwrap)
  BY DEF ScriptInv, TableInv
<1>6. w[k] \in Entry /\ w[k].name = mrwrap[k].name /\ w[k].mode = "DELETE"
  BY <1>2, <1>4, <1>5 DEF Entry
<1>7. DOMAIN w = 1 .. Len(mrwrap) /\ \A i \in DOMAIN w : i # k => w[i] = mrwrap[i]
  BY <1>2, <1>5
<1>8. w \in Seq(Entry)
  <2>1. w \in [1 .. Len(mrwrap) -> Entry]
    BY <1>2, <1>5, <1>6, <1>7
  <2>. QED
    BY <1>5, <2>1
<1>9. \A i \in DOMAIN w : (w[i].name = None) = (w[i].mode = "TEMPORARY")
  BY <1>4, <1>5, <1>6, <1>7 DEF ScriptInv, TableInv, Permanent
<1>10. TableInv'
  BY <1>3, <1>8, <1>9, CleanupTable DEF ScriptInv
<1>. QED
  BY <1>3, <1>10, NothingKept, IdleCmd DEF ScriptInv

LEMMA MapLineScript ==
  ASSUME ScriptInv, NEW name \in Names, NEW m \in MapLines, MapLine(name, m)
  PROVE  ScriptInv'
<1>1. /\ mrwrap' = mrwrap /\ alive' = alive /\ inputs' = inputs /\ userinputs' = userinputs
      /\ cmd' = [Begin("map") EXCEPT !.map = m]
  BY DEF MapLine
<1>2. TableInv' /\ Keeps(mrwrap', mrwrap)
  BY <1>1, SameTable DEF ScriptInv
<1>3. AreInputs(inputs)'
  BY <1>1, <1>2, InputsKept DEF ScriptInv
<1>4. PICK b : b = Begin("map")
  OBVIOUS
<1>5. b = [name |-> "map", step |-> 1, ptr |-> b.ptr,
           before |-> Named(mrwrap), renamed |-> {}, map |-> None] /\ DOMAIN b.ptr = {}
  BY <1>4, BeginShape, Zenon
<1>6. cmd' = [name |-> "map", step |-> 1, ptr |-> b.ptr,
              before |-> Named(mrwrap), renamed |-> {}, map |-> m]
  BY <1>1, <1>4, <1>5
<1>7. CmdInv'
  <2>1. cmd'.name = "map" /\ cmd'.map = m /\ DOMAIN cmd'.ptr = {}
    BY <1>5, <1>6
  <2>2. cmd'.name \notin Commands
    BY <2>1 DEF Commands
  <2>3. cmd' = [name |-> cmd'.name, step |-> cmd'.step, ptr |-> cmd'.ptr,
                before |-> cmd'.before, renamed |-> cmd'.renamed, map |-> cmd'.map]
    BY <1>6
  <2>. QED
    BY <2>1, <2>2, <2>3 DEF CmdInv, Running
<1>. QED
  BY <1>1, <1>2, <1>3, <1>7 DEF ScriptInv

LEMMA SetLineScript ==
  ASSUME ScriptInv, NEW prepend, NEW substitute, SetLine(prepend, substitute)
  PROVE  ScriptInv'
<1>1. /\ mrwrap' = mrwrap /\ alive' = alive /\ inputs' = inputs /\ userinputs' = userinputs
      /\ cmd' = NoCommand
  BY DEF SetLine
<1>2. TableInv' /\ Keeps(mrwrap', mrwrap)
  BY <1>1, SameTable DEF ScriptInv
<1>. QED
  BY <1>1, <1>2, LineScript DEF ScriptInv


LEMMA InputLineScript ==
  ASSUME ScriptInv, NEW i, NEW settings \in Settings, InputLine(i, settings)
  PROVE  ScriptInv'
<1>1. PICK k : k = Search(userinputs, i)
  OBVIOUS
<1>2. /\ mrwrap' = mrwrap /\ alive' = alive /\ inputs' = inputs /\ cmd' = NoCommand
      /\ userinputs' = IF k \in DOMAIN userinputs
                         THEN [userinputs EXCEPT ![k] =
                                 [index |-> i, set |-> Changed(userinputs[k].set, settings)]]
                         ELSE Append(userinputs,
                                [index |-> i, set |-> Changed(DefaultInput, settings)])
  BY <1>1 DEF InputLine
<1>3. TableInv' /\ Keeps(mrwrap', mrwrap)
  BY <1>2, SameTable DEF ScriptInv
<1>4. IsUsers(userinputs) /\ IsList(userinputs)
  BY DEF ScriptInv, IsUsers
<1>5. IsUsers(userinputs')
  <2>1. CASE k \in DOMAIN userinputs
    <3>1. userinputs[k] # None
      BY <1>1, <1>4, <2>1, SearchEnds
    <3>2. IsSettings(userinputs[k].set)
      BY <1>4, <2>1, <3>1 DEF IsUsers
    <3>3. PICK in : in = Changed(userinputs[k].set, settings)
      OBVIOUS
    <3>4. IsSettings(in)
      BY <3>2, <3>3, ChangedIsSettings
    <3>5. PICK e : e = [index |-> i, set |-> in]
      OBVIOUS
    <3>6. e.set = in
      BY <3>5
    <3>7. userinputs' = [userinputs EXCEPT ![k] = e]
      BY <1>2, <2>1, <3>3, <3>5
    <3>8. /\ userinputs \in Seq(Range(userinputs) \cup {e})
          /\ DOMAIN userinputs = 1 .. Len(userinputs) /\ Len(userinputs) \in Nat
      BY <1>4, ListIn, ListOf
    <3>9. userinputs' \in Seq(Range(userinputs) \cup {e})
      <4>1. userinputs \in [1 .. Len(userinputs) -> Range(userinputs) \cup {e}]
        BY <3>8
      <4>2. e \in Range(userinputs) \cup {e}
        OBVIOUS
      <4>3. userinputs' \in [1 .. Len(userinputs) -> Range(userinputs) \cup {e}]
        BY <3>7, <4>1, <4>2
      <4>. QED
        BY <3>8, <4>3
    <3>10. IsList(userinputs')
      BY <3>9, ListOf
    <3>11. /\ DOMAIN userinputs' = DOMAIN userinputs
           /\ \A j \in DOMAIN userinputs : userinputs'[j] = IF j = k THEN e ELSE userinputs[j]
      BY <3>7, <3>8
    <3>. QED
      BY <1>4, <3>4, <3>6, <3>10, <3>11 DEF IsUsers
  <2>2. CASE k \notin DOMAIN userinputs
    <3>1. PICK in : in = Changed(DefaultInput, settings)
      OBVIOUS
    <3>2. IsSettings(in)
      BY <3>1, DefaultIsSettings, ChangedIsSettings
    <3>3. PICK e : e = [index |-> i, set |-> in]
      OBVIOUS
    <3>4. e.set = in
      BY <3>3
    <3>5. userinputs' = Append(userinputs, e)
      BY <1>2, <2>2, <3>1, <3>3
    <3>6. userinputs \in Seq(Range(userinputs) \cup {e})
      BY <1>4, ListIn
    <3>7. e \in Range(userinputs) \cup {e}
      OBVIOUS
    <3>8. /\ userinputs' \in Seq(Range(userinputs) \cup {e})
          /\ DOMAIN userinputs' = DOMAIN userinputs \cup {Len(userinputs) + 1}
          /\ userinputs'[Len(userinputs) + 1] = e
          /\ \A j \in DOMAIN userinputs : userinputs'[j] = userinputs[j]
      BY <3>5, <3>6, <3>7, Appended
    <3>9. IsList(userinputs')
      BY <3>8, ListOf
    <3>. QED
      BY <1>4, <3>2, <3>4, <3>8, <3>9 DEF IsUsers
  <2>. QED
    BY <2>1, <2>2
<1>6. IsUsers(userinputs)'
  BY <1>5 DEF IsUsers
<1>. QED
  BY <1>2, <1>3, <1>6, LineScript

LEMMA CommandLineScript ==
  ASSUME ScriptInv, NEW c \in Commands, NEW texts \in InputTexts(c), NEW file,
         NEW name \in Names \cup {None}, CommandLine(c, texts, file, name)
  PROVE  /\ ScriptInv' /\ cmd'.name = c
         /\ status' \in {"ok", "crashed"}
         /\ status' = "crashed" => Len(inputs') < Inputs(c) /\ None \in Range(userinputs')
<1>1. PICK added : added = AddInputs(texts)
  OBVIOUS
<1>2. /\ inputs' = added.inputs /\ userinputs' = added.user
      /\ status' = IF added.crash THEN "crashed" ELSE "ok"
      /\ output' = [file |-> file, name |-> name]
      /\ cmd' = Begin(c) /\ mrwrap' = mrwrap /\ alive' = alive
  BY <1>1 DEF CommandLine
<1>3. HasAdded(added, Inputs(c))
  BY <1>1, AddInputsResult DEF ScriptInv
<1>4. TableInv' /\ Keeps(mrwrap', mrwrap)
  BY <1>2, SameTable DEF ScriptInv
<1>5. AreInputs(inputs') /\ IsUsers(userinputs')
  BY <1>2, <1>3 DEF HasAdded
<1>6. AreInputs(inputs)'
  BY <1>2, <1>5 DEF AreInputs, IsDescriptor
<1>7. IsUsers(userinputs)'
  BY <1>5 DEF IsUsers
<1>8. PICK b : b = Begin(c)
  OBVIOUS
<1>9. /\ b = [name |-> c, step |-> 1, ptr |-> b.ptr,
              before |-> Named(mrwrap), renamed |-> {}, map |-> None]
      /\ b.name = c /\ b.step = 1 /\ DOMAIN b.ptr = {} /\ b.renamed = {}
  BY <1>8, BeginShape, Zenon
<1>10. CmdInv'
  <2>1. cmd' = b
    BY <1>2, <1>8
  <2>2. /\ cmd'.name = c /\ cmd'.step = 1 /\ DOMAIN cmd'.ptr = {} /\ cmd'.renamed = {}
        /\ output'.name = name
    BY <1>2, <1>9, <2>1
  <2>3. cmd' = [name |-> cmd'.name, step |-> cmd'.step, ptr |-> cmd'.ptr,
                before |-> cmd'.before, renamed |-> cmd'.renamed, map |-> cmd'.map]
    BY <1>9, <2>1
  <2>4. c # "map" /\ 1 \in DOMAIN Run(c)
    BY RunShape DEF Commands
  <2>5. ~(1 > PointerStep(c))
    BY DEF PointerStep
  <2>6. status' = "ok" => Len(inputs') = Inputs(c)
    BY <1>2, <1>3 DEF HasAdded
  <2>. QED
    BY <2>2, <2>3, <2>4, <2>5, <2>6 DEF CmdInv, Running
<1>11. ScriptInv' /\ cmd'.name = c
  BY <1>2, <1>4, <1>6, <1>7, <1>8, <1>9, <1>10 DEF ScriptInv
<1>12. status' \in {"ok", "crashed"}
       /\ (status' = "crashed" => Len(inputs') < Inputs(c) /\ None \in Range(userinputs'))
  BY <1>2, <1>3 DEF HasAdded
<1>. QED
  BY <1>11, <1>12


LEMMA ScriptInit ==
  ASSUME Init
  PROVE  ScriptInv
<1>1. /\ mrwrap = <<>> /\ alive = {} /\ inputs = <<>> /\ userinputs = <<>> /\ cmd = NoCommand
  BY DEF Init
<1>2. TableInv
  BY <1>1, FS_EmptySet DEF TableInv
<1>3. AreInputs(inputs) /\ IsUsers(userinputs)
  <2>1. IsList(<<>>)
    BY DEF IsList, Range
  <2>. QED
    BY <1>1, <2>1 DEF AreInputs, IsUsers
<1>4. CmdInv
  <2>1. /\ cmd = [name |-> "none", step |-> 1, ptr |-> cmd.ptr,
                  before |-> {}, renamed |-> {}, map |-> None]
        /\ cmd.name = "none" /\ DOMAIN cmd.ptr = {} /\ cmd.before = {} /\ cmd.renamed = {}
    BY <1>1, NoCommandShape, Zenon
  <2>2. cmd = [name |-> cmd.name, step |-> cmd.step, ptr |-> cmd.ptr, before |-> cmd.before,
               renamed |-> cmd.renamed, map |-> cmd.map]
    BY <2>1
  <2>3. cmd.name \notin Commands /\ cmd.name # "map"
    BY <2>1 DEF Commands
  <2>. QED
    BY <2>1, <2>2, <2>3 DEF CmdInv, Running
<1>. QED
  BY <1>2, <1>3, <1>4 DEF ScriptInv

LEMMA SameScript ==
  ASSUME ScriptInv, UNCHANGED oinkVars
  PROVE  ScriptInv'
BY DEF ScriptInv, oinkVars, TableInv, IsUsers, AreInputs, IsDescriptor, CmdInv, Running, InTable

LEMMA ScriptNext ==
  ASSUME ScriptInv, [Next]_vars
  PROVE  ScriptInv'
<1>1. CASE ScriptLine
  <2>1. ASSUME NEW name \in Names, MrLine(name) PROVE ScriptInv'
    BY <2>1, MrLineScript
  <2>2. ASSUME NEW name \in Names, DeleteLine(name) PROVE ScriptInv'
    BY <2>2, DeleteLineScript
  <2>3. ASSUME NEW name \in Names, NEW new \in Names, CopyLine(name, new) PROVE ScriptInv'
    BY <2>3, CopyLineScript
  <2>4. ASSUME NEW name \in Names, NEW m \in MapLines, MapLine(name, m) PROVE ScriptInv'
    BY <2>4, MapLineScript
  <2>5. ASSUME NEW p, NEW n, SetLine(p, n) PROVE ScriptInv'
    BY <2>5, SetLineScript
  <2>6. ASSUME NEW i, NEW settings \in Settings, InputLine(i, settings) PROVE ScriptInv'
    BY <2>6, InputLineScript
  <2>7. ASSUME NEW c \in Commands, NEW file, NEW name \in Names \cup {None},
               NEW texts \in InputTexts(c), CommandLine(c, texts, file, name)
        PROVE  ScriptInv'
    BY <2>7, CommandLineScript
  <2>. QED
    BY <1>1, <2>1, <2>2, <2>3, <2>4, <2>5, <2>6, <2>7 DEF ScriptLine
<1>2. CASE ScriptStep
  <2>1. CASE CommandStep
    BY <2>1, ReadObjectScript, ReadPathsScript, CreateMrScript, OwnMrScript, AlterScript,
       OutputScript DEF CommandStep
  <2>2. CASE EndCommand
    BY <2>2, EndCommandScript
  <2>3. CASE FreeStrings
    BY <2>3, FreeStringsScript
  <2>4. CASE UNCHANGED oinkVars
    BY <2>4, SameScript
  <2>. QED
    BY <1>2, <2>1, <2>2, <2>3, <2>4 DEF ScriptStep
<1>3. CASE UNCHANGED vars
  BY <1>3, SameScript DEF vars
<1>. QED
  BY <1>1, <1>2, <1>3 DEF Next

(* What a script keeps: the table, the settings, the descriptors, the command. *)
THEOREM ScriptSafe == Spec => []ScriptInv
<1>1. Init => ScriptInv
  BY ScriptInit
<1>2. ScriptInv /\ [Next]_vars => ScriptInv'
  BY ScriptNext
<1>. QED
  BY <1>1, <1>2, PTL DEF Spec

(* cleanup() leaves at most half of the table's temporary objects, whatever    *)
(* the script: of two that follow each other it frees at least one.            *)
THEOREM LeftoverIsHalved == Spec => LeftoverHalved
<1>1. ASSUME ScriptInv, [Next]_vars
      PROVE  [EndCommand => 2 * Cardinality(Temporaries(mrwrap'))
                              <= Cardinality(Temporaries(mrwrap))]_vars
  <2>1. ASSUME EndCommand
        PROVE  2 * Cardinality(Temporaries(mrwrap')) <= Cardinality(Temporaries(mrwrap))
    <3>1. mrwrap' = Survivors(mrwrap)
      BY <2>1 DEF EndCommand, Cleanup
    <3>2. mrwrap \in Seq(Entry)
      BY <1>1 DEF ScriptInv, TableInv
    <3>. QED
      BY <3>1, <3>2, HalfSurvives
  <2>. QED
    BY <2>1
<1>. QED
  BY <1>1, ScriptSafe, PTL DEF Spec, LeftoverHalved


--------------------------------------------------------------------------------
(* The names a command found *)

\* Every entry with a name is in the next table.
NamesStay == Named(mrwrap) \subseteq Named(mrwrap')

LEMMA NamedEntry ==
  ASSUME NEW w, NEW i \in DOMAIN w, Permanent(w, i)
  PROVE  <<w[i].name, w[i].mr>> \in Named(w)
BY DEF Named

LEMMA NamedAt ==
  ASSUME NEW w, NEW held \in Named(w)
  PROVE  \E i \in DOMAIN w : Permanent(w, i) /\ held = <<w[i].name, w[i].mr>>
BY DEF Named

LEMMA NamesStayIf ==
  ASSUME NEW v, NEW w,
         \A j \in DOMAIN w : Permanent(w, j) => \E i \in DOMAIN v : v[i] = w[j]
  PROVE  Named(w) \subseteq Named(v)
<1>. SUFFICES ASSUME NEW held \in Named(w) PROVE held \in Named(v)
  OBVIOUS
<1>1. PICK j \in DOMAIN w : Permanent(w, j) /\ held = <<w[j].name, w[j].mr>>
  BY NamedAt
<1>2. PICK i \in DOMAIN v : v[i] = w[j]
  BY <1>1
<1>3. Permanent(v, i)
  BY <1>1, <1>2 DEF Permanent
<1>4. <<v[i].name, v[i].mr>> \in Named(v)
  BY <1>3, NamedEntry
<1>. QED
  BY <1>1, <1>2, <1>4

LEMMA WrapNames ==
  ASSUME TableInv, Wrap(None)
  PROVE  NamesStay
<1>1. Extends(mrwrap', mrwrap, NewMr)
  BY WrapExtends
<1>2. \A j \in DOMAIN mrwrap : \E i \in DOMAIN mrwrap' : mrwrap'[i] = mrwrap[j]
  BY <1>1 DEF Extends
<1>3. Named(mrwrap) \subseteq Named(mrwrap')
  <2>1. PICK v : v = mrwrap'
    OBVIOUS
  <2>2. Named(mrwrap) \subseteq Named(v)
    BY <1>2, <2>1, NamesStayIf
  <2>. QED
    BY <2>1, <2>2
<1>. QED
  BY <1>3 DEF NamesStay

LEMMA CleanupNames ==
  ASSUME TableInv, Cleanup(mrwrap)
  PROVE  NamesStay
<1>1. mrwrap \in Seq(Entry) /\ mrwrap' = Survivors(mrwrap)
  BY DEF TableInv, Cleanup
<1>2. PICK v : v = Survivors(mrwrap)
  OBVIOUS
<1>3. \A j \in DOMAIN mrwrap : Permanent(mrwrap, j) => \E i \in DOMAIN v : v[i] = mrwrap[j]
  BY <1>1, <1>2, NamedSurvive
<1>4. Named(mrwrap) \subseteq Named(v)
  BY <1>3, NamesStayIf
<1>. QED
  BY <1>1, <1>2, <1>4 DEF NamesStay

LEMMA SameNames ==
  ASSUME mrwrap' = mrwrap
  PROVE  NamesStay
BY DEF NamesStay

\* A step of a command other than output()
LEMMA NamesStayKept ==
  ASSUME NamesKept, NamesStay, cmd'.before = cmd.before, cmd'.renamed = cmd.renamed
  PROVE  NamesKept'
BY DEF NamesKept, NamesStay

LEMMA AdvanceKeepsNames ==
  ASSUME CmdInv, NEW ptr, Advance(ptr)
  PROVE  cmd'.before = cmd.before /\ cmd'.renamed = cmd.renamed
<1>1. cmd' = [cmd EXCEPT !.step = @ + 1, !.ptr = ptr]
  BY DEF Advance
<1>2. cmd = [name |-> cmd.name, step |-> cmd.step, ptr |-> cmd.ptr, before |-> cmd.before,
             renamed |-> cmd.renamed, map |-> cmd.map]
  BY DEF CmdInv
<1>. QED
  BY <1>1, <1>2

LEMMA StepNames ==
  ASSUME ScriptInv, NamesKept, ReadObject \/ ReadPaths \/ CreateMr \/ OwnMr \/ Alter
  PROVE  NamesKept'
<1>1. NamesStay
  <2>1. Wrap(None) \/ mrwrap' = mrwrap
    BY DEF ReadObject, ReadPaths, CreateMr, OwnMr, Alter
  <2>. QED
    BY <2>1, WrapNames, SameNames DEF ScriptInv
<1>2. \/ cmd' = cmd \/ Advance(cmd.ptr) \/ Advance(Points(Arg(2), NewMr))
      \/ Advance(Points(Arg(2), mrwrap[inputs[Arg(3)].mrindex].mr))
  BY DEF ReadObject, ReadPaths, CreateMr, OwnMr, Alter
<1>3. cmd'.before = cmd.before /\ cmd'.renamed = cmd.renamed
  BY <1>2, AdvanceKeepsNames DEF ScriptInv
<1>. QED
  BY <1>1, <1>3, NamesStayKept

LEMMA OutputNames ==
  ASSUME ScriptInv, NamesKept, Output
  PROVE  NamesKept'
<1>1. PICK mr : mr = cmd.ptr[Arg(2)]
  OBVIOUS
<1>2. PICK name : name = output.name
  OBVIOUS
<1>3. PICK index : index = IndexOf(mr)
  OBVIOUS
<1>4. /\ Running /\ Run(cmd.name)[cmd.step][1] = "output"
      /\ mrwrap' = IF name = None THEN mrwrap ELSE Rename(mrwrap, index, name)
      /\ cmd' = [cmd EXCEPT !.step = @ + 1, !.renamed = IF name = None THEN {} ELSE {<<name, mr>>}]
  BY <1>1, <1>2, <1>3 DEF Output, At, Running
<1>5. /\ cmd.step = OutputStep(cmd.name) /\ cmd.step > PointerStep(cmd.name)
      /\ Run(cmd.name)[cmd.step][2] = "x" /\ cmd.step \in Nat
  BY <1>4, RunShape DEF ScriptInv, CmdInv, Running, StepShape
<1>6. cmd.renamed = {}
  BY <1>4, <1>5 DEF ScriptInv, CmdInv
<1>7. cmd.before \subseteq Named(mrwrap)
  BY <1>6 DEF NamesKept
<1>8. "x" \in DOMAIN cmd.ptr /\ Arg(2) = "x"
  BY <1>4, <1>5 DEF ScriptInv, CmdInv, Arg
<1>9. InTable(mr)
  BY <1>1, <1>8 DEF ScriptInv, CmdInv
<1>10. mrwrap[index].mr = mr
  BY <1>3, <1>9 DEF InTable, IndexOf
<1>11. /\ cmd'.before = cmd.before
       /\ cmd'.renamed = IF name = None THEN {} ELSE {<<name, mr>>}
  <2>1. cmd = [name |-> cmd.name, step |-> cmd.step, ptr |-> cmd.ptr, before |-> cmd.before,
               renamed |-> cmd.renamed, map |-> cmd.map]
    BY DEF ScriptInv, CmdInv
  <2>. QED
    BY <1>4, <2>1
<1>12. ASSUME NEW held \in cmd.before
       PROVE  \/ held \in Named(mrwrap')
              \/ name # None /\ (held[1] = name \/ held[2] = mr)
  <2>1. PICK i \in DOMAIN mrwrap :
           Permanent(mrwrap, i) /\ held = <<mrwrap[i].name, mrwrap[i].mr>>
    BY <1>7, NamedAt
  <2>2. CASE name # None /\ i = index
    BY <1>10, <2>1, <2>2
  <2>3. CASE name # None /\ mrwrap[i].name = name
    BY <2>1, <2>3
  <2>4. CASE name = None \/ (i # index /\ mrwrap[i].name # name)
    <3>1. i \in DOMAIN mrwrap' /\ mrwrap'[i] = mrwrap[i]
      BY <1>4, <2>4 DEF Rename
    <3>2. PICK v : v = mrwrap'
      OBVIOUS
    <3>3. i \in DOMAIN v /\ v[i] = mrwrap[i] /\ Permanent(v, i)
      BY <2>1, <3>1, <3>2 DEF Permanent
    <3>4. <<v[i].name, v[i].mr>> \in Named(v)
      BY <3>3, NamedEntry
    <3>. QED
      BY <2>1, <3>2, <3>3, <3>4
  <2>. QED
    BY <2>2, <2>3, <2>4
<1>13. PICK renamed : renamed = <<name, mr>>
  OBVIOUS
<1>14. renamed[1] = name /\ renamed[2] = mr /\ (name # None => renamed \in cmd'.renamed)
  BY <1>11, <1>13
<1>. QED
  BY <1>11, <1>12, <1>14 DEF NamesKept

LEMMA EndCommandNames ==
  ASSUME ScriptInv, NamesKept, EndCommand
  PROVE  NamesKept'
<1>1. NamesStay
  BY CleanupNames DEF EndCommand, ScriptInv
<1>2. cmd' = [cmd EXCEPT !.name = "none", !.ptr = [x \in {} |-> 0]]
  BY DEF EndCommand
<1>3. cmd = [name |-> cmd.name, step |-> cmd.step, ptr |-> cmd.ptr, before |-> cmd.before,
             renamed |-> cmd.renamed, map |-> cmd.map]
  BY DEF ScriptInv, CmdInv
<1>4. cmd'.before = cmd.before /\ cmd'.renamed = cmd.renamed
  BY <1>2, <1>3
<1>. QED
  BY <1>1, <1>4, NamesStayKept

\* A new line finds the names it begins with, or none.
LEMMA FreshNames ==
  ASSUME cmd'.before \subseteq Named(mrwrap')
  PROVE  NamesKept'
BY DEF NamesKept

LEMMA IdleNames ==
  ASSUME cmd' = NoCommand
  PROVE  NamesKept'
BY IdleCmd, FreshNames

LEMMA CommandLineNames ==
  ASSUME NEW c, NEW texts, NEW file, NEW name, CommandLine(c, texts, file, name)
  PROVE  NamesKept'
<1>1. PICK b : b = Begin(c)
  OBVIOUS
<1>2. cmd' = b /\ mrwrap' = mrwrap
  BY <1>1 DEF CommandLine
<1>3. b.before = Named(mrwrap)
  BY <1>1, BeginShape, Zenon
<1>. QED
  BY <1>2, <1>3, FreshNames

LEMMA MapLineNames ==
  ASSUME NEW name, NEW m, MapLine(name, m)
  PROVE  NamesKept'
<1>1. PICK b : b = Begin("map")
  OBVIOUS
<1>2. cmd' = [b EXCEPT !.map = m] /\ mrwrap' = mrwrap
  BY <1>1 DEF MapLine
<1>3. b = [name |-> "map", step |-> 1, ptr |-> b.ptr,
           before |-> Named(mrwrap), renamed |-> {}, map |-> None]
  BY <1>1, BeginShape, Zenon
<1>4. cmd'.before = Named(mrwrap)
  BY <1>2, <1>3
<1>. QED
  BY <1>2, <1>4, FreshNames

(* A command lets go of no object that had a name when it began, or of the     *)
(* name, other than by its output: cleanup() and the copies a command takes    *)
(* leave the named entries alone, whatever is deleted between them.            *)
THEOREM ScriptKeepsNames == Spec => []NamesKept
<1>1. Init => NamesKept
  <2>. SUFFICES ASSUME Init PROVE NamesKept
    OBVIOUS
  <2>1. cmd = NoCommand
    BY DEF Init
  <2>2. cmd.before = {}
    BY <2>1, NoCommandShape, Zenon
  <2>. QED
    BY <2>2 DEF NamesKept
<1>2. ASSUME ScriptInv, NamesKept, [Next]_vars
      PROVE  NamesKept'
  <2>1. CASE UNCHANGED oinkVars
    BY <1>2, <2>1 DEF NamesKept, oinkVars
  <2>2. CASE CommandStep
    BY <1>2, <2>2, StepNames, OutputNames DEF CommandStep
  <2>3. CASE EndCommand
    BY <1>2, <2>3, EndCommandNames
  <2>4. CASE cmd' = NoCommand
    BY <2>4, IdleNames
  <2>5. ASSUME NEW c, NEW texts, NEW file, NEW name, CommandLine(c, texts, file, name)
        PROVE  NamesKept'
    BY <2>5, CommandLineNames
  <2>6. ASSUME NEW name, NEW m, MapLine(name, m)
        PROVE  NamesKept'
    BY <2>6, MapLineNames
  <2>7. ScriptLine => \/ cmd' = NoCommand
                      \/ \E c, texts, file, name : CommandLine(c, texts, file, name)
                      \/ \E name, m : MapLine(name, m)
    BY DEF ScriptLine, MrLine, DeleteLine, CopyLine, SetLine, InputLine
  <2>8. FreeStrings => cmd' = NoCommand \/ (cmd' = cmd /\ mrwrap' = mrwrap)
    BY DEF FreeStrings
  <2>9. CASE cmd' = cmd /\ mrwrap' = mrwrap
    BY <1>2, <2>9 DEF NamesKept
  <2>. QED
    BY <1>2, <2>1, <2>2, <2>3, <2>4, <2>5, <2>6, <2>7, <2>8, <2>9 DEF Next, ScriptStep, vars
<1>. QED
  BY <1>1, <1>2, ScriptSafe, PTL DEF Spec


--------------------------------------------------------------------------------
(* The pieces of one file: size characters in a number of tasks, read from a   *)
(* cut to the next one and delta further, and trimmed to separators.           *)

IsCutting(c) ==
  /\ c.size \in Nat /\ c.tasks \in Nat \ {0} /\ c.delta \in Nat
  /\ c.sep \in Nat /\ c.shift \in Nat /\ c.shift <= c.sep /\ c.seps \in SUBSET Nat

Cut(c, j) == (j * c.size) \div c.tasks
Reach(c, j) == Min({Cut(c, j + 1) + c.delta, c.size})
SepsWithin(c, a, b) == {p \in c.seps : a <= p /\ p + c.sep <= b}
LeastSep(c, a, b) ==
  IF SepsWithin(c, a, b) = {} THEN -1 ELSE Min(SepsWithin(c, a, b))
Trimmed(c, p) == IF p = -1 THEN -1 ELSE p + c.shift
PieceFrom(c, j) ==
  IF j = 0 THEN 0
  ELSE IF LeastSep(c, Cut(c, j), Reach(c, j)) - Cut(c, j) > c.delta THEN -1
  ELSE Trimmed(c, LeastSep(c, Cut(c, j), Reach(c, j)))
PieceTo(c, j) ==
  IF j = c.tasks - 1 THEN Reach(c, j)
  ELSE Trimmed(c, LeastSep(c, Cut(c, j + 1), Reach(c, j)))

LEMMA CutsGrow ==
  ASSUME NEW c, IsCutting(c), NEW i \in Nat, NEW j \in Nat, i <= j
  PROVE  Cut(c, i) \in Nat /\ Cut(c, j) \in Nat /\ Cut(c, i) <= Cut(c, j)
<1>1. PICK s \in Nat : s = c.size
  BY DEF IsCutting
<1>2. PICK k \in Nat \ {0} : k = c.tasks
  BY DEF IsCutting
<1>3. i * s \in Nat /\ j * s \in Nat /\ i * s <= j * s
  BY NumbersConstants, Numbers!Monotone, Zenon
<1>4. PICK a \in Nat : a = i * s
  BY <1>3
<1>5. PICK b \in Nat : b = j * s
  BY <1>3
<1>6. /\ a \div k \in Nat /\ k * (a \div k) <= a
      /\ b \div k \in Nat /\ b < k * (b \div k) + k
  BY NumbersConstants, Numbers!Division, Zenon
<1>7. PICK x \in Nat : x = a \div k
  BY <1>6
<1>8. PICK y \in Nat : y = b \div k
  BY <1>6
<1>9. x <= y
  <2>1. SUFFICES ASSUME y + 1 <= x PROVE FALSE
    OBVIOUS
  <2>2. (y + 1) * k \in Nat /\ x * k \in Nat /\ (y + 1) * k <= x * k
    <3>1. y + 1 \in Nat /\ k \in Nat
      OBVIOUS
    <3>. QED
      BY <2>1, <3>1, NumbersConstants, Numbers!Monotone, Zenon
  <2>3. (y + 1) * k = k * y + k /\ x * k = k * x
    OBVIOUS
  <2>4. k * x <= a /\ b < k * y + k /\ a <= b
    BY <1>3, <1>4, <1>5, <1>6, <1>7, <1>8
  <2>. QED
    <3>1. PICK u \in Nat : u = k * x
      BY <2>2, <2>3
    <3>2. PICK v \in Nat : v = k * y
      OBVIOUS
    <3>. QED
      BY <2>2, <2>3, <2>4, <3>1, <3>2
<1>. QED
  BY <1>1, <1>2, <1>4, <1>5, <1>7, <1>8, <1>9 DEF Cut

LEMMA LastCut ==
  ASSUME NEW c, IsCutting(c)
  PROVE  Cut(c, c.tasks) = c.size
<1>1. c.size \in Nat /\ c.tasks \in Nat \ {0}
  BY DEF IsCutting
<1>2. (c.tasks * c.size) \div c.tasks = c.size
  BY <1>1, NumbersConstants, Numbers!ExactQuotient, Zenon
<1>. QED
  BY <1>2 DEF Cut

LEMMA MinOfTwo ==
  ASSUME NEW a \in Nat, NEW b \in Nat
  PROVE  Min({a, b}) = IF a <= b THEN a ELSE b
<1>1. {a, b} \in SUBSET Nat /\ {a, b} # {}
  OBVIOUS
<1>2. PICK S : S = {a, b}
  OBVIOUS
<1>3. Min(S) \in S /\ \A y \in S : Min(S) <= y
  BY <1>1, <1>2, MinIsLeast
<1>. QED
  BY <1>2, <1>3

LEMMA ReachIs ==
  ASSUME NEW c, IsCutting(c), NEW j \in Nat
  PROVE  /\ Reach(c, j) \in Nat /\ Reach(c, j) <= c.size
         /\ Reach(c, j) <= Cut(c, j + 1) + c.delta
         /\ Reach(c, j) = c.size \/ Reach(c, j) = Cut(c, j + 1) + c.delta
<1>1. Cut(c, j + 1) \in Nat
  BY CutsGrow
<1>2. c.size \in Nat /\ c.delta \in Nat
  BY DEF IsCutting
<1>3. PICK a \in Nat : a = Cut(c, j + 1) + c.delta
  BY <1>1, <1>2
<1>4. Min({a, c.size}) = IF a <= c.size THEN a ELSE c.size
  BY <1>2, MinOfTwo
<1>. QED
  BY <1>2, <1>3, <1>4 DEF Reach

LEMMA LeastSepIs ==
  ASSUME NEW c, IsCutting(c), NEW a, NEW b
  PROVE  \/ LeastSep(c, a, b) = -1 /\ SepsWithin(c, a, b) = {}
         \/ /\ LeastSep(c, a, b) \in Nat /\ LeastSep(c, a, b) \in c.seps
            /\ a <= LeastSep(c, a, b) /\ LeastSep(c, a, b) + c.sep <= b
            /\ \A p \in SepsWithin(c, a, b) : LeastSep(c, a, b) <= p
<1>1. PICK S : S = SepsWithin(c, a, b)
  OBVIOUS
<1>2. S \in SUBSET Nat /\ \A p \in S : p \in c.seps /\ a <= p /\ p + c.sep <= b
  BY <1>1 DEF SepsWithin, IsCutting
<1>3. S # {} => Min(S) \in S /\ \A y \in S : Min(S) <= y
  BY <1>2, MinIsLeast
<1>. QED
  BY <1>1, <1>2, <1>3 DEF LeastSep

\* Where a piece begins and ends, if the separators are found.
LEMMA PieceBounds ==
  ASSUME NEW c, IsCutting(c), NEW j \in 0 .. c.tasks - 1
  PROVE  /\ PieceFrom(c, j) # -1 => /\ PieceFrom(c, j) \in Nat
                                    /\ PieceFrom(c, j) # 0 => PieceFrom(c, j) - c.shift \in c.seps
         /\ PieceTo(c, j) # -1 => PieceTo(c, j) \in Nat /\ PieceTo(c, j) <= c.size
<1>1. /\ c.tasks \in Nat /\ c.shift \in Nat /\ c.sep \in Nat /\ c.shift <= c.sep
      /\ c.size \in Nat /\ j \in Nat
  BY DEF IsCutting
<1>2. Reach(c, j) \in Nat /\ Reach(c, j) <= c.size
  BY <1>1, ReachIs
<1>3. PICK p : p = LeastSep(c, Cut(c, j), Reach(c, j))
  OBVIOUS
<1>4. p = -1 \/ (p \in Nat /\ p \in c.seps)
  BY <1>3, LeastSepIs
<1>5. PICK q : q = LeastSep(c, Cut(c, j + 1), Reach(c, j))
  OBVIOUS
<1>6. q = -1 \/ (q \in Nat /\ q + c.sep <= Reach(c, j))
  BY <1>5, LeastSepIs
<1>7. PieceFrom(c, j) # -1 => PieceFrom(c, j) = 0 \/ (p # -1 /\ PieceFrom(c, j) = p + c.shift)
  BY <1>3 DEF PieceFrom, Trimmed
<1>8. PieceTo(c, j) # -1 => PieceTo(c, j) = Reach(c, j) \/ (q # -1 /\ PieceTo(c, j) = q + c.shift)
  BY <1>5 DEF PieceTo, Trimmed
<1>9. PieceTo(c, j) # -1 => PieceTo(c, j) \in Nat /\ PieceTo(c, j) <= c.size
  BY <1>1, <1>2, <1>6, <1>8
<1>10. PieceFrom(c, j) # -1 => /\ PieceFrom(c, j) \in Nat
                               /\ PieceFrom(c, j) # 0 => PieceFrom(c, j) - c.shift \in c.seps
  <2>1. p \in Nat => p + c.shift \in Nat /\ (p + c.shift) - c.shift = p
    BY <1>1
  <2>. QED
    BY <1>4, <1>7, <2>1
<1>. QED
  BY <1>9, <1>10

\* A piece begins where the one before it ends.
LEMMA PiecesMeet ==
  ASSUME NEW c, IsCutting(c), NEW j \in Nat, j + 1 \in 0 .. c.tasks - 1,
         PieceTo(c, j) # -1
  PROVE  PieceFrom(c, j + 1) = PieceTo(c, j)
<1>1. /\ c.tasks \in Nat /\ c.sep \in Nat /\ c.delta \in Nat /\ c.size \in Nat
      /\ c.shift \in Nat
  BY DEF IsCutting
<1>2. PICK a \in Nat : a = Cut(c, j + 1)
  BY CutsGrow
<1>3. a <= Cut(c, j + 2) /\ Cut(c, j + 2) \in Nat
  <2>1. j + 1 \in Nat /\ j + 2 \in Nat /\ j + 1 <= j + 2
    OBVIOUS
  <2>. QED
    BY <1>2, <2>1, CutsGrow
<1>4. PICK b \in Nat : b = Reach(c, j)
  BY ReachIs
<1>5. PICK e \in Nat : e = Reach(c, j + 1)
  BY ReachIs
<1>6. b <= e /\ b <= a + c.delta
  <2>1. /\ b <= c.size /\ b <= a + c.delta
    BY <1>2, <1>4, ReachIs
  <2>2. e = c.size \/ e = Cut(c, j + 2) + c.delta
    <3>1. j + 1 \in Nat /\ (j + 1) + 1 = j + 2
      OBVIOUS
    <3>. QED
      BY <1>5, <3>1, ReachIs
  <2>. QED
    BY <1>1, <1>3, <2>1, <2>2
<1>7. PICK p : p = LeastSep(c, a, b)
  OBVIOUS
<1>8. p # -1 /\ PieceTo(c, j) = p + c.shift
  <2>1. j # c.tasks - 1
    BY <1>1
  <2>. QED
    BY <1>2, <1>4, <1>7, <2>1 DEF PieceTo, Trimmed
<1>9. /\ p \in Nat /\ p \in c.seps /\ a <= p /\ p + c.sep <= b
      /\ \A r \in SepsWithin(c, a, b) : p <= r
  BY <1>7, <1>8, LeastSepIs
<1>10. PICK q : q = LeastSep(c, a, e)
  OBVIOUS
<1>11. p \in SepsWithin(c, a, e)
  BY <1>1, <1>6, <1>9 DEF SepsWithin
<1>12. /\ q \in Nat /\ q \in c.seps /\ a <= q /\ q + c.sep <= e /\ q <= p
  BY <1>10, <1>11, LeastSepIs
<1>13. q \in SepsWithin(c, a, b)
  <2>1. q + c.sep <= b
    BY <1>1, <1>9, <1>12
  <2>. QED
    BY <1>12, <2>1 DEF SepsWithin
<1>14. q = p
  BY <1>9, <1>12, <1>13
<1>15. ~(p - a > c.delta)
  BY <1>1, <1>6, <1>9
<1>. QED
  <2>1. j + 1 # 0
    OBVIOUS
  <2>. QED
    BY <1>2, <1>5, <1>8, <1>10, <1>14, <1>15, <2>1 DEF PieceFrom, Trimmed

\* Pieces do not overlap, whatever lies between them.
LEMMA PiecesApart ==
  ASSUME NEW c, IsCutting(c), NEW i \in Nat, NEW j \in 0 .. c.tasks - 1, i < j,
         PieceTo(c, i) # -1, PieceFrom(c, j) # -1
  PROVE  PieceTo(c, i) <= PieceFrom(c, j)
<1>1. /\ c.tasks \in Nat /\ c.sep \in Nat /\ c.shift \in Nat /\ j \in Nat
      /\ i + 1 \in Nat /\ i + 1 <= j /\ i # c.tasks - 1 /\ j # 0
  BY DEF IsCutting
<1>2. PICK a \in Nat : a = Cut(c, i + 1)
  BY CutsGrow
<1>3. PICK z \in Nat : z = Cut(c, j)
  BY <1>1, CutsGrow
<1>4. a <= z
  BY <1>1, <1>2, <1>3, CutsGrow
<1>5. PICK b \in Nat : b = Reach(c, i)
  BY ReachIs
<1>6. PICK p : p = LeastSep(c, a, b)
  OBVIOUS
<1>7. PICK q : q = LeastSep(c, z, Reach(c, j))
  OBVIOUS
<1>8. p # -1 /\ PieceTo(c, i) = p + c.shift
  BY <1>1, <1>2, <1>5, <1>6 DEF PieceTo, Trimmed
<1>9. q # -1 /\ PieceFrom(c, j) = q + c.shift
  BY <1>1, <1>3, <1>7 DEF PieceFrom, Trimmed
<1>10. /\ p \in Nat /\ p + c.sep <= b
       /\ \A r \in SepsWithin(c, a, b) : p <= r
  BY <1>6, <1>8, LeastSepIs
<1>11. q \in Nat /\ q \in c.seps /\ z <= q
  BY <1>7, <1>9, LeastSepIs
<1>12. p <= q
  <2>1. SUFFICES ASSUME q < p PROVE FALSE
    BY <1>10, <1>11
  <2>2. a <= q /\ q + c.sep <= b
    BY <1>1, <1>4, <1>10, <1>11, <2>1
  <2>3. q \in SepsWithin(c, a, b)
    BY <1>11, <2>2 DEF SepsWithin
  <2>. QED
    BY <1>10, <1>11, <2>1, <2>3
<1>. QED
  BY <1>1, <1>8, <1>9, <1>10, <1>11, <1>12

\* The last piece ends with the file, so every character is in some piece.
LEMMA PiecesCover ==
  ASSUME NEW c, IsCutting(c),
         \A j \in 0 .. c.tasks - 1 : PieceFrom(c, j) # -1 /\ PieceTo(c, j) # -1,
         NEW n \in 0 .. c.size - 1
  PROVE  \E j \in 0 .. c.tasks - 1 : PieceFrom(c, j) <= n /\ n < PieceTo(c, j)
<1>1. c.tasks \in Nat \ {0} /\ c.size \in Nat /\ c.delta \in Nat /\ n \in Nat
  BY DEF IsCutting
<1>2. PieceTo(c, c.tasks - 1) = c.size
  <2>1. PICK l \in Nat : l = c.tasks - 1
    BY <1>1
  <2>2. l + 1 = c.tasks
    BY <1>1, <2>1
  <2>3. Cut(c, l + 1) = c.size
    BY <2>2, LastCut
  <2>4. Reach(c, l) = c.size
    BY <1>1, <2>3, ReachIs
  <2>. QED
    BY <2>1, <2>4 DEF PieceTo
<1>. DEFINE S == {j \in 0 .. c.tasks - 1 : n < PieceTo(c, j)}
<1>3. S \in SUBSET Nat /\ S # {}
  <2>1. c.tasks - 1 \in 0 .. c.tasks - 1 /\ n < c.size
    BY <1>1
  <2>. QED
    BY <1>1, <1>2, <2>1
<1>4. PICK j : j \in S /\ \A y \in S : j <= y
  <2>. HIDE DEF S
  <2>. QED
    BY <1>3, MinIsLeast
<1>5. CASE j = 0
  <2>1. PieceFrom(c, j) = 0
    BY <1>5 DEF PieceFrom
  <2>. QED
    BY <1>1, <1>4, <2>1
<1>6. CASE j # 0
  <2>1. PICK i \in Nat : j = i + 1
    BY <1>1, <1>4, <1>6
  <2>2. i \in 0 .. c.tasks - 1 /\ i + 1 \in 0 .. c.tasks - 1 /\ i \notin S
    BY <1>1, <1>4, <2>1
  <2>3. PieceTo(c, i) \in Nat /\ PieceTo(c, i) # -1
    BY <2>2, PieceBounds
  <2>4. PieceTo(c, i) <= n
    BY <1>1, <2>2, <2>3
  <2>5. PieceFrom(c, j) = PieceTo(c, i)
    BY <2>1, <2>2, <2>3, PiecesMeet
  <2>. QED
    BY <1>4, <2>4, <2>5
<1>. QED
  BY <1>5, <1>6


--------------------------------------------------------------------------------
(* What holds of a call of map() over files *)

AreArgs(args) ==
  /\ args.split \in {"no", "char", "string"}
  /\ args.self \in BOOLEAN /\ args.recurse \in BOOLEAN /\ args.readfile \in BOOLEAN
  /\ args.nmap \in Nat /\ args.delta \in Nat /\ args.known \in BOOLEAN
  /\ \A r \in Rank : IsList(args.paths[r])

FilesInv ==
  /\ \A r \in Rank : IsList(files[r])
  /\ mstage # "idle" \/ Splits => AreArgs(margs)
  /\ mstage \in {"hand", "files"} => ~Splits
  /\ mstage \in {"size", "plan", "grow", "chunks"} => Splits
  /\ mstage \in {"find", "hand", "size", "plan", "grow"} => given = {}
  /\ mstage \in {"find", "size"} => nmap \in Nat /\ nmap = margs.nmap
  /\ mstage = "crashed" => CallCrashes

\* Whole files: a task is either still to be taken or its file was given.
TasksTaken ==
  /\ IsFiniteSet(todo) /\ IsFiniteSet(given)
  /\ Cardinality(given) + Cardinality(todo) = nmap
  /\ \A t \in todo : t = <<t[1], t[2]>>
  /\ \A x \in given : <<x.list, x.file>> \notin todo

WholeInv ==
  ~Splits => /\ \A x \in given : x.from = 0 /\ x.to = 0
             /\ mstage = "files" => TasksTaken
             /\ mstage = "idle" => Cardinality(given) = nmap

\* The tasks of a plan are the pieces of each file, every one of them.
Known == \A i \in 1 .. nfile : files[0][i] \in DOMAIN Disk
IsPlan(n, tasks, list) ==
  /\ tasks \in [1 .. n -> Nat \ {0}]
  /\ \A t \in DOMAIN list : list[t][1] \in 1 .. n /\ list[t][2] \in 0 .. tasks[list[t][1]] - 1
  /\ \A i \in 1 .. n : \A j \in 0 .. tasks[i] - 1 :
       \E t \in DOMAIN list : list[t][1] = i /\ list[t][2] = j
Planned == Known /\ IsPlan(nfile, tasksperfile, which)

PieceOf(t) == [list |-> 0, file |-> which[t][1], task |-> which[t][2],
               from |-> StartOf(t), to |-> StopOf(t)]
IsRead(t) == StartOf(t) # -1 /\ StopOf(t) # -1
AllGiven(S) == \A t \in DOMAIN which : t \in S \/ (IsRead(t) /\ PieceOf(t) \in given)

PiecesInv ==
  /\ given # {} => Planned
  /\ \A x \in given : \E t \in DOMAIN which : IsRead(t) /\ x = PieceOf(t)

SplitInv ==
  Splits => /\ mstage \in {"plan", "grow"} => Known /\ nmap \in Nat \ {0}
            /\ mstage = "grow" => tasksperfile \in [1 .. nfile -> Nat \ {0}]
            /\ PiecesInv
            /\ mstage = "chunks" => Planned /\ todo \subseteq DOMAIN which /\ AllGiven(todo)
            /\ mstage = "idle" => Planned /\ AllGiven({})

MapInv == FilesInv /\ WholeInv /\ SplitInv

LEMMA RankZero == 0 \in Rank /\ IsFiniteSet(Rank)
<1>1. Procs \in Nat \ {0}
  BY DiskAssumption
<1>2. 0 \in Rank
  BY <1>1 DEF Rank
<1>3. IsFiniteSet(0 .. Procs - 1)
  <2>1. 0 \in Int /\ Procs - 1 \in Int
    BY <1>1
  <2>. QED
    BY <2>1, FS_Interval
<1>. QED
  BY <1>2, <1>3 DEF Rank

LEMMA FilesAreNumbered ==
  ASSUME FilesInv
  PROVE  nfile \in Nat /\ DOMAIN files[0] = 1 .. nfile
BY RankZero, ListOf DEF FilesInv, nfile, IsList

\* A file of the plan, as the lemmas above see it.
Cutting(i) ==
  [size |-> Size(i), tasks |-> tasksperfile[i], delta |-> margs.delta, sep |-> Sep,
   shift |-> Shift, seps |-> Disk[files[0][i]].seps]

LEMMA CuttingIs ==
  ASSUME AreArgs(margs), Planned, NEW i \in 1 .. nfile
  PROVE  /\ IsCutting(Cutting(i)) /\ Cutting(i).size = Size(i)
         /\ Cutting(i).tasks = tasksperfile[i] /\ Cutting(i).shift = Shift
         /\ Cutting(i).seps = Disk[files[0][i]].seps
<1>1. files[0][i] \in DOMAIN Disk
  BY DEF Planned, IsPlan, Known
<1>2. /\ Disk[files[0][i]].size \in Nat /\ Disk[files[0][i]].seps \subseteq Nat
      /\ SepLength \in Nat
  BY <1>1, DiskAssumption
<1>3. Sep \in Nat /\ Shift \in Nat /\ Shift <= Sep
  BY <1>2 DEF Sep, Shift
<1>4. tasksperfile[i] \in Nat \ {0} /\ margs.delta \in Nat /\ Size(i) \in Nat
  BY <1>2 DEF Planned, IsPlan, AreArgs, Size
<1>5. PICK c : c = Cutting(i)
  OBVIOUS
<1>6. /\ c.size = Size(i) /\ c.tasks = tasksperfile[i] /\ c.delta = margs.delta
      /\ c.sep = Sep /\ c.shift = Shift /\ c.seps = Disk[files[0][i]].seps
  BY <1>5 DEF Cutting
<1>7. IsCutting(c)
  BY <1>2, <1>3, <1>4, <1>6 DEF IsCutting
<1>. QED
  BY <1>5, <1>6, <1>7

LEMMA PieceIsCut ==
  ASSUME AreArgs(margs), Planned, NEW t \in DOMAIN which
  PROVE  /\ which[t][1] \in 1 .. nfile
         /\ which[t][2] \in 0 .. Cutting(which[t][1]).tasks - 1
         /\ StartOf(t) = PieceFrom(Cutting(which[t][1]), which[t][2])
         /\ StopOf(t) = PieceTo(Cutting(which[t][1]), which[t][2])
<1>1. PICK i \in 1 .. nfile : i = which[t][1]
  BY DEF Planned, IsPlan
<1>2. PICK j \in 0 .. tasksperfile[i] - 1 : j = which[t][2]
  BY <1>1 DEF Planned, IsPlan
<1>3. PICK c : c = Cutting(i)
  OBVIOUS
<1>4. /\ IsCutting(c) /\ c.size = Size(i) /\ c.tasks = tasksperfile[i]
      /\ c.delta = margs.delta /\ c.sep = Sep /\ c.shift = Shift
      /\ c.seps = Disk[files[0][i]].seps
  <2>1. IsCutting(c)
    BY <1>3, CuttingIs
  <2>. QED
    BY <1>3, <2>1 DEF Cutting
<1>5. /\ ReadStart(t) = Cut(c, j) /\ ReadNext(t) = Cut(c, j + 1)
      /\ ReadEnd(t) = Reach(c, j)
  <2>1. ReadStart(t) = Cut(c, j) /\ ReadNext(t) = Cut(c, j + 1)
    BY <1>1, <1>2, <1>4, Zenon DEF ReadStart, ReadNext, Cut
  <2>. QED
    BY <1>1, <1>4, <2>1 DEF ReadEnd, Reach
<1>6. \A a, b : Found(i, a, b) = LeastSep(c, a, b)
  BY <1>4 DEF Found, LeastSep, SepsWithin
<1>7. StartOf(t) = PieceFrom(c, j)
  <2>1. PICK p : p = LeastSep(c, Cut(c, j), Reach(c, j))
    OBVIOUS
  <2>2. StartOf(t) = IF j = 0 THEN 0
                     ELSE IF p = -1 \/ p - Cut(c, j) > c.delta THEN -1 ELSE p + c.shift
    BY <1>1, <1>2, <1>4, <1>5, <1>6, <2>1 DEF StartOf
  <2>3. PieceFrom(c, j) = IF j = 0 THEN 0
                          ELSE IF p - Cut(c, j) > c.delta THEN -1
                          ELSE IF p = -1 THEN -1 ELSE p + c.shift
    BY <2>1 DEF PieceFrom, Trimmed
  <2>. QED
    BY <2>2, <2>3
<1>8. StopOf(t) = PieceTo(c, j)
  <2>1. PICK p : p = LeastSep(c, Cut(c, j + 1), Reach(c, j))
    OBVIOUS
  <2>2. StopOf(t) = IF j = tasksperfile[i] - 1 THEN Reach(c, j)
                    ELSE IF p = -1 THEN -1 ELSE p + Shift
    BY <1>1, <1>2, <1>5, <1>6, <2>1 DEF StopOf
  <2>3. PieceTo(c, j) = IF j = tasksperfile[i] - 1 THEN Reach(c, j)
                        ELSE IF p = -1 THEN -1 ELSE p + Shift
    BY <1>4, <2>1 DEF PieceTo, Trimmed
  <2>. QED
    BY <2>2, <2>3
<1>. QED
  BY <1>1, <1>2, <1>3, <1>4, <1>7, <1>8

\* The pieces given divide their files.
LEMMA MapInvDivides ==
  ASSUME MapInv
  PROVE  ChunksDivide
<1>1. CASE ~Splits
  <2>1. \A x \in given : x.from = 0 /\ x.to = 0
    BY <1>1 DEF MapInv, WholeInv
  <2>2. mstage = "idle" => Cardinality(given) = nmap
    BY <1>1 DEF MapInv, WholeInv
  <2>3. margs.split = "no"
    BY <1>1 DEF Splits
  <2>4. \A x, y \in given : x.to <= y.from
    BY <2>1
  <2>. QED
    BY <2>1, <2>2, <2>3, <2>4 DEF ChunksDivide
<1>2. CASE Splits
  <2>1. /\ AreArgs(margs) /\ PiecesInv
        /\ mstage = "idle" => Planned /\ AllGiven({})
    BY <1>2 DEF MapInv, FilesInv, SplitInv
  <2>2. ASSUME NEW x \in given, NEW y \in given, x.file = y.file, x # y
        PROVE  x.to <= y.from \/ y.to <= x.from
    <3>1. Planned
      BY <2>1, <2>2 DEF PiecesInv
    <3>2. PICK t \in DOMAIN which : IsRead(t) /\ x = PieceOf(t)
      BY <2>1 DEF PiecesInv
    <3>3. PICK u \in DOMAIN which : IsRead(u) /\ y = PieceOf(u)
      BY <2>1 DEF PiecesInv
    <3>4. PICK i : i = which[t][1] /\ i = which[u][1]
      BY <2>2, <3>2, <3>3 DEF PieceOf
    <3>5. PICK c : c = Cutting(i)
      OBVIOUS
    <3>6. i \in 1 .. nfile
      BY <2>1, <3>1, <3>4, PieceIsCut
    <3>7. IsCutting(c)
      BY <2>1, <3>1, <3>5, <3>6, CuttingIs
    <3>8. /\ which[t][2] \in 0 .. c.tasks - 1
          /\ x.from = PieceFrom(c, which[t][2]) /\ x.to = PieceTo(c, which[t][2])
          /\ PieceFrom(c, which[t][2]) # -1 /\ PieceTo(c, which[t][2]) # -1
      BY <2>1, <3>1, <3>2, <3>4, <3>5, PieceIsCut DEF PieceOf, IsRead
    <3>9. /\ which[u][2] \in 0 .. c.tasks - 1
          /\ y.from = PieceFrom(c, which[u][2]) /\ y.to = PieceTo(c, which[u][2])
          /\ PieceFrom(c, which[u][2]) # -1 /\ PieceTo(c, which[u][2]) # -1
      BY <2>1, <3>1, <3>3, <3>4, <3>5, PieceIsCut DEF PieceOf, IsRead
    <3>10. which[t][2] # which[u][2]
      BY <2>2, <3>2, <3>3, <3>4, <3>5, <3>8, <3>9 DEF PieceOf
    <3>11. c.tasks \in Nat
      BY <3>7 DEF IsCutting
    <3>12. PICK j \in 0 .. c.tasks - 1 : j = which[t][2]
      BY <3>8
    <3>13. PICK k \in 0 .. c.tasks - 1 : k = which[u][2]
      BY <3>9
    <3>14. j \in Nat /\ k \in Nat /\ (j < k \/ k < j)
      BY <3>10, <3>11, <3>12, <3>13
    <3>. QED
      BY <3>7, <3>8, <3>9, <3>12, <3>13, <3>14, PiecesApart
  <2>3. ASSUME NEW x \in given, x.from # 0
        PROVE  x.from - Shift \in Disk[files[0][x.file]].seps
    <3>1. Planned
      BY <2>1, <2>3 DEF PiecesInv
    <3>2. PICK t \in DOMAIN which : IsRead(t) /\ x = PieceOf(t)
      BY <2>1 DEF PiecesInv
    <3>3. PICK i \in 1 .. nfile : i = which[t][1]
      BY <2>1, <3>1, PieceIsCut
    <3>4. PICK c : c = Cutting(i)
      OBVIOUS
    <3>5. IsCutting(c) /\ c.shift = Shift /\ c.seps = Disk[files[0][i]].seps
      BY <2>1, <3>1, <3>4, CuttingIs
    <3>6. /\ which[t][2] \in 0 .. c.tasks - 1 /\ x.file = i
          /\ x.from = PieceFrom(c, which[t][2]) /\ x.from # -1
      BY <2>1, <3>1, <3>2, <3>3, <3>4, PieceIsCut DEF PieceOf, IsRead
    <3>. QED
      BY <2>3, <3>5, <3>6, PieceBounds
  <2>4. ASSUME mstage = "idle", NEW i \in 1 .. nfile
        PROVE  UNION {x.from .. x.to - 1 : x \in {y \in given : y.file = i}} = 0 .. Size(i) - 1
    <3>1. Planned /\ AllGiven({})
      BY <2>1, <2>4
    <3>2. PICK c : c = Cutting(i)
      OBVIOUS
    <3>3. IsCutting(c) /\ c.size = Size(i) /\ c.tasks = tasksperfile[i]
      BY <2>1, <3>1, <3>2, CuttingIs
    <3>4. ASSUME NEW t \in DOMAIN which, which[t][1] = i
          PROVE  /\ IsRead(t) /\ PieceOf(t) \in given /\ which[t][2] \in 0 .. c.tasks - 1
                 /\ StartOf(t) = PieceFrom(c, which[t][2])
                 /\ StopOf(t) = PieceTo(c, which[t][2])
      BY <2>1, <3>1, <3>2, <3>4, PieceIsCut DEF AllGiven
    <3>5. \A j \in 0 .. c.tasks - 1 : \E t \in DOMAIN which : which[t][1] = i /\ which[t][2] = j
      BY <3>1, <3>3 DEF Planned, IsPlan
    <3>6. \A j \in 0 .. c.tasks - 1 : PieceFrom(c, j) # -1 /\ PieceTo(c, j) # -1
      BY <3>4, <3>5 DEF IsRead
    <3>7. ASSUME NEW n \in 0 .. c.size - 1
          PROVE  \E x \in given : x.file = i /\ n \in x.from .. x.to - 1
      <4>1. PICK j \in 0 .. c.tasks - 1 : PieceFrom(c, j) <= n /\ n < PieceTo(c, j)
        BY <3>3, <3>6, PiecesCover
      <4>2. PieceFrom(c, j) \in Nat /\ PieceTo(c, j) \in Nat /\ n \in Nat
        BY <3>3, <3>6, PieceBounds DEF IsCutting
      <4>3. PICK t \in DOMAIN which : which[t][1] = i /\ which[t][2] = j
        BY <3>5
      <4>4. PICK x \in given : x = PieceOf(t)
        BY <3>4, <4>3
      <4>5. x.file = i /\ x.from = PieceFrom(c, j) /\ x.to = PieceTo(c, j)
        BY <3>4, <4>3, <4>4 DEF PieceOf
      <4>6. n \in x.from .. x.to - 1
        BY <4>1, <4>2, <4>5
      <4>. QED
        BY <4>5, <4>6
    <3>8. ASSUME NEW x \in given, x.file = i, NEW n \in x.from .. x.to - 1
          PROVE  n \in 0 .. c.size - 1
      <4>1. PICK t \in DOMAIN which : IsRead(t) /\ x = PieceOf(t)
        BY <2>1 DEF PiecesInv
      <4>2. which[t][1] = i
        BY <3>8, <4>1 DEF PieceOf
      <4>3. PICK j \in 0 .. c.tasks - 1 : x.from = PieceFrom(c, j) /\ x.to = PieceTo(c, j)
        BY <3>4, <4>1, <4>2 DEF PieceOf
      <4>4. x.from \in Nat /\ x.to \in Nat /\ x.to <= c.size /\ c.size \in Nat
        BY <3>3, <3>6, <4>3, PieceBounds DEF IsCutting
      <4>. QED
        BY <4>4
    <3>9. PICK s : s = Size(i) /\ s = c.size
      BY <3>3
    <3>. QED
      BY <3>7, <3>8, <3>9
  <2>5. margs.split # "no"
    BY <1>2 DEF Splits
  <2>. QED
    BY <2>2, <2>3, <2>4, <2>5 DEF ChunksDivide
<1>. QED
  BY <1>1, <1>2


--------------------------------------------------------------------------------
(* The steps of a call *)

LEMMA OneIsList == \A x : IsList(<<x>>)
<1>1. ASSUME NEW x PROVE IsList(<<x>>)
  <2>1. <<x>> \in Seq({x})
    OBVIOUS
  <2>. QED
    BY <2>1, ListOf
<1>. QED
  BY <1>1, Zenon

LEMMA FindFilesAreList ==
  ASSUME NEW p, NEW recurse \in BOOLEAN, NEW readfile \in BOOLEAN
  PROVE  IsList(FindFiles(p, recurse, readfile))
<1>1. CASE Kind(p) = "file"
  <2>1. p \in DOMAIN Disk /\ Disk[p].kind = "file"
    BY <1>1 DEF Kind
  <2>2. IsList(Disk[p].lines)
    BY <2>1, DiskAssumption DEF IsList
  <2>3. Added(p, readfile) \in {<<p>>, <<Bad>>, Disk[p].lines}
    BY DEF Added
  <2>4. IsList(Added(p, readfile))
    BY <2>2, <2>3, OneIsList
  <2>. QED
    BY <1>1, <2>4 DEF FindFiles
<1>2. CASE Kind(p) = "dir"
  <2>1. PICK x : x = <<p, recurse, readfile>>
    OBVIOUS
  <2>2. x \in Dirs \X BOOLEAN \X BOOLEAN
    BY <1>2, <2>1 DEF Dirs, Kind
  <2>3. IsList(Inside[x])
    BY <2>2, ListingAssumption DEF IsList
  <2>4. FindFiles(p, recurse, readfile) = Inside[x]
    BY <1>2, <2>1, Zenon DEF FindFiles
  <2>. QED
    BY <2>3, <2>4
<1>3. CASE Kind(p) # "file" /\ Kind(p) # "dir"
  <2>1. FindFiles(p, recurse, readfile) = <<Bad>>
    BY <1>3 DEF FindFiles
  <2>. QED
    BY <2>1, OneIsList
<1>. QED
  BY <1>1, <1>2, <1>3

LEMMA FilesOfAreList ==
  ASSUME AreArgs(margs), NEW r \in Rank
  PROVE  IsList(FilesOf(r))
<1>. DEFINE list == margs.paths[r]
            found(i) == FindFiles(list[i], margs.recurse, margs.readfile)
            X == UNION {Range(found(i)) : i \in DOMAIN list}
            seqs == [i \in DOMAIN list |-> found(i)]
<1>1. FilesOf(r) = FlattenSeq(seqs)
  BY Zenon DEF FilesOf
<1>2. DOMAIN list = 1 .. Len(list) /\ Len(list) \in Nat
  <2>1. IsList(list)
    BY DEF AreArgs
  <2>. HIDE DEF list
  <2>. QED
    BY <2>1 DEF IsList
<1>3. \A i \in DOMAIN list : IsList(found(i))
  <2>1. margs.recurse \in BOOLEAN /\ margs.readfile \in BOOLEAN
    BY DEF AreArgs
  <2>. QED
    BY <2>1, FindFilesAreList
<1>. HIDE DEF found, list
<1>4. \A i \in DOMAIN list : seqs[i] \in Seq(X)
  <2>. SUFFICES ASSUME NEW i \in DOMAIN list PROVE found(i) \in Seq(X)
    OBVIOUS
  <2>1. Range(found(i)) \subseteq X
    OBVIOUS
  <2>. HIDE DEF X
  <2>. QED
    BY <1>3, <2>1, ListIn
<1>5. seqs \in Seq(Seq(X))
  <2>1. seqs \in [1 .. Len(list) -> Seq(X)]
    BY <1>2, <1>4
  <2>. HIDE DEF X
  <2>. QED
    BY <1>2, <2>1
<1>. HIDE DEF seqs, X
<1>6. FlattenSeq(seqs) \in Seq(X)
  BY <1>5, Flattened
<1>. QED
  BY <1>1, <1>6, ListOf

LEMMA MapCallInv ==
  ASSUME NEW args, AreArgs(args), MapCall(args)
  PROVE  MapInv'
<1>1. /\ mstage' = "find" /\ margs' = args /\ given' = {} /\ todo' = {} /\ which' = <<>>
      /\ nmap' = args.nmap /\ files' = [r \in Rank |-> <<>>]
  BY DEF MapCall
<1>2. IsList(<<>>)
  BY DEF IsList, Range
<1>3. FilesInv'
  BY <1>1, <1>2 DEF FilesInv, AreArgs
<1>. QED
  BY <1>1, <1>3 DEF MapInv, WholeInv, SplitInv, PiecesInv

LEMMA FindInv ==
  ASSUME MapInv, Find
  PROVE  MapInv'
<1>1. /\ mstage = "find" /\ UNCHANGED <<margs, nmap, tasksperfile, which, todo, given>>
      /\ given = {} /\ AreArgs(margs) /\ nmap \in Nat
      /\ mstage' \in {"failed", "size", "hand"}
      /\ mstage' = "size" => Splits
      /\ mstage' = "hand" => ~Splits
      /\ files' = files \/ files' = [r \in Rank |-> FilesOf(IF margs.self THEN r ELSE 0)]
  BY DEF Find, MapInv, FilesInv
<1>2. \A r \in Rank : IsList(files'[r])
  BY <1>1, FilesOfAreList, RankZero DEF MapInv, FilesInv
<1>3. Splits' = Splits
  BY <1>1 DEF Splits
<1>4. FilesInv'
  <2>1. nmap = margs.nmap
    BY <1>1 DEF MapInv, FilesInv
  <2>. QED
    BY <1>1, <1>2, <1>3, <2>1 DEF FilesInv, AreArgs
<1>5. WholeInv' /\ SplitInv'
  BY <1>1 DEF WholeInv, SplitInv, PiecesInv
<1>. QED
  BY <1>4, <1>5 DEF MapInv

LEMMA HandOutFilesInv ==
  ASSUME MapInv, HandOutFiles
  PROVE  MapInv'
<1>1. /\ mstage = "hand" /\ mstage' = "files" /\ UNCHANGED <<margs, files, tasksperfile, which, given>>
      /\ todo' = IF margs.self THEN UNION {{r} \X DOMAIN files[r] : r \in Rank}
                 ELSE {0} \X (1 .. nfile)
      /\ nmap' = Cardinality(todo') /\ given = {} /\ ~Splits /\ AreArgs(margs)
  BY DEF HandOutFiles, MapInv, FilesInv
<1>2. ASSUME NEW r \in Rank
      PROVE  IsFiniteSet({r} \X DOMAIN files[r])
  <2>1. DOMAIN files[r] = 1 .. Len(files[r]) /\ Len(files[r]) \in Nat
    BY DEF MapInv, FilesInv, IsList
  <2>2. IsFiniteSet(1 .. Len(files[r]))
    <3>1. 1 \in Int /\ Len(files[r]) \in Int
      BY <2>1
    <3>. QED
      BY <3>1, FS_Interval
  <2>3. IsFiniteSet({r})
    BY FS_Singleton
  <2>. QED
    BY <2>1, <2>2, <2>3, FS_Product
<1>3. IsFiniteSet(todo')
  <2>1. IsFiniteSet(UNION {{r} \X DOMAIN files[r] : r \in Rank})
    <3>. DEFINE S == {{r} \X DOMAIN files[r] : r \in Rank}
    <3>1. IsFiniteSet(S)
      <4>. DEFINE f == [r \in Rank |-> {r} \X DOMAIN files[r]]
      <4>1. f \in Surjection(Rank, S)
        BY DEF Surjection
      <4>. HIDE DEF f, S
      <4>. QED
        BY <4>1, RankZero, FS_Surjection
    <3>2. \A T \in S : IsFiniteSet(T)
      BY <1>2
    <3>. HIDE DEF S
    <3>3. IsFiniteSet(UNION S)
      BY <3>1, <3>2, FS_UNION
    <3>. QED
      BY <3>3 DEF S
  <2>2. IsFiniteSet({0} \X (1 .. nfile))
    BY <1>2, RankZero, FilesAreNumbered DEF MapInv
  <2>. QED
    BY <1>1, <2>1, <2>2
<1>4. \A t \in todo' : t = <<t[1], t[2]>>
  BY <1>1
<1>5. Cardinality(given') + Cardinality(todo') = nmap' /\ IsFiniteSet(given')
  <2>1. IsFiniteSet(given) /\ Cardinality(given) = 0
    BY <1>1, FS_EmptySet
  <2>2. Cardinality(todo') \in Nat
    BY <1>3, FS_CardinalityType
  <2>. QED
    BY <1>1, <2>1, <2>2
<1>6. TasksTaken'
  BY <1>1, <1>3, <1>4, <1>5 DEF TasksTaken
<1>7. FilesInv'
  BY <1>1 DEF MapInv, FilesInv, AreArgs, Splits
<1>8. WholeInv' /\ SplitInv'
  BY <1>1, <1>6 DEF WholeInv, SplitInv, Splits
<1>. QED
  BY <1>7, <1>8 DEF MapInv

LEMMA MapWholeInv ==
  ASSUME MapInv, NEW task, MapWhole(task), margs.known
  PROVE  MapInv'
<1>1. PICK x : x = [list |-> task[1], file |-> task[2], task |-> 0, from |-> 0, to |-> 0]
  OBVIOUS
<1>2. /\ mstage = "files" /\ task \in todo /\ todo' = todo \ {task} /\ given' = given \cup {x}
      /\ UNCHANGED <<mstage, margs, files, nmap, tasksperfile, which>> /\ ~Splits
      /\ AreArgs(margs) /\ TasksTaken
  BY <1>1 DEF MapWhole, MapInv, FilesInv, WholeInv
<1>3. x.list = task[1] /\ x.file = task[2] /\ x.from = 0 /\ x.to = 0
  BY <1>1
<1>4. task = <<x.list, x.file>> /\ x \notin given
  BY <1>2, <1>3 DEF TasksTaken
<1>5. /\ IsFiniteSet(given') /\ Cardinality(given') = Cardinality(given) + 1
      /\ Cardinality(given) \in Nat
  BY <1>2, <1>4, FS_AddElement, FS_CardinalityType DEF TasksTaken
<1>6. /\ IsFiniteSet(todo') /\ Cardinality(todo') = Cardinality(todo) - 1
      /\ Cardinality(todo) \in Nat
  BY <1>2, FS_RemoveElement, FS_CardinalityType DEF TasksTaken
<1>7. TasksTaken'
  <2>1. Cardinality(given) + Cardinality(todo) = nmap /\ nmap' = nmap
    BY <1>2 DEF TasksTaken
  <2>2. Cardinality(given') + Cardinality(todo') = nmap'
    BY <1>5, <1>6, <2>1
  <2>3. \A t \in todo' : t \in todo /\ t # task
    BY <1>2
  <2>4. ASSUME NEW y \in given' PROVE <<y.list, y.file>> \notin todo'
    <3>1. CASE y = x
      BY <1>4, <2>3, <3>1
    <3>2. CASE y \in given
      BY <2>3, <3>2, <1>2 DEF TasksTaken
    <3>. QED
      BY <1>2, <3>1, <3>2
  <2>. QED
    BY <1>2, <1>5, <1>6, <2>2, <2>3, <2>4 DEF TasksTaken
<1>8. \A y \in given' : y.from = 0 /\ y.to = 0
  BY <1>2, <1>3 DEF MapInv, WholeInv
<1>9. FilesInv'
  BY <1>2 DEF MapInv, FilesInv, AreArgs, Splits
<1>10. WholeInv' /\ SplitInv'
  BY <1>2, <1>7, <1>8 DEF WholeInv, SplitInv, Splits
<1>. QED
  BY <1>9, <1>10 DEF MapInv

\* The call of an unknown function
LEMMA MapWholeCrashInv ==
  ASSUME MapInv, NEW task, MapWhole(task), ~margs.known
  PROVE  MapInv'
<1>1. /\ mstage = "files" /\ mstage' = "crashed"
      /\ UNCHANGED <<given, margs, files, nmap, tasksperfile, which>>
      /\ ~Splits /\ AreArgs(margs)
  BY DEF MapWhole, MapInv, FilesInv
<1>2. FilesInv'
  BY <1>1 DEF MapInv, FilesInv, AreArgs, Splits, CallCrashes
<1>3. WholeInv' /\ SplitInv'
  BY <1>1 DEF MapInv, WholeInv, SplitInv, Splits
<1>. QED
  BY <1>2, <1>3 DEF MapInv


LEMMA SamePlan ==
  ASSUME UNCHANGED <<margs, files, tasksperfile, which>>
  PROVE  /\ Planned' = Planned /\ Known' = Known /\ Splits' = Splits /\ nfile' = nfile
         /\ \A t : IsRead(t)' = IsRead(t) /\ PieceOf(t)' = PieceOf(t)
<1>1. nfile' = nfile /\ Splits' = Splits /\ Sep' = Sep /\ Shift' = Shift
  BY DEF nfile, Splits, Sep, Shift
<1>2. \A i : Size(i)' = Size(i)
  BY DEF Size
<1>3. Known' = Known
  BY <1>1 DEF Known
<1>4. Planned' = Planned
  <2>1. tasksperfile' = tasksperfile /\ which' = which
    OBVIOUS
  <2>. QED
    BY <1>1, <1>3, <2>1 DEF Planned
<1>5. \A i, a, b : Found(i, a, b)' = Found(i, a, b)
  BY <1>1, Zenon DEF Found
<1>6. \A t : ReadStart(t)' = ReadStart(t) /\ ReadNext(t)' = ReadNext(t)
  BY <1>2 DEF ReadStart, ReadNext
<1>7. \A t : ReadEnd(t)' = ReadEnd(t)
  BY <1>2, <1>6 DEF ReadEnd
<1>8. ASSUME NEW t
      PROVE  StartOf(t)' = StartOf(t) /\ StopOf(t)' = StopOf(t)
  <2>1. ReadStart(t)' = ReadStart(t) /\ ReadNext(t)' = ReadNext(t) /\ ReadEnd(t)' = ReadEnd(t)
    BY <1>6, <1>7
  <2>2. Found(which[t][1], ReadStart(t), ReadEnd(t))' = Found(which[t][1], ReadStart(t), ReadEnd(t))
    BY <1>1, <2>1, Zenon DEF Found
  <2>3. Found(which[t][1], ReadNext(t), ReadEnd(t))' = Found(which[t][1], ReadNext(t), ReadEnd(t))
    BY <1>1, <2>1, Zenon DEF Found
  <2>4. StartOf(t)' = StartOf(t)
    BY <1>1, <2>1, <2>2 DEF StartOf
  <2>5. StopOf(t)' = StopOf(t)
    BY <1>1, <2>1, <2>3 DEF StopOf
  <2>. QED
    BY <2>4, <2>5
<1>9. \A t : IsRead(t)' = IsRead(t) /\ PieceOf(t)' = PieceOf(t)
  BY <1>8 DEF IsRead, PieceOf
<1>. QED
  BY <1>1, <1>3, <1>4, <1>9

LEMMA SizeFilesInv ==
  ASSUME MapInv, SizeFiles
  PROVE  MapInv'
<1>1. /\ mstage = "size" /\ UNCHANGED <<margs, files, tasksperfile, which, todo, given>>
      /\ nmap' = Max({nmap, nfile}) /\ mstage' \in {"failed", "crashed", "plan"}
      /\ given = {} /\ Splits /\ AreArgs(margs) /\ nmap \in Nat
  BY DEF SizeFiles, MapInv, FilesInv
<1>2. mstage' = "plan" => nmap' # 0 /\ \A p \in Range(files[0]) : Kind(p) # "missing"
  BY DEF SizeFiles
<1>3. nfile \in Nat /\ DOMAIN files[0] = 1 .. nfile
  BY FilesAreNumbered DEF MapInv
<1>4. nmap' \in Nat
  <2>1. Max({nmap, nfile}) \in {nmap, nfile}
    BY <1>1, <1>3, MaxOfTwo
  <2>. QED
    BY <1>1, <1>3, <2>1
<1>5. mstage' = "plan" => Known
  <2>. SUFFICES ASSUME mstage' = "plan", NEW i \in 1 .. nfile PROVE files[0][i] \in DOMAIN Disk
    BY DEF Known
  <2>1. files[0][i] \in Range(files[0])
    BY <1>3 DEF Range
  <2>. QED
    BY <1>2, <2>1 DEF Kind
<1>6. Known' = Known /\ Splits' = Splits /\ nfile' = nfile
  BY <1>1, SamePlan
<1>7. FilesInv'
  <2>1. nmap = margs.nmap
    BY <1>1 DEF MapInv, FilesInv
  <2>2. mstage' = "crashed" => nmap' = 0
    BY <1>1 DEF SizeFiles
  <2>3. nmap' >= nmap /\ nmap' >= nfile
    BY <1>1, <1>3, MaxOfTwo
  <2>4. mstage' = "crashed" => Splits /\ margs.nmap = 0 /\ nfile = 0
    BY <1>1, <1>3, <2>1, <2>2, <2>3
  <2>5. mstage' = "crashed" => CallCrashes'
    BY <1>1, <1>6, <2>4 DEF CallCrashes
  <2>. QED
    BY <1>1, <1>6, <2>5 DEF MapInv, FilesInv, AreArgs
<1>8. WholeInv' /\ SplitInv'
  BY <1>1, <1>2, <1>4, <1>5, <1>6 DEF WholeInv, SplitInv, PiecesInv
<1>. QED
  BY <1>7, <1>8 DEF MapInv

\* The sizes of the files of a plan.
LEMMA SizesAreNumbers ==
  ASSUME Known
  PROVE  \A i \in 1 .. nfile : Size(i) \in Nat
BY DiskAssumption DEF Known, Size

\* A first plan or a pass over one: nothing is given yet.
LEMMA GrowInv ==
  ASSUME MapInv, mstage \in {"plan", "grow"}, mstage' = "grow",
         UNCHANGED <<margs, files, nmap, which, todo, given>>,
         tasksperfile' \in [1 .. nfile -> Nat \ {0}]
  PROVE  MapInv'
<1>1. given = {} /\ Splits /\ AreArgs(margs) /\ Known /\ nmap \in Nat \ {0}
  BY DEF MapInv, FilesInv, SplitInv
<1>2. nfile' = nfile /\ Splits' = Splits
  BY DEF nfile, Splits
<1>3. Known'
  BY <1>1, <1>2 DEF Known
<1>4. FilesInv'
  BY <1>1, <1>2 DEF MapInv, FilesInv, AreArgs
<1>5. WholeInv' /\ SplitInv'
  BY <1>1, <1>2, <1>3 DEF WholeInv, SplitInv, PiecesInv
<1>. QED
  BY <1>4, <1>5 DEF MapInv

LEMMA QuotientIsNumber ==
  ASSUME NEW a \in Nat, NEW b \in Nat \ {0}
  PROVE  Max({1, a \div b}) \in Nat \ {0}
<1>1. a \div b \in Nat
  BY NumbersConstants, Numbers!Division, Zenon
<1>2. PICK q \in Nat : q = a \div b
  BY <1>1
<1>3. Max({1, q}) \in {1, q} /\ 1 <= Max({1, q})
  <2>1. 1 \in Nat
    OBVIOUS
  <2>. QED
    BY <2>1, MaxOfTwo, Zenon
<1>. QED
  BY <1>2, <1>3

LEMMA PlanTasksInv ==
  ASSUME MapInv, PlanTasks
  PROVE  MapInv'
<1>1. /\ mstage = "plan" /\ mstage' = "grow" /\ UNCHANGED <<margs, files, nmap, which, todo, given>>
      /\ tasksperfile' = [i \in 1 .. nfile |-> Max({1, Size(i) \div nideal})]
  BY DEF PlanTasks
<1>2. Splits /\ Known /\ nmap \in Nat \ {0}
  BY <1>1 DEF MapInv, FilesInv, SplitInv
<1>3. \A i \in 1 .. nfile : Size(i) \in Nat
  BY <1>2, SizesAreNumbers
<1>4. nfile \in Nat
  BY FilesAreNumbered DEF MapInv
<1>5. Total \in Nat
  <2>1. PICK n \in Nat : n = nfile
    BY <1>4
  <2>2. PICK f : f = [i \in 1 .. nfile |-> Size(i)]
    OBVIOUS
  <2>3. f \in [1 .. n -> Nat]
    BY <1>3, <2>1, <2>2
  <2>4. SumOf(f) \in Nat
    BY <2>3, SumIsPartialSum
  <2>. QED
    BY <2>2, <2>4 DEF Total
<1>6. nideal \in Nat \ {0}
  BY <1>2, <1>5, QuotientIsNumber DEF nideal
<1>7. \A i \in 1 .. nfile : Max({1, Size(i) \div nideal}) \in Nat \ {0}
  BY <1>3, <1>6, QuotientIsNumber
<1>8. tasksperfile' \in [1 .. nfile -> Nat \ {0}]
  BY <1>1, <1>7
<1>. QED
  BY <1>1, <1>8, GrowInv

LEMMA GrowPassInv ==
  ASSUME MapInv, GrowPass \/ ShrinkPass
  PROVE  MapInv'
<1>1. /\ mstage = "grow" /\ mstage' = "grow" /\ UNCHANGED <<margs, files, nmap, which, todo, given>>
      /\ tasksperfile \in [1 .. nfile -> Nat \ {0}]
  BY DEF GrowPass, ShrinkPass, MapInv, FilesInv, SplitInv
<1>2. CASE GrowPass
  <2>1. PICK more : tasksperfile' = [i \in 1 .. nfile |->
                        IF i \in more THEN tasksperfile[i] + 1 ELSE tasksperfile[i]]
    BY <1>2 DEF GrowPass
  <2>2. tasksperfile' \in [1 .. nfile -> Nat \ {0}]
    BY <1>1, <2>1
  <2>. QED
    BY <1>1, <2>2, GrowInv
<1>3. CASE ShrinkPass
  <2>1. PICK less : /\ less \subseteq {i \in 1 .. nfile : tasksperfile[i] > 1}
                    /\ tasksperfile' = [i \in 1 .. nfile |->
                          IF i \in less THEN tasksperfile[i] - 1 ELSE tasksperfile[i]]
    BY <1>3 DEF ShrinkPass, FirstOf
  <2>2. \A i \in 1 .. nfile :
           (IF i \in less THEN tasksperfile[i] - 1 ELSE tasksperfile[i]) \in Nat \ {0}
    BY <1>1, <2>1
  <2>3. tasksperfile' \in [1 .. nfile -> Nat \ {0}]
    BY <2>1, <2>2
  <2>. QED
    BY <1>1, <2>3, GrowInv
<1>. QED
  BY <1>2, <1>3

LEMMA WithinDeltaIs ==
  ASSUME NEW size, NEW t \in Nat \ {0}
  PROVE  WithinDelta(size, t) \in 1 .. t
<1>1. PICK S : S = {1} \cup {n \in 1 .. t : size \div n > margs.delta}
  OBVIOUS
<1>2. S \in SUBSET (1 .. t) /\ S # {}
  BY <1>1
<1>3. Max(S) \in S
  BY <1>2, MaxIsIn
<1>. QED
  BY <1>1, <1>2, <1>3 DEF WithinDelta

\* The list of tasks has every piece of every file, and as many as the files have.
LEMMA TasksListed ==
  ASSUME NEW n \in Nat, NEW f \in [1 .. n -> Nat \ {0}],
         NEW list, list = FlattenSeq([i \in 1 .. n |-> [j \in 1 .. f[i] |-> <<i, j - 1>>]])
  PROVE  DOMAIN list = 1 .. SumOf(f) /\ IsPlan(n, f, list)
<1>. DEFINE tasks(i) == [j \in 1 .. f[i] |-> <<i, j - 1>>]
            seqs == [i \in 1 .. n |-> tasks(i)]
            X == Nat \X Nat
<1>1. \A i \in 1 .. n : tasks(i) \in Seq(X) /\ Len(tasks(i)) = f[i]
  <2>. SUFFICES ASSUME NEW i \in 1 .. n PROVE tasks(i) \in Seq(X) /\ Len(tasks(i)) = f[i]
    OBVIOUS
  <2>1. f[i] \in Nat
    OBVIOUS
  <2>2. \A j \in 1 .. f[i] : <<i, j - 1>> \in X
    BY <2>1
  <2>3. tasks(i) \in [1 .. f[i] -> X]
    BY <2>2
  <2>4. PICK s : s = tasks(i)
    OBVIOUS
  <2>. HIDE DEF tasks, X
  <2>5. PICK k \in Nat : k = f[i]
    BY <2>1
  <2>6. s \in [1 .. k -> X]
    BY <2>3, <2>4, <2>5
  <2>7. s \in Seq(X) /\ Len(s) = k
    BY <2>6
  <2>. QED
    BY <2>4, <2>5, <2>7
<1>2. \A i \in 1 .. n : DOMAIN tasks(i) = 1 .. f[i] /\ \A j \in 1 .. f[i] : tasks(i)[j] = <<i, j - 1>>
  OBVIOUS
<1>. HIDE DEF tasks, X
<1>3. seqs \in Seq(Seq(X)) /\ Len(seqs) = n
  <2>1. seqs \in [1 .. n -> Seq(X)]
    BY <1>1
  <2>. QED
    BY <2>1
<1>4. f = [i \in 1 .. Len(seqs) |-> Len(seqs[i])]
  BY <1>1, <1>3
<1>5. list = FlattenSeq(seqs)
  BY Zenon DEF tasks
<1>6. DOMAIN seqs = 1 .. n /\ \A i \in 1 .. n : seqs[i] = tasks(i)
  OBVIOUS
<1>. HIDE DEF seqs
<1>7. list \in Seq(X) /\ Len(list) = SumOf(f) /\ IsFlat(list, seqs)
  <2>1. seqs \in Seq(Seq(X))
    BY <1>3
  <2>2. FlattenSeq(seqs) \in Seq(X) /\ IsFlat(FlattenSeq(seqs), seqs)
    BY <2>1, Flattened, Zenon
  <2>3. Len(FlattenSeq(seqs)) = SumOf(f)
    BY <1>4, <2>1, FlattenedLength, Zenon
  <2>. QED
    BY <1>5, <2>2, <2>3
<1>8. DOMAIN list = 1 .. SumOf(f)
  BY <1>7
<1>9. ASSUME NEW t \in DOMAIN list
      PROVE  list[t][1] \in 1 .. n /\ list[t][2] \in 0 .. f[list[t][1]] - 1
  <2>1. PICK i \in 1 .. n : \E j \in DOMAIN tasks(i) : tasks(i)[j] = list[t]
    <3>1. \E i \in DOMAIN seqs : \E j \in DOMAIN seqs[i] : seqs[i][j] = list[t]
      BY <1>7, Zenon DEF IsFlat
    <3>. QED
      BY <1>6, <3>1, Zenon
  <2>2. PICK j \in 1 .. f[i] : list[t] = <<i, j - 1>>
    BY <1>2, <2>1
  <2>3. list[t][1] = i /\ list[t][2] = j - 1 /\ f[i] \in Nat
    BY <2>2
  <2>. QED
    BY <2>3
<1>10. ASSUME NEW i \in 1 .. n, NEW j \in 0 .. f[i] - 1
       PROVE  \E t \in DOMAIN list : list[t][1] = i /\ list[t][2] = j
  <2>1. f[i] \in Nat
    OBVIOUS
  <2>2. j + 1 \in 1 .. f[i] /\ (j + 1) - 1 = j
    BY <2>1
  <2>3. tasks(i)[j + 1] = <<i, j>> /\ j + 1 \in DOMAIN tasks(i)
    BY <1>2, <2>2
  <2>4. PICK t \in DOMAIN list : list[t] = <<i, j>>
    <3>1. i \in DOMAIN seqs /\ j + 1 \in DOMAIN seqs[i] /\ seqs[i][j + 1] = <<i, j>>
      BY <1>6, <2>3
    <3>. QED
      BY <1>7, <3>1, Zenon DEF IsFlat
  <2>5. PICK e : e = <<i, j>>
    OBVIOUS
  <2>6. e[1] = i /\ e[2] = j /\ list[t] = e
    BY <2>4, <2>5
  <2>. QED
    BY <2>6, Zenon
<1>. QED
  BY <1>8, <1>9, <1>10 DEF IsPlan

LEMMA FitDeltaInv ==
  ASSUME MapInv, FitDelta
  PROVE  MapInv'
<1>1. PICK n : n = nfile
  OBVIOUS
<1>2. PICK f : f = tasksperfile
  OBVIOUS
<1>3. PICK g : g = [i \in 1 .. n |-> WithinDelta(Size(i), f[i])]
  OBVIOUS
<1>4. PICK less : less = [i \in 1 .. n |-> f[i] - g[i]]
  OBVIOUS
<1>5. /\ mstage = "grow" /\ mstage' = "chunks" /\ UNCHANGED <<margs, files, given>>
      /\ SumOf(f) = nmap /\ tasksperfile' = g /\ nmap' = nmap - SumOf(less)
      /\ which' = FlattenSeq([i \in 1 .. n |-> [j \in 1 .. g[i] |-> <<i, j - 1>>]])
      /\ todo' = 1 .. nmap'
  BY <1>1, <1>2, <1>3, <1>4 DEF FitDelta, ntasks
<1>6. given = {} /\ Splits /\ AreArgs(margs) /\ Known /\ f \in [1 .. n -> Nat \ {0}]
  BY <1>1, <1>2, <1>5 DEF MapInv, FilesInv, SplitInv
<1>7. n \in Nat
  BY <1>1, FilesAreNumbered DEF MapInv
<1>8. \A i \in 1 .. n : g[i] \in 1 .. f[i]
  BY <1>3, <1>6, WithinDeltaIs
<1>9. /\ g \in [1 .. n -> Nat \ {0}] /\ less \in [1 .. n -> Nat]
      /\ \A i \in 1 .. n : f[i] = g[i] + less[i]
  <2>1. \A i \in 1 .. n : /\ g[i] \in Nat \ {0} /\ f[i] - g[i] \in Nat
                          /\ f[i] = g[i] + (f[i] - g[i])
    BY <1>6, <1>8
  <2>2. g \in [1 .. n -> Nat \ {0}]
    BY <1>3, <2>1
  <2>3. less \in [1 .. n -> Nat]
    BY <1>4, <2>1
  <2>. QED
    BY <1>4, <2>1, <2>2, <2>3
<1>10. Adds(n, g, less, f)
  BY <1>6, <1>9 DEF Adds
<1>11. SumOf(f) = SumOf(g) + SumOf(less) /\ SumOf(g) \in Nat /\ SumOf(less) \in Nat
  BY <1>7, <1>10, SumsAdd
<1>12. nmap' = SumOf(g)
  BY <1>5, <1>11
<1>13. PICK list : list = which'
  OBVIOUS
<1>14. DOMAIN list = 1 .. SumOf(g) /\ IsPlan(n, g, list)
  <2>1. list = FlattenSeq([i \in 1 .. n |-> [j \in 1 .. g[i] |-> <<i, j - 1>>]])
    BY <1>5, <1>13, Zenon
  <2>2. g \in [1 .. n -> Nat \ {0}]
    BY <1>9
  <2>. QED
    BY <1>7, <2>1, <2>2, TasksListed, Zenon
<1>15. nfile' = n /\ Splits' = Splits
  BY <1>1, <1>5 DEF nfile, Splits
<1>16. Known'
  BY <1>1, <1>5, <1>6, <1>15 DEF Known
<1>17. Planned'
  <2>1. tasksperfile' = g /\ which' = list
    BY <1>5, <1>13
  <2>. QED
    BY <1>14, <1>15, <1>16, <2>1 DEF Planned
<1>18. todo' = DOMAIN which'
  BY <1>5, <1>12, <1>13, <1>14
<1>19. AllGiven(todo)'
  BY <1>18 DEF AllGiven
<1>20. FilesInv'
  BY <1>5, <1>6, <1>15 DEF MapInv, FilesInv, AreArgs
<1>21. WholeInv' /\ SplitInv'
  BY <1>5, <1>6, <1>15, <1>17, <1>18, <1>19 DEF WholeInv, SplitInv, PiecesInv
<1>. QED
  BY <1>20, <1>21 DEF MapInv

LEMMA MapChunkInv ==
  ASSUME MapInv, NEW t, MapChunk(t)
  PROVE  MapInv'
<1>1. /\ mstage = "chunks" /\ t \in todo /\ todo' = todo \ {t}
      /\ UNCHANGED <<margs, files, nmap, tasksperfile, which>>
      /\ \/ mstage' = "failed" /\ given' = given
         \/ mstage' = "crashed" /\ given' = given /\ ~margs.known
         \/ mstage' = mstage /\ IsRead(t) /\ given' = given \cup {PieceOf(t)}
  BY DEF MapChunk, IsRead, PieceOf
<1>2. /\ Splits /\ AreArgs(margs) /\ PiecesInv /\ Planned /\ todo \subseteq DOMAIN which
      /\ AllGiven(todo) /\ \A r \in Rank : IsList(files[r])
  BY <1>1 DEF MapInv, FilesInv, SplitInv
<1>3. /\ Planned' = Planned /\ Splits' = Splits
      /\ \A u : IsRead(u)' = IsRead(u) /\ PieceOf(u)' = PieceOf(u)
  BY <1>1, SamePlan
<1>4. \A x \in given' : \E u \in DOMAIN which : IsRead(u) /\ x = PieceOf(u)
  BY <1>1, <1>2 DEF PiecesInv
<1>5. PiecesInv'
  BY <1>1, <1>2, <1>3, <1>4 DEF PiecesInv
<1>6. mstage' = "chunks" => AllGiven(todo)'
  <2>. SUFFICES ASSUME mstage' = "chunks", NEW u \in DOMAIN which
                PROVE  u \in todo' \/ (IsRead(u)' /\ PieceOf(u)' \in given')
    BY <1>1 DEF AllGiven
  <2>1. u \in todo \/ (IsRead(u) /\ PieceOf(u) \in given)
    BY <1>2 DEF AllGiven
  <2>2. IsRead(t) /\ given' = given \cup {PieceOf(t)}
    BY <1>1
  <2>. QED
    BY <1>1, <1>3, <2>1, <2>2
<1>7. FilesInv'
  BY <1>1, <1>2, <1>3 DEF FilesInv, AreArgs, CallCrashes
<1>8. WholeInv' /\ SplitInv'
  BY <1>1, <1>2, <1>3, <1>5, <1>6 DEF WholeInv, SplitInv
<1>. QED
  BY <1>7, <1>8 DEF MapInv

LEMMA MapReturnInv ==
  ASSUME MapInv, MapReturn
  PROVE  MapInv'
<1>1. /\ mstage \in {"files", "chunks"} /\ todo = {} /\ mstage' = "idle"
      /\ UNCHANGED <<margs, files, nmap, tasksperfile, which, todo, given>>
  BY DEF MapReturn
<1>2. /\ Planned' = Planned /\ Splits' = Splits
      /\ \A u : IsRead(u)' = IsRead(u) /\ PieceOf(u)' = PieceOf(u)
  BY <1>1, SamePlan
<1>3. FilesInv'
  BY <1>1, <1>2 DEF MapInv, FilesInv, AreArgs
<1>4. ~Splits => Cardinality(given) = nmap
  <2>. SUFFICES ASSUME ~Splits PROVE Cardinality(given) = nmap
    OBVIOUS
  <2>1. mstage = "files"
    BY <1>1 DEF MapInv, FilesInv
  <2>2. TasksTaken
    BY <2>1 DEF MapInv, WholeInv
  <2>3. Cardinality(todo) = 0 /\ Cardinality(given) \in Nat
    BY <1>1, <2>2, FS_EmptySet, FS_CardinalityType DEF TasksTaken
  <2>. QED
    BY <2>2, <2>3 DEF TasksTaken
<1>5. WholeInv'
  BY <1>1, <1>2, <1>4 DEF MapInv, WholeInv
<1>6. SplitInv'
  <2>. SUFFICES ASSUME Splits PROVE SplitInv'
    BY <1>2 DEF SplitInv
  <2>1. mstage = "chunks"
    BY <1>1 DEF MapInv, FilesInv
  <2>2. Planned /\ AllGiven(todo) /\ PiecesInv
    BY <2>1 DEF MapInv, SplitInv
  <2>3. AllGiven({})'
    BY <1>1, <1>2, <2>2 DEF AllGiven
  <2>4. PiecesInv'
    BY <1>1, <1>2, <2>2 DEF PiecesInv
  <2>. QED
    BY <1>1, <1>2, <2>2, <2>3, <2>4 DEF SplitInv
<1>. QED
  BY <1>3, <1>5, <1>6 DEF MapInv

LEMMA MapStepInv ==
  ASSUME MapInv, MapStep
  PROVE  MapInv'
<1>1. ASSUME NEW t, MapWhole(t) \/ MapChunk(t) PROVE MapInv'
  BY <1>1, MapWholeInv, MapWholeCrashInv, MapChunkInv
<1>. QED
  BY <1>1, FindInv, HandOutFilesInv, SizeFilesInv, PlanTasksInv, GrowPassInv, FitDeltaInv,
     MapReturnInv DEF MapStep

LEMMA SameMap ==
  ASSUME MapInv, UNCHANGED mapVars
  PROVE  MapInv'
<1>1. UNCHANGED <<mstage, margs, files, nmap, tasksperfile, which, todo, given>>
  BY DEF mapVars
<1>2. /\ Planned' = Planned /\ Known' = Known /\ Splits' = Splits /\ nfile' = nfile
      /\ \A t : IsRead(t)' = IsRead(t) /\ PieceOf(t)' = PieceOf(t)
  BY <1>1, SamePlan
<1>3. FilesInv'
  BY <1>1, <1>2 DEF MapInv, FilesInv, AreArgs, CallCrashes
<1>4. WholeInv'
  BY <1>1, <1>2 DEF MapInv, WholeInv, TasksTaken
<1>5. PiecesInv' = PiecesInv /\ AllGiven(todo)' = AllGiven(todo) /\ AllGiven({})' = AllGiven({})
  BY <1>1, <1>2 DEF PiecesInv, AllGiven
<1>6. SplitInv'
  BY <1>1, <1>2, <1>5 DEF MapInv, SplitInv
<1>. QED
  BY <1>3, <1>4, <1>6 DEF MapInv


LEMMA MapLineMap ==
  ASSUME NEW name, NEW m \in MapLines, MapLine(name, m)
  PROVE  MapInv'
<1>. DEFINE list == Strings[m.text]
            paths == [i \in DOMAIN list |->
                         [dir |-> None, name |-> list[i].name, rank |-> None, copy |-> None]]
<1>1. PICK args : args = [paths |-> [r \in Rank |-> paths],
                          self |-> m.self, recurse |-> m.recurse, readfile |-> m.readfile,
                          split |-> m.split, nmap |-> m.nmap, delta |-> m.delta,
                          known |-> m.known]
  OBVIOUS
<1>2. MapCall(args)
  BY <1>1, Zenon DEF MapLine
<1>3. /\ m.text \in DOMAIN Strings /\ m.split \in {"no", "char", "string"}
      /\ m.self \in BOOLEAN /\ m.recurse \in BOOLEAN /\ m.readfile \in BOOLEAN
      /\ m.nmap \in Nat /\ m.delta \in Nat /\ m.known \in BOOLEAN
  BY ScriptAssumption
<1>4. IsList(list)
  BY <1>3, ScriptAssumption DEF IsList
<1>. HIDE DEF list
<1>5. IsList(paths)
  <2>1. DOMAIN list = 1 .. Len(list) /\ Len(list) \in Nat
    BY <1>4 DEF IsList
  <2>2. paths \in [1 .. Len(list) -> Range(paths)]
    BY <2>1 DEF Range
  <2>. HIDE DEF paths
  <2>. QED
    BY <2>1, <2>2 DEF IsList
<1>. HIDE DEF paths
<1>6. AreArgs(args)
  BY <1>1, <1>3, <1>5 DEF AreArgs
<1>. QED
  BY <1>2, <1>6, MapCallInv

LEMMA ReadPathsMap ==
  ASSUME ScriptInv, MapInv, ReadPaths
  PROVE  MapInv'
<1>1. PICK k : k = Arg(3)
  OBVIOUS
<1>2. PICK in : in = inputs[k].set
  OBVIOUS
<1>3. PICK args : args = [paths |-> inputs[k].strings, self |-> in.self,
                          recurse |-> in.recurse, readfile |-> in.readfile,
                          split |-> "no", nmap |-> 0, delta |-> 0, known |-> TRUE]
  OBVIOUS
<1>4. /\ Ready /\ Running /\ Run(cmd.name)[cmd.step][1] = "read" /\ inputs[k].mode = "PATH"
      /\ UNCHANGED mapVars \/ MapCall(args)
  BY <1>1, <1>2, <1>3 DEF ReadPaths, At, Running
<1>5. IsDescriptor(inputs[k])
  <2>1. StepShape(cmd.name, cmd.step)
    BY <1>4, RunShape DEF ScriptInv, CmdInv, Running
  <2>2. k \in 1 .. Inputs(cmd.name)
    BY <1>1, <1>4, <2>1 DEF StepShape, Arg
  <2>3. Len(inputs) = Inputs(cmd.name) /\ DOMAIN inputs = 1 .. Len(inputs)
    BY <1>4 DEF ScriptInv, CmdInv, Ready, AreInputs, IsList
  <2>. QED
    BY <2>2, <2>3 DEF ScriptInv, AreInputs
<1>6. IsSettings(in) /\ \A r \in Rank : IsList(inputs[k].strings[r])
  BY <1>2, <1>4, <1>5 DEF IsDescriptor
<1>7. AreArgs(args)
  BY <1>3, <1>6 DEF AreArgs, IsSettings
<1>. QED
  BY <1>4, <1>7, MapCallInv, SameMap

LEMMA MapInitInv ==
  ASSUME MapInit
  PROVE  MapInv
<1>1. /\ mstage = "idle" /\ margs = [split |-> "no", self |-> FALSE]
      /\ files = [r \in Rank |-> <<>>] /\ nmap = 0 /\ given = {}
  BY DEF MapInit
<1>2. IsList(<<>>)
  BY DEF IsList, Range
<1>3. ~Splits
  BY <1>1 DEF Splits
<1>4. Cardinality(given) = nmap
  BY <1>1, FS_EmptySet
<1>. QED
  BY <1>1, <1>2, <1>3, <1>4 DEF MapInv, FilesInv, WholeInv, SplitInv

\* Of every call
LEMMA MapSafe == Spec => []MapInv
<1>1. Init => MapInv
  BY MapInitInv DEF Init
<1>2. ASSUME ScriptInv, MapInv, [Next]_vars
      PROVE  MapInv'
  <2>1. CASE MapStep
    BY <1>2, <2>1, MapStepInv
  <2>2. CASE UNCHANGED mapVars
    BY <1>2, <2>2, SameMap
  <2>3. CASE ReadPaths
    BY <1>2, <2>3, ReadPathsMap
  <2>4. ASSUME NEW name, NEW m \in MapLines, MapLine(name, m) PROVE MapInv'
    BY <2>4, MapLineMap
  <2>5. CommandStep \/ EndCommand \/ FreeStrings => UNCHANGED mapVars \/ ReadPaths
    BY DEF CommandStep, ReadObject, CreateMr, OwnMr, Alter, Output, EndCommand, FreeStrings
  <2>6. ScriptLine => UNCHANGED mapVars \/ \E name \in Names, m \in MapLines : MapLine(name, m)
    <3>1. \A name : MrLine(name) => UNCHANGED mapVars
      BY DEF MrLine
    <3>2. \A name : DeleteLine(name) => UNCHANGED mapVars
      BY DEF DeleteLine
    <3>3. \A name, new : CopyLine(name, new) => UNCHANGED mapVars
      BY DEF CopyLine
    <3>4. \A p, n : SetLine(p, n) => UNCHANGED mapVars
      BY DEF SetLine
    <3>5. \A i, settings : InputLine(i, settings) => UNCHANGED mapVars
      BY DEF InputLine
    <3>6. \A c, texts, file, name : CommandLine(c, texts, file, name) => UNCHANGED mapVars
      BY DEF CommandLine
    <3>. QED
      BY <3>1, <3>2, <3>3, <3>4, <3>5, <3>6 DEF ScriptLine
  <2>. QED
    BY <1>2, <2>1, <2>2, <2>3, <2>4, <2>5, <2>6 DEF Next, ScriptStep, vars
<1>. QED
  BY <1>1, <1>2, ScriptSafe, PTL DEF Spec

(* The pieces of a file do not overlap, begin at separators and are the whole  *)
(* file when map() returns, and a whole file is given once to each rank that   *)
(* listed it: for every file system, number of tasks, separator and delta.     *)
THEOREM MapDivides == Spec => []ChunksDivide
<1>1. MapInv => ChunksDivide
  BY MapInvDivides
<1>. QED
  BY <1>1, MapSafe, PTL

(* The script's lines and commands crash only where a second input is looked   *)
(* up behind settings that are consumed (Object::add_input), in the delete []  *)
(* of a name that is no variable's, and in a map() that calls the NULL of an   *)
(* unknown function or divides by the number of its tasks, 0: for every table, *)
(* script and file system.                                                     *)
LineCrashes ==
  \/ cmd.name \in Commands /\ Len(inputs) < Inputs(cmd.name) /\ None \in Range(userinputs)
  \/ cmd.name = "map" /\ cmd.map.split # "no" /\ cmd.map.text \notin Variables
LineInv == status = "crashed" => LineCrashes

THEOREM ScriptCrashesOnlyIf == Spec => []CrashesOnlyIf
<1>1. Init => LineInv
  BY DEF Init, LineInv
<1>2. ASSUME ScriptInv, LineInv, [Next]_vars
      PROVE  LineInv'
  <2>1. CASE UNCHANGED oinkVars
    BY <1>2, <2>1 DEF LineInv, LineCrashes, oinkVars
  <2>2. ASSUME NEW c \in Commands, NEW file, NEW name \in Names \cup {None},
               NEW texts \in InputTexts(c), CommandLine(c, texts, file, name)
        PROVE  LineInv'
    <3>1. /\ cmd'.name = c
          /\ status' = "crashed" => Len(inputs') < Inputs(c) /\ None \in Range(userinputs')
      BY <1>2, <2>2, CommandLineScript
    <3>. QED
      BY <3>1 DEF LineInv, LineCrashes
  <2>3. CASE FreeStrings
    <3>1. Ready /\ cmd.name = "map"
      BY <2>3 DEF FreeStrings
    <3>2. CASE cmd.map.split # "no" /\ cmd.map.text \notin Variables
      <4>1. cmd' = cmd
        BY <2>3, <3>2 DEF FreeStrings
      <4>. QED
        BY <3>1, <3>2, <4>1 DEF LineInv, LineCrashes
    <3>3. CASE ~(cmd.map.split # "no" /\ cmd.map.text \notin Variables)
      <4>1. status' = status
        BY <2>3, <3>3 DEF FreeStrings
      <4>. QED
        BY <3>1, <4>1 DEF LineInv, Ready
    <3>. QED
      BY <3>2, <3>3
  <2>4. CASE status' \in {"ok", "failed"}
    BY <2>4 DEF LineInv
  <2>5. CASE status' = status /\ Ready
    BY <2>4, <2>5 DEF Ready
  <2>6. CASE CommandStep \/ EndCommand
    <3>1. Ready
      BY <2>6 DEF CommandStep, EndCommand, ReadObject, ReadPaths, CreateMr, OwnMr, Alter, Output, At
    <3>2. status' \in {status, "ok", "failed"}
      BY <2>6 DEF CommandStep, EndCommand, ReadObject, ReadPaths, CreateMr, OwnMr, Alter, Output
    <3>. QED
      BY <2>4, <2>5, <3>1, <3>2
  <2>7. ASSUME NEW name, NEW new, MrLine(name) \/ DeleteLine(name) \/ CopyLine(name, new)
        PROVE  LineInv'
    <3>1. Ready /\ status' \in {status, "failed"}
      BY <2>7 DEF MrLine, DeleteLine, CopyLine, Line
    <3>. QED
      BY <2>4, <2>5, <3>1
  <2>8. ASSUME NEW name, NEW m, MapLine(name, m)
        PROVE  LineInv'
    BY <2>5, <2>8 DEF MapLine, Line
  <2>9. ASSUME NEW x, NEW y, SetLine(x, y) \/ InputLine(x, y)
        PROVE  LineInv'
    BY <2>5, <2>9 DEF SetLine, InputLine, Line
  <2>. QED
    BY <1>2, <2>1, <2>2, <2>3, <2>6, <2>7, <2>8, <2>9
       DEF Next, ScriptStep, ScriptLine, vars, oinkVars
<1>3. LineInv /\ MapInv => CrashesOnlyIf
  BY DEF LineInv, LineCrashes, MapInv, FilesInv, CrashesOnlyIf
<1>. QED
  BY <1>1, <1>2, <1>3, ScriptSafe, MapSafe, PTL DEF Spec
================================================================================
