---------------------------- MODULE WebGraph_proofs ----------------------------
(***************************************************************************)
(* Facts on numbers, finite sets, folds and lists on which the other       *)
(* proofs rest; the theorem that the loads of getProcessLoad divide the    *)
(* keys; and the arithmetic of the graph of an input file: one round of    *)
(* the loop is a multiplication with the Google matrix, which keeps the    *)
(* sum of the ranks and shrinks the distance of two columns.               *)
(***************************************************************************)
EXTENDS WebGraph, Workload, SequencesExt, SequenceTheorems, FiniteSetTheorems, TLAPS

(* Induction over numbers and over finite sets, as the least counterexample: a *)
(* set of them that is not empty has a least, a minimal member.                *)
LEMMA LeastNumber ==
  ASSUME NEW S, S \subseteq Nat, S # {}
  PROVE  \E x \in S : \A y \in S : x <= y
<1>1. PICK x \in S : \A y \in S : ~ (<<y, x>> \in OpToRel(<, Nat))
  BY NatLessThanWellFounded, WFMin
<1>2. ASSUME NEW y \in S PROVE x <= y
  <2>1. x \in Nat /\ y \in Nat
    OBVIOUS
  <2>2. y < x => <<y, x>> \in OpToRel(<, Nat)
    BY <2>1, Zenon DEF OpToRel
  <2>3. ~ (y < x)
    BY <1>1, <2>2, Zenon
  <2> QED
    BY <2>1, <2>3
<1> QED
  BY <1>2

LEMMA MinimalSet ==
  ASSUME NEW S, IsFiniteSet(S), NEW Bad, Bad \subseteq SUBSET S, Bad # {}
  PROVE  \E s \in Bad : \A t \in Bad : t \subseteq s => t = s
<1>1. IsWellFoundedOn(StrictSubsetOrdering(S), SUBSET S)
  BY FS_StrictSubsetOrderingWellFounded, FS_FiniteSubsetsOfFinite
<1>2. PICK s \in Bad : \A t \in Bad : ~ (<<t, s>> \in StrictSubsetOrdering(S))
  BY <1>1, WFMin
<1>3. ASSUME NEW t \in Bad, t \subseteq s PROVE t = s
  BY <1>2, <1>3, Zenon DEF StrictSubsetOrdering
<1> QED
  BY <1>3

--------------------------------------------------------------------------------
(* Products and quotients. *)

LEMMA DivMod ==
  ASSUME NEW a \in Nat, NEW b \in Nat \ {0}
  PROVE  /\ a % b \in Nat /\ a % b < b /\ a \div b \in Nat
         /\ a = b * (a \div b) + (a % b)
<1>1. a = b * (a \div b) + (a % b) /\ a % b \in 0 .. b - 1
  BY SMT
<1>2. a \div b \in Nat
  BY <1>1, SMT
<1> QED
  BY <1>1, <1>2

LEMMA ExactQuotient ==
  ASSUME NEW d \in Nat \ {0}, NEW k \in Nat
  PROVE  (d * k) \div d = k
<1>1. d * k \in Nat
  BY SMT
<1> DEFINE q == (d * k) \div d
           m == (d * k) % d
<1>2. q \in Nat /\ m \in Nat /\ m < d /\ d * k = d * q + m
  BY <1>1, DivMod
<1> HIDE DEF q, m
<1>3. d * (k - q) = m /\ k - q \in Int
  BY <1>2, SMT
<1>4. CASE k - q >= 1
  <2>1. \A j \in Nat \ {0} : d * j >= d
    <3>1. SUFFICES ASSUME NEW j \in Nat \ {0} PROVE d * j >= d
      OBVIOUS
    <3>2. d * (j - 1) \in Nat /\ d * j = d * (j - 1) + d
      BY SMT
    <3> QED
      BY <3>2, SMT
  <2> QED
    BY <1>2, <1>3, <1>4, <2>1, SMT
<1>5. CASE k - q <= -1
  <2>1. q - k \in Nat /\ d * (q - k) \in Nat
    BY <1>2, <1>5, SMT
  <2>2. d * (q - k) = -m
    BY <1>2, <1>3, SMT
  <2>3. m = 0 /\ d * (q - k) = 0
    BY <1>2, <2>1, <2>2, SMT
  <2>4. d * (q - k) # 0
    BY <1>2, <1>5, <2>1, SMT
  <2> QED
    BY <2>3, <2>4
<1>6. k = q
  BY <1>2, <1>3, <1>4, <1>5, SMT
<1> QED
  BY <1>6 DEF q

LEMMA PositiveProduct ==
  \A k, m \in Nat \ {0} : k * m \in Nat \ {0}
<1> TAKE k, m \in Nat \ {0}
<1>1. k * (m - 1) >= 0
  BY SMT
<1>2. k * m = k * (m - 1) + k
  BY SMT
<1> QED
  BY <1>1, <1>2, SMT

LEMMA Cancel ==
  \A k \in Nat \ {0}, x, y \in Int : k * x = k * y => x = y
<1> SUFFICES ASSUME NEW k \in Nat \ {0}, NEW x \in Int, NEW y \in Int, k * x = k * y
             PROVE  x = y
  OBVIOUS
<1>1. ASSUME NEW a \in Int, NEW b \in Int, k * a = k * b, a < b PROVE FALSE
  <2>1. b - a \in Nat \ {0}
    BY <1>1, SMT
  <2>2. k * (b - a) \in Nat \ {0}
    BY <2>1, PositiveProduct
  <2>3. k * (b - a) = 0
    BY <1>1, SMT
  <2> QED
    BY <2>2, <2>3
<1>2. ~ (x < y) /\ ~ (y < x)
  BY <1>1
<1> QED
  BY <1>2, SMT

--------------------------------------------------------------------------------
(* Folds over finite sets. *)

(* a fold that goes on with the member pick[s] of what is left *)
IsFoldWith(W, S, X, base, op, f, pick) ==
  /\ W \in [SUBSET S -> X]
  /\ \A s \in SUBSET S :
       W[s] = IF s = {} THEN base ELSE op[<<f[pick[s]], W[s \ {pick[s]}]>>]

(* A fold over a finite set has a value for each of its subsets. *)
LEMMA FoldWithExists ==
  ASSUME NEW S, IsFiniteSet(S), NEW X, NEW base \in X, NEW F, NEW op \in [F \X X -> X],
         NEW f \in [S -> F], NEW pick, \A s \in SUBSET S : s # {} => pick[s] \in s
  PROVE  \E W : IsFoldWith(W, S, X, base, op, f, pick)
<1> DEFINE rest(s) == s \ {pick[s]}
           Rec(W, s) == W[s] = IF s = {} THEN base ELSE op[<<f[pick[s]], W[rest(s)]>>]
           Fits(W, s) == W \in [SUBSET S -> X] /\ \A r \in SUBSET s : Rec(W, r)
           Good(s) == \E W : Fits(W, s)
           w(s) == CHOOSE W : Fits(W, s)
<1>2. \A s \in SUBSET S : s # {} =>
        rest(s) \in SUBSET S /\ rest(s) \subseteq s /\ rest(s) # s /\ f[pick[s]] \in F
  OBVIOUS
<1> HIDE DEF rest
<1>3. ASSUME NEW U, NEW W, NEW s \in SUBSET S, Fits(U, s), Fits(W, s)
      PROVE  U[s] = W[s]
  <2> DEFINE Bad == {r \in SUBSET s : U[r] # W[r]}
  <2>1. SUFFICES ASSUME Bad # {} PROVE FALSE
    OBVIOUS
  <2>2. IsFiniteSet(s)
    BY FS_Subset
  <2>3. PICK r \in Bad : \A t \in Bad : t \subseteq r => t = r
    <3> HIDE DEF Bad
    <3>1. Bad \subseteq SUBSET s
      BY DEF Bad
    <3> QED
      BY <2>1, <2>2, <3>1, MinimalSet
  <2>4. r \in SUBSET s /\ r \in SUBSET S /\ U[r] # W[r]
    OBVIOUS
  <2>5. Rec(U, r) /\ Rec(W, r)
    BY <1>3, <2>4
  <2>6. r # {}
    BY <2>4, <2>5
  <2>7. rest(r) \in SUBSET s /\ rest(r) \subseteq r /\ rest(r) # r
    BY <1>2, <2>4, <2>6
  <2>8. U[rest(r)] = W[rest(r)]
    BY <2>3, <2>7
  <2> QED
    BY <2>4, <2>5, <2>8
<1>4. ASSUME NEW s \in SUBSET S, \A r \in SUBSET s : r # s => Good(r)
      PROVE  Good(s)
  <2>1. \A r \in SUBSET s : r # s => Fits(w(r), r)
    <3> SUFFICES ASSUME NEW r \in SUBSET s, r # s PROVE Fits(w(r), r)
      OBVIOUS
    <3>1. Good(r)
      BY <1>4
    <3> HIDE DEF Fits
    <3> QED
      BY <3>1
  <2> HIDE DEF w
  <2> DEFINE v(r) == IF r \subseteq s /\ r # s THEN w(r)[r]
                     ELSE IF r = s /\ s # {} THEN op[<<f[pick[s]], w(rest(s))[rest(s)]>>]
                     ELSE base
             W == [r \in SUBSET S |-> v(r)]
  <2>2. ASSUME NEW r \in SUBSET s, r # s PROVE v(r) = w(r)[r] /\ v(r) \in X
    <3>1. v(r) = w(r)[r]
      BY <2>2
    <3>2. w(r) \in [SUBSET S -> X] /\ r \in SUBSET S
      BY <2>1, <2>2
    <3> QED
      BY <3>1, <3>2
  <2>3. s # {} => v(s) = op[<<f[pick[s]], v(rest(s))>>] /\ v(s) \in X
    <3>1. SUFFICES ASSUME s # {} PROVE v(s) = op[<<f[pick[s]], v(rest(s))>>] /\ v(s) \in X
      OBVIOUS
    <3>2. rest(s) \in SUBSET s /\ rest(s) # s /\ f[pick[s]] \in F
      BY <1>2, <3>1
    <3>3. v(rest(s)) = w(rest(s))[rest(s)] /\ v(rest(s)) \in X
      BY <2>2, <3>2
    <3>4. v(s) = op[<<f[pick[s]], w(rest(s))[rest(s)]>>]
      BY <3>1
    <3> HIDE DEF v
    <3> QED
      BY <3>2, <3>3, <3>4
  <2>4. s = {} => v(s) = base
    OBVIOUS
  <2>5. W \in [SUBSET S -> X]
    <3>1. ASSUME NEW r \in SUBSET S PROVE v(r) \in X
      <4>1. CASE r \subseteq s /\ r # s
        BY <2>2, <4>1
      <4>2. CASE r = s
        BY <2>3, <2>4, <4>2
      <4>3. CASE ~ (r \subseteq s)
        BY <4>3
      <4> QED
        BY <4>1, <4>2, <4>3
    <3> HIDE DEF v
    <3> QED
      BY <3>1
  <2>6. \A r \in SUBSET s : W[r] = v(r)
    <3> HIDE DEF v
    <3> QED
      OBVIOUS
  <2>7. ASSUME NEW r \in SUBSET s PROVE Rec(W, r)
    <3>1. CASE r = s
      <4>1. s # {} => rest(s) \in SUBSET s
        BY <1>2
      <4> HIDE DEF v, W
      <4> QED
        BY <2>3, <2>4, <2>6, <3>1, <4>1
    <3>2. CASE r # s
      <4>1. r \in SUBSET S /\ Fits(w(r), r)
        BY <2>1, <3>2
      <4>2. Rec(w(r), r)
        BY <4>1
      <4>3. CASE r = {}
        <5> HIDE DEF v, W
        <5> QED
          BY <2>2, <2>6, <3>2, <4>2, <4>3
      <4>4. CASE r # {}
        <5>1. rest(r) \in SUBSET r /\ rest(r) \in SUBSET s /\ rest(r) # s /\ rest(r) \in SUBSET S
          BY <1>2, <3>2, <4>1, <4>4
        <5>2. Fits(w(rest(r)), rest(r))
          BY <2>1, <5>1
        <5>3. Fits(w(r), rest(r))
          BY <4>1, <5>1
        <5>4. w(rest(r))[rest(r)] = w(r)[rest(r)]
          <6> HIDE DEF Fits
          <6> QED
            BY <1>3, <5>1, <5>2, <5>3
        <5>5. W[r] = w(r)[r] /\ W[rest(r)] = w(rest(r))[rest(r)]
          <6> HIDE DEF v, W
          <6> QED
            BY <2>2, <2>6, <3>2, <5>1
        <5> HIDE DEF v, W
        <5> QED
          BY <4>2, <4>4, <5>4, <5>5
      <4> QED
        BY <4>3, <4>4
    <3> QED
      BY <3>1, <3>2
  <2>8. Fits(W, s)
    <3> HIDE DEF W, Rec
    <3> QED
      BY <2>5, <2>7
  <2> HIDE DEF W, Fits
  <2> QED
    BY <2>8
<1>5. Good(S)
  <2> DEFINE Bad == {s \in SUBSET S : ~Good(s)}
  <2>1. SUFFICES ASSUME Bad # {} PROVE FALSE
    OBVIOUS
  <2> HIDE DEF Good
  <2>2. PICK s \in Bad : \A t \in Bad : t \subseteq s => t = s
    <3> HIDE DEF Bad
    <3>1. Bad \subseteq SUBSET S
      BY DEF Bad
    <3> QED
      BY <2>1, <3>1, MinimalSet
  <2>3. \A r \in SUBSET s : r # s => Good(r)
    BY <2>2
  <2> QED
    BY <1>4, <2>3
<1> QED
  BY <1>5 DEF rest, IsFoldWith

(* The folds of the library go on with any member. *)
Pick(s) == CHOOSE x \in s : TRUE

IsFold(W, S, X, base, op, f) ==
  /\ W \in [SUBSET S -> X]
  /\ \A s \in SUBSET S :
       W[s] = IF s = {} THEN base ELSE op[<<f[Pick(s)], W[s \ {Pick(s)}]>>]

LEMMA FoldExists ==
  ASSUME NEW S, IsFiniteSet(S), NEW X, NEW base \in X, NEW op \in [X \X X -> X],
         NEW f \in [S -> X]
  PROVE  \E W : IsFold(W, S, X, base, op, f)
<1> DEFINE pick == [s \in SUBSET S |-> Pick(s)]
<1>1. \A s \in SUBSET S : pick[s] = Pick(s)
  OBVIOUS
<1> HIDE DEF pick
<1>2. \A s \in SUBSET S : s # {} => pick[s] \in s
  BY <1>1 DEF Pick
<1>3. PICK W : IsFoldWith(W, S, X, base, op, f, pick)
  BY <1>2, FoldWithExists
<1>4. IsFold(W, S, X, base, op, f)
  BY <1>1, <1>3 DEF IsFoldWith, IsFold
<1> QED
  BY <1>4

(* The partial sums of a list of numbers with any indices. *)
Counts(list) ==
  CHOOSE iter : iter = [s \in SUBSET DOMAIN list |->
    IF s = {} THEN 0 ELSE list[Pick(s)] + iter[s \ {Pick(s)}]]

LEMMA CountsUnfold ==
  ASSUME NEW S, IsFiniteSet(S), NEW list \in [S -> Nat]
  PROVE  \A s \in SUBSET S :
           /\ Counts(list)[s] \in Nat
           /\ s = {} => Counts(list)[s] = 0
           /\ s # {} => /\ Pick(s) \in s
                        /\ Counts(list)[s] = list[Pick(s)] + Counts(list)[s \ {Pick(s)}]
<1> DEFINE Body(W) == [s \in SUBSET S |->
                         IF s = {} THEN 0 ELSE list[Pick(s)] + W[s \ {Pick(s)}]]
           op == [p \in Nat \X Nat |-> p[1] + p[2]]
<1>1. op \in [Nat \X Nat -> Nat] /\ \A x, y \in Nat : op[<<x, y>>] = x + y
  OBVIOUS
<1> HIDE DEF op
<1>2. 0 \in Nat
  OBVIOUS
<1>3. PICK W : IsFold(W, S, Nat, 0, op, list)
  BY <1>1, <1>2, FoldExists
<1>4. \A s \in SUBSET S : s # {} => Pick(s) \in s /\ list[Pick(s)] \in Nat
  BY DEF Pick
<1>5. \A s \in SUBSET S : W[s] = IF s = {} THEN 0 ELSE list[Pick(s)] + W[s \ {Pick(s)}]
  <2> SUFFICES ASSUME NEW s \in SUBSET S, s # {}
               PROVE  W[s] = list[Pick(s)] + W[s \ {Pick(s)}]
    BY <1>3 DEF IsFold
  <2>1. W[s \ {Pick(s)}] \in Nat /\ list[Pick(s)] \in Nat
    BY <1>3, <1>4 DEF IsFold
  <2>2. W[s] = op[<<list[Pick(s)], W[s \ {Pick(s)}]>>]
    BY <1>3 DEF IsFold
  <2> QED
    BY <1>1, <2>1, <2>2
<1>6. W = Body(W)
  <2>1. W = [s \in SUBSET S |-> W[s]]
    BY <1>3 DEF IsFold
  <2> QED
    BY <1>5, <2>1, Zenon
<1>7. Counts(list) = CHOOSE U : U = Body(U)
  BY Zenon DEF Counts
<1>8. Counts(list) = Body(Counts(list))
  <2> HIDE DEF Body
  <2> QED
    BY <1>6, <1>7
<1> HIDE DEF Body
<1>9. Counts(list)[{}] = 0
  BY <1>8 DEF Body
<1>10. ASSUME NEW s \in SUBSET S, s # {}
       PROVE  Counts(list)[s] = list[Pick(s)] + Counts(list)[s \ {Pick(s)}]
  BY <1>8, <1>10 DEF Body
<1>11. \A s \in SUBSET S : Counts(list)[s] \in Nat
  <2> DEFINE Bad == {s \in SUBSET S : Counts(list)[s] \notin Nat}
  <2>1. SUFFICES ASSUME Bad # {} PROVE FALSE
    OBVIOUS
  <2>2. PICK s \in Bad : \A t \in Bad : t \subseteq s => t = s
    <3>1. Bad \subseteq SUBSET S
      OBVIOUS
    <3> HIDE DEF Bad
    <3> QED
      BY <2>1, <3>1, MinimalSet
  <2>3. s \in SUBSET S /\ s # {}
    BY <1>9
  <2>4. Pick(s) \in s /\ list[Pick(s)] \in Nat
    BY <1>4, <2>3
  <2>5. Counts(list)[s \ {Pick(s)}] \in Nat
    BY <2>2, <2>3, <2>4
  <2>6. Counts(list)[s] = list[Pick(s)] + Counts(list)[s \ {Pick(s)}]
    BY <1>10, <2>3
  <2>7. Counts(list)[s] \in Nat
    BY <2>4, <2>5, <2>6
  <2> QED
    BY <2>7
<1> QED
  BY <1>4, <1>9, <1>10, <1>11

(* A sequence has a value for each of its prefixes when each follows from the *)
(* one before and the next element.                                           *)
IsIteration(R, n, X, base, op, f) ==
  /\ R \in [0 .. n -> X]
  /\ R[0] = base
  /\ \A i \in 1 .. n : R[i] = op[<<f[i], R[i - 1]>>]

(* the largest number of a set *)
Largest(s) == CHOOSE x \in s : \A y \in s : x >= y

LEMMA LargestOfPrefix ==
  ASSUME NEW n \in Nat, n # 0
  PROVE  Largest(1 .. n) = n /\ (1 .. n) \ {n} = 1 .. n - 1 /\ 1 .. n # {}
<1>1. n \in 1 .. n /\ \A y \in 1 .. n : n >= y
  OBVIOUS
<1>2. \A x \in 1 .. n : x >= n => x = n
  OBVIOUS
<1>3. Largest(1 .. n) \in 1 .. n /\ \A y \in 1 .. n : Largest(1 .. n) >= y
  BY <1>1 DEF Largest
<1> QED
  BY <1>1, <1>2, <1>3

LEMMA LargestIsIn ==
  ASSUME NEW n \in Nat, NEW s \in SUBSET (1 .. n), s # {}
  PROVE  Largest(s) \in s
<1> DEFINE above == {n - x : x \in s}
<1>1. above \subseteq Nat /\ above # {}
  <2>1. \A x \in 1 .. n : n - x \in Nat
    OBVIOUS
  <2> QED
    BY <2>1
<1>2. PICK k \in above : \A j \in above : k <= j
  BY <1>1, LeastNumber
<1>3. PICK x \in s : k = n - x
  BY <1>2
<1>4. \A y \in s : n - y \in above
  OBVIOUS
<1>5. \A y \in s : n - x <= n - y
  BY <1>2, <1>3, <1>4
<1>6. \A y \in s : x >= y
  BY <1>5
<1> QED
  BY <1>6 DEF Largest

LEMMA IterationExists ==
  ASSUME NEW n \in Nat, NEW X, NEW base \in X, NEW F, NEW op \in [F \X X -> X],
         NEW f \in [1 .. n -> F]
  PROVE  \E R : IsIteration(R, n, X, base, op, f)
<1> DEFINE S == 1 .. n
           pick == [s \in SUBSET S |-> Largest(s)]
<1>1. IsFiniteSet(S)
  BY FS_Interval
<1>2. \A s \in SUBSET S : pick[s] = Largest(s) /\ (s # {} => pick[s] \in s)
  BY LargestIsIn
<1> HIDE DEF pick
<1>3. PICK W : IsFoldWith(W, S, X, base, op, f, pick)
  BY <1>1, <1>2, FoldWithExists
<1> DEFINE R == [i \in 0 .. n |-> W[1 .. i]]
<1>4. ASSUME NEW i \in 0 .. n PROVE 1 .. i \in SUBSET S
  OBVIOUS
<1>5. \A i \in 0 .. n : R[i] = W[1 .. i]
  OBVIOUS
<1>6. R \in [0 .. n -> X]
  BY <1>3, <1>4 DEF IsFoldWith
<1> HIDE DEF R
<1>7. R[0] = base
  <2>1. 0 \in 0 .. n /\ 1 .. 0 = {}
    OBVIOUS
  <2>2. {} \in SUBSET S
    OBVIOUS
  <2> QED
    BY <1>3, <1>5, <2>1, <2>2 DEF IsFoldWith
<1>8. ASSUME NEW i \in 1 .. n PROVE R[i] = op[<<f[i], R[i - 1]>>]
  <2>1. i \in Nat /\ i # 0 /\ i \in 0 .. n /\ i - 1 \in 0 .. n
    OBVIOUS
  <2>2. Largest(1 .. i) = i /\ (1 .. i) \ {i} = 1 .. i - 1 /\ 1 .. i # {}
    BY <2>1, LargestOfPrefix
  <2>3. pick[1 .. i] = i
    BY <1>2, <1>4, <2>1, <2>2
  <2>4. W[1 .. i] = op[<<f[pick[1 .. i]], W[(1 .. i) \ {pick[1 .. i]}]>>]
    BY <1>3, <1>4, <2>1, <2>2 DEF IsFoldWith
  <2> QED
    BY <1>5, <2>1, <2>2, <2>3, <2>4
<1> QED
  BY <1>6, <1>7, <1>8 DEF IsIteration

--------------------------------------------------------------------------------
(* The sums of the first entries of a sequence of numbers. *)

IsPartialSums(S, n, f) ==
  /\ S \in [0 .. n -> Nat]
  /\ S[0] = 0
  /\ \A i \in 1 .. n : S[i] = S[i - 1] + f[i]

PartialSums(n, f) == CHOOSE S : IsPartialSums(S, n, f)

LEMMA PartialSumsExist ==
  ASSUME NEW n \in Nat, NEW f \in [1 .. n -> Nat]
  PROVE  IsPartialSums(PartialSums(n, f), n, f)
<1> DEFINE Good(k) == \E S : IsPartialSums(S, k, f)
           Bad == {k \in 0 .. n : ~Good(k)}
<1>1. Good(0)
  <2> DEFINE S == [i \in 0 .. 0 |-> 0]
  <2>1. IsPartialSums(S, 0, f)
    BY DEF IsPartialSums
  <2> QED
    BY <2>1
<1>2. ASSUME NEW k \in 0 .. n, k # 0, Good(k - 1)
      PROVE  Good(k)
  <2>1. PICK S : IsPartialSums(S, k - 1, f)
    BY <1>2
  <2>2. k \in Nat /\ k - 1 \in 0 .. k - 1 /\ f[k] \in Nat
    BY <1>2
  <2> DEFINE U == [i \in 0 .. k |-> IF i = k THEN S[k - 1] + f[k] ELSE S[i]]
  <2>3. \A i \in 0 .. k - 1 : S[i] \in Nat /\ U[i] = S[i] /\ i \in 0 .. k
    BY <2>1, <2>2 DEF IsPartialSums
  <2>4. U[k] = S[k - 1] + f[k] /\ U[k] \in Nat
    <3>1. k \in 0 .. k
      BY <2>2
    <3>2. U[k] = S[k - 1] + f[k]
      BY <3>1
    <3>3. S[k - 1] \in Nat
      BY <2>2, <2>3
    <3> QED
      BY <2>2, <3>2, <3>3
  <2>5. U \in [0 .. k -> Nat]
    <3>1. \A i \in 0 .. k : i = k \/ i \in 0 .. k - 1
      BY <2>2
    <3> QED
      BY <2>3, <2>4, <3>1
  <2>6. U[0] = 0
    <3>1. 0 \in 0 .. k - 1 /\ S[0] = 0
      BY <1>2, <2>1, <2>2 DEF IsPartialSums
    <3> QED
      BY <2>3, <3>1
  <2>7. ASSUME NEW i \in 1 .. k PROVE U[i] = U[i - 1] + f[i]
    <3>1. i - 1 \in 0 .. k - 1
      BY <2>2
    <3>2. U[i - 1] = S[i - 1]
      BY <2>3, <3>1
    <3>3. CASE i = k
      BY <2>4, <3>2, <3>3
    <3>4. CASE i # k
      <4>1. i \in 1 .. k - 1
        BY <2>2, <3>4
      <4>2. S[i] = S[i - 1] + f[i] /\ U[i] = S[i]
        BY <2>1, <2>3, <4>1 DEF IsPartialSums
      <4> QED
        BY <3>2, <4>2
    <3> QED
      BY <3>3, <3>4
  <2> HIDE DEF U
  <2> QED
    BY <2>5, <2>6, <2>7 DEF IsPartialSums
<1> HIDE DEF Good
<1>3. Bad = {}
  <2>1. SUFFICES ASSUME Bad # {} PROVE FALSE
    OBVIOUS
  <2>2. Bad \subseteq Nat
    OBVIOUS
  <2>3. PICK k \in Bad : \A j \in Bad : k <= j
    BY <2>1, <2>2, LeastNumber
  <2>4. k \in Nat /\ k # 0 /\ k \in 0 .. n
    BY <1>1
  <2>5. k - 1 \in 0 .. n /\ ~(k <= k - 1)
    BY <2>4
  <2>6. Good(k - 1)
    BY <2>3, <2>5
  <2> QED
    BY <1>2, <2>4, <2>6
<1>4. Good(n)
  BY <1>3
<1> QED
  BY <1>4 DEF Good, PartialSums

LEMMA PartialSumsUnique ==
  ASSUME NEW n \in Nat, NEW f, NEW S, NEW U, IsPartialSums(S, n, f), IsPartialSums(U, n, f)
  PROVE  S = U
<1> DEFINE Bad == {i \in 0 .. n : S[i] # U[i]}
<1>1. Bad = {}
  <2>1. SUFFICES ASSUME Bad # {} PROVE FALSE
    OBVIOUS
  <2>2. Bad \subseteq Nat
    OBVIOUS
  <2>3. PICK k \in Bad : \A j \in Bad : k <= j
    BY <2>1, <2>2, LeastNumber
  <2>4. k \in 1 .. n
    BY DEF IsPartialSums
  <2>5. k - 1 \in 0 .. n /\ ~(k <= k - 1)
    BY <2>4
  <2>6. S[k - 1] = U[k - 1]
    BY <2>3, <2>5
  <2> QED
    BY <2>4, <2>6 DEF IsPartialSums
<1>2. \A i \in 0 .. n : S[i] = U[i]
  BY <1>1
<1>3. S = [i \in 0 .. n |-> S[i]] /\ U = [i \in 0 .. n |-> U[i]]
  BY DEF IsPartialSums
<1> HIDE DEF Bad
<1> QED
  BY <1>2, <1>3

(* One entry grows by 1, and so do all sums from it on. *)
LEMMA PartialSumsGrow ==
  ASSUME NEW n \in Nat, NEW f \in [1 .. n -> Nat], NEW w \in 1 .. n, NEW g \in [1 .. n -> Nat],
         \A i \in 1 .. n : g[i] = IF i = w THEN f[i] + 1 ELSE f[i]
  PROVE  PartialSums(n, g)[n] = PartialSums(n, f)[n] + 1
<1> DEFINE S == PartialSums(n, f)
           U == [i \in 0 .. n |-> IF i < w THEN S[i] ELSE S[i] + 1]
<1>1. IsPartialSums(S, n, f) /\ IsPartialSums(PartialSums(n, g), n, g)
  BY PartialSumsExist
<1> HIDE DEF S
<1>2. U \in [0 .. n -> Nat] /\ U[0] = 0
  BY <1>1 DEF IsPartialSums
<1>3. ASSUME NEW i \in 1 .. n PROVE U[i] = U[i - 1] + g[i]
  <2>1. S[i] = S[i - 1] + f[i] /\ S[i - 1] \in Nat /\ f[i] \in Nat
    BY <1>1 DEF IsPartialSums
  <2>2. i - 1 \in 0 .. n /\ i \in 0 .. n
    OBVIOUS
  <2> QED
    BY <2>1, <2>2, SMTT(30)
<1>4. U[n] = S[n] + 1
  OBVIOUS
<1>5. IsPartialSums(U, n, g)
  <2> HIDE DEF U
  <2> QED
    BY <1>2, <1>3 DEF IsPartialSums
<1>6. PartialSums(n, g) = U
  BY <1>1, <1>5, PartialSumsUnique
<1> QED
  BY <1>4, <1>6 DEF S

(* The sums of sums *)
LEMMA PartialSumsAdd ==
  ASSUME NEW n \in Nat, NEW f \in [1 .. n -> Nat], NEW g \in [1 .. n -> Nat],
         NEW h \in [1 .. n -> Nat], \A i \in 1 .. n : h[i] = f[i] + g[i]
  PROVE  PartialSums(n, h)[n] = PartialSums(n, f)[n] + PartialSums(n, g)[n]
<1> DEFINE S == PartialSums(n, f)
           R == PartialSums(n, g)
           U == [i \in 0 .. n |-> S[i] + R[i]]
<1>1. IsPartialSums(S, n, f) /\ IsPartialSums(R, n, g) /\ IsPartialSums(PartialSums(n, h), n, h)
  BY PartialSumsExist
<1> HIDE DEF S, R
<1>2. U \in [0 .. n -> Nat] /\ U[0] = 0
  BY <1>1 DEF IsPartialSums
<1>3. ASSUME NEW i \in 1 .. n PROVE U[i] = U[i - 1] + h[i]
  <2>1. /\ S[i] = S[i - 1] + f[i] /\ S[i - 1] \in Nat /\ f[i] \in Nat
        /\ R[i] = R[i - 1] + g[i] /\ R[i - 1] \in Nat /\ g[i] \in Nat
    BY <1>1, SMTT(30) DEF IsPartialSums
  <2>2. i - 1 \in 0 .. n /\ i \in 0 .. n
    OBVIOUS
  <2> QED
    BY <2>1, <2>2
<1>4. U[n] = S[n] + R[n]
  OBVIOUS
<1>5. IsPartialSums(U, n, h)
  <2> HIDE DEF U
  <2> QED
    BY <1>2, <1>3 DEF IsPartialSums
<1>6. PartialSums(n, h) = U
  BY <1>1, <1>5, PartialSumsUnique
<1> QED
  BY <1>4, <1>6 DEF S, R

--------------------------------------------------------------------------------
(* The loads of getProcessLoad *)

(* Integer division in terms of multiplication. *)
LEMMA Division ==
  ASSUME NEW n \in Nat, NEW s \in Nat \ {0}
  PROVE  /\ n \div s \in Nat
         /\ s * (n \div s) <= n
         /\ n < s * (n \div s) + s
<1>1. n = s * (n \div s) + (n % s) /\ n % s \in 0 .. s-1
  BY SMT
<1> QED
  BY <1>1, SMT

(* Multiplication by a natural number is monotone. *)
LEMMA Monotone ==
  ASSUME NEW a \in Nat, NEW b \in Nat, NEW q \in Nat, a <= b
  PROVE  a * q \in Nat /\ b * q \in Nat /\ a * q <= b * q
<1>1. b - a \in Nat
  BY SMT
<1>2. b * q = a * q + (b - a) * q
  BY <1>1, SMT
<1>3. a * q \in Nat /\ (b - a) * q \in Nat
  BY <1>1, SMT
<1> QED
  BY <1>2, <1>3, SMT

(* (p + 1) q = p q + q *)
LEMMA NextOffset ==
  ASSUME NEW p \in Nat, NEW q \in Nat
  PROVE  (p + 1) * q = p * q + q
BY SMT

(* The load of a rank: a block of n \div Size keys, the last one longer. *)
LEMMA LoadShape ==
  ASSUME NEW n \in Nat, NEW Size \in Nat \ {0}, NEW p \in 0 .. Size-1, NEW k \in Int
  PROVE  k \in KeysOf(getProcessLoad(n, Size, p)) <=>
           /\ p * (n \div Size) <= k
           /\ k < IF p = Size - 1 THEN n ELSE p * (n \div Size) + (n \div Size)
<1>1. n \div Size \in Nat
  BY Division
<1>2. p * (n \div Size) \in Nat
  BY <1>1, Monotone
<1> QED
  BY <1>1, <1>2, SMT DEF KeysOf, getProcessLoad, numkeys

(* The loads of Job.hpp divide the keys exactly, for every number of keys and *)
(* processes: with more processes than keys too, where only the last rank has *)
(* any.                                                                       *)
THEOREM LoadsAlwaysDivide ==
  ASSUME NEW n \in Nat, NEW Size \in Nat \ {0}
  PROVE  LoadsDivide(n, Size)
<1> DEFINE q == n \div Size
<1>1. q \in Nat /\ Size * q <= n
  BY Division
<1> HIDE DEF q
<1>2. \A p \in 0 .. Size-1, k \in Int :
        k \in KeysOf(getProcessLoad(n, Size, p)) <=>
          p * q <= k /\ k < IF p = Size - 1 THEN n ELSE p * q + q
  BY LoadShape DEF q
<1>3. ASSUME NEW p \in 0 .. Size-1
      PROVE  p * q \in Nat /\ p * q + q <= n
  <2>1. p \in Nat /\ p + 1 \in Nat /\ Size \in Nat /\ p + 1 <= Size
    OBVIOUS
  <2>2. p * q \in Nat /\ (p + 1) * q <= Size * q /\ Size * q \in Nat
    BY <2>1, <1>1, Monotone
  <2>3. (p + 1) * q = p * q + q
    BY <2>1, <1>1, NextOffset
  <2> QED
    BY <1>1, <2>2, <2>3, SMT
<1>4. ASSUME NEW p \in 0 .. Size-1
      PROVE  KeysOf(getProcessLoad(n, Size, p)) \subseteq 0 .. n-1
  <2> SUFFICES ASSUME NEW k \in KeysOf(getProcessLoad(n, Size, p))
               PROVE  k \in 0 .. n-1
    OBVIOUS
  <2>1. k \in Int
    BY <1>1, <1>3 DEF KeysOf, getProcessLoad, numkeys, q
  <2> QED
    BY <1>1, <1>2, <1>3, <2>1, SMT
<1>5. ASSUME NEW k \in 0 .. n-1
      PROVE  \E p \in 0 .. Size-1 : k \in KeysOf(getProcessLoad(n, Size, p))
  <2>0. k \in Nat /\ k < n /\ Size - 1 \in 0 .. Size-1 /\ Size - 1 \in Nat
    OBVIOUS
  <2>1. CASE (Size - 1) * q <= k
    BY <2>0, <2>1, <1>2
  <2>2. CASE k < (Size - 1) * q
    <3>1. q # 0
      BY <1>1, <2>0, <2>2, SMT
    <3> DEFINE p == k \div q
    <3>2. p \in Nat /\ q * p <= k /\ k < q * p + q
      BY <2>0, <1>1, <3>1, Division
    <3> HIDE DEF p
    <3>3. q * p = p * q /\ p * q \in Nat
      BY <3>2, <1>1, SMT
    <3>4. p < Size - 1
      <4>1. SUFFICES ASSUME Size - 1 <= p PROVE FALSE
        BY <2>0, <3>2
      <4>2. (Size - 1) * q <= p * q /\ (Size - 1) * q \in Nat
        BY <4>1, <2>0, <3>2, <1>1, Monotone
      <4> QED
        BY <4>2, <3>2, <3>3, <2>2, <2>0, SMT
    <3>5. p \in 0 .. Size-1 /\ p # Size - 1
      BY <3>4, <3>2, <2>0, SMT
    <3>6. k \in KeysOf(getProcessLoad(n, Size, p))
      BY <3>5, <3>2, <3>3, <1>2, <2>0
    <3> QED
      BY <3>5, <3>6
  <2>3. (Size - 1) * q \in Int
    BY <2>0, <1>1, SMT
  <2> QED
    BY <2>0, <2>1, <2>2, <2>3
<1>6. ASSUME NEW k \in Int, NEW p \in 0 .. Size-1, NEW r \in 0 .. Size-1, p < r,
             k \in KeysOf(getProcessLoad(n, Size, p))
      PROVE  k \notin KeysOf(getProcessLoad(n, Size, r))
  <2>1. p # Size - 1 /\ p \in Nat /\ p + 1 \in Nat /\ r \in Nat /\ p + 1 <= r
    BY <1>6, SMT
  <2>2. (p + 1) * q <= r * q /\ r * q \in Nat
    BY <2>1, <1>1, Monotone
  <2>3. (p + 1) * q = p * q + q
    BY <2>1, <1>1, NextOffset
  <2>4. p * q \in Nat
    BY <1>3
  <2>5. k < p * q + q
    BY <1>6, <1>2, <2>1
  <2>6. ~ (r * q <= k)
    BY <2>2, <2>3, <2>4, <2>5, <1>1, SMT
  <2> QED
    BY <2>6, <1>2
<1>7. ASSUME NEW k \in 0 .. n-1
      PROVE  \E p \in 0 .. Size-1 :
               /\ k \in KeysOf(getProcessLoad(n, Size, p))
               /\ \A r \in (0 .. Size-1) \ {p} : k \notin KeysOf(getProcessLoad(n, Size, r))
  <2>1. PICK p \in 0 .. Size-1 : k \in KeysOf(getProcessLoad(n, Size, p))
    BY <1>5
  <2>2. ASSUME NEW r \in (0 .. Size-1) \ {p}
        PROVE  k \notin KeysOf(getProcessLoad(n, Size, r))
    <3>1. k \in Int /\ r \in 0 .. Size-1 /\ (p < r \/ r < p)
      BY SMT
    <3> QED
      BY <3>1, <2>1, <1>6
  <2> QED
    BY <2>1, <2>2
<1> QED
  BY <1>4, <1>7 DEF LoadsDivide

--------------------------------------------------------------------------------
(* Lists: what FlattenSeq returns. *)

Elements(seq) == {seq[i] : i \in DOMAIN seq}

LEMMA ConcatLists ==
  ASSUME NEW X, NEW s \in Seq(X), NEW t \in Seq(X)
  PROVE  s \o t \in Seq(X) /\ Elements(s \o t) = Elements(s) \cup Elements(t)
<1> DEFINE m == Len(s)
           n == Len(t)
           c == s \o t
<1>1. /\ c \in Seq(X) /\ Len(c) = m + n
      /\ \A i \in 1 .. m + n : c[i] = IF i <= m THEN s[i] ELSE t[i - m]
  BY ConcatProperties
<1>2. m \in Nat /\ n \in Nat /\ DOMAIN s = 1 .. m /\ DOMAIN t = 1 .. n /\ DOMAIN c = 1 .. m + n
  BY <1>1
<1> HIDE DEF c, m, n
<1>3. \A i \in 1 .. m + n : c[i] \in Elements(s) \cup Elements(t)
  <2> SUFFICES ASSUME NEW i \in 1 .. m + n PROVE c[i] \in Elements(s) \cup Elements(t)
    OBVIOUS
  <2>1. CASE i <= m
    <3>1. i \in 1 .. m /\ c[i] = s[i]
      BY <1>1, <1>2, <2>1
    <3> QED
      BY <1>2, <3>1 DEF Elements
  <2>2. CASE ~(i <= m)
    <3>1. i - m \in 1 .. n /\ c[i] = t[i - m]
      BY <1>1, <1>2, <2>2
    <3> QED
      BY <1>2, <3>1 DEF Elements
  <2> QED
    BY <2>1, <2>2
<1>4. \A i \in 1 .. m : i \in 1 .. m + n /\ c[i] = s[i]
  BY <1>1, <1>2
<1>5. \A i \in 1 .. n : i + m \in 1 .. m + n /\ c[i + m] = t[i]
  BY <1>1, <1>2
<1>6. Elements(c) = {c[i] : i \in 1 .. m + n} /\ Elements(s) = {s[i] : i \in 1 .. m}
      /\ Elements(t) = {t[i] : i \in 1 .. n}
  BY <1>2 DEF Elements
<1>7. Elements(s) \subseteq Elements(c)
  BY <1>4, <1>6
<1>8. Elements(t) \subseteq Elements(c)
  <2> SUFFICES ASSUME NEW i \in 1 .. n PROVE t[i] \in Elements(c)
    BY <1>6
  <2>1. i + m \in 1 .. m + n /\ c[i + m] = t[i]
    BY <1>5
  <2> QED
    BY <1>6, <2>1
<1>9. Elements(c) \subseteq Elements(s) \cup Elements(t)
  BY <1>3, <1>6
<1> QED
  BY <1>1, <1>7, <1>8, <1>9 DEF c

(* FlattenSeq appends the sequences one after the other. *)
LEMMA FlattenSteps ==
  ASSUME NEW X, NEW seqs \in Seq(Seq(X))
  PROVE  \E P \in [0 .. Len(seqs) -> Seq(X)] :
           /\ P[0] = <<>>
           /\ \A i \in 1 .. Len(seqs) : P[i] = P[i - 1] \o seqs[i]
           /\ FlattenSeq(seqs) = P[Len(seqs)]
<1> DEFINE n == Len(seqs)
           op == [p \in Seq(X) \X Seq(X) |-> p[2] \o p[1]]
<1>1. n \in Nat /\ seqs \in [1 .. n -> Seq(X)]
  OBVIOUS
<1>2. op \in [Seq(X) \X Seq(X) -> Seq(X)] /\ \A s, t \in Seq(X) : op[<<t, s>>] = s \o t
  <2>1. \A s, t \in Seq(X) : s \o t \in Seq(X)
    OBVIOUS
  <2> QED
    BY <2>1
<1>3. <<>> \in Seq(X)
  OBVIOUS
<1> HIDE DEF op, n
<1>4. PICK P : IsIteration(P, n, Seq(X), <<>>, op, seqs)
  BY <1>1, <1>2, <1>3, IterationExists
<1>5. P \in [0 .. n -> Seq(X)] /\ P[0] = <<>>
  BY <1>4 DEF IsIteration
<1>6. ASSUME NEW i \in 1 .. n PROVE P[i] = P[i - 1] \o seqs[i]
  <2>1. i - 1 \in 0 .. n
    BY <1>1
  <2>2. P[i] = op[<<seqs[i], P[i - 1]>>]
    BY <1>4 DEF IsIteration
  <2> QED
    BY <1>1, <1>2, <1>5, <2>1, <2>2
<1>7. FlattenSeq(seqs) = P[n]
  <2>1. CASE n = 0
    <3>1. FlattenSeq(seqs) = seqs
      BY <2>1 DEF FlattenSeq, n
    <3>2. seqs = <<>>
      BY <2>1 DEF n
    <3> QED
      BY <1>5, <2>1, <3>1, <3>2
  <2>2. CASE n # 0
    <3> DEFINE Body(g) == [i \in 1 .. n |-> IF i = 1 THEN seqs[i] ELSE g[i - 1] \o seqs[i]]
               G == CHOOSE g : g = Body(g)
               W == [i \in 1 .. n |-> P[i]]
    <3>1. FlattenSeq(seqs) = G[n]
      BY <2>2, Zenon DEF FlattenSeq, n
    <3>2. \A i \in 1 .. n : W[i] = IF i = 1 THEN seqs[i] ELSE W[i - 1] \o seqs[i]
      <4> SUFFICES ASSUME NEW i \in 1 .. n
                   PROVE  P[i] = IF i = 1 THEN seqs[i] ELSE W[i - 1] \o seqs[i]
        OBVIOUS
      <4>1. CASE i = 1
        <5>1. P[1] = <<>> \o seqs[1] /\ seqs[1] \in Seq(X)
          <6>1. 1 \in 1 .. n
            BY <4>1
          <6>2. i - 1 = 0
            BY <4>1
          <6>3. seqs[1] \in Seq(X)
            BY <1>1, <6>1
          <6>4. P[i] = P[0] \o seqs[i]
            BY <1>6, <6>2
          <6> QED
            BY <1>5, <4>1, <6>3, <6>4
        <5> QED
          BY <4>1, <5>1, ConcatEmptySeq
      <4>2. CASE i # 1
        <5>1. i - 1 \in 1 .. n
          BY <1>1, <4>2
        <5>2. W[i - 1] = P[i - 1]
          BY <5>1
        <5> HIDE DEF W
        <5> QED
          BY <1>6, <4>2, <5>2
      <4> QED
        BY <4>1, <4>2
    <3>3. W = Body(W)
      <4>1. W = [i \in 1 .. n |-> W[i]]
        OBVIOUS
      <4> HIDE DEF W
      <4> QED
        BY <3>2, <4>1, Zenon
    <3>4. G = Body(G)
      <4> HIDE DEF Body, W
      <4> QED
        BY <3>3
    <3>5. \A i \in 1 .. n : G[i] = IF i = 1 THEN seqs[i] ELSE G[i - 1] \o seqs[i]
      <4> HIDE DEF G
      <4> QED
        BY <3>4
    <3> HIDE DEF G
    <3>6. \A i \in 1 .. n : G[i] = W[i]
      <4> DEFINE Bad == {i \in 1 .. n : G[i] # W[i]}
      <4> SUFFICES ASSUME Bad # {} PROVE FALSE
        OBVIOUS
      <4>1. Bad \subseteq Nat
        BY <1>1
      <4>2. PICK k \in Bad : \A j \in Bad : k <= j
        BY <4>1, LeastNumber
      <4>3. k \in 1 .. n /\ G[k] # W[k]
        OBVIOUS
      <4>4. k # 1
        <5> HIDE DEF W
        <5> QED
          BY <3>2, <3>5, <4>3
      <4>5. k - 1 \in 1 .. n /\ ~(k <= k - 1)
        BY <1>1, <4>3, <4>4
      <4>6. G[k - 1] = W[k - 1]
        BY <4>2, <4>5
      <4> HIDE DEF W
      <4> QED
        BY <3>2, <3>5, <4>3, <4>4, <4>6
    <3>7. n \in 1 .. n
      BY <1>1, <2>2
    <3> QED
      BY <3>1, <3>6, <3>7
  <2> QED
    BY <2>1, <2>2
<1>8. /\ P[0] = <<>>
      /\ \A i \in 1 .. n : P[i] = P[i - 1] \o seqs[i]
      /\ FlattenSeq(seqs) = P[n]
  BY <1>5, <1>6, <1>7
<1> QED
  BY <1>5, <1>8 DEF n

LEMMA FlattenLists ==
  ASSUME NEW X, NEW seqs \in Seq(Seq(X))
  PROVE  /\ FlattenSeq(seqs) \in Seq(X)
         /\ Elements(FlattenSeq(seqs)) = UNION {Elements(seqs[i]) : i \in DOMAIN seqs}
<1> DEFINE n == Len(seqs)
           All(k) == UNION {Elements(seqs[i]) : i \in 1 .. k}
<1>1. PICK P \in [0 .. n -> Seq(X)] :
        /\ P[0] = <<>>
        /\ \A i \in 1 .. n : P[i] = P[i - 1] \o seqs[i]
        /\ FlattenSeq(seqs) = P[n]
  BY FlattenSteps
<1>2. n \in Nat /\ seqs \in [1 .. n -> Seq(X)] /\ DOMAIN seqs = 1 .. n
  OBVIOUS
<1> HIDE DEF n
<1>3. \A k \in 0 .. n : Elements(P[k]) = All(k)
  <2> DEFINE Bad == {k \in 0 .. n : Elements(P[k]) # All(k)}
  <2> SUFFICES ASSUME Bad # {} PROVE FALSE
    OBVIOUS
  <2> HIDE DEF All
  <2>1. Bad \subseteq Nat
    BY <1>2
  <2>2. PICK k \in Bad : \A j \in Bad : k <= j
    BY <2>1, LeastNumber
  <2>3. Elements(P[0]) = {} /\ All(0) = {}
    BY <1>1 DEF Elements, All
  <2>4. k # 0 /\ k \in 0 .. n
    BY <2>3
  <2>5. k \in 1 .. n /\ k - 1 \in 0 .. n /\ ~(k <= k - 1)
    BY <1>2, <2>4
  <2>6. Elements(P[k - 1]) = All(k - 1)
    BY <2>2, <2>5
  <2>7. P[k] = P[k - 1] \o seqs[k] /\ P[k - 1] \in Seq(X) /\ seqs[k] \in Seq(X)
    BY <1>1, <1>2, <2>5
  <2>8. Elements(P[k]) = Elements(P[k - 1]) \cup Elements(seqs[k])
    BY <2>7, ConcatLists
  <2>9. All(k) = All(k - 1) \cup Elements(seqs[k])
    <3>1. 1 .. k = (1 .. k - 1) \cup {k}
      BY <2>5
    <3> QED
      BY <3>1 DEF All
  <2> QED
    BY <2>2, <2>6, <2>8, <2>9
<1>4. n \in 0 .. n
  BY <1>2
<1> QED
  BY <1>1, <1>2, <1>3, <1>4

--------------------------------------------------------------------------------
(* The graph, and the arithmetic of fractions *)

(* A set of bounded natural numbers that is not empty has a largest member. *)
LEMMA MaxOfBounded ==
  ASSUME NEW m \in Nat, NEW S, S \subseteq 0 .. m, S # {}
  PROVE  Max(S) \in S
<1> DEFINE Above(x) == x + 1 .. m
           D == {Above(x) : x \in S}
           R == StrictSubsetOrdering(0 .. m)
<1>1. \A x \in S : Above(x) \subseteq 0 .. m
  OBVIOUS
<1>2. IsFiniteSet(0 .. m)
  BY FS_Interval
<1>3. IsWellFoundedOn(R, SUBSET (0 .. m))
  BY <1>2, FS_StrictSubsetOrderingWellFounded, FS_FiniteSubsetsOfFinite
<1>4. D \subseteq SUBSET (0 .. m) /\ D # {}
  BY <1>1
<1>5. \E d \in D : \A e \in D : ~ (<<e, d>> \in R)
  <2> HIDE DEF D, R
  <2> QED
    BY <1>3, <1>4, WFMin
<1>6. PICK x \in S : \A y \in S : ~ (<<Above(y), Above(x)>> \in R)
  BY <1>5
<1>7. ASSUME NEW y \in S PROVE x >= y
  <2>1. SUFFICES ASSUME x < y PROVE FALSE
    OBVIOUS
  <2>2. Above(y) \subseteq Above(x) /\ y \in Above(x) /\ y \notin Above(y)
    BY <2>1
  <2>3. <<Above(y), Above(x)>> \in (SUBSET (0 .. m)) \X (SUBSET (0 .. m))
    BY <1>1
  <2>4. <<Above(y), Above(x)>> \in R
    <3> HIDE DEF Above
    <3> QED
      BY <2>2, <2>3 DEF StrictSubsetOrdering
  <2> QED
    BY <2>4, <1>6
<1> QED
  BY <1>7 DEF Max

(* The largest entry of a column of numbers. *)
LEMMA MaxOfColumn ==
  ASSUME NEW S, IsFiniteSet(S), S # {}, NEW f \in [S -> Nat]
  PROVE  Max({f[x] : x \in S}) \in Nat
<1> DEFINE Bounded(s) == \E x \in s : \A y \in s : f[y] <= f[x]
           Bad == {s \in SUBSET S : s # {} /\ ~Bounded(s)}
<1>1. Bad = {}
  <2>1. SUFFICES ASSUME Bad # {} PROVE FALSE
    OBVIOUS
  <2>2. PICK s \in Bad : \A t \in Bad : t \subseteq s => t = s
    <3>1. Bad \subseteq SUBSET S
      OBVIOUS
    <3> HIDE DEF Bad
    <3> QED
      BY <2>1, <3>1, MinimalSet
  <2>3. PICK x \in s : f[x] \in Nat
    OBVIOUS
  <2>4. s \ {x} # {}
    <3>1. SUFFICES ASSUME s = {x} PROVE FALSE
      BY <2>3
    <3> QED
      BY <2>3, <3>1
  <2>5. s \ {x} \notin Bad
    BY <2>2, <2>3
  <2>6. Bounded(s \ {x})
    BY <2>4, <2>5
  <2>7. PICK y \in s \ {x} : \A z \in s \ {x} : f[z] <= f[y]
    BY <2>6
  <2>8. f[y] \in Nat
    OBVIOUS
  <2>9. \A z \in s : f[z] <= f[IF f[x] <= f[y] THEN y ELSE x]
    <3>1. ASSUME NEW z \in s PROVE f[z] <= f[IF f[x] <= f[y] THEN y ELSE x]
      <4>1. f[z] \in Nat
        OBVIOUS
      <4>2. CASE z = x
        BY <2>3, <2>8, <4>2
      <4>3. CASE z # x
        BY <2>3, <2>7, <2>8, <4>1, <4>3
      <4> QED
        BY <4>2, <4>3
    <3> QED
      BY <3>1
  <2>10. Bounded(s)
    <3>1. (IF f[x] <= f[y] THEN y ELSE x) \in s
      BY <2>3
    <3> QED
      BY <2>9, <3>1
  <2> QED
    BY <2>2, <2>10
<1>2. Bounded(S)
  BY <1>1
<1>3. PICK x \in S : \A y \in S : f[y] <= f[x]
  BY <1>2
<1>4. PICK z \in {f[u] : u \in S} : \A y \in {f[u] : u \in S} : z >= y
  BY <1>3
<1>5. Max({f[u] : u \in S}) \in {f[u] : u \in S}
  BY <1>4 DEF Max
<1> QED
  BY <1>5

(* The vertices of an input are an interval from 0. *)
LEMMA VerticesOfFile ==
  ASSUME NEW file, IsFile(file)
  PROVE  \E m \in Nat : Vertices(file) = 0 .. m
<1>1. VertexList(file) \subseteq Vertex
  BY DEF VertexList, IsFile
<1>2. VertexList(file) # {}
  <2>1. 1 \in DOMAIN file
    BY DEF IsFile
  <2>2. file[1][1] \in VertexList(file)
    BY <2>1 DEF VertexList
  <2> QED
    BY <2>2
<1>3. MaxInt - 1 \in Nat
  BY SMT DEF MaxInt
<1>4. Max(VertexList(file)) \in Nat
  <2>1. Max(VertexList(file)) \in VertexList(file)
    BY <1>1, <1>2, <1>3, MaxOfBounded DEF Vertex
  <2> QED
    BY <2>1, <1>1 DEF Vertex
<1> QED
  BY <1>4 DEF Vertices, numVertices

(* The adjacency lists of an input: toList[u][v] and fromList[v][u] both say how *)
(* often the edge from u to v is there.                                          *)
IsGraphOn(g, S) ==
  /\ g \in [toList : [S -> [S -> Nat]], fromList : [S -> [S -> Nat]]]
  /\ g.fromList = [v \in S |-> [u \in S |-> g.toList[u][v]]]

LEMMA GraphOfFile ==
  ASSUME NEW file, IsFile(file)
  PROVE  IsGraphOn(Graph(file), Vertices(file))
<1> DEFINE S == Vertices(file)
<1>1. ASSUME NEW u, NEW v
      PROVE  Multiplicity(file, u, v) \in Nat
  <2>1. IsFiniteSet(DOMAIN file)
    <3>1. Len(file) \in Nat /\ DOMAIN file = 1 .. Len(file)
      BY DEF IsFile
    <3> QED
      BY <3>1, FS_Interval
  <2>2. {e \in DOMAIN file : file[e] = <<u, v>>} \subseteq DOMAIN file
    OBVIOUS
  <2> QED
    BY <2>1, <2>2, FS_Subset, FS_CardinalityType DEF Multiplicity
<1> HIDE DEF S
<1>2. Graph(file).toList = [u \in S |-> [v \in S |-> Multiplicity(file, u, v)]]
  BY DEF Graph, S
<1>3. Graph(file).fromList = [v \in S |-> [u \in S |-> Multiplicity(file, u, v)]]
  BY DEF Graph, S
<1>4. Graph(file) \in [toList : [S -> [S -> Nat]], fromList : [S -> [S -> Nat]]]
  BY <1>1 DEF Graph, S
<1>5. Graph(file).fromList = [v \in S |-> [u \in S |-> Graph(file).toList[u][v]]]
  BY <1>2, <1>3
<1> QED
  BY <1>4, <1>5 DEF IsGraphOn, S

--------------------------------------------------------------------------------
(* What gcd computes: a divisor of both that is a sum of multiples of them. *)

Divides(d, a) == \E k \in Nat : a = d * k
CommonDivisors(a, b) == {d \in Nat \ {0} : Divides(d, a) /\ Divides(d, b)}

LEMMA SameDivisors ==
  ASSUME NEW a \in Nat, NEW b \in Nat \ {0}
  PROVE  CommonDivisors(a, b) = CommonDivisors(b, a % b)
<1> DEFINE q == a \div b
           m == a % b
<1>1. q \in Nat /\ m \in Nat /\ a = b * q + m
  BY DivMod
<1> HIDE DEF q, m
<1>2. ASSUME NEW d \in Nat \ {0}, NEW k \in Nat, b = d * k
      PROVE  Divides(d, a) <=> Divides(d, m)
  <2>1. ASSUME NEW j \in Nat, a = d * j
        PROVE  Divides(d, m)
    <3>1. m = d * (j - k * q) /\ j - k * q \in Int
      BY <1>1, <1>2, <2>1, SMT
    <3>2. j - k * q >= 0
      <4> DEFINE z == k * q - j
      <4>1. z \in Int /\ m = - (d * z)
        BY <1>1, <3>1, SMT
      <4> HIDE DEF z
      <4>2. z >= 1 => d * z >= 1
        BY <4>1, SMT
      <4>3. ~ (z >= 1)
        BY <1>1, <4>1, <4>2, SMT
      <4> QED
        BY <1>1, <3>1, <4>1, <4>3, SMT DEF z
    <3> QED
      BY <3>1, <3>2 DEF Divides
  <2>2. ASSUME NEW j \in Nat, m = d * j
        PROVE  Divides(d, a)
    <3>1. a = d * (k * q + j) /\ k * q + j \in Nat
      BY <1>1, <1>2, <2>2, SMT
    <3> QED
      BY <3>1 DEF Divides
  <2> QED
    BY <2>1, <2>2 DEF Divides
<1>3. \A d \in Nat \ {0} : Divides(d, b) => (Divides(d, a) <=> Divides(d, m))
  BY <1>2 DEF Divides
<1> QED
  BY <1>3 DEF CommonDivisors, m

LEMMA GcdUnfold ==
  \A a, b \in Nat : gcd[<<a, b>>] = IF b = 0 THEN a ELSE gcd[<<b, a % b>>]
<1> DEFINE Body(g) == [p \in Nat \X Nat |-> IF p[2] = 0 THEN p[1] ELSE g[<<p[2], p[1] % p[2]>>]]
           largest == [p \in Nat \X Nat |->
                         IF p[2] = 0 THEN p[1] ELSE Max(CommonDivisors(p[1], p[2]))]
<1>1. ASSUME NEW a \in Nat, NEW b \in Nat \ {0}
      PROVE  largest[<<a, b>>] = largest[<<b, a % b>>]
  <2>1. a % b \in Nat /\ CommonDivisors(a, b) = CommonDivisors(b, a % b)
    BY DivMod, SameDivisors
  <2>2. CASE a % b # 0
    BY <2>1, <2>2
  <2>3. CASE a % b = 0
    <3>1. b \in CommonDivisors(a, b)
      <4>1. b = b * 1 /\ 0 = b * 0
        BY SMT
      <4>2. Divides(b, b) /\ Divides(b, 0)
        BY <4>1 DEF Divides
      <4> QED
        BY <2>1, <2>3, <4>2 DEF CommonDivisors
    <3>2. ASSUME NEW d \in CommonDivisors(a, b) PROVE b >= d
      <4>1. d \in Nat \ {0} /\ Divides(d, b)
        BY DEF CommonDivisors
      <4>2. PICK k \in Nat : b = d * k
        BY <4>1 DEF Divides
      <4>3. k # 0
        BY <4>1, <4>2, SMT
      <4>4. d * (k - 1) \in Nat /\ b = d * (k - 1) + d
        BY <4>1, <4>2, <4>3, SMT
      <4> QED
        BY <4>1, <4>4, SMT
    <3>3. \A x \in CommonDivisors(a, b) : (\A d \in CommonDivisors(a, b) : x >= d) => x = b
      <4>1. SUFFICES ASSUME NEW x \in CommonDivisors(a, b), x >= b PROVE x = b
        BY <3>1
      <4>2. b >= x /\ x \in Nat
        BY <3>2 DEF CommonDivisors
      <4> QED
        BY <4>1, <4>2, SMT
    <3>4. Max(CommonDivisors(a, b)) = b
      BY <3>1, <3>2, <3>3, Zenon DEF Max
    <3> QED
      BY <2>3, <3>4
  <2> QED
    BY <2>2, <2>3
<1>2. largest = Body(largest)
  <2>1. \A p \in Nat \X Nat :
          largest[p] = IF p[2] = 0 THEN p[1] ELSE largest[<<p[2], p[1] % p[2]>>]
    <3> SUFFICES ASSUME NEW a \in Nat, NEW b \in Nat
                 PROVE  largest[<<a, b>>] = IF b = 0 THEN a ELSE largest[<<b, a % b>>]
      OBVIOUS
    <3>1. b = 0 => largest[<<a, b>>] = a
      OBVIOUS
    <3> HIDE DEF largest
    <3> QED
      BY <1>1, <3>1
  <2>2. largest = [p \in Nat \X Nat |-> largest[p]]
    OBVIOUS
  <2> HIDE DEF largest
  <2> QED
    BY <2>1, <2>2
<1>3. gcd = CHOOSE g : g = Body(g)
  BY DEF gcd
<1>4. gcd = Body(gcd)
  <2> HIDE DEF largest, Body
  <2> QED
    BY <1>2, <1>3
<1> QED
  BY <1>4

(* gcd is a common divisor, and a sum of multiples of its arguments. *)
IsGcd(g, a, b) ==
  /\ g \in Nat \ {0} /\ Divides(g, a) /\ Divides(g, b)
  /\ \E x, y \in Int : g = a * x + b * y

LEMMA GcdIsGcd ==
  ASSUME NEW a \in Nat, NEW b \in Nat, a # 0 \/ b # 0
  PROVE  IsGcd(gcd[<<a, b>>], a, b)
<1> DEFINE Good(n) == \A k \in Nat : k # 0 \/ n # 0 => IsGcd(gcd[<<k, n>>], k, n)
           Bad == {n \in Nat : ~Good(n)}
<1>1. ASSUME NEW n \in Nat, \A m \in Nat : m < n => Good(m)
      PROVE  Good(n)
  <2> SUFFICES ASSUME NEW k \in Nat, k # 0 \/ n # 0
               PROVE  IsGcd(gcd[<<k, n>>], k, n)
    OBVIOUS
  <2>1. CASE n = 0
    <3>1. gcd[<<k, n>>] = k /\ k \in Nat \ {0}
      BY <2>1, GcdUnfold
    <3>2. k = k * 1 /\ 0 = k * 0 /\ k = k * 1 + 0 * 0
      BY SMT
    <3> QED
      BY <2>1, <3>1, <3>2 DEF IsGcd, Divides
  <2>2. CASE n # 0
    <3> DEFINE q == k \div n
               m == k % n
               g == gcd[<<n, m>>]
    <3>1. q \in Nat /\ m \in Nat /\ m < n /\ k = n * q + m
      BY <2>2, DivMod
    <3>2. gcd[<<k, n>>] = g
      BY <2>2, GcdUnfold
    <3>3. IsGcd(g, n, m)
      BY <1>1, <2>2, <3>1
    <3>4. g \in CommonDivisors(n, m)
      BY <3>3 DEF IsGcd, CommonDivisors
    <3>5. g \in CommonDivisors(k, n)
      BY <2>2, <3>4, SameDivisors
    <3> HIDE DEF q, m, g
    <3>6. PICK x, y \in Int : g = n * x + m * y
      BY <3>3 DEF IsGcd
    <3>7. g = k * y + n * (x - q * y) /\ x - q * y \in Int
      BY <3>1, <3>6, SMT
    <3> QED
      BY <3>2, <3>5, <3>7 DEF IsGcd, CommonDivisors
  <2> QED
    BY <2>1, <2>2
<1>2. Bad = {}
  <2>1. SUFFICES ASSUME Bad # {} PROVE FALSE
    OBVIOUS
  <2>2. PICK n \in Bad : \A m \in Bad : n <= m
    BY <2>1, LeastNumber, Zenon
  <2>3. n \in Nat /\ ~Good(n)
    OBVIOUS
  <2>4. ASSUME NEW m \in Nat, m < n PROVE Good(m)
    <3>1. m \notin Bad
      BY <2>2, <2>3, <2>4
    <3> QED
      BY <3>1
  <2> HIDE DEF Good
  <2> QED
    BY <1>1, <2>3, <2>4
<1> QED
  BY <1>2
--------------------------------------------------------------------------------
(* Fractions in lowest terms: those with multiples of numerator and denominator *)
(* that sum to 1.  x reduces to such a one by a common factor.                  *)

Coprime(p, q) == \E a, b \in Int : p * a + q * b = 1

Fraction == {x \in Value : Coprime(x[1], x[2])}

Reduces(r, p, q) == \E k \in Nat \ {0} : p = k * r[1] /\ q = k * r[2]

(* frac gives the lowest terms. *)
LEMMA FracReduces ==
  ASSUME NEW p \in Nat, NEW q \in Nat \ {0}
  PROVE  frac(p, q) \in Fraction /\ Reduces(frac(p, q), p, q)
<1> DEFINE g == gcd[<<p, q>>]
<1>1. IsGcd(g, p, q)
  BY GcdIsGcd
<1> HIDE DEF g
<1>2. g \in Nat \ {0}
  BY <1>1 DEF IsGcd
<1>3. PICK i, j \in Nat : p = g * i /\ q = g * j
  BY <1>1 DEF IsGcd, Divides
<1>4. PICK x, y \in Int : g = p * x + q * y
  BY <1>1 DEF IsGcd
<1>5. p \div g = i /\ q \div g = j
  BY <1>2, <1>3, ExactQuotient
<1>6. frac(p, q) = <<i, j>>
  BY <1>5 DEF frac, lowest, g
<1>7. j # 0
  BY <1>2, <1>3, SMT
<1>8. i * x + j * y = 1
  <2>1. g * 1 = g * (i * x + j * y) /\ i * x + j * y \in Int
    BY <1>2, <1>3, <1>4, SMT
  <2> QED
    BY <2>1, <1>2, Cancel
<1> DEFINE r == <<i, j>>
<1>9. r \in Value /\ r[1] = i /\ r[2] = j
  BY <1>7 DEF Value
<1> HIDE DEF r
<1>10. r \in Fraction
  BY <1>8, <1>9 DEF Fraction, Coprime
<1>11. Reduces(r, p, q)
  BY <1>2, <1>3, <1>9 DEF Reduces
<1> QED
  BY <1>6, <1>10, <1>11 DEF r

(* A value has one fraction in lowest terms. *)
LEMMA LowestTermsUnique ==
  ASSUME NEW x \in Fraction, NEW y \in Fraction, x[1] * y[2] = y[1] * x[2]
  PROVE  x = y
<1>1. /\ x[1] \in Nat /\ x[2] \in Nat \ {0} /\ x = <<x[1], x[2]>>
      /\ y[1] \in Nat /\ y[2] \in Nat \ {0} /\ y = <<y[1], y[2]>>
  BY DEF Fraction, Value
<1>2. ASSUME NEW p \in Nat, NEW q \in Nat \ {0}, NEW r \in Nat, NEW s \in Nat \ {0},
             NEW a \in Int, NEW b \in Int, p * a + q * b = 1, p * s = r * q
      PROVE  s >= q
  <2> DEFINE z == r * a + s * b
  <2>1. s = q * z /\ z \in Int
    <3>1. s * (p * a + q * b) = s
      BY <1>2
    <3>2. s * (p * a + q * b) = (p * s) * a + q * (s * b)
      BY SMT
    <3>3. (r * q) * a + q * (s * b) = q * (r * a + s * b)
      BY SMT
    <3> QED
      BY <1>2, <3>1, <3>2, <3>3
  <2> HIDE DEF z
  <2>2. ~ (z <= 0)
    <3>1. z <= 0 => q * (-z) >= 0
      BY <2>1, SMT
    <3> QED
      BY <2>1, <3>1, SMT
  <2>3. q * (z - 1) >= 0
    BY <2>1, <2>2, SMT
  <2> QED
    BY <2>1, <2>3, SMT
<1>3. y[2] >= x[2]
  <2>1. PICK a, b \in Int : x[1] * a + x[2] * b = 1
    BY DEF Fraction, Coprime
  <2> QED
    BY <1>1, <1>2, <2>1
<1>4. x[2] >= y[2]
  <2>1. PICK a, b \in Int : y[1] * a + y[2] * b = 1
    BY DEF Fraction, Coprime
  <2> QED
    BY <1>1, <1>2, <2>1
<1>5. x[2] = y[2]
  BY <1>1, <1>3, <1>4, SMT
<1>6. x[2] * x[1] = x[2] * y[1]
  BY <1>1, <1>5, SMT
<1>7. x[1] = y[1]
  BY <1>1, <1>6, Cancel
<1> QED
  BY <1>1, <1>5, <1>7

(* Two fractions of the same ratio reduce to the same. *)
LEMMA SameRatio ==
  ASSUME NEW r \in Fraction, NEW s \in Fraction,
         NEW p \in Nat, NEW q \in Nat, NEW t \in Nat, NEW u \in Nat,
         Reduces(r, p, q), Reduces(s, t, u), p * u = t * q
  PROVE  r = s
<1>1. r[1] \in Nat /\ r[2] \in Nat \ {0} /\ s[1] \in Nat /\ s[2] \in Nat \ {0}
  BY DEF Fraction, Value
<1>2. PICK k \in Nat \ {0} : p = k * r[1] /\ q = k * r[2]
  BY DEF Reduces
<1>3. PICK l \in Nat \ {0} : t = l * s[1] /\ u = l * s[2]
  BY DEF Reduces
<1> DEFINE n == k * l
<1>4. n \in Nat \ {0}
  BY PositiveProduct
<1>5. n * (r[1] * s[2]) = p * u /\ n * (s[1] * r[2]) = t * q
  BY <1>1, <1>2, <1>3, SMT
<1> HIDE DEF n
<1>6. r[1] * s[2] = s[1] * r[2]
  <2>1. r[1] * s[2] \in Int /\ s[1] * r[2] \in Int
    BY <1>1, SMT
  <2> QED
    BY <1>4, <1>5, <2>1, Cancel
<1> QED
  BY <1>6, LowestTermsUnique

LEMMA ReducesTrans ==
  ASSUME NEW r \in Value, NEW p \in Nat, NEW q \in Nat, NEW k \in Nat \ {0}, Reduces(r, p, q)
  PROVE  Reduces(r, k * p, k * q)
<1>1. PICK l \in Nat \ {0} : p = l * r[1] /\ q = l * r[2]
  BY DEF Reduces
<1>2. k * l \in Nat \ {0}
  BY PositiveProduct
<1>3. r[1] \in Nat /\ r[2] \in Nat
  BY DEF Value
<1>4. k * p = (k * l) * r[1] /\ k * q = (k * l) * r[2]
  BY <1>1, <1>3, SMT
<1> QED
  BY <1>2, <1>4 DEF Reduces

LEMMA PlusReduces ==
  ASSUME NEW x \in Value, NEW y \in Value
  PROVE  /\ plus(x, y) \in Fraction
         /\ Reduces(plus(x, y), x[1] * y[2] + y[1] * x[2], x[2] * y[2])
<1> DEFINE g == gcd[<<x[2], y[2]>>]
<1>1. x[1] \in Nat /\ x[2] \in Nat \ {0} /\ y[1] \in Nat /\ y[2] \in Nat \ {0}
  BY DEF Value
<1>2. IsGcd(g, x[2], y[2])
  BY <1>1, GcdIsGcd
<1> HIDE DEF g
<1>3. g \in Nat \ {0}
  BY <1>2 DEF IsGcd
<1>4. PICK i, j \in Nat : x[2] = g * i /\ y[2] = g * j
  BY <1>2 DEF IsGcd, Divides
<1>5. x[2] \div g = i /\ y[2] \div g = j
  BY <1>3, <1>4, ExactQuotient
<1> DEFINE p == x[1] * j + y[1] * i
           q == x[2] * j
<1>6. plus(x, y) = frac(p, q)
  BY <1>5, Zenon DEF plus, sum, Common, g
<1>7. j \in Nat \ {0}
  <2>1. g * 0 = 0
    BY <1>3, SMT
  <2> QED
    BY <1>1, <1>4, <2>1
<1>8. p \in Nat /\ q \in Nat \ {0}
  <2>1. p \in Nat
    BY <1>1, SMT
  <2> QED
    BY <1>1, <1>7, <2>1, PositiveProduct
<1>9. g * p = x[1] * y[2] + y[1] * x[2] /\ g * q = x[2] * y[2]
  BY <1>1, <1>3, <1>4, SMT
<1> HIDE DEF p, q
<1>10. frac(p, q) \in Fraction /\ Reduces(frac(p, q), p, q)
  BY <1>8, FracReduces
<1>11. frac(p, q) \in Value
  BY <1>10 DEF Fraction
<1> QED
  BY <1>3, <1>6, <1>8, <1>9, <1>10, <1>11, ReducesTrans

(* Two numbers without a common factor with a third have a product without one. *)
LEMMA CoprimeProduct ==
  ASSUME NEW a \in Int, NEW b \in Int, NEW c \in Int, Coprime(a, b), Coprime(a, c)
  PROVE  Coprime(a, b * c)
<1>1. PICK i, j \in Int : a * i + b * j = 1
  BY DEF Coprime
<1>2. PICK k, l \in Int : a * k + c * l = 1
  BY DEF Coprime
<1> DEFINE m == i * (a * k + c * l) + (b * j) * k
           n == j * l
<1>3. a * m + (b * c) * n = (a * i + b * j) * (a * k + c * l)
  BY SMT
<1>4. m \in Int /\ n \in Int
  BY SMT
<1>5. a * m + (b * c) * n = 1
  BY <1>1, <1>2, <1>3
<1> HIDE DEF m, n
<1> QED
  BY <1>4, <1>5 DEF Coprime

LEMMA CoprimeSym ==
  ASSUME NEW a \in Int, NEW b \in Int, Coprime(a, b)
  PROVE  Coprime(b, a)
<1>1. PICK i, j \in Int : a * i + b * j = 1
  BY DEF Coprime
<1>2. b * j + a * i = 1
  BY <1>1, SMT
<1> QED
  BY <1>2 DEF Coprime

LEMMA TimesReduces ==
  ASSUME NEW x \in Value, NEW y \in Value
  PROVE  /\ times(x, y) \in Value
         /\ Reduces(times(x, y), x[1] * y[1], x[2] * y[2])
         /\ x \in Fraction /\ y \in Fraction => times(x, y) \in Fraction
<1> DEFINE u == frac(x[1], y[2])
           v == frac(y[1], x[2])
           t == <<u[1] * v[1], u[2] * v[2]>>
<1>1. x[1] \in Nat /\ x[2] \in Nat \ {0} /\ y[1] \in Nat /\ y[2] \in Nat \ {0}
  BY DEF Value
<1>2. u \in Fraction /\ Reduces(u, x[1], y[2]) /\ v \in Fraction /\ Reduces(v, y[1], x[2])
  BY <1>1, FracReduces
<1>3. times(x, y) = t
  BY Zenon DEF times, product
<1> HIDE DEF u, v
<1>4. u[1] \in Nat /\ u[2] \in Nat \ {0} /\ v[1] \in Nat /\ v[2] \in Nat \ {0}
  BY <1>2 DEF Fraction, Value
<1>5. t \in Value /\ t[1] = u[1] * v[1] /\ t[2] = u[2] * v[2]
  <2>1. u[2] * v[2] \in Nat \ {0}
    BY <1>4, PositiveProduct
  <2>2. u[1] * v[1] \in Nat
    BY <1>4, SMT
  <2> QED
    BY <2>1, <2>2 DEF Value
<1> HIDE DEF t
<1>6. PICK k \in Nat \ {0} : x[1] = k * u[1] /\ y[2] = k * u[2]
  BY <1>2 DEF Reduces
<1>7. PICK l \in Nat \ {0} : y[1] = l * v[1] /\ x[2] = l * v[2]
  BY <1>2 DEF Reduces
<1>8. Reduces(t, x[1] * y[1], x[2] * y[2])
  <2>1. k * l \in Nat \ {0}
    BY PositiveProduct
  <2>2. x[1] * y[1] = (k * l) * t[1] /\ x[2] * y[2] = (k * l) * t[2]
    BY <1>4, <1>5, <1>6, <1>7, SMT
  <2> QED
    BY <2>1, <2>2 DEF Reduces
<1>9. ASSUME x \in Fraction, y \in Fraction
      PROVE  t \in Fraction
  <2>1. Coprime(u[1], u[2]) /\ Coprime(v[1], v[2])
    BY <1>2 DEF Fraction
  <2>2. Coprime(u[1], v[2])
    <3>1. PICK i, j \in Int : x[1] * i + x[2] * j = 1
      BY <1>9 DEF Fraction, Coprime
    <3>2. u[1] * (k * i) + v[2] * (l * j) = 1 /\ k * i \in Int /\ l * j \in Int
      BY <1>4, <1>6, <1>7, <3>1, SMT
    <3> QED
      BY <3>2 DEF Coprime
  <2>3. Coprime(v[1], u[2])
    <3>1. PICK i, j \in Int : y[1] * i + y[2] * j = 1
      BY <1>9 DEF Fraction, Coprime
    <3>2. v[1] * (l * i) + u[2] * (k * j) = 1 /\ k * j \in Int /\ l * i \in Int
      BY <1>4, <1>6, <1>7, <3>1, SMT
    <3> QED
      BY <3>2 DEF Coprime
  <2>4. t[2] \in Int
    BY <1>5 DEF Value
  <2>5. Coprime(t[2], u[1]) /\ Coprime(t[2], v[1])
    <3> DEFINE w == u[2] * v[2]
    <3>1. Coprime(u[1], w)
      BY <1>4, <2>1, <2>2, CoprimeProduct, SMTT(30)
    <3>2. Coprime(v[1], w)
      BY <1>4, <2>1, <2>3, CoprimeProduct
    <3>3. t[2] = w
      BY <1>5
    <3> HIDE DEF w
    <3> QED
      BY <1>4, <2>4, <3>1, <3>2, <3>3, CoprimeSym
  <2>6. Coprime(t[2], t[1])
    BY <1>4, <1>5, <2>4, <2>5, CoprimeProduct
  <2>7. t[1] \in Int
    BY <1>5 DEF Value
  <2> QED
    BY <1>5, <2>4, <2>6, <2>7, CoprimeSym DEF Fraction
<1> QED
  BY <1>3, <1>5, <1>8, <1>9

(* What a sum and a product of values that reduce p/q and t/u reduce. *)
LEMMA PlusOf ==
  ASSUME NEW x \in Value, NEW y \in Value,
         NEW p \in Nat, NEW q \in Nat, NEW t \in Nat, NEW u \in Nat,
         Reduces(x, p, q), Reduces(y, t, u)
  PROVE  Reduces(plus(x, y), p * u + t * q, q * u)
<1>1. x[1] \in Nat /\ x[2] \in Nat /\ y[1] \in Nat /\ y[2] \in Nat
  BY DEF Value
<1>2. PICK k \in Nat \ {0} : p = k * x[1] /\ q = k * x[2]
  BY DEF Reduces
<1>3. PICK l \in Nat \ {0} : t = l * y[1] /\ u = l * y[2]
  BY DEF Reduces
<1> DEFINE n == k * l
           a == x[1] * y[2] + y[1] * x[2]
           b == x[2] * y[2]
<1>4. n \in Nat \ {0} /\ a \in Nat /\ b \in Nat
  BY <1>1, PositiveProduct
<1>5. p * u + t * q = n * a /\ q * u = n * b
  BY <1>1, <1>2, <1>3, SMT
<1>6. plus(x, y) \in Value /\ Reduces(plus(x, y), a, b)
  BY PlusReduces DEF Fraction
<1> HIDE DEF n, a, b
<1> QED
  BY <1>4, <1>5, <1>6, ReducesTrans

LEMMA TimesOf ==
  ASSUME NEW x \in Value, NEW y \in Value,
         NEW p \in Nat, NEW q \in Nat, NEW t \in Nat, NEW u \in Nat,
         Reduces(x, p, q), Reduces(y, t, u)
  PROVE  Reduces(times(x, y), p * t, q * u)
<1>1. x[1] \in Nat /\ x[2] \in Nat /\ y[1] \in Nat /\ y[2] \in Nat
  BY DEF Value
<1>2. PICK k \in Nat \ {0} : p = k * x[1] /\ q = k * x[2]
  BY DEF Reduces
<1>3. PICK l \in Nat \ {0} : t = l * y[1] /\ u = l * y[2]
  BY DEF Reduces
<1> DEFINE n == k * l
           a == x[1] * y[1]
           b == x[2] * y[2]
<1>4. n \in Nat \ {0} /\ a \in Nat /\ b \in Nat
  BY <1>1, PositiveProduct
<1>5. p * t = n * a /\ q * u = n * b
  BY <1>1, <1>2, <1>3, SMT
<1>6. times(x, y) \in Value /\ Reduces(times(x, y), a, b)
  BY TimesReduces
<1> HIDE DEF n, a, b
<1> QED
  BY <1>4, <1>5, <1>6, ReducesTrans

LEMMA ReducesSelf ==
  ASSUME NEW x \in Value
  PROVE  /\ x[1] \in Nat /\ x[2] \in Nat \ {0}
         /\ Reduces(x, x[1], x[2])
<1>1. x[1] \in Nat /\ x[2] \in Nat \ {0}
  BY DEF Value
<1>2. x[1] = 1 * x[1] /\ x[2] = 1 * x[2]
  BY <1>1, SMT
<1> QED
  BY <1>1, <1>2 DEF Reduces

LEMMA FractionIsValue == Fraction \subseteq Value
  BY DEF Fraction

LEMMA UnitFractions ==
  /\ \A n \in Nat \ {0} : <<1, n>> \in Fraction
  /\ \A n \in Nat : <<n, 1>> \in Fraction
  /\ Zero \in Fraction
<1>1. ASSUME NEW n \in Nat PROVE Coprime(1, n) /\ Coprime(n, 1)
  <2>1. 1 * 1 + n * 0 = 1 /\ n * 0 + 1 * 1 = 1
    BY SMT
  <2> QED
    BY <2>1 DEF Coprime
<1> QED
  BY <1>1 DEF Fraction, Value, Zero

(* The laws of the arithmetic that the sums of an iteration need. *)
LEMMA Distributive ==
  ASSUME NEW a \in Fraction, NEW x \in Fraction, NEW y \in Fraction
  PROVE  /\ times(a, plus(x, y)) = plus(times(a, x), times(a, y))
         /\ times(plus(x, y), a) = plus(times(x, a), times(y, a))
<1>1. a \in Value /\ x \in Value /\ y \in Value
  BY DEF Fraction
<1>2. /\ plus(x, y) \in Fraction /\ times(a, plus(x, y)) \in Fraction
      /\ times(plus(x, y), a) \in Fraction
      /\ times(a, x) \in Value /\ times(a, y) \in Value
      /\ times(x, a) \in Value /\ times(y, a) \in Value
      /\ plus(times(a, x), times(a, y)) \in Fraction
      /\ plus(times(x, a), times(y, a)) \in Fraction
  BY <1>1, PlusReduces, TimesReduces, FractionIsValue
<1>3. PICK a1, a2, x1, x2, y1, y2 \in Nat :
        Reduces(a, a1, a2) /\ Reduces(x, x1, x2) /\ Reduces(y, y1, y2)
  BY <1>1, ReducesSelf
<1> DEFINE p == x1 * y2 + y1 * x2
           q == x2 * y2
<1>4. p \in Nat /\ q \in Nat /\ Reduces(plus(x, y), p, q)
  <2>1. p \in Nat /\ q \in Nat
    BY SMT
  <2>2. Reduces(plus(x, y), x1 * y2 + y1 * x2, x2 * y2)
    BY <1>1, <1>3, PlusOf
  <2> QED
    BY <2>1, <2>2
<1> HIDE DEF p, q
<1>5. Reduces(times(a, plus(x, y)), a1 * p, a2 * q) /\ Reduces(times(plus(x, y), a), p * a1, q * a2)
  BY <1>1, <1>2, <1>3, <1>4, TimesOf, FractionIsValue
<1> DEFINE l1 == a1 * x1  l2 == a2 * x2  m1 == a1 * y1  m2 == a2 * y2
           k1 == x1 * a1  k2 == x2 * a2  n1 == y1 * a1  n2 == y2 * a2
<1>6. /\ Reduces(times(a, x), l1, l2) /\ Reduces(times(a, y), m1, m2)
      /\ Reduces(times(x, a), k1, k2) /\ Reduces(times(y, a), n1, n2)
  BY <1>1, <1>3, TimesOf
<1>7. /\ l1 \in Nat /\ l2 \in Nat /\ m1 \in Nat /\ m2 \in Nat
      /\ k1 \in Nat /\ k2 \in Nat /\ n1 \in Nat /\ n2 \in Nat
  BY SMT
<1> HIDE DEF l1, l2, m1, m2, k1, k2, n1, n2
<1>8. /\ Reduces(plus(times(a, x), times(a, y)), l1 * m2 + m1 * l2, l2 * m2)
      /\ Reduces(plus(times(x, a), times(y, a)), k1 * n2 + n1 * k2, k2 * n2)
  BY <1>2, <1>6, <1>7, PlusOf
<1>9. times(a, plus(x, y)) = plus(times(a, x), times(a, y))
  <2>1. (a1 * p) * (l2 * m2) = (l1 * m2 + m1 * l2) * (a2 * q)
    BY SMT DEF p, q, l1, l2, m1, m2
  <2>2. a1 * p \in Nat /\ a2 * q \in Nat /\ l1 * m2 + m1 * l2 \in Nat /\ l2 * m2 \in Nat
    BY <1>4, <1>7, SMT
  <2> QED
    BY <1>2, <1>5, <1>8, <2>1, <2>2, SameRatio
<1>10. times(plus(x, y), a) = plus(times(x, a), times(y, a))
  <2>1. (p * a1) * (k2 * n2) = (k1 * n2 + n1 * k2) * (q * a2)
    BY SMT DEF p, q, k1, k2, n1, n2
  <2>2. p * a1 \in Nat /\ q * a2 \in Nat /\ k1 * n2 + n1 * k2 \in Nat /\ k2 * n2 \in Nat
    BY <1>4, <1>7, SMT
  <2> QED
    BY <1>2, <1>5, <1>8, <2>1, <2>2, SameRatio
<1> QED
  BY <1>9, <1>10

LEMMA Interchange ==
  ASSUME NEW w \in Value, NEW x \in Value, NEW y \in Value, NEW z \in Value
  PROVE  plus(plus(w, x), plus(y, z)) = plus(plus(w, y), plus(x, z))
<1>1. PICK w1, w2, x1, x2, y1, y2, z1, z2 \in Nat :
        /\ Reduces(w, w1, w2) /\ Reduces(x, x1, x2)
        /\ Reduces(y, y1, y2) /\ Reduces(z, z1, z2)
  BY ReducesSelf
<1> DEFINE a1 == w1 * x2 + x1 * w2   a2 == w2 * x2
           b1 == y1 * z2 + z1 * y2   b2 == y2 * z2
           c1 == w1 * y2 + y1 * w2   c2 == w2 * y2
           d1 == x1 * z2 + z1 * x2   d2 == x2 * z2
<1>2. /\ plus(w, x) \in Value /\ plus(y, z) \in Value
      /\ plus(w, y) \in Value /\ plus(x, z) \in Value
  BY PlusReduces, FractionIsValue
<1>3. /\ Reduces(plus(w, x), a1, a2) /\ Reduces(plus(y, z), b1, b2)
      /\ Reduces(plus(w, y), c1, c2) /\ Reduces(plus(x, z), d1, d2)
  BY <1>1, PlusOf
<1>4. /\ a1 \in Nat /\ a2 \in Nat /\ b1 \in Nat /\ b2 \in Nat
      /\ c1 \in Nat /\ c2 \in Nat /\ d1 \in Nat /\ d2 \in Nat
  BY SMT
<1>5. (a1 * b2 + b1 * a2) * (c2 * d2) = (c1 * d2 + d1 * c2) * (a2 * b2)
  BY SMT
<1> HIDE DEF a1, a2, b1, b2, c1, c2, d1, d2
<1>6. /\ Reduces(plus(plus(w, x), plus(y, z)), a1 * b2 + b1 * a2, a2 * b2)
      /\ Reduces(plus(plus(w, y), plus(x, z)), c1 * d2 + d1 * c2, c2 * d2)
  BY <1>2, <1>3, <1>4, PlusOf
<1>7. /\ plus(plus(w, x), plus(y, z)) \in Fraction
      /\ plus(plus(w, y), plus(x, z)) \in Fraction
  BY <1>2, PlusReduces
<1>8. /\ a1 * b2 + b1 * a2 \in Nat /\ a2 * b2 \in Nat
      /\ c1 * d2 + d1 * c2 \in Nat /\ c2 * d2 \in Nat
  BY <1>4, SMT
<1> QED
  BY <1>5, <1>6, <1>7, <1>8, SameRatio

LEMMA ZeroLaws ==
  ASSUME NEW x \in Fraction
  PROVE  times(Zero, x) = Zero /\ times(x, Zero) = Zero /\ plus(Zero, x) = x
<1>1. x \in Value /\ Zero \in Value /\ Zero \in Fraction
  BY UnitFractions, FractionIsValue
<1>2. PICK x1 \in Nat, x2 \in Nat : Reduces(x, x1, x2)
  BY <1>1, ReducesSelf
<1>3. Reduces(Zero, 0, 1)
  BY <1>1, ReducesSelf DEF Zero
<1>4. /\ Reduces(times(Zero, x), 0 * x1, 1 * x2)
      /\ Reduces(times(x, Zero), x1 * 0, x2 * 1)
      /\ Reduces(plus(Zero, x), 0 * x2 + x1 * 1, 1 * x2)
  BY <1>1, <1>2, <1>3, TimesOf, PlusOf
<1>5. /\ Reduces(times(Zero, x), 0, x2)
      /\ Reduces(times(x, Zero), 0, x2)
      /\ Reduces(plus(Zero, x), x1, x2)
  BY <1>4, SMT
<1>6. /\ times(Zero, x) \in Fraction /\ times(x, Zero) \in Fraction /\ plus(Zero, x) \in Fraction
  BY <1>1, TimesReduces, PlusReduces
<1>7. 0 * 1 = 0 * x2 /\ x1 * x2 = x1 * x2
  BY SMT
<1> QED
  BY <1>1, <1>2, <1>3, <1>5, <1>6, <1>7, SameRatio

--------------------------------------------------------------------------------
(* The part of one vertex u in the new rank of a vertex v: what the loop adds to *)
(* the factor and to the sum over the edges is the entry of the Google matrix    *)
(* times the rank of u.                                                          *)

LEMMA Constants ==
  /\ A \in Nat \ {0} /\ B \in Nat \ {0} /\ B - A \in Nat \ {0} /\ A + (B - A) = B
  /\ ALPHA \in Fraction /\ BETA \in Fraction /\ GAMMA \in Fraction
  /\ frac(B - A, B) \in Fraction
  /\ Reduces(ALPHA, A, B) /\ Reduces(BETA, B - A, A) /\ Reduces(GAMMA, B, A)
  /\ Reduces(frac(B - A, B), B - A, B)
<1>1. A \in Nat \ {0} /\ B \in Nat \ {0} /\ B - A \in Nat \ {0} /\ A + (B - A) = B
  BY AlphaAssumption, SMT
<1> QED
  BY <1>1, FracReduces DEF ALPHA, BETA, GAMMA

LEMMA MultipleReduces ==
  ASSUME NEW n \in Nat, NEW x \in Fraction, NEW p \in Nat, NEW q \in Nat, Reduces(x, p, q)
  PROVE  Multiple(n, x) \in Fraction /\ Reduces(Multiple(n, x), n * p, q)
<1>1. x \in Value
  BY FractionIsValue
<1>2. <<n, 1>> \in Fraction /\ <<n, 1>> \in Value
  BY UnitFractions, FractionIsValue
<1>3. Reduces(<<n, 1>>, n, 1)
  BY <1>2, ReducesSelf
<1>4. times(<<n, 1>>, x) \in Fraction /\ Reduces(times(<<n, 1>>, x), n * p, 1 * q)
  BY <1>1, <1>2, <1>3, TimesReduces, TimesOf
<1>5. 1 * q = q /\ (n = 1 => n * p = p)
  BY SMT
<1> QED
  BY <1>4, <1>5 DEF Multiple

(* an entry of the Google matrix: PowerIteration's Google(u, v) for a vertex u of *)
(* out-degree d with n edges to v                                                *)
GoogleEntry(n, d, size) ==
  plus(times(ALPHA, IF d = 0 THEN <<1, size>> ELSE <<n, d>>),
       times(frac(B - A, B), <<1, size>>))

LinkValue(d) == IF d > 0 THEN <<1, d>> ELSE Zero

LEMMA GoogleEntryReduces ==
  ASSUME NEW n \in Nat, NEW d \in Nat, NEW size \in Nat \ {0}
  PROVE  LET p == IF d = 0 THEN 1 ELSE n
             q == IF d = 0 THEN size ELSE d
         IN  /\ GoogleEntry(n, d, size) \in Fraction
             /\ Reduces(GoogleEntry(n, d, size),
                        (A * p) * (B * size) + (B - A) * (B * q), (B * q) * (B * size))
<1> DEFINE p == IF d = 0 THEN 1 ELSE n
           q == IF d = 0 THEN size ELSE d
           e == <<p, q>>
           b == <<1, size>>
<1>1. p \in Nat /\ q \in Nat \ {0}
  OBVIOUS
<1>2. e = IF d = 0 THEN <<1, size>> ELSE <<n, d>>
  OBVIOUS
<1>3. e \in Value /\ e[1] = p /\ e[2] = q
  BY <1>1 DEF Value
<1>4. Reduces(e, p, q)
  BY <1>3, ReducesSelf
<1>5. b \in Fraction /\ b \in Value /\ Reduces(b, 1, size)
  <2>1. b \in Fraction /\ b[1] = 1 /\ b[2] = size
    BY UnitFractions
  <2> QED
    BY <2>1, FractionIsValue, ReducesSelf
<1> HIDE DEF p, q, e, b
<1> DEFINE x1 == A * p  x2 == B * q  y1 == (B - A) * 1  y2 == B * size
<1>6. ALPHA \in Value /\ frac(B - A, B) \in Value
  BY Constants, FractionIsValue
<1>7. /\ times(ALPHA, e) \in Value /\ times(frac(B - A, B), b) \in Value
      /\ Reduces(times(ALPHA, e), x1, x2) /\ Reduces(times(frac(B - A, B), b), y1, y2)
  BY <1>1, <1>3, <1>4, <1>5, <1>6, Constants, TimesReduces, TimesOf
<1>8. x1 \in Nat /\ x2 \in Nat /\ y1 \in Nat /\ y2 \in Nat /\ y1 = B - A
  BY <1>1, Constants, SMT
<1> HIDE DEF x1, x2, y1, y2
<1>9. GoogleEntry(n, d, size) = plus(times(ALPHA, e), times(frac(B - A, B), b))
  BY <1>2 DEF GoogleEntry, b
<1>10. /\ GoogleEntry(n, d, size) \in Fraction
       /\ Reduces(GoogleEntry(n, d, size), x1 * y2 + y1 * x2, x2 * y2)
  BY <1>7, <1>8, <1>9, PlusReduces, PlusOf
<1> QED
  BY <1>8, <1>10 DEF x1, x2, y2, p, q

LEMMA GoogleTerm ==
  ASSUME NEW n \in Nat, NEW d \in Nat, NEW size \in Nat \ {0}, NEW c \in Fraction
  PROVE  /\ FactorValue(LinkValue(d), c) \in Fraction
         /\ Multiple(n, times(LinkValue(d), c)) \in Fraction
         /\ times(GoogleEntry(n, d, size), c) \in Fraction
         /\ times(ALPHA, plus(times(FactorValue(LinkValue(d), c), <<1, size>>),
                              Multiple(n, times(LinkValue(d), c))))
              = times(GoogleEntry(n, d, size), c)
<1> DEFINE p == IF d = 0 THEN 1 ELSE n
           q == IF d = 0 THEN size ELSE d
           h == LinkValue(d)
           h1 == IF d = 0 THEN 0 ELSE 1
           h2 == IF d = 0 THEN 1 ELSE d
           t == IF d = 0 THEN GAMMA ELSE BETA
           t1 == IF d = 0 THEN B ELSE B - A
           b == <<1, size>>
           F == FactorValue(h, c)
           M == Multiple(n, times(h, c))
           G == GoogleEntry(n, d, size)
<1>1. h \in Fraction /\ Reduces(h, h1, h2)
  <2>1. CASE d = 0
    <3>1. h = Zero /\ h \in Fraction /\ h[1] = h1 /\ h[2] = h2
      BY <2>1, UnitFractions DEF LinkValue, Zero
    <3> QED
      BY <3>1, ReducesSelf, FractionIsValue
  <2>2. CASE d # 0
    <3>1. h = <<1, d>> /\ h \in Fraction /\ h[1] = h1 /\ h[2] = h2
      BY <2>2, UnitFractions DEF LinkValue
    <3> QED
      BY <3>1, ReducesSelf, FractionIsValue
  <2> QED
    BY <2>1, <2>2
<1>2. t \in Fraction /\ Reduces(t, t1, A)
  BY Constants
<1>3. F = times(t, c)
  <2>1. d > 0 => <<1, d>> # Zero
    BY DEF Zero
  <2>2. h # Zero <=> d # 0
    BY <2>1 DEF LinkValue
  <2> QED
    BY <2>2 DEF FactorValue
<1>4. b \in Fraction /\ Reduces(b, 1, size)
  <2>1. b \in Fraction /\ b[1] = 1 /\ b[2] = size
    BY UnitFractions
  <2> QED
    BY <2>1, FractionIsValue, ReducesSelf
<1>5. p \in Nat /\ q \in Nat /\ h1 \in Nat /\ h2 \in Nat /\ t1 \in Nat
  BY Constants
<1> DEFINE G1 == (A * p) * (B * size) + (B - A) * (B * q)
           G2 == (B * q) * (B * size)
<1>6. G \in Fraction /\ Reduces(G, G1, G2)
  BY GoogleEntryReduces
<1> HIDE DEF h, F, M, G, t, b
<1>7. PICK c1 \in Nat, c2 \in Nat : Reduces(c, c1, c2)
  BY ReducesSelf, FractionIsValue
<1> DEFINE F1 == t1 * c1          F2 == A * c2
           D1 == F1 * 1           D2 == F2 * size
           m1 == h1 * c1          m2 == h2 * c2
           M1 == n * m1
           S1 == D1 * m2 + M1 * D2
           S2 == D2 * m2
<1>8. /\ F1 \in Nat /\ F2 \in Nat /\ D1 \in Nat /\ D2 \in Nat /\ m1 \in Nat /\ m2 \in Nat
      /\ M1 \in Nat /\ S1 \in Nat /\ S2 \in Nat /\ A * S1 \in Nat /\ B * S2 \in Nat
      /\ G1 \in Nat /\ G2 \in Nat /\ G1 * c1 \in Nat /\ G2 * c2 \in Nat
  BY <1>5, Constants, SMT
<1>9. (A * S1) * (G2 * c2) = (G1 * c1) * (B * S2)
  <2>1. CASE d = 0
    <3>1. p = 1 /\ q = size /\ h1 = 0 /\ h2 = 1 /\ t1 = B
      BY <2>1
    <3> HIDE DEF p, q, h1, h2, t1
    <3>2. G1 = (B * B) * size
      BY <3>1, Constants, SMT
    <3>3. S1 = (B * c1) * c2 /\ S2 = ((A * c2) * size) * c2 /\ G2 = (B * size) * (B * size)
      BY <3>1, Constants, SMT
    <3> HIDE DEF G1, G2, S1, S2
    <3> QED
      BY <3>2, <3>3, Constants, SMT
  <2>2. CASE d # 0
    <3>1. p = n /\ q = d /\ h1 = 1 /\ h2 = d /\ t1 = B - A
      BY <2>2
    <3> HIDE DEF p, q, h1, h2, t1
    <3> DEFINE w == (B - A) * d + (A * n) * size
    <3>2. S1 = (c1 * c2) * w /\ G1 = B * w
      BY <3>1, Constants, SMT
    <3>3. S2 = ((A * c2) * size) * (d * c2) /\ G2 = (B * d) * (B * size)
      BY <3>1, Constants, SMT
    <3>4. w \in Int
      BY Constants, SMT
    <3> HIDE DEF G1, G2, S1, S2, w
    <3> QED
      BY <3>2, <3>3, <3>4, Constants, SMT
  <2> QED
    BY <2>1, <2>2
<1> HIDE DEF p, q, h1, h2, t1, F1, F2, D1, D2, m1, m2, M1, S1, S2, G1, G2
<1>10. c \in Value /\ h \in Value /\ t \in Value /\ b \in Value /\ G \in Value
  BY <1>1, <1>2, <1>4, <1>6, FractionIsValue
<1>11. F \in Fraction /\ F \in Value /\ Reduces(F, F1, F2)
  BY <1>2, <1>3, <1>5, <1>7, <1>10, Constants, TimesReduces, TimesOf, FractionIsValue DEF F1, F2
<1>12. times(F, b) \in Fraction /\ times(F, b) \in Value /\ Reduces(times(F, b), D1, D2)
  BY <1>4, <1>8, <1>10, <1>11, TimesReduces, TimesOf, FractionIsValue DEF D1, D2
<1>13. times(h, c) \in Fraction /\ Reduces(times(h, c), m1, m2)
  BY <1>1, <1>5, <1>7, <1>10, TimesReduces, TimesOf DEF m1, m2
<1>14. M \in Fraction /\ M \in Value /\ Reduces(M, M1, m2)
  BY <1>8, <1>13, MultipleReduces, FractionIsValue DEF M, M1
<1> DEFINE S == plus(times(F, b), M)
<1>15. S \in Fraction /\ S \in Value /\ Reduces(S, S1, S2)
  BY <1>8, <1>12, <1>14, PlusReduces, PlusOf, FractionIsValue DEF S1, S2
<1> HIDE DEF S
<1>16. times(ALPHA, S) \in Fraction /\ Reduces(times(ALPHA, S), A * S1, B * S2)
  BY <1>8, <1>15, Constants, TimesReduces, TimesOf, FractionIsValue
<1>17. times(G, c) \in Fraction /\ Reduces(times(G, c), G1 * c1, G2 * c2)
  BY <1>6, <1>7, <1>8, <1>10, TimesReduces, TimesOf
<1>18. times(ALPHA, S) = times(G, c)
  BY <1>8, <1>9, <1>16, <1>17, SameRatio
<1> QED
  BY <1>11, <1>14, <1>17, <1>18 DEF S, F, M, G, h, b

--------------------------------------------------------------------------------
(* The partial sums of a column, whose last is what Accumulate returns. *)
Sums(terms) ==
  CHOOSE iter : iter = [s \in SUBSET DOMAIN terms |->
    IF s = {} THEN Zero
    ELSE plus(terms[Pick(s)], iter[s \ {Pick(s)}])]

LEMMA AccumulateIsSum ==
  \A terms : Accumulate(terms) = Sums(terms)[DOMAIN terms]
BY Zenon DEF Accumulate, Sums, FoldFunction, FoldFunctionOnSet, MapThenFoldSet, Pick

LEMMA SumsUnfold ==
  ASSUME NEW S, IsFiniteSet(S), NEW terms \in [S -> Value]
  PROVE  \A s \in SUBSET S :
           /\ Sums(terms)[s] \in Fraction
           /\ s = {} => Sums(terms)[s] = Zero
           /\ s # {} => /\ Pick(s) \in s
                        /\ Sums(terms)[s] = plus(terms[Pick(s)], Sums(terms)[s \ {Pick(s)}])
<1> DEFINE Body(W) == [s \in SUBSET S |->
                         IF s = {} THEN Zero ELSE plus(terms[Pick(s)], W[s \ {Pick(s)}])]
           op == [p \in Value \X Value |-> plus(p[1], p[2])]
<1>1. \A x, y \in Value : plus(x, y) \in Fraction /\ plus(x, y) \in Value
  BY PlusReduces, FractionIsValue
<1>2. op \in [Value \X Value -> Value]
  BY <1>1
<1>3. \A x, y \in Value : op[<<x, y>>] = plus(x, y)
  OBVIOUS
<1> HIDE DEF op
<1>4. Zero \in Value /\ Zero \in Fraction
  BY UnitFractions, FractionIsValue
<1>5. PICK W : IsFold(W, S, Value, Zero, op, terms)
  BY <1>2, <1>4, FoldExists
<1>6. \A s \in SUBSET S : s # {} => Pick(s) \in s /\ terms[Pick(s)] \in Value
  BY DEF Pick
<1>7. \A s \in SUBSET S :
        W[s] = IF s = {} THEN Zero ELSE plus(terms[Pick(s)], W[s \ {Pick(s)}])
  <2> SUFFICES ASSUME NEW s \in SUBSET S, s # {}
               PROVE  W[s] = plus(terms[Pick(s)], W[s \ {Pick(s)}])
    BY <1>5 DEF IsFold
  <2>1. W[s \ {Pick(s)}] \in Value /\ terms[Pick(s)] \in Value
    BY <1>5, <1>6 DEF IsFold
  <2>2. W[s] = op[<<terms[Pick(s)], W[s \ {Pick(s)}]>>]
    BY <1>5 DEF IsFold
  <2> QED
    BY <1>3, <2>1, <2>2
<1>8. W = Body(W)
  <2>1. W = [s \in SUBSET S |-> W[s]]
    BY <1>5 DEF IsFold
  <2> QED
    BY <1>7, <2>1, Zenon
<1>9. Sums(terms) = CHOOSE U : U = Body(U)
  BY Zenon DEF Sums
<1>10. Sums(terms) = Body(Sums(terms))
  <2> HIDE DEF Body
  <2> QED
    BY <1>8, <1>9
<1> HIDE DEF Body
<1>11. Sums(terms)[{}] = Zero
  BY <1>10 DEF Body
<1>12. ASSUME NEW s \in SUBSET S, s # {}
       PROVE  Sums(terms)[s] = plus(terms[Pick(s)], Sums(terms)[s \ {Pick(s)}])
  BY <1>10, <1>12 DEF Body
<1>13. \A s \in SUBSET S : Sums(terms)[s] \in Fraction
  <2> DEFINE Bad == {s \in SUBSET S : Sums(terms)[s] \notin Fraction}
  <2>1. SUFFICES ASSUME Bad # {} PROVE FALSE
    OBVIOUS
  <2>2. PICK s \in Bad : \A t \in Bad : t \subseteq s => t = s
    <3>1. Bad \subseteq SUBSET S
      OBVIOUS
    <3> HIDE DEF Bad
    <3> QED
      BY <2>1, <3>1, MinimalSet
  <2>3. s \in SUBSET S /\ s # {}
    BY <1>4, <1>11
  <2>4. Pick(s) \in s /\ terms[Pick(s)] \in Value
    BY <1>6, <2>3
  <2>5. Sums(terms)[s \ {Pick(s)}] \in Fraction
    BY <2>2, <2>3, <2>4
  <2>6. Sums(terms)[s \ {Pick(s)}] \in Value
    BY <2>5, FractionIsValue
  <2>7. Sums(terms)[s] = plus(terms[Pick(s)], Sums(terms)[s \ {Pick(s)}])
    BY <1>12, <2>3
  <2>8. Sums(terms)[s] \in Fraction
    BY <1>1, <2>4, <2>6, <2>7
  <2> QED
    BY <2>8
<1> QED
  BY <1>6, <1>11, <1>12, <1>13

LEMMA AccumulateFraction ==
  ASSUME NEW S, IsFiniteSet(S), NEW terms \in [S -> Value]
  PROVE  Accumulate(terms) \in Fraction
BY AccumulateIsSum, SumsUnfold

(* What holds of each term holds of the sums, as plus and times distribute. *)
Termwise(S, a, b, f, g, h) == \A u \in S : times(a, plus(times(f[u], b), g[u])) = h[u]

LEMMA LinearSum ==
  ASSUME NEW S, IsFiniteSet(S), NEW a \in Fraction, NEW b \in Fraction,
         NEW f \in [S -> Fraction], NEW g \in [S -> Fraction], NEW h \in [S -> Fraction],
         Termwise(S, a, b, f, g, h)
  PROVE  times(a, plus(times(Accumulate(f), b), Accumulate(g))) = Accumulate(h)
<1> DEFINE Combined(x, y) == times(a, plus(times(x, b), y))
           Same(s) == Combined(Sums(f)[s], Sums(g)[s]) = Sums(h)[s]
           Bad == {s \in SUBSET S : ~Same(s)}
<1>1. f \in [S -> Value] /\ g \in [S -> Value] /\ h \in [S -> Value]
  BY FractionIsValue
<1>2. \A x, y \in Fraction : times(x, y) \in Fraction /\ plus(x, y) \in Fraction
  BY TimesReduces, PlusReduces, FractionIsValue
<1>3. ASSUME NEW w \in Fraction, NEW x \in Fraction, NEW y \in Fraction, NEW z \in Fraction
      PROVE  Combined(plus(w, x), plus(y, z)) = plus(Combined(w, y), Combined(x, z))
  <2> DEFINE p == times(w, b)
             q == times(x, b)
  <2>1. p \in Fraction /\ q \in Fraction /\ times(plus(w, x), b) = plus(p, q)
    BY <1>2, Distributive
  <2> HIDE DEF p, q
  <2>2. plus(plus(p, q), plus(y, z)) = plus(plus(p, y), plus(q, z))
    BY <2>1, Interchange, FractionIsValue
  <2>3. plus(p, y) \in Fraction /\ plus(q, z) \in Fraction
    BY <1>2, <2>1
  <2>4. times(a, plus(plus(p, y), plus(q, z))) = plus(times(a, plus(p, y)), times(a, plus(q, z)))
    BY <2>3, Distributive
  <2> QED
    BY <2>1, <2>2, <2>4 DEF p, q
<1>4. Combined(Zero, Zero) = Zero
  BY ZeroLaws, UnitFractions
<1> HIDE DEF Combined
<1>5. ASSUME NEW s \in SUBSET S, \A r \in SUBSET s : r # s => Same(r)
      PROVE  Same(s)
  <2>1. CASE s = {}
    <3>1. Sums(f)[s] = Zero /\ Sums(g)[s] = Zero /\ Sums(h)[s] = Zero
      BY <1>1, <2>1, SumsUnfold
    <3> QED
      BY <1>4, <3>1
  <2>2. CASE s # {}
    <3> DEFINE x == Pick(s)
               r == s \ {x}
    <3>1. /\ x \in s
          /\ Sums(f)[s] = plus(f[x], Sums(f)[r])
          /\ Sums(g)[s] = plus(g[x], Sums(g)[r])
          /\ Sums(h)[s] = plus(h[x], Sums(h)[r])
      BY <1>1, <2>2, SumsUnfold
    <3>2. r \in SUBSET s /\ r \in SUBSET S /\ r # s /\ x \in S
      BY <3>1
    <3> HIDE DEF x, r
    <3>3. Sums(f)[r] \in Fraction /\ Sums(g)[r] \in Fraction
      BY <1>1, <3>2, SumsUnfold
    <3>4. f[x] \in Fraction /\ g[x] \in Fraction
      BY <3>2
    <3>5. Combined(f[x], g[x]) = h[x]
      BY <3>2 DEF Combined, Termwise
    <3>6. Combined(Sums(f)[r], Sums(g)[r]) = Sums(h)[r]
      BY <1>5, <3>2
    <3> QED
      BY <1>3, <3>1, <3>3, <3>4, <3>5, <3>6
  <2> QED
    BY <2>1, <2>2
<1>6. Same(S)
  <2>1. SUFFICES ASSUME Bad # {} PROVE FALSE
    OBVIOUS
  <2> HIDE DEF Same
  <2>2. PICK s \in Bad : \A t \in Bad : t \subseteq s => t = s
    <3>1. Bad \subseteq SUBSET S
      OBVIOUS
    <3> HIDE DEF Bad
    <3> QED
      BY <2>1, <3>1, MinimalSet
  <2>3. \A r \in SUBSET s : r # s => Same(r)
    BY <2>2
  <2> QED
    BY <1>5, <2>3
<1>7. DOMAIN f = S /\ DOMAIN g = S /\ DOMAIN h = S
  OBVIOUS
<1> QED
  BY <1>6, <1>7, AccumulateIsSum DEF Combined

(* The terms of the two sums of an iteration and of a row of the Google matrix, *)
(* for n[u] edges from u to a vertex and d[u] edges from u.                     *)
ShareTerms(S, d, col) == [u \in S |-> FactorValue(LinkValue(d[u]), col[u])]
LinkTerms(S, n, d, col) == [u \in S |-> Multiple(n[u], times(LinkValue(d[u]), col[u]))]
RowTerms(S, size, n, d, col) == [u \in S |-> times(GoogleEntry(n[u], d[u], size), col[u])]

(* An iteration of the loop is a multiplication with the Google matrix. *)
LEMMA IterationIsGoogle ==
  ASSUME NEW S, IsFiniteSet(S), NEW size \in Nat \ {0},
         NEW n \in [S -> Nat], NEW d \in [S -> Nat], NEW col \in [S -> Fraction]
  PROVE  /\ times(ALPHA, plus(times(Accumulate(ShareTerms(S, d, col)), <<1, size>>),
                              Accumulate(LinkTerms(S, n, d, col))))
              = Accumulate(RowTerms(S, size, n, d, col))
         /\ Accumulate(ShareTerms(S, d, col)) \in Fraction
         /\ Accumulate(RowTerms(S, size, n, d, col)) \in Fraction
<1> DEFINE shares == [u \in S |-> FactorValue(LinkValue(d[u]), col[u])]
           links  == [u \in S |-> Multiple(n[u], times(LinkValue(d[u]), col[u]))]
           rows   == [u \in S |-> times(GoogleEntry(n[u], d[u], size), col[u])]
<1>1. ASSUME NEW u \in S
      PROVE  /\ shares[u] \in Fraction /\ links[u] \in Fraction /\ rows[u] \in Fraction
             /\ times(ALPHA, plus(times(shares[u], <<1, size>>), links[u])) = rows[u]
  <2>1. n[u] \in Nat /\ d[u] \in Nat /\ col[u] \in Fraction
    OBVIOUS
  <2>2. /\ shares[u] = FactorValue(LinkValue(d[u]), col[u])
        /\ links[u] = Multiple(n[u], times(LinkValue(d[u]), col[u]))
        /\ rows[u] = times(GoogleEntry(n[u], d[u], size), col[u])
    OBVIOUS
  <2> HIDE DEF shares, links, rows
  <2> QED
    BY <2>1, <2>2, GoogleTerm
<1>2. shares \in [S -> Fraction] /\ links \in [S -> Fraction] /\ rows \in [S -> Fraction]
  <2>1. \A u \in S : shares[u] \in Fraction /\ links[u] \in Fraction /\ rows[u] \in Fraction
    BY <1>1
  <2>2. /\ shares = [u \in S |-> shares[u]] /\ links = [u \in S |-> links[u]]
        /\ rows = [u \in S |-> rows[u]]
    OBVIOUS
  <2> HIDE DEF shares, links, rows
  <2> QED
    BY <2>1, <2>2
<1> HIDE DEF shares, links, rows
<1>3. ALPHA \in Fraction /\ <<1, size>> \in Fraction
  BY Constants, UnitFractions
<1>4. times(ALPHA, plus(times(Accumulate(shares), <<1, size>>), Accumulate(links))) = Accumulate(rows)
  <2> DEFINE b == <<1, size>>
  <2>1. b \in Fraction
    BY <1>3
  <2>2. Termwise(S, ALPHA, b, shares, links, rows)
    BY <1>1 DEF Termwise
  <2> HIDE DEF b
  <2>3. times(ALPHA, plus(times(Accumulate(shares), b), Accumulate(links))) = Accumulate(rows)
    BY <1>2, <1>3, <2>1, <2>2, LinearSum, ZenonT(60)
  <2> QED
    BY <2>3 DEF b
<1>5. shares \in [S -> Value] /\ rows \in [S -> Value]
  BY <1>2, FractionIsValue
<1>6. Accumulate(shares) \in Fraction /\ Accumulate(rows) \in Fraction
  BY <1>5, AccumulateFraction
<1> QED
  BY <1>4, <1>6 DEF shares, links, rows, ShareTerms, LinkTerms, RowTerms

(* The out-degree of an adjacency list is the last of its partial sums. *)
LEMMA OutDegreeIsCount == \A list : OutDegree(list) = Counts(list)[DOMAIN list]
BY Zenon DEF OutDegree, Counts, MapThenSumSet, MapThenFoldSet, Pick

LEMMA OutDegreeType ==
  ASSUME NEW S, IsFiniteSet(S), NEW list \in [S -> Nat]
  PROVE  OutDegree(list) \in Nat
BY OutDegreeIsCount, CountsUnfold

(* the hyperlink of each vertex *)
LEMMA HyperLinks ==
  ASSUME NEW S, IsFiniteSet(S), NEW list \in [S -> [S -> Nat]]
  PROVE  /\ \A u \in S : OutDegree(list[u]) \in Nat
         /\ calculateHyperLinkColumn(list) = [u \in S |-> LinkValue(OutDegree(list[u]))]
         /\ calculateHyperLinkColumn(list) \in [S -> Fraction]
<1>1. ASSUME NEW u \in S PROVE OutDegree(list[u]) \in Nat
  <2>1. list[u] \in [S -> Nat]
    OBVIOUS
  <2> QED
    BY <2>1, OutDegreeType
<1>2. ASSUME NEW d \in Nat PROVE LinkValue(d) \in Fraction
  BY UnitFractions DEF LinkValue
<1>3. calculateHyperLinkColumn(list) = [u \in S |-> LinkValue(OutDegree(list[u]))]
  BY DEF calculateHyperLinkColumn, LinkValue
<1> QED
  BY <1>1, <1>2, <1>3

(* The factor and the ranks of a round of the loop, the ranks of a multiplication *)
(* with the Google matrix, for the adjacency lists of S and a column.             *)
LoopFactor(S, size, h, col) ==
  times(Accumulate([u \in S |-> FactorValue(h[u], col[u])]), <<1, size>>)
LoopSum(S, list, h, col, v) ==
  Accumulate([u \in S |-> Multiple(list[u][v], times(h[u], col[u]))])
LoopRank(S, size, list, h, col, v) ==
  times(ALPHA, plus(LoopFactor(S, size, h, col), LoopSum(S, list, h, col, v)))
GoogleRank(S, size, list, col, v) ==
  Accumulate([u \in S |-> times(GoogleEntry(list[u][v], OutDegree(list[u]), size), col[u])])

LEMMA LoopIsGoogle ==
  ASSUME NEW S, IsFiniteSet(S), NEW size \in Nat \ {0}, NEW list \in [S -> [S -> Nat]],
         NEW h, h = calculateHyperLinkColumn(list), NEW col \in [S -> Fraction], NEW v \in S
  PROVE  /\ LoopRank(S, size, list, h, col, v) = GoogleRank(S, size, list, col, v)
         /\ LoopFactor(S, size, h, col) \in Fraction
         /\ GoogleRank(S, size, list, col, v) \in Fraction
<1> DEFINE n == [u \in S |-> list[u][v]]
           d == [u \in S |-> OutDegree(list[u])]
<1>1. /\ \A u \in S : OutDegree(list[u]) \in Nat
      /\ h = [u \in S |-> LinkValue(OutDegree(list[u]))]
  BY HyperLinks
<1>2. n \in [S -> Nat] /\ d \in [S -> Nat]
  BY <1>1
<1>3. \A u \in S : h[u] = LinkValue(d[u]) /\ list[u][v] = n[u] /\ OutDegree(list[u]) = d[u]
  BY <1>1
<1> HIDE DEF n, d
<1>4. /\ LoopFactor(S, size, h, col) = times(Accumulate(ShareTerms(S, d, col)), <<1, size>>)
      /\ LoopSum(S, list, h, col, v) = Accumulate(LinkTerms(S, n, d, col))
      /\ GoogleRank(S, size, list, col, v) = Accumulate(RowTerms(S, size, n, d, col))
  <2>1. /\ [u \in S |-> FactorValue(h[u], col[u])] = ShareTerms(S, d, col)
        /\ [u \in S |-> Multiple(list[u][v], times(h[u], col[u]))] = LinkTerms(S, n, d, col)
        /\ [u \in S |-> times(GoogleEntry(list[u][v], OutDegree(list[u]), size), col[u])]
             = RowTerms(S, size, n, d, col)
    BY <1>3 DEF ShareTerms, LinkTerms, RowTerms
  <2> QED
    BY <2>1 DEF LoopFactor, LoopSum, GoogleRank
<1>5. /\ LoopRank(S, size, list, h, col, v) = GoogleRank(S, size, list, col, v)
      /\ GoogleRank(S, size, list, col, v) \in Fraction
  <2>1. IsFiniteSet(S) /\ size \in Nat \ {0} /\ col \in [S -> Fraction]
    OBVIOUS
  <2> QED
    BY <1>2, <1>4, <2>1, IterationIsGoogle DEF LoopRank
<1>6. LoopFactor(S, size, h, col) \in Fraction
  <2>1. <<1, size>> \in Fraction
    BY UnitFractions
  <2>2. Accumulate(ShareTerms(S, d, col)) \in Fraction
    BY <1>2, IterationIsGoogle
  <2> QED
    BY <1>4, <2>1, <2>2, TimesReduces, FractionIsValue
<1> QED
  BY <1>5, <1>6

(* the terms of the loop's sums, and the sums of their multiples *)
LEMMA FactorFraction ==
  ASSUME NEW h, NEW x \in Fraction
  PROVE  FactorValue(h, x) \in Fraction
<1>1. BETA \in Fraction /\ GAMMA \in Fraction
  BY Constants
<1>2. BETA \in Value /\ GAMMA \in Value /\ x \in Value
  BY <1>1, FractionIsValue
<1> QED
  BY <1>1, <1>2, TimesReduces DEF FactorValue

LEMMA WeightedFraction ==
  ASSUME NEW S, IsFiniteSet(S), NEW list \in [S -> Nat], NEW terms \in [S -> Fraction]
  PROVE  Accumulate([u \in S |-> Multiple(list[u], terms[u])]) \in Fraction
<1>1. ASSUME NEW n \in Nat, NEW x \in Fraction
      PROVE  Multiple(n, x) \in Fraction
  <2>1. x[1] \in Nat /\ x[2] \in Nat /\ Reduces(x, x[1], x[2])
    BY FractionIsValue, ReducesSelf
  <2> QED
    BY <2>1, MultipleReduces
<1>2. [u \in S |-> Multiple(list[u], terms[u])] \in [S -> Value]
  BY <1>1, FractionIsValue
<1> QED
  BY <1>2, AccumulateFraction

LEMMA UniformColumn ==
  ASSUME NEW m \in Nat
  PROVE  getInitPageRank(m + 1) \in [0 .. m -> Fraction]
<1>1. m + 1 \in Nat \ {0} /\ (m + 1) - 1 = m
  BY SMT
<1>2. <<1, m + 1>> \in Fraction
  BY <1>1, UnitFractions
<1> QED
  BY <1>1, <1>2 DEF getInitPageRank

LEMMA AbsDiffFraction ==
  ASSUME NEW x \in Value, NEW y \in Value
  PROVE  absDiff(x, y) \in Fraction
<1> DEFINE g == gcd[<<x[2], y[2]>>]
<1>1. x[1] \in Nat /\ x[2] \in Nat \ {0} /\ y[1] \in Nat /\ y[2] \in Nat \ {0}
  BY DEF Value
<1>2. IsGcd(g, x[2], y[2])
  BY <1>1, GcdIsGcd
<1> HIDE DEF g
<1>3. g \in Nat \ {0}
  BY <1>2 DEF IsGcd
<1>4. PICK i, j \in Nat : x[2] = g * i /\ y[2] = g * j
  BY <1>2 DEF IsGcd, Divides
<1>5. x[2] \div g = i /\ y[2] \div g = j
  BY <1>3, <1>4, ExactQuotient
<1> DEFINE p == x[1] * j
           q == y[1] * i
           r == x[2] * j
<1>6. absDiff(x, y) = frac(IF p < q THEN q - p ELSE p - q, r)
  BY <1>5, Zenon DEF absDiff, Common, g
<1>7. j \in Nat \ {0}
  <2>1. g * 0 = 0
    BY <1>3, SMT
  <2> QED
    BY <1>1, <1>4, <2>1
<1>8. p \in Nat /\ q \in Nat /\ r \in Nat \ {0}
  <2>1. p \in Nat /\ q \in Nat
    BY <1>1, SMT
  <2> QED
    BY <1>1, <1>7, <2>1, PositiveProduct
<1> HIDE DEF p, q, r
<1>9. (IF p < q THEN q - p ELSE p - q) \in Nat
  BY <1>8, SMT
<1> QED
  BY <1>6, <1>8, <1>9, FracReduces

LEMMA NormFraction ==
  ASSUME NEW S, IsFiniteSet(S), NEW col \in [S -> Fraction], NEW next \in [S -> Fraction]
  PROVE  calculateNorm(col, next) \in Fraction
<1> DEFINE terms == [v \in S |-> absDiff(col[v], next[v])]
<1>1. calculateNorm(col, next) = Accumulate(terms)
  BY DEF calculateNorm, Total
<1>2. terms \in [S -> Value]
  <2>1. \A v \in S : absDiff(col[v], next[v]) \in Value
    BY AbsDiffFraction, FractionIsValue
  <2> QED
    BY <2>1
<1> HIDE DEF terms
<1> QED
  BY <1>1, <1>2, AccumulateFraction

--------------------------------------------------------------------------------
(* The order of a sum: its terms may be taken in any order, renamed and split. *)

LEMMA PlusLaws ==
  ASSUME NEW x \in Fraction, NEW y \in Fraction, NEW z \in Fraction
  PROVE  /\ plus(x, y) \in Fraction /\ plus(x, y) = plus(y, x)
         /\ plus(Zero, x) = x /\ plus(x, Zero) = x
         /\ plus(plus(x, y), z) = plus(x, plus(y, z))
         /\ plus(x, plus(y, z)) = plus(y, plus(x, z))
<1>1. x \in Value /\ y \in Value /\ z \in Value /\ Zero \in Value /\ Zero \in Fraction
  BY FractionIsValue, UnitFractions
<1>2. ASSUME NEW a \in Fraction, NEW b \in Fraction
      PROVE  plus(a, b) \in Fraction /\ plus(a, b) = plus(b, a)
  <2>1. a \in Value /\ b \in Value
    BY FractionIsValue
  <2>2. /\ plus(a, b) \in Fraction /\ plus(b, a) \in Fraction
        /\ Reduces(plus(a, b), a[1] * b[2] + b[1] * a[2], a[2] * b[2])
        /\ Reduces(plus(b, a), b[1] * a[2] + a[1] * b[2], b[2] * a[2])
    BY <2>1, PlusReduces
  <2>3. a[1] \in Nat /\ a[2] \in Nat /\ b[1] \in Nat /\ b[2] \in Nat
    BY <2>1, ReducesSelf
  <2> DEFINE p == a[1] * b[2] + b[1] * a[2]
             q == a[2] * b[2]
  <2>4. p \in Nat /\ q \in Nat /\ b[1] * a[2] + a[1] * b[2] = p /\ b[2] * a[2] = q
    BY <2>3, SMT
  <2>5. Reduces(plus(a, b), p, q) /\ Reduces(plus(b, a), p, q)
    BY <2>2, <2>4
  <2> HIDE DEF p, q
  <2>6. plus(a, b) = plus(b, a)
    BY <2>2, <2>4, <2>5, SameRatio
  <2> QED
    BY <2>2, <2>6
<1>3. \A a \in Fraction : plus(Zero, a) = a /\ plus(a, Zero) = a
  BY <1>1, <1>2, ZeroLaws
<1>4. ASSUME NEW a \in Fraction, NEW b \in Fraction, NEW c \in Fraction
      PROVE  plus(plus(a, b), c) = plus(a, plus(b, c))
  <2>1. a \in Value /\ b \in Value /\ c \in Value
    BY FractionIsValue
  <2>2. plus(plus(a, b), plus(Zero, c)) = plus(plus(a, Zero), plus(b, c))
    BY <1>1, <2>1, Interchange
  <2> QED
    BY <1>3, <2>2
<1>5. plus(x, plus(y, z)) = plus(y, plus(x, z))
  <2>1. plus(x, plus(y, z)) = plus(plus(x, y), z) /\ plus(y, plus(x, z)) = plus(plus(y, x), z)
    BY <1>4
  <2> QED
    BY <1>2, <2>1
<1> QED
  BY <1>2, <1>3, <1>4, <1>5

(* the sum over a part of the terms *)
LEMMA SumsFacts ==
  ASSUME NEW S, IsFiniteSet(S), NEW terms \in [S -> Fraction]
  PROVE  /\ Accumulate(terms) = Sums(terms)[S]
         /\ Sums(terms)[{}] = Zero
         /\ \A s \in SUBSET S : Sums(terms)[s] \in Fraction
         /\ \A s \in SUBSET S : s # {} =>
              Pick(s) \in s /\ Sums(terms)[s] = plus(terms[Pick(s)], Sums(terms)[s \ {Pick(s)}])
<1>1. terms \in [S -> Value]
  BY FractionIsValue
<1>2. DOMAIN terms = S
  OBVIOUS
<1>3. {} \in SUBSET S
  OBVIOUS
<1>4. Accumulate(terms) = Sums(terms)[S]
  BY <1>2, AccumulateIsSum
<1>5. \A s \in SUBSET S :
        /\ Sums(terms)[s] \in Fraction
        /\ s = {} => Sums(terms)[s] = Zero
        /\ s # {} => /\ Pick(s) \in s
                     /\ Sums(terms)[s] = plus(terms[Pick(s)], Sums(terms)[s \ {Pick(s)}])
  BY <1>1, SumsUnfold
<1> QED
  BY <1>3, <1>4, <1>5

LEMMA SumsSplit ==
  ASSUME NEW S, IsFiniteSet(S), NEW terms \in [S -> Fraction]
  PROVE  \A s \in SUBSET S : \A x \in s :
           Sums(terms)[s] = plus(terms[x], Sums(terms)[s \ {x}])
<1> DEFINE W == Sums(terms)
           Split(s) == \A x \in s : W[s] = plus(terms[x], W[s \ {x}])
           Bad == {s \in SUBSET S : ~Split(s)}
<1>1. SUFFICES ASSUME Bad # {} PROVE FALSE
  <2>1. ASSUME Bad = {} , NEW s \in SUBSET S, NEW x \in s
        PROVE  W[s] = plus(terms[x], W[s \ {x}])
    <3>1. Split(s)
      BY <2>1
    <3> QED
      BY <3>1
  <2> QED
    BY <2>1
<1>2. PICK s \in Bad : \A t \in Bad : t \subseteq s => t = s
  <2>1. Bad \subseteq SUBSET S
    OBVIOUS
  <2> HIDE DEF Bad
  <2> QED
    BY <1>1, <2>1, MinimalSet
<1>3. s \in SUBSET S /\ ~Split(s)
  OBVIOUS
<1>4. PICK x \in s : W[s] # plus(terms[x], W[s \ {x}])
  BY <1>3
<1>5. \A t \in SUBSET s : t # s => Split(t)
  BY <1>2, <1>3
<1> DEFINE p == Pick(s)
<1>6. p \in s /\ W[s] = plus(terms[p], W[s \ {p}])
  BY <1>3, <1>4, SumsFacts
<1>7. p # x
  BY <1>4, <1>6
<1> DEFINE rest == (s \ {p}) \ {x}
<1>8. (s \ {x}) \ {p} = rest /\ x \in s \ {p} /\ p \in s \ {x} /\ rest \in SUBSET S
  BY <1>3, <1>6, <1>7
<1>9. Split(s \ {p}) /\ Split(s \ {x})
  <2>1. s \ {p} \in SUBSET s /\ s \ {p} # s /\ s \ {x} \in SUBSET s /\ s \ {x} # s
    BY <1>6
  <2> HIDE DEF Split, p
  <2> QED
    BY <1>5, <2>1
<1>10. W[s \ {p}] = plus(terms[x], W[rest]) /\ W[s \ {x}] = plus(terms[p], W[rest])
  BY <1>8, <1>9
<1>11. terms[x] \in Fraction /\ terms[p] \in Fraction /\ W[rest] \in Fraction
  BY <1>3, <1>6, <1>8, SumsFacts
<1> DEFINE a == terms[p]
           b == terms[x]
           c == W[rest]
<1> HIDE DEF rest, p, W
<1>12. plus(a, plus(b, c)) = plus(b, plus(a, c))
  <2> HIDE DEF a, b, c
  <2>1. a \in Fraction /\ b \in Fraction /\ c \in Fraction
    BY <1>11 DEF a, b, c
  <2> QED
    BY <2>1, PlusLaws
<1> QED
  BY <1>4, <1>6, <1>10, <1>12

(* Renaming the terms changes no sum. *)
LEMMA SumsRenamed ==
  ASSUME NEW S, IsFiniteSet(S), NEW T0, IsFiniteSet(T0), NEW f \in [S -> T0],
         \A x, y \in S : f[x] = f[y] => x = y,
         NEW p \in [S -> Fraction], NEW q \in [T0 -> Fraction], \A x \in S : p[x] = q[f[x]]
  PROVE  \A s \in SUBSET S : Sums(p)[s] = Sums(q)[{f[x] : x \in s}]
<1> DEFINE image(s) == {f[x] : x \in s}
           Bad == {s \in SUBSET S : Sums(p)[s] # Sums(q)[image(s)]}
<1>1. SUFFICES ASSUME Bad # {} PROVE FALSE
  OBVIOUS
<1>2. PICK s \in Bad : \A t \in Bad : t \subseteq s => t = s
  <2>1. Bad \subseteq SUBSET S
    OBVIOUS
  <2> HIDE DEF Bad
  <2> QED
    BY <1>1, <2>1, MinimalSet
<1>3. s \in SUBSET S /\ Sums(p)[s] # Sums(q)[image(s)]
  OBVIOUS
<1>4. s # {}
  <2>1. image({}) = {}
    OBVIOUS
  <2>2. Sums(p)[{}] = Zero /\ Sums(q)[{}] = Zero
    BY SumsFacts
  <2> QED
    BY <1>3, <2>1, <2>2
<1>5. PICK x \in s : TRUE
  BY <1>4
<1>6. Sums(p)[s \ {x}] = Sums(q)[image(s \ {x})]
  <2>1. s \ {x} \in SUBSET S /\ s \ {x} \subseteq s /\ s \ {x} # s
    BY <1>3, <1>5
  <2> QED
    BY <1>2, <2>1
<1>7. Sums(p)[s] = plus(p[x], Sums(p)[s \ {x}])
  BY <1>3, SumsSplit, SMTT(30)
<1>8. image(s \ {x}) = image(s) \ {f[x]} /\ f[x] \in image(s) /\ image(s) \in SUBSET T0
  BY <1>3
<1> HIDE DEF image
<1>9. Sums(q)[image(s)] = plus(q[f[x]], Sums(q)[image(s) \ {f[x]}])
  BY <1>8, SumsSplit
<1>10. p[x] = q[f[x]]
  BY <1>3
<1> QED
  BY <1>3, <1>6, <1>7, <1>8, <1>9, <1>10

(* Terms that are zero may be left out. *)
LEMMA SumsWithoutZeros ==
  ASSUME NEW S, IsFiniteSet(S), NEW q \in [S -> Fraction], NEW u \in SUBSET S
  PROVE  \A t \in SUBSET S : u \subseteq t /\ (\A y \in t \ u : q[y] = Zero) => Sums(q)[t] = Sums(q)[u]
<1> DEFINE Fits(t) == u \subseteq t /\ \A y \in t \ u : q[y] = Zero
           Bad == {t \in SUBSET S : Fits(t) /\ Sums(q)[t] # Sums(q)[u]}
<1>1. SUFFICES ASSUME Bad # {} PROVE FALSE
  OBVIOUS
<1>2. PICK t \in Bad : \A s \in Bad : s \subseteq t => s = t
  <2>1. Bad \subseteq SUBSET S
    OBVIOUS
  <2> HIDE DEF Bad
  <2> QED
    BY <1>1, <2>1, MinimalSet
<1>3. t \in SUBSET S /\ Fits(t) /\ Sums(q)[t] # Sums(q)[u]
  OBVIOUS
<1>4. PICK y \in t \ u : TRUE
  BY <1>3
<1>5. Fits(t \ {y}) /\ t \ {y} \in SUBSET S /\ t \ {y} \subseteq t /\ t \ {y} # t
  BY <1>3, <1>4
<1>6. Sums(q)[t \ {y}] = Sums(q)[u]
  <2> HIDE DEF Fits
  <2> QED
    BY <1>2, <1>5
<1>7. Sums(q)[t] = plus(q[y], Sums(q)[t \ {y}]) /\ q[y] = Zero
  BY <1>3, <1>4, SumsSplit
<1>8. Sums(q)[u] \in Fraction
  BY SumsFacts
<1>9. plus(Zero, Sums(q)[u]) = Sums(q)[u]
  BY <1>8, ZeroLaws
<1> QED
  BY <1>3, <1>6, <1>7, <1>9

(* Sums over two sets are equal when the terms of one are, renamed, those of  *)
(* the other that are not zero.                                               *)
LEMMA Embedded ==
  ASSUME NEW S, IsFiniteSet(S), NEW T0, IsFiniteSet(T0), NEW f \in [S -> T0],
         \A x, y \in S : f[x] = f[y] => x = y,
         NEW p \in [S -> Fraction], NEW q \in [T0 -> Fraction], \A x \in S : p[x] = q[f[x]],
         \A y \in T0 : (\A x \in S : f[x] # y) => q[y] = Zero
  PROVE  Accumulate(p) = Accumulate(q)
<1> DEFINE u == {f[x] : x \in S}
<1>1. Accumulate(p) = Sums(p)[S] /\ Accumulate(q) = Sums(q)[T0]
  BY SumsFacts
<1>2. Sums(p)[S] = Sums(q)[u]
  <2>1. S \in SUBSET S
    OBVIOUS
  <2> QED
    BY <2>1, SumsRenamed
<1>3. u \in SUBSET T0 /\ \A y \in T0 \ u : q[y] = Zero
  OBVIOUS
<1> HIDE DEF u
<1>4. Sums(q)[T0] = Sums(q)[u]
  <2>1. T0 \in SUBSET T0 /\ u \subseteq T0
    BY <1>3
  <2> QED
    BY <1>3, <2>1, SumsWithoutZeros
<1> QED
  BY <1>1, <1>2, <1>4

Embeds(S, T0, f, p, q) ==
  /\ IsFiniteSet(S) /\ IsFiniteSet(T0)
  /\ f \in [S -> T0] /\ p \in [S -> Fraction] /\ q \in [T0 -> Fraction]
  /\ \A x, y \in S : f[x] = f[y] => x = y
  /\ \A x \in S : p[x] = q[f[x]]
  /\ \A y \in T0 : (\A x \in S : f[x] # y) => q[y] = Zero

LEMMA EmbeddedSums ==
  \A S, T0, f, p, q : Embeds(S, T0, f, p, q) => Accumulate(p) = Accumulate(q)
<1> TAKE S, T0, f, p, q
<1> HAVE Embeds(S, T0, f, p, q)
<1>1. /\ IsFiniteSet(S) /\ IsFiniteSet(T0)
      /\ f \in [S -> T0] /\ p \in [S -> Fraction] /\ q \in [T0 -> Fraction]
      /\ \A x, y \in S : f[x] = f[y] => x = y
      /\ \A x \in S : p[x] = q[f[x]]
      /\ \A y \in T0 : (\A x \in S : f[x] # y) => q[y] = Zero
  BY DEF Embeds
<1> QED
  BY <1>1, Embedded

LEMMA AccumulatePlus ==
  ASSUME NEW S, IsFiniteSet(S), NEW f \in [S -> Fraction], NEW g \in [S -> Fraction],
         NEW h \in [S -> Fraction], \A x \in S : h[x] = plus(f[x], g[x])
  PROVE  Accumulate(h) = plus(Accumulate(f), Accumulate(g))
<1> DEFINE Bad == {s \in SUBSET S : Sums(h)[s] # plus(Sums(f)[s], Sums(g)[s])}
<1>1. Bad = {}
  <2>1. SUFFICES ASSUME Bad # {} PROVE FALSE
    OBVIOUS
  <2>2. PICK s \in Bad : \A t \in Bad : t \subseteq s => t = s
    <3>1. Bad \subseteq SUBSET S
      OBVIOUS
    <3> HIDE DEF Bad
    <3> QED
      BY <2>1, <3>1, MinimalSet
  <2>3. s \in SUBSET S /\ Sums(h)[s] # plus(Sums(f)[s], Sums(g)[s])
    OBVIOUS
  <2>4. s # {}
    <3>1. Sums(f)[{}] = Zero /\ Sums(g)[{}] = Zero /\ Sums(h)[{}] = Zero
      BY SumsFacts
    <3>2. plus(Zero, Zero) = Zero
      BY UnitFractions, ZeroLaws
    <3> QED
      BY <2>3, <3>1, <3>2
  <2>5. PICK x \in s : TRUE
    BY <2>4
  <2> DEFINE r == s \ {x}
  <2>6. r \in SUBSET S /\ r \subseteq s /\ r # s /\ x \in S
    BY <2>3, <2>5
  <2>7. Sums(h)[r] = plus(Sums(f)[r], Sums(g)[r])
    <3> HIDE DEF r
    <3> QED
      BY <2>2, <2>6
  <2>8. /\ Sums(f)[s] = plus(f[x], Sums(f)[r]) /\ Sums(g)[s] = plus(g[x], Sums(g)[r])
        /\ Sums(h)[s] = plus(h[x], Sums(h)[r])
    BY <2>3, SumsSplit
  <2> HIDE DEF r
  <2>9. /\ f[x] \in Value /\ g[x] \in Value /\ Sums(f)[r] \in Value /\ Sums(g)[r] \in Value
    BY <2>6, SumsFacts, FractionIsValue
  <2>10. plus(plus(f[x], g[x]), plus(Sums(f)[r], Sums(g)[r]))
           = plus(plus(f[x], Sums(f)[r]), plus(g[x], Sums(g)[r]))
    BY <2>9, Interchange
  <2> QED
    BY <2>3, <2>6, <2>7, <2>8, <2>10
<1>2. S \in SUBSET S
  OBVIOUS
<1>3. Sums(h)[S] = plus(Sums(f)[S], Sums(g)[S])
  BY <1>1, <1>2
<1> QED
  BY <1>3, SumsFacts

Adds(S, f, g, h) ==
  /\ IsFiniteSet(S) /\ f \in [S -> Fraction] /\ g \in [S -> Fraction] /\ h \in [S -> Fraction]
  /\ \A x \in S : h[x] = plus(f[x], g[x])

LEMMA AddedSums ==
  \A S, f, g, h : Adds(S, f, g, h) => Accumulate(h) = plus(Accumulate(f), Accumulate(g))
<1> TAKE S, f, g, h
<1> HAVE Adds(S, f, g, h)
<1>1. /\ IsFiniteSet(S) /\ f \in [S -> Fraction] /\ g \in [S -> Fraction] /\ h \in [S -> Fraction]
      /\ \A x \in S : h[x] = plus(f[x], g[x])
  BY DEF Adds
<1> QED
  BY <1>1, AccumulatePlus

Splits(S, terms) ==
  \A s \in SUBSET S : \A x \in s : Sums(terms)[s] = plus(terms[x], Sums(terms)[s \ {x}])

LEMMA SumsSplitAll ==
  \A S, terms : IsFiniteSet(S) /\ terms \in [S -> Fraction] => Splits(S, terms)
<1> TAKE S, terms
<1> HAVE IsFiniteSet(S) /\ terms \in [S -> Fraction]
<1> QED
  BY SumsSplit, ZenonT(60) DEF Splits

(* the sum of a sequence, term after term *)
LEMMA PrefixSums ==
  ASSUME NEW n \in Nat, NEW terms \in [1 .. n -> Fraction]
  PROVE  /\ Sums(terms)[1 .. 0] = Zero /\ Accumulate(terms) = Sums(terms)[1 .. n]
         /\ \A k \in 0 .. n : Sums(terms)[1 .. k] \in Fraction
         /\ \A k \in 1 .. n : Sums(terms)[1 .. k] = plus(terms[k], Sums(terms)[1 .. k - 1])
<1>1. IsFiniteSet(1 .. n) /\ 1 .. 0 = {}
  BY FS_Interval
<1>2. Sums(terms)[1 .. 0] = Zero /\ Accumulate(terms) = Sums(terms)[1 .. n]
  BY <1>1, SumsFacts
<1>3. ASSUME NEW k \in 0 .. n PROVE Sums(terms)[1 .. k] \in Fraction
  <2>1. 1 .. k \in SUBSET (1 .. n)
    OBVIOUS
  <2> QED
    BY <1>1, <2>1, SumsFacts
<1>4. ASSUME NEW k \in 1 .. n
      PROVE  Sums(terms)[1 .. k] = plus(terms[k], Sums(terms)[1 .. k - 1])
  <2>1. 1 .. k \in SUBSET (1 .. n) /\ k \in 1 .. k /\ (1 .. k) \ {k} = 1 .. k - 1
    OBVIOUS
  <2>2. \A s \in SUBSET (1 .. n) : \A x \in s :
          Sums(terms)[s] = plus(terms[x], Sums(terms)[s \ {x}])
    <3>1. Splits(1 .. n, terms)
      BY <1>1, SumsSplitAll
    <3> QED
      BY <3>1 DEF Splits
  <2>3. Sums(terms)[1 .. k] = plus(terms[k], Sums(terms)[(1 .. k) \ {k}])
    BY <2>1, <2>2
  <2> QED
    BY <2>1, <2>3
<1> QED
  BY <1>2, <1>3, <1>4

LEMMA MultipleStep ==
  ASSUME NEW n \in Nat, NEW x \in Fraction
  PROVE  /\ Multiple(0, x) = Zero /\ Multiple(n, One) = <<n, 1>>
         /\ Multiple(n + 1, x) = plus(x, Multiple(n, x))
<1>1. x \in Value /\ Zero \in Fraction /\ One \in Fraction /\ <<n, 1>> \in Fraction
  BY UnitFractions, FractionIsValue DEF One
<1> DEFINE p == x[1]
           q == x[2]
<1>2. p \in Nat /\ q \in Nat \ {0} /\ Reduces(x, p, q)
  BY <1>1, ReducesSelf
<1> HIDE DEF p, q
<1>3. Multiple(0, x) = Zero
  BY ZeroLaws DEF Multiple, Zero
<1>4. Multiple(n, One) = <<n, 1>>
  <2>1. Reduces(One, 1, 1) /\ Reduces(<<n, 1>>, n, 1)
    <3>1. One \in Value /\ <<n, 1>> \in Value /\ One[1] = 1 /\ One[2] = 1
      BY <1>1, FractionIsValue DEF One
    <3>2. Reduces(One, One[1], One[2])
      BY <3>1, ReducesSelf
    <3>3. Reduces(<<n, 1>>, <<n, 1>>[1], <<n, 1>>[2])
      <4> DEFINE y == <<n, 1>>
      <4>1. y \in Value
        BY <3>1
      <4> HIDE DEF y
      <4>2. Reduces(y, y[1], y[2])
        BY <4>1, ReducesSelf
      <4> QED
        BY <4>2 DEF y
    <3> QED
      BY <3>1, <3>2, <3>3
  <2>2. Multiple(n, One) \in Fraction /\ Reduces(Multiple(n, One), n * 1, 1)
    BY <1>1, <2>1, MultipleReduces
  <2>3. n * 1 = n
    OBVIOUS
  <2> DEFINE y == <<n, 1>>
             z == Multiple(n, One)
  <2>4. y \in Fraction /\ z \in Fraction /\ Reduces(y, n, 1) /\ Reduces(z, n, 1)
    BY <1>1, <2>1, <2>2, <2>3
  <2> HIDE DEF y, z
  <2>5. z = y
    BY <2>4, SameRatio
  <2> QED
    BY <2>5 DEF y, z
<1>5. Multiple(n + 1, x) = plus(x, Multiple(n, x))
  <2> DEFINE y == Multiple(n, x)
             z == Multiple(n + 1, x)
             m == n * p
             k == (n + 1) * p
             t == p * q + m * q
             u == q * q
  <2>1. /\ y \in Fraction /\ z \in Fraction
        /\ Reduces(y, n * p, q) /\ Reduces(z, (n + 1) * p, q)
    BY <1>2, MultipleReduces
  <2>2. m \in Nat /\ k \in Nat /\ k = m + p
    BY <1>2, SMT
  <2>3. Reduces(y, m, q) /\ Reduces(z, k, q)
    BY <2>1
  <2> HIDE DEF y, z, m, k
  <2>4. Reduces(plus(x, y), p * q + m * q, q * q) /\ plus(x, y) \in Fraction
    BY <1>1, <1>2, <2>1, <2>2, <2>3, FractionIsValue, PlusOf, PlusReduces
  <2>5. t \in Nat /\ u \in Nat /\ Reduces(plus(x, y), t, u)
    BY <1>2, <2>2, <2>4, SMT
  <2>6. t * q = k * u
    BY <1>2, <2>2, SMT
  <2> DEFINE s == plus(x, y)
  <2>7. s \in Fraction /\ Reduces(s, t, u)
    BY <2>4, <2>5
  <2> HIDE DEF t, u, s
  <2>8. s = z
    BY <1>2, <2>1, <2>2, <2>3, <2>5, <2>6, <2>7, SameRatio
  <2> QED
    BY <2>8 DEF s, y, z
<1> QED
  BY <1>3, <1>4, <1>5

(* n equal terms *)
LEMMA Copies ==
  ASSUME NEW n \in Nat, NEW x \in Fraction, NEW terms, terms = [i \in 1 .. n |-> x]
  PROVE  Accumulate(terms) = Multiple(n, x)
<1>1. terms \in [1 .. n -> Fraction]
  OBVIOUS
<1>2. /\ Sums(terms)[1 .. 0] = Zero /\ Accumulate(terms) = Sums(terms)[1 .. n]
      /\ \A k \in 1 .. n : Sums(terms)[1 .. k] = plus(terms[k], Sums(terms)[1 .. k - 1])
  BY <1>1, PrefixSums
<1> DEFINE P(k) == Sums(terms)[1 .. k]
           Bad == {k \in 0 .. n : P(k) # Multiple(k, x)}
<1>3. Bad = {}
  <2>1. SUFFICES ASSUME Bad # {} PROVE FALSE
    OBVIOUS
  <2>2. PICK k \in Bad : \A j \in Bad : k <= j
    <3>1. Bad \subseteq Nat
      OBVIOUS
    <3> HIDE DEF Bad
    <3> QED
      BY <2>1, <3>1, LeastNumber
  <2>3. k \in 0 .. n /\ P(k) # Multiple(k, x)
    OBVIOUS
  <2>4. k # 0
    BY <1>2, <2>3, MultipleStep
  <2>5. k \in 1 .. n /\ k - 1 \in 0 .. n /\ ~(k <= k - 1) /\ k - 1 \in Nat /\ (k - 1) + 1 = k
    BY <2>3, <2>4
  <2>6. P(k - 1) = Multiple(k - 1, x)
    BY <2>2, <2>5
  <2>7. P(k) = plus(x, P(k - 1))
    BY <1>2, <2>5
  <2>8. Multiple(k, x) = plus(x, Multiple(k - 1, x))
    <3> DEFINE j == k - 1
    <3>1. j \in Nat /\ j + 1 = k
      BY <2>5
    <3> HIDE DEF j
    <3>2. Multiple(j + 1, x) = plus(x, Multiple(j, x))
      BY <3>1, MultipleStep
    <3> QED
      BY <3>1, <3>2 DEF j
  <2> QED
    BY <2>3, <2>6, <2>7, <2>8
<1>4. n \in 0 .. n
  OBVIOUS
<1>5. P(n) = Multiple(n, x)
  BY <1>3, <1>4
<1> QED
  BY <1>2, <1>5

(* at most one term that is not zero *)
LEMMA SingleTerm ==
  ASSUME NEW S, IsFiniteSet(S), NEW terms \in [S -> Fraction]
  PROVE  /\ \A x \in S : (\A y \in S : y # x => terms[y] = Zero) => Accumulate(terms) = terms[x]
         /\ (\A y \in S : terms[y] = Zero) => Accumulate(terms) = Zero
<1>1. Accumulate(terms) = Sums(terms)[S] /\ Sums(terms)[{}] = Zero
  BY SumsFacts
<1>2. S \in SUBSET S /\ {} \in SUBSET S /\ {} \subseteq S
  OBVIOUS
<1>3. ASSUME \A y \in S : terms[y] = Zero PROVE Accumulate(terms) = Zero
  <2>1. \A y \in S \ {} : terms[y] = Zero
    BY <1>3
  <2>2. Sums(terms)[S] = Sums(terms)[{}]
    BY <1>2, <2>1, SumsWithoutZeros
  <2> QED
    BY <1>1, <2>2
<1>4. ASSUME NEW x \in S, \A y \in S : y # x => terms[y] = Zero
      PROVE  Accumulate(terms) = terms[x]
  <2> DEFINE u == {x}
  <2>1. u \in SUBSET S /\ u \subseteq S /\ x \in u /\ u \ {x} = {}
    OBVIOUS
  <2>2. \A y \in S \ u : terms[y] = Zero
    BY <1>4
  <2> HIDE DEF u
  <2>3. Sums(terms)[S] = Sums(terms)[u]
    BY <1>2, <2>1, <2>2, SumsWithoutZeros
  <2>4. Sums(terms)[u] = plus(terms[x], Sums(terms)[u \ {x}])
    BY <2>1, SumsSplit
  <2>5. plus(terms[x], Zero) = terms[x]
    <3>1. terms[x] \in Fraction /\ Zero \in Fraction
      BY UnitFractions
    <3> QED
      BY <3>1, PlusLaws
  <2> QED
    BY <1>1, <2>1, <2>3, <2>4, <2>5
<1> QED
  BY <1>3, <1>4

LEMMA TimesCommutes ==
  ASSUME NEW x \in Fraction, NEW y \in Fraction
  PROVE  times(x, y) = times(y, x) /\ times(x, y) \in Fraction
<1>1. x \in Value /\ y \in Value
  BY FractionIsValue
<1>2. /\ times(x, y) \in Fraction /\ times(y, x) \in Fraction
      /\ Reduces(times(x, y), x[1] * y[1], x[2] * y[2])
      /\ Reduces(times(y, x), y[1] * x[1], y[2] * x[2])
  BY <1>1, TimesReduces
<1>3. x[1] \in Nat /\ x[2] \in Nat /\ y[1] \in Nat /\ y[2] \in Nat
  BY <1>1, ReducesSelf
<1> DEFINE p == x[1] * y[1]
           q == x[2] * y[2]
<1>4. p \in Nat /\ q \in Nat /\ y[1] * x[1] = p /\ y[2] * x[2] = q
  BY <1>3, SMT
<1>5. Reduces(times(x, y), p, q) /\ Reduces(times(y, x), p, q)
  BY <1>2, <1>4
<1> HIDE DEF p, q
<1> QED
  BY <1>2, <1>4, <1>5, SameRatio

(* positions counted from 1 or from 0 *)
LEMMA Shifted ==
  ASSUME NEW n \in Nat, NEW p \in [1 .. n -> Fraction], NEW q \in [0 .. n - 1 -> Fraction],
         \A i \in 1 .. n : p[i] = q[i - 1]
  PROVE  Accumulate(p) = Accumulate(q)
<1> DEFINE S == 1 .. n
           U == 0 .. n - 1
           f == [i \in S |-> i - 1]
<1>1. IsFiniteSet(S) /\ IsFiniteSet(U)
  BY FS_Interval
<1>2. \A i \in S : f[i] = i - 1 /\ i - 1 \in U
  OBVIOUS
<1>3. f \in [S -> U] /\ \A x, y \in S : f[x] = f[y] => x = y
  OBVIOUS
<1>4. \A y \in U : \E x \in S : f[x] = y
  <2> SUFFICES ASSUME NEW y \in U PROVE \E x \in S : f[x] = y
    OBVIOUS
  <2>1. y + 1 \in S /\ f[y + 1] = y
    OBVIOUS
  <2> QED
    BY <2>1
<1>5. \A x \in S : p[x] = q[f[x]]
  OBVIOUS
<1>6. p \in [S -> Fraction] /\ q \in [U -> Fraction]
  OBVIOUS
<1> HIDE DEF S, U, f
<1>7. Embeds(S, U, f, p, q)
  BY <1>1, <1>3, <1>4, <1>5, <1>6 DEF Embeds
<1> QED
  BY <1>7, EmbeddedSums

LEMMA Ones ==
  ASSUME NEW n \in Nat
  PROVE  Accumulate([v \in 0 .. n - 1 |-> One]) = <<n, 1>>
<1> DEFINE p == [i \in 1 .. n |-> One]
           q == [v \in 0 .. n - 1 |-> One]
<1>1. One \in Fraction
  BY UnitFractions DEF One
<1>2. Accumulate(p) = Multiple(n, One) /\ Multiple(n, One) = <<n, 1>>
  BY <1>1, Copies, MultipleStep
<1>3. p \in [1 .. n -> Fraction] /\ q \in [0 .. n - 1 -> Fraction]
      /\ \A i \in 1 .. n : p[i] = q[i - 1]
  BY <1>1
<1> HIDE DEF p, q
<1>4. Accumulate(p) = Accumulate(q)
  BY <1>3, Shifted
<1> QED
  BY <1>2, <1>4 DEF q

(* LoopIsGoogle for a column that is an element of a larger state *)
IsRound(S, size, list, h, col) ==
  /\ IsFiniteSet(S) /\ size \in Nat \ {0} /\ list \in [S -> [S -> Nat]]
  /\ h = calculateHyperLinkColumn(list) /\ col \in [S -> Fraction]

LEMMA RoundIsGoogle ==
  \A S, size, list, h, col : IsRound(S, size, list, h, col) => \A v \in S :
    /\ LoopRank(S, size, list, h, col, v) = GoogleRank(S, size, list, col, v)
    /\ LoopFactor(S, size, h, col) \in Fraction
    /\ GoogleRank(S, size, list, col, v) \in Fraction
<1> TAKE S, size, list, h, col
<1> HAVE IsRound(S, size, list, h, col)
<1> TAKE v \in S
<1>1. /\ IsFiniteSet(S) /\ size \in Nat \ {0} /\ list \in [S -> [S -> Nat]]
      /\ h = calculateHyperLinkColumn(list) /\ col \in [S -> Fraction]
  BY DEF IsRound
<1> QED
  BY <1>1, LoopIsGoogle

--------------------------------------------------------------------------------
(* The order of fractions, by what is to be added to the smaller one.         *)

(* How far two numbers are apart *)
Gap(p, q) == IF p < q THEN q - p ELSE p - q

LEMMA AtMostIs ==
  ASSUME NEW x \in Value, NEW y \in Value
  PROVE  /\ AtMost(x, y) = (x[1] * y[2] <= y[1] * x[2])
         /\ Reduces(absDiff(x, y), Gap(x[1] * y[2], y[1] * x[2]), x[2] * y[2])
<1> DEFINE g == gcd[<<x[2], y[2]>>]
<1>1. x[1] \in Nat /\ x[2] \in Nat \ {0} /\ y[1] \in Nat /\ y[2] \in Nat \ {0}
  BY DEF Value
<1>2. IsGcd(g, x[2], y[2])
  BY <1>1, GcdIsGcd
<1> HIDE DEF g
<1>3. g \in Nat \ {0}
  BY <1>2 DEF IsGcd
<1>4. PICK i, j \in Nat : x[2] = g * i /\ y[2] = g * j
  BY <1>2 DEF IsGcd, Divides
<1>5. x[2] \div g = i /\ y[2] \div g = j
  BY <1>3, <1>4, ExactQuotient
<1> DEFINE p == x[1] * j
           q == y[1] * i
           r == x[2] * j
<1>6. AtMost(x, y) = (p <= q) /\ absDiff(x, y) = frac(Gap(p, q), r)
  BY <1>5, Zenon DEF AtMost, absDiff, Common, Gap, g
<1>7. j \in Nat \ {0}
  <2>1. g * 0 = 0
    BY <1>3, SMT
  <2> QED
    BY <1>1, <1>4, <2>1
<1>8. p \in Nat /\ q \in Nat /\ r \in Nat \ {0}
  <2>1. p \in Nat /\ q \in Nat
    BY <1>1, SMT
  <2> QED
    BY <1>1, <1>7, <2>1, PositiveProduct
<1>9. g * p = x[1] * y[2] /\ g * q = y[1] * x[2] /\ g * r = x[2] * y[2]
  BY <1>1, <1>3, <1>4, SMT
<1> HIDE DEF p, q, r
<1>10. /\ Gap(p, q) \in Nat /\ (p <= q) = (g * p <= g * q)
       /\ g * Gap(p, q) = Gap(g * p, g * q)
  BY <1>3, <1>8, SMT DEF Gap
<1>11. frac(Gap(p, q), r) \in Value /\ Reduces(frac(Gap(p, q), r), Gap(p, q), r)
  BY <1>8, <1>10, FracReduces DEF Fraction
<1>12. Reduces(frac(Gap(p, q), r), g * Gap(p, q), g * r)
  BY <1>3, <1>8, <1>10, <1>11, ReducesTrans
<1> QED
  BY <1>6, <1>9, <1>10, <1>12

(* A fraction of a given value *)
LEMMA PlusCancels ==
  ASSUME NEW x \in Fraction, NEW d \in Fraction, NEW e \in Fraction, plus(x, d) = plus(x, e)
  PROVE  d = e
<1>1. /\ x[1] \in Nat /\ x[2] \in Nat \ {0} /\ d[1] \in Nat /\ d[2] \in Nat \ {0}
      /\ e[1] \in Nat /\ e[2] \in Nat \ {0}
  BY DEF Fraction, Value
<1> DEFINE r == plus(x, d)
<1>2. /\ r \in Fraction /\ Reduces(r, x[1] * d[2] + d[1] * x[2], x[2] * d[2])
      /\ Reduces(r, x[1] * e[2] + e[1] * x[2], x[2] * e[2])
  BY PlusReduces, FractionIsValue
<1> HIDE DEF r
<1>3. r[1] \in Nat /\ r[2] \in Nat \ {0}
  BY <1>2 DEF Fraction, Value
<1>4. PICK k \in Nat \ {0} : x[1] * d[2] + d[1] * x[2] = k * r[1] /\ x[2] * d[2] = k * r[2]
  BY <1>2 DEF Reduces
<1>5. PICK l \in Nat \ {0} : x[1] * e[2] + e[1] * x[2] = l * r[1] /\ x[2] * e[2] = l * r[2]
  BY <1>2 DEF Reduces
<1> DEFINE x1 == x[1]
           x2 == x[2]
           d1 == d[1]
           d2 == d[2]
           e1 == e[1]
           e2 == e[2]
           r1 == r[1]
           r2 == r[2]
<1>6. (x1 * d2 + d1 * x2) * (x2 * e2) = (x1 * e2 + e1 * x2) * (x2 * d2)
  <2>1. (k * r1) * (l * r2) = (l * r1) * (k * r2)
    BY <1>3, SMT
  <2> QED
    BY <1>4, <1>5, <2>1
<1>7. (x2 * x2) * (d1 * e2) = (x2 * x2) * (e1 * d2)
  <2> HIDE DEF x1, x2, d1, d2, e1, e2
  <2>1. x1 \in Int /\ x2 \in Int /\ d1 \in Int /\ d2 \in Int /\ e1 \in Int /\ e2 \in Int
    BY <1>1 DEF x1, x2, d1, d2, e1, e2
  <2>2. (x1 * d2 + d1 * x2) * (x2 * e2) = x1 * d2 * x2 * e2 + (x2 * x2) * (d1 * e2)
    BY <2>1, SMT
  <2>3. (x1 * e2 + e1 * x2) * (x2 * d2) = x1 * d2 * x2 * e2 + (x2 * x2) * (e1 * d2)
    BY <2>1, SMT
  <2> QED
    BY <1>6, <2>1, <2>2, <2>3, SMT
<1>8. x2 * x2 \in Nat \ {0} /\ d1 * e2 \in Int /\ e1 * d2 \in Int
  BY <1>1, PositiveProduct
<1>9. d1 * e2 = e1 * d2
  <2> HIDE DEF x2, d1, d2, e1, e2
  <2> QED
    BY <1>7, <1>8, Cancel
<1> QED
  BY <1>9, LowestTermsUnique

LEMMA Remainder ==
  ASSUME NEW x \in Fraction, NEW y \in Fraction, NEW d \in Fraction,
         x[1] * y[2] <= y[1] * x[2], Reduces(d, y[1] * x[2] - x[1] * y[2], x[2] * y[2])
  PROVE  plus(x, d) = y
<1> DEFINE x1 == x[1]
           x2 == x[2]
           y1 == y[1]
           y2 == y[2]
           p == y1 * x2 - x1 * y2
           q == x2 * y2
<1>1. x1 \in Nat /\ x2 \in Nat \ {0} /\ y1 \in Nat /\ y2 \in Nat \ {0}
  BY DEF Fraction, Value
<1>2. x \in Value /\ d \in Value /\ Reduces(x, x1, x2) /\ Reduces(y, y1, y2) /\ Reduces(d, p, q)
  BY ReducesSelf, FractionIsValue
<1>3. x1 * y2 <= y1 * x2
  OBVIOUS
<1> HIDE DEF x1, x2, y1, y2
<1>4. p \in Nat /\ q \in Nat
  BY <1>1, <1>3, SMT
<1> DEFINE t == x1 * q + p * x2
           u == x2 * q
<1>5. t \in Nat /\ u \in Nat
  BY <1>1, <1>4, SMT
<1>6. t * y2 = y1 * u
  BY <1>1, SMT
<1> HIDE DEF p, q
<1>7. Reduces(plus(x, d), t, u) /\ plus(x, d) \in Fraction
  BY <1>1, <1>2, <1>4, PlusOf, PlusReduces
<1> HIDE DEF t, u
<1> QED
  BY <1>1, <1>2, <1>5, <1>6, <1>7, SameRatio

(* The difference of two values is what the smaller one lacks. *)
LEMMA AbsDiffIsRemainder ==
  ASSUME NEW x \in Fraction, NEW y \in Fraction
  PROVE  /\ absDiff(x, y) \in Fraction
         /\ plus(x, absDiff(x, y)) = y \/ plus(y, absDiff(x, y)) = x
         /\ AtMost(x, y) => plus(x, absDiff(x, y)) = y
<1> DEFINE d == absDiff(x, y)
           a == x[1] * y[2]
           b == y[1] * x[2]
           c == x[2] * y[2]
<1>1. /\ d \in Fraction /\ Reduces(d, Gap(a, b), c) /\ AtMost(x, y) = (a <= b)
  BY AbsDiffFraction, AtMostIs, FractionIsValue
<1>2. a \in Nat /\ b \in Nat /\ y[2] * x[2] = c
  <2>1. x[1] \in Nat /\ x[2] \in Nat /\ y[1] \in Nat /\ y[2] \in Nat
    BY DEF Fraction, Value
  <2> QED
    BY <2>1, SMT
<1>3. (a <= b => Gap(a, b) = b - a) /\ (~ (a <= b) => Gap(a, b) = a - b /\ b <= a)
  BY <1>2, SMT DEF Gap
<1> HIDE DEF d
<1>4. CASE a <= b
  <2>1. Reduces(d, b - a, c)
    BY <1>1, <1>3, <1>4
  <2>2. plus(x, d) = y
    BY <1>1, <1>4, <2>1, Remainder
  <2> QED
    BY <1>1, <2>2 DEF d
<1>5. CASE ~ (a <= b)
  <2>1. Reduces(d, a - b, y[2] * x[2]) /\ b <= a
    BY <1>1, <1>2, <1>3, <1>5
  <2>2. plus(y, d) = x
    BY <1>1, <2>1, Remainder
  <2> QED
    BY <1>1, <1>5, <2>2 DEF d
<1> QED
  BY <1>4, <1>5

LEMMA AtMostIsPlus ==
  ASSUME NEW x \in Fraction, NEW y \in Fraction
  PROVE  /\ AtMost(x, y) => \E d \in Fraction : plus(x, d) = y
         /\ \A d \in Fraction : plus(x, d) = y => AtMost(x, y)
<1>1. AtMost(x, y) => \E d \in Fraction : plus(x, d) = y
  BY AbsDiffIsRemainder
<1>2. ASSUME NEW d \in Fraction, plus(x, d) = y
      PROVE  AtMost(x, y)
  <2> DEFINE x1 == x[1]
             x2 == x[2]
             y1 == y[1]
             y2 == y[2]
             d1 == d[1]
             d2 == d[2]
  <2>1. /\ x1 \in Nat /\ x2 \in Nat \ {0} /\ y1 \in Nat /\ y2 \in Nat \ {0}
        /\ d1 \in Nat /\ d2 \in Nat \ {0}
    BY DEF Fraction, Value
  <2>2. Reduces(y, x1 * d2 + d1 * x2, x2 * d2)
    BY <1>2, PlusReduces, FractionIsValue
  <2>3. PICK k \in Nat \ {0} : x1 * d2 + d1 * x2 = k * y1 /\ x2 * d2 = k * y2
    BY <2>2 DEF Reduces
  <2>4. AtMost(x, y) = (x1 * y2 <= y1 * x2)
    BY AtMostIs, FractionIsValue
  <2> HIDE DEF x1, x2, y1, y2, d1, d2
  <2>5. k * (x1 * y2) <= k * (y1 * x2)
    <3> DEFINE m == x1 * (x2 * d2)
               n == d1 * (x2 * x2)
    <3>1. k * (x1 * y2) = m /\ k * (y1 * x2) = (x1 * d2 + d1 * x2) * x2
      BY <2>1, <2>3, SMT
    <3>2. (x1 * d2 + d1 * x2) * x2 = m + n
      BY <2>1, SMT
    <3>3. n >= 0 /\ n \in Int /\ m \in Int
      BY <2>1, SMT
    <3> HIDE DEF m, n
    <3>4. m <= m + n
      BY <3>3, SMT
    <3> QED
      BY <3>1, <3>2, <3>4
  <2> DEFINE a == x1 * y2
             b == y1 * x2
  <2>6. a \in Int /\ b \in Int
    BY <2>1, SMT
  <2>7. k * a <= k * b
    BY <2>5
  <2> HIDE DEF a, b
  <2>8. a <= b
    <3>1. SUFFICES ASSUME b < a PROVE FALSE
      BY <2>6, SMT
    <3>2. k * (a - b - 1) >= 0
      BY <2>6, <3>1, SMT
    <3> DEFINE m == k * a
               n == k * b
    <3>3. k * (a - b - 1) = m - n - k
      BY <2>6, SMT
    <3>4. m \in Int /\ n \in Int /\ m <= n
      BY <2>6, <2>7, SMT
    <3> HIDE DEF m, n
    <3>5. m - n - k >= 0
      BY <3>2, <3>3
    <3> QED
      BY <3>4, <3>5, SMT
  <2> QED
    BY <2>4, <2>8 DEF a, b
<1> QED
  BY <1>1, <1>2

LEMMA AtMostLaws ==
  ASSUME NEW x \in Fraction, NEW y \in Fraction
  PROVE  /\ AtMost(x, x) /\ AtMost(x, plus(x, y))
         /\ \A z \in Fraction : AtMost(x, y) /\ AtMost(y, z) => AtMost(x, z)
         /\ \A w, z \in Fraction :
              AtMost(x, y) /\ AtMost(w, z) => AtMost(plus(x, w), plus(y, z))
         /\ \A z \in Fraction : AtMost(x, y) => AtMost(times(z, x), times(z, y))
<1>1. \A a, b \in Fraction : plus(a, b) \in Fraction /\ times(a, b) \in Fraction
  BY PlusReduces, TimesReduces, FractionIsValue
<1>2. Zero \in Fraction /\ plus(x, Zero) = x
  BY PlusLaws, UnitFractions
<1>3. AtMost(x, x) /\ AtMost(x, plus(x, y))
  BY <1>1, <1>2, AtMostIsPlus
<1>4. ASSUME NEW z \in Fraction, AtMost(x, y), AtMost(y, z)
      PROVE  AtMost(x, z)
  <2>1. PICK d \in Fraction : plus(x, d) = y
    BY <1>4, AtMostIsPlus
  <2>2. PICK e \in Fraction : plus(y, e) = z
    BY <1>4, AtMostIsPlus
  <2>3. plus(x, plus(d, e)) = z /\ plus(d, e) \in Fraction
    BY <1>1, <2>1, <2>2, PlusLaws
  <2> QED
    BY <2>3, AtMostIsPlus
<1>5. ASSUME NEW w \in Fraction, NEW z \in Fraction, AtMost(x, y), AtMost(w, z)
      PROVE  AtMost(plus(x, w), plus(y, z))
  <2>1. PICK d \in Fraction : plus(x, d) = y
    BY <1>5, AtMostIsPlus
  <2>2. PICK e \in Fraction : plus(w, e) = z
    BY <1>5, AtMostIsPlus
  <2>3. plus(plus(x, w), plus(d, e)) = plus(plus(x, d), plus(w, e))
    BY Interchange, FractionIsValue
  <2> QED
    BY <1>1, <2>1, <2>2, <2>3, AtMostIsPlus
<1>6. ASSUME NEW z \in Fraction, AtMost(x, y)
      PROVE  AtMost(times(z, x), times(z, y))
  <2>1. PICK d \in Fraction : plus(x, d) = y
    BY <1>6, AtMostIsPlus
  <2>2. times(z, y) = plus(times(z, x), times(z, d))
    BY <2>1, Distributive
  <2> QED
    BY <1>1, <2>2, AtMostIsPlus
<1> QED
  BY <1>3, <1>4, <1>5, <1>6

(* The difference is the smallest number that takes each of two values to at  *)
(* least the other one.                                                       *)
LEMMA AbsDiffLaws ==
  ASSUME NEW x \in Fraction, NEW y \in Fraction
  PROVE  /\ AtMost(x, plus(y, absDiff(x, y))) /\ AtMost(y, plus(x, absDiff(x, y)))
         /\ \A e \in Fraction :
              AtMost(x, plus(y, e)) /\ AtMost(y, plus(x, e)) => AtMost(absDiff(x, y), e)
<1> DEFINE d == absDiff(x, y)
<1>1. d \in Fraction /\ (plus(x, d) = y \/ plus(y, d) = x)
  BY AbsDiffIsRemainder
<1> HIDE DEF d
<1>2. \A a, b \in Fraction : plus(a, b) \in Fraction
  BY PlusReduces, FractionIsValue
<1>3. ASSUME NEW a \in Fraction, NEW b \in Fraction, plus(a, d) = b
      PROVE  /\ AtMost(a, plus(b, d)) /\ AtMost(b, plus(a, d))
             /\ \A e \in Fraction : AtMost(b, plus(a, e)) => AtMost(d, e)
  <2>1. AtMost(b, b) /\ AtMost(a, b) /\ AtMost(b, plus(b, d))
    BY <1>1, <1>3, AtMostLaws, AtMostIsPlus
  <2>2. AtMost(a, plus(b, d))
    BY <1>1, <1>2, <2>1, AtMostLaws
  <2>3. ASSUME NEW e \in Fraction, AtMost(b, plus(a, e))
        PROVE  AtMost(d, e)
    <3>1. PICK f \in Fraction : plus(b, f) = plus(a, e)
      BY <1>2, <2>3, AtMostIsPlus
    <3>2. plus(a, plus(d, f)) = plus(a, e)
      BY <1>1, <1>3, <3>1, PlusLaws
    <3>3. plus(d, f) = e
      BY <1>1, <1>2, <3>2, PlusCancels
    <3> QED
      BY <1>1, <3>3, AtMostIsPlus
  <2> QED
    BY <1>3, <2>1, <2>2, <2>3
<1>4. CASE plus(x, d) = y
  BY <1>3, <1>4 DEF d
<1>5. CASE plus(y, d) = x
  BY <1>3, <1>5 DEF d
<1> QED
  BY <1>1, <1>4, <1>5

--------------------------------------------------------------------------------
(* Sums of sums, of multiples, and of larger terms                            *)

LEMMA LargerSum ==
  ASSUME NEW S, IsFiniteSet(S), NEW f \in [S -> Fraction], NEW g \in [S -> Fraction],
         \A x \in S : AtMost(f[x], g[x])
  PROVE  AtMost(Accumulate(f), Accumulate(g))
<1> DEFINE d == [x \in S |-> CHOOSE e \in Fraction : plus(f[x], e) = g[x]]
<1>1. \A x \in S : d[x] \in Fraction /\ plus(f[x], d[x]) = g[x]
  BY AtMostIsPlus
<1>2. d \in [S -> Fraction]
  BY <1>1
<1>3. \A x \in S : g[x] = plus(f[x], d[x])
  BY <1>1
<1> HIDE DEF d
<1>4. Accumulate(g) = plus(Accumulate(f), Accumulate(d))
  BY <1>2, <1>3, AccumulatePlus
<1>5. Accumulate(f) \in Fraction /\ Accumulate(g) \in Fraction /\ Accumulate(d) \in Fraction
  BY <1>2, AccumulateFraction, FractionIsValue
<1> QED
  BY <1>4, <1>5, AtMostIsPlus

LEMMA OneLaws ==
  ASSUME NEW x \in Fraction
  PROVE  One \in Fraction /\ times(One, x) = x /\ times(x, One) = x
<1>1. One \in Fraction
  BY UnitFractions DEF One
<1>2. x[1] \in Nat /\ x[2] \in Nat \ {0} /\ Reduces(x, x[1], x[2])
  BY ReducesSelf, FractionIsValue
<1>3. times(One, x) \in Fraction /\ Reduces(times(One, x), 1 * x[1], 1 * x[2])
  BY <1>1, TimesReduces, FractionIsValue DEF One
<1>4. 1 * x[1] = x[1] /\ 1 * x[2] = x[2]
  BY <1>2, SMT
<1>5. times(One, x) = x
  BY <1>2, <1>3, <1>4, SameRatio
<1> QED
  BY <1>1, <1>5, TimesCommutes

LEMMA ScaledSum ==
  ASSUME NEW S, IsFiniteSet(S), NEW b \in Fraction,
         NEW f \in [S -> Fraction], NEW h \in [S -> Fraction],
         \A x \in S : h[x] = times(f[x], b)
  PROVE  Accumulate(h) = times(Accumulate(f), b)
<1> DEFINE g == [x \in S |-> Zero]
<1>1. One \in Fraction /\ Zero \in Fraction
  BY UnitFractions DEF One
<1>2. g \in [S -> Fraction] /\ \A x \in S : g[x] = Zero
  BY <1>1
<1> HIDE DEF g
<1>3. Accumulate(g) = Zero
  BY <1>2, SingleTerm
<1>4. \A x \in Fraction : times(x, b) \in Fraction /\ times(One, plus(times(x, b), Zero)) = times(x, b)
  BY <1>1, TimesCommutes, PlusLaws, OneLaws
<1>5. Termwise(S, One, b, f, g, h)
  BY <1>2, <1>4 DEF Termwise
<1>6. times(One, plus(times(Accumulate(f), b), Accumulate(g))) = Accumulate(h)
  BY <1>1, <1>2, <1>5, LinearSum
<1>7. Accumulate(f) \in Fraction
  BY AccumulateFraction, FractionIsValue
<1> QED
  BY <1>3, <1>4, <1>6, <1>7

Scales(S, b, f, h) ==
  /\ IsFiniteSet(S) /\ b \in Fraction /\ f \in [S -> Fraction] /\ h \in [S -> Fraction]
  /\ \A x \in S : h[x] = times(f[x], b)

LEMMA ScaledSums ==
  \A S, b, f, h : Scales(S, b, f, h) => Accumulate(h) = times(Accumulate(f), b)
<1> TAKE S, b, f, h
<1> HAVE Scales(S, b, f, h)
<1>1. /\ IsFiniteSet(S) /\ b \in Fraction /\ f \in [S -> Fraction] /\ h \in [S -> Fraction]
      /\ \A x \in S : h[x] = times(f[x], b)
  BY DEF Scales
<1> QED
  BY <1>1, ScaledSum

(* A matrix m is a function of its rows. *)
IsMatrix(S, R, m) == IsFiniteSet(S) /\ IsFiniteSet(R) /\ m \in [S -> [R -> Fraction]]
RowSums(S, m)     == [u \in S |-> Accumulate(m[u])]
Column(S, m, v)   == [u \in S |-> m[u][v]]
ColumnSums(S, R, m) == [v \in R |-> Accumulate(Column(S, m, v))]

(* The rows' sums add up to what the columns' sums do. *)
LEMMA ExchangedSums ==
  ASSUME NEW S, NEW R, NEW m, IsMatrix(S, R, m)
  PROVE  /\ RowSums(S, m) \in [S -> Fraction] /\ ColumnSums(S, R, m) \in [R -> Fraction]
         /\ Accumulate(RowSums(S, m)) = Accumulate(ColumnSums(S, R, m))
<1> DEFINE f == RowSums(S, m)
           col == [v \in R |-> Column(S, m, v)]
           part(s) == [v \in R |-> Sums(col[v])[s]]
           Bad == {s \in SUBSET S : Sums(f)[s] # Accumulate(part(s))}
<1>1. IsFiniteSet(S) /\ IsFiniteSet(R) /\ m \in [S -> [R -> Fraction]]
  BY DEF IsMatrix
<1>2. f \in [S -> Fraction] /\ \A u \in S : m[u] \in [R -> Fraction] /\ f[u] = Accumulate(m[u])
  <2>1. \A u \in S : m[u] \in [R -> Fraction] /\ m[u] \in [R -> Value]
    BY <1>1, FractionIsValue
  <2>2. \A u \in S : Accumulate(m[u]) \in Fraction
    BY <1>1, <2>1, AccumulateFraction
  <2> QED
    BY <2>1, <2>2 DEF RowSums
<1>3. \A v \in R : /\ col[v] \in [S -> Fraction] /\ col[v] = Column(S, m, v)
                   /\ \A u \in S : col[v][u] = m[u][v]
  BY <1>1 DEF Column
<1> HIDE DEF f, col
<1>4. \A s \in SUBSET S : part(s) \in [R -> Fraction] /\ \A v \in R : part(s)[v] = Sums(col[v])[s]
  BY <1>1, <1>3, SumsFacts
<1>5. Bad = {}
  <2>1. SUFFICES ASSUME Bad # {} PROVE FALSE
    OBVIOUS
  <2>2. PICK s \in Bad : \A t \in Bad : t \subseteq s => t = s
    <3>1. Bad \subseteq SUBSET S
      OBVIOUS
    <3> HIDE DEF Bad
    <3> QED
      BY <1>1, <2>1, <3>1, MinimalSet
  <2>3. s \in SUBSET S /\ Sums(f)[s] # Accumulate(part(s))
    OBVIOUS
  <2>4. s # {}
    <3>1. Sums(f)[{}] = Zero /\ \A v \in R : Sums(col[v])[{}] = Zero
      BY <1>1, <1>2, <1>3, SumsFacts
    <3>2. part({}) \in [R -> Fraction] /\ \A v \in R : part({})[v] = Zero
      BY <1>4, <3>1
    <3> HIDE DEF part
    <3>3. Accumulate(part({})) = Zero
      BY <1>1, <3>2, SingleTerm
    <3> QED
      BY <2>3, <3>1, <3>3
  <2>5. PICK x \in s : TRUE
    BY <2>4
  <2> DEFINE r == s \ {x}
  <2>6. r \in SUBSET S /\ r \subseteq s /\ r # s /\ x \in S
    BY <2>3, <2>5
  <2>7. Sums(f)[r] = Accumulate(part(r))
    <3> HIDE DEF r, part
    <3> QED
      BY <2>2, <2>6
  <2>8. /\ Sums(f)[s] = plus(f[x], Sums(f)[r])
        /\ \A v \in R : Sums(col[v])[s] = plus(col[v][x], Sums(col[v])[r])
    <3>1. Splits(S, f) /\ \A v \in R : Splits(S, col[v])
      BY <1>1, <1>2, <1>3, SumsSplitAll
    <3> QED
      BY <2>3, <3>1 DEF Splits
  <2>9. \A v \in R : part(s)[v] = plus(m[x][v], part(r)[v])
    BY <1>3, <2>6, <2>8
  <2>10. part(s) \in [R -> Fraction] /\ part(r) \in [R -> Fraction] /\ m[x] \in [R -> Fraction]
    BY <1>2, <1>4, <2>3, <2>6
  <2> HIDE DEF part, r
  <2> DEFINE p == part(s)
             q == part(r)
  <2>11. Accumulate(p) = plus(Accumulate(m[x]), Accumulate(q))
    <3>1. /\ p \in [R -> Fraction] /\ q \in [R -> Fraction]
          /\ \A v \in R : p[v] = plus(m[x][v], q[v])
      BY <2>9, <2>10
    <3> HIDE DEF p, q
    <3> QED
      BY <1>1, <2>10, <3>1, AccumulatePlus
  <2> QED
    BY <1>2, <2>3, <2>6, <2>7, <2>8, <2>11
<1>6. S \in SUBSET S
  OBVIOUS
<1>7. Sums(f)[S] = Accumulate(part(S))
  BY <1>5, <1>6
<1>8. part(S) = ColumnSums(S, R, m)
  <2>1. \A v \in R : Sums(col[v])[S] = Accumulate(Column(S, m, v))
    BY <1>1, <1>3, SumsFacts
  <2> QED
    BY <2>1 DEF ColumnSums
<1>9. Accumulate(f) = Sums(f)[S]
  BY <1>1, <1>2, SumsFacts
<1> HIDE DEF part
<1> QED
  BY <1>2, <1>4, <1>6, <1>7, <1>8, <1>9 DEF f

LEMMA WholePlus ==
  ASSUME NEW a \in Nat, NEW b \in Nat
  PROVE  plus(<<a, 1>>, <<b, 1>>) = <<a + b, 1>>
<1> DEFINE x == <<a, 1>>
           y == <<b, 1>>
           z == <<a + b, 1>>
<1>1. x \in Fraction /\ y \in Fraction /\ z \in Fraction
  BY UnitFractions
<1>2. Reduces(plus(x, y), a * 1 + b * 1, 1 * 1) /\ plus(x, y) \in Fraction
  BY <1>1, PlusReduces, FractionIsValue
<1>3. Reduces(z, a + b, 1)
  <2>1. Reduces(z, z[1], z[2])
    BY <1>1, ReducesSelf, FractionIsValue
  <2> QED
    BY <2>1
<1>4. a * 1 + b * 1 = a + b /\ 1 * 1 = 1 /\ a + b \in Nat
  BY SMT
<1>5. Reduces(plus(x, y), a + b, 1)
  BY <1>2, <1>4
<1> HIDE DEF x, y, z
<1>6. plus(x, y) = z
  BY <1>1, <1>2, <1>3, <1>4, <1>5, SameRatio
<1> QED
  BY <1>6 DEF x, y, z

(* The links of a vertex, counted *)
LEMMA CountSum ==
  ASSUME NEW S, IsFiniteSet(S), NEW list \in [S -> Nat],
         NEW terms \in [S -> Fraction], \A v \in S : terms[v] = <<list[v], 1>>
  PROVE  Accumulate(terms) = <<OutDegree(list), 1>> /\ OutDegree(list) \in Nat
<1>1. /\ Accumulate(terms) = Sums(terms)[S] /\ Sums(terms)[{}] = Zero
      /\ \A s \in SUBSET S : s # {} =>
           Sums(terms)[s] = plus(terms[Pick(s)], Sums(terms)[s \ {Pick(s)}])
  BY SumsFacts
<1>2. \A s \in SUBSET S :
        /\ Counts(list)[s] \in Nat
        /\ s = {} => Counts(list)[s] = 0
        /\ s # {} => /\ Pick(s) \in s
                     /\ Counts(list)[s] = list[Pick(s)] + Counts(list)[s \ {Pick(s)}]
  BY CountsUnfold
<1> DEFINE Bad == {s \in SUBSET S : Sums(terms)[s] # <<Counts(list)[s], 1>>}
<1>3. Bad = {}
  <2>1. SUFFICES ASSUME Bad # {} PROVE FALSE
    OBVIOUS
  <2>2. PICK s \in Bad : \A t \in Bad : t \subseteq s => t = s
    <3>1. Bad \subseteq SUBSET S
      OBVIOUS
    <3> HIDE DEF Bad
    <3> QED
      BY <2>1, <3>1, MinimalSet
  <2>3. s \in SUBSET S /\ Sums(terms)[s] # <<Counts(list)[s], 1>>
    OBVIOUS
  <2>4. s # {}
    <3>1. Counts(list)[{}] = 0
      BY <1>2
    <3> QED
      BY <1>1, <2>3, <3>1 DEF Zero
  <2> DEFINE x == Pick(s)
             r == s \ {x}
  <2>5. /\ x \in s /\ Counts(list)[s] = list[x] + Counts(list)[r]
        /\ Sums(terms)[s] = plus(terms[x], Sums(terms)[r])
    BY <1>1, <1>2, <2>3, <2>4
  <2>6. r \in SUBSET S /\ r \subseteq s /\ r # s /\ x \in S
    BY <2>3, <2>5
  <2> HIDE DEF r, x
  <2>7. Sums(terms)[r] = <<Counts(list)[r], 1>>
    BY <2>2, <2>6
  <2>8. Counts(list)[r] \in Nat /\ list[x] \in Nat
    BY <1>2, <2>6
  <2>9. Sums(terms)[s] = <<list[x] + Counts(list)[r], 1>>
    BY <2>5, <2>6, <2>7, <2>8, WholePlus
  <2> QED
    BY <2>3, <2>5, <2>9
<1>4. S \in SUBSET S
  OBVIOUS
<1>5. Sums(terms)[S] = <<Counts(list)[S], 1>> /\ Counts(list)[S] \in Nat
  BY <1>3, <1>4, <1>2
<1>6. DOMAIN list = S
  OBVIOUS
<1> QED
  BY <1>1, <1>5, <1>6, OutDegreeIsCount

--------------------------------------------------------------------------------
(* A column of the Google matrix sums to one, of which ALPHA is the links'.   *)

LinkPart(n, d, size) ==
  times(<<IF d = 0 THEN 1 ELSE n, 1>>, times(ALPHA, <<1, IF d = 0 THEN size ELSE d>>))
JumpPart(size) == times(frac(B - A, B), <<1, size>>)

LEMMA EntryParts ==
  ASSUME NEW n \in Nat, NEW d \in Nat, NEW size \in Nat \ {0}
  PROVE  /\ LinkPart(n, d, size) \in Fraction /\ JumpPart(size) \in Fraction
         /\ GoogleEntry(n, d, size) = plus(LinkPart(n, d, size), JumpPart(size))
<1> DEFINE p == IF d = 0 THEN 1 ELSE n
           q == IF d = 0 THEN size ELSE d
           x == <<p, 1>>
           y == <<1, q>>
           z == <<1, size>>
           c == frac(B - A, B)
<1>1. p \in Nat /\ q \in Nat \ {0}
  OBVIOUS
<1> DEFINE D == B - A
<1>2. A \in Nat /\ B \in Nat /\ D \in Nat /\ ALPHA \in Fraction /\ c \in Fraction
      /\ Reduces(ALPHA, A, B) /\ Reduces(c, D, B)
  BY Constants
<1>3. x \in Fraction /\ y \in Fraction /\ z \in Fraction
  BY <1>1, UnitFractions
<1>4. Reduces(x, p, 1) /\ Reduces(y, 1, q) /\ Reduces(z, 1, size)
  <2>1. Reduces(x, x[1], x[2]) /\ Reduces(y, y[1], y[2]) /\ Reduces(z, z[1], z[2])
    BY <1>3, ReducesSelf, FractionIsValue
  <2> QED
    BY <2>1
<1>5. /\ LinkPart(n, d, size) = times(x, times(ALPHA, y)) /\ JumpPart(size) = times(c, z)
      /\ Reduces(GoogleEntry(n, d, size), (A * p) * (B * size) + D * (B * q), (B * q) * (B * size))
      /\ GoogleEntry(n, d, size) \in Fraction
  BY GoogleEntryReduces DEF LinkPart, JumpPart
<1> HIDE DEF p, q, x, y, z, c, D
<1>6. /\ times(ALPHA, y) \in Fraction /\ times(c, z) \in Fraction
      /\ Reduces(times(ALPHA, y), A * 1, B * q) /\ Reduces(times(c, z), D * 1, B * size)
  BY <1>1, <1>2, <1>3, <1>4, TimesOf, TimesCommutes, FractionIsValue
<1> DEFINE l == times(x, times(ALPHA, y))
           j == times(c, z)
           pa == p * (A * 1)
           qa == 1 * (B * q)
           pj == D * 1
           qj == B * size
<1>7. /\ A * 1 \in Nat /\ B * q \in Nat /\ pa \in Nat /\ qa \in Nat /\ pj \in Nat /\ qj \in Nat
  BY <1>1, <1>2, SMT
<1>8. l \in Fraction /\ Reduces(l, pa, qa)
  BY <1>1, <1>3, <1>4, <1>6, <1>7, TimesOf, TimesCommutes, FractionIsValue
<1>9. j \in Fraction /\ Reduces(j, pj, qj)
  BY <1>6
<1> HIDE DEF l, j
<1> DEFINE t == pa * qj + pj * qa
           w == qa * qj
<1>10. t = (A * p) * (B * size) + D * (B * q) /\ w = (B * q) * (B * size) /\ t \in Nat /\ w \in Nat
  BY <1>1, <1>2, SMT
<1> HIDE DEF pa, qa, pj, qj
<1>11. Reduces(plus(l, j), t, w) /\ plus(l, j) \in Fraction
  BY <1>7, <1>8, <1>9, PlusOf, PlusReduces, FractionIsValue
<1> HIDE DEF t, w
<1>12. Reduces(GoogleEntry(n, d, size), t, w)
  BY <1>5, <1>10
<1>13. GoogleEntry(n, d, size) = plus(l, j)
  BY <1>5, <1>10, <1>11, <1>12, SameRatio
<1> QED
  BY <1>5, <1>8, <1>9, <1>13 DEF l, j

LEMMA TimesBack ==
  ASSUME NEW q \in Nat \ {0}, NEW a \in Fraction
  PROVE  times(a, <<1, q>>) \in Fraction /\ times(<<q, 1>>, times(a, <<1, q>>)) = a
<1> DEFINE x == <<q, 1>>
           y == <<1, q>>
           a1 == a[1]
           a2 == a[2]
<1>1. x \in Fraction /\ y \in Fraction /\ Reduces(x, q, 1) /\ Reduces(y, 1, q)
  <2>1. x \in Fraction /\ y \in Fraction
    BY UnitFractions
  <2>2. Reduces(x, x[1], x[2]) /\ Reduces(y, y[1], y[2])
    BY <2>1, ReducesSelf, FractionIsValue
  <2> QED
    BY <2>1, <2>2
<1>2. a1 \in Nat /\ a2 \in Nat \ {0} /\ Reduces(a, a1, a2)
  BY ReducesSelf, FractionIsValue
<1> HIDE DEF x, y, a1, a2
<1> DEFINE z == times(a, y)
           p == a1 * 1
           r == a2 * q
           t == q * p
           u == 1 * r
<1>3. z \in Fraction /\ Reduces(z, p, r)
  BY <1>1, <1>2, TimesOf, TimesCommutes, FractionIsValue
<1>4. p \in Nat /\ r \in Nat /\ t \in Nat /\ u \in Nat /\ t * a2 = a1 * u
  BY <1>2, SMT
<1> HIDE DEF z, p, r
<1>5. times(x, z) \in Fraction /\ Reduces(times(x, z), t, u)
  BY <1>1, <1>3, <1>4, TimesOf, TimesCommutes, FractionIsValue
<1> HIDE DEF t, u
<1>6. times(x, z) = a
  BY <1>2, <1>4, <1>5, SameRatio
<1> QED
  BY <1>3, <1>6 DEF x, y, z

(* size is the number of vertices, as the arithmetic has it *)
Sized(S, size) ==
  IsFiniteSet(S) /\ size \in Nat \ {0} /\ Accumulate([v \in S |-> One]) = <<size, 1>>

LEMMA PartSums ==
  ASSUME NEW S, NEW size, Sized(S, size), NEW list \in [S -> Nat]
  PROVE  /\ Accumulate([v \in S |-> LinkPart(list[v], OutDegree(list), size)]) = ALPHA
         /\ Accumulate([v \in S |-> JumpPart(size)]) = frac(B - A, B)
<1> DEFINE d == OutDegree(list)
           q == IF d = 0 THEN size ELSE d
           f == [v \in S |-> <<IF d = 0 THEN 1 ELSE list[v], 1>>]
           g == [v \in S |-> One]
           c == frac(B - A, B)
           l == [v \in S |-> LinkPart(list[v], d, size)]
           j == [v \in S |-> JumpPart(size)]
           a == times(ALPHA, <<1, q>>)
           b == times(c, <<1, size>>)
<1>1. IsFiniteSet(S) /\ size \in Nat \ {0} /\ Accumulate(g) = <<size, 1>>
  BY DEF Sized
<1>2. d \in Nat /\ ALPHA \in Fraction /\ c \in Fraction
  BY <1>1, OutDegreeType, Constants
<1>3. One \in Fraction /\ One = <<1, 1>>
  BY UnitFractions DEF One
<1>4. f \in [S -> Fraction] /\ g \in [S -> Fraction]
  <2>1. \A v \in S : (IF d = 0 THEN 1 ELSE list[v]) \in Nat
    OBVIOUS
  <2> QED
    BY <1>3, <2>1, UnitFractions
<1>5. q \in Nat \ {0} /\ Accumulate(f) = <<q, 1>>
  <2>1. CASE d = 0
    <3>1. f = g
      BY <1>3, <2>1
    <3> HIDE DEF f, g, d
    <3> QED
      BY <1>1, <2>1, <3>1
  <2>2. CASE d # 0
    <3>1. \A v \in S : f[v] = <<list[v], 1>>
      BY <2>2
    <3> HIDE DEF f
    <3>2. Accumulate(f) = <<d, 1>>
      BY <1>1, <1>4, <3>1, CountSum
    <3> QED
      BY <1>2, <2>2, <3>2
  <2> QED
    BY <2>1, <2>2
<1>6. /\ a \in Fraction /\ times(<<q, 1>>, a) = ALPHA
      /\ b \in Fraction /\ times(<<size, 1>>, b) = c
  <2> HIDE DEF q, c, d
  <2> QED
    BY <1>1, <1>2, <1>5, TimesBack
<1>7. \A v \in S : l[v] = times(f[v], a) /\ j[v] = times(g[v], b)
  <2>1. \A v \in S : l[v] = times(f[v], a)
    BY DEF LinkPart
  <2>2. times(One, b) = b
    BY <1>6, OneLaws
  <2> QED
    BY <2>1, <2>2 DEF JumpPart
<1>8. l \in [S -> Fraction] /\ j \in [S -> Fraction]
  <2>1. \A v \in S : LinkPart(list[v], d, size) \in Fraction /\ JumpPart(size) \in Fraction
    <3> HIDE DEF d
    <3> QED
      BY <1>1, <1>2, EntryParts
  <2> QED
    BY <2>1
<1> HIDE DEF f, g, l, j, a, b, c, q
<1>9. Accumulate(l) = times(Accumulate(f), a)
  BY <1>1, <1>4, <1>6, <1>7, <1>8, ScaledSum
<1>10. Accumulate(j) = times(Accumulate(g), b)
  <2>1. /\ IsFiniteSet(S) /\ b \in Fraction /\ g \in [S -> Fraction] /\ j \in [S -> Fraction]
        /\ \A v \in S : j[v] = times(g[v], b)
    BY <1>1, <1>4, <1>6, <1>7, <1>8
  <2> QED
    BY <2>1, ScaledSum
<1> QED
  BY <1>1, <1>5, <1>6, <1>9, <1>10 DEF l, j, c

--------------------------------------------------------------------------------
(* A column times a matrix w; what each step of the power iteration keeps     *)
(* (the sum of the ranks) and what it shrinks (the distance of two columns).  *)

Product(S, w, col) == [v \in S |-> Accumulate([u \in S |-> times(w[u][v], col[u])])]

IsLinear(S, w, col) ==
  IsFiniteSet(S) /\ w \in [S -> [S -> Fraction]] /\ col \in [S -> Fraction]

LEMMA ProductType ==
  ASSUME NEW S, NEW w, NEW col, IsLinear(S, w, col)
  PROVE  /\ Product(S, w, col) \in [S -> Fraction]
         /\ \A v \in S : [u \in S |-> times(w[u][v], col[u])] \in [S -> Fraction]
<1>1. \A u, v \in S : w[u][v] \in Fraction /\ col[u] \in Fraction
  BY DEF IsLinear
<1>2. \A u, v \in S : times(w[u][v], col[u]) \in Fraction
  BY <1>1, TimesCommutes
<1>3. ASSUME NEW v \in S
      PROVE  /\ [u \in S |-> times(w[u][v], col[u])] \in [S -> Fraction]
             /\ Accumulate([u \in S |-> times(w[u][v], col[u])]) \in Fraction
  <2> DEFINE f == [u \in S |-> times(w[u][v], col[u])]
  <2>1. f \in [S -> Fraction]
    BY <1>2
  <2> HIDE DEF f
  <2>2. Accumulate(f) \in Fraction
    BY <2>1, AccumulateFraction, FractionIsValue DEF IsLinear
  <2> QED
    BY <2>1, <2>2 DEF f
<1> QED
  BY <1>3 DEF Product

(* When every row of the matrix sums to a, the product sums to a times what   *)
(* the column does.                                                           *)
LEMMA ProductSum ==
  ASSUME NEW S, NEW w, NEW col, IsLinear(S, w, col), NEW a \in Fraction,
         \A u \in S : Accumulate(w[u]) = a
  PROVE  Accumulate(Product(S, w, col)) = times(a, Accumulate(col))
<1> DEFINE m == [u \in S |-> [v \in S |-> times(w[u][v], col[u])]]
           f == RowSums(S, m)
           g == ColumnSums(S, S, m)
<1>1. IsFiniteSet(S) /\ w \in [S -> [S -> Fraction]] /\ col \in [S -> Fraction]
  BY DEF IsLinear
<1>2. \A u, v \in S : times(w[u][v], col[u]) \in Fraction
  <2>1. \A u, v \in S : w[u][v] \in Fraction /\ col[u] \in Fraction
    BY <1>1
  <2> QED
    BY <2>1, TimesCommutes
<1>3. IsMatrix(S, S, m)
  BY <1>1, <1>2 DEF IsMatrix
<1>4. /\ \A u \in S : m[u] \in [S -> Fraction] /\ m[u] = [v \in S |-> times(w[u][v], col[u])]
      /\ \A u \in S : f[u] = Accumulate(m[u])
  BY <1>2 DEF RowSums
<1>5. g = Product(S, w, col)
  <2>1. \A v \in S : Column(S, m, v) = [u \in S |-> times(w[u][v], col[u])]
    BY DEF Column
  <2> HIDE DEF m
  <2> QED
    BY <2>1 DEF ColumnSums, Product
<1> HIDE DEF m, f, g
<1>6. f \in [S -> Fraction] /\ Accumulate(f) = Accumulate(g)
  BY <1>3, ExchangedSums DEF f, g
<1>7. ASSUME NEW u \in S
      PROVE  f[u] = times(col[u], a)
  <2> DEFINE p == w[u]
             q == m[u]
             b == col[u]
  <2>1. /\ p \in [S -> Fraction] /\ q \in [S -> Fraction] /\ b \in Fraction
        /\ \A v \in S : q[v] = times(p[v], b)
    BY <1>1, <1>4
  <2>2. f[u] = Accumulate(q) /\ Accumulate(p) = a
    BY <1>4
  <2>3. Scales(S, b, p, q)
    BY <1>1, <2>1 DEF Scales
  <2>4. Accumulate(q) = times(Accumulate(p), b)
    BY <2>3, ScaledSums
  <2> HIDE DEF p, q
  <2> QED
    BY <2>1, <2>2, <2>4, TimesCommutes
<1>8. Accumulate(f) = times(Accumulate(col), a)
  BY <1>1, <1>6, <1>7, ScaledSum
<1>9. Accumulate(col) \in Fraction
  BY <1>1, AccumulateFraction, FractionIsValue
<1> QED
  BY <1>5, <1>6, <1>8, <1>9, TimesCommutes

(* A column that is nowhere larger than another one with e added *)
LEMMA LargerProduct ==
  ASSUME NEW S, NEW w, NEW x, NEW y, NEW e,
         IsLinear(S, w, x), IsLinear(S, w, y), IsLinear(S, w, e),
         \A u \in S : AtMost(x[u], plus(y[u], e[u])), NEW v \in S
  PROVE  AtMost(Product(S, w, x)[v], plus(Product(S, w, y)[v], Product(S, w, e)[v]))
<1> DEFINE f == [u \in S |-> times(w[u][v], x[u])]
           g == [u \in S |-> times(w[u][v], y[u])]
           h == [u \in S |-> times(w[u][v], e[u])]
           s == [u \in S |-> plus(g[u], h[u])]
<1>1. IsFiniteSet(S)
  BY DEF IsLinear
<1>2. f \in [S -> Fraction] /\ g \in [S -> Fraction] /\ h \in [S -> Fraction]
  BY ProductType
<1>3. ASSUME NEW u \in S
      PROVE  AtMost(f[u], s[u]) /\ s[u] \in Fraction /\ s[u] = plus(g[u], h[u])
  <2>1. w[u][v] \in Fraction /\ x[u] \in Fraction /\ y[u] \in Fraction /\ e[u] \in Fraction
    BY DEF IsLinear
  <2>2. plus(y[u], e[u]) \in Fraction
    BY <2>1, PlusLaws
  <2>3. AtMost(times(w[u][v], x[u]), times(w[u][v], plus(y[u], e[u])))
    BY <2>1, <2>2, AtMostLaws
  <2>4. times(w[u][v], plus(y[u], e[u])) = plus(times(w[u][v], y[u]), times(w[u][v], e[u]))
    BY <2>1, Distributive
  <2>5. plus(g[u], h[u]) \in Fraction
    <3>1. g[u] \in Fraction /\ h[u] \in Fraction
      BY <1>2
    <3> HIDE DEF g, h
    <3> QED
      BY <3>1, PlusLaws
  <2> QED
    BY <2>3, <2>4, <2>5
<1>4. s \in [S -> Fraction]
  BY <1>3
<1>5. /\ Product(S, w, x)[v] = Accumulate(f) /\ Product(S, w, y)[v] = Accumulate(g)
      /\ Product(S, w, e)[v] = Accumulate(h)
  BY DEF Product
<1> HIDE DEF f, g, h, s
<1>6. AtMost(Accumulate(f), Accumulate(s))
  BY <1>1, <1>2, <1>3, <1>4, LargerSum
<1>7. Accumulate(s) = plus(Accumulate(g), Accumulate(h))
  BY <1>1, <1>2, <1>3, <1>4, AccumulatePlus
<1> QED
  BY <1>5, <1>6, <1>7

IsSystem(S, size, list) == Sized(S, size) /\ list \in [S -> [S -> Nat]]

Links(S, size, list) ==
  [u \in S |-> [v \in S |-> LinkPart(list[u][v], OutDegree(list[u]), size)]]
GoogleMatrix(S, size, list) ==
  [u \in S |-> [v \in S |-> GoogleEntry(list[u][v], OutDegree(list[u]), size)]]

LEMMA MatrixRows ==
  ASSUME NEW S, NEW size, NEW list, IsSystem(S, size, list)
  PROVE  /\ Links(S, size, list) \in [S -> [S -> Fraction]]
         /\ GoogleMatrix(S, size, list) \in [S -> [S -> Fraction]]
         /\ JumpPart(size) \in Fraction
         /\ \A u, v \in S : GoogleMatrix(S, size, list)[u][v]
                              = plus(Links(S, size, list)[u][v], JumpPart(size))
         /\ \A u \in S : /\ Accumulate(Links(S, size, list)[u]) = ALPHA
                         /\ Accumulate(GoogleMatrix(S, size, list)[u]) = One
<1> DEFINE l == Links(S, size, list)
           g == GoogleMatrix(S, size, list)
           j == [v \in S |-> JumpPart(size)]
<1>1. /\ IsFiniteSet(S) /\ size \in Nat \ {0} /\ Sized(S, size)
      /\ \A u \in S : list[u] \in [S -> Nat]
  BY DEF IsSystem, Sized
<1>2. \A u \in S : OutDegree(list[u]) \in Nat
  BY <1>1, OutDegreeType
<1>3. \A u, v \in S :
        /\ LinkPart(list[u][v], OutDegree(list[u]), size) \in Fraction
        /\ JumpPart(size) \in Fraction
        /\ GoogleEntry(list[u][v], OutDegree(list[u]), size)
             = plus(LinkPart(list[u][v], OutDegree(list[u]), size), JumpPart(size))
  <2>1. \A u, v \in S : list[u][v] \in Nat
    BY <1>1
  <2> QED
    BY <1>1, <1>2, <2>1, EntryParts
<1>4. JumpPart(size) \in Fraction
  <2>1. 0 \in Nat
    OBVIOUS
  <2> QED
    BY <1>1, <2>1, EntryParts
<1>5. \A u, v \in S : plus(LinkPart(list[u][v], OutDegree(list[u]), size), JumpPart(size)) \in Fraction
  BY <1>3, PlusLaws
<1>6. /\ l \in [S -> [S -> Fraction]] /\ g \in [S -> [S -> Fraction]]
      /\ \A u, v \in S : g[u][v] = plus(l[u][v], JumpPart(size))
  BY <1>3, <1>5 DEF Links, GoogleMatrix
<1>7. ASSUME NEW u \in S
      PROVE  Accumulate(l[u]) = ALPHA /\ Accumulate(g[u]) = One
  <2>1. l[u] = [v \in S |-> LinkPart(list[u][v], OutDegree(list[u]), size)]
    BY DEF Links
  <2>2. Accumulate(l[u]) = ALPHA /\ Accumulate(j) = frac(B - A, B)
    <3> DEFINE row == list[u]
    <3>1. row \in [S -> Nat] /\ l[u] = [v \in S |-> LinkPart(row[v], OutDegree(row), size)]
      BY <1>1, <2>1
    <3> HIDE DEF row, l
    <3>2. Sized(S, size) /\ row \in [S -> Nat]
      BY <1>1, <3>1
    <3>3. /\ Accumulate([v \in S |-> LinkPart(row[v], OutDegree(row), size)]) = ALPHA
          /\ Accumulate([v \in S |-> JumpPart(size)]) = frac(B - A, B)
      BY <3>2, PartSums
    <3> QED
      BY <3>1, <3>3
  <2>3. Adds(S, l[u], j, g[u])
    <3> HIDE DEF l, g
    <3> QED
      BY <1>1, <1>4, <1>6 DEF Adds
  <2>4. Accumulate(g[u]) = plus(ALPHA, frac(B - A, B))
    <3> HIDE DEF l, g, j
    <3> QED
      BY <2>2, <2>3, AddedSums
  <2>5. plus(ALPHA, frac(B - A, B)) = One
    <3> DEFINE c == frac(B - A, B)
               D == B - A
               t == A * B + D * B
               w == B * B
    <3>1. /\ A \in Nat /\ B \in Nat \ {0} /\ D \in Nat /\ A + D = B
          /\ ALPHA \in Fraction /\ c \in Fraction
          /\ Reduces(ALPHA, A, B) /\ Reduces(c, D, B)
      BY Constants
    <3> HIDE DEF c, D
    <3>2. One \in Fraction /\ Reduces(One, 1, 1)
      <4>1. One \in Fraction /\ One = <<1, 1>>
        BY UnitFractions DEF One
      <4>2. Reduces(One, One[1], One[2])
        BY <4>1, ReducesSelf, FractionIsValue
      <4> QED
        BY <4>1, <4>2
    <3>3. Reduces(plus(ALPHA, c), t, w) /\ plus(ALPHA, c) \in Fraction
      BY <3>1, PlusOf, PlusReduces, FractionIsValue
    <3>4. t \in Nat /\ w \in Nat /\ t * 1 = 1 * w
      <4>1. t = (A + D) * B
        BY <3>1, SMT
      <4> QED
        BY <3>1, <4>1, SMT
    <3> HIDE DEF t, w
    <3>5. plus(ALPHA, c) = One
      BY <3>2, <3>3, <3>4, SameRatio
    <3> QED
      BY <3>5 DEF c
  <2> QED
    BY <2>2, <2>4, <2>5
<1> QED
  BY <1>4, <1>6, <1>7

(* A multiplication with the Google matrix keeps the sum of the ranks. *)
LEMMA MassKept ==
  ASSUME NEW S, NEW size, NEW list, IsSystem(S, size, list), NEW col \in [S -> Fraction]
  PROVE  /\ Product(S, GoogleMatrix(S, size, list), col) \in [S -> Fraction]
         /\ Accumulate(Product(S, GoogleMatrix(S, size, list), col)) = Accumulate(col)
<1> DEFINE g == GoogleMatrix(S, size, list)
<1>1. IsFiniteSet(S)
  BY DEF IsSystem, Sized
<1>2. /\ g \in [S -> [S -> Fraction]] /\ \A u \in S : Accumulate(g[u]) = One
  BY MatrixRows
<1> HIDE DEF g
<1>3. IsLinear(S, g, col)
  BY <1>1, <1>2 DEF IsLinear
<1>4. One \in Fraction /\ Accumulate(col) \in Fraction
  BY <1>1, AccumulateFraction, UnitFractions, FractionIsValue DEF One
<1>5. Accumulate(Product(S, g, col)) = times(One, Accumulate(col))
  BY <1>2, <1>3, <1>4, ProductSum
<1>6. times(One, Accumulate(col)) = Accumulate(col)
  BY <1>4, OneLaws
<1> QED
  BY <1>3, <1>5, <1>6, ProductType DEF g

(* What the surfer's jumps add to a rank does not depend on the column. *)
LEMMA JumpsAreConstant ==
  ASSUME NEW S, NEW size, NEW list, IsSystem(S, size, list),
         NEW col \in [S -> Fraction], Accumulate(col) = One, NEW v \in S
  PROVE  Product(S, GoogleMatrix(S, size, list), col)[v]
           = plus(Product(S, Links(S, size, list), col)[v], JumpPart(size))
<1> DEFINE g == GoogleMatrix(S, size, list)
           l == Links(S, size, list)
           c == JumpPart(size)
           p == [u \in S |-> times(g[u][v], col[u])]
           q == [u \in S |-> times(l[u][v], col[u])]
           r == [u \in S |-> times(c, col[u])]
<1>1. IsFiniteSet(S)
  BY DEF IsSystem, Sized
<1>2. /\ g \in [S -> [S -> Fraction]] /\ l \in [S -> [S -> Fraction]] /\ c \in Fraction
      /\ \A u \in S : g[u][v] = plus(l[u][v], c)
  BY MatrixRows
<1> HIDE DEF g, l, c
<1>3. IsLinear(S, g, col) /\ IsLinear(S, l, col)
  BY <1>1, <1>2 DEF IsLinear
<1>4. p \in [S -> Fraction] /\ q \in [S -> Fraction]
  BY <1>3, ProductType
<1>5. \A u \in S : times(c, col[u]) \in Fraction /\ times(c, col[u]) = times(col[u], c)
  BY <1>2, TimesCommutes
<1>6. r \in [S -> Fraction] /\ \A u \in S : r[u] = times(col[u], c)
  BY <1>5
<1>7. \A u \in S : p[u] = plus(q[u], r[u])
  <2>1. \A u \in S : l[u][v] \in Fraction /\ col[u] \in Fraction
    BY <1>2
  <2>2. \A u \in S : times(plus(l[u][v], c), col[u]) = plus(times(l[u][v], col[u]), times(c, col[u]))
    BY <1>2, <2>1, Distributive
  <2> QED
    BY <1>2, <2>2
<1>8. Product(S, g, col)[v] = Accumulate(p) /\ Product(S, l, col)[v] = Accumulate(q)
  BY DEF Product
<1> HIDE DEF p, q, r
<1>9. Adds(S, q, r, p) /\ Scales(S, c, col, r)
  BY <1>1, <1>2, <1>4, <1>6, <1>7 DEF Adds, Scales
<1>10. Accumulate(p) = plus(Accumulate(q), Accumulate(r)) /\ Accumulate(r) = times(One, c)
  BY <1>9, AddedSums, ScaledSums
<1>11. times(One, c) = c
  BY <1>2, OneLaws
<1> QED
  BY <1>8, <1>10, <1>11 DEF g, l, c

(* A multiplication with the Google matrix shrinks the distance of two        *)
(* columns, each of which sums to one, to at most ALPHA times what it was.    *)
LEMMA GoogleContracts ==
  ASSUME NEW S, NEW size, NEW list, IsSystem(S, size, list),
         NEW x \in [S -> Fraction], NEW y \in [S -> Fraction],
         Accumulate(x) = One, Accumulate(y) = One
  PROVE  AtMost(calculateNorm(Product(S, GoogleMatrix(S, size, list), x),
                              Product(S, GoogleMatrix(S, size, list), y)),
                times(ALPHA, calculateNorm(x, y)))
<1> DEFINE g == GoogleMatrix(S, size, list)
           l == Links(S, size, list)
           c == JumpPart(size)
           e == [u \in S |-> absDiff(x[u], y[u])]
           gx == Product(S, g, x)
           gy == Product(S, g, y)
           lx == Product(S, l, x)
           ly == Product(S, l, y)
           le == Product(S, l, e)
           d == [v \in S |-> absDiff(gx[v], gy[v])]
<1>1. IsFiniteSet(S) /\ ALPHA \in Fraction
  BY Constants DEF IsSystem, Sized
<1>2. /\ l \in [S -> [S -> Fraction]] /\ c \in Fraction
      /\ \A u \in S : Accumulate(l[u]) = ALPHA
  BY MatrixRows
<1>3. /\ gx \in [S -> Fraction] /\ gy \in [S -> Fraction]
      /\ \A v \in S : gx[v] = plus(lx[v], c) /\ gy[v] = plus(ly[v], c)
  BY MassKept, JumpsAreConstant
<1>4. e \in [S -> Fraction] /\ \A u \in S : e[u] = absDiff(x[u], y[u])
  <2>1. \A u \in S : absDiff(x[u], y[u]) \in Fraction
    BY AbsDiffFraction, FractionIsValue
  <2> QED
    BY <2>1
<1>5. \A u \in S : AtMost(x[u], plus(y[u], e[u])) /\ AtMost(y[u], plus(x[u], e[u]))
  BY <1>4, AbsDiffLaws
<1> HIDE DEF g, l, c, e
<1>6. IsLinear(S, l, x) /\ IsLinear(S, l, y) /\ IsLinear(S, l, e)
  BY <1>1, <1>2, <1>4 DEF IsLinear
<1>7. lx \in [S -> Fraction] /\ ly \in [S -> Fraction] /\ le \in [S -> Fraction]
  BY <1>6, ProductType
<1>8. \A v \in S : AtMost(lx[v], plus(ly[v], le[v])) /\ AtMost(ly[v], plus(lx[v], le[v]))
  <2>1. \A v \in S : AtMost(lx[v], plus(ly[v], le[v]))
    BY <1>5, <1>6, LargerProduct
  <2>2. \A v \in S : AtMost(ly[v], plus(lx[v], le[v]))
    BY <1>5, <1>6, LargerProduct
  <2> QED
    BY <2>1, <2>2
<1>9. calculateNorm(x, y) = Accumulate(e) /\ calculateNorm(gx, gy) = Accumulate(d)
  <2>1. DOMAIN x = S /\ DOMAIN gx = S
    BY DEF Product
  <2> QED
    BY <2>1, Zenon DEF calculateNorm, Total, e
<1> HIDE DEF gx, gy, lx, ly, le
<1>10. ASSUME NEW v \in S
       PROVE  absDiff(gx[v], gy[v]) \in Fraction /\ AtMost(absDiff(gx[v], gy[v]), le[v])
  <2>1. /\ lx[v] \in Fraction /\ ly[v] \in Fraction /\ le[v] \in Fraction
        /\ gx[v] \in Fraction /\ gy[v] \in Fraction
    BY <1>3, <1>7
  <2>2. ASSUME NEW a \in Fraction, NEW b \in Fraction, NEW f \in Fraction, AtMost(a, plus(b, f))
        PROVE  AtMost(plus(a, c), plus(plus(b, c), f))
    <3>1. plus(b, f) \in Fraction /\ AtMost(c, c)
      BY <1>2, PlusLaws, AtMostLaws
    <3>2. AtMost(plus(a, c), plus(plus(b, f), c))
      BY <1>2, <2>2, <3>1, AtMostLaws
    <3>3. plus(plus(b, f), c) = plus(plus(b, c), f)
      <4>1. plus(plus(b, f), c) = plus(b, plus(f, c)) /\ plus(plus(b, c), f) = plus(b, plus(c, f))
        BY <1>2, PlusLaws
      <4>2. plus(f, c) = plus(c, f)
        BY <1>2, PlusLaws
      <4> QED
        BY <4>1, <4>2
    <3> QED
      BY <3>2, <3>3
  <2>3. AtMost(gx[v], plus(gy[v], le[v])) /\ AtMost(gy[v], plus(gx[v], le[v]))
    BY <1>3, <1>8, <2>1, <2>2
  <2> QED
    BY <2>1, <2>3, AbsDiffLaws, AbsDiffFraction, FractionIsValue
<1>11. d \in [S -> Fraction] /\ \A v \in S : AtMost(d[v], le[v])
  BY <1>10
<1> HIDE DEF d
<1>12. AtMost(Accumulate(d), Accumulate(le))
  BY <1>1, <1>7, <1>11, LargerSum
<1>13. Accumulate(le) = times(ALPHA, Accumulate(e))
  BY <1>1, <1>2, <1>6, ProductSum DEF le
<1> QED
  BY <1>9, <1>12, <1>13 DEF gx, gy, g
================================================================================
