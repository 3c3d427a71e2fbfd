----------------------------- MODULE DBM_proofs -----------------------------
(***************************************************************************)
(* What the matrix operations mean, for matrices of every size and every   *)
(* machine integer, the saturated ones included.  Minimize and Extrapolate *)
(* are folds of Relax: no round of the fold changes the meaning of the     *)
(* matrix, and therefore the fold does not either.                         *)
(*                                                                         *)
(* As long as no sum saturates, Minimize, Tighten and Extrapolate end in   *)
(* closed form; between matrices in closed form IncludedIn decides the     *)
(* inclusion of their valuations.  Tighten and Extrapolate keep the order  *)
(* of matrices, and Extrapolate bounds every finite entry.                 *)
(***************************************************************************)
EXTENDS DBM, FiniteSetTheorems, WellFoundedInduction, TLAPS

Bounds == IntMin .. INF
Matrices(S) == [S \X S -> Bounds]
Valuation(S) == [S -> Int]

-----------------------------------------------------------------------------
(* Saturation loses precision but never soundness: a difference below two  *)
(* finite bounds is below their saturated sum, or that sum is "no bound".  *)
LEMMA SafeAddIsSound ==
  ASSUME INF \in Nat, NEW a \in Bounds, NEW b \in Bounds,
         NEW x \in Int, NEW y \in Int, a # INF, b # INF, x <= a, y <= b
  PROVE  /\ SafeAdd(a, b) \in Bounds
         /\ SafeAdd(a, b) = INF \/ x + y <= SafeAdd(a, b)
BY DEF SafeAdd, Bounds, IntMin

LEMMA SafeAddType ==
  ASSUME INF \in Nat, NEW a \in Bounds, NEW b \in Bounds
  PROVE  SafeAdd(a, b) \in Bounds
BY DEF SafeAdd, Bounds, IntMin

(* A bound implied by two others: replacing D[i, j] by the smaller of the  *)
(* two changes neither the valuations nor the range of the entries.        *)
LEMMA ImpliedBound ==
  ASSUME INF \in Nat, NEW old \in Bounds, NEW implied \in Bounds, NEW d \in Int,
         implied = INF \/ d <= implied
  PROVE  /\ Smaller(old, implied) \in Bounds
         /\ (old = INF \/ d <= old)
              <=> (Smaller(old, implied) = INF \/ d <= Smaller(old, implied))
BY DEF Smaller, Bounds, IntMin

(* A round of minimize keeps exactly the valuations of the matrix.         *)
THEOREM RelaxKeepsMeaning ==
  ASSUME INF \in Nat, NEW S, NEW D \in Matrices(S), NEW k \in S,
         NEW v \in Valuation(S)
  PROVE  /\ RelaxVia(k, D) \in Matrices(S)
         /\ Satisfies(v, D) <=> Satisfies(v, RelaxVia(k, D))
<1> DEFINE E == RelaxVia(k, D)
           Obeys(p, b) == b = INF \/ v[p[1]] - v[p[2]] <= b
<1>1. DOMAIN D = S \X S /\ DOMAIN E = S \X S
  BY DEF Matrices, RelaxVia
<1>2. ASSUME NEW p \in S \X S
      PROVE  E[p] \in Bounds
  <2>1. /\ D[p] \in Bounds /\ D[<<p[1], k>>] \in Bounds /\ D[<<k, p[2]>>] \in Bounds
    BY DEF Matrices
  <2> QED
    BY <2>1, SafeAddType DEF Matrices, RelaxVia, Smaller
<1>3. ASSUME NEW p \in S \X S, Satisfies(v, D)
      PROVE  Obeys(p, E[p])
  <2>1. /\ p[1] \in S /\ p[2] \in S
        /\ v[p[1]] \in Int /\ v[p[2]] \in Int /\ v[k] \in Int
        /\ D[p] \in Bounds /\ D[<<p[1], k>>] \in Bounds /\ D[<<k, p[2]>>] \in Bounds
    BY DEF Matrices, Valuation
  <2>2. /\ D[p] = INF \/ v[p[1]] - v[p[2]] <= D[p]
        /\ D[<<p[1], k>>] = INF \/ v[p[1]] - v[k] <= D[<<p[1], k>>]
        /\ D[<<k, p[2]>>] = INF \/ v[k] - v[p[2]] <= D[<<k, p[2]>>]
    BY <1>1, <1>3, <2>1 DEF Satisfies
  <2>3. CASE D[<<p[1], k>>] = INF \/ D[<<k, p[2]>>] = INF
    BY <1>1, <2>2, <2>3 DEF RelaxVia
  <2>4. CASE D[<<p[1], k>>] # INF /\ D[<<k, p[2]>>] # INF
    <3> DEFINE sum == SafeAdd(D[<<p[1], k>>], D[<<k, p[2]>>])
               d == v[p[1]] - v[p[2]]
    <3>1. /\ sum \in Bounds
          /\ sum = INF \/ (v[p[1]] - v[k]) + (v[k] - v[p[2]]) <= sum
      BY <2>1, <2>2, <2>4, SafeAddIsSound
    <3>2. (v[p[1]] - v[k]) + (v[k] - v[p[2]]) = d /\ d \in Int
      BY <2>1
    <3>3. E[p] = Smaller(D[p], sum)
      BY <1>1, <2>4 DEF RelaxVia
    <3> QED
      BY <2>1, <2>2, <3>1, <3>2, <3>3, ImpliedBound
  <2> QED
    BY <2>3, <2>4
<1>4. ASSUME NEW p \in S \X S, Obeys(p, E[p])
      PROVE  Obeys(p, D[p])
  <2>1. /\ v[p[1]] \in Int /\ v[p[2]] \in Int
        /\ D[p] \in Bounds /\ D[<<p[1], k>>] \in Bounds /\ D[<<k, p[2]>>] \in Bounds
    BY DEF Matrices, Valuation
  <2>2. SafeAdd(D[<<p[1], k>>], D[<<k, p[2]>>]) \in Bounds
    BY <2>1, SafeAddType
  <2>3. E[p] = D[p] \/ E[p] = Smaller(D[p], SafeAdd(D[<<p[1], k>>], D[<<k, p[2]>>]))
    BY <1>1 DEF RelaxVia
  <2> QED
    BY <1>4, <2>1, <2>2, <2>3 DEF Smaller, Bounds, IntMin
<1>5. E \in Matrices(S)
  BY <1>2 DEF RelaxVia, Matrices
<1>6. Satisfies(v, D) => Satisfies(v, E)
  BY <1>1, <1>3 DEF Satisfies
<1>7. Satisfies(v, E) => Satisfies(v, D)
  BY <1>1, <1>4 DEF Satisfies
<1> QED
  BY <1>5, <1>6, <1>7

(* The single pass of tighten keeps the valuations of a matrix whose       *)
(* entry i, j is b already.                                                *)
LEMMA PassKeepsMeaning ==
  ASSUME INF \in Nat, NEW S, NEW D \in Matrices(S), NEW i \in S, NEW j \in S,
         NEW b \in Bounds, b # INF, D[<<i, j>>] = b,
         NEW v \in Valuation(S)
  PROVE  /\ TightenVia(D, i, j, b) \in Matrices(S)
         /\ Satisfies(v, D) <=> Satisfies(v, TightenVia(D, i, j, b))
<1> DEFINE E == TightenVia(D, i, j, b)
           Obeys(p, c) == c = INF \/ v[p[1]] - v[p[2]] <= c
<1>1. DOMAIN D = S \X S /\ DOMAIN E = S \X S
  BY DEF Matrices, TightenVia
<1>2. ASSUME NEW p \in S \X S, Satisfies(v, D)
      PROVE  Obeys(p, E[p])
  <2> DEFINE toI == D[<<p[1], i>>]
             left == SafeAdd(toI, b)
             right == D[<<j, p[2]>>]
             sum == SafeAdd(left, right)
             d == v[p[1]] - v[p[2]]
  <2>1. /\ p[1] \in S /\ p[2] \in S /\ D[p] \in Bounds
        /\ toI \in Bounds /\ right \in Bounds
        /\ v[p[1]] \in Int /\ v[p[2]] \in Int /\ v[i] \in Int /\ v[j] \in Int
    BY DEF Matrices, Valuation
  <2>2. /\ D[p] = INF \/ d <= D[p]
        /\ toI = INF \/ v[p[1]] - v[i] <= toI
        /\ v[i] - v[j] <= b
        /\ right = INF \/ v[j] - v[p[2]] <= right
    BY <1>1, <1>2, <2>1 DEF Satisfies
  <2>3. CASE toI = INF \/ left = INF \/ right = INF
    BY <1>1, <2>2, <2>3 DEF TightenVia
  <2>4. CASE ~ (toI = INF \/ left = INF \/ right = INF)
    <3>1. /\ left \in Bounds
          /\ (v[p[1]] - v[i]) + (v[i] - v[j]) <= left
      BY <2>1, <2>2, <2>4, SafeAddIsSound
    <3>2. (v[p[1]] - v[i]) + (v[i] - v[j]) \in Int /\ v[j] - v[p[2]] \in Int
      BY <2>1
    <3>3. /\ sum \in Bounds
          /\ sum = INF
             \/ ((v[p[1]] - v[i]) + (v[i] - v[j])) + (v[j] - v[p[2]]) <= sum
      BY <2>1, <2>2, <2>4, <3>1, <3>2, SafeAddIsSound
    <3>4. ((v[p[1]] - v[i]) + (v[i] - v[j])) + (v[j] - v[p[2]]) = d /\ d \in Int
      BY <2>1
    <3>5. E[p] = Smaller(D[p], sum)
      BY <1>1, <2>4 DEF TightenVia
    <3> HIDE DEF sum, d
    <3> QED
      BY <2>1, <2>2, <3>3, <3>4, <3>5, ImpliedBound DEF d
  <2> QED
    BY <2>3, <2>4
<1>3. ASSUME NEW p \in S \X S, Obeys(p, E[p])
      PROVE  Obeys(p, D[p])
  <2> DEFINE sum == SafeAdd(SafeAdd(D[<<p[1], i>>], b), D[<<j, p[2]>>])
  <2>1. /\ v[p[1]] \in Int /\ v[p[2]] \in Int /\ D[p] \in Bounds
        /\ D[<<p[1], i>>] \in Bounds /\ D[<<j, p[2]>>] \in Bounds
    BY DEF Matrices, Valuation
  <2>2. sum \in Bounds
    BY <2>1, SafeAddType
  <2>3. E[p] = D[p] \/ E[p] = Smaller(D[p], sum)
    BY <1>1 DEF TightenVia
  <2> HIDE DEF sum
  <2> QED
    BY <1>3, <2>1, <2>2, <2>3 DEF Smaller, Bounds, IntMin
<1>4. Satisfies(v, D) => Satisfies(v, E)
  BY <1>1, <1>2 DEF Satisfies
<1>5. Satisfies(v, E) => Satisfies(v, D)
  BY <1>1, <1>3 DEF Satisfies
<1>6. E \in Matrices(S)
  <2> SUFFICES ASSUME NEW p \in S \X S PROVE E[p] \in Bounds
    BY DEF TightenVia, Matrices
  <2>1. D[p] \in Bounds /\ D[<<p[1], i>>] \in Bounds /\ D[<<j, p[2]>>] \in Bounds
    BY DEF Matrices
  <2>2. SafeAdd(SafeAdd(D[<<p[1], i>>], b), D[<<j, p[2]>>]) \in Bounds
    BY <2>1, SafeAddType
  <2> QED
    BY <1>1, <2>1, <2>2 DEF TightenVia, Smaller
<1> QED
  BY <1>4, <1>5, <1>6

LEMMA NegativeDiagonalIsEmpty ==
  ASSUME INF \in Nat, NEW S, NEW D \in Matrices(S), NegativeDiagonal(S, D),
         NEW v \in Valuation(S)
  PROVE  ~ Satisfies(v, D)
<1>1. PICK x \in S : D[<<x, x>>] < 0
  BY DEF NegativeDiagonal
<1>2. <<x, x>> \in DOMAIN D /\ D[<<x, x>>] \in Int /\ v[x] - v[x] = 0
  BY DEF Matrices, Valuation, Bounds, IntMin
<1>3. Satisfies(v, D) => D[<<x, x>>] = INF \/ 0 <= D[<<x, x>>]
  BY <1>2 DEF Satisfies
<1> QED
  BY <1>1, <1>2, <1>3

(* tighten is the intersection with x_i - x_j <= b: it says "empty" only   *)
(* when nothing is left, and otherwise keeps exactly what is left.         *)
THEOREM TightenIsIntersection ==
  ASSUME INF \in Nat, NEW S, NEW D \in Matrices(S), NEW i \in S, NEW j \in S,
         NEW b \in Bounds, b # INF, NEW v \in Valuation(S)
  PROVE  LET result == Tighten(S, D, i, j, b)
             left == Satisfies(v, D) /\ v[i] - v[j] <= b
         IN  IF result.nonempty THEN Satisfies(v, result.zone) <=> left
                                ELSE ~ left
<1> DEFINE old == D[<<i, j>>]
           opposite == D[<<j, i>>]
           T == [D EXCEPT ![<<i, j>>] = b]
           C == TightenVia(T, i, j, b)
           left == Satisfies(v, D) /\ v[i] - v[j] <= b
<1>1. /\ DOMAIN D = S \X S /\ <<i, j>> \in S \X S /\ <<j, i>> \in S \X S
      /\ old \in Bounds /\ opposite \in Bounds
      /\ v[i] \in Int /\ v[j] \in Int
  BY DEF Matrices, Valuation
<1>2. CASE old # INF /\ old <= b
  <2>1. Satisfies(v, D) => v[i] - v[j] <= old
    BY <1>1, <1>2 DEF Satisfies
  <2>2. Satisfies(v, D) => v[i] - v[j] <= b
    BY <1>1, <1>2, <2>1 DEF Bounds, IntMin
  <2> QED
    BY <1>2, <2>2 DEF Tighten
<1>3. CASE ~ (old # INF /\ old <= b) /\ opposite # INF /\ SafeAdd(b, opposite) < 0
  <2>1. ASSUME left PROVE FALSE
    <3>1. v[j] - v[i] <= opposite
      BY <1>1, <1>3, <2>1 DEF Satisfies
    <3>2. SafeAdd(b, opposite) = INF
            \/ (v[i] - v[j]) + (v[j] - v[i]) <= SafeAdd(b, opposite)
      <4>1. v[i] - v[j] \in Int /\ v[j] - v[i] \in Int
        BY <1>1
      <4> QED
        BY <1>1, <1>3, <2>1, <3>1, <4>1, SafeAddIsSound
    <3>3. SafeAdd(b, opposite) \in Int
      BY <1>1, SafeAddType DEF Bounds, IntMin
    <3> QED
      BY <1>1, <1>3, <3>2, <3>3
  <2> QED
    BY <1>3, <2>1 DEF Tighten
<1>4. CASE /\ ~ (old # INF /\ old <= b)
           /\ ~ (opposite # INF /\ SafeAdd(b, opposite) < 0)
  <2>1. T \in Matrices(S) /\ T[<<i, j>>] = b
    BY <1>1 DEF Matrices
  <2>2. Satisfies(v, T) <=> left
    <3>1. ASSUME left PROVE Satisfies(v, T)
      BY <1>1, <3>1 DEF Satisfies
    <3>2. ASSUME Satisfies(v, T) PROVE left
      <4>1. v[i] - v[j] <= b
        BY <1>1, <2>1, <3>2 DEF Satisfies
      <4>2. ASSUME NEW p \in S \X S
            PROVE  D[p] = INF \/ v[p[1]] - v[p[2]] <= D[p]
        <5>1. CASE p = <<i, j>>
          BY <1>1, <1>4, <4>1, <5>1 DEF Bounds, IntMin
        <5>2. CASE p # <<i, j>>
          BY <1>1, <3>2, <5>2 DEF Satisfies
        <5> QED
          BY <5>1, <5>2
      <4> QED
        BY <1>1, <4>1, <4>2 DEF Satisfies
    <3> QED
      BY <3>1, <3>2
  <2>3. C \in Matrices(S) /\ (Satisfies(v, C) <=> left)
    BY <2>1, <2>2, PassKeepsMeaning
  <2>4. NegativeDiagonal(S, C) => ~ Satisfies(v, C)
    BY <2>3, NegativeDiagonalIsEmpty
  <2>5. Tighten(S, D, i, j, b) = [nonempty |-> ~ NegativeDiagonal(S, C), zone |-> C]
    BY <1>4 DEF Tighten
  <2> HIDE DEF C
  <2>6. /\ Tighten(S, D, i, j, b).nonempty = ~ NegativeDiagonal(S, C)
        /\ Tighten(S, D, i, j, b).zone = C
    BY <2>5
  <2> QED
    BY <2>3, <2>4, <2>6, Zenon
<1> QED
  BY <1>2, <1>3, <1>4

(* included_in decides inclusion in one direction for all matrices: what   *)
(* is merged into a class is covered by it.                                *)
THEOREM IncludedInIsSound ==
  ASSUME INF \in Nat, NEW S, NEW D \in Matrices(S), NEW E \in Matrices(S),
         IncludedIn(D, E), NEW v \in Valuation(S), Satisfies(v, D)
  PROVE  Satisfies(v, E)
<1> SUFFICES ASSUME NEW p \in S \X S
             PROVE  E[p] = INF \/ v[p[1]] - v[p[2]] <= E[p]
  BY DEF Satisfies, Matrices
<1>1. /\ v[p[1]] - v[p[2]] \in Int /\ D[p] \in Int /\ E[p] \in Int
      /\ p \in DOMAIN D
  BY DEF Matrices, Valuation, Bounds, IntMin
<1>2. E[p] = INF \/ (D[p] # INF /\ D[p] <= E[p])
  BY <1>1 DEF IncludedIn
<1>3. D[p] = INF \/ v[p[1]] - v[p[2]] <= D[p]
  BY <1>1 DEF Satisfies
<1> QED
  BY <1>1, <1>2, <1>3

(* The bounds extrapolate writes are all weaker than those it reads.       *)
THEOREM RelaxedBoundsAreWeaker ==
  ASSUME INF \in Nat, NEW k \in Nat, NEW b \in Bounds, NEW d \in Int,
         b = INF \/ d <= b
  PROVE  RelaxBound(b, k) = INF \/ d <= RelaxBound(b, k)
BY DEF RelaxBound, Bounds, IntMin

-----------------------------------------------------------------------------
(* Minimize folds Relax over the variables, taking them in the order in    *)
(* which CHOOSE picks them.  The fold is a function of the sets of         *)
(* variables; it exists because it exists on the sets of at most n         *)
(* variables, for every n, and the least n for which that failed would     *)
(* have a predecessor.                                                     *)
LEMMA LeastCount ==
  ASSUME NEW C \in SUBSET Nat, C # {}
  PROVE  \E n \in C : \A m \in C : n <= m
<1>1. IsWellFoundedOn(OpToRel(<, Nat), Nat)
  BY NatLessThanWellFounded
<1>2. PICK n \in C : \A m \in C : ~ (<<m, n>> \in OpToRel(<, Nat))
  BY <1>1, WFMin, Zenon
<1>3. \A m \in C : ~ (m < n)
  BY <1>2 DEF OpToRel
<1> QED
  BY <1>3

Picked(T) == CHOOSE k \in T : TRUE

Subsets(S, n) == {T \in SUBSET S : Cardinality(T) <= n}

FoldsOver(D, sets, g) ==
  g = [T \in sets |-> IF T = {} THEN D ELSE Relax(Picked(T), g[T \ {Picked(T)}])]

LEMMA MinimizeIsFold ==
  ASSUME NEW S, NEW D
  PROVE  Minimize(S, D) = (CHOOSE g : FoldsOver(D, SUBSET S, g))[S]
BY Zenon DEF Minimize, FoldSet, MapThenFoldSet, FoldsOver, Picked

LEMMA SmallerSubsets ==
  ASSUME NEW S, IsFiniteSet(S), NEW n \in Nat, NEW T \in Subsets(S, n), T # {}
  PROVE  /\ Picked(T) \in T
         /\ n # 0
         /\ T \ {Picked(T)} \in Subsets(S, n - 1)
<1>1. Picked(T) \in T
  BY DEF Picked
<1>2. IsFiniteSet(T) /\ Cardinality(T) \in Nat /\ Cardinality(T) <= n
  BY FS_Subset, FS_CardinalityType DEF Subsets
<1>3. Cardinality(T \ {Picked(T)}) = Cardinality(T) - 1
  BY <1>1, <1>2, FS_RemoveElement
<1>4. Cardinality(T) # 0
  BY <1>2, FS_EmptySet
<1> QED
  BY <1>1, <1>2, <1>3, <1>4 DEF Subsets

LEMMA FoldExists ==
  ASSUME NEW S, IsFiniteSet(S), NEW D
  PROVE  \E g : FoldsOver(D, SUBSET S, g)
<1> DEFINE Exists(n) == \E g : FoldsOver(D, Subsets(S, n), g)
           Failing == {n \in Nat : ~ Exists(n)}
<1>1. Exists(0)
  <2> DEFINE g == [T \in Subsets(S, 0) |-> D]
  <2>1. \A T \in Subsets(S, 0) : T = {}
    BY SmallerSubsets
  <2>2. g = [T \in Subsets(S, 0) |->
               IF T = {} THEN D ELSE Relax(Picked(T), g[T \ {Picked(T)}])]
    BY <2>1
  <2> QED
    BY <2>2 DEF FoldsOver
<1>2. ASSUME NEW n \in Nat, n # 0, Exists(n - 1)
      PROVE  Exists(n)
  <2>1. PICK g : FoldsOver(D, Subsets(S, n - 1), g)
    BY <1>2
  <2> DEFINE Value(T) == IF T = {} THEN D ELSE Relax(Picked(T), g[T \ {Picked(T)}])
             f == [T \in Subsets(S, n) |-> Value(T)]
  <2>2. ASSUME NEW T \in Subsets(S, n), T # {}
        PROVE  f[T \ {Picked(T)}] = g[T \ {Picked(T)}]
    <3> DEFINE R == T \ {Picked(T)}
    <3>1. R \in Subsets(S, n - 1)
      BY <2>2, SmallerSubsets
    <3>2. R \in Subsets(S, n)
      <4>1. Cardinality(R) \in Nat /\ Cardinality(R) <= n - 1
        BY <3>1, FS_Subset, FS_CardinalityType DEF Subsets
      <4> QED
        BY <3>1, <4>1 DEF Subsets
    <3> HIDE DEF R
    <3>3. g[R] = Value(R)
      BY <2>1, <3>1 DEF FoldsOver
    <3>4. f[R] = Value(R)
      BY <3>2
    <3> QED
      BY <3>3, <3>4 DEF R
  <2>3. \A T \in Subsets(S, n) :
          f[T] = IF T = {} THEN D ELSE Relax(Picked(T), f[T \ {Picked(T)}])
    BY <2>2
  <2>4. f = [T \in Subsets(S, n) |->
               IF T = {} THEN D ELSE Relax(Picked(T), f[T \ {Picked(T)}])]
    BY <2>3
  <2> QED
    BY <2>4 DEF FoldsOver
<1>3. Failing = {}
  <2> SUFFICES ASSUME Failing # {} PROVE FALSE
    OBVIOUS
  <2> HIDE DEF Exists
  <2>1. PICK n \in Failing : \A m \in Failing : n <= m
    BY LeastCount
  <2>2. n \in Nat /\ n # 0 /\ n - 1 \notin Failing
    BY <1>1, <2>1
  <2> QED
    BY <1>2, <2>1, <2>2
<1>4. Exists(Cardinality(S))
  BY <1>3, FS_CardinalityType
<1>5. Subsets(S, Cardinality(S)) = SUBSET S
  BY FS_Subset DEF Subsets
<1> QED
  BY <1>4, <1>5

(* The closure of a matrix means what the matrix means, in every order of  *)
(* its rounds and also when bounds saturate.                               *)
THEOREM MinimizeKeepsMeaning ==
  ASSUME INF \in Nat, NEW S, IsFiniteSet(S), NEW D \in Matrices(S),
         NEW v \in Valuation(S)
  PROVE  /\ Minimize(S, D) \in Matrices(S)
         /\ Satisfies(v, D) <=> Satisfies(v, Minimize(S, D))
<1> DEFINE Same(E) == E \in Matrices(S) /\ (Satisfies(v, D) <=> Satisfies(v, E))
<1>1. PICK g : g = CHOOSE f : FoldsOver(D, SUBSET S, f)
  OBVIOUS
<1>2. FoldsOver(D, SUBSET S, g)
  BY <1>1, FoldExists
<1>3. \A T \in SUBSET S :
        g[T] = IF T = {} THEN D ELSE Relax(Picked(T), g[T \ {Picked(T)}])
  BY <1>2 DEF FoldsOver
<1> DEFINE Failing == {n \in Nat : \E T \in Subsets(S, n) : ~ Same(g[T])}
<1>4. Failing = {}
  <2> SUFFICES ASSUME Failing # {} PROVE FALSE
    OBVIOUS
  <2> HIDE DEF Same
  <2>1. PICK n \in Failing : \A m \in Failing : n <= m
    BY LeastCount
  <2>2. PICK T \in Subsets(S, n) : ~ Same(g[T])
    BY <2>1
  <2>3. T # {}
    BY <1>3, <2>2 DEF Same
  <2> DEFINE k == Picked(T)
             R == T \ {k}
  <2>4. k \in S /\ n # 0 /\ R \in Subsets(S, n - 1)
    BY <2>1, <2>2, <2>3, SmallerSubsets DEF Subsets
  <2>5. Same(g[R])
    <3>1. n - 1 \in Nat /\ n - 1 \notin Failing
      BY <2>1, <2>4
    <3> QED
      BY <2>4, <3>1
  <2>6. g[T] = RelaxVia(k, g[R])
    BY <1>3, <2>3 DEF Subsets, Relax, Whole
  <2> HIDE DEF k, R
  <2>7. Same(g[T])
    BY <2>4, <2>5, <2>6, RelaxKeepsMeaning DEF Same
  <2> QED
    BY <2>2, <2>7
<1>5. Same(g[S])
  <2>1. Cardinality(S) \in Nat /\ S \in Subsets(S, Cardinality(S))
    BY FS_CardinalityType DEF Subsets
  <2> QED
    BY <1>4, <2>1
<1> QED
  BY <1>1, <1>5, MinimizeIsFold

(* Every operation of the engine keeps a matrix in the machine's range.    *)
LEMMA MinimizeType ==
  ASSUME INF \in Nat, NEW S, IsFiniteSet(S), NEW D \in Matrices(S)
  PROVE  Minimize(S, D) \in Matrices(S)
<1>1. [i \in S |-> 0] \in Valuation(S)
  BY DEF Valuation
<1> QED
  BY <1>1, MinimizeKeepsMeaning

LEMMA TightenType ==
  ASSUME INF \in Nat, NEW S, NEW D \in Matrices(S), NEW i \in S, NEW j \in S,
         NEW b \in Bounds, b # INF
  PROVE  Tighten(S, D, i, j, b).zone \in Matrices(S)
<1> DEFINE T == [D EXCEPT ![<<i, j>>] = b]
<1>1. T \in Matrices(S) /\ T[<<i, j>>] = b
  BY DEF Matrices
<1>2. TightenVia(T, i, j, b) \in Matrices(S)
  <2>1. [x \in S |-> 0] \in Valuation(S)
    BY DEF Valuation
  <2> QED
    BY <1>1, <2>1, PassKeepsMeaning
<1>3. SafeAdd(b, D[<<j, i>>]) \in Bounds
  BY SafeAddType DEF Matrices
<1>4. [T EXCEPT ![<<i, i>>] = SafeAdd(b, D[<<j, i>>])] \in Matrices(S)
  BY <1>1, <1>3 DEF Matrices
<1> HIDE DEF T
<1> QED
  BY <1>2, <1>4 DEF Tighten, T

Relaxed(D, k) ==
  [p \in DOMAIN D |-> IF p[1] = p[2] THEN D[p] ELSE RelaxBound(D[p], k)]

LEMMA ExtrapolateType ==
  ASSUME INF \in Nat, NEW S, IsFiniteSet(S), NEW D \in Matrices(S),
         NEW k \in 0 .. INF
  PROVE  /\ Relaxed(D, k) \in Matrices(S)
         /\ Extrapolate(S, D, k) \in Matrices(S)
<1>1. \A b \in Bounds : RelaxBound(b, k) \in Bounds
  BY DEF RelaxBound, Bounds, IntMin
<1>2. Relaxed(D, k) \in Matrices(S)
  BY <1>1 DEF Relaxed, Matrices
<1>3. Extrapolate(S, D, k) \in {D, Minimize(S, Relaxed(D, k))}
  BY DEF Extrapolate, Relaxed
<1> QED
  BY <1>2, <1>3, MinimizeType

(* Extrapolation only adds valuations.                                     *)
THEOREM ExtrapolationLosesNothing ==
  ASSUME INF \in Nat, NEW S, IsFiniteSet(S), NEW D \in Matrices(S),
         NEW k \in 0 .. INF, NEW v \in Valuation(S), Satisfies(v, D)
  PROVE  Satisfies(v, Extrapolate(S, D, k))
<1> DEFINE E == Relaxed(D, k)
<1>1. DOMAIN D = S \X S
  BY DEF Matrices
<1>2. ASSUME NEW p \in S \X S
      PROVE  E[p] = INF \/ v[p[1]] - v[p[2]] <= E[p]
  <2>1. /\ D[p] \in Bounds /\ v[p[1]] \in Int /\ v[p[2]] \in Int
        /\ D[p] = INF \/ v[p[1]] - v[p[2]] <= D[p]
    BY <1>1 DEF Matrices, Valuation, Satisfies
  <2>2. RelaxBound(D[p], k) = INF \/ v[p[1]] - v[p[2]] <= RelaxBound(D[p], k)
    BY <2>1, RelaxedBoundsAreWeaker
  <2> QED
    BY <1>1, <2>1, <2>2 DEF Relaxed
<1>3. E \in Matrices(S) /\ Satisfies(v, E)
  BY <1>1, <1>2, ExtrapolateType DEF Satisfies, Relaxed
<1>4. Extrapolate(S, D, k) = IF E = D THEN D ELSE Minimize(S, E)
  BY DEF Extrapolate, Relaxed
<1> HIDE DEF E
<1> QED
  BY <1>3, <1>4, MinimizeKeepsMeaning

-----------------------------------------------------------------------------
(* Closed form.  Comparing matrices entry by entry decides equality and    *)
(* inclusion only for matrices in closed form, and minimize reaches it as  *)
(* long as no sum saturates.  Which is so if the finite entries are small: *)
(* a bound that becomes finite is the sum of the bounds along a walk, and  *)
(* it never exceeds the sum along some walk without repetition.            *)
ClosedOver(S, T, D) ==
  \A i, j \in S : \A k \in T :
    D[<<i, k>>] # INF /\ D[<<k, j>>] # INF
      => D[<<i, j>>] <= D[<<i, k>>] + D[<<k, j>>]

ZeroDiagonal(S, D) == \A i \in S : D[<<i, i>>] = 0

Within(S, D, low, high) ==
  \A i, j \in S : D[<<i, j>>] = INF \/ (low <= D[<<i, j>>] /\ D[<<i, j>>] <= high)

Below(S, E, D) == \A i, j \in S : E[<<i, j>>] <= D[<<i, j>>]

(* What the rounds over T have found is connected in the original matrix,  *)
(* by a walk whose inner variables are in T: a set that contains x and all *)
(* that is bounded against it or against its members in T has them all.    *)
Walled(S, T, D, V, x) ==
  /\ x \in V /\ V \subseteq S
  /\ \A y \in V \cap (T \cup {x}) : \A z \in S : D[<<y, z>>] # INF => z \in V

Connected(S, T, D, E) ==
  \A x, z \in S : E[<<x, z>>] # INF =>
    \A V \in SUBSET S : Walled(S, T, D, V, x) => z \in V

(* A growing sequence of subsets of a finite set comes to a halt.          *)
LEMMA GrowthHalts ==
  ASSUME NEW T, IsFiniteSet(T), NEW W \in [Nat -> SUBSET T],
         \A r \in Nat : W[r] \subseteq W[r + 1]
  PROVE  \E r \in 0 .. Cardinality(T) : W[r] = W[r + 1]
<1> SUFFICES ASSUME \A r \in 0 .. Cardinality(T) : W[r] # W[r + 1]
             PROVE  FALSE
  OBVIOUS
<1> DEFINE c == Cardinality(T)
           Failing == {n \in Nat : n <= c + 1 /\ ~ (n <= Cardinality(W[n]))}
<1>1. c \in Nat /\ \A n \in Nat : IsFiniteSet(W[n]) /\ Cardinality(W[n]) \in 0 .. c
  <2>1. c \in Nat
    BY FS_CardinalityType
  <2>2. \A n \in Nat : /\ IsFiniteSet(W[n]) /\ Cardinality(W[n]) <= c
                       /\ Cardinality(W[n]) \in Nat
    BY FS_Subset, FS_CardinalityType
  <2> QED
    BY <2>1, <2>2
<1>2. ASSUME NEW n \in Nat, n <= c, n <= Cardinality(W[n])
      PROVE  n + 1 <= Cardinality(W[n + 1])
  <2>1. n \in 0 .. Cardinality(T) /\ n + 1 \in Nat
    BY <1>1, <1>2
  <2>6. W[n] \subseteq W[n + 1] /\ W[n] # W[n + 1]
    BY <2>1
  <2>2. PICK x \in W[n + 1] : x \notin W[n]
    BY <2>6, Zenon
  <2>3. Cardinality(W[n + 1] \ {x}) = Cardinality(W[n + 1]) - 1
    BY <1>1, <2>1, <2>2, FS_RemoveElement
  <2>4. W[n] \subseteq W[n + 1] \ {x} /\ IsFiniteSet(W[n + 1] \ {x})
    BY <1>1, <2>1, <2>2, FS_Subset
  <2>5. Cardinality(W[n]) <= Cardinality(W[n + 1] \ {x})
    BY <2>4, FS_Subset
  <2> QED
    BY <1>1, <1>2, <2>1, <2>3, <2>5
<1>3. Failing = {}
  <2> SUFFICES ASSUME Failing # {} PROVE FALSE
    OBVIOUS
  <2>1. PICK n \in Failing : \A m \in Failing : n <= m
    BY LeastCount
  <2>2. n # 0
    BY <1>1, <2>1
  <2>3. n - 1 \in Nat /\ n - 1 <= c /\ n - 1 \notin Failing
    BY <1>1, <2>1, <2>2
  <2>4. n - 1 <= Cardinality(W[n - 1])
    BY <1>1, <2>3
  <2>5. (n - 1) + 1 <= Cardinality(W[(n - 1) + 1]) /\ (n - 1) + 1 = n
    BY <1>2, <2>1, <2>3, <2>4
  <2> QED
    BY <2>1, <2>5
<1>4. c + 1 \in Nat /\ c + 1 \notin Failing
  BY <1>1, <1>3
<1> QED
  BY <1>1, <1>4

LEMMA OneMore ==
  ASSUME NEW r \in Nat, NEW B \in Nat
  PROVE  /\ (r + 1) * B = r * B + B
         /\ r * B \in Nat
OBVIOUS

LEMMA MoreIsMore ==
  ASSUME NEW r \in Nat, NEW q \in Nat, NEW B \in Nat, r <= q
  PROVE  r * B <= q * B
OBVIOUS

(* Once the rounds over T are done, no finite entry is above |T| + 1 times *)
(* the largest original one.                                               *)
LEMMA WalksAreShort ==
  ASSUME INF \in Nat, NEW S, NEW D \in Matrices(S), NEW E \in Matrices(S),
         NEW T \in SUBSET S, IsFiniteSet(T), NEW B \in Nat,
         \A i, j \in S : D[<<i, j>>] = INF \/ D[<<i, j>>] <= B,
         (Cardinality(T) + 1) * B < INF,
         Below(S, E, D), ClosedOver(S, T, E), ZeroDiagonal(S, E),
         Connected(S, T, D, E)
  PROVE  \A i, j \in S : E[<<i, j>>] = INF \/ E[<<i, j>>] <= (Cardinality(T) + 1) * B
<1> SUFFICES ASSUME NEW x \in S, NEW z \in S, E[<<x, z>>] # INF
             PROVE  E[<<x, z>>] <= (Cardinality(T) + 1) * B
  OBVIOUS
<1> DEFINE c == Cardinality(T)
           V(r) == {y \in S : E[<<x, y>>] <= r * B}
           W == [r \in Nat |-> V(r) \cap T]
<1>1. /\ c \in Nat
      /\ \A y, w \in S : E[<<y, w>>] \in Int /\ D[<<y, w>>] \in Int
  BY FS_CardinalityType DEF Matrices, Bounds, IntMin
<1>2. ASSUME NEW r \in Nat PROVE V(r) \subseteq V(r + 1)
  BY <1>1, OneMore
<1>3. W \in [Nat -> SUBSET T] /\ \A r \in Nat : W[r] \subseteq W[r + 1]
  <2>1. \A r \in Nat : W[r] = V(r) \cap T /\ W[r + 1] = V(r + 1) \cap T
    OBVIOUS
  <2> HIDE DEF V
  <2> QED
    BY <1>2, <2>1
<1>4. PICK r \in 0 .. c : W[r] = W[r + 1]
  <2> HIDE DEF W, V
  <2> QED
    BY <1>3, GrowthHalts
<1>5. V(r) \cap T = V(r + 1) \cap T /\ r \in Nat /\ r + 1 \in Nat
  <2>1. r \in Nat /\ r + 1 \in Nat
    BY <1>1, <1>4
  <2> HIDE DEF V
  <2>2. W[r] = V(r) \cap T /\ W[r + 1] = V(r + 1) \cap T
    BY <2>1
  <2> QED
    BY <1>4, <2>1, <2>2
<1>6. (r + 1) * B = r * B + B /\ r * B \in Nat /\ (r + 1) * B <= (c + 1) * B
  BY <1>1, <1>4, OneMore, MoreIsMore
<1>7. x \in V(r) /\ x \in V(r + 1)
  BY <1>1, <1>6 DEF ZeroDiagonal
<1>8. ASSUME NEW y \in V(r + 1) \cap (T \cup {x}), NEW w \in S, D[<<y, w>>] # INF
      PROVE  w \in V(r + 1)
  <2>1. y \in V(r) /\ y \in S
    BY <1>5, <1>7, <1>8
  <2>2. E[<<y, w>>] <= D[<<y, w>>] /\ D[<<y, w>>] <= B
    BY <1>8, <2>1 DEF Below
  <2>3. E[<<y, w>>] <= B
    BY <1>1, <2>1, <2>2
  <2>4. CASE y = x
    BY <1>1, <1>6, <2>3, <2>4
  <2>5. CASE y \in T
    <3>1. E[<<x, y>>] <= r * B
      BY <2>1
    <3>2. E[<<x, y>>] < INF /\ E[<<y, w>>] < INF
      <4>1. B < INF
        BY <1>1, <1>6
      <4> QED
        BY <1>1, <1>6, <2>1, <2>3, <3>1, <4>1
    <3>3. E[<<x, w>>] <= E[<<x, y>>] + E[<<y, w>>]
      BY <1>1, <2>1, <2>5, <3>2 DEF ClosedOver
    <3> QED
      BY <1>1, <1>6, <2>1, <2>3, <3>1, <3>3
  <2> QED
    BY <1>8, <2>4, <2>5
<1>9. Walled(S, T, D, V(r + 1), x)
  <2> HIDE DEF V
  <2>1. V(r + 1) \subseteq S
    BY DEF V
  <2> QED
    BY <1>7, <1>8, <2>1 DEF Walled
<1>10. z \in V(r + 1)
  <2>1. V(r + 1) \in SUBSET S
    OBVIOUS
  <2> HIDE DEF V
  <2> QED
    BY <1>9, <2>1 DEF Connected
<1> QED
  BY <1>1, <1>6, <1>10

(* A matrix with a valuation has no negative cycle of two.                 *)
LEMMA ThereAndBack ==
  ASSUME INF \in Nat, NEW S, NEW E \in Matrices(S), NEW v \in Valuation(S),
         Satisfies(v, E), NEW i \in S, NEW k \in S,
         E[<<i, k>>] # INF, E[<<k, i>>] # INF
  PROVE  E[<<i, k>>] + E[<<k, i>>] >= 0
<1>1. /\ v[i] - v[k] <= E[<<i, k>>] /\ v[k] - v[i] <= E[<<k, i>>]
      /\ v[i] \in Int /\ v[k] \in Int
      /\ E[<<i, k>>] \in Int /\ E[<<k, i>>] \in Int
  <2>1. DOMAIN E = S \X S /\ <<i, k>> \in S \X S /\ <<k, i>> \in S \X S
    BY DEF Matrices
  <2>2. E[<<i, k>>] \in Int /\ E[<<k, i>>] \in Int /\ v[i] \in Int /\ v[k] \in Int
    BY <2>1 DEF Matrices, Valuation, Bounds, IntMin
  <2> QED
    BY <2>1, <2>2 DEF Satisfies
<1> QED
  BY <1>1

(* What round k does to one entry, when nothing saturates.                 *)
LEMMA RoundEntry ==
  ASSUME INF \in Nat, NEW S, NEW E \in Matrices(S), NEW B \in Nat, NEW U \in Nat,
         B <= U, 2 * U < INF, Within(S, E, -B, U),
         NEW k \in S, NEW i \in S, NEW j \in S
  PROVE  LET e == RelaxVia(k, E)[<<i, j>>]
             left == E[<<i, k>>]
             right == E[<<k, j>>]
         IN  /\ e \in Int /\ e <= E[<<i, j>>]
             /\ left = INF \/ right = INF => e = E[<<i, j>>]
             /\ left # INF /\ right # INF =>
                  /\ e = E[<<i, j>>] \/ e = left + right
                  /\ e <= left + right
                  /\ left + right < INF
<1> DEFINE left == E[<<i, k>>]
           right == E[<<k, j>>]
           old == E[<<i, j>>]
           e == RelaxVia(k, E)[<<i, j>>]
<1>1. /\ left \in Bounds /\ right \in Bounds /\ old \in Bounds
      /\ left = INF \/ (-B <= left /\ left <= U)
      /\ right = INF \/ (-B <= right /\ right <= U)
  BY DEF Matrices, Within
<1>2. e = IF left = INF \/ right = INF THEN old ELSE Smaller(old, SafeAdd(left, right))
  BY DEF RelaxVia, Matrices
<1> HIDE DEF e, left, right, old
<1>3. left # INF /\ right # INF => SafeAdd(left, right) = left + right
  BY <1>1 DEF SafeAdd, Bounds, IntMin
<1>4. left # INF /\ right # INF => left + right < INF
  BY <1>1 DEF Bounds, IntMin
<1>5. e \in Int /\ e <= old
  BY <1>1, <1>2, <1>3 DEF Smaller, Bounds, IntMin
<1>6. left # INF /\ right # INF => (e = old \/ e = left + right) /\ e <= left + right
  BY <1>1, <1>2, <1>3 DEF Smaller, Bounds, IntMin
<1> QED
  BY <1>2, <1>4, <1>5, <1>6 DEF e, left, right, old

(* Round k closes the matrix over k, and keeps it closed over the rest.    *)
LEMMA RoundCloses ==
  ASSUME INF \in Nat, NEW S, NEW D, NEW E \in Matrices(S),
         NEW T \in SUBSET S, NEW k \in S, NEW B \in Nat, NEW U \in Nat,
         B <= U, 2 * U < INF, Within(S, E, -B, U),
         NEW v \in Valuation(S), Satisfies(v, E),
         ClosedOver(S, T, E), ZeroDiagonal(S, E), Connected(S, T, D, E)
  PROVE  LET F == RelaxVia(k, E)
         IN  /\ Below(S, F, E) /\ ZeroDiagonal(S, F)
             /\ ClosedOver(S, T \cup {k}, F) /\ Connected(S, T \cup {k}, D, F)
<1> DEFINE F == RelaxVia(k, E)
<1>1. ASSUME NEW i \in S, NEW j \in S
      PROVE  /\ F[<<i, j>>] \in Int /\ F[<<i, j>>] <= E[<<i, j>>]
             /\ E[<<i, k>>] = INF \/ E[<<k, j>>] = INF => F[<<i, j>>] = E[<<i, j>>]
             /\ E[<<i, k>>] # INF /\ E[<<k, j>>] # INF =>
                  /\ F[<<i, j>>] = E[<<i, j>>]
                       \/ F[<<i, j>>] = E[<<i, k>>] + E[<<k, j>>]
                  /\ F[<<i, j>>] <= E[<<i, k>>] + E[<<k, j>>]
                  /\ E[<<i, k>>] + E[<<k, j>>] < INF
  BY RoundEntry
<1> HIDE DEF F
<1>2. /\ \A i, j \in S : E[<<i, j>>] \in Int /\ E[<<i, j>>] <= INF
      /\ \A i \in S : E[<<i, i>>] = 0
      /\ 0 < INF
  BY DEF ZeroDiagonal, Matrices, Bounds, IntMin
<1>3. \A i, j \in S : E[<<i, j>>] # INF /\ E[<<j, i>>] # INF
                        => E[<<i, j>>] + E[<<j, i>>] >= 0
  BY ThereAndBack
<1>4. Below(S, F, E)
  BY <1>1 DEF Below
<1>5. ZeroDiagonal(S, F)
  <2> SUFFICES ASSUME NEW i \in S PROVE F[<<i, i>>] = 0
    BY DEF ZeroDiagonal
  <2>1. /\ E[<<i, k>>] = INF \/ E[<<k, i>>] = INF => F[<<i, i>>] = E[<<i, i>>]
        /\ E[<<i, k>>] # INF /\ E[<<k, i>>] # INF =>
             F[<<i, i>>] = E[<<i, i>>] \/ F[<<i, i>>] = E[<<i, k>>] + E[<<k, i>>]
        /\ F[<<i, i>>] \in Int /\ F[<<i, i>>] <= E[<<i, i>>]
    BY <1>1
  <2>2. E[<<i, i>>] = 0 /\ E[<<i, k>>] \in Int /\ E[<<k, i>>] \in Int
    BY <1>2
  <2>3. E[<<i, k>>] # INF /\ E[<<k, i>>] # INF => E[<<i, k>>] + E[<<k, i>>] >= 0
    BY <1>3
  <2> QED
    BY <2>1, <2>2, <2>3
<1>6. \A i \in S : F[<<i, k>>] = E[<<i, k>>] /\ F[<<k, i>>] = E[<<k, i>>]
  <2> TAKE i \in S
  <2>3. E[<<k, k>>] = 0 /\ E[<<i, k>>] \in Int /\ E[<<k, i>>] \in Int
    BY <1>2
  <2>1. F[<<i, k>>] = E[<<i, k>>]
    <3>1. /\ E[<<i, k>>] = INF => F[<<i, k>>] = E[<<i, k>>]
          /\ E[<<i, k>>] # INF /\ E[<<k, k>>] # INF =>
               F[<<i, k>>] = E[<<i, k>>] \/ F[<<i, k>>] = E[<<i, k>>] + E[<<k, k>>]
      BY <1>1
    <3> QED
      BY <1>2, <2>3, <3>1
  <2>2. F[<<k, i>>] = E[<<k, i>>]
    <3>1. /\ E[<<k, i>>] = INF => F[<<k, i>>] = E[<<k, i>>]
          /\ E[<<k, k>>] # INF /\ E[<<k, i>>] # INF =>
               F[<<k, i>>] = E[<<k, i>>] \/ F[<<k, i>>] = E[<<k, k>>] + E[<<k, i>>]
      BY <1>1
    <3> QED
      BY <1>2, <2>3, <3>1
  <2> QED
    BY <2>1, <2>2
<1>7. ASSUME NEW i \in S, NEW j \in S, NEW l \in T,
             F[<<i, l>>] # INF, F[<<l, j>>] # INF
      PROVE  F[<<i, j>>] <= F[<<i, l>>] + F[<<l, j>>]
  <2>1. l \in S
    OBVIOUS
  <2>2. CASE F[<<i, l>>] = E[<<i, l>>] /\ F[<<l, j>>] = E[<<l, j>>]
    <3>1. E[<<i, j>>] <= E[<<i, l>>] + E[<<l, j>>]
      BY <1>7, <2>2 DEF ClosedOver
    <3>2. F[<<i, j>>] <= E[<<i, j>>] /\ F[<<i, j>>] \in Int
      BY <1>1
    <3>3. E[<<i, j>>] \in Int /\ E[<<i, l>>] \in Int /\ E[<<l, j>>] \in Int
      BY <1>2, <2>1
    <3> QED
      BY <2>2, <3>1, <3>2, <3>3
  <2>3. CASE /\ F[<<i, l>>] = E[<<i, l>>]
             /\ E[<<l, k>>] # INF /\ E[<<k, j>>] # INF
             /\ F[<<l, j>>] = E[<<l, k>>] + E[<<k, j>>]
    <3>1. E[<<i, k>>] <= E[<<i, l>>] + E[<<l, k>>]
      BY <1>7, <2>3 DEF ClosedOver
    <3>2. E[<<i, k>>] # INF
      <4>1. E[<<i, l>>] + E[<<l, k>>] < INF
        <5>1. E[<<i, l>>] <= U /\ E[<<l, k>>] <= U
          BY <1>7, <2>1, <2>3 DEF Within
        <5> QED
          BY <1>2, <2>1, <5>1
      <4> QED
        BY <1>2, <2>1, <3>1, <4>1
    <3>3. F[<<i, j>>] <= E[<<i, k>>] + E[<<k, j>>]
      BY <1>1, <2>3, <3>2
    <3> QED
      BY <1>1, <1>2, <2>1, <2>3, <3>1, <3>3
  <2>4. CASE /\ F[<<l, j>>] = E[<<l, j>>]
             /\ E[<<i, k>>] # INF /\ E[<<k, l>>] # INF
             /\ F[<<i, l>>] = E[<<i, k>>] + E[<<k, l>>]
    <3>1. E[<<k, j>>] <= E[<<k, l>>] + E[<<l, j>>]
      BY <1>7, <2>4 DEF ClosedOver
    <3>2. E[<<k, j>>] # INF
      <4>1. E[<<k, l>>] + E[<<l, j>>] < INF
        <5>1. E[<<k, l>>] <= U /\ E[<<l, j>>] <= U
          BY <1>7, <2>1, <2>4 DEF Within
        <5> QED
          BY <1>2, <2>1, <5>1
      <4> QED
        BY <1>2, <2>1, <3>1, <4>1
    <3>3. F[<<i, j>>] <= E[<<i, k>>] + E[<<k, j>>]
      BY <1>1, <2>4, <3>2
    <3> QED
      BY <1>1, <1>2, <2>1, <2>4, <3>1, <3>3
  <2>5. CASE /\ E[<<i, k>>] # INF /\ E[<<k, l>>] # INF
             /\ E[<<l, k>>] # INF /\ E[<<k, j>>] # INF
             /\ F[<<i, l>>] = E[<<i, k>>] + E[<<k, l>>]
             /\ F[<<l, j>>] = E[<<l, k>>] + E[<<k, j>>]
    <3>1. E[<<k, l>>] + E[<<l, k>>] >= 0
      BY <1>3, <2>1, <2>5
    <3>2. F[<<i, j>>] <= E[<<i, k>>] + E[<<k, j>>]
      BY <1>1, <2>5
    <3> QED
      BY <1>1, <1>2, <2>1, <2>5, <3>1, <3>2
  <2> QED
    BY <1>1, <2>1, <2>2, <2>3, <2>4, <2>5
<1>8. ClosedOver(S, T \cup {k}, F)
  <2> SUFFICES ASSUME NEW i \in S, NEW j \in S, NEW l \in T \cup {k},
                      F[<<i, l>>] # INF, F[<<l, j>>] # INF
               PROVE  F[<<i, j>>] <= F[<<i, l>>] + F[<<l, j>>]
    BY DEF ClosedOver
  <2>1. CASE l = k
    BY <1>1, <1>6, <2>1
  <2> QED
    BY <1>7, <2>1
<1>9. Connected(S, T \cup {k}, D, F)
  <2> SUFFICES ASSUME NEW x \in S, NEW z \in S, F[<<x, z>>] # INF,
                      NEW V \in SUBSET S, Walled(S, T \cup {k}, D, V, x)
               PROVE  z \in V
    BY DEF Connected
  <2>1. Walled(S, T, D, V, x)
    BY DEF Walled
  <2>2. \A y \in S : E[<<x, y>>] # INF => y \in V
    BY <2>1 DEF Connected
  <2>3. CASE E[<<x, z>>] # INF
    BY <2>2, <2>3
  <2>4. CASE E[<<x, k>>] # INF /\ E[<<k, z>>] # INF
    <3>1. k \in V
      BY <2>2, <2>4
    <3>2. Walled(S, T, D, V, k)
      BY <3>1 DEF Walled
    <3> QED
      BY <2>4, <3>2 DEF Connected
  <2> QED
    BY <1>1, <2>3, <2>4
<1> QED
  BY <1>4, <1>5, <1>8, <1>9 DEF F

(* What holds before the rounds, and is kept by each round, holds after    *)
(* them: <<T, E>> is in Good if E may be the matrix after the rounds of T. *)
LEMMA RoundByRound ==
  ASSUME NEW S, IsFiniteSet(S), NEW D, NEW Good, <<{}, D>> \in Good,
         \A T \in SUBSET S : \A k \in T : \A E :
           <<T \ {k}, E>> \in Good => <<T, RelaxVia(k, E)>> \in Good
  PROVE  <<S, Minimize(S, D)>> \in Good
<1>1. PICK g : g = CHOOSE f : FoldsOver(D, SUBSET S, f)
  OBVIOUS
<1>2. FoldsOver(D, SUBSET S, g)
  BY <1>1, FoldExists
<1>3. \A T \in SUBSET S :
        g[T] = IF T = {} THEN D ELSE Relax(Picked(T), g[T \ {Picked(T)}])
  BY <1>2 DEF FoldsOver
<1> DEFINE Failing == {n \in Nat : \E T \in Subsets(S, n) : <<T, g[T]>> \notin Good}
<1>4. Failing = {}
  <2> SUFFICES ASSUME Failing # {} PROVE FALSE
    OBVIOUS
  <2>1. PICK n \in Failing : \A m \in Failing : n <= m
    BY LeastCount
  <2>2. PICK T \in Subsets(S, n) : <<T, g[T]>> \notin Good
    BY <2>1
  <2>3. T # {} /\ T \in SUBSET S
    BY <1>3, <2>2 DEF Subsets
  <2> DEFINE k == Picked(T)
             R == T \ {k}
  <2>4. k \in T /\ n # 0 /\ R \in Subsets(S, n - 1)
    BY <2>1, <2>2, <2>3, SmallerSubsets
  <2>5. <<R, g[R]>> \in Good
    <3>1. n - 1 \in Nat /\ n - 1 \notin Failing
      BY <2>1, <2>4
    <3> QED
      BY <2>4, <3>1
  <2>6. g[T] = RelaxVia(k, g[R])
    BY <1>3, <2>3 DEF Relax, Whole
  <2>7. <<T, RelaxVia(k, g[R])>> \in Good
    BY <2>3, <2>4, <2>5
  <2> QED
    BY <2>2, <2>6, <2>7
<1>5. <<S, g[S]>> \in Good
  <2>1. Cardinality(S) \in Nat /\ S \in Subsets(S, Cardinality(S))
    BY FS_CardinalityType DEF Subsets
  <2> QED
    BY <1>4, <2>1
<1> QED
  BY <1>1, <1>5, MinimizeIsFold

LEMMA EntriesAreInts ==
  ASSUME INF \in Nat, NEW S, NEW E \in Matrices(S)
  PROVE  \A i, j \in S : E[<<i, j>>] \in Int /\ E[<<i, j>>] <= INF
BY DEF Matrices, Bounds, IntMin

(* A matrix with a valuation from 0 .. B has no entry below -B.            *)
LEMMA NoEntryBelow ==
  ASSUME INF \in Nat, NEW S, NEW E \in Matrices(S), NEW B \in Nat,
         NEW v \in Valuation(S), \A i \in S : v[i] \in 0 .. B, Satisfies(v, E)
  PROVE  \A i, j \in S : -B <= E[<<i, j>>]
<1> TAKE i, j \in S
<1>1. DOMAIN E = S \X S /\ <<i, j>> \in S \X S
  BY DEF Matrices
<1>2. E[<<i, j>>] \in Int /\ v[i] \in 0 .. B /\ v[j] \in 0 .. B
  BY <1>1 DEF Matrices, Bounds, IntMin
<1>3. E[<<i, j>>] = INF \/ v[i] - v[j] <= E[<<i, j>>]
  BY <1>1 DEF Satisfies
<1> QED
  BY <1>2, <1>3

(* minimize reaches the closed form of every matrix that is not empty,     *)
(* if |S| + 1 times its largest entry is far enough from the largest       *)
(* machine integer, in every order of its rounds.                          *)
THEOREM MinimizeCloses ==
  ASSUME INF \in Nat, NEW S, IsFiniteSet(S), NEW D \in Matrices(S), NEW B \in Nat,
         2 * ((Cardinality(S) + 1) * B) < INF,
         \A i, j \in S : D[<<i, j>>] = INF \/ D[<<i, j>>] <= B,
         NEW v \in Valuation(S), \A i \in S : v[i] \in 0 .. B, Satisfies(v, D),
         ZeroDiagonal(S, D)
  PROVE  LET C == Minimize(S, D)
         IN  /\ C \in Matrices(S) /\ Satisfies(v, C)
             /\ ClosedOver(S, S, C) /\ ZeroDiagonal(S, C)
             /\ Below(S, C, D) /\ Within(S, C, -B, (Cardinality(S) + 1) * B)
<1> DEFINE U == (Cardinality(S) + 1) * B
           Round(T, E) == /\ Satisfies(v, E) /\ Below(S, E, D) /\ ZeroDiagonal(S, E)
                          /\ ClosedOver(S, T, E) /\ Connected(S, T, D, E)
           Good == {x \in (SUBSET S) \X Matrices(S) : Round(x[1], x[2])}
<1>1. /\ \A T \in SUBSET S : IsFiniteSet(T) /\ Cardinality(T) \in Nat
                             /\ Cardinality(T) <= Cardinality(S)
      /\ Cardinality(S) \in Nat
  BY FS_Subset, FS_CardinalityType
<1>2. U \in Nat /\ B <= U /\ 2 * U < INF
  <2>1. U = Cardinality(S) * B + B /\ Cardinality(S) * B \in Nat
    BY <1>1, OneMore
  <2> QED
    BY <2>1
<1> HIDE DEF U
<1>3. ASSUME NEW T \in SUBSET S, NEW E \in Matrices(S), Round(T, E)
      PROVE  Within(S, E, -B, U)
  <2>1. (Cardinality(T) + 1) * B <= U
    BY <1>1, MoreIsMore DEF U
  <2>2. (Cardinality(T) + 1) * B \in Nat
    BY <1>1, OneMore
  <2>3. \A i, j \in S : E[<<i, j>>] = INF \/ E[<<i, j>>] <= (Cardinality(T) + 1) * B
    <3>1. (Cardinality(T) + 1) * B < INF
      BY <1>2, <2>1, <2>2
    <3> QED
      BY <1>1, <1>3, <3>1, WalksAreShort
  <2>4. \A i, j \in S : -B <= E[<<i, j>>]
    BY <1>3, NoEntryBelow
  <2> SUFFICES ASSUME NEW i \in S, NEW j \in S, E[<<i, j>>] # INF
               PROVE  -B <= E[<<i, j>>] /\ E[<<i, j>>] <= U
    BY DEF Within
  <2>5. E[<<i, j>>] \in Int
    BY DEF Matrices, Bounds, IntMin
  <2> QED
    BY <1>2, <2>1, <2>2, <2>3, <2>4, <2>5
<1>4. <<{}, D>> \in Good
  <2>1. Below(S, D, D)
    <3> SUFFICES ASSUME NEW i \in S, NEW j \in S PROVE D[<<i, j>>] <= D[<<i, j>>]
      BY DEF Below
    <3>1. D[<<i, j>>] \in Int
      BY EntriesAreInts
    <3> QED
      BY <3>1
  <2>2. ClosedOver(S, {}, D)
    BY DEF ClosedOver
  <2>3. Connected(S, {}, D, D)
    BY DEF Connected, Walled
  <2> QED
    BY <2>1, <2>2, <2>3
<1>5. ASSUME NEW T \in SUBSET S, NEW k \in T, NEW E, <<T \ {k}, E>> \in Good
      PROVE  <<T, RelaxVia(k, E)>> \in Good
  <2>1. E \in Matrices(S) /\ Round(T \ {k}, E) /\ k \in S
    BY <1>5
  <2>2. Within(S, E, -B, U)
    BY <1>3, <2>1
  <2> DEFINE F == RelaxVia(k, E)
  <2>3. F \in Matrices(S) /\ Satisfies(v, F)
    BY <2>1, RelaxKeepsMeaning
  <2>4. /\ Below(S, F, E) /\ ZeroDiagonal(S, F)
        /\ ClosedOver(S, (T \ {k}) \cup {k}, F)
        /\ Connected(S, (T \ {k}) \cup {k}, D, F)
    BY <1>2, <2>1, <2>2, RoundCloses
  <2>5. (T \ {k}) \cup {k} = T
    OBVIOUS
  <2> HIDE DEF F
  <2>6. Below(S, F, D)
    <3> SUFFICES ASSUME NEW i \in S, NEW j \in S PROVE F[<<i, j>>] <= D[<<i, j>>]
      BY DEF Below
    <3>1. F[<<i, j>>] <= E[<<i, j>>] /\ E[<<i, j>>] <= D[<<i, j>>]
      BY <2>1, <2>4 DEF Below
    <3>2. F[<<i, j>>] \in Int /\ E[<<i, j>>] \in Int /\ D[<<i, j>>] \in Int
      BY <2>1, <2>3, EntriesAreInts
    <3> QED
      BY <3>1, <3>2
  <2>7. Round(T, F)
    BY <2>3, <2>4, <2>5, <2>6
  <2> HIDE DEF Round
  <2>8. <<T, F>> \in Good
    BY <2>3, <2>7
  <2> QED
    BY <2>8 DEF F
<1>6. <<S, Minimize(S, D)>> \in Good
  <2> HIDE DEF Good
  <2> QED
    BY <1>4, <1>5, RoundByRound
<1>7. Minimize(S, D) \in Matrices(S) /\ Round(S, Minimize(S, D))
  BY <1>6
<1>8. Within(S, Minimize(S, D), -B, U)
  <2> HIDE DEF Round
  <2> QED
    BY <1>3, <1>7
<1> QED
  BY <1>7, <1>8 DEF U

(* A matrix in closed form in which no clock is negative has a valuation:  *)
(* every variable at its smallest value.                                   *)
Corner(S, D) == [i \in S |-> -D[<<Zero, i>>]]

LEMMA CornerIsInside ==
  ASSUME INF \in Nat \ {0}, NEW S, Zero \in S, NEW D \in Matrices(S), NEW L \in Nat,
         ClosedOver(S, S, D), ZeroDiagonal(S, D),
         \A i \in S : -L <= D[<<Zero, i>>] /\ D[<<Zero, i>>] <= 0
  PROVE  LET c == Corner(S, D)
         IN  /\ c \in Valuation(S) /\ c[Zero] = 0 /\ Satisfies(c, D)
             /\ \A i \in S : c[i] \in 0 .. L /\ c[i] = -D[<<Zero, i>>]
<1> DEFINE c == Corner(S, D)
<1>1. \A i, j \in S : D[<<i, j>>] \in Int
  BY EntriesAreInts
<1>2. \A i \in S : c[i] \in 0 .. L /\ c[i] = -D[<<Zero, i>>]
  BY <1>1 DEF Corner
<1>3. c \in Valuation(S)
  BY <1>2 DEF Corner, Valuation
<1>4. c[Zero] = 0
  <2>1. /\ c[Zero] = -D[<<Zero, Zero>>] /\ c[Zero] \in Int
        /\ D[<<Zero, Zero>>] <= 0 /\ 0 <= D[<<Zero, Zero>>]
        /\ D[<<Zero, Zero>>] \in Int
    BY <1>1, <1>2 DEF ZeroDiagonal
  <2>2. \A d \in Int : d <= 0 /\ 0 <= d => -d <= 0 /\ 0 <= -d
    OBVIOUS
  <2> HIDE DEF c
  <2> QED
    BY <2>1, <2>2
<1>5. ASSUME NEW i \in S, NEW j \in S, D[<<i, j>>] # INF
      PROVE  c[i] - c[j] <= D[<<i, j>>]
  <2>1. D[<<Zero, i>>] # INF
    BY <1>1
  <2>2. D[<<Zero, j>>] <= D[<<Zero, i>>] + D[<<i, j>>]
    BY <1>5, <2>1 DEF ClosedOver
  <2>3. /\ D[<<Zero, j>>] \in Int /\ D[<<Zero, i>>] \in Int /\ D[<<i, j>>] \in Int
        /\ c[i] = -D[<<Zero, i>>] /\ c[j] = -D[<<Zero, j>>]
    BY <1>1, <1>2
  <2> HIDE DEF c
  <2> QED
    BY <2>2, <2>3
<1>6. Satisfies(c, D)
  <2> HIDE DEF c
  <2>1. DOMAIN D = S \X S
    BY DEF Matrices
  <2> QED
    BY <1>5, <2>1 DEF Satisfies
<1> QED
  BY <1>2, <1>3, <1>4, <1>6

(* What tighten does to one entry, when nothing saturates.                 *)
LEMMA PassEntry ==
  ASSUME INF \in Nat, NEW S, NEW D \in Matrices(S), NEW U \in Nat, 3 * U < INF,
         Within(S, D, -U, U), NEW i \in S, NEW j \in S, NEW b \in -U .. U,
         NEW p \in S, NEW q \in S
  PROVE  LET e == TightenVia(D, i, j, b)[<<p, q>>]
             left == D[<<p, i>>]
             right == D[<<j, q>>]
         IN  /\ e \in Int /\ e <= D[<<p, q>>]
             /\ left = INF \/ right = INF => e = D[<<p, q>>]
             /\ left # INF /\ right # INF =>
                  /\ e = D[<<p, q>>] \/ e = left + b + right
                  /\ e <= left + b + right
                  /\ left + b + right < INF
                  /\ -(3 * U) <= left + b + right /\ left + b + right <= 3 * U
<1> DEFINE left == D[<<p, i>>]
           right == D[<<j, q>>]
           old == D[<<p, q>>]
           sum == SafeAdd(left, b)
           e == TightenVia(D, i, j, b)[<<p, q>>]
<1>1. /\ left \in Bounds /\ right \in Bounds /\ old \in Bounds
      /\ left = INF \/ (-U <= left /\ left <= U)
      /\ right = INF \/ (-U <= right /\ right <= U)
      /\ b \in Int /\ -U <= b /\ b <= U
  BY DEF Matrices, Within
<1>2. e = IF left = INF \/ sum = INF \/ right = INF THEN old
          ELSE Smaller(old, SafeAdd(sum, right))
  BY DEF TightenVia, Matrices
<1> HIDE DEF e, left, right, old
<1>3. left # INF => sum = left + b /\ sum # INF
  BY <1>1 DEF SafeAdd, Bounds, IntMin
<1>4. left # INF /\ right # INF => SafeAdd(sum, right) = left + b + right
  <2> HIDE DEF sum
  <2> QED
    BY <1>1, <1>3 DEF SafeAdd, Bounds, IntMin
<1>5. left # INF /\ right # INF =>
        /\ left + b + right < INF
        /\ -(3 * U) <= left + b + right /\ left + b + right <= 3 * U
  BY <1>1 DEF Bounds, IntMin
<1>6. e \in Int /\ e <= old
  <2> HIDE DEF sum
  <2> QED
    BY <1>1, <1>2, <1>3, <1>4, <1>5 DEF Smaller, Bounds, IntMin
<1>7. left # INF /\ right # INF => (e = old \/ e = left + b + right) /\ e <= left + b + right
  <2> HIDE DEF sum
  <2> QED
    BY <1>1, <1>2, <1>3, <1>4, <1>5 DEF Smaller, Bounds, IntMin
<1>8. left = INF \/ right = INF => e = old
  BY <1>2
<1> QED
  BY <1>5, <1>6, <1>7, <1>8 DEF e, left, right, old

(* tighten keeps a matrix in closed form, and it finds the matrix empty    *)
(* exactly when the new bound contradicts the opposite one.                *)
THEOREM TightenCloses ==
  ASSUME INF \in Nat, NEW S, NEW D \in Matrices(S), NEW U \in Nat, 3 * U < INF,
         Within(S, D, -U, U), ClosedOver(S, S, D), ZeroDiagonal(S, D),
         NEW i \in S, NEW j \in S, i # j, NEW b \in -U .. U
  PROVE  LET R == Tighten(S, D, i, j, b)
         IN  /\ R.nonempty <=> D[<<j, i>>] = INF \/ b + D[<<j, i>>] >= 0
             /\ R.nonempty =>
                  /\ ClosedOver(S, S, R.zone) /\ ZeroDiagonal(S, R.zone)
                  /\ Below(S, R.zone, D) /\ Within(S, R.zone, -(3 * U), 3 * U)
                  /\ R.zone[<<i, j>>] <= b
<1> DEFINE old == D[<<i, j>>]
           opposite == D[<<j, i>>]
           T == [D EXCEPT ![<<i, j>>] = b]
           C == TightenVia(T, i, j, b)
           R == Tighten(S, D, i, j, b)
<1>1. /\ \A p, q \in S : D[<<p, q>>] \in Int /\ D[<<p, q>>] <= INF
      /\ \A p, q \in S : D[<<p, q>>] # INF => -U <= D[<<p, q>>] /\ D[<<p, q>>] <= U
      /\ b \in Int /\ -U <= b /\ b <= U
      /\ U \in Int
  BY EntriesAreInts DEF Within
<1>2. opposite # INF => SafeAdd(b, opposite) = b + opposite /\ b + opposite \in Int
  BY <1>1 DEF SafeAdd, IntMin
<1>3. \A p \in S : D[<<p, p>>] = 0
  BY DEF ZeroDiagonal
<1>4. \A p, l, q \in S : D[<<p, l>>] # INF /\ D[<<l, q>>] # INF
        => D[<<p, q>>] <= D[<<p, l>>] + D[<<l, q>>] /\ D[<<p, q>>] # INF
  <2> TAKE p, l, q \in S
  <2> HAVE D[<<p, l>>] # INF /\ D[<<l, q>>] # INF
  <2>1. D[<<p, q>>] <= D[<<p, l>>] + D[<<l, q>>]
    BY DEF ClosedOver
  <2>2. /\ D[<<p, l>>] \in Int /\ D[<<l, q>>] \in Int /\ D[<<p, q>>] \in Int
        /\ D[<<p, l>>] <= U /\ D[<<l, q>>] <= U
    BY <1>1
  <2> QED
    BY <2>1, <2>2
<1>5. CASE old # INF /\ old <= b
  <2>1. R = [nonempty |-> TRUE, zone |-> D]
    BY <1>5 DEF Tighten
  <2>2. opposite = INF \/ b + opposite >= 0
    <3>1. opposite # INF => D[<<i, i>>] <= old + opposite
      BY <1>4, <1>5
    <3>2. D[<<i, i>>] = 0 /\ old \in Int /\ opposite \in Int
      BY <1>1, <1>3
    <3> QED
      BY <1>1, <1>5, <3>1, <3>2
  <2>3. Below(S, D, D)
    <3> SUFFICES ASSUME NEW p \in S, NEW q \in S PROVE D[<<p, q>>] <= D[<<p, q>>]
      BY DEF Below
    <3>1. D[<<p, q>>] \in Int
      BY <1>1
    <3> QED
      BY <3>1
  <2>4. Within(S, D, -(3 * U), 3 * U)
    <3> SUFFICES ASSUME NEW p \in S, NEW q \in S, D[<<p, q>>] # INF
                 PROVE  -(3 * U) <= D[<<p, q>>] /\ D[<<p, q>>] <= 3 * U
      BY DEF Within
    <3>1. D[<<p, q>>] \in Int /\ -U <= D[<<p, q>>] /\ D[<<p, q>>] <= U
      BY <1>1
    <3> QED
      BY <3>1
  <2> QED
    BY <1>5, <2>1, <2>2, <2>3, <2>4
<1>6. CASE ~ (old # INF /\ old <= b) /\ opposite # INF /\ b + opposite < 0
  <2>1. R.nonempty = FALSE
    BY <1>2, <1>6 DEF Tighten
  <2> QED
    BY <1>1, <1>6, <2>1
<1>7. CASE ~ (old # INF /\ old <= b) /\ (opposite = INF \/ b + opposite >= 0)
  <2>1. R = [nonempty |-> ~ NegativeDiagonal(S, C), zone |-> C]
    BY <1>1, <1>2, <1>7 DEF Tighten
  <2>2. /\ T \in Matrices(S) /\ Within(S, T, -U, U)
        /\ T[<<i, j>>] = b
        /\ \A p, q \in S : <<p, q>> # <<i, j>> => T[<<p, q>>] = D[<<p, q>>]
    <3>1. b \in Bounds
      BY <1>1 DEF Bounds, IntMin
    <3>2. T \in Matrices(S)
      BY <3>1 DEF Matrices
    <3>3. /\ T[<<i, j>>] = b
          /\ \A p, q \in S : <<p, q>> # <<i, j>> => T[<<p, q>>] = D[<<p, q>>]
      BY DEF Matrices
    <3> HIDE DEF T
    <3>4. Within(S, T, -U, U)
      BY <1>1, <3>3 DEF Within
    <3> QED
      BY <3>2, <3>3, <3>4
  <2> HIDE DEF T
  <2>3. b < old /\ old \in Int
    BY <1>1, <1>7
  <2>4. ASSUME NEW p \in S, NEW q \in S
        PROVE  LET left == D[<<p, i>>]
                   right == D[<<j, q>>]
               IN  /\ C[<<p, q>>] \in Int /\ C[<<p, q>>] <= D[<<p, q>>]
                   /\ left = INF \/ right = INF => C[<<p, q>>] = D[<<p, q>>]
                   /\ left # INF /\ right # INF =>
                        /\ C[<<p, q>>] = D[<<p, q>>] \/ C[<<p, q>>] = left + b + right
                        /\ C[<<p, q>>] <= left + b + right
                        /\ -(3 * U) <= left + b + right /\ left + b + right <= 3 * U
    <3>1. T[<<p, i>>] = D[<<p, i>>] /\ T[<<j, q>>] = D[<<j, q>>]
      BY <2>2
    <3> DEFINE left == D[<<p, i>>]
               right == D[<<j, q>>]
    <3>2. /\ C[<<p, q>>] \in Int /\ C[<<p, q>>] <= T[<<p, q>>]
          /\ left = INF \/ right = INF => C[<<p, q>>] = T[<<p, q>>]
          /\ left # INF /\ right # INF =>
               /\ C[<<p, q>>] = T[<<p, q>>] \/ C[<<p, q>>] = left + b + right
               /\ C[<<p, q>>] <= left + b + right
               /\ -(3 * U) <= left + b + right /\ left + b + right <= 3 * U
      BY <2>2, <3>1, PassEntry
    <3> HIDE DEF C
    <3>3. CASE <<p, q>> # <<i, j>>
      <4>1. T[<<p, q>>] = D[<<p, q>>]
        BY <2>2, <3>3
      <4> QED
        BY <3>2, <4>1
    <3>4. CASE p = i /\ q = j
      <4>1. /\ T[<<p, q>>] = b /\ left = 0 /\ right = 0 /\ D[<<p, q>>] = old
            /\ left + b + right = b /\ INF # 0
        BY <1>1, <1>3, <2>2, <3>4
      <4> HIDE DEF left, right
      <4>2. C[<<p, q>>] \in Int /\ C[<<p, q>>] = b
        BY <1>1, <3>2, <4>1
      <4>3. b <= old
        BY <1>1, <2>3
      <4>4. C[<<p, q>>] = left + b + right /\ C[<<p, q>>] <= D[<<p, q>>]
        BY <4>1, <4>2, <4>3
      <4> QED
        BY <3>2, <4>1, <4>4 DEF left, right
    <3> QED
      BY <3>3, <3>4
  <2> HIDE DEF C
  <2>6. \A l \in S : D[<<j, l>>] # INF /\ D[<<l, i>>] # INF
                       => b + D[<<j, l>>] + D[<<l, i>>] >= 0
    <3> TAKE l \in S
    <3> HAVE D[<<j, l>>] # INF /\ D[<<l, i>>] # INF
    <3>1. opposite <= D[<<j, l>>] + D[<<l, i>>] /\ opposite # INF
      BY <1>4
    <3>2. D[<<j, l>>] \in Int /\ D[<<l, i>>] \in Int /\ opposite \in Int
      BY <1>1
    <3> QED
      BY <1>1, <1>7, <3>1, <3>2
  <2>7. ZeroDiagonal(S, C)
    <3> SUFFICES ASSUME NEW p \in S PROVE C[<<p, p>>] = 0
      BY DEF ZeroDiagonal
    <3>1. D[<<p, p>>] = 0 /\ D[<<p, i>>] \in Int /\ D[<<j, p>>] \in Int
      BY <1>1, <1>3
    <3>2. D[<<j, p>>] # INF /\ D[<<p, i>>] # INF => b + D[<<j, p>>] + D[<<p, i>>] >= 0
      BY <2>6
    <3>3. /\ C[<<p, p>>] \in Int /\ C[<<p, p>>] <= D[<<p, p>>]
          /\ D[<<p, i>>] = INF \/ D[<<j, p>>] = INF => C[<<p, p>>] = D[<<p, p>>]
          /\ D[<<p, i>>] # INF /\ D[<<j, p>>] # INF =>
               C[<<p, p>>] = D[<<p, p>>] \/ C[<<p, p>>] = D[<<p, i>>] + b + D[<<j, p>>]
      BY <2>4
    <3> QED
      BY <1>1, <3>1, <3>2, <3>3
  <2>8. ASSUME NEW p \in S, NEW q \in S, NEW l \in S,
               C[<<p, l>>] # INF, C[<<l, q>>] # INF
        PROVE  C[<<p, q>>] <= C[<<p, l>>] + C[<<l, q>>]
    <3>1. /\ D[<<p, i>>] \in Int /\ D[<<j, q>>] \in Int /\ D[<<p, l>>] \in Int
          /\ D[<<l, q>>] \in Int /\ D[<<j, l>>] \in Int /\ D[<<l, i>>] \in Int
          /\ D[<<p, q>>] \in Int
      BY <1>1
    <3>2. C[<<p, q>>] \in Int /\ C[<<p, q>>] <= D[<<p, q>>]
      BY <2>4
    <3>3. D[<<p, i>>] # INF /\ D[<<j, q>>] # INF
            => C[<<p, q>>] <= D[<<p, i>>] + b + D[<<j, q>>]
      BY <2>4
    <3>4. \/ C[<<p, l>>] = D[<<p, l>>]
          \/ /\ D[<<p, i>>] # INF /\ D[<<j, l>>] # INF
             /\ C[<<p, l>>] = D[<<p, i>>] + b + D[<<j, l>>]
      BY <2>4
    <3>5. \/ C[<<l, q>>] = D[<<l, q>>]
          \/ /\ D[<<l, i>>] # INF /\ D[<<j, q>>] # INF
             /\ C[<<l, q>>] = D[<<l, i>>] + b + D[<<j, q>>]
      BY <2>4
    <3>6. CASE C[<<p, l>>] = D[<<p, l>>] /\ C[<<l, q>>] = D[<<l, q>>]
      <4>1. D[<<p, q>>] <= D[<<p, l>>] + D[<<l, q>>]
        BY <1>4, <2>8, <3>6
      <4> QED
        BY <3>1, <3>2, <3>6, <4>1
    <3>7. CASE /\ C[<<p, l>>] = D[<<p, l>>]
               /\ D[<<l, i>>] # INF /\ D[<<j, q>>] # INF
               /\ C[<<l, q>>] = D[<<l, i>>] + b + D[<<j, q>>]
      <4>1. D[<<p, i>>] <= D[<<p, l>>] + D[<<l, i>>] /\ D[<<p, i>>] # INF
        BY <1>4, <2>8, <3>7
      <4> QED
        BY <1>1, <3>1, <3>2, <3>3, <3>7, <4>1
    <3>8. CASE /\ C[<<l, q>>] = D[<<l, q>>]
               /\ D[<<p, i>>] # INF /\ D[<<j, l>>] # INF
               /\ C[<<p, l>>] = D[<<p, i>>] + b + D[<<j, l>>]
      <4>1. D[<<j, q>>] <= D[<<j, l>>] + D[<<l, q>>] /\ D[<<j, q>>] # INF
        BY <1>4, <2>8, <3>8
      <4> QED
        BY <1>1, <3>1, <3>2, <3>3, <3>8, <4>1
    <3>9. CASE /\ D[<<p, i>>] # INF /\ D[<<j, l>>] # INF
               /\ D[<<l, i>>] # INF /\ D[<<j, q>>] # INF
               /\ C[<<p, l>>] = D[<<p, i>>] + b + D[<<j, l>>]
               /\ C[<<l, q>>] = D[<<l, i>>] + b + D[<<j, q>>]
      <4>1. b + D[<<j, l>>] + D[<<l, i>>] >= 0
        BY <2>6, <3>9
      <4> QED
        BY <1>1, <3>1, <3>2, <3>3, <3>9, <4>1
    <3> QED
      BY <3>4, <3>5, <3>6, <3>7, <3>8, <3>9
  <2>9. ClosedOver(S, S, C)
    BY <2>8 DEF ClosedOver
  <2>10. Below(S, C, D)
    BY <2>4 DEF Below
  <2>11. Within(S, C, -(3 * U), 3 * U)
    <3> SUFFICES ASSUME NEW p \in S, NEW q \in S, C[<<p, q>>] # INF
                 PROVE  -(3 * U) <= C[<<p, q>>] /\ C[<<p, q>>] <= 3 * U
      BY DEF Within
    <3>1. \/ C[<<p, q>>] = D[<<p, q>>]
          \/ /\ C[<<p, q>>] = D[<<p, i>>] + b + D[<<j, q>>]
             /\ -(3 * U) <= D[<<p, i>>] + b + D[<<j, q>>]
             /\ D[<<p, i>>] + b + D[<<j, q>>] <= 3 * U
      BY <2>4
    <3>2. D[<<p, q>>] # INF =>
            D[<<p, q>>] \in Int /\ -(3 * U) <= D[<<p, q>>] /\ D[<<p, q>>] <= 3 * U
      <4>1. D[<<p, q>>] # INF =>
              D[<<p, q>>] \in Int /\ -U <= D[<<p, q>>] /\ D[<<p, q>>] <= U
        BY <1>1
      <4> QED
        BY <4>1
    <3> QED
      BY <3>1, <3>2
  <2>12. C[<<i, j>>] <= b
    <3>1. D[<<i, i>>] = 0 /\ D[<<j, j>>] = 0 /\ 0 # INF
      BY <1>1, <1>3
    <3>2. D[<<i, i>>] # INF /\ D[<<j, j>>] # INF
            => C[<<i, j>>] <= D[<<i, i>>] + b + D[<<j, j>>]
      BY <2>4
    <3>3. C[<<i, j>>] \in Int
      BY <2>4
    <3> QED
      BY <1>1, <3>1, <3>2, <3>3
  <2>13. ~ NegativeDiagonal(S, C)
    <3> SUFFICES ASSUME NEW p \in S PROVE ~ (C[<<p, p>>] < 0)
      BY DEF NegativeDiagonal
    <3>1. C[<<p, p>>] = 0
      BY <2>7 DEF ZeroDiagonal
    <3> QED
      BY <3>1
  <2>14. R.nonempty /\ R.zone = C
    <3> HIDE DEF R
    <3>1. R.nonempty = ~ NegativeDiagonal(S, C) /\ R.zone = C
      BY <2>1
    <3> QED
      BY <2>13, <3>1, Zenon
  <2> HIDE DEF R
  <2> QED
    BY <1>7, <2>7, <2>9, <2>10, <2>11, <2>12, <2>14 DEF R
<1> HIDE DEF R, T, C
<1> QED
  BY <1>1, <1>5, <1>6, <1>7 DEF R

(* extrapolate ends with a matrix in closed form, with no bound above the  *)
(* one it was relaxed to.                                                  *)
THEOREM ExtrapolateCloses ==
  ASSUME INF \in Nat \ {0}, NEW S, IsFiniteSet(S), Zero \in S, NEW D \in Matrices(S),
         NEW B \in Nat, 2 * ((Cardinality(S) + 1) * B) < INF,
         ClosedOver(S, S, D), ZeroDiagonal(S, D),
         \A i \in S : -B <= D[<<Zero, i>>] /\ D[<<Zero, i>>] <= 0,
         NEW k \in 0 .. INF, k <= B
  PROVE  LET E == Extrapolate(S, D, k)
         IN  /\ E \in Matrices(S) /\ ClosedOver(S, S, E) /\ ZeroDiagonal(S, E)
             /\ Below(S, E, Relaxed(D, k)) /\ Satisfies(Corner(S, D), E)
<1> DEFINE E == Relaxed(D, k)
           c == Corner(S, D)
<1>1. /\ c \in Valuation(S) /\ Satisfies(c, D)
      /\ \A i \in S : c[i] \in 0 .. B
  BY CornerIsInside
<1>2. E \in Matrices(S) /\ Extrapolate(S, D, k) \in Matrices(S)
  BY ExtrapolateType
<1>3. Extrapolate(S, D, k) = IF E = D THEN D ELSE Minimize(S, E)
  BY DEF Extrapolate, Relaxed
<1>4. DOMAIN D = S \X S
  BY DEF Matrices
<1>5. \A i, j \in S : E[<<i, j>>] =
        IF i = j THEN D[<<i, j>>] ELSE RelaxBound(D[<<i, j>>], k)
  BY <1>4 DEF Relaxed
<1>6. Satisfies(c, E)
  <2> HIDE DEF c
  <2> SUFFICES ASSUME NEW p \in S \X S
               PROVE  E[p] = INF \/ c[p[1]] - c[p[2]] <= E[p]
    BY <1>4 DEF Satisfies, Relaxed
  <2>1. /\ D[p] \in Bounds /\ c[p[1]] \in Int /\ c[p[2]] \in Int
        /\ D[p] = INF \/ c[p[1]] - c[p[2]] <= D[p]
    BY <1>1, <1>4 DEF Matrices, Valuation, Satisfies
  <2>2. RelaxBound(D[p], k) = INF \/ c[p[1]] - c[p[2]] <= RelaxBound(D[p], k)
    BY <2>1, RelaxedBoundsAreWeaker
  <2> QED
    BY <1>4, <2>1, <2>2 DEF Relaxed
<1>7. ZeroDiagonal(S, E)
  <2> HIDE DEF E
  <2> QED
    BY <1>5 DEF ZeroDiagonal
<1>8. \A i, j \in S : E[<<i, j>>] = INF \/ E[<<i, j>>] <= B
  <2> TAKE i, j \in S
  <2>1. D[<<i, j>>] \in Int
    BY EntriesAreInts
  <2>2. CASE i = j
    <3>1. E[<<i, j>>] = 0
      BY <1>7, <2>2 DEF ZeroDiagonal
    <3> HIDE DEF E
    <3> QED
      BY <3>1
  <2>3. CASE i # j
    <3> HIDE DEF E
    <3> QED
      BY <1>5, <2>1, <2>3 DEF RelaxBound
  <2> QED
    BY <2>2, <2>3
<1> HIDE DEF E, c
<1>9. CASE E = D
  <2>1. Below(S, D, D)
    <3> SUFFICES ASSUME NEW i \in S, NEW j \in S PROVE D[<<i, j>>] <= D[<<i, j>>]
      BY DEF Below
    <3>1. D[<<i, j>>] \in Int
      BY EntriesAreInts
    <3> QED
      BY <3>1
  <2>2. Below(S, D, E)
    BY <1>9, <2>1
  <2>3. Extrapolate(S, D, k) = D
    BY <1>3, <1>9
  <2> QED
    BY <1>1, <1>2, <2>2, <2>3 DEF E, c
<1>10. CASE E # D
  <2>1. Extrapolate(S, D, k) = Minimize(S, E)
    BY <1>3, <1>10
  <2>2. /\ ClosedOver(S, S, Minimize(S, E)) /\ ZeroDiagonal(S, Minimize(S, E))
        /\ Below(S, Minimize(S, E), E) /\ Satisfies(c, Minimize(S, E))
    BY <1>1, <1>2, <1>6, <1>7, <1>8, MinimizeCloses
  <2> QED
    BY <1>2, <2>1, <2>2 DEF E, c
<1> QED
  BY <1>9, <1>10

(* For matrices in closed form included_in is exact: it returns true       *)
(* exactly when every valuation of the first matrix is one of the second.  *)
THEOREM InclusionIsExact ==
  ASSUME INF \in Nat \ {0}, NEW S, Zero \in S,
         NEW D \in Matrices(S), NEW E \in Matrices(S), NEW U \in Nat, 3 * (U + 1) < INF,
         Within(S, D, -U, U), Within(S, E, -U, U),
         ClosedOver(S, S, D), ZeroDiagonal(S, D),
         \A i \in S : D[<<Zero, i>>] <= 0
  PROVE  IncludedIn(D, E) <=>
           \A v \in Valuation(S) : v[Zero] = 0 /\ Satisfies(v, D) => Satisfies(v, E)
<1>1. DOMAIN D = S \X S /\ DOMAIN E = S \X S
  BY DEF Matrices
<1>2. IncludedIn(D, E) => \A v \in Valuation(S) : Satisfies(v, D) => Satisfies(v, E)
  BY IncludedInIsSound
<1>3. ASSUME \A v \in Valuation(S) : v[Zero] = 0 /\ Satisfies(v, D) => Satisfies(v, E),
             NEW i \in S, NEW j \in S, E[<<i, j>>] # INF,
             ~ (D[<<i, j>>] # INF /\ D[<<i, j>>] <= E[<<i, j>>])
      PROVE  FALSE
  <2> DEFINE e == E[<<i, j>>]
             b == -(e + 1)
             R == Tighten(S, D, j, i, b)
  <2>1. /\ \A x, y \in S : D[<<x, y>>] \in Int /\ D[<<x, y>>] <= INF
        /\ \A x, y \in S : D[<<x, y>>] # INF => -U <= D[<<x, y>>] /\ D[<<x, y>>] <= U
    BY EntriesAreInts DEF Within
  <2>2. e \in Int /\ -U <= e /\ e <= U
    BY <1>3, EntriesAreInts DEF Within
  <2>3. b \in -(U + 1) .. (U + 1) /\ b \in Int
    BY <2>2
  <2>4. i # j
    <3> SUFFICES ASSUME i = j PROVE FALSE
      OBVIOUS
    <3>1. /\ Corner(S, D) \in Valuation(S) /\ Corner(S, D)[Zero] = 0
          /\ Satisfies(Corner(S, D), D)
      <4>1. \A x \in S : -U <= D[<<Zero, x>>] /\ D[<<Zero, x>>] <= 0
        <5> TAKE x \in S
        <5>1. D[<<Zero, x>>] # INF /\ D[<<Zero, x>>] <= 0
          BY <2>1
        <5> QED
          BY <2>1, <5>1
      <4> QED
        BY <4>1, CornerIsInside
    <3>2. Satisfies(Corner(S, D), E) /\ Corner(S, D)[i] \in Int
      BY <1>3, <3>1 DEF Valuation
    <3>3. Corner(S, D)[i] - Corner(S, D)[i] <= E[<<i, i>>]
      <4>1. <<i, i>> \in DOMAIN E
        BY <1>1
      <4>2. E[<<i, i>>] = INF \/ Corner(S, D)[i] - Corner(S, D)[i] <= E[<<i, i>>]
        BY <3>2, <4>1 DEF Satisfies
      <4> QED
        BY <1>3, <4>2
    <3>4. D[<<i, j>>] = 0
      BY DEF ZeroDiagonal
    <3> QED
      BY <1>3, <2>1, <2>2, <3>2, <3>3, <3>4
  <2>5. D[<<i, j>>] = INF \/ b + D[<<i, j>>] >= 0
    BY <1>3, <2>1, <2>2
  <2>6. Within(S, D, -(U + 1), U + 1)
    <3> SUFFICES ASSUME NEW x \in S, NEW y \in S, D[<<x, y>>] # INF
                 PROVE  -(U + 1) <= D[<<x, y>>] /\ D[<<x, y>>] <= U + 1
      BY DEF Within
    <3>1. D[<<x, y>>] \in Int /\ -U <= D[<<x, y>>] /\ D[<<x, y>>] <= U
      BY <2>1
    <3> QED
      BY <3>1
  <2> HIDE DEF b
  <2>7. /\ R.nonempty
        /\ ClosedOver(S, S, R.zone) /\ ZeroDiagonal(S, R.zone)
        /\ Below(S, R.zone, D) /\ Within(S, R.zone, -(3 * (U + 1)), 3 * (U + 1))
        /\ R.zone[<<j, i>>] <= b
    <3>1. U + 1 \in Nat
      OBVIOUS
    <3> QED
      BY <2>3, <2>4, <2>5, <2>6, <3>1, TightenCloses
  <2>8. b \in Bounds /\ b # INF
    BY <2>3 DEF Bounds, IntMin
  <2>9. R.zone \in Matrices(S)
    BY <2>8, TightenType
  <2> HIDE DEF R
  <2> DEFINE c == Corner(S, R.zone)
  <2>10. c \in Valuation(S) /\ c[Zero] = 0 /\ Satisfies(c, R.zone)
    <3>1. \A x \in S : -(3 * (U + 1)) <= R.zone[<<Zero, x>>] /\ R.zone[<<Zero, x>>] <= 0
      <4> TAKE x \in S
      <4>1. R.zone[<<Zero, x>>] \in Int /\ D[<<Zero, x>>] \in Int
        BY <2>9, EntriesAreInts
      <4>2. R.zone[<<Zero, x>>] <= D[<<Zero, x>>] /\ D[<<Zero, x>>] <= 0
        BY <2>7 DEF Below
      <4>3. R.zone[<<Zero, x>>] <= 0 /\ R.zone[<<Zero, x>>] # INF
        BY <4>1, <4>2
      <4> QED
        BY <2>7, <4>3 DEF Within
    <3>2. 3 * (U + 1) \in Nat
      OBVIOUS
    <3> QED
      BY <2>7, <2>9, <3>1, <3>2, CornerIsInside
  <2> HIDE DEF c
  <2>11. Satisfies(c, D)
    <3>1. LET left == Satisfies(c, D) /\ c[j] - c[i] <= b
          IN  IF R.nonempty THEN Satisfies(c, R.zone) <=> left ELSE ~ left
      BY <2>8, <2>10, TightenIsIntersection DEF R
    <3> QED
      BY <2>7, <2>10, <3>1
  <2>12. c[j] - c[i] <= R.zone[<<j, i>>]
    <3>1. DOMAIN R.zone = S \X S /\ R.zone[<<j, i>>] \in Int
      BY <2>9, EntriesAreInts DEF Matrices
    <3>2. <<j, i>> \in DOMAIN R.zone /\ <<j, i>>[1] = j /\ <<j, i>>[2] = i
      BY <3>1
    <3>3. R.zone[<<j, i>>] = INF \/ c[j] - c[i] <= R.zone[<<j, i>>]
      BY <2>10, <3>2 DEF Satisfies
    <3>4. R.zone[<<j, i>>] # INF
      BY <2>3, <2>7, <3>1
    <3> QED
      BY <3>3, <3>4
  <2>13. c[i] - c[j] <= e
    <3>1. Satisfies(c, E) /\ <<i, j>> \in DOMAIN E
      BY <1>1, <1>3, <2>10, <2>11
    <3> QED
      BY <1>3, <3>1 DEF Satisfies
  <2>14. c[i] \in Int /\ c[j] \in Int /\ R.zone[<<j, i>>] \in Int
    BY <2>9, <2>10, EntriesAreInts DEF Valuation
  <2> QED
    BY <2>2, <2>7, <2>12, <2>13, <2>14 DEF b
<1>4. ASSUME \A v \in Valuation(S) : v[Zero] = 0 /\ Satisfies(v, D) => Satisfies(v, E)
      PROVE  IncludedIn(D, E)
  <2> SUFFICES ASSUME NEW p \in S \X S
               PROVE  E[p] = INF \/ (D[p] # INF /\ D[p] <= E[p])
    BY <1>1 DEF IncludedIn
  <2>1. PICK i, j \in S : p = <<i, j>>
    OBVIOUS
  <2> QED
    BY <1>3, <1>4, <2>1
<1> QED
  BY <1>2, <1>4

-----------------------------------------------------------------------------
(* Widened matrices are small.  If no bound of a matrix is below -k, gaps  *)
(* of more than k between the values of a valuation can be narrowed: a     *)
(* matrix with a valuation has one between 0 and |S| * k.                  *)
LowerPoint(S, R, h) ==
  \E w \in Valuation(S) : Satisfies(w, R) /\ \A i \in S : w[i] \in 0 .. h

LEMMA GapsCanBeNarrowed ==
  ASSUME INF \in Nat, NEW S, NEW R \in Matrices(S), NEW k \in Nat,
         \A i, j \in S : R[<<i, j>>] = INF \/ -k <= R[<<i, j>>],
         NEW w \in Valuation(S), Satisfies(w, R),
         NEW h \in Nat, \A i \in S : w[i] \in 0 .. h,
         NEW low \in Nat, low < h,
         \A i \in S : ~ (low < w[i] /\ w[i] <= low + k)
  PROVE  LowerPoint(S, R, h - 1)
<1> DEFINE x == [i \in S |-> IF w[i] <= low THEN w[i] ELSE w[i] - 1]
<1>1. ASSUME NEW i \in S
      PROVE  /\ w[i] \in Int /\ x[i] \in Int /\ x[i] \in 0 .. h - 1
             /\ (w[i] <= low /\ x[i] = w[i])
                  \/ (low + k + 1 <= w[i] /\ low < w[i] /\ x[i] = w[i] - 1)
  <2>1. w[i] \in 0 .. h /\ ~ (low < w[i] /\ w[i] <= low + k)
    OBVIOUS
  <2> QED
    BY <2>1
<1>2. x \in Valuation(S)
  BY <1>1 DEF Valuation
<1>3. DOMAIN R = S \X S
  BY DEF Matrices
<1>4. ASSUME NEW i \in S, NEW j \in S, R[<<i, j>>] # INF
      PROVE  x[i] - x[j] <= R[<<i, j>>]
  <2> DEFINE r == R[<<i, j>>]
  <2>1. r \in Int /\ -k <= r
    BY <1>4, EntriesAreInts
  <2>2. w[i] - w[j] <= r
    BY <1>3, <1>4 DEF Satisfies
  <2> DEFINE wi == w[i]
             wj == w[j]
             xi == x[i]
             xj == x[j]
  <2>3. /\ wi \in Int /\ xi \in Int
        /\ (wi <= low /\ xi = wi) \/ (low + k + 1 <= wi /\ low < wi /\ xi = wi - 1)
        /\ wj \in Int /\ xj \in Int
        /\ (wj <= low /\ xj = wj) \/ (low + k + 1 <= wj /\ low < wj /\ xj = wj - 1)
    BY <1>1
  <2>4. wi - wj <= r
    BY <2>2
  <2> HIDE DEF wi, wj, xi, xj, r, x
  <2>5. xi - xj <= r
    BY <2>1, <2>3, <2>4
  <2> QED
    BY <2>5 DEF xi, xj, r
<1> HIDE DEF x
<1>5. Satisfies(x, R)
  BY <1>3, <1>4 DEF Satisfies
<1> QED
  BY <1>1, <1>2, <1>5 DEF LowerPoint

LEMMA LowPoint ==
  ASSUME INF \in Nat, NEW S, IsFiniteSet(S), NEW R \in Matrices(S), NEW k \in Nat,
         \A i, j \in S : R[<<i, j>>] = INF \/ -k <= R[<<i, j>>],
         NEW B \in Nat, LowerPoint(S, R, B)
  PROVE  LowerPoint(S, R, Cardinality(S) * k)
<1> DEFINE c == Cardinality(S)
           Heights == {h \in Nat : LowerPoint(S, R, h)}
<1>1. c \in Nat /\ c * k \in Nat
  <2>1. c \in Nat
    BY FS_CardinalityType
  <2> HIDE DEF c
  <2> QED
    BY <2>1
<1>2. PICK h \in Heights : \A g \in Heights : h <= g
  BY LeastCount
<1>3. PICK w \in Valuation(S) : Satisfies(w, R) /\ \A i \in S : w[i] \in 0 .. h
  BY <1>2 DEF LowerPoint
<1>4. h <= c * k
  <2> SUFFICES ASSUME ~ (h <= c * k) PROVE FALSE
    OBVIOUS
  <2> DEFINE W == [l \in Nat |-> {i \in S : w[i] <= l * k}]
  <2>1. \A l \in Nat : l * k \in Nat /\ (l + 1) * k = l * k + k
    BY OneMore
  <2>2. W \in [Nat -> SUBSET S]
    OBVIOUS
  <2>3. \A l \in Nat : W[l] \subseteq W[l + 1]
    <3> TAKE l \in Nat
    <3> DEFINE p == l * k
               q == (l + 1) * k
    <3>1. p \in Nat /\ q = p + k
      BY <2>1
    <3>2. W[l] = {i \in S : w[i] <= p} /\ W[l + 1] = {i \in S : w[i] <= q}
      OBVIOUS
    <3> HIDE DEF p, q, W
    <3>3. \A i \in S : w[i] <= p => w[i] <= q
      <4> TAKE i \in S
      <4>1. w[i] \in 0 .. h
        BY <1>3
      <4> QED
        BY <1>2, <3>1, <4>1
    <3> QED
      BY <3>2, <3>3
  <2> HIDE DEF W
  <2>4. PICK l \in 0 .. Cardinality(S) : W[l] = W[l + 1]
    BY <2>2, <2>3, GrowthHalts
  <2>5. l \in Nat /\ l <= c
    BY <1>1, <2>4
  <2> DEFINE low == l * k
  <2>6. low \in Nat /\ (l + 1) * k = low + k /\ low <= c * k
    BY <1>1, <2>1, <2>5, MoreIsMore
  <2>7. low < h
    BY <1>1, <1>2, <2>6
  <2>8. \A i \in S : ~ (low < w[i] /\ w[i] <= low + k)
    <3> TAKE i \in S
    <3>1. i \in W[l] <=> w[i] <= low
      BY <2>5 DEF W
    <3>2. i \in W[l + 1] <=> w[i] <= low + k
      BY <2>5, <2>6 DEF W
    <3>3. w[i] \in 0 .. h
      BY <1>3
    <3> HIDE DEF low
    <3> QED
      BY <2>4, <2>6, <3>1, <3>2, <3>3
  <2> HIDE DEF low
  <2>9. LowerPoint(S, R, h - 1)
    BY <1>2, <1>3, <2>6, <2>7, <2>8, GapsCanBeNarrowed
  <2>10. h - 1 \in Heights
    BY <1>2, <2>6, <2>7, <2>9
  <2> QED
    BY <1>2, <2>10
<1>5. \A i \in S : w[i] \in 0 .. c * k
  <2> DEFINE p == c * k
  <2>1. p \in Nat /\ h \in Nat /\ h <= p
    BY <1>1, <1>2, <1>4
  <2> HIDE DEF p
  <2>2. \A i \in S : w[i] \in 0 .. p
    BY <1>3, <2>1
  <2> QED
    BY <2>2 DEF p
<1> QED
  BY <1>3, <1>5 DEF LowerPoint

LEMMA WithinMore ==
  ASSUME INF \in Nat, NEW S, NEW E \in Matrices(S),
         NEW low \in Int, NEW high \in Int, Within(S, E, low, high),
         NEW L \in Nat, -L <= low, high <= L
  PROVE  Within(S, E, -L, L)
<1> SUFFICES ASSUME NEW i \in S, NEW j \in S, E[<<i, j>>] # INF
             PROVE  -L <= E[<<i, j>>] /\ E[<<i, j>>] <= L
  BY DEF Within
<1> DEFINE e == E[<<i, j>>]
<1>1. e \in Int /\ low <= e /\ e <= high
  BY EntriesAreInts DEF Within
<1> HIDE DEF e
<1>2. -L <= e /\ e <= L
  BY <1>1
<1> QED
  BY <1>2 DEF e

(* extrapolate brings a zone down to the size of its constants, whatever   *)
(* the bounds were before: no finite bound of the result is further from   *)
(* zero than (|S| + 1) * |S| * k.                                          *)
THEOREM ExtrapolationIsBounded ==
  ASSUME INF \in Nat \ {0}, NEW S, IsFiniteSet(S), Zero \in S, NEW D \in Matrices(S),
         NEW B \in Nat, \A i \in S : -B <= D[<<Zero, i>>] /\ D[<<Zero, i>>] <= 0,
         ClosedOver(S, S, D), ZeroDiagonal(S, D),
         NEW k \in 0 .. INF,
         2 * ((Cardinality(S) + 1) * (Cardinality(S) * k)) < INF
  PROVE  LET L == (Cardinality(S) + 1) * (Cardinality(S) * k)
         IN  Within(S, Extrapolate(S, D, k), -L, L)
<1> DEFINE R == Relaxed(D, k)
           n == Cardinality(S)
           K == n * k
           L == (n + 1) * K
<1>1. n \in Nat /\ n # 0 /\ k \in Nat
  BY FS_CardinalityType, FS_EmptySet
<1>2. K \in Nat /\ k <= K
  <2>1. 1 * k <= n * k /\ 1 * k = k
    <3> HIDE DEF n
    <3> QED
      BY <1>1, MoreIsMore, 1 \in Nat, 1 <= n
  <2> HIDE DEF n
  <2> QED
    BY <1>1, <2>1
<1>3. L = n * K + K /\ n * K \in Nat
  <2> HIDE DEF n, K
  <2> QED
    BY <1>1, <1>2, OneMore
<1>4. L \in Nat /\ K <= L
  <2> HIDE DEF L
  <2> QED
    BY <1>2, <1>3
<1>5. R \in Matrices(S)
  BY ExtrapolateType
<1>6. Extrapolate(S, D, k) = IF R = D THEN D ELSE Minimize(S, R)
  BY DEF Extrapolate, Relaxed
<1>7. \A i, j \in S : R[<<i, j>>] =
        IF i = j THEN D[<<i, j>>] ELSE RelaxBound(D[<<i, j>>], k)
  <2>1. DOMAIN D = S \X S
    BY DEF Matrices
  <2> QED
    BY <2>1 DEF Relaxed
<1>8. ZeroDiagonal(S, R)
  <2> HIDE DEF R
  <2> QED
    BY <1>7 DEF ZeroDiagonal
<1> HIDE DEF R, K, L, n
<1>9. ASSUME NEW i \in S, NEW j \in S, R[<<i, j>>] # INF
      PROVE  -k <= R[<<i, j>>] /\ R[<<i, j>>] <= k
  <2>1. D[<<i, j>>] \in Int
    BY EntriesAreInts
  <2>2. CASE i = j
    BY <1>1, <1>8, <2>2 DEF ZeroDiagonal
  <2>3. CASE i # j
    BY <1>1, <1>7, <1>9, <2>1, <2>3 DEF RelaxBound
  <2> QED
    BY <2>2, <2>3
<1>10. CASE R = D
  <2>1. Within(S, D, -k, k)
    BY <1>9, <1>10 DEF Within
  <2>2. Within(S, D, -L, L)
    <3>1. -L <= -k /\ k <= L /\ -k \in Int /\ k \in Int
      BY <1>1, <1>2, <1>4
    <3> QED
      BY <1>4, <2>1, <3>1, WithinMore
  <2>3. Extrapolate(S, D, k) = D
    BY <1>6, <1>10
  <2> QED
    BY <2>2, <2>3 DEF L, K, n
<1>11. CASE R # D
  <2> DEFINE c == Corner(S, D)
  <2>1. /\ c \in Valuation(S) /\ Satisfies(c, D)
        /\ \A i \in S : c[i] \in 0 .. B
    BY CornerIsInside
  <2> HIDE DEF c
  <2>2. Satisfies(c, R)
    <3>1. DOMAIN D = S \X S /\ DOMAIN R = S \X S
      BY <1>5 DEF Matrices
    <3> SUFFICES ASSUME NEW p \in S \X S
                 PROVE  R[p] = INF \/ c[p[1]] - c[p[2]] <= R[p]
      BY <3>1 DEF Satisfies
    <3>2. /\ D[p] \in Bounds /\ c[p[1]] \in Int /\ c[p[2]] \in Int
          /\ D[p] = INF \/ c[p[1]] - c[p[2]] <= D[p]
      BY <2>1, <3>1 DEF Matrices, Valuation, Satisfies
    <3>3. RelaxBound(D[p], k) = INF \/ c[p[1]] - c[p[2]] <= RelaxBound(D[p], k)
      BY <3>2, RelaxedBoundsAreWeaker
    <3>4. R[p] = D[p] \/ R[p] = RelaxBound(D[p], k)
      BY <3>1 DEF R, Relaxed
    <3> QED
      BY <3>2, <3>3, <3>4
  <2>3. LowerPoint(S, R, B)
    BY <2>1, <2>2 DEF LowerPoint
  <2>4. LowerPoint(S, R, K)
    BY <1>1, <1>5, <1>9, <2>3, LowPoint DEF K, n
  <2>5. PICK w \in Valuation(S) : Satisfies(w, R) /\ \A i \in S : w[i] \in 0 .. K
    BY <2>4 DEF LowerPoint
  <2>6. 2 * ((Cardinality(S) + 1) * K) < INF
    BY DEF K, n
  <2>7. \A i, j \in S : R[<<i, j>>] = INF \/ R[<<i, j>>] <= K
    <3> TAKE i, j \in S
    <3> DEFINE e == R[<<i, j>>]
    <3>1. e \in Int /\ (e = INF \/ e <= k)
      BY <1>5, <1>9, EntriesAreInts
    <3> HIDE DEF e
    <3>2. e = INF \/ e <= K
      BY <1>1, <1>2, <3>1
    <3> QED
      BY <3>2 DEF e
  <2>8. Within(S, Minimize(S, R), -K, (Cardinality(S) + 1) * K)
    BY <1>2, <1>5, <1>8, <2>5, <2>6, <2>7, MinimizeCloses
  <2>9. Minimize(S, R) \in Matrices(S)
    BY <1>5, MinimizeType
  <2>10. Within(S, Minimize(S, R), -L, L)
    <3>1. Within(S, Minimize(S, R), -K, L)
      BY <2>8 DEF L, n
    <3>2. -L <= -K /\ -K \in Int /\ L \in Int /\ L <= L
      BY <1>2, <1>4
    <3> QED
      BY <1>4, <2>9, <3>1, <3>2, WithinMore
  <2>11. Extrapolate(S, D, k) = Minimize(S, R)
    BY <1>6, <1>11
  <2> QED
    BY <2>10, <2>11 DEF L, K, n
<1> QED
  BY <1>10, <1>11

-----------------------------------------------------------------------------
(* Monotony.  The operations of the engine never turn a smaller matrix     *)
(* into one that is not smaller, sums that saturate included: addition     *)
(* saturates upwards to "no bound" and a sum that would saturate downwards *)
(* is not a bound of a closed matrix.                                      *)
LEMMA SafeAddGrows ==
  ASSUME INF \in Nat, NEW a \in Bounds, NEW b \in Bounds,
         NEW c \in Bounds, NEW d \in Bounds, a <= c, b <= d
  PROVE  SafeAdd(a, b) <= SafeAdd(c, d)
BY DEF SafeAdd, Bounds, IntMin

LEMMA SumBounds ==
  ASSUME INF \in Nat, NEW a \in Bounds, NEW b \in Bounds, NEW c \in Bounds,
         a # INF /\ b # INF => c <= a + b
  PROVE  c <= SafeAdd(a, b)
BY DEF SafeAdd, Bounds, IntMin

LEMMA SmallerGrows ==
  ASSUME NEW a \in Int, NEW b \in Int, NEW c \in Int, NEW d \in Int, a <= c, b <= d
  PROVE  Smaller(a, b) <= Smaller(c, d)
BY DEF Smaller

LEMMA SmallerIsBelow ==
  ASSUME NEW a \in Int, NEW b \in Int
  PROVE  /\ Smaller(a, b) <= a /\ Smaller(a, b) <= b
         /\ \A c \in Int : c <= a /\ c <= b => c <= Smaller(a, b)
BY DEF Smaller

(* A round of minimize only lowers bounds, and never below those of a      *)
(* closed matrix.                                                          *)
LEMMA RoundOnlyLowers ==
  ASSUME INF \in Nat, NEW S, NEW E \in Matrices(S), NEW k \in S
  PROVE  RelaxVia(k, E) \in Matrices(S) /\ Below(S, RelaxVia(k, E), E)
<1> DEFINE F == RelaxVia(k, E)
<1>1. ASSUME NEW i \in S, NEW j \in S
      PROVE  F[<<i, j>>] \in Bounds /\ F[<<i, j>>] <= E[<<i, j>>]
  <2> DEFINE e == E[<<i, j>>]
             left == E[<<i, k>>]
             right == E[<<k, j>>]
  <2>1. /\ e \in Bounds /\ left \in Bounds /\ right \in Bounds
        /\ DOMAIN E = S \X S /\ <<i, j>> \in S \X S
    BY DEF Matrices
  <2>2. F[<<i, j>>] = IF left = INF \/ right = INF THEN e
                      ELSE Smaller(e, SafeAdd(left, right))
    BY <2>1 DEF RelaxVia
  <2>3. SafeAdd(left, right) \in Bounds
    BY <2>1, SafeAddType
  <2> HIDE DEF e, left, right, F
  <2> DEFINE s == SafeAdd(left, right)
  <2> HIDE DEF s
  <2> QED
    BY <2>1, <2>2, <2>3 DEF Smaller, Bounds, IntMin, s, e
<1>2. F = [p \in S \X S |-> F[p]]
  BY DEF RelaxVia, Matrices
<1> HIDE DEF F
<1>3. \A p \in S \X S : F[p] \in Bounds
  BY <1>1
<1>4. F \in Matrices(S)
  BY <1>2, <1>3 DEF Matrices
<1> QED
  BY <1>1, <1>4 DEF Below, F

LEMMA RoundStaysAbove ==
  ASSUME INF \in Nat, NEW S, NEW D \in Matrices(S), ClosedOver(S, S, D),
         NEW E \in Matrices(S), Below(S, D, E), NEW k \in S
  PROVE  Below(S, D, RelaxVia(k, E))
<1> SUFFICES ASSUME NEW i \in S, NEW j \in S
             PROVE  D[<<i, j>>] <= RelaxVia(k, E)[<<i, j>>]
  BY DEF Below
<1> DEFINE e == E[<<i, j>>]
           left == E[<<i, k>>]
           right == E[<<k, j>>]
           d == D[<<i, j>>]
           a == D[<<i, k>>]
           b == D[<<k, j>>]
<1>1. /\ e \in Bounds /\ left \in Bounds /\ right \in Bounds
      /\ d \in Bounds /\ a \in Bounds /\ b \in Bounds
      /\ DOMAIN E = S \X S /\ <<i, j>> \in S \X S
  BY DEF Matrices
<1>2. d <= e /\ a <= left /\ b <= right
  BY DEF Below
<1>3. a # INF /\ b # INF => d <= a + b
  BY DEF ClosedOver
<1>4. RelaxVia(k, E)[<<i, j>>]
        = IF left = INF \/ right = INF THEN e ELSE Smaller(e, SafeAdd(left, right))
  BY <1>1 DEF RelaxVia
<1> HIDE DEF e, left, right, d, a, b
<1>5. SafeAdd(left, right) \in Bounds /\ SafeAdd(a, b) \in Bounds
  BY <1>1, SafeAddType
<1>6. d <= SafeAdd(a, b) /\ SafeAdd(a, b) <= SafeAdd(left, right)
  BY <1>1, <1>2, <1>3, SumBounds, SafeAddGrows
<1> DEFINE s == SafeAdd(left, right)
           r == SafeAdd(a, b)
<1> HIDE DEF s, r
<1>7. d <= s
  BY <1>1, <1>5, <1>6 DEF s, r, Bounds, IntMin
<1>8. d <= Smaller(e, s)
  BY <1>1, <1>2, <1>5, <1>7, SmallerIsBelow DEF s, Bounds, IntMin
<1> QED
  BY <1>2, <1>4, <1>8 DEF s, d

(* The closure only lowers bounds, and a closed matrix that is below       *)
(* another is below the closure of the other.                              *)
LEMMA ClosureIsGreatest ==
  ASSUME INF \in Nat, NEW S, IsFiniteSet(S), NEW E \in Matrices(S)
  PROVE  /\ Below(S, Minimize(S, E), E)
         /\ \A D \in Matrices(S) :
              ClosedOver(S, S, D) /\ Below(S, D, E) => Below(S, D, Minimize(S, E))
<1> DEFINE Lower == {x \in (SUBSET S) \X Matrices(S) : Below(S, x[2], E)}
<1>1. \A i, j \in S : E[<<i, j>>] \in Int
  BY EntriesAreInts
<1>2. <<{}, E>> \in Lower
  BY <1>1 DEF Below
<1>3. ASSUME NEW T \in SUBSET S, NEW k \in T, NEW F, <<T \ {k}, F>> \in Lower
      PROVE  <<T, RelaxVia(k, F)>> \in Lower
  <2>1. F \in Matrices(S) /\ Below(S, F, E)
    BY <1>3
  <2>2. RelaxVia(k, F) \in Matrices(S) /\ Below(S, RelaxVia(k, F), F)
    BY <2>1, RoundOnlyLowers
  <2>3. \A i, j \in S : F[<<i, j>>] \in Int /\ RelaxVia(k, F)[<<i, j>>] \in Int
    BY <2>1, <2>2, EntriesAreInts
  <2>4. Below(S, RelaxVia(k, F), E)
    <3> SUFFICES ASSUME NEW i \in S, NEW j \in S
                 PROVE  RelaxVia(k, F)[<<i, j>>] <= E[<<i, j>>]
      BY DEF Below
    <3>1. RelaxVia(k, F)[<<i, j>>] <= F[<<i, j>>] /\ F[<<i, j>>] <= E[<<i, j>>]
      BY <2>1, <2>2 DEF Below
    <3> QED
      BY <1>1, <2>3, <3>1
  <2> QED
    BY <2>2, <2>4
<1>4. <<S, Minimize(S, E)>> \in Lower
  <2> HIDE DEF Lower
  <2> QED
    BY <1>2, <1>3, RoundByRound
<1>5. ASSUME NEW D \in Matrices(S), ClosedOver(S, S, D), Below(S, D, E)
      PROVE  Below(S, D, Minimize(S, E))
  <2> DEFINE Upper == {x \in (SUBSET S) \X Matrices(S) : Below(S, D, x[2])}
  <2>1. <<{}, E>> \in Upper
    BY <1>5
  <2>2. ASSUME NEW T \in SUBSET S, NEW k \in T, NEW F, <<T \ {k}, F>> \in Upper
        PROVE  <<T, RelaxVia(k, F)>> \in Upper
    <3>1. F \in Matrices(S) /\ Below(S, D, F)
      BY <2>2
    <3>2. RelaxVia(k, F) \in Matrices(S)
      BY <3>1, RoundOnlyLowers
    <3>3. Below(S, D, RelaxVia(k, F))
      BY <1>5, <3>1, RoundStaysAbove
    <3> QED
      BY <3>2, <3>3
  <2>3. <<S, Minimize(S, E)>> \in Upper
    <3> HIDE DEF Upper
    <3> QED
      BY <2>1, <2>2, RoundByRound
  <2> QED
    BY <2>3
<1> QED
  BY <1>4, <1>5

(* tighten keeps the order of matrices, the smaller one being closed, and  *)
(* does not empty the larger one unless it empties the smaller one.        *)
LEMMA TightenedEntry ==
  ASSUME INF \in Nat, NEW S, NEW D \in Matrices(S), NEW i \in S, NEW j \in S, i # j,
         NEW b \in Bounds, b # INF, NEW p \in S, NEW q \in S
  PROVE  LET T == [D EXCEPT ![<<i, j>>] = b]
             left == SafeAdd(D[<<p, i>>], b)
             right == D[<<j, q>>]
             s == SafeAdd(left, right)
         IN  /\ T \in Matrices(S)
             /\ T[<<p, q>>] = IF p = i /\ q = j THEN b ELSE D[<<p, q>>]
             /\ left \in Bounds /\ right \in Bounds /\ s \in Bounds
             /\ TightenVia(T, i, j, b)[<<p, q>>] = Smaller(T[<<p, q>>], s)
<1> DEFINE T == [D EXCEPT ![<<i, j>>] = b]
           left == SafeAdd(D[<<p, i>>], b)
           right == D[<<j, q>>]
           s == SafeAdd(left, right)
<1>1. /\ DOMAIN D = S \X S /\ <<p, q>> \in S \X S /\ <<i, j>> \in S \X S
      /\ <<p, i>> \in S \X S /\ <<j, q>> \in S \X S
      /\ \A x \in S \X S : D[x] \in Bounds
  BY DEF Matrices
<1>2. /\ T \in Matrices(S) /\ DOMAIN T = S \X S
      /\ T[<<p, q>>] = IF p = i /\ q = j THEN b ELSE D[<<p, q>>]
      /\ T[<<p, i>>] = D[<<p, i>>] /\ T[<<j, q>>] = D[<<j, q>>]
  BY <1>1 DEF Matrices
<1>3. left \in Bounds /\ right \in Bounds /\ s \in Bounds
  BY <1>1, SafeAddType
<1> DEFINE t == T[<<p, q>>]
           first == D[<<p, i>>]
<1>4. t \in Bounds /\ first \in Bounds
  BY <1>1, <1>2
<1>5. TightenVia(T, i, j, b)[<<p, q>>]
        = IF first = INF \/ left = INF \/ right = INF THEN t ELSE Smaller(t, s)
  BY <1>1, <1>2 DEF TightenVia
<1>6. first = INF => left = INF
  BY DEF SafeAdd
<1>7. left = INF \/ right = INF => s = INF
  BY DEF SafeAdd
<1> HIDE DEF T, left, right, s, t, first
<1>8. s = INF => Smaller(t, s) = t
  BY <1>4 DEF Smaller, Bounds, IntMin
<1> QED
  BY <1>2, <1>3, <1>5, <1>6, <1>7, <1>8 DEF T, left, right, s, t, first

THEOREM TightenKeepsOrder ==
  ASSUME INF \in Nat, NEW S, NEW D \in Matrices(S), ClosedOver(S, S, D),
         ZeroDiagonal(S, D), NEW E \in Matrices(S), Below(S, D, E),
         NEW i \in S, NEW j \in S, i # j, NEW b \in Bounds, b # INF,
         Tighten(S, D, i, j, b).nonempty
  PROVE  /\ Tighten(S, E, i, j, b).nonempty
         /\ Below(S, Tighten(S, D, i, j, b).zone, Tighten(S, E, i, j, b).zone)
<1> DEFINE TD == [D EXCEPT ![<<i, j>>] = b]
           TE == [E EXCEPT ![<<i, j>>] = b]
           CD == TightenVia(TD, i, j, b)
           CE == TightenVia(TE, i, j, b)
           oldD == D[<<i, j>>]
           oldE == E[<<i, j>>]
           oppD == D[<<j, i>>]
           oppE == E[<<j, i>>]
<1>1. /\ oldD \in Bounds /\ oldE \in Bounds /\ oppD \in Bounds /\ oppE \in Bounds
      /\ oldD <= oldE /\ oppD <= oppE
      /\ \A p, q \in S : D[<<p, q>>] \in Bounds /\ E[<<p, q>>] \in Bounds
      /\ \A p, q \in S : D[<<p, q>>] <= E[<<p, q>>]
  BY DEF Matrices, Below
<1>2. \A p \in S : D[<<p, p>>] = 0
  BY DEF ZeroDiagonal
<1>3. /\ Tighten(S, D, i, j, b) =
           IF oldD # INF /\ oldD <= b THEN [nonempty |-> TRUE, zone |-> D]
           ELSE IF oppD # INF /\ SafeAdd(b, oppD) < 0
           THEN [nonempty |-> FALSE,
                 zone |-> [TD EXCEPT ![<<i, i>>] = SafeAdd(b, oppD)]]
           ELSE [nonempty |-> ~ NegativeDiagonal(S, CD), zone |-> CD]
      /\ Tighten(S, E, i, j, b) =
           IF oldE # INF /\ oldE <= b THEN [nonempty |-> TRUE, zone |-> E]
           ELSE IF oppE # INF /\ SafeAdd(b, oppE) < 0
           THEN [nonempty |-> FALSE,
                 zone |-> [TE EXCEPT ![<<i, i>>] = SafeAdd(b, oppE)]]
           ELSE [nonempty |-> ~ NegativeDiagonal(S, CE), zone |-> CE]
  BY DEF Tighten
<1>4. ASSUME NEW p \in S, NEW q \in S
      PROVE  /\ CD[<<p, q>>] \in Int /\ CE[<<p, q>>] \in Int
             /\ CD[<<p, q>>] <= CE[<<p, q>>]
             /\ oldD <= b => D[<<p, q>>] <= CE[<<p, q>>]
  <2> DEFINE d == D[<<p, q>>]
             e == E[<<p, q>>]
             leftD == SafeAdd(D[<<p, i>>], b)
             leftE == SafeAdd(E[<<p, i>>], b)
             rightD == D[<<j, q>>]
             rightE == E[<<j, q>>]
             sD == SafeAdd(leftD, rightD)
             sE == SafeAdd(leftE, rightE)
             tD == TD[<<p, q>>]
             tE == TE[<<p, q>>]
             mid == D[<<p, j>>]
             fst == D[<<p, i>>]
             fstE == E[<<p, i>>]
  <2>1. /\ tD = IF p = i /\ q = j THEN b ELSE d
        /\ leftD \in Bounds /\ rightD \in Bounds /\ sD \in Bounds
        /\ CD[<<p, q>>] = Smaller(tD, sD)
    BY TightenedEntry
  <2>2. /\ tE = IF p = i /\ q = j THEN b ELSE e
        /\ leftE \in Bounds /\ rightE \in Bounds /\ sE \in Bounds
        /\ CE[<<p, q>>] = Smaller(tE, sE)
    BY TightenedEntry
  <2>3. /\ d \in Bounds /\ e \in Bounds /\ d <= e /\ mid \in Bounds
        /\ fst \in Bounds /\ fstE \in Bounds /\ fst <= fstE /\ rightD <= rightE
    BY <1>1
  <2>4. /\ fst # INF /\ oldD # INF => mid <= fst + oldD
        /\ mid # INF /\ rightD # INF => d <= mid + rightD
    BY DEF ClosedOver
  <2>5. p = i /\ q = j => d = oldD
    OBVIOUS
  <2>6. leftD = SafeAdd(fst, b) /\ leftE = SafeAdd(fstE, b)
        /\ sD = SafeAdd(leftD, rightD) /\ sE = SafeAdd(leftE, rightE)
    OBVIOUS
  <2> DEFINE cD == CD[<<p, q>>]
             cE == CE[<<p, q>>]
  <2>7. cD = Smaller(tD, sD) /\ cE = Smaller(tE, sE)
    BY <2>1, <2>2
  <2> HIDE DEF d, e, leftD, leftE, rightD, rightE, sD, sE, tD, tE, mid, fst, fstE, cD, cE
  <2> HIDE DEF oldD, oldE, oppD, oppE, TD, TE, CD, CE
  <2>8. leftD <= leftE
    BY <2>3, <2>6, SafeAddGrows, <1>1, b <= b DEF Bounds, IntMin
  <2>9. sD <= sE
    BY <2>1, <2>2, <2>3, <2>6, <2>8, SafeAddGrows
  <2>10. tD \in Int /\ tE \in Int /\ sD \in Int /\ sE \in Int /\ tD <= tE
    BY <2>1, <2>2, <2>3 DEF Bounds, IntMin
  <2>11. cD \in Int /\ cE \in Int /\ cD <= cE
    <3>1. Smaller(tD, sD) \in Int /\ Smaller(tE, sE) \in Int
      BY <2>10 DEF Smaller
    <3>2. Smaller(tD, sD) <= Smaller(tE, sE)
      BY <2>9, <2>10, SmallerGrows
    <3> QED
      BY <2>7, <3>1, <3>2
  <2>12. ASSUME oldD <= b PROVE d <= cE
    <3>1. oldD # INF
      BY <1>1, <2>12 DEF Bounds, IntMin
    <3>2. fstE # INF => mid <= fstE + b
      BY <1>1, <2>3, <2>4, <2>12, <3>1 DEF Bounds, IntMin
    <3>3. mid <= leftE
      BY <2>3, <2>6, <3>2, SumBounds
    <3>4. d <= SafeAdd(mid, rightD)
      BY <2>1, <2>3, <2>4, SumBounds
    <3>5. SafeAdd(mid, rightD) <= sE
      BY <2>1, <2>2, <2>3, <2>6, <3>3, SafeAddGrows
    <3>6. d <= tE
      BY <2>2, <2>3, <2>5, <2>12 DEF Bounds, IntMin
    <3>7. SafeAdd(mid, rightD) \in Int /\ d \in Int
      BY <2>1, <2>3, SafeAddType DEF Bounds, IntMin
    <3>8. d <= sE
      BY <2>10, <3>4, <3>5, <3>7
    <3> QED
      BY <2>7, <2>10, <3>6, <3>7, <3>8, SmallerIsBelow
  <2> QED
    BY <2>11, <2>12 DEF cD, cE, d
<1> HIDE DEF TD, TE, CD, CE
<1>5. CASE oldD # INF /\ oldD <= b
  <2>1. Tighten(S, D, i, j, b).zone = D
    BY <1>3, <1>5
  <2>2. CASE oldE # INF /\ oldE <= b
    BY <1>3, <2>1, <2>2
  <2>3. CASE ~ (oldE # INF /\ oldE <= b)
    <3>1. oppE # INF => 0 <= SafeAdd(b, oppE)
      <4>1. 0 = D[<<i, i>>]
        BY <1>2
      <4>2. oppD # INF => D[<<i, i>>] <= oldD + oppD
        BY <1>5 DEF ClosedOver
      <4> HIDE DEF oldD, oldE, oppD, oppE
      <4>3. b # INF /\ oppE # INF => 0 <= b + oppE
        BY <1>1, <1>5, <4>1, <4>2 DEF Bounds, IntMin
      <4> QED
        BY <1>1, <4>3, 0 \in Bounds, SumBounds DEF Bounds, IntMin
    <3>2. SafeAdd(b, oppE) \in Int
      BY <1>1, SafeAddType DEF Bounds, IntMin
    <3>3. ~ (oppE # INF /\ SafeAdd(b, oppE) < 0)
      BY <3>1, <3>2
    <3>4. \A p \in S : ~ (CE[<<p, p>>] < 0)
      <4> TAKE p \in S
      <4>1. CE[<<p, p>>] \in Int /\ D[<<p, p>>] <= CE[<<p, p>>] /\ D[<<p, p>>] = 0
        BY <1>2, <1>4, <1>5
      <4> QED
        BY <4>1
    <3>5. ~ NegativeDiagonal(S, CE)
      BY <3>4, Zenon DEF NegativeDiagonal
    <3>6. Tighten(S, E, i, j, b) = [nonempty |-> TRUE, zone |-> CE]
      BY <1>3, <2>3, <3>3, <3>5
    <3>7. Below(S, D, CE)
      BY <1>4, <1>5 DEF Below
    <3> QED
      BY <2>1, <3>6, <3>7
  <2> QED
    BY <2>2, <2>3
<1>6. CASE ~ (oldD # INF /\ oldD <= b)
  <2>1. ~ (oldE # INF /\ oldE <= b)
    BY <1>1, <1>6 DEF Bounds, IntMin
  <2>2. /\ ~ (oppD # INF /\ SafeAdd(b, oppD) < 0)
        /\ ~ NegativeDiagonal(S, CD)
        /\ Tighten(S, D, i, j, b).zone = CD
    <3> DEFINE empty == oppD # INF /\ SafeAdd(b, oppD) < 0
               R == Tighten(S, D, i, j, b)
    <3>1. R = IF empty
              THEN [nonempty |-> FALSE,
                    zone |-> [TD EXCEPT ![<<i, i>>] = SafeAdd(b, oppD)]]
              ELSE [nonempty |-> ~ NegativeDiagonal(S, CD), zone |-> CD]
      BY <1>3, <1>6
    <3>2. R.nonempty
      OBVIOUS
    <3> HIDE DEF R, empty
    <3>3. ~ empty
      <4> SUFFICES ASSUME empty PROVE FALSE
        OBVIOUS
      <4>1. R = [nonempty |-> FALSE,
                 zone |-> [TD EXCEPT ![<<i, i>>] = SafeAdd(b, oppD)]]
        BY <3>1
      <4> QED
        BY <3>2, <4>1
    <3>4. R = [nonempty |-> ~ NegativeDiagonal(S, CD), zone |-> CD]
      BY <3>1, <3>3
    <3>5. R.nonempty = (~ NegativeDiagonal(S, CD)) /\ R.zone = CD
      BY <3>4
    <3> QED
      BY <3>2, <3>3, <3>5, Zenon DEF R, empty
  <2>3. ~ (oppE # INF /\ SafeAdd(b, oppE) < 0)
    <3>1. SafeAdd(b, oppD) <= SafeAdd(b, oppE)
      BY <1>1, b <= b, SafeAddGrows DEF Bounds, IntMin
    <3>2. SafeAdd(b, oppD) \in Int /\ SafeAdd(b, oppE) \in Int
      <4>1. SafeAdd(b, oppD) \in Bounds /\ SafeAdd(b, oppE) \in Bounds
        BY <1>1, SafeAddType
      <4> QED
        BY <4>1 DEF Bounds, IntMin
    <3>3. oppE # INF => oppD # INF
      BY <1>1 DEF Bounds, IntMin
    <3> QED
      BY <2>2, <3>1, <3>2, <3>3
  <2>4. \A p \in S : ~ (CE[<<p, p>>] < 0)
    <3> TAKE p \in S
    <3>1. CE[<<p, p>>] \in Int /\ CD[<<p, p>>] \in Int /\ CD[<<p, p>>] <= CE[<<p, p>>]
      BY <1>4
    <3>2. ~ (CD[<<p, p>>] < 0)
      BY <2>2, Zenon DEF NegativeDiagonal
    <3> QED
      BY <3>1, <3>2
  <2>5. ~ NegativeDiagonal(S, CE)
    BY <2>4, Zenon DEF NegativeDiagonal
  <2>6. Tighten(S, E, i, j, b) = [nonempty |-> TRUE, zone |-> CE]
    BY <1>3, <2>1, <2>3, <2>5
  <2>7. Below(S, CD, CE)
    BY <1>4 DEF Below
  <2> QED
    BY <2>2, <2>6, <2>7
<1> QED
  BY <1>5, <1>6
=============================================================================
