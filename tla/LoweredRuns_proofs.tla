------------------------- MODULE LoweredRuns_proofs -------------------------
(***************************************************************************)
(* Proofs about LoweredRuns, for every task graph: no run of a lowered     *)
(* graph loses or doubles a lock or a core, a node has no token while one  *)
(* it depends on has one, and releases come every period without drift.    *)
(***************************************************************************)
EXTENDS LoweredRuns, TimedRun_proofs, SequenceTheorems, WellFoundedInduction

-----------------------------------------------------------------------------
(* Tokens(M, X) adds the tokens of M over the finite set X, taking the     *)
(* places in the order in which CHOOSE picks them.  The sum does not       *)
(* depend on that order.                                                   *)
Sized(X, n) == {T \in SUBSET X : Cardinality(T) <= n}

LEMMA SmallerSets ==
  ASSUME NEW X, IsFiniteSet(X), NEW n \in Nat, NEW T \in Sized(X, n), NEW x \in T
  PROVE  n # 0 /\ T \ {x} \in Sized(X, n - 1)
<1>1. IsFiniteSet(T) /\ Cardinality(T) \in Nat /\ Cardinality(T) <= n
  BY FS_Subset, FS_CardinalityType DEF Sized
<1>2. Cardinality(T \ {x}) = Cardinality(T) - 1
  BY <1>1, FS_RemoveElement
<1>3. Cardinality(T) # 0
  BY <1>1, FS_EmptySet
<1> QED
  BY <1>1, <1>2, <1>3 DEF Sized

(* Induction over the subsets of a finite set, by their size.              *)
LEMMA SubsetInduction ==
  ASSUME NEW X, IsFiniteSet(X), NEW Good,
         \A T \in SUBSET X :
           (\A x \in T : T \ {x} \in Good) => T \in Good
  PROVE  \A T \in SUBSET X : T \in Good
<1> DEFINE Failing == {n \in Nat : \E T \in Sized(X, n) : T \notin Good}
<1>1. Failing = {}
  <2> SUFFICES ASSUME Failing # {} PROVE FALSE
    OBVIOUS
  <2>1. PICK n \in Failing : \A m \in Failing : n <= m
    BY LeastNatural
  <2>2. PICK T \in Sized(X, n) : T \notin Good
    BY <2>1
  <2>3. PICK x \in T : T \ {x} \notin Good
    BY <2>2 DEF Sized
  <2>4. n # 0 /\ T \ {x} \in Sized(X, n - 1)
    BY <2>1, SmallerSets
  <2>5. n - 1 \in Failing
    BY <2>1, <2>3, <2>4
  <2> QED
    BY <2>1, <2>5
<1> SUFFICES ASSUME NEW T \in SUBSET X PROVE T \in Good
  OBVIOUS
<1>2. Cardinality(T) \in Nat /\ T \in Sized(X, Cardinality(T))
  BY FS_Subset, FS_CardinalityType DEF Sized
<1> QED
  BY <1>1, <1>2

Picked(T) == CHOOSE x \in T : TRUE

AddsUp(M, sets, g) ==
  g = [T \in sets |-> IF T = {} THEN 0 ELSE M[Picked(T)] + g[T \ {Picked(T)}]]

LEMMA TokensIsFold ==
  ASSUME NEW M, NEW X
  PROVE  Tokens(M, X) = (CHOOSE g : AddsUp(M, SUBSET X, g))[X]
BY Zenon DEF Tokens, MapThenSumSet, MapThenFoldSet, AddsUp, Picked

(* The fold is a function because it is one on the sets of at most n       *)
(* places, for every n.                                                    *)
LEMMA FoldIsDefined ==
  ASSUME NEW X, IsFiniteSet(X), NEW M
  PROVE  \E g : AddsUp(M, SUBSET X, g)
<1> DEFINE Exists(n) == \E g : AddsUp(M, Sized(X, n), g)
           Failing == {n \in Nat : ~ Exists(n)}
<1>0. \A T : T # {} => Picked(T) \in T
  BY DEF Picked
<1>1. Exists(0)
  <2> DEFINE g == [T \in Sized(X, 0) |-> 0]
  <2>1. \A T \in Sized(X, 0) : T = {}
    BY SmallerSets
  <2>2. g = [T \in Sized(X, 0) |->
               IF T = {} THEN 0 ELSE M[Picked(T)] + g[T \ {Picked(T)}]]
    BY <2>1
  <2> QED
    BY <2>2 DEF AddsUp
<1>2. ASSUME NEW n \in Nat, n # 0, Exists(n - 1)
      PROVE  Exists(n)
  <2>1. PICK g : AddsUp(M, Sized(X, n - 1), g)
    BY <1>2
  <2> DEFINE Value(T) == IF T = {} THEN 0 ELSE M[Picked(T)] + g[T \ {Picked(T)}]
             f == [T \in Sized(X, n) |-> Value(T)]
  <2>2. ASSUME NEW T \in Sized(X, n), T # {}
        PROVE  f[T \ {Picked(T)}] = g[T \ {Picked(T)}]
    <3> DEFINE R == T \ {Picked(T)}
    <3>1. R \in Sized(X, n - 1)
      BY <1>0, <2>2, SmallerSets
    <3>2. R \in Sized(X, n)
      <4>1. Cardinality(R) \in Nat /\ Cardinality(R) <= n - 1
        BY <3>1, FS_Subset, FS_CardinalityType DEF Sized
      <4> QED
        BY <3>1, <4>1 DEF Sized
    <3> HIDE DEF R
    <3>3. g[R] = Value(R)
      BY <2>1, <3>1 DEF AddsUp
    <3>4. f[R] = Value(R)
      BY <3>2
    <3> QED
      BY <3>3, <3>4 DEF R
  <2>3. \A T \in Sized(X, n) :
          f[T] = IF T = {} THEN 0 ELSE M[Picked(T)] + f[T \ {Picked(T)}]
    BY <2>2
  <2>4. f = [T \in Sized(X, n) |->
               IF T = {} THEN 0 ELSE M[Picked(T)] + f[T \ {Picked(T)}]]
    BY <2>3
  <2> QED
    BY <2>4 DEF AddsUp
<1>3. Failing = {}
  <2> SUFFICES ASSUME Failing # {} PROVE FALSE
    OBVIOUS
  <2> HIDE DEF Exists
  <2>1. PICK n \in Failing : \A m \in Failing : n <= m
    BY LeastNatural
  <2>2. n \in Nat /\ n # 0 /\ n - 1 \notin Failing
    BY <1>1, <2>1
  <2> QED
    BY <1>2, <2>1, <2>2
<1>4. Exists(Cardinality(X))
  BY <1>3, FS_CardinalityType
<1>5. Sized(X, Cardinality(X)) = SUBSET X
  BY FS_Subset DEF Sized
<1> QED
  BY <1>4, <1>5

(* The fold over the subsets of X, restricted to those of a subset.        *)
LEMMA FoldOfSubset ==
  ASSUME NEW X, IsFiniteSet(X), NEW M, NEW g, AddsUp(M, SUBSET X, g),
         NEW Y \in SUBSET X
  PROVE  Tokens(M, Y) = g[Y]
<1>1. IsFiniteSet(Y)
  BY FS_Subset
<1>2. PICK f : f = CHOOSE e : AddsUp(M, SUBSET Y, e)
  OBVIOUS
<1>3. AddsUp(M, SUBSET Y, f)
  BY <1>1, <1>2, FoldIsDefined
<1> DEFINE Good == {T \in SUBSET Y : f[T] = g[T]}
<1>4. ASSUME NEW T \in SUBSET Y, \A x \in T : T \ {x} \in Good
      PROVE  T \in Good
  <2>1. f[T] = IF T = {} THEN 0 ELSE M[Picked(T)] + f[T \ {Picked(T)}]
    BY <1>3 DEF AddsUp
  <2>2. g[T] = IF T = {} THEN 0 ELSE M[Picked(T)] + g[T \ {Picked(T)}]
    BY DEF AddsUp
  <2>3. T # {} => Picked(T) \in T
    BY DEF Picked
  <2>4. CASE T = {}
    BY <2>1, <2>2, <2>4
  <2>5. CASE T # {}
    <3>1. f[T \ {Picked(T)}] = g[T \ {Picked(T)}]
      BY <1>4, <2>3, <2>5
    <3> QED
      BY <2>1, <2>2, <2>5, <3>1
  <2> QED
    BY <2>4, <2>5
<1> HIDE DEF Good
<1>5. Y \in Good
  BY <1>1, <1>4, SubsetInduction
<1> QED
  BY <1>2, <1>5, TokensIsFold DEF Good

(* Any place can be taken out of the sum.                                  *)
LEMMA TokensSplit ==
  ASSUME NEW X, IsFiniteSet(X), NEW M, \A p \in X : M[p] \in Nat
  PROVE  /\ Tokens(M, {}) = 0
         /\ Tokens(M, X) \in Nat
         /\ \A x \in X : /\ Tokens(M, X \ {x}) \in Nat
                         /\ Tokens(M, X) = M[x] + Tokens(M, X \ {x})
<1>1. PICK g : AddsUp(M, SUBSET X, g)
  BY FoldIsDefined
<1>2. \A T \in SUBSET X :
        g[T] = IF T = {} THEN 0 ELSE M[Picked(T)] + g[T \ {Picked(T)}]
  BY <1>1 DEF AddsUp
<1>3. \A T : T # {} => Picked(T) \in T
  BY DEF Picked
<1>4. g[{}] = 0
  BY <1>2
<1>5. \A T \in SUBSET X : g[T] \in Nat
  <2> DEFINE Good == {T \in SUBSET X : g[T] \in Nat}
  <2>1. ASSUME NEW T \in SUBSET X, \A x \in T : T \ {x} \in Good
        PROVE  g[T] \in Nat
    <3>1. CASE T = {}
      BY <1>4, <3>1
    <3>2. CASE T # {}
      <4> DEFINE k == Picked(T)
      <4>1. k \in T /\ M[k] \in Nat /\ g[T \ {k}] \in Nat
        BY <1>3, <2>1, <3>2
      <4>2. g[T] = M[k] + g[T \ {k}]
        BY <1>2, <3>2
      <4> HIDE DEF k, Good
      <4> QED
        BY <4>1, <4>2
    <3> QED
      BY <3>1, <3>2
  <2>2. \A T \in SUBSET X : T \in Good
    <3>1. \A T \in SUBSET X : (\A x \in T : T \ {x} \in Good) => T \in Good
      BY <2>1
    <3> HIDE DEF Good
    <3> QED
      BY <3>1, SubsetInduction
  <2> QED
    BY <2>2
<1> DEFINE Good == {T \in SUBSET X : \A x \in T : g[T] = M[x] + g[T \ {x}]}
<1>6. ASSUME NEW T \in SUBSET X, \A x \in T : T \ {x} \in Good
      PROVE  T \in Good
  <2> SUFFICES ASSUME NEW x \in T PROVE g[T] = M[x] + g[T \ {x}]
    OBVIOUS
  <2> DEFINE k == Picked(T)
             R == T \ {k, x}
  <2>1. k \in T /\ g[T] = M[k] + g[T \ {k}]
    BY <1>2, <1>3
  <2> HIDE DEF k
  <2>2. CASE x = k
    BY <2>1, <2>2
  <2>3. CASE x # k
    <3>1. (T \ {k}) \ {x} = R /\ (T \ {x}) \ {k} = R
      OBVIOUS
    <3>2. g[T \ {k}] = M[x] + g[(T \ {k}) \ {x}]
      BY <1>6, <2>1, <2>3
    <3>3. g[T \ {x}] = M[k] + g[(T \ {x}) \ {k}]
      BY <1>6, <2>1, <2>3
    <3>4. g[R] \in Nat /\ M[x] \in Nat /\ M[k] \in Nat
      BY <1>5, <2>1
    <3> HIDE DEF R
    <3> QED
      BY <2>1, <3>1, <3>2, <3>3, <3>4
  <2> QED
    BY <2>2, <2>3
<1>7. \A T \in SUBSET X : T \in Good
  <2> HIDE DEF Good
  <2> QED
    BY <1>6, SubsetInduction
<1>8. \A Y \in SUBSET X : Tokens(M, Y) = g[Y]
  BY <1>1, FoldOfSubset
<1>9. \A x \in X : g[X] = M[x] + g[X \ {x}]
  BY <1>7
<1> HIDE DEF Good
<1>10. X \in SUBSET X /\ {} \in SUBSET X /\ \A x \in X : X \ {x} \in SUBSET X
  OBVIOUS
<1> QED
  BY <1>5, <1>8, <1>4, <1>9, <1>10

(* The sum depends on the tokens of the places in it only.                 *)
LEMMA TokensSame ==
  ASSUME NEW X, IsFiniteSet(X), NEW M, NEW N,
         \A p \in X : M[p] \in Nat /\ N[p] = M[p]
  PROVE  Tokens(N, X) = Tokens(M, X)
<1> DEFINE Good == {T \in SUBSET X : Tokens(N, T) = Tokens(M, T)}
<1>1. ASSUME NEW T \in SUBSET X, \A x \in T : T \ {x} \in Good
      PROVE  T \in Good
  <2>1. IsFiniteSet(T) /\ (\A p \in T : M[p] \in Nat) /\ (\A p \in T : N[p] \in Nat)
    BY FS_Subset
  <2>2. CASE T = {}
    BY <2>1, <2>2, TokensSplit
  <2>3. CASE T # {}
    <3>1. PICK x \in T : TRUE
      BY <2>3
    <3>2. Tokens(M, T) = M[x] + Tokens(M, T \ {x})
      BY <2>1, <3>1, TokensSplit
    <3>3. Tokens(N, T) = N[x] + Tokens(N, T \ {x})
      BY <2>1, <3>1, TokensSplit
    <3> QED
      BY <1>1, <3>1, <3>2, <3>3
  <2> QED
    BY <2>2, <2>3
<1> HIDE DEF Good
<1>2. \A T \in SUBSET X : T \in Good
  BY <1>1, SubsetInduction
<1> QED
  BY <1>2 DEF Good

LEMMA NoTokens ==
  ASSUME NEW X, IsFiniteSet(X), NEW M, \A p \in X : M[p] = 0
  PROVE  Tokens(M, X) = 0
<1> DEFINE Good == {T \in SUBSET X : Tokens(M, T) = 0}
<1>1. ASSUME NEW T \in SUBSET X, \A x \in T : T \ {x} \in Good
      PROVE  T \in Good
  <2>1. IsFiniteSet(T) /\ \A p \in T : M[p] \in Nat
    BY FS_Subset
  <2>2. CASE T = {}
    BY <2>1, <2>2, TokensSplit
  <2>3. CASE T # {}
    <3>1. PICK x \in T : TRUE
      BY <2>3
    <3>2. Tokens(M, T) = M[x] + Tokens(M, T \ {x})
      BY <2>1, <3>1, TokensSplit
    <3> QED
      BY <1>1, <3>1, <3>2
  <2> QED
    BY <2>2, <2>3
<1> HIDE DEF Good
<1>2. \A T \in SUBSET X : T \in Good
  BY <1>1, SubsetInduction
<1> QED
  BY <1>2 DEF Good

(* No two places hold more than the sum.                                   *)
LEMMA TokensCover ==
  ASSUME NEW X, IsFiniteSet(X), NEW M, \A p \in X : M[p] \in Nat,
         NEW p \in X
  PROVE  /\ M[p] <= Tokens(M, X)
         /\ \A q \in X \ {p} : M[p] + M[q] <= Tokens(M, X)
<1>1. /\ Tokens(M, X) = M[p] + Tokens(M, X \ {p})
      /\ Tokens(M, X \ {p}) \in Nat
  BY TokensSplit
<1>2. ASSUME NEW q \in X \ {p}
      PROVE  /\ Tokens(M, X \ {p}) = M[q] + Tokens(M, (X \ {p}) \ {q})
             /\ Tokens(M, (X \ {p}) \ {q}) \in Nat
  <2>1. IsFiniteSet(X \ {p})
    BY FS_Subset
  <2> QED
    BY <2>1, TokensSplit
<1> DEFINE rest == Tokens(M, X \ {p})
<1>3. M[p] \in Nat /\ Tokens(M, X) = M[p] + rest /\ rest \in Nat
  BY <1>1
<1>4. ASSUME NEW q \in X \ {p} PROVE M[p] + M[q] <= Tokens(M, X)
  <2> DEFINE others == Tokens(M, (X \ {p}) \ {q})
  <2>1. M[q] \in Nat /\ rest = M[q] + others /\ others \in Nat
    BY <1>2
  <2> HIDE DEF rest, others
  <2> QED
    BY <1>3, <2>1
<1>5. M[p] <= Tokens(M, X)
  <2> HIDE DEF rest
  <2> QED
    BY <1>3
<1> QED
  BY <1>4, <1>5

(* A token that moves from one place of the set to another.                *)
LEMMA TokensMove ==
  ASSUME NEW X, IsFiniteSet(X), NEW M, NEW N,
         \A r \in X : M[r] \in Nat,
         NEW p \in X, NEW q \in X, p # q, M[p] >= 1,
         N[p] = M[p] - 1, N[q] = M[q] + 1,
         \A r \in X \ {p, q} : N[r] = M[r]
  PROVE  Tokens(N, X) = Tokens(M, X)
<1> DEFINE Y == X \ {p}
           Z == Y \ {q}
<1>1. IsFiniteSet(Y) /\ IsFiniteSet(Z) /\ q \in Y
  BY FS_Subset
<1>2. /\ \A r \in X : N[r] \in Nat
      /\ M[p] \in Nat /\ M[q] \in Nat
  <2>1. M[p] - 1 \in Nat /\ M[q] + 1 \in Nat
    OBVIOUS
  <2> QED
    BY <2>1
<1>3. Tokens(M, X) = M[p] + Tokens(M, Y) /\ Tokens(N, X) = N[p] + Tokens(N, Y)
  BY <1>2, TokensSplit
<1>4. /\ Tokens(M, Y) = M[q] + Tokens(M, Z) /\ Tokens(M, Z) \in Nat
      /\ Tokens(N, Y) = N[q] + Tokens(N, Z)
  <2>1. (\A r \in Y : M[r] \in Nat) /\ (\A r \in Y : N[r] \in Nat)
    BY <1>2
  <2> HIDE DEF Y
  <2> QED
    BY <1>1, <2>1, TokensSplit
<1>5. Tokens(N, Z) = Tokens(M, Z)
  <2>1. \A r \in Z : M[r] \in Nat /\ N[r] = M[r]
    OBVIOUS
  <2> HIDE DEF Z
  <2> QED
    BY <1>1, <2>1, TokensSame
<1> HIDE DEF Y, Z
<1> QED
  BY <1>2, <1>3, <1>4, <1>5

-----------------------------------------------------------------------------
(* What a step takes from a set of places it gives back to it.             *)
PassesOn(in, out, X) ==
  \/ in \cap X = {} /\ out \cap X = {}
  \/ \E p, q \in X : in \cap X = {p} /\ out \cap X = {q}

(* Such a step conserves the tokens of the set, if every place of it has   *)
(* room for all of them: then no token is clamped away.                    *)
LEMMA FiringConserves ==
  ASSUME NEW n, IsNet(n), NEW m \in [n.places -> Nat],
         NEW t \in n.transitions, IsEnabled(m, n, t),
         NEW X \in SUBSET n.places, NEW K \in Nat, Tokens(m, X) = K,
         \A p \in X : n.capacity[p] >= K,
         NEW in, NEW out, PassesOn(in, out, X),
         \A p \in X : /\ n.Pre[p][t] = IF p \in in THEN 1 ELSE 0
                      /\ n.Post[t][p] = IF p \in out THEN 1 ELSE 0
  PROVE  Tokens(FireMarking(m, n, t), X) = K
<1> DEFINE N == FireMarking(m, n, t)
<1>1. IsFiniteSet(X) /\ \A p \in X : m[p] \in Nat
  BY FS_Subset DEF IsNet
<1>2. \A p \in X : n.Pre[p][t] <= m[p] /\ m[p] <= K
  BY <1>1, TokensCover DEF IsEnabled
<1>3. ASSUME NEW p \in X
      PROVE  /\ n.Post[t][p] = 0 => N[p] = m[p] - n.Pre[p][t]
             /\ n.Pre[p][t] = 1 /\ n.Post[t][p] = 1 => N[p] = m[p]
             /\ n.Pre[p][t] = 0 /\ n.Post[t][p] = 1 /\ m[p] + 1 <= K => N[p] = m[p] + 1
  <2>1. /\ N[p] = IF Overflows(m, n, t, p) THEN n.capacity[p] ELSE Produced(m, n, t, p)
        /\ m[p] \in Nat /\ n.capacity[p] \in Nat /\ m[p] <= K /\ K <= n.capacity[p]
        /\ n.Pre[p][t] \in Nat /\ n.Post[t][p] \in Nat
    BY <1>2 DEF FireMarking, IsNet
  <2> HIDE DEF N
  <2> QED
    BY <2>1 DEF Overflows, Produced
<1> HIDE DEF N
<1>4. CASE in \cap X = {} /\ out \cap X = {}
  <2>1. \A p \in X : N[p] = m[p]
    BY <1>1, <1>3, <1>4
  <2> QED
    BY <1>1, <2>1, TokensSame DEF N
<1>5. ASSUME NEW p \in X, NEW q \in X, in \cap X = {p}, out \cap X = {q}
      PROVE  Tokens(N, X) = K
  <2>1. \A r \in X : /\ r \in in <=> r = p
                     /\ r \in out <=> r = q
    BY <1>5
  <2>2. \A r \in X \ {p, q} : N[r] = m[r]
    BY <1>1, <1>3, <2>1
  <2>3. CASE p = q
    <3>1. \A r \in X : N[r] = m[r]
      BY <1>3, <2>1, <2>2, <2>3
    <3> QED
      BY <1>1, <3>1, TokensSame
  <2>4. CASE p # q
    <3>1. m[p] \in Nat /\ m[q] \in Nat /\ m[p] >= 1 /\ N[p] = m[p] - 1
      BY <1>1, <1>2, <1>3, <2>1, <2>4
    <3>2. m[p] + m[q] <= K
      BY <1>1, <2>4, TokensCover
    <3>3. N[q] = m[q] + 1
      <4>1. m[q] + 1 <= K
        BY <3>1, <3>2
      <4> QED
        BY <1>3, <2>1, <2>4, <4>1
    <3> QED
      BY <1>1, <2>2, <2>4, <3>1, <3>3, TokensMove
  <2> QED
    BY <2>3, <2>4
<1> QED
  BY <1>4, <1>5 DEF PassesOn, N

-----------------------------------------------------------------------------
(* A net is built by joining sequences of steps.  FlattenSeq is recursive; *)
(* its function is defined because it is on the first i sequences, for     *)
(* every i.                                                                *)
Flattens(seqs, n, f) ==
  f = [i \in 1 .. n |-> IF i = 1 THEN seqs[i] ELSE f[i - 1] \o seqs[i]]

LEMMA FlattenIsFold ==
  ASSUME NEW seqs, Len(seqs) # 0
  PROVE  FlattenSeq(seqs) = (CHOOSE f : Flattens(seqs, Len(seqs), f))[Len(seqs)]
BY Zenon DEF FlattenSeq, Flattens

LEMMA FlattenIsDefined ==
  ASSUME NEW seqs, NEW n \in Nat
  PROVE  \E f : Flattens(seqs, n, f)
<1> DEFINE Exists(i) == \E f : Flattens(seqs, i, f)
           Failing == {i \in Nat : ~ Exists(i)}
<1>1. Exists(0)
  <2> DEFINE f == [i \in 1 .. 0 |-> seqs[i]]
  <2>1. f = [i \in 1 .. 0 |-> IF i = 1 THEN seqs[i] ELSE f[i - 1] \o seqs[i]]
    OBVIOUS
  <2> QED
    BY <2>1 DEF Flattens
<1>2. ASSUME NEW k \in Nat, k # 0, Exists(k - 1)
      PROVE  Exists(k)
  <2>1. PICK g : Flattens(seqs, k - 1, g)
    BY <1>2
  <2> DEFINE Value(i) == IF i = 1 THEN seqs[i] ELSE g[i - 1] \o seqs[i]
             f == [i \in 1 .. k |-> Value(i)]
  <2>2. \A i \in 1 .. k - 1 : g[i] = Value(i)
    BY <2>1 DEF Flattens
  <2>3. \A i \in 1 .. k : i # 1 => i - 1 \in 1 .. k - 1 /\ i - 1 \in 1 .. k
    OBVIOUS
  <2>4. \A i \in 1 .. k : f[i] = Value(i)
    OBVIOUS
  <2> HIDE DEF f
  <2>5. \A i \in 1 .. k : f[i] = IF i = 1 THEN seqs[i] ELSE f[i - 1] \o seqs[i]
    BY <2>2, <2>3, <2>4
  <2>6. f = [i \in 1 .. k |-> IF i = 1 THEN seqs[i] ELSE f[i - 1] \o seqs[i]]
    BY <2>5 DEF f
  <2> QED
    BY <2>6 DEF Flattens
<1>3. Failing = {}
  <2> SUFFICES ASSUME Failing # {} PROVE FALSE
    OBVIOUS
  <2> HIDE DEF Exists
  <2>1. PICK k \in Failing : \A i \in Failing : k <= i
    BY LeastNatural
  <2>2. k \in Nat /\ k # 0 /\ k - 1 \notin Failing
    BY <1>1, <2>1
  <2> QED
    BY <1>2, <2>1, <2>2
<1> QED
  BY <1>3

LEMMA JoinedElements ==
  ASSUME NEW s, NEW t, IsSequence(s), IsSequence(t)
  PROVE  IsSequence(s \o t) /\ ToSet(s \o t) = ToSet(s) \cup ToSet(t)
<1> DEFINE V == ToSet(s) \cup ToSet(t)
           j == s \o t
<1>1. s \in Seq(V) /\ t \in Seq(V)
  BY SeqMonotonic DEF IsSequence
<1>2. /\ Len(s) \in Nat /\ DOMAIN s = 1 .. Len(s)
      /\ Len(t) \in Nat /\ DOMAIN t = 1 .. Len(t)
  BY <1>1, LenProperties
<1>3. /\ j \in Seq(V)
      /\ Len(j) = Len(s) + Len(t) /\ DOMAIN j = 1 .. Len(j)
      /\ \A i \in 1 .. Len(s) + Len(t) :
           j[i] = IF i <= Len(s) THEN s[i] ELSE t[i - Len(s)]
  BY <1>1, ConcatProperties, LenProperties
<1> HIDE DEF j
<1>4. ASSUME NEW i \in DOMAIN j PROVE j[i] \in V
  BY <1>3, <1>4, ElementOfSeq
<1>5. ASSUME NEW i \in DOMAIN s PROVE s[i] \in ToSet(j)
  <2>1. i \in DOMAIN j /\ j[i] = s[i]
    BY <1>2, <1>3
  <2> QED
    BY <2>1 DEF ToSet
<1>6. ASSUME NEW i \in DOMAIN t PROVE t[i] \in ToSet(j)
  <2>1. Len(s) + i \in DOMAIN j /\ j[Len(s) + i] = t[i]
    BY <1>2, <1>3
  <2> QED
    BY <2>1 DEF ToSet
<1>7. ToSet(j) = V
  BY <1>4, <1>5, <1>6 DEF ToSet
<1> QED
  BY <1>3, <1>7 DEF IsSequence, j

LEMMA FlattenedElements ==
  ASSUME NEW n \in Nat, NEW seqs, seqs = [i \in 1 .. n |-> seqs[i]],
         \A i \in 1 .. n : IsSequence(seqs[i])
  PROVE  /\ IsSequence(FlattenSeq(seqs))
         /\ ToSet(FlattenSeq(seqs)) = UNION {ToSet(seqs[i]) : i \in 1 .. n}
<1>1. DOMAIN seqs = 1 .. n /\ seqs \in Seq(ToSet(seqs))
  <2>1. seqs \in [1 .. n -> ToSet(seqs)]
    BY DEF ToSet
  <2> QED
    BY <2>1, SeqDef
<1>2. Len(seqs) = n
  BY <1>1, LenProperties
<1>3. CASE n = 0
  <2>1. FlattenSeq(seqs) = seqs
    BY <1>2, <1>3 DEF FlattenSeq
  <2>2. ToSet(seqs) = {}
    BY <1>1, <1>3 DEF ToSet
  <2>3. UNION {ToSet(seqs[i]) : i \in 1 .. n} = {}
    BY <1>3
  <2> QED
    BY <1>1, <2>1, <2>2, <2>3 DEF IsSequence
<1>4. CASE n # 0
  <2>1. PICK f : f = CHOOSE e : Flattens(seqs, n, e)
    OBVIOUS
  <2>2. Flattens(seqs, n, f)
    BY <2>1, FlattenIsDefined
  <2>3. \A i \in 1 .. n : f[i] = IF i = 1 THEN seqs[i] ELSE f[i - 1] \o seqs[i]
    BY <2>2 DEF Flattens
  <2> DEFINE Upto(i) == UNION {ToSet(seqs[j]) : j \in 1 .. i}
             Good(i) == IsSequence(f[i]) /\ ToSet(f[i]) = Upto(i)
             Failing == {i \in 1 .. n : ~ Good(i)}
  <2>4. Failing = {}
    <3> SUFFICES ASSUME Failing # {} PROVE FALSE
      OBVIOUS
    <3> HIDE DEF Good
    <3>0. Failing \in SUBSET Nat
      OBVIOUS
    <3>1. PICK k \in Failing : \A i \in Failing : k <= i
      <4> HIDE DEF Failing
      <4> QED
        BY <3>0, LeastNatural
    <3>2. CASE k = 1
      <4>1. f[k] = seqs[k] /\ IsSequence(seqs[k])
        BY <2>3, <3>1, <3>2
      <4>2. Upto(k) = ToSet(seqs[k])
        BY <3>2
      <4> QED
        BY <3>1, <4>1, <4>2 DEF Good
    <3>3. CASE k # 1
      <4>1. k - 1 \in 1 .. n /\ k - 1 \notin Failing /\ k \in 1 .. n
        BY <3>1, <3>3
      <4>2. IsSequence(f[k - 1]) /\ ToSet(f[k - 1]) = Upto(k - 1)
        BY <4>1 DEF Good
      <4>3. f[k] = f[k - 1] \o seqs[k] /\ IsSequence(seqs[k])
        BY <2>3, <3>3, <4>1
      <4>4. IsSequence(f[k]) /\ ToSet(f[k]) = ToSet(f[k - 1]) \cup ToSet(seqs[k])
        BY <4>2, <4>3, JoinedElements
      <4>5. Upto(k) = Upto(k - 1) \cup ToSet(seqs[k])
        <5>1. 1 .. k = (1 .. k - 1) \cup {k}
          BY <4>1
        <5> QED
          BY <5>1
      <4> HIDE DEF Upto
      <4> QED
        BY <3>1, <4>2, <4>4, <4>5 DEF Good
    <3> QED
      BY <3>2, <3>3
  <2>5. Good(n)
    BY <1>4, <2>4
  <2> QED
    BY <1>2, <1>4, <2>1, <2>5, FlattenIsFold
<1> QED
  BY <1>3, <1>4

LEMMA FunctionIsSequence ==
  ASSUME NEW n \in Nat, NEW f, f = [i \in 1 .. n |-> f[i]]
  PROVE  IsSequence(f) /\ ToSet(f) = {f[i] : i \in 1 .. n}
<1>1. f \in [1 .. n -> ToSet(f)] /\ DOMAIN f = 1 .. n
  BY DEF ToSet
<1> QED
  BY <1>1, SeqDef DEF IsSequence, ToSet

LEMMA ShortSequences ==
  /\ IsSequence(<<>>) /\ ToSet(<<>>) = {}
  /\ \A x : IsSequence(<<x>>) /\ ToSet(<<x>>) = {x}
  /\ \A x, y, z, u : /\ IsSequence(<<x, y, z, u>>)
                     /\ ToSet(<<x, y, z, u>>) = {x, y, z, u}
<1>1. IsSequence(<<>>) /\ ToSet(<<>>) = {}
  BY DEF IsSequence, ToSet
<1>2. ASSUME NEW x PROVE IsSequence(<<x>>) /\ ToSet(<<x>>) = {x}
  <2>1. ToSet(<<x>>) = {x}
    BY DEF ToSet
  <2> QED
    BY <2>1 DEF IsSequence
<1>3. ASSUME NEW x, NEW y, NEW z, NEW u
      PROVE  /\ IsSequence(<<x, y, z, u>>)
             /\ ToSet(<<x, y, z, u>>) = {x, y, z, u}
  <2>1. ToSet(<<x, y, z, u>>) = {x, y, z, u}
    <3>1. DOMAIN <<x, y, z, u>> = {1, 2, 3, 4}
      OBVIOUS
    <3> QED
      BY <3>1 DEF ToSet
  <2> QED
    BY <2>1 DEF IsSequence
<1> QED
  BY <1>1, <1>2, <1>3

-----------------------------------------------------------------------------
(* The steps of a lowered graph.  Most of them touch the ends of chains    *)
(* and the places of edges, releases and monitors only; the others move a  *)
(* token along its chain, or are takeovers of the restart policy.          *)
Outer(g, p) ==
  \/ p[1] \notin {"chain", "core", "lock"}
  \/ p[1] = "chain" /\ p[3] \in {0, ChainLength(g, p[2]) - 1}

IsMonitor(p) == \E i, role : p = Monitor(i, role)

ForkStep(g, s) ==
  \E n \in DOMAIN g.node : IsControl(g, n) /\ s = ForkOrJoin(g, n)

TieStep(g, s) ==
  \E e \in EdgesOf(g) :
    /\ Bridges(g, e)
    /\ s = ControlStep({Exit(g, e.source)}, {Entry(g, e.target)}, LabelInterval(e.label))

MonitorStep(g, s) ==
  /\ \E n : \A p \in s.in : p \in {Entry(g, n), Exit(g, n)} \/ IsMonitor(p)
  /\ \A p \in s.out : IsMonitor(p)
  /\ s.core = ControlCore /\ s.priority = ControlPriority

ReleaseStep(g, s) == \E i \in Released(g) : s = Release(g, i)

ConsumeStep(g, s) == \E n : s = ControlStep({Exit(g, n)}, {}, Closed(0, 0))

OuterStep(g, s) ==
  \/ ForkStep(g, s) \/ TieStep(g, s) \/ MonitorStep(g, s)
  \/ ReleaseStep(g, s) \/ ConsumeStep(g, s)

Positions(g, t) == 1 .. 3 * NumLocks(g, t) + 2

StepOfChain(g, s) ==
  \E t \in Tasks(g) : \E i \in Positions(g, t) : s = ChainStep(g, t, 2 * i - 1)

TakeoverStep(g, s) ==
  \E hi, lo : /\ Preempts(g, hi, lo)
              /\ \/ s = Takeover(g, hi, lo, 2, {})
                 \/ \E j \in 1 .. MutexesFirst(g, lo) :
                      LET k == ChainLength(g, lo) - 3 - 2 * j
                      IN  s = Takeover(g, hi, lo, k, {k + 1})

IsStep(g, s) == OuterStep(g, s) \/ StepOfChain(g, s) \/ TakeoverStep(g, s)

LEMMA EndsAreOuter ==
  ASSUME NEW g, NEW n
  PROVE  Outer(g, Entry(g, n)) /\ Outer(g, Exit(g, n))
BY DEF Outer, Entry, Exit, Chain, Empty

LEMMA OuterStepsAreOuter ==
  ASSUME NEW g, NEW s, OuterStep(g, s)
  PROVE  \A p \in s.in \cup s.out : Outer(g, p)
<1>1. \A p : IsMonitor(p) => Outer(g, p)
  BY DEF IsMonitor, Monitor, Outer
<1>2. \A n : Outer(g, Period(n))
  BY DEF Period, Outer
<1>3. CASE ForkStep(g, s)
  BY <1>3, EndsAreOuter DEF ForkStep, ForkOrJoin, JoinsAllOf
<1>4. CASE TieStep(g, s)
  BY <1>4, EndsAreOuter DEF TieStep, ControlStep
<1>5. CASE MonitorStep(g, s)
  BY <1>1, <1>5, EndsAreOuter DEF MonitorStep
<1>6. CASE ReleaseStep(g, s)
  BY <1>2, <1>6, EndsAreOuter DEF ReleaseStep, Release, ControlStep
<1>7. CASE ConsumeStep(g, s)
  BY <1>7, EndsAreOuter DEF ConsumeStep, ControlStep
<1> QED
  BY <1>3, <1>4, <1>5, <1>6, <1>7 DEF OuterStep

LEMMA TasksAreFinite ==
  ASSUME NEW g, IsGraph(g)
  PROVE  /\ IsFiniteSet(DOMAIN g.node) /\ IsFiniteSet(Tasks(g))
         /\ \A t \in Tasks(g) : NumLocks(g, t) \in Nat
<1>1. IsFiniteSet(ToSet(g.order))
  <2>1. DOMAIN g.order = 1 .. Len(g.order) /\ Len(g.order) \in Nat
    BY LenProperties DEF IsGraph, IsSequence
  <2>2. IsFiniteSet(DOMAIN g.order)
    <3> DEFINE n == Len(g.order)
    <3>1. n \in Int /\ 1 \in Int
      BY <2>1
    <3> HIDE DEF n
    <3>2. IsFiniteSet(1 .. n)
      BY <3>1, FS_Interval, SMTT(30)
    <3> QED
      BY <2>1, <3>2 DEF n
  <2> DEFINE f == [i \in DOMAIN g.order |-> g.order[i]]
  <2>3. f \in Surjection(DOMAIN g.order, ToSet(g.order))
    BY DEF Surjection, ToSet
  <2> QED
    BY <2>2, <2>3, FS_Surjection
<1>2. Tasks(g) \subseteq DOMAIN g.node
  BY DEF Tasks
<1>3. \A t \in Tasks(g) : NumLocks(g, t) \in Nat
  BY LenProperties DEF IsGraph, IsSequence, NumLocks, Locks
<1> QED
  BY <1>1, <1>2, <1>3, FS_Subset DEF IsGraph

LEMMA ChainStepsAre ==
  ASSUME NEW g, IsGraph(g), NEW t \in Tasks(g)
  PROVE  /\ IsSequence(ChainSteps(g, t))
         /\ ToSet(ChainSteps(g, t)) = {ChainStep(g, t, 2 * i - 1) : i \in Positions(g, t)}
<1> DEFINE n == 3 * NumLocks(g, t) + 2
           f == [i \in 1 .. n |-> ChainStep(g, t, 2 * i - 1)]
<1>1. n \in Nat
  BY TasksAreFinite
<1>2. f = [i \in 1 .. n |-> f[i]]
  OBVIOUS
<1>3. \A i \in 1 .. n : f[i] = ChainStep(g, t, 2 * i - 1)
  OBVIOUS
<1>4. ChainSteps(g, t) = f /\ Positions(g, t) = 1 .. n
  BY DEF ChainSteps, Positions
<1> HIDE DEF f, n
<1>5. IsSequence(f) /\ ToSet(f) = {f[i] : i \in 1 .. n}
  BY <1>1, <1>2, FunctionIsSequence
<1> QED
  BY <1>3, <1>4, <1>5

LEMMA NodeStepsAre ==
  ASSUME NEW g, IsGraph(g), NEW n \in DOMAIN g.node
  PROVE  /\ IsSequence(NodeSteps(g, n))
         /\ \A s \in ToSet(NodeSteps(g, n)) : StepOfChain(g, s) \/ ForkStep(g, s)
<1>1. CASE IsTask(g, n)
  <2>1. n \in Tasks(g)
    BY <1>1 DEF Tasks
  <2>2. NodeSteps(g, n) = ChainSteps(g, n)
    BY <1>1 DEF NodeSteps
  <2> QED
    BY <2>1, <2>2, ChainStepsAre DEF StepOfChain
<1>2. CASE ~ IsTask(g, n) /\ IsControl(g, n)
  <2>1. NodeSteps(g, n) = <<ForkOrJoin(g, n)>>
    BY <1>2 DEF NodeSteps
  <2>2. ForkStep(g, ForkOrJoin(g, n))
    BY <1>2 DEF ForkStep
  <2> QED
    BY <2>1, <2>2, ShortSequences
<1>3. CASE ~ IsTask(g, n) /\ ~ IsControl(g, n)
  BY <1>3, ShortSequences DEF NodeSteps
<1> QED
  BY <1>1, <1>2, <1>3

LEMMA VertexStepsAre ==
  ASSUME NEW g, IsGraph(g)
  PROVE  /\ IsSequence(VertexSteps(g))
         /\ \A s \in ToSet(VertexSteps(g)) : StepOfChain(g, s) \/ ForkStep(g, s)
         /\ \A t \in Tasks(g) : ToSet(ChainSteps(g, t)) \subseteq ToSet(VertexSteps(g))
<1> DEFINE n == Len(g.order)
           seqs == [i \in 1 .. n |-> NodeSteps(g, g.order[i])]
<1>1. n \in Nat /\ DOMAIN g.order = 1 .. n
  BY LenProperties DEF IsGraph, IsSequence
<1>2. VertexSteps(g) = FlattenSeq(seqs)
  BY <1>1 DEF VertexSteps
<1>3. seqs = [i \in 1 .. n |-> seqs[i]] /\ \A i \in 1 .. n : seqs[i] = NodeSteps(g, g.order[i])
  OBVIOUS
<1>4. \A i \in 1 .. n : g.order[i] \in DOMAIN g.node
  BY <1>1 DEF IsGraph, ToSet
<1>5. \A t \in Tasks(g) : \E i \in 1 .. n : g.order[i] = t
  BY <1>1 DEF IsGraph, ToSet, Tasks
<1> HIDE DEF seqs, n
<1>6. \A i \in 1 .. n : /\ IsSequence(seqs[i])
                        /\ \A s \in ToSet(seqs[i]) : StepOfChain(g, s) \/ ForkStep(g, s)
  BY <1>3, <1>4, NodeStepsAre
<1>7. /\ IsSequence(FlattenSeq(seqs))
      /\ ToSet(FlattenSeq(seqs)) = UNION {ToSet(seqs[i]) : i \in 1 .. n}
  BY <1>1, <1>3, <1>6, FlattenedElements
<1>8. \A t \in Tasks(g) : NodeSteps(g, t) = ChainSteps(g, t)
  BY DEF NodeSteps, Tasks
<1> QED
  BY <1>2, <1>3, <1>5, <1>6, <1>7, <1>8

LEMMA EdgeStepsAre ==
  ASSUME NEW g, NEW i, g.edges[i] \in EdgesOf(g)
  PROVE  /\ IsSequence(EdgeSteps(g, i))
         /\ \A s \in ToSet(EdgeSteps(g, i)) : TieStep(g, s) \/ MonitorStep(g, s)
<1> DEFINE e == g.edges[i]
<1>1. CASE IsSelfLoop(e)
  <2> DEFINE place(role) == {Monitor(i, role)}
             a == ControlStep({Entry(g, e.source)}, place("deadline"),
                              Closed(e.label[1], e.label[1]))
             b == ControlStep({Exit(g, e.source)}, place("end"), Closed(0, 0))
             c == ControlStep(place("end"), place("ok"), Closed(0, 0))
             d == ControlStep(place("deadline"), place("timeout"), Closed(0, 0))
  <2>1. EdgeSteps(g, i) = <<a, b, c, d>>
    BY <1>1 DEF EdgeSteps, MonitorSteps
  <2>2. \A role : IsMonitor(Monitor(i, role))
    BY DEF IsMonitor
  <2>3. MonitorStep(g, a) /\ MonitorStep(g, b)
    BY <2>2 DEF MonitorStep, ControlStep
  <2>4. MonitorStep(g, c) /\ MonitorStep(g, d)
    BY <2>2 DEF MonitorStep, ControlStep
  <2> HIDE DEF a, b, c, d
  <2> QED
    BY <2>1, <2>3, <2>4, ShortSequences
<1>2. CASE ~ IsSelfLoop(e)
  <2> DEFINE tie == ControlStep({Exit(g, e.source)}, {Entry(g, e.target)},
                                LabelInterval(e.label))
  <2>1. EdgeSteps(g, i) = IF Bridges(g, e) THEN <<tie>> ELSE <<>>
    BY <1>2 DEF EdgeSteps
  <2>2. Bridges(g, e) => TieStep(g, tie)
    BY DEF TieStep
  <2> HIDE DEF tie
  <2> QED
    BY <2>1, <2>2, ShortSequences
<1> QED
  BY <1>1, <1>2

LEMMA StepsOfEdgesAre ==
  ASSUME NEW g, IsGraph(g)
  PROVE  /\ IsSequence(StepsOfEdges(g, Len(g.edges)))
         /\ \A s \in ToSet(StepsOfEdges(g, Len(g.edges))) :
              TieStep(g, s) \/ MonitorStep(g, s)
<1> DEFINE n == Len(g.edges)
           seqs == [i \in 1 .. n |-> EdgeSteps(g, i)]
<1>1. /\ StepsOfEdges(g, n) = FlattenSeq(seqs)
      /\ seqs = [i \in 1 .. n |-> seqs[i]]
      /\ \A i \in 1 .. n : seqs[i] = EdgeSteps(g, i)
  BY DEF StepsOfEdges
<1>2. n \in Nat /\ \A i \in 1 .. n : g.edges[i] \in EdgesOf(g)
  BY LenProperties DEF IsGraph, IsSequence, EdgesOf, ToSet
<1> HIDE DEF seqs, n
<1>3. \A i \in 1 .. n : /\ IsSequence(seqs[i])
                        /\ \A s \in ToSet(seqs[i]) : TieStep(g, s) \/ MonitorStep(g, s)
  BY <1>1, <1>2, EdgeStepsAre
<1>4. /\ IsSequence(FlattenSeq(seqs))
      /\ \A s \in ToSet(FlattenSeq(seqs)) : TieStep(g, s) \/ MonitorStep(g, s)
  BY <1>1, <1>2, <1>3, FlattenedElements
<1>5. StepsOfEdges(g, Len(g.edges)) = FlattenSeq(seqs)
  BY <1>1 DEF n
<1> QED
  BY <1>4, <1>5

LEMMA ReleaseStepsAre ==
  ASSUME NEW g, IsGraph(g)
  PROVE  /\ IsSequence(ReleaseSteps(g))
         /\ \A s \in ToSet(ReleaseSteps(g)) : OuterStep(g, s)
         /\ \A i \in Released(g) : Release(g, i) \in ToSet(ReleaseSteps(g))
<1> DEFINE n == Len(g.periodic)
           steps(i) == IF i \in Released(g) THEN <<Release(g, i)>> ELSE <<>>
           seqs == [i \in 1 .. n |-> steps(i)]
<1>1. n \in Nat /\ Released(g) \subseteq 1 .. n
  BY LenProperties DEF IsGraph, IsSequence, Released
<1>2. /\ ReleaseSteps(g) = FlattenSeq(seqs)
      /\ seqs = [i \in 1 .. n |-> seqs[i]]
      /\ \A i \in 1 .. n : seqs[i] = steps(i)
  BY DEF ReleaseSteps
<1>3. ASSUME NEW i
      PROVE  /\ IsSequence(steps(i)) /\ \A s \in ToSet(steps(i)) : OuterStep(g, s)
             /\ i \in Released(g) => Release(g, i) \in ToSet(steps(i))
  BY ShortSequences DEF OuterStep, ReleaseStep
<1> HIDE DEF seqs, n, steps
<1>4. \A i \in 1 .. n : IsSequence(seqs[i]) /\ \A s \in ToSet(seqs[i]) : OuterStep(g, s)
  BY <1>2, <1>3
<1>5. /\ IsSequence(FlattenSeq(seqs))
      /\ ToSet(FlattenSeq(seqs)) = UNION {ToSet(seqs[i]) : i \in 1 .. n}
  BY <1>1, <1>2, <1>4, FlattenedElements
<1>6. ASSUME NEW i \in Released(g)
      PROVE  Release(g, i) \in ToSet(FlattenSeq(seqs))
  <2>1. i \in 1 .. n /\ Release(g, i) \in ToSet(seqs[i])
    BY <1>1, <1>2, <1>3
  <2> QED
    BY <1>5, <2>1
<1> QED
  BY <1>2, <1>4, <1>5, <1>6

LEMMA ConsumeStepsAre ==
  ASSUME NEW g, IsGraph(g)
  PROVE  /\ IsSequence(ConsumeSteps(g))
         /\ \A s \in ToSet(ConsumeSteps(g)) : OuterStep(g, s)
<1> DEFINE n == Cardinality(Consumed(g))
           ts == SetToSeq(Consumed(g))
           f == [i \in 1 .. n |-> ControlStep({Exit(g, ts[i])}, {}, Closed(0, 0))]
<1>1. n \in Nat
  <2>1. Consumed(g) \in SUBSET Tasks(g)
    BY DEF Consumed, IsGraph
  <2> QED
    BY <2>1, TasksAreFinite, FS_Subset, FS_CardinalityType
<1>2. f = [i \in 1 .. n |-> f[i]] /\ ConsumeSteps(g) = f
  BY DEF ConsumeSteps
<1>3. \A i \in 1 .. n : OuterStep(g, f[i])
  BY DEF OuterStep, ConsumeStep
<1> HIDE DEF f, n
<1>4. IsSequence(f) /\ ToSet(f) = {f[i] : i \in 1 .. n}
  BY <1>1, <1>2, FunctionIsSequence
<1> QED
  BY <1>2, <1>3, <1>4

LEMMA PreemptStepsAre ==
  ASSUME NEW g, IsGraph(g), NEW hi, NEW lo, Preempts(g, hi, lo)
  PROVE  /\ IsSequence(PreemptSteps(g, hi, lo))
         /\ \A s \in ToSet(PreemptSteps(g, hi, lo)) : TakeoverStep(g, s)
<1> DEFINE n == MutexesFirst(g, lo)
           K(j) == ChainLength(g, lo) - 3 - 2 * j
           f == [j \in 1 .. n |-> Takeover(g, hi, lo, K(j), {ChainLength(g, lo) - 2 - 2 * j})]
           first == Takeover(g, hi, lo, 2, {})
<1>1. NumLocks(g, lo) \in Nat /\ lo \in Tasks(g)
  BY TasksAreFinite DEF Preempts
<1>2. n \in Nat
  <2> DEFINE Js == {j \in 1 .. NumLocks(g, lo) :
                     \A i \in 1 .. j : Locks(g, lo)[i] \notin g.spin}
  <2>1. IsFiniteSet(1 .. NumLocks(g, lo)) /\ Js \in SUBSET (1 .. NumLocks(g, lo))
    BY <1>1, FS_Interval
  <2>2. IsFiniteSet(Js) /\ n = Cardinality(Js)
    BY <2>1, FS_Subset DEF MutexesFirst
  <2> QED
    BY <2>2, FS_CardinalityType
<1>3. f = [j \in 1 .. n |-> f[j]] /\ PreemptSteps(g, hi, lo) = <<first>> \o f
  BY DEF PreemptSteps
<1>4. TakeoverStep(g, first)
  BY DEF TakeoverStep
<1>5. ASSUME NEW j \in 1 .. n PROVE TakeoverStep(g, f[j])
  <2>1. ChainLength(g, lo) \in Int
    BY <1>1 DEF ChainLength
  <2>2. ChainLength(g, lo) - 2 - 2 * j = K(j) + 1
    BY <1>2, <2>1
  <2>3. f[j] = Takeover(g, hi, lo, K(j), {K(j) + 1})
    BY <2>2
  <2> HIDE DEF f
  <2> QED
    BY <2>3 DEF TakeoverStep
<1> HIDE DEF f, n, first
<1>6. IsSequence(f) /\ ToSet(f) = {f[j] : j \in 1 .. n}
  BY <1>2, <1>3, FunctionIsSequence
<1>7. IsSequence(<<first>>) /\ ToSet(<<first>>) = {first}
  BY ShortSequences
<1>8. IsSequence(<<first>> \o f) /\ ToSet(<<first>> \o f) = {first} \cup ToSet(f)
  BY <1>6, <1>7, JoinedElements
<1> QED
  BY <1>3, <1>4, <1>5, <1>6, <1>8

LEMMA RestartStepsAre ==
  ASSUME NEW g, IsGraph(g)
  PROVE  /\ IsSequence(RestartSteps(g))
         /\ \A s \in ToSet(RestartSteps(g)) : TakeoverStep(g, s)
<1> DEFINE n == Cardinality(Tasks(g))
           ts == ByPriority(g)
           steps(hi, lo) == IF Preempts(g, hi, lo) THEN PreemptSteps(g, hi, lo) ELSE <<>>
           row(i) == [j \in 1 .. n |-> steps(ts[i], ts[j])]
           seqs == [i \in 1 .. n |-> FlattenSeq(row(i))]
<1>1. n \in Nat
  BY TasksAreFinite, FS_CardinalityType
<1>2. RestartSteps(g) = FlattenSeq(seqs)
  BY Zenon DEF RestartSteps
<1>3. \A hi, lo : /\ IsSequence(steps(hi, lo))
                  /\ \A s \in ToSet(steps(hi, lo)) : TakeoverStep(g, s)
  BY PreemptStepsAre, ShortSequences
<1>4. ASSUME NEW i
      PROVE  /\ IsSequence(FlattenSeq(row(i)))
             /\ \A s \in ToSet(FlattenSeq(row(i))) : TakeoverStep(g, s)
  <2>1. /\ row(i) = [j \in 1 .. n |-> row(i)[j]]
        /\ \A j \in 1 .. n : row(i)[j] = steps(ts[i], ts[j])
    OBVIOUS
  <2> HIDE DEF row, steps, n, ts
  <2>2. \A j \in 1 .. n : IsSequence(row(i)[j])
    BY <1>3, <2>1
  <2>3. /\ IsSequence(FlattenSeq(row(i)))
        /\ ToSet(FlattenSeq(row(i))) = UNION {ToSet(row(i)[j]) : j \in 1 .. n}
    BY <1>1, <2>1, <2>2, FlattenedElements
  <2> QED
    BY <1>3, <2>1, <2>3
<1>5. /\ seqs = [i \in 1 .. n |-> seqs[i]]
      /\ \A i \in 1 .. n : seqs[i] = FlattenSeq(row(i))
  OBVIOUS
<1> HIDE DEF seqs, row, n
<1>6. /\ IsSequence(FlattenSeq(seqs))
      /\ ToSet(FlattenSeq(seqs)) = UNION {ToSet(seqs[i]) : i \in 1 .. n}
  BY <1>1, <1>4, <1>5, FlattenedElements
<1> QED
  BY <1>2, <1>4, <1>5, <1>6

LEMMA StepsAre ==
  ASSUME NEW g, IsGraph(g)
  PROVE  /\ IsSequence(Steps(g))
         /\ \A s \in ToSet(Steps(g)) : IsStep(g, s)
         /\ \A t \in Tasks(g) : \A i \in Positions(g, t) :
              ChainStep(g, t, 2 * i - 1) \in ToSet(Steps(g))
         /\ \A i \in Released(g) : Release(g, i) \in ToSet(Steps(g))
<1> DEFINE A == VertexSteps(g)
           B == StepsOfEdges(g, Len(g.edges))
           C == ReleaseSteps(g)
           D == ConsumeSteps(g)
           E == RestartSteps(g)
<1>1. \A i \in Released(g) : Release(g, i) \in ToSet(C)
  BY ReleaseStepsAre
<1>2. /\ IsSequence(A) /\ IsSequence(B) /\ IsSequence(C) /\ IsSequence(D) /\ IsSequence(E)
      /\ \A s \in ToSet(A) : IsStep(g, s)
      /\ \A s \in ToSet(B) \cup ToSet(C) \cup ToSet(D) : OuterStep(g, s)
      /\ \A s \in ToSet(E) : TakeoverStep(g, s)
  BY VertexStepsAre, StepsOfEdgesAre, ReleaseStepsAre, ConsumeStepsAre, RestartStepsAre
     DEF IsStep, OuterStep
<1>3. \A t \in Tasks(g) : \A i \in Positions(g, t) : ChainStep(g, t, 2 * i - 1) \in ToSet(A)
  BY VertexStepsAre, ChainStepsAre
<1>4. Steps(g) = A \o B \o C \o D \o E
  BY DEF Steps
<1> HIDE DEF A, B, C, D, E
<1>5. IsSequence(A \o B) /\ ToSet(A \o B) = ToSet(A) \cup ToSet(B)
  BY <1>2, JoinedElements
<1>6. /\ IsSequence(A \o B \o C)
      /\ ToSet(A \o B \o C) = ToSet(A) \cup ToSet(B) \cup ToSet(C)
  BY <1>2, <1>5, JoinedElements
<1>7. /\ IsSequence(A \o B \o C \o D)
      /\ ToSet(A \o B \o C \o D) = ToSet(A) \cup ToSet(B) \cup ToSet(C) \cup ToSet(D)
  BY <1>2, <1>6, JoinedElements
<1>8. /\ IsSequence(A \o B \o C \o D \o E)
      /\ ToSet(A \o B \o C \o D \o E)
           = ToSet(A) \cup ToSet(B) \cup ToSet(C) \cup ToSet(D) \cup ToSet(E)
  BY <1>2, <1>7, JoinedElements
<1> QED
  BY <1>1, <1>2, <1>3, <1>4, <1>8 DEF IsStep

-----------------------------------------------------------------------------
(* The places of a chain have even numbers: At(t, q) is the q-th of them   *)
(* after the entry, and step i of the chain leads from q = i - 1 to q = i. *)
At(t, q) == Chain(t, 2 * q)

LEMMA PlacesDiffer ==
  /\ \A t, q, s, r : q \in Int /\ r \in Int => (At(t, q) = At(s, r) <=> t = s /\ q = r)
  /\ \A t, q, x : At(t, q) # Lock(x) /\ At(t, q) # Core(x)
  /\ \A x, y : /\ Lock(x) # Core(y)
               /\ Lock(x) = Lock(y) <=> x = y
               /\ Core(x) = Core(y) <=> x = y
<1>1. ASSUME NEW t, NEW q \in Int, NEW s, NEW r \in Int
      PROVE  At(t, q) = At(s, r) <=> t = s /\ q = r
  BY DEF At, Chain
<1>2. \A t, q, x : At(t, q) # Lock(x) /\ At(t, q) # Core(x)
  <2>1. \A t, q, x : At(t, q)[1] = "chain" /\ Lock(x)[1] = "lock" /\ Core(x)[1] = "core"
    BY DEF At, Chain, Lock, Core
  <2> QED
    BY <2>1
<1>3. \A x, y : Lock(x) # Core(y) /\ (Lock(x) = Lock(y) <=> x = y)
                  /\ (Core(x) = Core(y) <=> x = y)
  BY DEF Lock, Core
<1> QED
  BY <1>1, <1>2, <1>3

LEMMA ChainStepArcs ==
  ASSUME NEW g, IsGraph(g), NEW t \in Tasks(g), NEW i \in Positions(g, t)
  PROVE  LET s == ChainStep(g, t, 2 * i - 1)
             n == NumLocks(g, t)
             j(x) == {k \in 1 .. n : Locks(g, t)[k] = x}
             holds(c) == ~ IsResume(g) /\ c = g.node[t].core
         IN  /\ \A u : \A q \in Int : /\ At(u, q) \in s.in <=> u = t /\ q = i - 1
                                      /\ At(u, q) \in s.out <=> u = t /\ q = i
             /\ \A x : /\ Lock(x) \in s.in <=> \E k \in j(x) : i = 2 * k + 1
                       /\ Lock(x) \in s.out <=> \E k \in j(x) : i = 3 * n + 2 - k
             /\ \A c : /\ Core(c) \in s.in <=> holds(c) /\ i = 1
                       /\ Core(c) \in s.out <=> holds(c) /\ i = 3 * n + 2
<1> DEFINE s == ChainStep(g, t, 2 * i - 1)
           n == NumLocks(g, t)
           L == Locks(g, t)
<1>1. n \in Nat /\ i \in 1 .. 3 * n + 2 /\ i \in Int
  BY TasksAreFinite DEF Positions
<1>2. /\ Chain(t, (2 * i - 1) - 1) = At(t, i - 1)
      /\ Chain(t, (2 * i - 1) + 1) = At(t, i)
  <2>1. (2 * i - 1) - 1 = 2 * (i - 1) /\ (2 * i - 1) + 1 = 2 * i
    BY <1>1
  <2> QED
    BY <2>1 DEF At
<1>3. ChainLength(g, t) = 6 * n + 5
  BY DEF ChainLength
<1>4. AcquiredAt(g, t, 2 * i - 1) = {L[k] : k \in {m \in 1 .. n : i = 2 * m + 1}}
  <2>1. \A m \in 1 .. n : 2 * i - 1 = 5 + 4 * (m - 1) <=> i = 2 * m + 1
    BY <1>1
  <2> HIDE DEF n
  <2> QED
    BY <2>1 DEF AcquiredAt, n
<1>5. ReleasedAt(g, t, 2 * i - 1) = {L[k] : k \in {m \in 1 .. n : i = 3 * n + 2 - m}}
  <2>1. \A m \in 1 .. n :
          2 * i - 1 = ChainLength(g, t) - 4 - 2 * (m - 1) <=> i = 3 * n + 2 - m
    <3> HIDE DEF n
    <3> QED
      BY <1>1, <1>3
  <2> QED
    BY <2>1 DEF ReleasedAt
<1>6. /\ CoreTaken(g, t, 2 * i - 1)
           = IF ~ IsResume(g) /\ i = 1 THEN {Core(g.node[t].core)} ELSE {}
      /\ CoreGiven(g, t, 2 * i - 1)
           = IF ~ IsResume(g) /\ i = 3 * n + 2 THEN {Core(g.node[t].core)} ELSE {}
  <2>1. 2 * i - 1 = 1 <=> i = 1
    BY <1>1
  <2>2. 2 * i - 1 = ChainLength(g, t) - 2 <=> i = 3 * n + 2
    <3> HIDE DEF n
    <3> QED
      BY <1>1, <1>3
  <2> QED
    BY <2>1, <2>2 DEF CoreTaken, CoreGiven
<1>7. /\ s.in = {At(t, i - 1)} \cup CoreTaken(g, t, 2 * i - 1)
                  \cup {Lock(x) : x \in AcquiredAt(g, t, 2 * i - 1)}
      /\ s.out = {At(t, i)} \cup CoreGiven(g, t, 2 * i - 1)
                  \cup {Lock(x) : x \in ReleasedAt(g, t, 2 * i - 1)}
  BY <1>2 DEF ChainStep
<1> HIDE DEF s, n, L
<1>8. ASSUME NEW u, NEW q \in Int
      PROVE  /\ At(u, q) \in s.in <=> u = t /\ q = i - 1
             /\ At(u, q) \in s.out <=> u = t /\ q = i
  <2>1. i - 1 \in Int
    BY <1>1
  <2>2. /\ At(u, q) = At(t, i - 1) <=> u = t /\ q = i - 1
        /\ At(u, q) = At(t, i) <=> u = t /\ q = i
    BY <1>1, <2>1, PlacesDiffer
  <2>3. \A x : At(u, q) # Lock(x) /\ At(u, q) # Core(x)
    BY PlacesDiffer
  <2> QED
    BY <1>6, <1>7, <2>2, <2>3, Zenon
<1>9. ASSUME NEW x
      PROVE  /\ Lock(x) \in s.in <=> x \in AcquiredAt(g, t, 2 * i - 1)
             /\ Lock(x) \in s.out <=> x \in ReleasedAt(g, t, 2 * i - 1)
  BY <1>6, <1>7, PlacesDiffer
<1>10. ASSUME NEW c
       PROVE  /\ Core(c) \in s.in <=> ~ IsResume(g) /\ c = g.node[t].core /\ i = 1
              /\ Core(c) \in s.out <=> ~ IsResume(g) /\ c = g.node[t].core /\ i = 3 * n + 2
  BY <1>6, <1>7, PlacesDiffer
<1> QED
  BY <1>4, <1>5, <1>8, <1>9, <1>10 DEF s, n, L

-----------------------------------------------------------------------------
(* Where the token of a lock can be: free, or with a task that has taken   *)
(* it as its j-th lock.  Where the token of a core can be.                 *)
Held(g, t, j) == {At(t, q) : q \in 2 * j + 1 .. 3 * NumLocks(g, t) + 1 - j}

Taken(g, t, x) == {j \in 1 .. NumLocks(g, t) : Locks(g, t)[j] = x}

LockPlaces(g, x) ==
  {Lock(x)} \cup UNION {UNION {Held(g, t, j) : j \in Taken(g, t, x)} : t \in Tasks(g)}

Running(g, t) == {At(t, q) : q \in 1 .. 3 * NumLocks(g, t) + 1}

CorePlaces(g, c) ==
  {Core(c)} \cup UNION {Running(g, t) : t \in {u \in Tasks(g) : g.node[u].core = c}}

LEMMA PlacesAre ==
  ASSUME NEW g, IsGraph(g), NEW u, NEW q \in Int
  PROVE  /\ \A x : At(u, q) \in LockPlaces(g, x) <=>
                     /\ u \in Tasks(g)
                     /\ \E j \in Taken(g, u, x) :
                          2 * j + 1 <= q /\ q <= 3 * NumLocks(g, u) + 1 - j
         /\ \A c : At(u, q) \in CorePlaces(g, c) <=>
                     /\ u \in Tasks(g) /\ g.node[u].core = c
                     /\ 1 <= q /\ q <= 3 * NumLocks(g, u) + 1
<1>1. \A t \in Tasks(g) : NumLocks(g, t) \in Nat
  BY TasksAreFinite
<1>2. ASSUME NEW t \in Tasks(g), NEW lo \in Int, NEW hi \in Int
      PROVE  At(u, q) \in {At(t, r) : r \in lo .. hi} <=> u = t /\ lo <= q /\ q <= hi
  <2>1. \A r \in lo .. hi : At(u, q) = At(t, r) <=> u = t /\ q = r
    BY PlacesDiffer
  <2>2. \A r : r \in lo .. hi <=> r \in Int /\ lo <= r /\ r <= hi
    OBVIOUS
  <2> QED
    BY <2>1, <2>2
<1>3. ASSUME NEW t \in Tasks(g), NEW j \in 1 .. NumLocks(g, t)
      PROVE  At(u, q) \in Held(g, t, j) <=>
               u = t /\ 2 * j + 1 <= q /\ q <= 3 * NumLocks(g, t) + 1 - j
  <2>1. 2 * j + 1 \in Int /\ 3 * NumLocks(g, t) + 1 - j \in Int
    BY <1>1
  <2> QED
    BY <1>2, <2>1 DEF Held
<1>4. ASSUME NEW t \in Tasks(g)
      PROVE  At(u, q) \in Running(g, t) <=> u = t /\ 1 <= q /\ q <= 3 * NumLocks(g, t) + 1
  <2>1. 3 * NumLocks(g, t) + 1 \in Int
    BY <1>1
  <2> QED
    BY <1>2, <2>1 DEF Running
<1>5. \A x : At(u, q) # Lock(x) /\ At(u, q) # Core(x)
  BY PlacesDiffer
<1>6. ASSUME NEW x
      PROVE  At(u, q) \in LockPlaces(g, x) <=>
               \E t \in Tasks(g) : \E j \in Taken(g, t, x) : At(u, q) \in Held(g, t, j)
  BY <1>5 DEF LockPlaces
<1>7. ASSUME NEW c
      PROVE  At(u, q) \in CorePlaces(g, c) <=>
               \E t \in Tasks(g) : g.node[t].core = c /\ At(u, q) \in Running(g, t)
  BY <1>5 DEF CorePlaces
<1>8. \A t : \A x : Taken(g, t, x) \subseteq 1 .. NumLocks(g, t)
  BY DEF Taken
<1>9. ASSUME NEW x
      PROVE  At(u, q) \in LockPlaces(g, x) <=>
                     /\ u \in Tasks(g)
                     /\ \E j \in Taken(g, u, x) :
                          2 * j + 1 <= q /\ q <= 3 * NumLocks(g, u) + 1 - j
  BY <1>3, <1>6, <1>8, Zenon
<1> QED
  BY <1>4, <1>7, <1>9, Zenon

LEMMA OtherPlacesAre ==
  ASSUME NEW g
  PROVE  /\ \A x, y : /\ Lock(y) \in LockPlaces(g, x) <=> x = y
                      /\ Core(y) \notin LockPlaces(g, x)
                      /\ Core(y) \in CorePlaces(g, x) <=> x = y
                      /\ Lock(y) \notin CorePlaces(g, x)
         /\ \A x, p : p \in LockPlaces(g, x) =>
              \/ p = Lock(x)
              \/ \E t \in Tasks(g) : \E j \in Taken(g, t, x) :
                   \E q \in 2 * j + 1 .. 3 * NumLocks(g, t) + 1 - j : p = At(t, q)
         /\ \A c, p : p \in CorePlaces(g, c) =>
              \/ p = Core(c)
              \/ \E t \in Tasks(g) : /\ g.node[t].core = c
                                     /\ \E q \in 1 .. 3 * NumLocks(g, t) + 1 : p = At(t, q)
<1>1. ASSUME NEW x, NEW p
      PROVE  /\ p \in LockPlaces(g, x) =>
                  \/ p = Lock(x)
                  \/ \E t \in Tasks(g) : \E j \in Taken(g, t, x) :
                       \E q \in 2 * j + 1 .. 3 * NumLocks(g, t) + 1 - j : p = At(t, q)
             /\ p = Lock(x) => p \in LockPlaces(g, x)
  <2>1. p \in LockPlaces(g, x) <=>
          p = Lock(x) \/ \E t \in Tasks(g) : \E j \in Taken(g, t, x) : p \in Held(g, t, j)
    BY DEF LockPlaces
  <2> QED
    BY <2>1 DEF Held
<1>2. ASSUME NEW c, NEW p
      PROVE  /\ p \in CorePlaces(g, c) =>
                  \/ p = Core(c)
                  \/ \E t \in Tasks(g) : /\ g.node[t].core = c
                                         /\ \E q \in 1 .. 3 * NumLocks(g, t) + 1 : p = At(t, q)
             /\ p = Core(c) => p \in CorePlaces(g, c)
  <2>1. p \in CorePlaces(g, c) <=>
          p = Core(c) \/ \E t \in Tasks(g) : g.node[t].core = c /\ p \in Running(g, t)
    BY DEF CorePlaces
  <2> QED
    BY <2>1 DEF Running
<1>3. ASSUME NEW x, NEW y
      PROVE  /\ Lock(y) \in LockPlaces(g, x) <=> x = y
             /\ Core(y) \notin LockPlaces(g, x)
  <2>1. \A t, q : At(t, q) # Lock(y) /\ At(t, q) # Core(y)
    BY PlacesDiffer
  <2>2. (Lock(y) = Lock(x) <=> x = y) /\ Core(y) # Lock(x)
    BY PlacesDiffer
  <2>3. \A p \in LockPlaces(g, x) : p = Lock(x) \/ \E t, q : p = At(t, q)
    BY <1>1
  <2>4. Lock(x) \in LockPlaces(g, x)
    BY <1>1
  <2> QED
    BY <2>1, <2>2, <2>3, <2>4, Zenon
<1>4. ASSUME NEW x, NEW y
      PROVE  /\ Core(y) \in CorePlaces(g, x) <=> x = y
             /\ Lock(y) \notin CorePlaces(g, x)
  <2>1. \A t, q : At(t, q) # Lock(y) /\ At(t, q) # Core(y)
    BY PlacesDiffer
  <2>2. (Core(y) = Core(x) <=> x = y) /\ Lock(y) # Core(x)
    BY PlacesDiffer
  <2>3. \A p \in CorePlaces(g, x) : p = Core(x) \/ \E t, q : p = At(t, q)
    BY <1>2
  <2>4. Core(x) \in CorePlaces(g, x)
    BY <1>2
  <2> QED
    BY <2>1, <2>2, <2>3, <2>4, Zenon
<1> QED
  BY <1>1, <1>2, <1>3, <1>4

(* A task that takes a lock again while it has it waits for itself: no     *)
(* token ever gets between the second taking and giving back.              *)
NeverTwice(g, M) ==
  \A t \in Tasks(g) : \A i, j \in 1 .. NumLocks(g, t) :
     i < j /\ Locks(g, t)[i] = Locks(g, t)[j] => \A p \in Held(g, t, j) : M[p] = 0

(* Of what a step of a chain takes and gives, two places can be among the  *)
(* places of a lock: that of the chain and that of the lock.               *)
LEMMA ChainStepAndLock ==
  ASSUME NEW g, IsGraph(g), NEW t \in Tasks(g), NEW i \in Positions(g, t), NEW x
  PROVE  LET s == ChainStep(g, t, 2 * i - 1)
             X == LockPlaces(g, x)
         IN  /\ At(t, i - 1) \in s.in /\ At(t, i) \in s.out
             /\ \A p \in s.in \cap X : p = At(t, i - 1) \/ p = Lock(x)
             /\ \A p \in s.out \cap X : p = At(t, i) \/ p = Lock(x)
             /\ Lock(x) \in s.in <=> \E k \in Taken(g, t, x) : i = 2 * k + 1
             /\ Lock(x) \in s.out <=> \E k \in Taken(g, t, x) : i = 3 * NumLocks(g, t) + 2 - k
             /\ At(t, i - 1) # Lock(x) /\ At(t, i) # Lock(x)
             /\ Lock(x) \in X
<1> DEFINE s == ChainStep(g, t, 2 * i - 1)
           X == LockPlaces(g, x)
<1>1. i \in Int /\ i - 1 \in Int
  BY TasksAreFinite DEF Positions
<1>2. \A u : \A q \in Int : /\ At(u, q) \in s.in <=> u = t /\ q = i - 1
                            /\ At(u, q) \in s.out <=> u = t /\ q = i
  BY ChainStepArcs
<1>3. /\ Lock(x) \in s.in <=> \E k \in Taken(g, t, x) : i = 2 * k + 1
      /\ Lock(x) \in s.out <=> \E k \in Taken(g, t, x) : i = 3 * NumLocks(g, t) + 2 - k
  BY ChainStepArcs DEF Taken
<1>4. \A p \in X : p = Lock(x) \/ \E u : \E q \in Int : p = At(u, q)
  BY OtherPlacesAre
<1>5. Lock(x) \in X
  BY OtherPlacesAre
<1>6. At(t, i - 1) # Lock(x) /\ At(t, i) # Lock(x)
  BY PlacesDiffer
<1> HIDE DEF s, X
<1>7. \A p \in s.in \cap X : p = At(t, i - 1) \/ p = Lock(x)
  BY <1>2, <1>4
<1>8. \A p \in s.out \cap X : p = At(t, i) \/ p = Lock(x)
  BY <1>2, <1>4
<1>9. At(t, i - 1) \in s.in /\ At(t, i) \in s.out
  BY <1>1, <1>2
<1> QED
  BY <1>3, <1>5, <1>6, <1>7, <1>8, <1>9 DEF s, X

LEMMA FirstTaken ==
  ASSUME NEW g, IsGraph(g), NEW t \in Tasks(g), NEW x, Taken(g, t, x) # {}
  PROVE  \E f \in Taken(g, t, x) :
           /\ \A k \in Taken(g, t, x) : f <= k
           /\ \A q \in Int : At(t, q) \in LockPlaces(g, x) <=>
                               2 * f + 1 <= q /\ q <= 3 * NumLocks(g, t) + 1 - f
<1>1. Taken(g, t, x) \in SUBSET Nat /\ NumLocks(g, t) \in Nat
  BY TasksAreFinite DEF Taken
<1>2. PICK f \in Taken(g, t, x) : \A k \in Taken(g, t, x) : f <= k
  BY <1>1, LeastNatural
<1>3. ASSUME NEW q \in Int
      PROVE  At(t, q) \in LockPlaces(g, x) <=>
               2 * f + 1 <= q /\ q <= 3 * NumLocks(g, t) + 1 - f
  <2>1. At(t, q) \in LockPlaces(g, x) <=>
          \E j \in Taken(g, t, x) : 2 * j + 1 <= q /\ q <= 3 * NumLocks(g, t) + 1 - j
    BY PlacesAre
  <2> DEFINE n == NumLocks(g, t)
             J == Taken(g, t, x)
  <2> HIDE DEF n, J
  <2>2. \A j \in J : j \in Nat /\ f <= j /\ f \in Nat /\ n \in Nat
    BY <1>1, <1>2 DEF n, J
  <2>3. ASSUME NEW j \in J, 2 * j + 1 <= q, q <= 3 * n + 1 - j
        PROVE  2 * f + 1 <= q /\ q <= 3 * n + 1 - f
    <3>1. j \in Nat /\ f \in Nat /\ n \in Nat /\ f <= j
      BY <2>2
    <3> QED
      BY <2>3, <3>1
  <2> QED
    BY <1>2, <2>1, <2>3 DEF n, J
<1> QED
  BY <1>2, <1>3

LEMMA ChainPassesLock ==
  ASSUME NEW g, IsGraph(g), NEW t \in Tasks(g), NEW i \in Positions(g, t), NEW x,
         NEW M, \A p \in ChainStep(g, t, 2 * i - 1).in : M[p] >= 1,
         IsFiniteSet(LockPlaces(g, x)),
         \A p \in LockPlaces(g, x) : M[p] \in Nat,
         Tokens(M, LockPlaces(g, x)) = 1,
         NeverTwice(g, M)
  PROVE  /\ PassesOn(ChainStep(g, t, 2 * i - 1).in, ChainStep(g, t, 2 * i - 1).out,
                     LockPlaces(g, x))
         /\ \A j, k \in Taken(g, t, x) : j < k => i # 2 * k + 1
<1> DEFINE s == ChainStep(g, t, 2 * i - 1)
           X == LockPlaces(g, x)
           n == NumLocks(g, t)
           J == Taken(g, t, x)
           a == At(t, i - 1)
           b == At(t, i)
           c == Lock(x)
<1>1. /\ a \in s.in /\ b \in s.out /\ c \in X
      /\ \A p \in s.in \cap X : p = a \/ p = c
      /\ \A p \in s.out \cap X : p = b \/ p = c
      /\ a # c /\ b # c
      /\ c \in s.in <=> \E k \in J : i = 2 * k + 1
      /\ c \in s.out <=> \E k \in J : i = 3 * n + 2 - k
  BY ChainStepAndLock
<1>2. n \in Nat /\ i \in 1 .. 3 * n + 2 /\ J \subseteq 1 .. n
  BY TasksAreFinite DEF Positions, Taken
<1>3. CASE J = {}
  <2>1. a \notin X /\ b \notin X
    <3>1. i \in Int /\ i - 1 \in Int
      BY <1>2
    <3> QED
      BY <1>3, <3>1, PlacesAre
  <2>2. s.in \cap X = {} /\ s.out \cap X = {}
    <3> HIDE DEF s, X, a, b, c, n, J
    <3> QED
      BY <1>1, <1>3, <2>1
  <2> QED
    BY <1>3, <2>2 DEF PassesOn
<1>4. CASE J # {}
  <2>1. PICK f \in J :
          /\ \A k \in J : f <= k
          /\ \A q \in Int : At(t, q) \in X <=> 2 * f + 1 <= q /\ q <= 3 * n + 1 - f
    BY <1>4, FirstTaken
  <2>2. /\ f \in Nat /\ 1 <= f /\ f <= n /\ i \in Int /\ i - 1 \in Int
        /\ a \in X <=> 2 * f + 1 <= i - 1 /\ i - 1 <= 3 * n + 1 - f
        /\ b \in X <=> 2 * f + 1 <= i /\ i <= 3 * n + 1 - f
    BY <1>2, <2>1
  <2>3. a \in X /\ c \in s.in => FALSE
    <3> SUFFICES ASSUME a \in X, c \in s.in PROVE FALSE
      OBVIOUS
    <3>1. M[a] >= 1 /\ M[c] >= 1
      BY <1>1
    <3>2. M[a] + M[c] <= 1 /\ M[a] \in Nat /\ M[c] \in Nat
      BY <1>1, TokensCover
    <3> HIDE DEF a, c
    <3> QED
      BY <3>1, <3>2
  <2>4. \A k \in J : k # f /\ i = 3 * n + 2 - k => ~ (a \in X)
    <3> SUFFICES ASSUME NEW k \in J, k # f, i = 3 * n + 2 - k PROVE FALSE
      OBVIOUS
    <3>1. /\ f < k /\ f \in 1 .. n /\ k \in 1 .. n
          /\ Locks(g, t)[f] = Locks(g, t)[k]
      BY <1>2, <2>1 DEF Taken
    <3>2. i - 1 \in 2 * k + 1 .. 3 * n + 1 - k
      <4> HIDE DEF n
      <4> QED
        BY <1>2, <3>1
    <3>3. a \in Held(g, t, k)
      BY <3>2 DEF Held
    <3>4. M[a] = 0
      BY <3>1, <3>3 DEF NeverTwice
    <3>5. M[a] >= 1
      BY <1>1
    <3> QED
      BY <3>4, <3>5
  <2> HIDE DEF a, b, c, n, J, X, s
  <2>5. \A k \in J : i = 2 * k + 1 => k = f /\ a \notin X /\ b \in X /\ c \in s.in
    <3> SUFFICES ASSUME NEW k \in J, i = 2 * k + 1
                 PROVE  k = f /\ a \notin X /\ b \in X /\ c \in s.in
      OBVIOUS
    <3>1. c \in s.in /\ a \notin X
      BY <1>1, <2>3
    <3>2. k \in Nat /\ 1 <= k /\ k <= n /\ f <= k
      BY <1>2, <2>1
    <3>3. k = f
      BY <1>2, <2>2, <3>1, <3>2
    <3> QED
      BY <1>2, <2>2, <3>1, <3>2, <3>3
  <2>6. \A j, k \in J : j < k => i # 2 * k + 1
    <3> SUFFICES ASSUME NEW j \in J, NEW k \in J, j < k, i = 2 * k + 1 PROVE FALSE
      OBVIOUS
    <3>1. j \in Nat /\ k \in Nat /\ f <= j /\ k = f
      BY <1>2, <2>1, <2>5
    <3> QED
      BY <2>2, <3>1
  <2>7. CASE a \in X /\ i # 3 * n + 2 - f
    <3>1. c \notin s.in /\ b \in X
      BY <1>2, <2>2, <2>3, <2>7
    <3>2. c \notin s.out
      BY <1>1, <2>4, <2>7
    <3>3. s.in \cap X = {a} /\ s.out \cap X = {b}
      BY <1>1, <2>7, <3>1, <3>2
    <3> QED
      BY <2>6, <2>7, <3>1, <3>3 DEF PassesOn, s, X, J
  <2>8. CASE a \in X /\ i = 3 * n + 2 - f
    <3>1. c \notin s.in /\ b \notin X
      BY <1>2, <2>2, <2>3, <2>8
    <3>2. c \in s.out
      BY <1>1, <2>1, <2>8
    <3>3. s.in \cap X = {a} /\ s.out \cap X = {c}
      BY <1>1, <2>8, <3>1, <3>2
    <3> QED
      BY <1>1, <2>6, <2>8, <3>3 DEF PassesOn, s, X, J
  <2>9. CASE a \notin X /\ c \in s.in
    <3>1. b \in X /\ i = 2 * f + 1
      BY <1>1, <2>5, <2>9
    <3>2. c \notin s.out
      <4> SUFFICES ASSUME NEW k \in J, i = 3 * n + 2 - k PROVE FALSE
        BY <1>1
      <4>1. k \in Nat /\ k <= n
        BY <1>2
      <4> QED
        BY <1>2, <2>2, <3>1, <4>1
    <3>3. s.in \cap X = {c} /\ s.out \cap X = {b}
      BY <1>1, <2>9, <3>1, <3>2
    <3> QED
      BY <1>1, <2>6, <3>1, <3>3 DEF PassesOn, s, X, J
  <2>10. CASE a \notin X /\ c \notin s.in
    <3>1. i # 2 * f + 1
      BY <1>1, <2>1, <2>10
    <3>2. b \notin X
      BY <1>2, <2>2, <2>10, <3>1
    <3>3. c \notin s.out
      <4> SUFFICES ASSUME NEW k \in J, i = 3 * n + 2 - k PROVE FALSE
        BY <1>1
      <4>1. k \in Nat /\ k <= n /\ f <= k
        BY <1>2, <2>1
      <4>2. a \in X
        BY <1>2, <2>2, <4>1
      <4> QED
        BY <2>10, <4>2
    <3>4. s.in \cap X = {} /\ s.out \cap X = {}
      BY <1>1, <2>10, <3>2, <3>3
    <3> QED
      BY <2>6, <3>4 DEF PassesOn, s, X, J
  <2> QED
    BY <2>7, <2>8, <2>9, <2>10
<1> QED
  BY <1>3, <1>4

(* A step that only touches outer places has no part in locks and cores.   *)
LEMMA OuterStepsPass ==
  ASSUME NEW g, IsGraph(g), NEW s, OuterStep(g, s), NEW x
  PROVE  /\ (s.in \cup s.out) \cap LockPlaces(g, x) = {}
         /\ (s.in \cup s.out) \cap CorePlaces(g, x) = {}
<1>1. \A p \in LockPlaces(g, x) \cup CorePlaces(g, x) :
        \/ p = Lock(x) \/ p = Core(x)
        \/ \E t \in Tasks(g) : \E q \in 1 .. 3 * NumLocks(g, t) + 1 : p = At(t, q)
  <2>1. ASSUME NEW t \in Tasks(g), NEW j \in Taken(g, t, x),
               NEW q \in 2 * j + 1 .. 3 * NumLocks(g, t) + 1 - j
        PROVE  q \in 1 .. 3 * NumLocks(g, t) + 1
    BY TasksAreFinite DEF Taken
  <2> QED
    BY <2>1, OtherPlacesAre
<1>2. ~ Outer(g, Lock(x)) /\ ~ Outer(g, Core(x))
  BY DEF Outer, Lock, Core
<1>3. ASSUME NEW t \in Tasks(g), NEW q \in 1 .. 3 * NumLocks(g, t) + 1
      PROVE  ~ Outer(g, At(t, q))
  <2>1. At(t, q)[1] = "chain" /\ At(t, q)[2] = t /\ At(t, q)[3] = 2 * q
    BY DEF At, Chain
  <2>2. ChainLength(g, t) - 1 = 6 * NumLocks(g, t) + 4 /\ NumLocks(g, t) \in Nat
    BY TasksAreFinite DEF ChainLength
  <2> QED
    BY <2>1, <2>2 DEF Outer
<1> QED
  BY <1>1, <1>2, <1>3, OuterStepsAreOuter

(* The places of a takeover, counted like those of a chain.                *)
LEMMA TakeoverArcs ==
  ASSUME NEW g, IsGraph(g), NEW hi, NEW lo, Preempts(g, hi, lo),
         NEW r \in Int, NEW marks
  PROVE  LET s == Takeover(g, hi, lo, 2 * r, marks)
         IN  /\ s.in = {At(hi, 0), At(lo, r)} /\ s.out = {At(hi, 1), At(lo, 0)}
             /\ hi \in Tasks(g) /\ lo \in Tasks(g)
             /\ g.node[hi].core = g.node[lo].core
<1>1. hi \in Tasks(g) /\ lo \in Tasks(g) /\ g.node[hi].core = g.node[lo].core
  BY DEF Preempts
<1>2. Entry(g, hi) = At(hi, 0) /\ Entry(g, lo) = At(lo, 0)
  BY <1>1 DEF Entry, At, Tasks
<1>3. Chain(hi, 2) = At(hi, 1) /\ Chain(lo, 2 * r) = At(lo, r)
  BY DEF At
<1> QED
  BY <1>1, <1>2, <1>3 DEF Takeover

(* Under this condition a takeover interrupts no task that has a lock.     *)
RestartKeepsLocks(g) ==
  \A hi, lo \in Tasks(g) : Preempts(g, hi, lo) => MutexesFirst(g, lo) = 0

LEMMA TakeoverKeepsLocks ==
  ASSUME NEW g, IsGraph(g), RestartKeepsLocks(g), NEW s, TakeoverStep(g, s), NEW x
  PROVE  s.in \cap LockPlaces(g, x) = {} /\ s.out \cap LockPlaces(g, x) = {}
<1>1. PICK hi, lo : /\ Preempts(g, hi, lo)
                    /\ \/ s = Takeover(g, hi, lo, 2, {})
                       \/ 1 .. MutexesFirst(g, lo) # {}
  BY Zenon DEF TakeoverStep
<1>2. s.in = {At(hi, 0), At(lo, 1)} /\ s.out = {At(hi, 1), At(lo, 0)}
  <2>1. MutexesFirst(g, lo) = 0
    BY <1>1 DEF RestartKeepsLocks, Preempts
  <2>2. s = Takeover(g, hi, lo, 2, {}) /\ 2 = 2 * 1 /\ 1 \in Int
    BY <1>1, <2>1
  <2>3. \A r \in Int : /\ Takeover(g, hi, lo, 2 * r, {}).in = {At(hi, 0), At(lo, r)}
                       /\ Takeover(g, hi, lo, 2 * r, {}).out = {At(hi, 1), At(lo, 0)}
    BY <1>1, TakeoverArcs
  <2> QED
    BY <2>2, <2>3
<1>3. ASSUME NEW u, NEW q \in 0 .. 1 PROVE At(u, q) \notin LockPlaces(g, x)
  <2>1. \A j \in Taken(g, u, x) : j \in Nat /\ 1 <= j
    BY DEF Taken
  <2>2. \A j \in Taken(g, u, x) : ~ (2 * j + 1 <= q)
    BY <2>1
  <2>3. q \in Int
    OBVIOUS
  <2> QED
    BY <2>2, <2>3, PlacesAre
<1> QED
  BY <1>2, <1>3

(* Every step passes the token of every lock on.                           *)
LEMMA StepPassesLock ==
  ASSUME NEW g, IsGraph(g), RestartKeepsLocks(g), NEW s, IsStep(g, s), NEW x,
         NEW M, \A p \in s.in : M[p] >= 1,
         IsFiniteSet(LockPlaces(g, x)),
         \A p \in LockPlaces(g, x) : M[p] \in Nat,
         Tokens(M, LockPlaces(g, x)) = 1,
         NeverTwice(g, M)
  PROVE  PassesOn(s.in, s.out, LockPlaces(g, x))
<1>1. CASE OuterStep(g, s)
  <2>1. (s.in \cup s.out) \cap LockPlaces(g, x) = {}
    BY <1>1, OuterStepsPass
  <2> QED
    BY <2>1 DEF PassesOn
<1>2. CASE StepOfChain(g, s)
  BY <1>2, ChainPassesLock DEF StepOfChain
<1>3. CASE TakeoverStep(g, s)
  BY <1>3, TakeoverKeepsLocks DEF PassesOn
<1> QED
  BY <1>1, <1>2, <1>3 DEF IsStep

(* A place of the second taking of a lock is entered from inside it, or by *)
(* the step that takes the lock.                                           *)
LEMMA EnteringAgain ==
  ASSUME NEW g, IsGraph(g), RestartKeepsLocks(g), NEW s, IsStep(g, s),
         NEW t \in Tasks(g), NEW j \in 1 .. NumLocks(g, t),
         NEW p \in Held(g, t, j), p \in s.out
  PROVE  \/ \E r \in Held(g, t, j) : r \in s.in
         \/ s = ChainStep(g, t, 2 * (2 * j + 1) - 1)
<1> DEFINE x == Locks(g, t)[j]
<1>1. j \in Taken(g, t, x) /\ NumLocks(g, t) \in Nat
  BY TasksAreFinite DEF Taken
<1>2. p \in LockPlaces(g, x)
  BY <1>1 DEF LockPlaces
<1>3. ~ OuterStep(g, s) /\ ~ TakeoverStep(g, s)
  BY <1>2, OuterStepsPass, TakeoverKeepsLocks
<1>4. PICK u \in Tasks(g) : \E i \in Positions(g, u) : s = ChainStep(g, u, 2 * i - 1)
  BY <1>3 DEF IsStep, StepOfChain
<1>5. PICK i \in Positions(g, u) : s = ChainStep(g, u, 2 * i - 1)
  BY <1>4
<1>6. PICK q \in 2 * j + 1 .. 3 * NumLocks(g, t) + 1 - j : p = At(t, q)
  BY DEF Held
<1>7. q \in Int /\ i \in Int /\ i - 1 \in Int
  BY <1>1, TasksAreFinite DEF Positions
<1>8. /\ \A v : \A r \in Int : At(v, r) \in s.in <=> v = u /\ r = i - 1
      /\ \A v : \A r \in Int : At(v, r) \in s.out <=> v = u /\ r = i
  BY <1>5, ChainStepArcs
<1>9. t = u /\ q = i
  BY <1>6, <1>7, <1>8
<1>10. CASE i = 2 * j + 1
  BY <1>5, <1>9, <1>10
<1>11. CASE i # 2 * j + 1
  <2>1. i - 1 \in 2 * j + 1 .. 3 * NumLocks(g, t) + 1 - j
    BY <1>1, <1>9, <1>11
  <2>2. At(t, i - 1) \in Held(g, t, j)
    BY <2>1 DEF Held
  <2>3. At(t, i - 1) \in s.in
    BY <1>7, <1>8, <1>9
  <2> QED
    BY <2>2, <2>3
<1> QED
  BY <1>10, <1>11

LEMMA NeverEnteredAgain ==
  ASSUME NEW g, IsGraph(g), RestartKeepsLocks(g), NEW s, IsStep(g, s),
         NEW M, \A p \in s.in : M[p] >= 1,
         NeverTwice(g, M),
         NEW t \in Tasks(g), NEW i \in 1 .. NumLocks(g, t), NEW j \in 1 .. NumLocks(g, t),
         i < j, Locks(g, t)[i] = Locks(g, t)[j],
         IsFiniteSet(LockPlaces(g, Locks(g, t)[j])),
         \A p \in LockPlaces(g, Locks(g, t)[j]) : M[p] \in Nat,
         Tokens(M, LockPlaces(g, Locks(g, t)[j])) = 1
  PROVE  Held(g, t, j) \cap (s.in \cup s.out) = {}
<1> DEFINE x == Locks(g, t)[j]
<1>1. \A p \in Held(g, t, j) : M[p] = 0
  BY DEF NeverTwice
<1>2. Held(g, t, j) \cap s.in = {}
  <2> SUFFICES ASSUME NEW p \in Held(g, t, j), p \in s.in PROVE FALSE
    OBVIOUS
  <2>1. M[p] = 0 /\ M[p] >= 1
    BY <1>1
  <2> QED
    BY <2>1
<1>3. ASSUME NEW p \in Held(g, t, j), p \in s.out PROVE FALSE
  <2>1. s = ChainStep(g, t, 2 * (2 * j + 1) - 1)
    BY <1>2, <1>3, EnteringAgain
  <2>2. i \in Taken(g, t, x) /\ j \in Taken(g, t, x)
    BY DEF Taken
  <2>3. 2 * j + 1 \in Positions(g, t)
    BY TasksAreFinite DEF Positions
  <2>4. \A k, l \in Taken(g, t, x) : k < l => 2 * j + 1 # 2 * l + 1
    BY <2>1, <2>3, ChainPassesLock
  <2> QED
    BY <2>2, <2>4
<1> QED
  BY <1>2, <1>3

-----------------------------------------------------------------------------
(* Every step passes the token of every core on.                           *)
LEMMA ChainPassesCore ==
  ASSUME NEW g, IsGraph(g), ~ IsResume(g), NEW t \in Tasks(g),
         NEW i \in Positions(g, t), NEW c
  PROVE  PassesOn(ChainStep(g, t, 2 * i - 1).in, ChainStep(g, t, 2 * i - 1).out,
                  CorePlaces(g, c))
<1> DEFINE s == ChainStep(g, t, 2 * i - 1)
           X == CorePlaces(g, c)
           n == NumLocks(g, t)
           a == At(t, i - 1)
           b == At(t, i)
           o == Core(c)
           mine == g.node[t].core = c
<1>1. n \in Nat /\ i \in 1 .. 3 * n + 2 /\ i \in Int /\ i - 1 \in Int
  BY TasksAreFinite DEF Positions
<1>2. \A u : \A q \in Int : /\ At(u, q) \in s.in <=> u = t /\ q = i - 1
                            /\ At(u, q) \in s.out <=> u = t /\ q = i
  BY ChainStepArcs
<1>3. /\ o \in s.in <=> mine /\ i = 1
      /\ o \in s.out <=> mine /\ i = 3 * n + 2
  BY ChainStepArcs
<1>4. \A p \in X : p = o \/ \E u : \E q \in Int : p = At(u, q)
  BY OtherPlacesAre
<1>5. o \in X
  BY OtherPlacesAre
<1>6. /\ a \in X <=> mine /\ 1 <= i - 1 /\ i - 1 <= 3 * n + 1
      /\ b \in X <=> mine /\ 1 <= i /\ i <= 3 * n + 1
  BY <1>1, PlacesAre
<1>7. a \in s.in /\ b \in s.out
  BY <1>1, <1>2
<1> HIDE DEF s, X
<1>8. /\ \A p \in s.in \cap X : p = a \/ p = o
      /\ \A p \in s.out \cap X : p = b \/ p = o
  BY <1>2, <1>4
<1> HIDE DEF a, b, o, n, mine
<1>9. CASE ~ mine
  BY <1>3, <1>6, <1>8, <1>9 DEF PassesOn, s, X
<1>10. CASE mine
  <2>1. \E p \in X : s.in \cap X = {p}
    <3>1. CASE i = 1
      <4>1. a \notin X /\ o \in s.in
        BY <1>1, <1>3, <1>6, <1>10, <3>1
      <4> QED
        BY <1>5, <1>8, <4>1
    <3>2. CASE i # 1
      <4>1. a \in X /\ o \notin s.in
        BY <1>1, <1>3, <1>6, <1>10, <3>2
      <4> QED
        BY <1>7, <1>8, <4>1
    <3> QED
      BY <3>1, <3>2
  <2>2. \E p \in X : s.out \cap X = {p}
    <3>1. CASE i = 3 * n + 2
      <4>1. b \notin X /\ o \in s.out
        BY <1>1, <1>3, <1>6, <1>10, <3>1
      <4> QED
        BY <1>5, <1>8, <4>1
    <3>2. CASE i # 3 * n + 2
      <4>1. b \in X /\ o \notin s.out
        BY <1>1, <1>3, <1>6, <1>10, <3>2
      <4> QED
        BY <1>7, <1>8, <4>1
    <3> QED
      BY <3>1, <3>2
  <2> QED
    BY <2>1, <2>2 DEF PassesOn, s, X
<1> QED
  BY <1>9, <1>10

LEMMA TakeoverPlaces ==
  ASSUME NEW g, IsGraph(g), NEW s, TakeoverStep(g, s)
  PROVE  \E hi, lo \in Tasks(g) : \E r \in 1 .. 3 * NumLocks(g, lo) + 1 :
           /\ s.in = {At(hi, 0), At(lo, r)} /\ s.out = {At(hi, 1), At(lo, 0)}
           /\ g.node[hi].core = g.node[lo].core
<1>1. PICK hi, lo : /\ Preempts(g, hi, lo)
                    /\ \/ s = Takeover(g, hi, lo, 2, {})
                       \/ \E j \in 1 .. MutexesFirst(g, lo) :
                            LET k == ChainLength(g, lo) - 3 - 2 * j
                            IN  s = Takeover(g, hi, lo, k, {k + 1})
  BY Zenon DEF TakeoverStep
<1> DEFINE n == NumLocks(g, lo)
<1>2. hi \in Tasks(g) /\ lo \in Tasks(g) /\ n \in Nat /\ NumLocks(g, hi) \in Nat
  BY <1>1, TasksAreFinite DEF Preempts
<1>3. MutexesFirst(g, lo) <= n /\ MutexesFirst(g, lo) \in Nat
  <2> DEFINE Js == {j \in 1 .. n : \A i \in 1 .. j : Locks(g, lo)[i] \notin g.spin}
  <2>1. \A m \in Nat : IsFiniteSet(1 .. m) /\ Cardinality(1 .. m) = m
    BY FS_Interval
  <2>2. IsFiniteSet(Js) /\ Cardinality(Js) <= n
    <3> DEFINE S == 1 .. n
    <3>1. Js \in SUBSET S
      OBVIOUS
    <3>2. IsFiniteSet(S) /\ Cardinality(S) = n
      BY <1>2, <2>1
    <3> HIDE DEF Js, S
    <3>3. IsFiniteSet(Js) /\ Cardinality(Js) <= Cardinality(S)
      BY <3>1, <3>2, FS_Subset
    <3> QED
      BY <3>2, <3>3
  <2>3. Cardinality(Js) \in Nat
    BY <2>2, FS_CardinalityType
  <2> QED
    BY <2>2, <2>3 DEF MutexesFirst
<1>4. PICK r \in 1 .. 3 * n + 1 : \E marks : s = Takeover(g, hi, lo, 2 * r, marks)
  <2>1. CASE s = Takeover(g, hi, lo, 2, {})
    <3>1. 2 = 2 * 1 /\ 1 \in 1 .. 3 * n + 1
      BY <1>2
    <3> QED
      BY <2>1, <3>1
  <2>2. ASSUME NEW j \in 1 .. MutexesFirst(g, lo),
               s = Takeover(g, hi, lo, ChainLength(g, lo) - 3 - 2 * j,
                            {ChainLength(g, lo) - 3 - 2 * j + 1})
        PROVE  \E r \in 1 .. 3 * n + 1 : \E marks : s = Takeover(g, hi, lo, 2 * r, marks)
    <3>1. /\ ChainLength(g, lo) - 3 - 2 * j = 2 * (3 * n + 1 - j)
          /\ 3 * n + 1 - j \in 1 .. 3 * n + 1
      BY <1>2, <1>3 DEF ChainLength
    <3> HIDE DEF n
    <3> QED
      BY <2>2, <3>1
  <2> QED
    BY <1>1, <2>1, <2>2
<1>5. r \in Int
  BY <1>2
<1>6. /\ s.in = {At(hi, 0), At(lo, r)} /\ s.out = {At(hi, 1), At(lo, 0)}
      /\ g.node[hi].core = g.node[lo].core
  BY <1>1, <1>4, <1>5, TakeoverArcs
<1> QED
  BY <1>2, <1>4, <1>6

LEMMA TakeoverPassesCore ==
  ASSUME NEW g, IsGraph(g), NEW s, TakeoverStep(g, s), NEW c
  PROVE  PassesOn(s.in, s.out, CorePlaces(g, c))
<1>1. PICK hi, lo \in Tasks(g) : \E r \in 1 .. 3 * NumLocks(g, lo) + 1 :
        /\ s.in = {At(hi, 0), At(lo, r)} /\ s.out = {At(hi, 1), At(lo, 0)}
        /\ g.node[hi].core = g.node[lo].core
  BY TakeoverPlaces
<1> DEFINE n == NumLocks(g, lo)
           X == CorePlaces(g, c)
<1>2. PICK r \in 1 .. 3 * n + 1 :
        s.in = {At(hi, 0), At(lo, r)} /\ s.out = {At(hi, 1), At(lo, 0)}
  BY <1>1
<1>3. n \in Nat /\ NumLocks(g, hi) \in Nat /\ r \in Int
  BY TasksAreFinite
<1>4. g.node[hi].core = g.node[lo].core
  BY <1>1
<1>5. At(hi, 0) \notin X /\ At(lo, 0) \notin X
  BY PlacesAre
<1>6. At(lo, r) \in X <=> g.node[lo].core = c
  BY <1>3, PlacesAre
<1>7. At(hi, 1) \in X <=> g.node[hi].core = c
  <2>1. 1 <= 3 * NumLocks(g, hi) + 1
    BY <1>3
  <2> QED
    BY <1>3, <2>1, PlacesAre
<1> HIDE DEF X
<1>8. CASE g.node[lo].core = c
  <2>1. s.in \cap X = {At(lo, r)} /\ s.out \cap X = {At(hi, 1)}
    BY <1>2, <1>4, <1>5, <1>6, <1>7, <1>8
  <2> QED
    BY <2>1 DEF PassesOn, X
<1>9. CASE g.node[lo].core # c
  <2>1. s.in \cap X = {} /\ s.out \cap X = {}
    BY <1>2, <1>4, <1>5, <1>6, <1>7, <1>9
  <2> QED
    BY <2>1 DEF PassesOn, X
<1> QED
  BY <1>8, <1>9

LEMMA StepPassesCore ==
  ASSUME NEW g, IsGraph(g), ~ IsResume(g), NEW s, IsStep(g, s), NEW c
  PROVE  PassesOn(s.in, s.out, CorePlaces(g, c))
<1>1. CASE OuterStep(g, s)
  <2>1. (s.in \cup s.out) \cap CorePlaces(g, c) = {}
    BY <1>1, OuterStepsPass
  <2> QED
    BY <2>1 DEF PassesOn
<1>2. CASE StepOfChain(g, s)
  BY <1>2, ChainPassesCore DEF StepOfChain
<1>3. CASE TakeoverStep(g, s)
  BY <1>3, TakeoverPassesCore
<1> QED
  BY <1>1, <1>2, <1>3 DEF IsStep

-----------------------------------------------------------------------------
(* The net of a graph, at the places of locks, cores and chains.           *)

LEMMA ArcsAre ==
  ASSUME NEW g, IsGraph(g), NEW t \in Lowered(g).transitions
  PROVE  \E s : /\ s = Steps(g)[t + 1] /\ s \in ToSet(Steps(g))
                /\ IsStep(g, s) /\ s.in \cup s.out \subseteq PlacesOf(g)
                /\ \A p \in PlacesOf(g) :
                     /\ ~ IsMonitor(p) \/ p \in s.in =>
                          Lowered(g).Pre[p][t] = IF p \in s.in THEN 1 ELSE 0
                     /\ Lowered(g).Post[t][p] = IF p \in s.out THEN 1 ELSE 0
<1> DEFINE S == Steps(g)
           T == 0 .. Len(S) - 1
           P == PlacesOf(g)
           arc(connected) == IF connected THEN 1 ELSE 0
           s == S[t + 1]
<1>1. /\ Lowered(g).transitions = T
      /\ Lowered(g).Pre = [p \in P |-> [u \in T |->
                             arc(p \in S[u + 1].in \/ <<p, u>> \in StrayArcs(g))]]
      /\ Lowered(g).Post = [u \in T |-> [p \in P |-> arc(p \in S[u + 1].out)]]
  BY DEF Lowered
<1>2. IsSequence(S) /\ \A r \in ToSet(S) : IsStep(g, r)
  BY StepsAre
<1>3. s \in ToSet(S)
  <2>1. DOMAIN S = 1 .. Len(S) /\ Len(S) \in Nat
    BY <1>2, LenProperties DEF IsSequence
  <2>2. t \in T
    BY <1>1
  <2>3. t + 1 \in DOMAIN S
    <3> HIDE DEF S
    <3> QED
      BY <2>1, <2>2
  <2> QED
    BY <2>3 DEF ToSet
<1>4. s.in \cup s.out \subseteq P /\ s = Steps(g)[t + 1] /\ s \in ToSet(Steps(g))
  BY <1>3 DEF PlacesOf
<1>5. \A p : <<p, t>> \in StrayArcs(g) => IsMonitor(p)
  BY DEF StrayArcs, IsMonitor
<1> HIDE DEF S, T, P
<1>6. \A p \in P : /\ ~ IsMonitor(p) \/ p \in s.in =>
                        Lowered(g).Pre[p][t] = IF p \in s.in THEN 1 ELSE 0
                   /\ Lowered(g).Post[t][p] = IF p \in s.out THEN 1 ELSE 0
  BY <1>1, <1>5
<1> QED
  BY <1>2, <1>3, <1>4, <1>6 DEF P

LEMMA PlacesAreThere ==
  ASSUME NEW g, IsGraph(g)
  PROVE  /\ \A t \in Tasks(g) : \A q \in 1 .. 3 * NumLocks(g, t) + 1 : At(t, q) \in PlacesOf(g)
         /\ \A t \in Tasks(g) : \A x \in ToSet(Locks(g, t)) : LockPlaces(g, x) \subseteq PlacesOf(g)
         /\ ~ IsResume(g) => \A c \in Cpus(g) : CorePlaces(g, c) \subseteq PlacesOf(g)
<1>1. \A s \in ToSet(Steps(g)) : s.in \cup s.out \subseteq PlacesOf(g)
  BY DEF PlacesOf
<1>2. ASSUME NEW t \in Tasks(g), NEW i \in Positions(g, t)
      PROVE  /\ ChainStep(g, t, 2 * i - 1).in \subseteq PlacesOf(g)
             /\ ChainStep(g, t, 2 * i - 1).out \subseteq PlacesOf(g)
  BY <1>1, StepsAre
<1>3. ASSUME NEW t \in Tasks(g), NEW q \in 1 .. 3 * NumLocks(g, t) + 1
      PROVE  At(t, q) \in PlacesOf(g)
  <2>1. q \in Positions(g, t) /\ q \in Int
    BY TasksAreFinite DEF Positions
  <2>2. At(t, q) \in ChainStep(g, t, 2 * q - 1).out
    BY <2>1, ChainStepArcs
  <2> QED
    BY <1>2, <2>1, <2>2
<1>4. ASSUME NEW t \in Tasks(g), NEW x \in ToSet(Locks(g, t))
      PROVE  LockPlaces(g, x) \subseteq PlacesOf(g)
  <2>1. PICK k \in 1 .. NumLocks(g, t) : x = Locks(g, t)[k]
    <3>1. DOMAIN Locks(g, t) = 1 .. NumLocks(g, t)
      BY LenProperties DEF IsGraph, IsSequence, NumLocks, Locks
    <3> QED
      BY <3>1 DEF ToSet
  <2>2. 2 * k + 1 \in Positions(g, t)
    BY TasksAreFinite DEF Positions
  <2>3. k \in Taken(g, t, x)
    BY <2>1 DEF Taken
  <2>4. Lock(x) \in ChainStep(g, t, 2 * (2 * k + 1) - 1).in
    BY <2>2, <2>3, ChainStepAndLock
  <2>5. Lock(x) \in PlacesOf(g)
    BY <1>2, <2>2, <2>4
  <2>6. ASSUME NEW u \in Tasks(g), NEW j \in Taken(g, u, x),
               NEW q \in 2 * j + 1 .. 3 * NumLocks(g, u) + 1 - j
        PROVE  At(u, q) \in PlacesOf(g)
    <3>1. q \in 1 .. 3 * NumLocks(g, u) + 1
      BY TasksAreFinite DEF Taken
    <3> QED
      BY <1>3, <3>1
  <2> QED
    BY <2>5, <2>6, OtherPlacesAre
<1>5. ASSUME ~ IsResume(g), NEW c \in Cpus(g) PROVE CorePlaces(g, c) \subseteq PlacesOf(g)
  <2>1. Core(c) \in PlacesOf(g)
    BY <1>5 DEF PlacesOf
  <2> QED
    BY <1>3, <2>1, OtherPlacesAre
<1> QED
  BY <1>3, <1>4, <1>5

LEMMA AttributesAre ==
  ASSUME NEW g
  PROVE  /\ \A t, q : CapacityOf(g, At(t, q)) = g.capacity
         /\ \A x : /\ CapacityOf(g, Lock(x)) = 1 /\ InitialTokens(g, Lock(x)) = 1
                   /\ CapacityOf(g, Core(x)) = g.cores_per_cpu
                   /\ InitialTokens(g, Core(x)) = g.cores_per_cpu
         /\ \A t : \A q \in Nat \ {0} : InitialTokens(g, At(t, q)) = 0
<1>1. /\ \A t, q : At(t, q)[1] = "chain" /\ At(t, q)[3] = 2 * q
      /\ \A x : Lock(x)[1] = "lock" /\ Core(x)[1] = "core"
  BY DEF At, Chain, Lock, Core
<1>2. \A p : /\ p[1] = "chain" => CapacityOf(g, p) = g.capacity
             /\ p[1] = "core" => CapacityOf(g, p) = g.cores_per_cpu
             /\ p[1] = "lock" => CapacityOf(g, p) = 1
  BY DEF CapacityOf
<1>3. \A p : /\ p[1] = "chain" /\ p[3] # 0 => InitialTokens(g, p) = 0
             /\ p[1] = "core" => InitialTokens(g, p) = g.cores_per_cpu
             /\ p[1] = "lock" => InitialTokens(g, p) = 1
  BY DEF InitialTokens
<1>4. \A q \in Nat \ {0} : 2 * q # 0
  OBVIOUS
<1> QED
  BY <1>1, <1>2, <1>3, <1>4

-----------------------------------------------------------------------------
(* What holds of the markings of a lowered net, and is kept by firing.     *)
LocksOf(g) == UNION {ToSet(Locks(g, t)) : t \in Tasks(g)}

LocksKept(g, M) ==
  /\ \A x \in LocksOf(g) : Tokens(M, LockPlaces(g, x)) = 1
  /\ NeverTwice(g, M)

CoresKept(g, M) ==
  ~ IsResume(g) =>
    \A c \in Cpus(g) : Tokens(M, CorePlaces(g, c)) = g.cores_per_cpu

(* A step that fires had its tokens, and FireMarking moves as it says.     *)
LEMMA FiringMoves ==
  ASSUME NEW g, IsGraph(g), IsNet(Lowered(g)),
         NEW M \in [PlacesOf(g) -> Nat],
         NEW t \in Lowered(g).transitions, IsEnabled(M, Lowered(g), t)
  PROVE  \E s : /\ IsStep(g, s)
                /\ \A p \in s.in : p \in PlacesOf(g) /\ M[p] >= 1
                /\ \A p \in PlacesOf(g) :
                     /\ ~ IsMonitor(p) \/ p \in s.in =>
                          Lowered(g).Pre[p][t] = IF p \in s.in THEN 1 ELSE 0
                     /\ Lowered(g).Post[t][p] = IF p \in s.out THEN 1 ELSE 0
<1>1. PICK s : /\ IsStep(g, s) /\ s.in \cup s.out \subseteq PlacesOf(g)
               /\ \A p \in PlacesOf(g) :
                    /\ ~ IsMonitor(p) \/ p \in s.in =>
                         Lowered(g).Pre[p][t] = IF p \in s.in THEN 1 ELSE 0
                    /\ Lowered(g).Post[t][p] = IF p \in s.out THEN 1 ELSE 0
  BY ArcsAre
<1>2. Lowered(g).places = PlacesOf(g)
  BY DEF Lowered
<1>3. \A p \in PlacesOf(g) : M[p] >= Lowered(g).Pre[p][t]
  BY <1>2 DEF IsEnabled
<1>4. \A p \in s.in : p \in PlacesOf(g) /\ M[p] >= 1
  BY <1>1, <1>3
<1> QED
  BY <1>1, <1>4

LEMMA PlacesOfResources ==
  ASSUME NEW g, IsGraph(g), NEW x, NEW p \in LockPlaces(g, x) \cup CorePlaces(g, x)
  PROVE  ~ IsMonitor(p)
<1>1. p[1] \in {"chain", "core", "lock"}
  <2>1. p = Lock(x) \/ p = Core(x) \/ \E t, q : p = At(t, q)
    BY OtherPlacesAre
  <2> QED
    BY <2>1 DEF At, Chain, Lock, Core
<1> QED
  BY <1>1 DEF IsMonitor, Monitor

LEMMA FiringKeepsLocks ==
  ASSUME NEW g, IsGraph(g), IsNet(Lowered(g)), RestartKeepsLocks(g),
         NEW M \in [PlacesOf(g) -> Nat], LocksKept(g, M),
         NEW t \in Lowered(g).transitions, IsEnabled(M, Lowered(g), t)
  PROVE  LocksKept(g, FireMarking(M, Lowered(g), t))
<1> DEFINE n == Lowered(g)
           N == FireMarking(M, n, t)
<1>1. PICK s : /\ IsStep(g, s)
               /\ \A p \in s.in : p \in PlacesOf(g) /\ M[p] >= 1
               /\ \A p \in PlacesOf(g) :
                    /\ ~ IsMonitor(p) \/ p \in s.in =>
                         n.Pre[p][t] = IF p \in s.in THEN 1 ELSE 0
                    /\ n.Post[t][p] = IF p \in s.out THEN 1 ELSE 0
  BY FiringMoves
<1>2. n.places = PlacesOf(g) /\ n.capacity = [p \in PlacesOf(g) |-> CapacityOf(g, p)]
  BY DEF Lowered
<1>3. IsFiniteSet(PlacesOf(g))
  BY <1>2 DEF IsNet
<1>4. \A x \in LocksOf(g) : LockPlaces(g, x) \in SUBSET PlacesOf(g)
  BY PlacesAreThere DEF LocksOf
<1>5. \A x \in LocksOf(g) : /\ IsFiniteSet(LockPlaces(g, x))
                            /\ \A p \in LockPlaces(g, x) : M[p] \in Nat
                            /\ Tokens(M, LockPlaces(g, x)) = 1
  <2> SUFFICES ASSUME NEW x \in LocksOf(g)
               PROVE  /\ IsFiniteSet(LockPlaces(g, x))
                      /\ \A p \in LockPlaces(g, x) : M[p] \in Nat
                      /\ Tokens(M, LockPlaces(g, x)) = 1
    OBVIOUS
  <2>1. LockPlaces(g, x) \in SUBSET PlacesOf(g)
    BY <1>4
  <2>2. IsFiniteSet(LockPlaces(g, x))
    BY <1>3, <2>1, FS_Subset
  <2> QED
    BY <2>1, <2>2 DEF LocksKept
<1>6. NeverTwice(g, M)
  BY DEF LocksKept
<1> HIDE DEF n, N
<1>7. ASSUME NEW x \in LocksOf(g) PROVE Tokens(N, LockPlaces(g, x)) = 1
  <2> DEFINE X == LockPlaces(g, x)
  <2>1. PassesOn(s.in, s.out, X)
    BY <1>1, <1>5, <1>6, StepPassesLock
  <2>2. X \in SUBSET n.places
    BY <1>2, <1>4
  <2>3. \A p \in X : /\ n.Pre[p][t] = IF p \in s.in THEN 1 ELSE 0
                     /\ n.Post[t][p] = IF p \in s.out THEN 1 ELSE 0
    BY <1>1, <1>4, PlacesOfResources
  <2>4. \A p \in X : n.capacity[p] >= 1
    <3>1. g.capacity \in Nat \ {0}
      BY DEF IsGraph
    <3>2. \A p \in X : CapacityOf(g, p) \in {1, g.capacity}
      BY OtherPlacesAre, AttributesAre
    <3> HIDE DEF X
    <3>3. \A p \in X : n.capacity[p] = CapacityOf(g, p)
      BY <1>2, <2>2
    <3> QED
      BY <3>1, <3>2, <3>3
  <2>5. Tokens(M, X) = 1
    BY <1>5
  <2>6. M \in [n.places -> Nat] /\ t \in n.transitions /\ IsNet(n) /\ IsEnabled(M, n, t)
    BY <1>2 DEF n
  <2> HIDE DEF X
  <2>7. Tokens(FireMarking(M, n, t), X) = 1
    BY <2>1, <2>2, <2>3, <2>4, <2>5, <2>6, FiringConserves
  <2> QED
    BY <2>7 DEF N, X
<1>8. ASSUME NEW u \in Tasks(g), NEW i \in 1 .. NumLocks(g, u), NEW j \in 1 .. NumLocks(g, u),
             i < j, Locks(g, u)[i] = Locks(g, u)[j], NEW p \in Held(g, u, j)
      PROVE  N[p] = 0
  <2> DEFINE x == Locks(g, u)[j]
  <2>1. x \in LocksOf(g)
    <3>1. DOMAIN Locks(g, u) = 1 .. NumLocks(g, u)
      BY LenProperties DEF IsGraph, IsSequence, NumLocks, Locks
    <3>2. x \in ToSet(Locks(g, u))
      BY <3>1 DEF ToSet
    <3> QED
      BY <3>2 DEF LocksOf
  <2>2. p \notin s.in /\ p \notin s.out
    <3>1. Held(g, u, j) \cap (s.in \cup s.out) = {}
      BY <1>1, <1>5, <1>6, <1>8, <2>1, NeverEnteredAgain
    <3> QED
      BY <3>1
  <2>3. p \in LockPlaces(g, x)
    BY DEF LockPlaces, Taken
  <2>4. p \in PlacesOf(g) /\ ~ IsMonitor(p)
    BY <1>4, <2>1, <2>3, PlacesOfResources
  <2>5. n.Pre[p][t] = 0 /\ n.Post[t][p] = 0
    BY <1>1, <2>2, <2>4
  <2>6. M[p] = 0
    BY <1>6, <1>8 DEF NeverTwice
  <2> QED
    BY <1>2, <2>4, <2>5, <2>6 DEF N, FireMarking, Overflows, Produced
<1> QED
  BY <1>7, <1>8 DEF LocksKept, NeverTwice, N, n

LEMMA FiringKeepsCores ==
  ASSUME NEW g, IsGraph(g), IsNet(Lowered(g)), g.cores_per_cpu <= g.capacity,
         NEW M \in [PlacesOf(g) -> Nat], CoresKept(g, M),
         NEW t \in Lowered(g).transitions, IsEnabled(M, Lowered(g), t)
  PROVE  CoresKept(g, FireMarking(M, Lowered(g), t))
<1> SUFFICES ASSUME ~ IsResume(g), NEW c \in Cpus(g)
             PROVE  Tokens(FireMarking(M, Lowered(g), t), CorePlaces(g, c)) = g.cores_per_cpu
  BY DEF CoresKept
<1> DEFINE n == Lowered(g)
           X == CorePlaces(g, c)
<1>1. PICK s : /\ IsStep(g, s)
               /\ \A p \in PlacesOf(g) :
                    /\ ~ IsMonitor(p) \/ p \in s.in =>
                         n.Pre[p][t] = IF p \in s.in THEN 1 ELSE 0
                    /\ n.Post[t][p] = IF p \in s.out THEN 1 ELSE 0
  BY FiringMoves
<1>2. n.places = PlacesOf(g) /\ n.capacity = [p \in PlacesOf(g) |-> CapacityOf(g, p)]
  BY DEF Lowered
<1>3. X \in SUBSET n.places
  BY <1>2, PlacesAreThere
<1>4. PassesOn(s.in, s.out, X)
  BY <1>1, StepPassesCore
<1>5. \A p \in X : /\ n.Pre[p][t] = IF p \in s.in THEN 1 ELSE 0
                   /\ n.Post[t][p] = IF p \in s.out THEN 1 ELSE 0
  BY <1>1, <1>2, <1>3, PlacesOfResources
<1>6. g.cores_per_cpu \in Nat
  <2>1. Core(c) \in n.places
    BY <1>3, OtherPlacesAre
  <2> HIDE DEF n, X
  <2>2. n.capacity[Core(c)] = g.cores_per_cpu
    BY <1>2, <2>1, AttributesAre
  <2> QED
    BY <2>1, <2>2 DEF IsNet, n
<1>7. \A p \in X : n.capacity[p] >= g.cores_per_cpu
  <2>1. \A p \in X : CapacityOf(g, p) \in {g.cores_per_cpu, g.capacity}
    BY OtherPlacesAre, AttributesAre
  <2>2. g.capacity \in Nat
    BY DEF IsGraph
  <2> HIDE DEF X, n
  <2>3. \A p \in X : n.capacity[p] = CapacityOf(g, p)
    BY <1>2, <1>3
  <2> QED
    BY <1>6, <2>1, <2>2, <2>3
<1>8. Tokens(M, X) = g.cores_per_cpu
  BY DEF CoresKept
<1>9. M \in [n.places -> Nat] /\ t \in n.transitions /\ IsNet(n) /\ IsEnabled(M, n, t)
  BY <1>2
<1> HIDE DEF n, X
<1>10. Tokens(FireMarking(M, n, t), X) = g.cores_per_cpu
  BY <1>3, <1>4, <1>5, <1>6, <1>7, <1>8, <1>9, FiringConserves
<1> QED
  BY <1>10 DEF n, X

LEMMA LocksAtFirst ==
  ASSUME NEW g, IsGraph(g), IsNet(Lowered(g))
  PROVE  LocksKept(g, Lowered(g).M0)
<1> DEFINE M == Lowered(g).M0
<1>1. M = [p \in PlacesOf(g) |-> InitialTokens(g, p)] /\ Lowered(g).places = PlacesOf(g)
  BY DEF Lowered
<1>2. ASSUME NEW u \in Tasks(g), NEW x, NEW j \in Taken(g, u, x), NEW p \in Held(g, u, j)
      PROVE  p \in PlacesOf(g) /\ M[p] = 0
  <2>1. PICK q \in 2 * j + 1 .. 3 * NumLocks(g, u) + 1 - j : p = At(u, q)
    BY DEF Held
  <2>2. q \in 1 .. 3 * NumLocks(g, u) + 1 /\ q \in Nat \ {0}
    BY TasksAreFinite DEF Taken
  <2>3. p \in PlacesOf(g)
    BY <2>1, <2>2, PlacesAreThere
  <2>4. InitialTokens(g, p) = 0
    BY <2>1, <2>2, AttributesAre
  <2> QED
    BY <1>1, <2>3, <2>4
<1>3. ASSUME NEW x \in LocksOf(g) PROVE Tokens(M, LockPlaces(g, x)) = 1
  <2> DEFINE X == LockPlaces(g, x)
             rest == X \ {Lock(x)}
  <2>1. X \in SUBSET PlacesOf(g) /\ Lock(x) \in X
    BY PlacesAreThere, OtherPlacesAre DEF LocksOf
  <2>2. IsFiniteSet(X) /\ IsFiniteSet(rest)
    BY <1>1, <2>1, FS_Subset DEF IsNet
  <2>3. M[Lock(x)] = 1
    BY <1>1, <2>1, AttributesAre
  <2>4. \A p \in rest : M[p] = 0
    BY <1>2 DEF LockPlaces
  <2>5. \A p \in X : M[p] \in Nat
    BY <2>3, <2>4
  <2> HIDE DEF X, M
  <2>6. Tokens(M, rest) = 0
    <3> HIDE DEF rest
    <3> QED
      BY <2>2, <2>4, NoTokens
  <2>7. Tokens(M, X) = M[Lock(x)] + Tokens(M, rest)
    BY <2>1, <2>2, <2>5, TokensSplit
  <2> QED
    BY <2>3, <2>6, <2>7 DEF X
<1>4. NeverTwice(g, M)
  BY <1>2 DEF NeverTwice, Taken
<1> QED
  BY <1>3, <1>4 DEF LocksKept

LEMMA CoresAtFirst ==
  ASSUME NEW g, IsGraph(g), IsNet(Lowered(g))
  PROVE  CoresKept(g, Lowered(g).M0)
<1> SUFFICES ASSUME ~ IsResume(g), NEW c \in Cpus(g)
             PROVE  Tokens(Lowered(g).M0, CorePlaces(g, c)) = g.cores_per_cpu
  BY DEF CoresKept
<1> DEFINE M == Lowered(g).M0
           X == CorePlaces(g, c)
           rest == X \ {Core(c)}
<1>1. M = [p \in PlacesOf(g) |-> InitialTokens(g, p)] /\ Lowered(g).places = PlacesOf(g)
  BY DEF Lowered
<1>2. X \in SUBSET PlacesOf(g) /\ Core(c) \in X
  BY PlacesAreThere, OtherPlacesAre
<1>3. IsFiniteSet(X) /\ IsFiniteSet(rest)
  BY <1>1, <1>2, FS_Subset DEF IsNet
<1>4. M[Core(c)] = g.cores_per_cpu
  BY <1>1, <1>2, AttributesAre
<1>5. ASSUME NEW p \in rest PROVE M[p] = 0
  <2>1. PICK t \in Tasks(g) : \E q \in 1 .. 3 * NumLocks(g, t) + 1 : p = At(t, q)
    BY OtherPlacesAre
  <2>2. InitialTokens(g, p) = 0
    BY <2>1, TasksAreFinite, AttributesAre
  <2> QED
    BY <1>1, <1>2, <2>2
<1>6. M \in [PlacesOf(g) -> Nat]
  BY <1>1 DEF IsNet
<1>7. \A p \in X : M[p] \in Nat
  BY <1>2, <1>6
<1> HIDE DEF X, M
<1>8. Tokens(M, rest) = 0
  <2> HIDE DEF rest
  <2> QED
    BY <1>3, <1>5, NoTokens
<1>9. Tokens(M, X) = M[Core(c)] + Tokens(M, rest)
  BY <1>2, <1>3, <1>7, TokensSplit
<1> QED
  BY <1>2, <1>4, <1>7, <1>8, <1>9 DEF X, M

-----------------------------------------------------------------------------
(* The places the properties speak about are these.                        *)
LEMMA HoldersAre ==
  ASSUME IsGraph(tdg), NEW x
  PROVE  HoldersOf(x) = LockPlaces(tdg, x) \ {Lock(x)}
<1>1. ASSUME NEW t \in Tasks(tdg), NEW j \in 1 .. NumLocks(tdg, t)
      PROVE  Critical(t, j) = Held(tdg, t, j)
  <2> DEFINE n == NumLocks(tdg, t)
             K == {k \in 2 + 4 * j .. ChainLength(tdg, t) - 3 - 2 * j : k % 2 = 0}
             Q == 2 * j + 1 .. 3 * n + 1 - j
  <2>1. ChainLength(tdg, t) - 3 - 2 * j = 6 * n + 2 - 2 * j /\ n \in Nat
    BY TasksAreFinite DEF ChainLength
  <2>2. \A q \in Q : 2 * q \in K
    <3> HIDE DEF n
    <3> QED
      BY <2>1
  <2>3. \A k \in K : \E q \in Q : k = 2 * q
    <3> HIDE DEF n
    <3> SUFFICES ASSUME NEW k \in K PROVE k \div 2 \in Q /\ k = 2 * (k \div 2)
      OBVIOUS
    <3> QED
      BY <2>1
  <2>4. Critical(t, j) = {Chain(t, k) : k \in K} /\ Held(tdg, t, j) = {Chain(t, 2 * q) : q \in Q}
    BY DEF Critical, Held, At
  <2> HIDE DEF K, Q
  <2> QED
    BY <2>2, <2>3, <2>4
<1> DEFINE H == UNION {UNION {Held(tdg, t, j) : j \in Taken(tdg, t, x)} : t \in Tasks(tdg)}
<1>2. HoldersOf(x) = H
  BY <1>1 DEF HoldersOf, Taken
<1>3. Lock(x) \notin H
  BY PlacesDiffer DEF Held
<1> QED
  BY <1>2, <1>3 DEF LockPlaces

LEMMA RunnersAre ==
  ASSUME IsGraph(tdg), NEW c
  PROVE  UNION {WithCore(t) : t \in OnCore(c)} = CorePlaces(tdg, c) \ {Core(c)}
<1>1. ASSUME NEW t \in Tasks(tdg) PROVE WithCore(t) = Running(tdg, t)
  <2> DEFINE n == NumLocks(tdg, t)
             K == {k \in 0 .. ChainLength(tdg, t) - 1 : k % 2 = 0}
             Q == 1 .. 3 * n + 1
  <2>1. ChainLength(tdg, t) - 1 = 6 * n + 4 /\ n \in Nat
    BY TasksAreFinite DEF ChainLength
  <2>2. \A q \in Q : 2 * q \in K /\ 2 * q # 0 /\ 2 * q # 6 * n + 4
    <3> HIDE DEF n
    <3> QED
      BY <2>1
  <2>3. \A k \in K \ {0, 6 * n + 4} : \E q \in Q : k = 2 * q
    <3> HIDE DEF n
    <3> SUFFICES ASSUME NEW k \in K \ {0, 6 * n + 4} PROVE k \div 2 \in Q /\ k = 2 * (k \div 2)
      OBVIOUS
    <3> QED
      BY <2>1
  <2>4. /\ WithCore(t) = {Chain(t, k) : k \in K} \ {Chain(t, 0), Chain(t, 6 * n + 4)}
        /\ Running(tdg, t) = {Chain(t, 2 * q) : q \in Q}
    BY <2>1 DEF WithCore, ChainPlaces, Running, At, Entry, Exit, Tasks
  <2>5. \A k, m : Chain(t, k) = Chain(t, m) <=> k = m
    BY DEF Chain
  <2> HIDE DEF K, Q
  <2> QED
    BY <2>2, <2>3, <2>4, <2>5
<1> DEFINE R == UNION {Running(tdg, t) : t \in {u \in Tasks(tdg) : tdg.node[u].core = c}}
<1>2. UNION {WithCore(t) : t \in OnCore(c)} = R
  BY <1>1 DEF OnCore
<1>3. Core(c) \notin R
  BY PlacesDiffer DEF Running
<1> QED
  BY <1>2, <1>3 DEF CorePlaces

-----------------------------------------------------------------------------
(* The inductive invariant: that of TimedRun, the net is the lowering of   *)
(* the graph, and its marking keeps locks and cores.                       *)
ResourceInv ==
  /\ IInv
  /\ tdg \in Graphs /\ net = Lowered(tdg)
  /\ RestartKeepsLocks(tdg) => LocksKept(tdg, marking)
  /\ tdg.cores_per_cpu <= tdg.capacity => CoresKept(tdg, marking)

LEMMA InitResourceInv == LoweredInit => ResourceInv
<1> SUFFICES ASSUME LoweredInit PROVE ResourceInv
  OBVIOUS
<1>1. IInv
  BY InitIInv DEF LoweredInit
<1>2. tdg \in Graphs /\ net = Lowered(tdg) /\ marking = Lowered(tdg).M0
  BY DEF LoweredInit, Init
<1>3. IsGraph(tdg) /\ IsNet(Lowered(tdg))
  BY <1>1, <1>2, GraphsAssumption, NetIsWellFormed DEF IInv
<1>4. LocksKept(tdg, marking) /\ CoresKept(tdg, marking)
  BY <1>2, <1>3, LocksAtFirst, CoresAtFirst
<1> QED
  BY <1>1, <1>2, <1>4 DEF ResourceInv

LEMMA FireResourceInv ==
  ASSUME NEW t \in net.transitions
  PROVE  ResourceInv /\ LoweredFire(t) => ResourceInv'
<1> SUFFICES ASSUME ResourceInv, LoweredFire(t) PROVE ResourceInv'
  OBVIOUS
<1>1. IInv'
  BY FireIInv DEF ResourceInv, LoweredFire
<1>2. /\ tdg' = tdg /\ net' = net /\ marking' = FireMarking(marking, net, t)
      /\ t \in Active
  BY DEF LoweredFire, Fire, After, IsFirable
<1>3. /\ tdg \in Graphs /\ net = Lowered(tdg)
      /\ IsGraph(tdg) /\ IsNet(Lowered(tdg))
  BY GraphsAssumption, NetIsWellFormed DEF ResourceInv, IInv
<1>4. IsEnabled(marking, Lowered(tdg), t) /\ t \in Lowered(tdg).transitions
  BY <1>2, <1>3, SchedulerSelects DEF Active, StructEnabled
<1>5. marking \in [PlacesOf(tdg) -> Nat]
  <2>1. Lowered(tdg).places = PlacesOf(tdg)
    BY DEF Lowered
  <2> QED
    BY <1>3, <2>1 DEF ResourceInv, IInv, TypeOK
<1>6. RestartKeepsLocks(tdg) => LocksKept(tdg, marking')
  BY <1>2, <1>3, <1>4, <1>5, FiringKeepsLocks DEF ResourceInv
<1>7. tdg.cores_per_cpu <= tdg.capacity => CoresKept(tdg, marking')
  BY <1>2, <1>3, <1>4, <1>5, FiringKeepsCores DEF ResourceInv
<1> QED
  BY <1>1, <1>2, <1>3, <1>6, <1>7 DEF ResourceInv

(* The inductive invariant, which the three theorems below follow from.    *)
THEOREM ResourceInvariance == LoweredSpec => []ResourceInv
<1>1. ResourceInv /\ [LoweredNext]_loweredVars => ResourceInv'
  <2>1. ASSUME ResourceInv, LoweredElapse PROVE ResourceInv'
    BY <2>1, ElapseIInv DEF ResourceInv, LoweredElapse, Elapse
  <2>2. ASSUME ResourceInv, UNCHANGED loweredVars PROVE ResourceInv'
    <3>1. UNCHANGED vars /\ tdg' = tdg /\ net' = net /\ marking' = marking
      BY <2>2 DEF loweredVars, vars
    <3> QED
      BY <2>2, <3>1, StutterIInv DEF ResourceInv
  <2> QED
    BY <2>1, <2>2, FireResourceInv DEF LoweredNext
<1> QED
  BY InitResourceInv, <1>1, PTL DEF LoweredSpec

-----------------------------------------------------------------------------
LEMMA LockSumsHold ==
  ResourceInv /\ RestartKeepsLocks(tdg) => LockConserved
<1> SUFFICES ASSUME ResourceInv, RestartKeepsLocks(tdg), NEW x \in LockSet
             PROVE  marking[Lock(x)] + Tokens(marking, HoldersOf(x)) = 1
  BY DEF LockConserved
<1>1. /\ IsGraph(tdg) /\ IsNet(net) /\ marking \in [net.places -> Nat]
      /\ net = Lowered(tdg) /\ net.places = PlacesOf(tdg)
  BY GraphsAssumption, NetIsWellFormed DEF ResourceInv, IInv, TypeOK, Lowered
<1>2. x \in LocksOf(tdg)
  BY DEF LockSet, LocksOf
<1> DEFINE X == LockPlaces(tdg, x)
<1>3. X \in SUBSET net.places /\ Lock(x) \in X
  BY <1>1, <1>2, PlacesAreThere, OtherPlacesAre DEF LocksOf
<1>4. IsFiniteSet(X) /\ \A p \in X : marking[p] \in Nat
  BY <1>1, <1>3, FS_Subset DEF IsNet
<1>5. Tokens(marking, X) = 1
  BY <1>2 DEF ResourceInv, LocksKept
<1>6. HoldersOf(x) = X \ {Lock(x)}
  BY <1>1, HoldersAre
<1> HIDE DEF X
<1>7. Tokens(marking, X) = marking[Lock(x)] + Tokens(marking, X \ {Lock(x)})
  BY <1>3, <1>4, TokensSplit
<1> QED
  BY <1>5, <1>6, <1>7

LEMMA CoreSumsHold ==
  ResourceInv /\ tdg.cores_per_cpu <= tdg.capacity => CoreConserved
<1> SUFFICES ASSUME ResourceInv, tdg.cores_per_cpu <= tdg.capacity, ~ IsResume(tdg),
                    NEW c \in Cpus(tdg)
             PROVE  marking[Core(c)] + Tokens(marking, UNION {WithCore(t) : t \in OnCore(c)})
                      = tdg.cores_per_cpu
  BY DEF CoreConserved
<1>1. /\ IsGraph(tdg) /\ IsNet(net) /\ marking \in [net.places -> Nat]
      /\ net = Lowered(tdg) /\ net.places = PlacesOf(tdg)
  BY GraphsAssumption, NetIsWellFormed DEF ResourceInv, IInv, TypeOK, Lowered
<1> DEFINE X == CorePlaces(tdg, c)
<1>2. X \in SUBSET net.places /\ Core(c) \in X
  BY <1>1, PlacesAreThere, OtherPlacesAre
<1>3. IsFiniteSet(X) /\ \A p \in X : marking[p] \in Nat
  BY <1>1, <1>2, FS_Subset DEF IsNet
<1>4. Tokens(marking, X) = tdg.cores_per_cpu
  BY DEF ResourceInv, CoresKept
<1>5. UNION {WithCore(t) : t \in OnCore(c)} = X \ {Core(c)}
  BY <1>1, RunnersAre
<1> HIDE DEF X
<1>6. Tokens(marking, X) = marking[Core(c)] + Tokens(marking, X \ {Core(c)})
  BY <1>2, <1>3, TokensSplit
<1> QED
  BY <1>4, <1>5, <1>6

(* No lock is lost or doubled in any run of any graph, unless the restart  *)
(* policy takes the core from a task that has a lock, which is what        *)
(* transform does to a task whose first lock is not a spin lock            *)
(* (tdg2pn.cpp:921).  A lock may be taken by several tasks, and by a task  *)
(* that has it already.                                                    *)
THEOREM LocksAreConserved ==
  LoweredSpec => [](RestartKeepsLocks(tdg) => LockConserved)
<1>1. ResourceInv => (RestartKeepsLocks(tdg) => LockConserved)
  BY LockSumsHold
<1> QED
  BY <1>1, ResourceInvariance, PTL

(* No core is lost or doubled under any policy with core places, restart   *)
(* included, as long as a place of a task has room for as many tokens as a *)
(* CPU has cores (task_place_capacity, one unless it is configured): with  *)
(* less, two jobs can merge in it and a core is gone.                      *)
THEOREM CoresAreConserved ==
  LoweredSpec => [](tdg.cores_per_cpu <= tdg.capacity => CoreConserved)
<1>1. ResourceInv => (tdg.cores_per_cpu <= tdg.capacity => CoreConserved)
  BY CoreSumsHold
<1> QED
  BY <1>1, ResourceInvariance, PTL

(* Where neither of the two exceptions applies, no resource is lost.       *)
THEOREM ResourcesAreConserved ==
  LoweredSpec => [](RestartKeepsLocks(tdg) /\ tdg.cores_per_cpu <= tdg.capacity
                      => ResourcesConserved)
<1>1. ResourceInv => (RestartKeepsLocks(tdg) /\ tdg.cores_per_cpu <= tdg.capacity
                        => ResourcesConserved)
  BY LockSumsHold, CoreSumsHold DEF ResourcesConserved
<1> QED
  BY <1>1, ResourceInvariance, PTL

-----------------------------------------------------------------------------
(* Precedence.  A set of nodes is a line if a single token runs through    *)
(* them: what starts a node of the line comes from the line, and a fork or *)
(* join of the line has one way on within the line.                        *)
Line(g, R) ==
  /\ \A e \in EdgesOf(g) :
       Ties(e) /\ e.target \in R /\ ~ IsControl(g, e.target) => e.source \in R
  /\ \A e \in EdgesOf(g) :
       Ties(e) /\ {e.source, e.target} \subseteq R /\ IsControl(g, e.source) =>
         /\ \E f \in TiesInto(g, e.source) : f.source \in R /\ ~ IsControl(g, f.source)
         /\ \A f \in TiesFrom(g, e.source) : f.target \in R => f.target = e.target

(* Where the token of a line can be.                                       *)
LinePlaces(g, R) ==
  {p \in PlacesOf(g) :
     \E n \in R : \/ n \in Tasks(g) /\ \E k : p = Chain(n, k)
                  \/ n \notin Tasks(g) /\ ~ IsControl(g, n) /\ p = Empty(n)}

LEMMA PlacesOfLine ==
  ASSUME NEW g, NEW R
  PROVE  /\ \A t, k : Chain(t, k) \in LinePlaces(g, R) <=>
                        Chain(t, k) \in PlacesOf(g) /\ t \in R \cap Tasks(g)
         /\ \A n : Empty(n) \in LinePlaces(g, R) <=>
                     /\ Empty(n) \in PlacesOf(g)
                     /\ n \in R /\ n \notin Tasks(g) /\ ~ IsControl(g, n)
         /\ \A x : /\ Lock(x) \notin LinePlaces(g, R)
                   /\ Core(x) \notin LinePlaces(g, R)
                   /\ Period(x) \notin LinePlaces(g, R)
         /\ \A p \in LinePlaces(g, R) : ~ IsMonitor(p)
<1>1. \A t, k, n, i : /\ Chain(t, k) = Chain(n, i) <=> t = n /\ k = i
                      /\ Chain(t, k) # Empty(n)
                      /\ Empty(t) = Empty(n) <=> t = n
  BY DEF Chain, Empty
<1>2. \A p \in LinePlaces(g, R) : p[1] \in {"chain", "empty"}
  BY DEF LinePlaces, Chain, Empty
<1>3. \A x : /\ Lock(x)[1] = "lock" /\ Core(x)[1] = "core" /\ Period(x)[1] = "period"
             /\ \A role : Monitor(x, role)[1] = "monitor"
  BY DEF Lock, Core, Period, Monitor
<1>4. /\ \A x : /\ Lock(x) \notin LinePlaces(g, R)
                /\ Core(x) \notin LinePlaces(g, R)
                /\ Period(x) \notin LinePlaces(g, R)
      /\ \A p \in LinePlaces(g, R) : ~ IsMonitor(p)
  BY <1>2, <1>3 DEF IsMonitor
<1>5. ASSUME NEW t, NEW k
      PROVE  Chain(t, k) \in LinePlaces(g, R) <=>
               Chain(t, k) \in PlacesOf(g) /\ t \in R \cap Tasks(g)
  <2>1. Chain(t, k) \in LinePlaces(g, R) <=>
          /\ Chain(t, k) \in PlacesOf(g)
          /\ \E n \in R :
               \/ n \in Tasks(g) /\ \E i : Chain(t, k) = Chain(n, i)
               \/ n \notin Tasks(g) /\ ~ IsControl(g, n) /\ Chain(t, k) = Empty(n)
    BY DEF LinePlaces
  <2> QED
    BY <1>1, <2>1
<1>6. ASSUME NEW n
      PROVE  Empty(n) \in LinePlaces(g, R) <=>
               /\ Empty(n) \in PlacesOf(g)
               /\ n \in R /\ n \notin Tasks(g) /\ ~ IsControl(g, n)
  <2>1. Empty(n) \in LinePlaces(g, R) <=>
          /\ Empty(n) \in PlacesOf(g)
          /\ \E m \in R :
               \/ m \in Tasks(g) /\ \E i : Empty(n) = Chain(m, i)
               \/ m \notin Tasks(g) /\ ~ IsControl(g, m) /\ Empty(n) = Empty(m)
    BY DEF LinePlaces
  <2> QED
    BY <1>1, <2>1
<1> QED
  BY <1>4, <1>5, <1>6

(* The ends of a plain node are on the line if the node is.                *)
LEMMA EndsOnLine ==
  ASSUME NEW g, NEW R, NEW n \in DOMAIN g.node
  PROVE  /\ Entry(g, n) \in LinePlaces(g, R) =>
              n \in R /\ ~ IsControl(g, n)
         /\ Exit(g, n) \in PlacesOf(g) /\ n \in R /\ ~ IsControl(g, n) =>
              Exit(g, n) \in LinePlaces(g, R)
<1>1. CASE n \in Tasks(g)
  <2>1. Entry(g, n) = Chain(n, 0) /\ Exit(g, n) = Chain(n, ChainLength(g, n) - 1)
    BY <1>1 DEF Tasks, Entry, Exit
  <2>2. ~ IsControl(g, n)
    BY <1>1 DEF Tasks, IsTask, IsControl
  <2> QED
    BY <1>1, <2>1, <2>2, PlacesOfLine
<1>2. CASE n \notin Tasks(g)
  <2>1. Entry(g, n) = Empty(n) /\ Exit(g, n) = Empty(n)
    BY <1>2 DEF Tasks, Entry, Exit
  <2> QED
    BY <1>2, <2>1, PlacesOfLine
<1> QED
  BY <1>1, <1>2

-----------------------------------------------------------------------------
(* A step that gives a set of places nothing, or no more than one token,   *)
(* and takes one from it; or one that would need two.                      *)
GainsNothing(in, out, X) ==
  \/ out \cap X = {}
  \/ \E p, q \in X : p \in in /\ out \cap X = {q}
  \/ \E p, q \in X : p # q /\ {p, q} \subseteq in

LEMMA TokensLess ==
  ASSUME NEW X, IsFiniteSet(X), NEW M, NEW N,
         \A p \in X : M[p] \in Nat /\ N[p] \in Nat /\ N[p] <= M[p]
  PROVE  Tokens(N, X) <= Tokens(M, X)
<1> DEFINE Good == {T \in SUBSET X : Tokens(N, T) <= Tokens(M, T)}
<1>1. ASSUME NEW T \in SUBSET X, \A x \in T : T \ {x} \in Good
      PROVE  T \in Good
  <2>1. IsFiniteSet(T) /\ (\A p \in T : M[p] \in Nat) /\ (\A p \in T : N[p] \in Nat)
    BY FS_Subset
  <2>2. CASE T = {}
    <3>1. Tokens(M, T) = 0 /\ Tokens(N, T) = 0
      BY <2>1, <2>2, TokensSplit
    <3> QED
      BY <3>1
  <2>3. CASE T # {}
    <3>1. PICK x \in T : TRUE
      BY <2>3
    <3> DEFINE m == Tokens(M, T \ {x})
               n == Tokens(N, T \ {x})
    <3>2. Tokens(M, T) = M[x] + m /\ m \in Nat
      BY <2>1, <3>1, TokensSplit
    <3>3. Tokens(N, T) = N[x] + n /\ n \in Nat
      BY <2>1, <3>1, TokensSplit
    <3>4. n <= m
      BY <1>1, <3>1
    <3>5. M[x] \in Nat /\ N[x] \in Nat /\ N[x] <= M[x]
      BY <3>1
    <3> HIDE DEF m, n
    <3>6. Tokens(N, T) <= Tokens(M, T)
      BY <3>2, <3>3, <3>4, <3>5
    <3> QED
      BY <3>6
  <2> QED
    BY <2>2, <2>3
<1> HIDE DEF Good
<1>2. \A T \in SUBSET X : T \in Good
  BY <1>1, SubsetInduction
<1> QED
  BY <1>2 DEF Good

LEMMA FiringGainsNothing ==
  ASSUME NEW n, IsNet(n), NEW m \in [n.places -> Nat],
         NEW t \in n.transitions, IsEnabled(m, n, t),
         NEW X \in SUBSET n.places, Tokens(m, X) <= 1,
         NEW in, NEW out, GainsNothing(in, out, X),
         \A p \in X : /\ n.Pre[p][t] = IF p \in in THEN 1 ELSE 0
                      /\ n.Post[t][p] = IF p \in out THEN 1 ELSE 0
  PROVE  Tokens(FireMarking(m, n, t), X) <= 1
<1> DEFINE N == FireMarking(m, n, t)
<1>1. IsFiniteSet(X) /\ \A p \in X : m[p] \in Nat
  BY FS_Subset DEF IsNet
<1>2. \A p \in X : N[p] \in Nat
  BY FiringKeepsTokens
<1>3. ASSUME NEW p \in X
      PROVE  /\ N[p] <= m[p] - n.Pre[p][t] + n.Post[t][p]
             /\ n.Pre[p][t] <= m[p]
  <2>1. /\ N[p] = IF Overflows(m, n, t, p) THEN n.capacity[p] ELSE Produced(m, n, t, p)
        /\ m[p] \in Nat /\ n.capacity[p] \in Nat
        /\ n.Pre[p][t] \in Nat /\ n.Post[t][p] \in Nat /\ n.Pre[p][t] <= m[p]
    BY DEF FireMarking, IsNet, IsEnabled
  <2> HIDE DEF N
  <2> QED
    BY <2>1 DEF Overflows, Produced
<1>4. Tokens(m, X) \in Nat
  BY <1>1, TokensSplit
<1> HIDE DEF N
<1>5. CASE out \cap X = {}
  <2>1. \A p \in X : n.Post[t][p] = 0 /\ n.Pre[p][t] \in {0, 1}
    BY <1>5
  <2>2. \A p \in X : N[p] <= m[p]
    BY <1>1, <1>2, <1>3, <2>1
  <2>3. Tokens(N, X) <= Tokens(m, X)
    BY <1>1, <1>2, <2>2, TokensLess
  <2>4. Tokens(N, X) \in Nat
    BY <1>1, <1>2, TokensSplit
  <2> QED
    BY <1>4, <2>3, <2>4 DEF N
<1>6. ASSUME NEW p \in X, NEW q \in X, p \in in, out \cap X = {q}
      PROVE  Tokens(N, X) <= 1
  <2>1. m[p] = 1 /\ \A r \in X \ {p} : m[r] = 0
    <3>1. m[p] >= 1 /\ m[p] <= Tokens(m, X) /\ m[p] \in Nat
      BY <1>1, <1>3, <1>6, TokensCover
    <3>2. \A r \in X \ {p} : m[r] \in Nat /\ m[p] + m[r] <= Tokens(m, X)
      BY <1>1, TokensCover
    <3> QED
      BY <1>4, <3>1, <3>2
  <2>2. \A r \in X : /\ n.Pre[r][t] \in {0, 1} /\ n.Pre[p][t] = 1
                     /\ n.Post[t][r] = IF r = q THEN 1 ELSE 0
    BY <1>6
  <2>3. ASSUME NEW r \in X \ {q} PROVE N[r] = 0
    BY <1>2, <1>3, <2>1, <2>2
  <2>4. N[q] <= 1 /\ N[q] \in Nat
    BY <1>2, <1>3, <2>1, <2>2
  <2>5. Tokens(N, X) = N[q] + Tokens(N, X \ {q})
    BY <1>1, <1>2, TokensSplit
  <2>6. Tokens(N, X \ {q}) = 0
    <3> DEFINE Y == X \ {q}
    <3>1. IsFiniteSet(Y) /\ \A r \in Y : N[r] = 0
      BY <1>1, <2>3, FS_Subset
    <3> HIDE DEF Y
    <3>2. Tokens(N, Y) = 0
      BY <3>1, NoTokens
    <3> QED
      BY <3>2 DEF Y
  <2> QED
    BY <2>4, <2>5, <2>6
<1>7. ASSUME NEW p \in X, NEW q \in X, p # q, {p, q} \subseteq in
      PROVE  FALSE
  <2>1. m[p] >= 1 /\ m[q] >= 1 /\ m[p] \in Nat /\ m[q] \in Nat
    BY <1>1, <1>3, <1>7
  <2>2. m[p] + m[q] <= Tokens(m, X)
    BY <1>1, <1>7, TokensCover
  <2> QED
    BY <1>4, <2>1, <2>2
<1> QED
  BY <1>5, <1>6, <1>7 DEF GainsNothing, N

ControlsApart(g) ==
  \A e \in EdgesOf(g) : Ties(e) => ~ (IsControl(g, e.source) /\ IsControl(g, e.target))

LEMMA OuterGainsNothing ==
  ASSUME NEW g, IsGraph(g), ControlsApart(g), g.periodic = <<>>,
         NEW s, OuterStep(g, s), s.in \cup s.out \subseteq PlacesOf(g),
         NEW R \in SUBSET DOMAIN g.node, Line(g, R)
  PROVE  GainsNothing(s.in, s.out, LinePlaces(g, R))
<1> DEFINE X == LinePlaces(g, R)
<1>1. \A e \in EdgesOf(g) : e.source \in DOMAIN g.node /\ e.target \in DOMAIN g.node
  BY DEF IsGraph
<1>2. CASE ForkStep(g, s)
  <2>1. PICK n \in DOMAIN g.node : IsControl(g, n) /\ s = ForkOrJoin(g, n)
    BY <1>2 DEF ForkStep
  <2>2. /\ s.in = {Exit(g, e.source) : e \in TiesInto(g, n)}
        /\ s.out = {Entry(g, e.target) : e \in TiesFrom(g, n)}
    BY <2>1 DEF ForkOrJoin, JoinsAllOf
  <2>3. SUFFICES ASSUME s.out \cap X # {}
                 PROVE  \E p, q \in X : p \in s.in /\ s.out \cap X = {q}
    BY DEF GainsNothing
  <2>4. PICK e \in TiesFrom(g, n) : Entry(g, e.target) \in X
    BY <2>2, <2>3
  <2>5. e \in EdgesOf(g) /\ Ties(e) /\ e.source = n
    BY <2>4 DEF TiesFrom
  <2>6. e.target \in R /\ ~ IsControl(g, e.target)
    BY <1>1, <2>4, <2>5, EndsOnLine
  <2>7. n \in R
    BY <2>5, <2>6 DEF Line
  <2>8. PICK f \in TiesInto(g, n) : f.source \in R /\ ~ IsControl(g, f.source)
    BY <2>1, <2>5, <2>6, <2>7 DEF Line
  <2>9. \A d \in TiesFrom(g, n) : d.target \in R => d.target = e.target
    BY <2>1, <2>5, <2>6, <2>7 DEF Line
  <2>10. Exit(g, f.source) \in s.in /\ Exit(g, f.source) \in X
    <3>1. Exit(g, f.source) \in s.in /\ f.source \in DOMAIN g.node
      BY <1>1, <2>2, <2>8 DEF TiesInto
    <3> QED
      BY <2>8, <3>1, EndsOnLine
  <2>11. ASSUME NEW p \in s.out \cap X PROVE p = Entry(g, e.target)
    <3>1. PICK d \in TiesFrom(g, n) : p = Entry(g, d.target)
      BY <2>2
    <3>2. d.target \in R
      BY <1>1, <3>1, EndsOnLine DEF TiesFrom
    <3> QED
      BY <2>9, <3>1, <3>2
  <2> HIDE DEF X
  <2> QED
    BY <2>2, <2>4, <2>10, <2>11
<1>3. CASE TieStep(g, s)
  <2>1. PICK e \in EdgesOf(g) :
          /\ Ties(e) /\ ~ IsControl(g, e.source) /\ ~ IsControl(g, e.target)
          /\ s.in = {Exit(g, e.source)} /\ s.out = {Entry(g, e.target)}
    BY <1>3 DEF TieStep, Bridges, ControlStep
  <2>2. SUFFICES ASSUME s.out \cap X # {}
                 PROVE  \E p, q \in X : p \in s.in /\ s.out \cap X = {q}
    BY DEF GainsNothing
  <2>3. Entry(g, e.target) \in X
    BY <2>1, <2>2
  <2>4. e.target \in R
    BY <1>1, <2>3, EndsOnLine
  <2>5. e.source \in R
    BY <2>1, <2>4 DEF Line
  <2>6. Exit(g, e.source) \in X
    BY <1>1, <2>1, <2>5, EndsOnLine
  <2> HIDE DEF X
  <2> QED
    BY <2>1, <2>3, <2>6
<1>4. CASE MonitorStep(g, s)
  <2>1. s.out \cap X = {}
    BY <1>4, PlacesOfLine DEF MonitorStep
  <2> QED
    BY <2>1 DEF GainsNothing
<1>5. CASE ReleaseStep(g, s)
  <2>1. DOMAIN g.periodic = {}
    OBVIOUS
  <2> QED
    BY <1>5, <2>1 DEF ReleaseStep, Released
<1>6. CASE ConsumeStep(g, s)
  BY <1>6 DEF ConsumeStep, ControlStep, GainsNothing
<1> QED
  BY <1>2, <1>3, <1>4, <1>5, <1>6 DEF OuterStep

LEMMA StepGainsNothing ==
  ASSUME NEW g, IsGraph(g), ControlsApart(g), g.periodic = <<>>,
         NEW s, IsStep(g, s), s.in \cup s.out \subseteq PlacesOf(g),
         NEW R \in SUBSET DOMAIN g.node, Line(g, R)
  PROVE  GainsNothing(s.in, s.out, LinePlaces(g, R))
<1> DEFINE X == LinePlaces(g, R)
<1>1. \A t, k : Chain(t, k) \in X <=> Chain(t, k) \in PlacesOf(g) /\ t \in R \cap Tasks(g)
  BY PlacesOfLine
<1>2. \A x : Lock(x) \notin X /\ Core(x) \notin X
  BY PlacesOfLine
<1>3. CASE StepOfChain(g, s)
  <2>1. PICK t \in Tasks(g) : \E k : s = ChainStep(g, t, k)
    BY <1>3 DEF StepOfChain
  <2>2. PICK k : s = ChainStep(g, t, k)
    BY <2>1
  <2>3. /\ Chain(t, k - 1) \in s.in /\ Chain(t, k + 1) \in s.out
        /\ \A p \in s.out : p = Chain(t, k + 1) \/ \E x : p = Lock(x) \/ p = Core(x)
    BY <2>2 DEF ChainStep, CoreGiven
  <2>4. CASE t \in R
    <3>1. Chain(t, k - 1) \in X /\ Chain(t, k + 1) \in X
      BY <1>1, <2>3, <2>4
    <3>2. s.out \cap X = {Chain(t, k + 1)}
      <4> HIDE DEF X
      <4> QED
        BY <1>2, <2>3, <3>1
    <3> QED
      BY <2>3, <3>1, <3>2 DEF GainsNothing
  <2>5. CASE t \notin R
    <3>1. s.out \cap X = {}
      <4>1. Chain(t, k + 1) \notin X
        BY <1>1, <2>5
      <4> HIDE DEF X
      <4> QED
        BY <1>2, <2>3, <4>1
    <3> QED
      BY <3>1 DEF GainsNothing
  <2> QED
    BY <2>4, <2>5
<1>4. CASE TakeoverStep(g, s)
  <2>1. PICK hi, lo \in Tasks(g) : \E r \in 1 .. 3 * NumLocks(g, lo) + 1 :
          s.in = {At(hi, 0), At(lo, r)} /\ s.out = {At(hi, 1), At(lo, 0)}
    BY <1>4, TakeoverPlaces
  <2>2. PICK r \in 1 .. 3 * NumLocks(g, lo) + 1 :
          s.in = {At(hi, 0), At(lo, r)} /\ s.out = {At(hi, 1), At(lo, 0)}
    BY <2>1
  <2>3. NumLocks(g, lo) \in Nat
    BY TasksAreFinite
  <2>4. r \in Int /\ r # 0
    BY <2>3
  <2>5. At(hi, 0) # At(lo, r)
    BY <2>4, PlacesDiffer
  <2>6. /\ At(hi, 0) \in X <=> hi \in R
        /\ At(hi, 1) \in X <=> hi \in R
        /\ At(lo, 0) \in X <=> lo \in R
        /\ At(lo, r) \in X <=> lo \in R
    BY <1>1, <2>2 DEF At
  <2> SUFFICES GainsNothing(s.in, s.out, X)
    OBVIOUS
  <2> HIDE DEF X
  <2>7. CASE hi \in R /\ lo \in R
    <3>1. At(hi, 0) \in X /\ At(lo, r) \in X /\ {At(hi, 0), At(lo, r)} \subseteq s.in
      BY <2>2, <2>6, <2>7
    <3> QED
      BY <2>5, <3>1 DEF GainsNothing
  <2>8. CASE hi \in R /\ lo \notin R
    <3>1. s.out \cap X = {At(hi, 1)}
      BY <2>2, <2>6, <2>8
    <3> QED
      BY <2>2, <2>6, <2>8, <3>1 DEF GainsNothing
  <2>9. CASE hi \notin R /\ lo \in R
    <3>1. s.out \cap X = {At(lo, 0)}
      BY <2>2, <2>6, <2>9
    <3> QED
      BY <2>2, <2>6, <2>9, <3>1 DEF GainsNothing
  <2>10. CASE hi \notin R /\ lo \notin R
    <3>1. s.out \cap X = {}
      BY <2>2, <2>6, <2>10
    <3> QED
      BY <3>1 DEF GainsNothing
  <2> QED
    BY <2>7, <2>8, <2>9, <2>10
<1> QED
  BY <1>3, <1>4, OuterGainsNothing DEF IsStep

LEMMA FiringKeepsLine ==
  ASSUME NEW g, IsGraph(g), IsNet(Lowered(g)), ControlsApart(g), g.periodic = <<>>,
         NEW R \in SUBSET DOMAIN g.node, Line(g, R),
         NEW M \in [PlacesOf(g) -> Nat], Tokens(M, LinePlaces(g, R)) <= 1,
         NEW t \in Lowered(g).transitions, IsEnabled(M, Lowered(g), t)
  PROVE  Tokens(FireMarking(M, Lowered(g), t), LinePlaces(g, R)) <= 1
<1> DEFINE n == Lowered(g)
           X == LinePlaces(g, R)
<1>1. PICK s : /\ IsStep(g, s) /\ s.in \cup s.out \subseteq PlacesOf(g)
               /\ \A p \in PlacesOf(g) :
                    /\ ~ IsMonitor(p) \/ p \in s.in =>
                         n.Pre[p][t] = IF p \in s.in THEN 1 ELSE 0
                    /\ n.Post[t][p] = IF p \in s.out THEN 1 ELSE 0
  BY ArcsAre
<1>2. n.places = PlacesOf(g)
  BY DEF Lowered
<1>3. X \in SUBSET n.places /\ \A p \in X : ~ IsMonitor(p)
  BY <1>2, PlacesOfLine DEF LinePlaces
<1>4. GainsNothing(s.in, s.out, X)
  BY <1>1, StepGainsNothing
<1>5. \A p \in X : /\ n.Pre[p][t] = IF p \in s.in THEN 1 ELSE 0
                   /\ n.Post[t][p] = IF p \in s.out THEN 1 ELSE 0
  BY <1>1, <1>2, <1>3
<1>6. M \in [n.places -> Nat]
  BY <1>2
<1> HIDE DEF n, X
<1> QED
  BY <1>3, <1>4, <1>5, <1>6, FiringGainsNothing DEF n, X

-----------------------------------------------------------------------------
(* Graphs that are started once, in which dependencies form no cycle, and  *)
(* two of them come together at a join and nowhere else.                   *)
StartsAtRoots(g) ==
  \A t \in DOMAIN g.start : g.start[t] <= 1 /\ TiesInto(g, t) = {}

JoinsAtJoins(g) ==
  /\ \A e, f \in EdgesOf(g) :
       Ties(e) /\ Ties(f) /\ e.target = f.target /\ ~ IsControl(g, e.target) =>
         e.source = f.source
  /\ \A n \in DOMAIN g.node : IsControl(g, n) => TiesInto(g, n) # {}

Ranks(g) ==
  {rank \in [DOMAIN g.node -> Nat] :
     \A e \in EdgesOf(g) : Ties(e) => rank[e.source] < rank[e.target]}

StartedOnce(g) == StartsAtRoots(g) /\ JoinsAtJoins(g) /\ Ranks(g) # {}

(* A way back from every node to a root.                                   *)
WaysBack(g) ==
  {par \in [DOMAIN g.node -> DOMAIN g.node] :
     \A n \in DOMAIN g.node : IF TiesInto(g, n) = {} THEN par[n] = n
                              ELSE \E e \in TiesInto(g, n) : par[n] = e.source}

(* The nodes on the way back from m.                                       *)
ClosedBack(g, par, S) == S \subseteq DOMAIN g.node /\ \A x \in S : par[x] \in S
Back(g, par, m) ==
  {x \in DOMAIN g.node :
     \A S \in SUBSET DOMAIN g.node : ClosedBack(g, par, S) /\ m \in S => x \in S}

LEMMA BackIsClosed ==
  ASSUME NEW g, NEW par \in WaysBack(g), NEW m \in DOMAIN g.node
  PROVE  /\ m \in Back(g, par, m) /\ ClosedBack(g, par, Back(g, par, m))
         /\ \A S : ClosedBack(g, par, S) /\ m \in S => Back(g, par, m) \subseteq S
<1>1. par \in [DOMAIN g.node -> DOMAIN g.node]
  BY DEF WaysBack
<1>2. \A S : ClosedBack(g, par, S) => S \in SUBSET DOMAIN g.node
  BY DEF ClosedBack
<1>3. m \in Back(g, par, m)
  BY DEF Back
<1>4. \A S : ClosedBack(g, par, S) /\ m \in S => Back(g, par, m) \subseteq S
  BY <1>2 DEF Back
<1>5. ASSUME NEW x \in Back(g, par, m) PROVE par[x] \in Back(g, par, m)
  <2>1. x \in DOMAIN g.node /\ par[x] \in DOMAIN g.node
    BY <1>1 DEF Back
  <2>2. ASSUME NEW S \in SUBSET DOMAIN g.node, ClosedBack(g, par, S), m \in S
        PROVE  par[x] \in S
    BY <2>2 DEF Back, ClosedBack
  <2> QED
    BY <2>1, <2>2 DEF Back
<1>6. Back(g, par, m) \subseteq DOMAIN g.node
  BY DEF Back
<1> QED
  BY <1>3, <1>4, <1>5, <1>6 DEF ClosedBack

(* Nothing between a node and the one before it, and ranks fall.           *)
LEMMA BackGoesBack ==
  ASSUME NEW g, NEW par \in WaysBack(g), NEW m \in DOMAIN g.node,
         NEW rank \in Ranks(g)
  PROVE  /\ Back(g, par, m) \subseteq {m} \cup Back(g, par, par[m])
         /\ \A x \in Back(g, par, m) : rank[x] <= rank[m]
<1>1. par[m] \in DOMAIN g.node
  BY DEF WaysBack
<1>2. par[m] \in Back(g, par, par[m]) /\ ClosedBack(g, par, Back(g, par, par[m]))
  BY <1>1, BackIsClosed
<1>3. ClosedBack(g, par, {m} \cup Back(g, par, par[m]))
  BY <1>2 DEF ClosedBack
<1>4. Back(g, par, m) \subseteq {m} \cup Back(g, par, par[m])
  BY <1>3, BackIsClosed
<1> DEFINE Low == {x \in DOMAIN g.node : rank[x] <= rank[m]}
<1>5. rank \in [DOMAIN g.node -> Nat] /\ par \in [DOMAIN g.node -> DOMAIN g.node]
  BY DEF Ranks, WaysBack
<1>6. ASSUME NEW x \in DOMAIN g.node PROVE rank[par[x]] <= rank[x]
  <2>1. CASE TiesInto(g, x) = {}
    BY <1>5, <2>1 DEF WaysBack
  <2>2. CASE TiesInto(g, x) # {}
    <3>1. PICK e \in TiesInto(g, x) : par[x] = e.source
      BY <2>2 DEF WaysBack
    <3>2. rank[e.source] < rank[x]
      BY <3>1 DEF Ranks, TiesInto
    <3> QED
      BY <1>5, <3>1, <3>2
  <2> QED
    BY <2>1, <2>2
<1>7. ClosedBack(g, par, Low) /\ m \in Low
  <2>1. ASSUME NEW x \in Low PROVE par[x] \in Low
    BY <1>5, <1>6
  <2>2. m \in Low
    BY <1>5
  <2> QED
    BY <2>1, <2>2 DEF ClosedBack
<1>8. Back(g, par, m) \subseteq Low
  BY <1>7, BackIsClosed
<1> QED
  BY <1>4, <1>8

(* Of two nodes on the way back, one is behind the other.                  *)
LEMMA BackIsALine ==
  ASSUME NEW g, NEW par \in WaysBack(g), NEW m \in DOMAIN g.node, Ranks(g) # {},
         NEW x \in Back(g, par, m), NEW y \in Back(g, par, m)
  PROVE  x \in Back(g, par, y) \/ y \in Back(g, par, x)
<1>1. PICK rank \in Ranks(g) : TRUE
  OBVIOUS
<1> DEFINE R == Back(g, par, m)
           S == {z \in R : \A v \in R : z \in Back(g, par, v) \/ v \in Back(g, par, z)}
<1>2. m \in R /\ ClosedBack(g, par, R)
  BY BackIsClosed
<1>3. R \subseteq DOMAIN g.node
  BY <1>2 DEF ClosedBack
<1>4. m \in S
  BY <1>2
<1>5. ASSUME NEW z \in S PROVE par[z] \in S
  <2>1. par[z] \in R
    BY <1>2 DEF ClosedBack
  <2>2. ASSUME NEW v \in R PROVE par[z] \in Back(g, par, v) \/ v \in Back(g, par, par[z])
    <3>1. v \in DOMAIN g.node /\ ClosedBack(g, par, Back(g, par, v)) /\ v \in Back(g, par, v)
      BY <1>3, BackIsClosed
    <3>2. z \in Back(g, par, v) => par[z] \in Back(g, par, v)
      BY <3>1 DEF ClosedBack
    <3>3. Back(g, par, z) \subseteq {z} \cup Back(g, par, par[z])
      BY <1>3, BackGoesBack, <1>1
    <3>4. z \in Back(g, par, v) \/ v \in Back(g, par, z)
      OBVIOUS
    <3> QED
      BY <3>1, <3>2, <3>3, <3>4
  <2> QED
    BY <2>1, <2>2
<1>6. ClosedBack(g, par, S)
  BY <1>3, <1>5 DEF ClosedBack
<1>7. R \subseteq S
  BY <1>4, <1>6, BackIsClosed
<1> QED
  BY <1>7

LEMMA BackIsLine ==
  ASSUME NEW g, IsGraph(g), ControlsApart(g), JoinsAtJoins(g), Ranks(g) # {},
         NEW par \in WaysBack(g), NEW m \in DOMAIN g.node
  PROVE  Line(g, Back(g, par, m))
<1> DEFINE R == Back(g, par, m)
<1>1. m \in R /\ ClosedBack(g, par, R)
  BY BackIsClosed
<1>2. R \subseteq DOMAIN g.node /\ \A x \in R : par[x] \in R
  BY <1>1 DEF ClosedBack
<1>3. PICK rank \in Ranks(g) : TRUE
  OBVIOUS
<1>4. ASSUME NEW e \in EdgesOf(g), Ties(e), e.target \in R, ~ IsControl(g, e.target)
      PROVE  e.source = par[e.target]
  <2>1. e \in TiesInto(g, e.target)
    BY <1>4 DEF TiesInto
  <2>2. PICK f \in TiesInto(g, e.target) : par[e.target] = f.source
    BY <1>2, <1>4, <2>1 DEF WaysBack
  <2> QED
    BY <1>4, <2>2 DEF JoinsAtJoins, TiesInto
<1>5. ASSUME NEW x \in R, NEW y \in R, par[x] = par[y], rank[par[x]] < rank[x],
             x \in Back(g, par, y)
      PROVE  x = y
  <2>1. Back(g, par, y) \subseteq {y} \cup Back(g, par, par[y])
    BY <1>2, BackGoesBack
  <2>2. par[y] \in DOMAIN g.node
    BY <1>2
  <2>3. \A z \in Back(g, par, par[y]) : rank[z] <= rank[par[y]]
    BY <2>2, BackGoesBack
  <2>4. rank[x] \in Nat /\ rank[par[x]] \in Nat
    BY <1>2 DEF Ranks
  <2> QED
    BY <1>5, <2>1, <2>3, <2>4
<1>6. ASSUME NEW e \in EdgesOf(g), Ties(e), e.source \in R, e.target \in R,
             IsControl(g, e.source)
      PROVE  /\ \E f \in TiesInto(g, e.source) : f.source \in R /\ ~ IsControl(g, f.source)
             /\ \A f \in TiesFrom(g, e.source) : f.target \in R => f.target = e.target
  <2>1. PICK f \in TiesInto(g, e.source) : par[e.source] = f.source
    BY <1>2, <1>6 DEF WaysBack, JoinsAtJoins
  <2>2. f.source \in R /\ ~ IsControl(g, f.source)
    BY <1>2, <1>6, <2>1 DEF TiesInto, ControlsApart
  <2>3. ~ IsControl(g, e.target)
    BY <1>6 DEF ControlsApart
  <2>4. ASSUME NEW d \in TiesFrom(g, e.source), d.target \in R
        PROVE  d.target = e.target
    <3>1. d \in EdgesOf(g) /\ Ties(d) /\ d.source = e.source /\ ~ IsControl(g, d.target)
      BY <1>6 DEF TiesFrom, ControlsApart
    <3>2. par[d.target] = e.source /\ par[e.target] = e.source
      BY <1>4, <1>6, <2>3, <2>4, <3>1
    <3>3. rank[e.source] < rank[d.target] /\ rank[e.source] < rank[e.target]
      BY <1>6, <3>1 DEF Ranks
    <3>4. d.target \in Back(g, par, e.target) \/ e.target \in Back(g, par, d.target)
      BY <1>6, <2>4, BackIsALine
    <3> QED
      BY <1>5, <1>6, <2>4, <3>2, <3>3, <3>4
  <2> QED
    BY <2>1, <2>2, <2>4
<1>7. ASSUME NEW e \in EdgesOf(g), Ties(e), e.target \in R, ~ IsControl(g, e.target)
      PROVE  e.source \in R
  BY <1>2, <1>4, <1>7
<1> HIDE DEF R
<1>8. Line(g, R)
  BY <1>6, <1>7 DEF Line
<1> QED
  BY <1>8 DEF R

(* A line of this kind starts with at most one token: it has one root.     *)
LEMMA OneTokenAtFirst ==
  ASSUME NEW g, IsGraph(g), IsNet(Lowered(g)), StartedOnce(g),
         NEW par \in WaysBack(g), NEW m \in DOMAIN g.node
  PROVE  Tokens(Lowered(g).M0, LinePlaces(g, Back(g, par, m))) <= 1
<1> DEFINE R == Back(g, par, m)
           X == LinePlaces(g, R)
           M == Lowered(g).M0
<1>1. M = [p \in PlacesOf(g) |-> InitialTokens(g, p)] /\ Lowered(g).places = PlacesOf(g)
  BY DEF Lowered
<1>2. X \subseteq PlacesOf(g)
  BY DEF LinePlaces
<1>3. IsFiniteSet(X) /\ \A p \in X : M[p] \in Nat
  BY <1>1, <1>2, FS_Subset DEF IsNet
<1>4. ASSUME NEW p \in X, M[p] # 0
      PROVE  \E t \in R : p = Chain(t, 0) /\ M[p] <= 1 /\ par[t] = t
  <2>1. PICK n \in R : \/ n \in Tasks(g) /\ \E k : p = Chain(n, k)
                       \/ n \notin Tasks(g) /\ ~ IsControl(g, n) /\ p = Empty(n)
    BY DEF LinePlaces
  <2>2. InitialTokens(g, p) # 0 /\ M[p] = InitialTokens(g, p)
    BY <1>1, <1>2, <1>4
  <2>3. p # Empty(n)
    BY <2>2 DEF InitialTokens, Empty
  <2>4. PICK k : p = Chain(n, k)
    BY <2>1, <2>3
  <2>5. p[1] = "chain" /\ p[2] = n /\ p[3] = k
    BY <2>4 DEF Chain
  <2>6. k = 0 /\ n \in DOMAIN g.start /\ InitialTokens(g, p) = g.start[n]
    BY <2>2, <2>5 DEF InitialTokens
  <2>7. g.start[n] <= 1 /\ TiesInto(g, n) = {} /\ n \in DOMAIN g.node
    BY <2>6 DEF StartedOnce, StartsAtRoots, Back
  <2>8. par[n] = n
    BY <2>7 DEF WaysBack
  <2> QED
    BY <2>2, <2>4, <2>6, <2>7, <2>8
<1>5. ASSUME NEW t \in R, NEW u \in R, par[t] = t, par[u] = u PROVE t = u
  <2>1. t \in DOMAIN g.node /\ u \in DOMAIN g.node
    BY DEF Back
  <2>2. ClosedBack(g, par, {t}) /\ ClosedBack(g, par, {u})
    BY <1>5, <2>1 DEF ClosedBack
  <2>3. Back(g, par, t) \subseteq {t} /\ Back(g, par, u) \subseteq {u}
    BY <2>1, <2>2, BackIsClosed
  <2>4. t \in Back(g, par, u) \/ u \in Back(g, par, t)
    BY BackIsALine DEF StartedOnce
  <2> QED
    BY <2>3, <2>4
<1> HIDE DEF X, M, R
<1>6. CASE \A p \in X : M[p] = 0
  <2>1. Tokens(M, X) = 0
    BY <1>3, <1>6, NoTokens
  <2> QED
    BY <2>1 DEF M, X, R
<1>7. CASE \E p \in X : M[p] # 0
  <2>1. PICK p \in X : M[p] # 0
    BY <1>7
  <2> DEFINE rest == X \ {p}
  <2>2. ASSUME NEW q \in rest PROVE M[q] = 0
    <3>1. q \in X /\ q # p
      OBVIOUS
    <3> QED
      BY <1>4, <1>5, <2>1, <3>1
  <2>3. IsFiniteSet(rest)
    BY <1>3, FS_Subset
  <2>4. Tokens(M, X) = M[p] + Tokens(M, rest)
    BY <1>3, TokensSplit
  <2> HIDE DEF rest
  <2>5. Tokens(M, rest) = 0
    BY <2>2, <2>3, NoTokens
  <2>6. M[p] <= 1 /\ M[p] \in Nat
    BY <1>3, <1>4, <2>1
  <2>7. Tokens(M, X) <= 1
    BY <2>4, <2>5, <2>6
  <2> QED
    BY <2>7 DEF M, X, R
<1> QED
  BY <1>6, <1>7

(* A dependency lies on one way back.                                      *)
LEMMA WayBackOver ==
  ASSUME NEW g, IsGraph(g), NEW e \in EdgesOf(g), NEW f \in EdgesOf(g),
         Ties(e), Ties(f), JoinsAtJoins(g), ~ IsControl(g, f.target),
         e = f \/ (e.target = f.source /\ IsControl(g, e.target))
  PROVE  \E par \in WaysBack(g) : e.source \in Back(g, par, f.target)
<1> DEFINE Before(n) == IF n = f.source /\ e # f THEN e
                        ELSE IF n = f.target THEN f ELSE CHOOSE d \in TiesInto(g, n) : TRUE
           par == [n \in DOMAIN g.node |->
                     IF TiesInto(g, n) = {} THEN n ELSE Before(n).source]
<1>1. \A d \in EdgesOf(g) : d.source \in DOMAIN g.node /\ d.target \in DOMAIN g.node
  BY DEF IsGraph
<1>2. f.source # f.target
  BY DEF Ties, IsSelfLoop
<1>3. ASSUME NEW n \in DOMAIN g.node, TiesInto(g, n) # {}
      PROVE  Before(n) \in TiesInto(g, n)
  <2>1. CASE n = f.source /\ e # f
    BY <2>1 DEF TiesInto
  <2>2. CASE n = f.target /\ ~ (n = f.source /\ e # f)
    BY <2>2 DEF TiesInto
  <2>3. CASE n # f.target /\ ~ (n = f.source /\ e # f)
    BY <1>3, <2>3
  <2> QED
    BY <2>1, <2>2, <2>3
<1>4. \A n \in DOMAIN g.node : par[n] \in DOMAIN g.node
  <2> SUFFICES ASSUME NEW n \in DOMAIN g.node PROVE par[n] \in DOMAIN g.node
    OBVIOUS
  <2>1. CASE TiesInto(g, n) = {}
    BY <2>1
  <2>2. CASE TiesInto(g, n) # {}
    <3>1. par[n] = Before(n).source /\ Before(n) \in EdgesOf(g)
      BY <1>3, <2>2 DEF TiesInto
    <3> HIDE DEF par, Before
    <3> QED
      BY <1>1, <3>1
  <2> QED
    BY <2>1, <2>2
<1>5. \A n \in DOMAIN g.node : IF TiesInto(g, n) = {} THEN par[n] = n
                               ELSE par[n] = Before(n).source
  OBVIOUS
<1>6. par \in [DOMAIN g.node -> DOMAIN g.node]
  BY <1>4
<1>7. TiesInto(g, f.target) # {} /\ (e # f => TiesInto(g, f.source) # {})
  BY DEF TiesInto
<1>8. par[f.target] = f.source
  <2>1. Before(f.target) = f
    BY <1>2
  <2> HIDE DEF Before
  <2> QED
    BY <1>1, <1>5, <1>7, <2>1
<1>9. e # f => par[f.source] = e.source
  <2>1. e # f => Before(f.source) = e
    OBVIOUS
  <2> HIDE DEF Before
  <2> QED
    BY <1>1, <1>5, <1>7, <2>1
<1> HIDE DEF par, Before
<1>10. par \in WaysBack(g)
  BY <1>3, <1>5, <1>6 DEF WaysBack
<1>11. f.target \in Back(g, par, f.target) /\ ClosedBack(g, par, Back(g, par, f.target))
  BY <1>1, <1>10, BackIsClosed
<1>12. f.source \in Back(g, par, f.target)
  BY <1>8, <1>11 DEF ClosedBack
<1>13. e.source \in Back(g, par, f.target)
  BY <1>9, <1>11, <1>12 DEF ClosedBack
<1> QED
  BY <1>10, <1>13

(* The inductive invariant: a line that starts with at most one token      *)
(* never has more.                                                         *)
LineInv ==
  /\ IInv
  /\ tdg \in Graphs /\ ~ Throws(tdg) /\ net = Lowered(tdg)
  /\ tdg.periodic = <<>> =>
       \A R \in SUBSET DOMAIN tdg.node :
          Line(tdg, R) /\ Tokens(Lowered(tdg).M0, LinePlaces(tdg, R)) <= 1 =>
            Tokens(marking, LinePlaces(tdg, R)) <= 1

LEMMA InitLineInv == LoweredInit => LineInv
<1> SUFFICES ASSUME LoweredInit PROVE LineInv
  OBVIOUS
<1>1. IInv
  BY InitIInv DEF LoweredInit
<1>2. tdg \in Graphs /\ ~ Throws(tdg) /\ net = Lowered(tdg) /\ marking = Lowered(tdg).M0
  BY DEF LoweredInit, Init
<1> QED
  BY <1>1, <1>2 DEF LineInv

LEMMA FireLineInv ==
  ASSUME NEW t \in net.transitions
  PROVE  LineInv /\ LoweredFire(t) => LineInv'
<1> SUFFICES ASSUME LineInv, LoweredFire(t) PROVE LineInv'
  OBVIOUS
<1>1. IInv'
  BY FireIInv DEF LineInv, LoweredFire
<1>2. /\ tdg' = tdg /\ net' = net /\ marking' = FireMarking(marking, net, t)
      /\ t \in Active
  BY DEF LoweredFire, Fire, After, IsFirable
<1>3. /\ tdg \in Graphs /\ ~ Throws(tdg) /\ net = Lowered(tdg)
      /\ IsGraph(tdg) /\ IsNet(Lowered(tdg))
  BY GraphsAssumption, NetIsWellFormed DEF LineInv, IInv
<1>4. IsEnabled(marking, Lowered(tdg), t) /\ t \in Lowered(tdg).transitions
  BY <1>2, <1>3, SchedulerSelects DEF Active, StructEnabled
<1>5. marking \in [PlacesOf(tdg) -> Nat]
  <2>1. Lowered(tdg).places = PlacesOf(tdg)
    BY DEF Lowered
  <2> QED
    BY <1>3, <2>1 DEF LineInv, IInv, TypeOK
<1>6. ControlsApart(tdg)
  BY <1>3 DEF Throws, ControlsApart
<1>7. ASSUME tdg.periodic = <<>>, NEW R \in SUBSET DOMAIN tdg.node, Line(tdg, R),
             Tokens(Lowered(tdg).M0, LinePlaces(tdg, R)) <= 1
      PROVE  Tokens(FireMarking(marking, Lowered(tdg), t), LinePlaces(tdg, R)) <= 1
  <2>1. Tokens(marking, LinePlaces(tdg, R)) <= 1
    BY <1>7 DEF LineInv
  <2> QED
    BY <1>3, <1>4, <1>5, <1>6, <1>7, <2>1, FiringKeepsLine
<1> QED
  BY <1>1, <1>2, <1>3, <1>7 DEF LineInv

THEOREM LineInvariance == LoweredSpec => []LineInv
<1>1. LineInv /\ [LoweredNext]_loweredVars => LineInv'
  <2>1. ASSUME LineInv, LoweredElapse PROVE LineInv'
    BY <2>1, ElapseIInv DEF LineInv, LoweredElapse, Elapse
  <2>2. ASSUME LineInv, UNCHANGED loweredVars PROVE LineInv'
    <3>1. UNCHANGED vars /\ tdg' = tdg /\ net' = net /\ marking' = marking
      BY <2>2 DEF loweredVars, vars
    <3> QED
      BY <2>2, <3>1, StutterIInv DEF LineInv
  <2> QED
    BY <2>1, <2>2, FireLineInv DEF LoweredNext
<1> QED
  BY InitLineInv, <1>1, PTL DEF LoweredSpec

(* A node that is occupied has a token on its line.                        *)
LEMMA AllPlacesAreThere ==
  ASSUME NEW g, IsGraph(g), NEW t \in Tasks(g), NEW q \in 0 .. 3 * NumLocks(g, t) + 2
  PROVE  At(t, q) \in PlacesOf(g)
<1>1. \A s \in ToSet(Steps(g)) : s.in \cup s.out \subseteq PlacesOf(g)
  BY DEF PlacesOf
<1>2. \A i \in Positions(g, t) : ChainStep(g, t, 2 * i - 1) \in ToSet(Steps(g))
  BY StepsAre
<1>3. NumLocks(g, t) \in Nat
  BY TasksAreFinite
<1>4. CASE q = 0
  <2>1. 1 \in Positions(g, t)
    BY <1>3 DEF Positions
  <2>2. At(t, 1 - 1) \in ChainStep(g, t, 2 * 1 - 1).in
    BY <2>1, ChainStepArcs
  <2> QED
    BY <1>1, <1>2, <1>4, <2>1, <2>2
<1>5. CASE q # 0
  <2>1. q \in Positions(g, t)
    BY <1>3, <1>5 DEF Positions
  <2>2. At(t, q) \in ChainStep(g, t, 2 * q - 1).out
    BY <2>1, ChainStepArcs
  <2> QED
    BY <1>1, <1>2, <2>1, <2>2
<1> QED
  BY <1>4, <1>5

LEMMA OccupiedPlace ==
  ASSUME IsGraph(tdg), IsFiniteSet(PlacesOf(tdg)), marking \in [PlacesOf(tdg) -> Nat],
         NEW R \in SUBSET DOMAIN tdg.node, NEW n \in R, n \in PlainNodes, Occupies(n)
  PROVE  \E p \in LinePlaces(tdg, R) :
           marking[p] # 0 /\ IF n \in Tasks(tdg) THEN \E k : p = Chain(n, k) ELSE p = Empty(n)
<1>1. CASE n \in Tasks(tdg)
  <2>1. Tokens(marking, ChainPlaces(n)) > 0
    BY <1>1 DEF Occupies, Tasks
  <2>2. ASSUME NEW p \in ChainPlaces(n)
        PROVE  p \in PlacesOf(tdg) /\ \E k : p = Chain(n, k)
    <3>1. PICK k \in {i \in 0 .. ChainLength(tdg, n) - 1 : i % 2 = 0} : p = Chain(n, k)
      BY DEF ChainPlaces
    <3> DEFINE l == NumLocks(tdg, n)
               q == k \div 2
    <3>2. l \in Nat
      BY <1>1, TasksAreFinite
    <3>3. k \in 0 .. 6 * l + 4 /\ k % 2 = 0
      <4>1. ChainLength(tdg, n) = 6 * l + 5 /\ k \in 0 .. ChainLength(tdg, n) - 1
        BY <3>1 DEF ChainLength
      <4> HIDE DEF l
      <4> QED
        BY <3>1, <3>2, <4>1
    <3>4. q \in 0 .. 3 * l + 2 /\ k = 2 * q
      <4> HIDE DEF l
      <4> QED
        BY <3>2, <3>3
    <3> HIDE DEF q
    <3>5. p = At(n, q)
      BY <3>1, <3>4 DEF At
    <3> QED
      BY <1>1, <3>1, <3>4, <3>5, AllPlacesAreThere
  <2>3. IsFiniteSet(ChainPlaces(n))
    BY <2>2, FS_Subset
  <2>4. PICK p \in ChainPlaces(n) : marking[p] # 0
    <3> SUFFICES ASSUME \A p \in ChainPlaces(n) : marking[p] = 0 PROVE FALSE
      OBVIOUS
    <3>1. Tokens(marking, ChainPlaces(n)) = 0
      BY <2>3, NoTokens
    <3> QED
      BY <2>1, <3>1
  <2>5. PICK k : p = Chain(n, k)
    BY <2>2
  <2>6. p \in LinePlaces(tdg, R)
    BY <1>1, <2>2, <2>5, PlacesOfLine
  <2> QED
    BY <1>1, <2>4, <2>5, <2>6
<1>2. CASE n \notin Tasks(tdg)
  <2>1. ~ IsControl(tdg, n) /\ ~ IsTask(tdg, n) /\ n \in DOMAIN tdg.node
    BY <1>2 DEF PlainNodes, Tasks
  <2>2. KindOf(tdg, n) = "empty"
    BY <2>1 DEF IsGraph, IsControl, IsTask
  <2>3. Empty(n) \in PlacesOf(tdg)
    BY <2>1, <2>2 DEF PlacesOf
  <2>4. Empty(n) \in LinePlaces(tdg, R)
    BY <1>2, <2>1, <2>3, PlacesOfLine
  <2>5. marking[Empty(n)] > 0
    BY <2>1 DEF Occupies
  <2> QED
    BY <1>2, <2>4, <2>5
<1> QED
  BY <1>1, <1>2

LEMMA PrecedenceHolds == LineInv /\ StartedOnce(tdg) => PrecedenceRespected
<1> SUFFICES ASSUME LineInv, StartedOnce(tdg), tdg.periodic = <<>>,
                    NEW n \in PlainNodes, NEW m \in PlainNodes, Precede(n, m),
                    Occupies(n), Occupies(m)
             PROVE  FALSE
  BY DEF PrecedenceRespected
<1>1. /\ IsGraph(tdg) /\ IsNet(Lowered(tdg)) /\ ControlsApart(tdg)
      /\ marking \in [PlacesOf(tdg) -> Nat] /\ IsFiniteSet(PlacesOf(tdg))
  <2>1. IsGraph(tdg) /\ IsNet(net) /\ net = Lowered(tdg) /\ marking \in [net.places -> Nat]
    BY GraphsAssumption, NetIsWellFormed DEF LineInv, IInv, TypeOK
  <2>2. net.places = PlacesOf(tdg)
    BY <2>1 DEF Lowered
  <2> QED
    BY <2>1, <2>2 DEF LineInv, IsNet, Throws, ControlsApart
<1>2. PICK e \in EdgesOf(tdg), f \in EdgesOf(tdg) :
        /\ Ties(e) /\ Ties(f) /\ e.source = n /\ f.target = m
        /\ e = f \/ (e.target = f.source /\ IsControl(tdg, e.target))
  BY DEF Precede
<1>3. ~ IsControl(tdg, m) /\ n \in DOMAIN tdg.node /\ m \in DOMAIN tdg.node
  BY DEF PlainNodes
<1>4. PICK par \in WaysBack(tdg) : n \in Back(tdg, par, m)
  BY <1>1, <1>2, <1>3, WayBackOver DEF StartedOnce
<1> DEFINE R == Back(tdg, par, m)
           X == LinePlaces(tdg, R)
<1>5. m \in R /\ R \in SUBSET DOMAIN tdg.node
  BY <1>3, BackIsClosed DEF Back
<1>6. Line(tdg, R) /\ Tokens(Lowered(tdg).M0, X) <= 1
  BY <1>1, <1>3, BackIsLine, OneTokenAtFirst DEF StartedOnce
<1>7. n # m
  <2>1. PICK rank \in Ranks(tdg) : TRUE
    BY DEF StartedOnce
  <2>2. rank[e.source] < rank[e.target] /\ rank[f.source] < rank[f.target]
    BY <1>2, <2>1 DEF Ranks
  <2>3. \A d \in EdgesOf(tdg) : d.source \in DOMAIN tdg.node /\ d.target \in DOMAIN tdg.node
    BY <1>1 DEF IsGraph
  <2>4. \A x \in DOMAIN tdg.node : rank[x] \in Nat
    BY <2>1 DEF Ranks
  <2> QED
    BY <1>2, <2>2, <2>3, <2>4
<1> HIDE DEF R
<1>8. Tokens(marking, X) <= 1
  BY <1>5, <1>6 DEF LineInv
<1>9. PICK p \in X : marking[p] # 0 /\ IF n \in Tasks(tdg) THEN \E k : p = Chain(n, k)
                                                          ELSE p = Empty(n)
  BY <1>1, <1>4, <1>5, OccupiedPlace DEF R
<1>10. PICK q \in X : marking[q] # 0 /\ IF m \in Tasks(tdg) THEN \E k : q = Chain(m, k)
                                                           ELSE q = Empty(m)
  BY <1>1, <1>5, OccupiedPlace
<1>11. p # q
  <2>1. p[2] = n /\ q[2] = m
    BY <1>9, <1>10 DEF Chain, Empty
  <2> QED
    BY <1>7, <2>1
<1>12. IsFiniteSet(X) /\ \A r \in X : marking[r] \in Nat
  BY <1>1, FS_Subset DEF LinePlaces
<1>13. Tokens(marking, X) \in Nat
  BY <1>12, TokensSplit
<1> HIDE DEF X
<1>14. marking[p] + marking[q] <= Tokens(marking, X)
  BY <1>11, <1>12, TokensCover
<1> QED
  BY <1>8, <1>9, <1>10, <1>12, <1>13, <1>14

(* Precedence, for every graph that is started once and whose dependencies *)
(* are acyclic and come together at joins only: a node never runs while    *)
(* one it depends on does, whatever the policy, the cores, the locks and   *)
(* the preemptions.  With two starts on a path, or two edges into a task,  *)
(* it would: transform gives the task one place for both.                  *)
THEOREM PrecedenceIsRespected ==
  LoweredSpec => [](StartedOnce(tdg) => PrecedenceRespected)
<1>1. LineInv => (StartedOnce(tdg) => PrecedenceRespected)
  BY PrecedenceHolds
<1> QED
  BY <1>1, LineInvariance, PTL

-----------------------------------------------------------------------------
(* Releases.  The sequence of the first steps is no longer than the whole. *)
LEMMA FlattenGrows ==
  ASSUME NEW n \in Nat, NEW i \in 0 .. n, NEW front, NEW seqs,
         front = [j \in 1 .. i |-> seqs[j]], seqs = [j \in 1 .. n |-> seqs[j]],
         \A j \in 1 .. n : IsSequence(seqs[j])
  PROVE  Len(FlattenSeq(front)) <= Len(FlattenSeq(seqs))
<1>1. Len(front) = i /\ Len(seqs) = n
  <2>1. front \in [1 .. i -> ToSet(front)] /\ seqs \in [1 .. n -> ToSet(seqs)]
    <3>1. DOMAIN front = 1 .. i /\ DOMAIN seqs = 1 .. n
      OBVIOUS
    <3> QED
      BY <3>1 DEF ToSet
  <2> QED
    BY <2>1, SeqDef, LenProperties
<1>2. IsSequence(FlattenSeq(seqs))
  BY FlattenedElements
<1>3. Len(FlattenSeq(seqs)) \in Nat
  BY <1>2, LenProperties DEF IsSequence
<1>4. CASE i = 0
  <2>1. FlattenSeq(front) = front
    BY <1>1, <1>4 DEF FlattenSeq
  <2> QED
    BY <1>1, <1>3, <1>4, <2>1
<1>5. CASE i # 0
  <2>1. n # 0 /\ i \in 1 .. n /\ i \in Nat
    BY <1>5
  <2>2. PICK f : Flattens(seqs, n, f) /\ FlattenSeq(seqs) = f[n]
    BY <1>1, <2>1, FlattenIsFold, FlattenIsDefined
  <2>3. PICK e : Flattens(front, i, e) /\ FlattenSeq(front) = e[i]
    BY <1>1, <1>5, <2>1, FlattenIsFold, FlattenIsDefined
  <2>4. /\ \A j \in 1 .. n : f[j] = IF j = 1 THEN seqs[j] ELSE f[j - 1] \o seqs[j]
        /\ \A j \in 1 .. i : e[j] = IF j = 1 THEN front[j] ELSE e[j - 1] \o front[j]
    BY <2>2, <2>3 DEF Flattens
  <2>5. \A j \in 1 .. i : front[j] = seqs[j] /\ j \in 1 .. n
    OBVIOUS
  <2> DEFINE Apart == {j \in 1 .. n : ~ (IsSequence(f[j]) /\ (j <= i => f[j] = e[j])
                                         /\ (j >= i => Len(f[j]) >= Len(e[i])))}
  <2>6. Apart = {}
    <3> SUFFICES ASSUME Apart # {} PROVE FALSE
      OBVIOUS
    <3>1. PICK k \in Apart : \A j \in Apart : k <= j
      <4>1. Apart \in SUBSET Nat
        OBVIOUS
      <4> HIDE DEF Apart
      <4> QED
        BY <4>1, LeastNatural
    <3>2. k \in 1 .. n
      OBVIOUS
    <3>3. CASE k = 1
      <4>1. f[k] = seqs[k] /\ IsSequence(f[k]) /\ k <= i
        BY <2>1, <2>4, <3>2, <3>3
      <4>2. f[k] = e[k]
        BY <2>4, <2>5, <3>3, <4>1
      <4>3. Len(f[k]) \in Nat
        BY <4>1, LenProperties DEF IsSequence
      <4>4. k >= i => Len(f[k]) >= Len(e[i])
        BY <3>3, <4>1, <4>2, <4>3
      <4> QED
        BY <4>1, <4>2, <4>4
    <3>4. CASE k # 1
      <4>1. k - 1 \in 1 .. n /\ k - 1 \notin Apart
        BY <3>1, <3>2, <3>4
      <4>2. /\ IsSequence(f[k - 1]) /\ (k - 1 <= i => f[k - 1] = e[k - 1])
            /\ (k - 1 >= i => Len(f[k - 1]) >= Len(e[i]))
        BY <4>1
      <4>3. f[k] = f[k - 1] \o seqs[k] /\ IsSequence(seqs[k])
        BY <2>4, <3>2, <3>4
      <4>4. IsSequence(f[k])
        BY <4>2, <4>3, JoinedElements
      <4>5. ASSUME k <= i PROVE f[k] = e[k]
        <5>1. k \in 1 .. i /\ k - 1 <= i
          BY <3>2, <4>5
        <5> QED
          BY <2>4, <2>5, <3>4, <4>2, <4>3, <5>1
      <4>6. /\ Len(f[k]) = Len(f[k - 1]) + Len(seqs[k])
            /\ Len(f[k - 1]) \in Nat /\ Len(seqs[k]) \in Nat /\ Len(f[k]) \in Nat
        <5> DEFINE V == ToSet(f[k - 1]) \cup ToSet(seqs[k])
        <5>1. f[k - 1] \in Seq(V) /\ seqs[k] \in Seq(V)
          BY <4>2, <4>3, SeqMonotonic DEF IsSequence
        <5> HIDE DEF V
        <5> QED
          BY <4>3, <5>1, ConcatProperties, LenProperties
      <4>7. ASSUME k >= i PROVE Len(f[k]) >= Len(e[i])
        <5>1. CASE k = i
          BY <4>5, <4>6, <5>1
        <5>2. CASE k # i
          <6>1. k - 1 >= i
            BY <3>2, <4>7, <5>2
          <6>2. e[i] = f[i] /\ i \in 1 .. n /\ i \notin Apart
            <7>1. i < k
              BY <3>2, <4>7, <5>2
            <7>2. i \notin Apart
              BY <3>1, <3>2, <7>1
            <7> QED
              BY <2>1, <7>2
          <6>3. Len(e[i]) \in Nat
            BY <6>2, LenProperties DEF IsSequence
          <6> QED
            BY <4>2, <4>6, <6>1, <6>3
        <5> QED
          BY <5>1, <5>2
      <4> QED
        BY <4>4, <4>5, <4>7
    <3> QED
      BY <3>3, <3>4
  <2>7. n \in 1 .. n /\ n >= i /\ n \notin Apart
    BY <2>1, <2>6
  <2>8. Len(f[n]) >= Len(e[i])
    BY <2>7
  <2>9. i \notin Apart
    BY <2>6
  <2>10. Len(e[i]) \in Nat
    BY <2>1, <2>9, LenProperties DEF IsSequence
  <2> HIDE DEF Apart
  <2> QED
    BY <1>3, <2>2, <2>3, <2>8, <2>10
<1> QED
  BY <1>4, <1>5

(* Only releases touch the places of the periods.                          *)
LEMMA NoPeriodPlaces ==
  ASSUME NEW g, NEW s, NEW x,
         \/ StepOfChain(g, s) \/ TakeoverStep(g, s) \/ ForkStep(g, s)
         \/ TieStep(g, s) \/ MonitorStep(g, s) \/ ConsumeStep(g, s)
  PROVE  Period(x) \notin s.in \cup s.out
<1>1. \A y, k : /\ Period(x) # Chain(y, k) /\ Period(x) # Empty(y)
                /\ Period(x) # Core(y) /\ Period(x) # Lock(y)
                /\ Period(x) # Entry(g, y) /\ Period(x) # Exit(g, y)
  BY DEF Period, Chain, Empty, Core, Lock, Entry, Exit
<1>2. ~ IsMonitor(Period(x))
  BY DEF IsMonitor, Monitor, Period
<1>3. CASE StepOfChain(g, s)
  <2>1. PICK u \in Tasks(g) : \E i \in Positions(g, u) : s = ChainStep(g, u, 2 * i - 1)
    BY <1>3 DEF StepOfChain
  <2>2. PICK i \in Positions(g, u) : s = ChainStep(g, u, 2 * i - 1)
    BY <2>1
  <2> DEFINE k == 2 * i - 1
  <2> HIDE DEF k
  <2>3. /\ s.in = {Chain(u, k - 1)} \cup CoreTaken(g, u, k) \cup {Lock(l) : l \in AcquiredAt(g, u, k)}
        /\ s.out = {Chain(u, k + 1)} \cup CoreGiven(g, u, k) \cup {Lock(l) : l \in ReleasedAt(g, u, k)}
    BY <2>2 DEF ChainStep, k
  <2>4. CoreTaken(g, u, k) \cup CoreGiven(g, u, k) \subseteq {Core(g.node[u].core)}
    BY DEF CoreTaken, CoreGiven
  <2> QED
    BY <1>1, <2>3, <2>4
<1>4. CASE TakeoverStep(g, s)
  BY <1>1, <1>4 DEF TakeoverStep, Takeover
<1>5. CASE ForkStep(g, s)
  <2>1. PICK n \in DOMAIN g.node : s = ForkOrJoin(g, n)
    BY <1>5 DEF ForkStep
  <2>2. /\ \A p \in s.in : \E y : p = Exit(g, y)
        /\ \A p \in s.out : \E y : p = Entry(g, y)
    BY <2>1 DEF ForkOrJoin, JoinsAllOf
  <2> QED
    BY <1>1, <2>2
<1>6. CASE TieStep(g, s)
  BY <1>1, <1>6 DEF TieStep, ControlStep
<1>7. CASE MonitorStep(g, s)
  BY <1>1, <1>2, <1>7 DEF MonitorStep
<1>8. CASE ConsumeStep(g, s)
  BY <1>1, <1>8 DEF ConsumeStep, ControlStep
<1> QED
  BY <1>3, <1>4, <1>5, <1>6, <1>7, <1>8

(* The releases come after all the steps a stray arc can lead to.          *)
LEMMA ReleasesComeLate ==
  ASSUME NEW g, IsGraph(g), ~ Throws(g),
         NEW t \in 0 .. Len(Steps(g)) - 1, NEW x, Period(x) \in Steps(g)[t + 1].in
  PROVE  \A p : <<p, t>> \notin StrayArcs(g)
<1> DEFINE n == Len(g.edges)
           A == VertexSteps(g)
           B == StepsOfEdges(g, n)
           C == ReleaseSteps(g)
           D == ConsumeSteps(g)
           E == RestartSteps(g)
<1>1. /\ IsSequence(A) /\ IsSequence(B) /\ IsSequence(C) /\ IsSequence(D) /\ IsSequence(E)
      /\ \A s \in ToSet(A) : StepOfChain(g, s) \/ ForkStep(g, s)
      /\ \A s \in ToSet(B) : TieStep(g, s) \/ MonitorStep(g, s)
  BY VertexStepsAre, StepsOfEdgesAre, ReleaseStepsAre, ConsumeStepsAre, RestartStepsAre
<1>2. Steps(g) = A \o B \o C \o D \o E
  BY DEF Steps
<1>7. Len(A) \in Nat /\ Len(B) \in Nat
  BY <1>1, LenProperties DEF IsSequence
<1> HIDE DEF A, B, C, D, E
<1>8. IsSequence(A \o B) /\ ToSet(A \o B) = ToSet(A) \cup ToSet(B)
  BY <1>1, JoinedElements
<1>9. IsSequence(A \o B \o C)
  BY <1>1, <1>8, JoinedElements
<1>10. IsSequence(A \o B \o C \o D)
  BY <1>1, <1>9, JoinedElements
<1>11. ASSUME NEW s, NEW u, IsSequence(s), IsSequence(u), NEW i \in 1 .. Len(s)
       PROVE  (s \o u)[i] = s[i] /\ Len(s) <= Len(s \o u)
  <2> DEFINE V == ToSet(s) \cup ToSet(u)
  <2>1. s \in Seq(V) /\ u \in Seq(V)
    BY <1>11, SeqMonotonic DEF IsSequence
  <2> HIDE DEF V
  <2>2. Len(s) \in Nat /\ Len(u) \in Nat
    BY <2>1, LenProperties
  <2> QED
    BY <2>1, <2>2, ConcatProperties
<1>12. t >= Len(A \o B)
  <2> SUFFICES ASSUME t < Len(A \o B) PROVE FALSE
    BY <1>8, LenProperties DEF IsSequence
  <2>1. t + 1 \in 1 .. Len(A \o B) /\ Len(A \o B) \in Nat
    BY <1>8, LenProperties DEF IsSequence
  <2>2. (A \o B \o C)[t + 1] = (A \o B)[t + 1] /\ t + 1 \in 1 .. Len(A \o B \o C)
    BY <1>1, <1>8, <1>9, <1>11, <2>1, LenProperties DEF IsSequence
  <2>3. (A \o B \o C \o D)[t + 1] = (A \o B)[t + 1] /\ t + 1 \in 1 .. Len(A \o B \o C \o D)
    BY <1>1, <1>9, <1>10, <1>11, <2>2, LenProperties DEF IsSequence
  <2>4. Steps(g)[t + 1] = (A \o B)[t + 1]
    BY <1>1, <1>2, <1>10, <1>11, <2>3
  <2>5. (A \o B)[t + 1] \in ToSet(A \o B)
    BY <1>8, <2>1, LenProperties DEF IsSequence, ToSet
  <2> QED
    BY <1>1, <1>8, <2>4, <2>5, NoPeriodPlaces
<1>13. Len(A \o B) = Len(A) + Len(B)
  <2> DEFINE V == ToSet(A) \cup ToSet(B)
  <2>1. A \in Seq(V) /\ B \in Seq(V)
    BY <1>1, SeqMonotonic DEF IsSequence
  <2> HIDE DEF V
  <2> QED
    BY <2>1, ConcatProperties
<1>14. ASSUME NEW i \in SelfLoops(g), OkIndex(g, i) = t
       PROVE  FALSE
  <2>1. ~ (t >= Len(A) + Len(StepsOfEdges(g, i)))
    BY <1>14 DEF Throws, A
  <2>2. n \in Nat /\ i \in 1 .. n /\ \A j \in 1 .. n : g.edges[j] \in EdgesOf(g)
    BY LenProperties DEF IsGraph, IsSequence, SelfLoops, EdgesOf, ToSet
  <2> DEFINE front == [j \in 1 .. i |-> EdgeSteps(g, j)]
             whole == [j \in 1 .. n |-> EdgeSteps(g, j)]
  <2>3. /\ StepsOfEdges(g, i) = FlattenSeq(front) /\ B = FlattenSeq(whole)
        /\ \A j \in 1 .. n : whole[j] = EdgeSteps(g, j)
        /\ \A j \in 1 .. i : front[j] = EdgeSteps(g, j)
        /\ whole = [j \in 1 .. n |-> whole[j]] /\ front = [j \in 1 .. i |-> front[j]]
    BY DEF StepsOfEdges, B
  <2> HIDE DEF front, whole, n
  <2>4. /\ \A j \in 1 .. n : IsSequence(whole[j])
        /\ \A j \in 1 .. i : IsSequence(front[j]) /\ front[j] = whole[j]
    <3>1. \A j \in 1 .. i : j \in 1 .. n
      BY <2>2
    <3>2. \A j \in 1 .. n : IsSequence(EdgeSteps(g, j))
      BY <2>2, EdgeStepsAre
    <3> QED
      BY <2>3, <3>1, <3>2
  <2>5. front = [j \in 1 .. i |-> whole[j]] /\ i \in 0 .. n /\ i \in Nat
    BY <2>2, <2>3, <2>4
  <2>6. Len(FlattenSeq(front)) <= Len(FlattenSeq(whole))
    BY <2>2, <2>3, <2>4, <2>5, FlattenGrows
  <2>7. IsSequence(FlattenSeq(front))
    BY <2>3, <2>4, <2>5, FlattenedElements
  <2>8. Len(FlattenSeq(front)) \in Nat
    BY <2>7, LenProperties DEF IsSequence
  <2> QED
    BY <1>7, <1>12, <1>13, <2>1, <2>3, <2>6, <2>8
<1> QED
  BY <1>14 DEF StrayArcs

LEMMA PeriodArcs ==
  ASSUME NEW g, IsGraph(g), ~ Throws(g), NEW t \in Lowered(g).transitions,
         NEW x, Period(x) \in PlacesOf(g)
  PROVE  /\ Lowered(g).Pre[Period(x)][t] = Lowered(g).Post[t][Period(x)]
         /\ Lowered(g).Pre[Period(x)][t] \in {0, 1}
         /\ Lowered(g).Pre[Period(x)][t] > 0 =>
                 /\ x \in Released(g)
                 /\ LET period == g.periodic[x].period
                    IN  Lowered(g).interval[t] = Closed(period, period)
                 /\ \A p \in PlacesOf(g) :
                      Lowered(g).Pre[p][t] = IF p = Period(x) THEN 1 ELSE 0
                 /\ Lowered(g).core[t] = ControlCore
                 /\ Lowered(g).priority[t] = ControlPriority
<1> DEFINE S == Steps(g)
           T == 0 .. Len(S) - 1
           P == PlacesOf(g)
           arc(connected) == IF connected THEN 1 ELSE 0
           s == S[t + 1]
<1>1. /\ Lowered(g).transitions = T
      /\ Lowered(g).Pre = [p \in P |-> [u \in T |->
                             arc(p \in S[u + 1].in \/ <<p, u>> \in StrayArcs(g))]]
      /\ Lowered(g).core = [u \in T |-> S[u + 1].core]
      /\ Lowered(g).priority = [u \in T |-> S[u + 1].priority]
      /\ Lowered(g).interval = [u \in T |-> S[u + 1].interval]
  BY DEF Lowered
<1>2. /\ IsStep(g, s)
      /\ Lowered(g).Post[t][Period(x)] = IF Period(x) \in s.out THEN 1 ELSE 0
      /\ Lowered(g).Pre[Period(x)][t] = IF Period(x) \in s.in THEN 1 ELSE 0
  <2>1. ~ IsMonitor(Period(x))
    BY DEF IsMonitor, Monitor, Period
  <2> QED
    BY <2>1, ArcsAre
<1>3. \A p \in P : Lowered(g).Pre[p][t] = arc(p \in s.in \/ <<p, t>> \in StrayArcs(g))
  BY <1>1
<1>4. /\ Lowered(g).core[t] = s.core /\ Lowered(g).priority[t] = s.priority
      /\ Lowered(g).interval[t] = s.interval
  BY <1>1
<1>5. CASE Period(x) \notin s.in /\ Period(x) \notin s.out
  BY <1>2, <1>5
<1>6. CASE Period(x) \in s.in \/ Period(x) \in s.out
  <2>1. ReleaseStep(g, s)
    BY <1>2, <1>6, NoPeriodPlaces DEF IsStep, OuterStep
  <2>2. PICK i \in Released(g) : s = Release(g, i)
    BY <2>1 DEF ReleaseStep
  <2> DEFINE b == g.periodic[i]
  <2>3. /\ s.in = {Period(i)} /\ s.out = {Period(i), Entry(g, b.task)}
        /\ s.core = ControlCore /\ s.priority = ControlPriority
        /\ s.interval = Closed(b.period, b.period)
    BY <2>2 DEF Release, ControlStep
  <2>4. /\ Period(x) # Entry(g, b.task)
        /\ Period(x) = Period(i) => i = x
    BY DEF Period, Entry, Chain, Empty
  <2>5. i = x /\ s.in = {Period(x)} /\ Period(x) \in s.out
    BY <1>6, <2>3, <2>4
  <2>6. \A p : <<p, t>> \notin StrayArcs(g)
    BY <1>1, <2>5, ReleasesComeLate
  <2>7. \A p \in P : Lowered(g).Pre[p][t] = IF p = Period(x) THEN 1 ELSE 0
    BY <1>3, <2>5, <2>6
  <2> HIDE DEF s, P, b
  <2> QED
    BY <1>2, <1>4, <2>3, <2>5, <2>7 DEF P, b
<1> QED
  BY <1>5, <1>6

(* Every binding has a release transition, and a place that starts full.   *)
LEMMA PeriodsAreThere ==
  ASSUME NEW g, IsGraph(g), NEW b \in Released(g)
  PROVE  /\ Period(b) \in PlacesOf(g)
         /\ \E t \in Lowered(g).transitions : Lowered(g).Pre[Period(b)][t] > 0
         /\ Lowered(g).M0[Period(b)] = 1 /\ Lowered(g).capacity[Period(b)] = 1
<1> DEFINE S == Steps(g)
           T == 0 .. Len(S) - 1
           P == PlacesOf(g)
           s == Release(g, b)
           p == Period(b)
<1>1. IsSequence(S) /\ s \in ToSet(S)
  BY StepsAre
<1>2. p \in s.in
  BY DEF Release, ControlStep
<1>3. p \in P
  BY <1>1, <1>2 DEF PlacesOf
<1>4. PICK i \in DOMAIN S : S[i] = s
  BY <1>1 DEF ToSet
<1>5. DOMAIN S = 1 .. Len(S) /\ Len(S) \in Nat
  BY <1>1, LenProperties DEF IsSequence
<1>6. i - 1 \in T /\ S[i - 1 + 1] = s
  <2> HIDE DEF S, s
  <2>1. i \in 1 .. Len(S) /\ i - 1 + 1 = i
    BY <1>5
  <2> QED
    BY <1>4, <1>5, <2>1
<1>7. /\ Lowered(g).transitions = T
      /\ Lowered(g).Pre = [q \in P |-> [u \in T |->
                  IF q \in S[u + 1].in \/ <<q, u>> \in StrayArcs(g) THEN 1 ELSE 0]]
      /\ Lowered(g).M0 = [q \in P |-> InitialTokens(g, q)]
      /\ Lowered(g).capacity = [q \in P |-> CapacityOf(g, q)]
  BY DEF Lowered
<1>8. InitialTokens(g, p) = 1 /\ CapacityOf(g, p) = 1
  <2>1. p[1] = "period"
    BY DEF Period
  <2> HIDE DEF p
  <2> QED
    BY <2>1 DEF InitialTokens, CapacityOf
<1> HIDE DEF S, T, P, p, s
<1>9. Lowered(g).Pre[p][i - 1] = 1
  BY <1>2, <1>3, <1>6, <1>7
<1> QED
  BY <1>3, <1>6, <1>7, <1>8, <1>9 DEF p, P

(* Nothing on the control core comes before a release, if the forks and    *)
(* joins there have no priority of their own.                              *)
YieldsToReleases(g) ==
  \A n \in DOMAIN g.node :
     IsControl(g, n) /\ g.node[n].core = ControlCore => g.node[n].priority <= ControlPriority

LEMMA ControlCoreYields ==
  ASSUME NEW g, IsGraph(g), YieldsToReleases(g), NEW t \in Lowered(g).transitions,
         Lowered(g).core[t] = ControlCore
  PROVE  Lowered(g).priority[t] <= ControlPriority
<1> DEFINE S == Steps(g)
           T == 0 .. Len(S) - 1
           s == S[t + 1]
<1>1. /\ Lowered(g).transitions = T
      /\ Lowered(g).core = [u \in T |-> S[u + 1].core]
      /\ Lowered(g).priority = [u \in T |-> S[u + 1].priority]
  BY DEF Lowered
<1>2. s.core = ControlCore /\ Lowered(g).priority[t] = s.priority
  BY <1>1
<1>3. IsStep(g, s)
  BY ArcsAre
<1>4. ControlPriority <= ControlPriority
  BY DEF ControlPriority
<1>5. \A u \in Tasks(g) : g.node[u].core # ControlCore
  BY DEF IsGraph, ControlCore
<1> HIDE DEF s
<1>6. ~ StepOfChain(g, s)
  BY <1>2, <1>5 DEF StepOfChain, ChainStep
<1>7. ~ TakeoverStep(g, s)
  BY <1>2, <1>5 DEF TakeoverStep, Takeover, Preempts
<1>8. CASE ForkStep(g, s)
  BY <1>2, <1>8 DEF ForkStep, ForkOrJoin, YieldsToReleases
<1>9. CASE TieStep(g, s)
  BY <1>2, <1>4, <1>9 DEF TieStep, ControlStep
<1>10. CASE MonitorStep(g, s)
  BY <1>2, <1>4, <1>10 DEF MonitorStep
<1>11. CASE ReleaseStep(g, s)
  BY <1>2, <1>4, <1>11 DEF ReleaseStep, Release, ControlStep
<1>12. CASE ConsumeStep(g, s)
  BY <1>2, <1>4, <1>12 DEF ConsumeStep, ControlStep
<1> QED
  BY <1>3, <1>6, <1>7, <1>8, <1>9, <1>10, <1>11, <1>12 DEF IsStep, OuterStep

Releases(g, i) == {t \in Lowered(g).transitions : Lowered(g).Pre[Period(i)][t] > 0}

(* A release always has its token, and the scheduler never leaves it out.  *)
LEMMA ReleaseIsActive ==
  ASSUME NEW g, IsGraph(g), ~ Throws(g), YieldsToReleases(g), IsNet(Lowered(g)),
         NEW b \in Released(g),
         NEW M \in [PlacesOf(g) -> Nat], M[Period(b)] = 1,
         NEW r \in Releases(g, b)
  PROVE  r \in StructEnabled(Lowered(g), M) /\ r \in PriorityEnabled(Lowered(g), M)
<1> DEFINE n == Lowered(g)
<1>1. n.places = PlacesOf(g) /\ r \in n.transitions
  BY DEF Lowered, Releases
<1>2. Period(b) \in PlacesOf(g)
  BY PeriodsAreThere
<1>3. /\ \A p \in PlacesOf(g) : n.Pre[p][r] = IF p = Period(b) THEN 1 ELSE 0
      /\ n.core[r] = ControlCore /\ n.priority[r] = ControlPriority
  BY <1>1, <1>2, PeriodArcs DEF Releases
<1>4. \A t \in n.transitions : n.core[t] = ControlCore => n.priority[t] <= ControlPriority
  BY ControlCoreYields
<1> HIDE DEF n
<1>5. \A p \in n.places : M[p] >= n.Pre[p][r]
  BY <1>1, <1>3
<1>6. r \in StructEnabled(n, M)
  BY <1>1, <1>5 DEF StructEnabled, IsEnabled
<1>7. ParallelismOfCore(n, n.core[r]) = 0
  BY <1>3 DEF ParallelismOfCore, ControlCore
<1>8. KeptInUnboundedGroup(n, StructEnabled(n, M), r)
  BY <1>3, <1>4 DEF KeptInUnboundedGroup, CoreGroup, StructEnabled
<1> QED
  BY <1>6, <1>7, <1>8 DEF PriorityEnabled, FilterPriorityPerCore, n

(* The period of a binding is one of those that LoweredRuns counts.        *)
LEMMA BindingsHavePeriods ==
  ASSUME IsGraph(tdg), NEW b \in Released(tdg)
  PROVE  PeriodAt(b) \in Nat \ {0} /\ PeriodAt(b) \in Periods(tdg)
<1>1. b \in DOMAIN tdg.periodic
  BY DEF Released
<1>2. tdg.periodic[b] \in ToSet(tdg.periodic)
  BY <1>1 DEF ToSet
<1> QED
  BY <1>2 DEF IsGraph, Periods, PeriodAt

(* The inductive invariant: the token of a period is always there, and the *)
(* clock of its release is the time since the start modulo the period, or  *)
(* at the period, about to be reset.                                       *)
InStep(r, b) ==
  \/ h[r] = phase[PeriodAt(b)]
  \/ h[r] = PeriodAt(b) /\ phase[PeriodAt(b)] = 0

ReleasesInStep ==
  \A b \in Released(tdg) :
     /\ marking[Period(b)] = 1
     /\ phase[PeriodAt(b)] \in 0 .. PeriodAt(b) - 1
     /\ \A r \in Releases(tdg, b) : InStep(r, b)

DriftInv ==
  /\ IInv
  /\ tdg \in Graphs /\ ~ Throws(tdg) /\ net = Lowered(tdg)
  /\ YieldsToReleases(tdg) => ReleasesInStep

LEMMA InitDriftInv == LoweredInit => DriftInv
<1> SUFFICES ASSUME LoweredInit PROVE DriftInv
  OBVIOUS
<1>1. IInv
  BY InitIInv DEF LoweredInit
<1>2. /\ tdg \in Graphs /\ ~ Throws(tdg) /\ net = Lowered(tdg) /\ marking = Lowered(tdg).M0
      /\ phase = [p \in Periods(tdg) |-> 0] /\ h = [t \in net.transitions |-> 0]
  BY DEF LoweredInit, Init
<1>3. IsGraph(tdg)
  BY <1>2, GraphsAssumption
<1>4. ASSUME NEW b \in Released(tdg)
      PROVE  /\ marking[Period(b)] = 1
             /\ phase[PeriodAt(b)] = 0 /\ PeriodAt(b) \in Nat \ {0}
             /\ \A r \in Releases(tdg, b) : h[r] = 0
  <2>2. marking[Period(b)] = 1
    BY <1>2, <1>3, PeriodsAreThere
  <2>3. PeriodAt(b) \in Periods(tdg) /\ PeriodAt(b) \in Nat \ {0}
    BY <1>3, BindingsHavePeriods
  <2>4. \A r \in Releases(tdg, b) : r \in net.transitions
    BY <1>2 DEF Releases
  <2> QED
    BY <1>2, <2>2, <2>3, <2>4
<1>5. ReleasesInStep
  BY <1>4 DEF ReleasesInStep, InStep
<1> QED
  BY <1>1, <1>2, <1>5 DEF DriftInv

(* What the two kinds of steps need to know of a release.                  *)
LEMMA ReleaseFacts ==
  ASSUME DriftInv, YieldsToReleases(tdg),
         NEW b \in Released(tdg), NEW r \in Releases(tdg, b)
  PROVE  /\ r \in net.transitions /\ r \in Enabled /\ r \in Active
         /\ Latest(net, r) = PeriodAt(b) /\ Earliest(net, r) = PeriodAt(b)
         /\ h[r] \in 0 .. PeriodAt(b) /\ PeriodAt(b) \in Nat \ {0}
         /\ phase[PeriodAt(b)] \in 0 .. PeriodAt(b) - 1 /\ InStep(r, b)
<1>1. /\ tdg \in Graphs /\ ~ Throws(tdg) /\ net = Lowered(tdg)
      /\ IsGraph(tdg) /\ IsNet(Lowered(tdg)) /\ TypeOK /\ WithinLatest
  BY GraphsAssumption, NetIsWellFormed DEF DriftInv, IInv
<1>2. PeriodAt(b) \in Nat \ {0} /\ r \in net.transitions
  BY <1>1, BindingsHavePeriods DEF Releases
<1>3. net.places = PlacesOf(tdg) /\ marking \in [PlacesOf(tdg) -> Nat]
  <2>1. net.places = PlacesOf(tdg)
    BY <1>1 DEF Lowered
  <2> QED
    BY <1>1, <2>1 DEF TypeOK
<1>4. /\ marking[Period(b)] = 1 /\ InStep(r, b)
      /\ phase[PeriodAt(b)] \in 0 .. PeriodAt(b) - 1
  BY DEF DriftInv, ReleasesInStep
<1>5. r \in Enabled /\ r \in Active
  BY <1>1, <1>2, <1>3, <1>4, ReleaseIsActive DEF Enabled, Active
<1>6. net.interval[r] = Closed(PeriodAt(b), PeriodAt(b))
  <2>1. Period(b) \in PlacesOf(tdg)
    BY <1>1, <1>2, PeriodsAreThere
  <2> QED
    BY <1>1, <1>2, <2>1, PeriodArcs DEF Releases, PeriodAt
<1>7. Latest(net, r) = PeriodAt(b) /\ Earliest(net, r) = PeriodAt(b)
  BY <1>6 DEF Latest, Earliest, EffectiveLatest, EffectiveEarliest, Closed
<1>8. h[r] \in Nat /\ h[r] <= PeriodAt(b)
  BY <1>1, <1>2, <1>5, <1>7 DEF TypeOK, WithinLatest
<1> QED
  BY <1>2, <1>4, <1>5, <1>7, <1>8

LEMMA ElapseDriftInv == DriftInv /\ LoweredElapse => DriftInv'
<1> SUFFICES ASSUME DriftInv, LoweredElapse PROVE DriftInv'
  OBVIOUS
<1>1. IInv'
  BY ElapseIInv DEF DriftInv, LoweredElapse
<1>2. /\ tdg' = tdg /\ net' = net /\ marking' = marking
      /\ MayElapse /\ h' = Advanced(h, Active)
      /\ phase' = [p \in Periods(tdg) |-> (phase[p] + 1) % p]
  BY DEF LoweredElapse, Elapse, CanElapse
<1>3. ASSUME YieldsToReleases(tdg), NEW b \in Released(tdg),
             NEW r \in Releases(tdg, b)
      PROVE  /\ phase'[PeriodAt(b)] \in 0 .. PeriodAt(b) - 1
             /\ \/ h'[r] = phase'[PeriodAt(b)]
                \/ h'[r] = PeriodAt(b) /\ phase'[PeriodAt(b)] = 0
  <2>1. /\ r \in net.transitions /\ r \in Active /\ Latest(net, r) = PeriodAt(b)
        /\ h[r] \in 0 .. PeriodAt(b) /\ PeriodAt(b) \in Nat \ {0}
        /\ phase[PeriodAt(b)] \in 0 .. PeriodAt(b) - 1 /\ InStep(r, b)
    BY <1>3, ReleaseFacts
  <2>2. h[r] < PeriodAt(b)
    BY <1>2, <2>1 DEF MayElapse
  <2>3. phase[PeriodAt(b)] = h[r]
    BY <2>1, <2>2 DEF InStep
  <2>4. h'[r] = h[r] + 1
    BY <1>2, <2>1 DEF Advanced
  <2>5. PeriodAt(b) \in Periods(tdg)
    BY GraphsAssumption, BindingsHavePeriods DEF DriftInv
  <2>6. phase'[PeriodAt(b)] = (h[r] + 1) % PeriodAt(b)
    BY <1>2, <2>3, <2>5
  <2> DEFINE p == PeriodAt(b)
             x == h[r] + 1
  <2>7. x \in 1 .. p /\ p \in Nat \ {0} /\ phase'[p] = x % p /\ h'[r] = x
    BY <2>1, <2>2, <2>4, <2>6
  <2> HIDE DEF x, p
  <2>8. CASE x < p
    <3>1. x % p = x
      BY <2>7, <2>8
    <3> QED
      BY <2>7, <2>8, <3>1 DEF p
  <2>9. CASE x = p
    <3>1. x % p = 0
      BY <2>7, <2>9
    <3> QED
      BY <2>7, <2>9, <3>1 DEF p
  <2> QED
    BY <2>7, <2>8, <2>9
<1>4. \A b \in Released(tdg) : \E r : r \in Releases(tdg, b)
  BY GraphsAssumption, PeriodsAreThere DEF Releases, DriftInv
<1>5. YieldsToReleases(tdg) => ReleasesInStep'
  <2> SUFFICES ASSUME YieldsToReleases(tdg) PROVE ReleasesInStep'
    OBVIOUS
  <2>1. /\ Released(tdg)' = Released(tdg) /\ \A b : PeriodAt(b)' = PeriodAt(b)
        /\ \A b : Releases(tdg, b)' = Releases(tdg, b)
    BY <1>2 DEF PeriodAt
  <2>2. ReleasesInStep
    BY DEF DriftInv
  <2> QED
    BY <1>2, <1>3, <1>4, <2>1, <2>2 DEF ReleasesInStep, InStep
<1> QED
  BY <1>1, <1>2, <1>5 DEF DriftInv

LEMMA FireDriftInv ==
  ASSUME NEW t \in net.transitions
  PROVE  DriftInv /\ LoweredFire(t) => DriftInv'
<1> SUFFICES ASSUME DriftInv, LoweredFire(t) PROVE DriftInv'
  OBVIOUS
<1>1. IInv'
  BY FireIInv DEF DriftInv, LoweredFire
<1>2. /\ tdg' = tdg /\ net' = net /\ phase' = phase
      /\ marking' = FireMarking(marking, net, t)
      /\ t \in Active /\ h[t] >= Earliest(net, t) /\ h' = ExecutionAfter(t)
  BY DEF LoweredFire, Fire, After, IsFirable
<1>3. /\ tdg \in Graphs /\ ~ Throws(tdg) /\ net = Lowered(tdg)
      /\ IsGraph(tdg) /\ IsNet(Lowered(tdg)) /\ TypeOK
  BY GraphsAssumption, NetIsWellFormed DEF DriftInv, IInv
<1>4. net.places = PlacesOf(tdg) /\ marking \in [PlacesOf(tdg) -> Nat]
  <2>1. net.places = PlacesOf(tdg)
    BY <1>3 DEF Lowered
  <2> QED
    BY <1>3, <2>1 DEF TypeOK
<1>5. IsEnabled(marking, net, t)
  BY <1>2, <1>3, SchedulerSelects DEF Active, StructEnabled
<1>6. marking' \in [PlacesOf(tdg) -> Nat]
  BY <1>2, <1>3, <1>4, <1>5, FiringKeepsTokens
<1>7. ASSUME NEW b \in Released(tdg), marking[Period(b)] = 1
      PROVE  marking'[Period(b)] = 1
  <2> DEFINE p == Period(b)
  <2>1. p \in net.places /\ net.capacity[p] = 1
    BY <1>3, <1>4, PeriodsAreThere
  <2>2. net.Pre[p][t] = net.Post[t][p] /\ net.Pre[p][t] \in {0, 1}
    BY <1>3, <1>4, <2>1, PeriodArcs
  <2>3. marking'[p] = IF Overflows(marking, net, t, p) THEN net.capacity[p]
                      ELSE Produced(marking, net, t, p)
    BY <1>2, <2>1 DEF FireMarking
  <2> HIDE DEF p
  <2>4. marking[p] = 1
    BY <1>7 DEF p
  <2>5. marking'[p] = 1
    BY <2>1, <2>2, <2>3, <2>4 DEF Produced
  <2> QED
    BY <2>5 DEF p
<1>8. ASSUME YieldsToReleases(tdg), NEW b \in Released(tdg),
             NEW r \in Releases(tdg, b)
      PROVE  \/ h'[r] = phase[PeriodAt(b)]
             \/ h'[r] = PeriodAt(b) /\ phase[PeriodAt(b)] = 0
  <2>1. /\ r \in net.transitions /\ r \in Enabled /\ Earliest(net, r) = PeriodAt(b)
        /\ h[r] \in 0 .. PeriodAt(b) /\ PeriodAt(b) \in Nat \ {0}
        /\ phase[PeriodAt(b)] \in 0 .. PeriodAt(b) - 1 /\ InStep(r, b)
    BY <1>8, ReleaseFacts
  <2>2. marking[Period(b)] = 1
    BY <1>8 DEF DriftInv, ReleasesInStep
  <2>3. r \in StructEnabled(net, After(t))
    <3>1. marking'[Period(b)] = 1
      BY <1>7, <2>2
    <3>3. \A M \in [PlacesOf(tdg) -> Nat] :
             M[Period(b)] = 1 => r \in StructEnabled(net, M)
      BY <1>3, <1>8, ReleaseIsActive
    <3>4. marking' = After(t)
      BY <1>2 DEF After
    <3> QED
      BY <1>6, <3>1, <3>3, <3>4
  <2>4. h'[r] = IF r # t THEN h[r] ELSE 0
    BY <1>2, <2>1, <2>3 DEF ExecutionAfter, Surviving
  <2>5. CASE r = t
    <3>1. h[r] = PeriodAt(b)
      BY <1>2, <2>1, <2>5
    <3> QED
      BY <2>1, <2>4, <2>5, <3>1 DEF InStep
  <2>6. CASE r # t
    BY <2>1, <2>4, <2>6 DEF InStep
  <2> QED
    BY <2>5, <2>6
<1>9. YieldsToReleases(tdg) => ReleasesInStep'
  <2> SUFFICES ASSUME YieldsToReleases(tdg) PROVE ReleasesInStep'
    OBVIOUS
  <2>1. /\ Released(tdg)' = Released(tdg) /\ \A b : PeriodAt(b)' = PeriodAt(b)
        /\ \A b : Releases(tdg, b)' = Releases(tdg, b)
    BY <1>2 DEF PeriodAt
  <2>2. ReleasesInStep
    BY DEF DriftInv
  <2> QED
    BY <1>2, <1>7, <1>8, <2>1, <2>2 DEF ReleasesInStep, InStep
<1> QED
  BY <1>1, <1>2, <1>3, <1>9 DEF DriftInv

THEOREM DriftInvariance == LoweredSpec => []DriftInv
<1>1. DriftInv /\ [LoweredNext]_loweredVars => DriftInv'
  <2>1. ASSUME DriftInv, UNCHANGED loweredVars PROVE DriftInv'
    <3>1. /\ UNCHANGED vars /\ tdg' = tdg /\ net' = net /\ marking' = marking
          /\ h' = h /\ phase' = phase
      BY <2>1 DEF loweredVars, vars
    <3>2. IInv'
      BY <2>1, <3>1, StutterIInv DEF DriftInv
    <3>3. ReleasesInStep => ReleasesInStep'
      BY <3>1 DEF ReleasesInStep, InStep, PeriodAt
    <3> QED
      BY <2>1, <3>1, <3>2, <3>3 DEF DriftInv
  <2> QED
    BY <2>1, ElapseDriftInv, FireDriftInv DEF LoweredNext
<1> QED
  BY InitDriftInv, <1>1, PTL DEF LoweredSpec

LEMMA DriftInvSuffices ==
  DriftInv /\ YieldsToReleases(tdg) => NoReleaseDrift
<1> SUFFICES ASSUME DriftInv, YieldsToReleases(tdg),
                    NEW b \in Released(tdg)
             PROVE  h[ReleaseOf(b)] % PeriodAt(b) = phase[PeriodAt(b)]
  BY DEF NoReleaseDrift, PeriodAt
<1> DEFINE r == ReleaseOf(b)
           p == PeriodAt(b)
<1>1. \E t \in net.transitions : net.Pre[Period(b)][t] > 0
  BY GraphsAssumption, PeriodsAreThere DEF DriftInv
<1>2. r \in Releases(tdg, b)
  BY <1>1 DEF ReleaseOf, Releases, DriftInv
<1>3. /\ h[r] \in 0 .. p /\ p \in Nat \ {0} /\ phase[p] \in 0 .. p - 1
      /\ h[r] = phase[p] \/ (h[r] = p /\ phase[p] = 0)
  BY <1>2, ReleaseFacts DEF InStep
<1> DEFINE x == h[r]
<1>4. x \in 0 .. p /\ p \in Nat \ {0} /\ (x = phase[p] \/ (x = p /\ phase[p] = 0))
      /\ phase[p] \in 0 .. p - 1
  BY <1>3
<1> HIDE DEF x, p
<1>5. x < p => x % p = x
  BY <1>4
<1>6. p % p = 0
  BY <1>4
<1>7. x % p = phase[p]
  BY <1>4, <1>5, <1>6
<1> QED
  BY <1>7 DEF x, p

(* Releases come without drift in every run of every graph with no fork or *)
(* join on the control core that takes precedence over the releases:       *)
(* whatever the tasks do, the locks, the preemptions and other releases of *)
(* the same task, the clock of a release is in step with the time.         *)
THEOREM ReleasesNeverDrift ==
  LoweredSpec => [](YieldsToReleases(tdg) => NoReleaseDrift)
<1>1. DriftInv => (YieldsToReleases(tdg) => NoReleaseDrift)
  BY DriftInvSuffices
<1> QED
  BY <1>1, DriftInvariance, PTL
=============================================================================
