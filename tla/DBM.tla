--------------------------------- MODULE DBM ---------------------------------
(***************************************************************************)
(* Difference bound matrices, src/src/analysis/dbm.cpp: the operations the *)
(* state-class engine uses.  A matrix is a function D over S \X S for a    *)
(* finite set S of variables with the reference variable Zero in it;       *)
(* D[i, j] bounds x_i - x_j from above and INF means "no bound".  The      *)
(* engine never freezes a clock of a matrix, so frozen_clocks_ is empty    *)
(* throughout and not represented.                                         *)
(***************************************************************************)
EXTENDS Integers, FiniteSetsExt

CONSTANTS INF,    \* INF_TIME, the largest machine integer
          Zero    \* the reference variable x0

IntMin == -INF - 1

-----------------------------------------------------------------------------
(* Variant: two's complement addition.                                     *)
WrappingAdd(a, b) ==
  IF a = INF \/ b = INF THEN INF
  ELSE ((a + b - IntMin) % (2 * (INF + 1))) + IntMin

(* Addition saturates: above to "no bound", below to the smallest integer. *)
SafeAdd(a, b) ==
  IF a = INF \/ b = INF THEN INF
  ELSE IF b > 0 /\ a > INF - b THEN INF
  ELSE IF b < 0 /\ a < IntMin - b THEN IntMin
  ELSE a + b

Smaller(a, b) == IF a < b THEN a ELSE b

(* The constructor: clocks are non-negative and otherwise unconstrained.   *)
NewDBM(S) ==
  [p \in S \X S |-> IF p[1] = p[2] \/ p[1] = Zero THEN 0 ELSE INF]

(* Round k of minimize: a bound may improve by going through variable k.   *)
(* The code updates in place; while the diagonal is zero, row k and column *)
(* k are fixed points of round k and the in-place round is this one.       *)
RelaxVia(k, D) ==
  [p \in DOMAIN D |->
     LET left == D[<<p[1], k>>]
         right == D[<<k, p[2]>>]
     IN  IF left = INF \/ right = INF THEN D[p]
         ELSE Smaller(D[p], SafeAdd(left, right))]

(* The comparison makes TLC evaluate the round once, as a whole matrix.    *)
Whole(E, D) == IF E = D THEN D ELSE E
Relax(k, D) == Whole(RelaxVia(k, D), D)

(* DBM::minimize, the all-pairs closure.                                   *)
Minimize(S, D) == FoldSet(Relax, D, S)

NegativeDiagonal(S, D) == \E i \in S : D[<<i, i>>] < 0

(* Variant: only column j is closed again.                                 *)
TightenColumn(D, i, j, b) ==
  [p \in DOMAIN D |->
     IF p[2] # j \/ D[<<p[1], i>>] = INF THEN D[p]
     ELSE Smaller(D[p], SafeAdd(D[<<p[1], i>>], b))]

(* DBM::tighten: adds x_i - x_j <= b to a closed matrix and closes it      *)
(* again along i -> j only.  `nonempty` is the value it returns.           *)
TightenVia(D, i, j, b) ==
  [p \in DOMAIN D |->
     LET left == SafeAdd(D[<<p[1], i>>], b)
         right == D[<<j, p[2]>>]
     IN  IF D[<<p[1], i>>] = INF \/ left = INF \/ right = INF THEN D[p]
         ELSE Smaller(D[p], SafeAdd(left, right))]

Tighten(S, D, i, j, b) ==
  LET old == D[<<i, j>>]
      opposite == D[<<j, i>>]
      tightened == [D EXCEPT ![<<i, j>>] = b]
      closed == TightenVia(tightened, i, j, b)
  IN  IF old # INF /\ old <= b
      THEN [nonempty |-> TRUE, zone |-> D]
      ELSE IF opposite # INF /\ SafeAdd(b, opposite) < 0
      THEN [nonempty |-> FALSE,
            zone |-> [tightened EXCEPT ![<<i, i>>] = SafeAdd(b, opposite)]]
      ELSE [nonempty |-> ~ NegativeDiagonal(S, closed), zone |-> closed]

(* Variant: lower bounds are left alone.                                   *)
RelaxAbove(b, k) == IF b = INF \/ b > k THEN INF ELSE b

(* DBM::extrapolate: bounds above k are dropped, bounds below -k raised.   *)
RelaxBound(b, k) ==
  IF b = INF \/ b > k THEN INF ELSE IF b < -k THEN -k ELSE b

Extrapolate(S, D, k) ==
  LET E == [p \in DOMAIN D |-> IF p[1] = p[2] THEN D[p] ELSE RelaxBound(D[p], k)]
  IN  IF k < 0 \/ E = D THEN D ELSE Minimize(S, E)

IncludedFromOne(D, E) ==          \* variant: row 0, the lower bounds, skipped
  \A p \in DOMAIN D :
    p[1] = Zero \/ E[p] = INF \/ (D[p] # INF /\ D[p] <= E[p])

(* DBM::included_in, both matrices closed and over the same variables.     *)
IncludedIn(D, E) ==
  \A p \in DOMAIN D : E[p] = INF \/ (D[p] # INF /\ D[p] <= E[p])

-----------------------------------------------------------------------------
(* The meaning of a matrix: the valuations of its variables that satisfy   *)
(* every bound.                                                            *)
Satisfies(v, D) ==
  \A p \in DOMAIN D : D[p] = INF \/ v[p[1]] - v[p[2]] <= D[p]
=============================================================================
