---------------------------- MODULE ZoneLibrary ----------------------------
(***************************************************************************)
(* The operations of the class DBM (src/src/analysis/dbm.cpp) that the     *)
(* state-class engine does not call: a caller changes one matrix with      *)
(* them, and every result is compared with the set of valuations it has to *)
(* stand for.  Here clocks come and go and may be frozen, which the engine *)
(* does outside of the matrix; variables are numbered 0 .. n - 1.          *)
(***************************************************************************)
EXTENDS DBM, Sequences, FiniteSetsExt

CONSTANTS MaxClocks,            \* no more clocks are added than this
          Starts,               \* the matrices a caller starts with, closed
          Delays, Values,       \* arguments of operations
          Half                  \* no finite bound is larger; valuations are
                                \* compared up to Half and counted up to Box

ASSUME LibraryAssumption == Zero = 0 /\ INF \in Nat /\ Half \in Nat

VARIABLES zone,     \* the matrix
          frozen,   \* frozen_clocks_
          status,   \* "closed"; "open" if it has to be closed again, "past" if
                    \* clocks may be negative, "empty" if no valuation is left
          points    \* the valuations zone has to stand for

vars == <<zone, frozen, status, points>>

Box == 2 * Half
Indices(D) == {p[1] : p \in DOMAIN D}
Clocks == Indices(zone) \ {Zero}

Valuations(S, top) == {v \in [S -> 0 .. top] : v[Zero] = 0}
Meaning(D) == {v \in Valuations(Indices(D), Half) : Satisfies(v, D)}
All(D) == {v \in Valuations(Indices(D), Box) : Satisfies(v, D)}

-----------------------------------------------------------------------------
(* The operations, on a matrix D with frozen clocks F.                     *)
Closed(D) == Minimize(Indices(D), D)
IsEmpty(D) == NegativeDiagonal(Indices(D), Closed(D))

ElapseLowerOnly(D, F, delta) ==  \* variant: upper bounds stay where they are
  Closed([p \in DOMAIN D |->
            IF p[1] = Zero /\ p[2] \notin F \cup {Zero} THEN SafeAdd(D[p], -delta) ELSE D[p]])

ElapseTime(D, F, delta) ==
  Closed([p \in DOMAIN D |->
            CASE p[2] = Zero /\ p[1] \notin F \cup {Zero} -> SafeAdd(D[p], delta)
              [] p[1] = Zero /\ p[2] \notin F \cup {Zero} -> SafeAdd(D[p], -delta)
              [] OTHER -> D[p]])

(* future drops the lower bounds: what it reaches lies in the past.        *)
Future(D, F) ==
  Closed([p \in DOMAIN D |-> IF p[1] = Zero /\ p[2] \notin F \cup {Zero} THEN INF ELSE D[p]])

ResetRowOnly(D, c) ==            \* variant: the column of c keeps its old bounds
  [p \in DOMAIN D |-> IF p[1] = c /\ p[2] # c THEN D[<<Zero, p[2]>>] ELSE D[p]]

ResetClock(D, c) ==
  Closed([p \in DOMAIN D |->
            CASE p[1] = c /\ p[2] = c -> 0
              [] p[1] = c /\ p[2] # c -> D[<<Zero, p[2]>>]
              [] p[1] # c /\ p[2] = c -> D[<<p[1], Zero>>]
              [] OTHER -> D[p]])

ForgetClock(D, c) ==
  Closed([p \in DOMAIN D |-> IF c \notin {p[1], p[2]} THEN D[p]
                             ELSE IF p[2] = c /\ p[1] \in {c, Zero} THEN 0 ELSE INF])

Intersection(D, E) == Closed([p \in DOMAIN D |-> Smaller(D[p], E[p])])

(* The code answers an empty zone with DBM(0), of which is_empty is false;  *)
(* this module counts it as the empty zone it is meant to be.              *)
NoClocks == [p \in {} |-> 0]

RestrictClock(D, c, alpha, beta) ==
  LET R == Closed([D EXCEPT ![<<Zero, c>>] = IF alpha > -@ THEN -alpha ELSE @,
                            ![<<c, Zero>>] = Smaller(@, beta)])
  IN  IF NegativeDiagonal(Indices(R), R) THEN NoClocks ELSE R

(* A clock without an upper bound does not get one.                        *)
ConstrainUpperBound(D, c, beta) ==
  IF D[<<c, Zero>>] = INF THEN D ELSE Closed([D EXCEPT ![<<c, Zero>>] = Smaller(@, beta)])

(* Bounds between the clocks are replaced, tighter ones too.               *)
SynchronizeClocks(D, C) ==
  Closed([p \in DOMAIN D |-> IF {p[1], p[2]} \subseteq C THEN 0 ELSE D[p]])

Beyond(c, i) == IF i < c THEN i ELSE i + 1

RemoveClock(D, c) ==
  LET n == Cardinality(Indices(D)) - 1
  IN  [p \in (0 .. n - 1) \X (0 .. n - 1) |-> D[<<Beyond(c, p[1]), Beyond(c, p[2])>>]]

ShiftedFrozen(F, c) == {IF i < c THEN i ELSE i - 1 : i \in F \ {c}}

(* resize, by one: the new clock has no bounds but the lower one.          *)
AddClock(D) ==
  LET n == Cardinality(Indices(D))
  IN  [p \in (0 .. n) \X (0 .. n) |->
         IF n \notin {p[1], p[2]} THEN D[p]
         ELSE IF p[2] = n /\ p[1] \in {n, Zero} THEN 0 ELSE INF]

CopyClockConstraints(D, c, target) ==
  [p \in DOMAIN target |-> IF c \in {p[1], p[2]} THEN D[p] ELSE target[p]]

(* extrapolate leaves the rows and columns of frozen clocks alone.         *)
ExtrapolateAll(D, F, k) == Extrapolate(Indices(D), D, k)           \* variant
ExtrapolateRunning(D, F, k) ==
  LET E == [p \in DOMAIN D |-> IF p[1] = p[2] \/ {p[1], p[2]} \cap F # {} THEN D[p]
                               ELSE RelaxBound(D[p], k)]
  IN  IF E = D THEN D ELSE Closed(E)

(* contains compares in the direction of included_in.                      *)
Contains(D, F, E, G) == F = G /\ \A p \in DOMAIN D : E[p] # INF => D[p] <= E[p]

(* operator<: the first bound that differs, in row order, decides.         *)
LessInfFirst(D, F, E, G) ==      \* variant: no bound is the smallest bound
  LET differing == {p \in DOMAIN D : D[p] # E[p]}
      offset(p) == p[1] * Cardinality(Indices(D)) + p[2]
      first == CHOOSE p \in differing : \A r \in differing : offset(p) <= offset(r)
  IN  /\ differing # {}
      /\ D[first] = INF \/ D[first] < E[first]

(* Frozen clocks decide last, in the lexicographic order of sets.          *)
Less(D, F, E, G) ==
  LET differing == {p \in DOMAIN D : D[p] # E[p]}
      offset(p) == p[1] * Cardinality(Indices(D)) + p[2]
      first == CHOOSE p \in differing : \A r \in differing : offset(p) <= offset(r)
      clock == Min((F \ G) \cup (G \ F))
      goesOn(S) == \E c \in S : c > clock
  IN  IF differing # {} THEN D[first] # INF /\ (E[first] = INF \/ D[first] < E[first])
      ELSE F # G /\ (IF clock \in F THEN goesOn(G) ELSE ~ goesOn(F))

-----------------------------------------------------------------------------
(* A caller.  An operation is applied to a closed matrix; its result has   *)
(* to stand for the valuations `meant`.                                    *)
Init ==
  /\ zone \in Starts
  /\ frozen = {}
  /\ status = "closed"
  /\ points = Meaning(zone)

WithinHalf(D) == \A p \in DOMAIN D : D[p] = INF \/ D[p] \in -Half .. Half

Yields(newZone, newFrozen, newStatus, meant) ==
  /\ WithinHalf(newZone)
  /\ zone' = newZone
  /\ frozen' = newFrozen
  /\ status' = IF newZone = NoClocks \/ IsEmpty(newZone) THEN "empty" ELSE newStatus
  /\ points' = meant

Apply(newZone, newFrozen, newStatus, meant) ==
  status = "closed" /\ Yields(newZone, newFrozen, newStatus, meant)

Near == Valuations(Indices(zone), Half)
Shifted(v, d) == [i \in DOMAIN v |-> IF i = Zero THEN 0 ELSE v[i] + d]

(* With a frozen clock, elapse_time and future leave the bounds between it *)
(* and the running ones as they are; what that means is left open.         *)
Elapse(d) ==
  LET result == ElapseTime(zone, frozen, d)
  IN  Apply(result, frozen, "closed",
            IF frozen = {} THEN {v \in Near : Shifted(v, -d) \in All(zone)} ELSE Meaning(result))

GoBack ==
  LET result == Future(zone, frozen)
  IN  Apply(result, frozen, "past",
            IF frozen = {} THEN {v \in Near : \E d \in 0 .. Half : Shifted(v, d) \in All(zone)}
                           ELSE Meaning(result))

Reset(c) ==
  Apply(ResetClock(zone, c), frozen, "closed",
        {v \in Near : v[c] = 0 /\ \E u \in All(zone) : v = [u EXCEPT ![c] = 0]})

Forget(c) ==
  Apply(ForgetClock(zone, c), frozen \ {c}, "closed",
        {v \in Near : \E u \in All(zone) : v = [u EXCEPT ![c] = v[c]]})

(* The result of intersection has no frozen clock; clocks are not negative *)
(* in E, so intersection also leads back from the past.                    *)
Intersect(E) ==
  /\ status \in {"closed", "past"}
  /\ Indices(E) = Indices(zone)
  /\ Yields(Intersection(zone, E), {}, "closed", Meaning(zone) \cap Meaning(E))

RestrictTo(c, alpha, beta) ==
  Apply(RestrictClock(zone, c, alpha, beta), frozen, "closed",
        {v \in Meaning(zone) : alpha <= v[c] /\ v[c] <= beta})

Constrain(c, beta) ==
  Apply(ConstrainUpperBound(zone, c, beta), frozen, "closed",
        {v \in Meaning(zone) : v[c] <= beta \/ zone[<<c, Zero>>] = INF})

(* Clocks that cannot be equal are made equal all the same.                *)
Synchronize ==
  LET result == SynchronizeClocks(zone, Clocks)
      equal(v) == \A c, d \in Clocks : v[c] = v[d]
  IN  Apply(result, frozen, "closed",
            IF \E v \in All(zone) : equal(v) THEN {v \in Meaning(zone) : equal(v)}
                                            ELSE Meaning(result))

Freeze(c) == Apply(zone, frozen \cup {c}, "closed", Meaning(zone))
Unfreeze(c) == Apply(zone, frozen \ {c}, "closed", Meaning(zone))

Without(v, c) == [i \in 0 .. Cardinality(DOMAIN v) - 2 |-> v[Beyond(c, i)]]

Remove(c) ==
  LET result == RemoveClock(zone, c)
  IN  Apply(result, ShiftedFrozen(frozen, c), "closed",
            {Without(v, c) : v \in All(zone)} \cap Valuations(Indices(result), Half))

Add ==
  LET result == AddClock(zone)
  IN  /\ Cardinality(Clocks) < MaxClocks
      /\ Apply(result, frozen, "open",
               {v \in Valuations(Indices(result), Half) :
                  Without(v, Cardinality(Indices(zone))) \in Meaning(zone)})

(* Copied into an unconstrained matrix, the bounds of c leave the other    *)
(* clocks related only to it.                                              *)
Copy(c) ==
  Apply(CopyClockConstraints(zone, c, NewDBM(Indices(zone))), frozen \cap {c}, "open",
        {v \in Near : \A d \in Indices(zone) :
           \E u \in All(zone) : u[c] - u[d] = v[c] - v[d]})

Widen(k) ==
  LET result == ExtrapolateRunning(zone, frozen, k)
  IN  Apply(result, frozen, "closed", Meaning(result))

CloseAgain ==
  /\ status = "open"
  /\ Yields(Closed(zone), frozen, "closed", Meaning(zone))

Next ==
  \/ \E d \in Delays : Elapse(d)
  \/ GoBack
  \/ \E c \in Clocks : Reset(c) \/ Forget(c) \/ Freeze(c) \/ Unfreeze(c) \/ Remove(c) \/ Copy(c)
  \/ \E E \in Starts : Intersect(E)
  \/ \E c \in Clocks, alpha \in Values, beta \in Values \cup {INF} : RestrictTo(c, alpha, beta)
  \/ \E c \in Clocks, beta \in Values \cup {INF} : Constrain(c, beta)
  \/ Synchronize
  \/ Add
  \/ \E k \in Values : Widen(k)
  \/ CloseAgain

Spec == Init /\ [][Next]_vars

-----------------------------------------------------------------------------
(* Every operation returns the matrix of exactly the valuations it should, *)
(* and it is called empty, or has no clocks, if and only if it has none.   *)
(* Nothing is shown of elapse_time and future with a frozen clock and of   *)
(* synchronize_clocks on clocks that cannot be equal (see Elapse, GoBack   *)
(* and Synchronize), nor of what is_empty says of a matrix without clocks. *)
LibraryMeansItsPoints ==
  /\ status # "empty" => points # {} /\ Meaning(zone) = points
  /\ status = "empty" => points = {}

(* Every operation but add_clock and copy_clock_constraints leaves the     *)
(* matrix closed, which included_in, tighten and the comparison of classes *)
(* rely on: each finite bound is reached.                                  *)
LibraryIsCanonical ==
  status = "closed" =>
    \A p \in DOMAIN zone : zone[p] # INF => \E v \in All(zone) : v[p[1]] - v[p[2]] = zone[p]

(* "Rows/columns of frozen clocks are left untouched" (dbm.h:64) by        *)
(* extrapolate, also by the closure that follows, and no valuation is      *)
(* lost.                                                                   *)
FrozenSurvivesWidening ==
  [][\A k \in Values : Widen(k) =>
       /\ \A p \in DOMAIN zone : {p[1], p[2]} \cap frozen # {} => zone'[p] = zone[p]
       /\ Meaning(zone) \subseteq Meaning(zone')]_vars

(* contains tells, like included_in, whether the zone lies within its      *)
(* argument, not around it; operator< and operator== order the matrices of *)
(* one size: of two exactly one is smaller, or they are equal.             *)
ComparisonsAreRight ==
  \A E \in {D \in Starts : Indices(D) = Indices(zone)} :
    LET smaller == Less(zone, frozen, E, {})
        larger == Less(E, {}, zone, frozen)
    IN  /\ status = "closed" => Contains(zone, frozen, E, frozen) = (All(zone) \subseteq All(E))
        /\ IF zone = E /\ frozen = {} THEN ~ smaller /\ ~ larger ELSE smaller # larger
=============================================================================
