----------------------------- MODULE ZoneCalls -----------------------------
(***************************************************************************)
(* A caller of the DBM operations, with the set of valuations the matrix   *)
(* stands for kept beside it: what minimize, tighten, extrapolate and      *)
(* included_in do to a matrix is compared with what they mean for the set. *)
(***************************************************************************)
EXTENDS DBM, Sequences
LOCAL INSTANCE SequencesExt

CONSTANTS Clocks,     \* the clock variables, 1 .. n; Zero is 0
          Upper, Lower, Difference,  \* bounds given to x_i - x0, x0 - x_i, x_i - x_j
          Guards,     \* values h_t >= g is asked for
          Largest,    \* extrapolation constants
          Box         \* valuations are counted up to Box

ASSUME CallsAssumption ==
  /\ Clocks \subseteq Nat \ {0}
  /\ IsFiniteSet(Clocks)
  /\ Zero = 0
  /\ INF \in Nat

VARIABLES zone,     \* the matrix
          points,   \* the valuations it has to stand for
          verdict,  \* what the last operation said: "raw" before any
          source    \* the matrix the last operation was applied to

vars == <<zone, points, verdict, source>>

Variables == Clocks \cup {Zero}

Valuations == {v \in [Variables -> 0 .. Box] : v[Zero] = 0}

Meaning(D) == {v \in Valuations : Satisfies(v, D)}

-----------------------------------------------------------------------------
(* The loops of minimize as written: bounds are replaced in place, and the *)
(* bound through k is read after earlier replacements of the same round.   *)
Order == SetToSortSeq(Variables, <)

Triples ==
  LET n == Len(Order)
  IN  [c \in 1 .. n * n * n |->
         [k |-> Order[((c - 1) \div (n * n)) + 1],
          i |-> Order[(((c - 1) \div n) % n) + 1],
          j |-> Order[((c - 1) % n) + 1]]]

RelaxInPlace(D, c) ==
  LET through == SafeAdd(D[c.i, c.k], D[c.k, c.j])
  IN  IF D[c.i, c.k] = INF \/ D[c.k, c.j] = INF THEN D
      ELSE IF D[c.i, c.j] = INF \/ through < D[c.i, c.j]
           THEN [D EXCEPT ![c.i, c.j] = through] ELSE D

MinimizeInPlace(D) == FoldLeft(RelaxInPlace, D, Triples)

-----------------------------------------------------------------------------
(* A matrix filled in by set_constraint calls, not closed yet.             *)
Init ==
  /\ \E up \in [Clocks -> Upper], low \in [Clocks -> Lower],
        diff \in [{p \in Clocks \X Clocks : p[1] # p[2]} -> Difference] :
       zone = [p \in Variables \X Variables |->
                 CASE p[1] = p[2] -> 0
                   [] p[2] = Zero /\ p[1] # Zero -> up[p[1]]
                   [] p[1] = Zero /\ p[2] # Zero -> low[p[2]]
                   [] OTHER -> diff[p]]
  /\ points = Meaning(zone)
  /\ verdict = "raw"
  /\ source = zone

Said(nonempty) == IF nonempty THEN "nonempty" ELSE "empty"

(* minimize_and_check.                                                     *)
Close ==
  /\ verdict = "raw"
  /\ zone' = MinimizeInPlace(zone)
  /\ verdict' = Said(~ NegativeDiagonal(Variables, zone'))
  /\ source' = zone
  /\ UNCHANGED points

(* fire: h_i >= g on a closed zone.                                        *)
RequireAtLeast(i, g) ==
  /\ verdict = "nonempty"
  /\ LET result == Tighten(Variables, zone, Zero, i, -g)
     IN  /\ zone' = result.zone
         /\ verdict' = Said(result.nonempty)
  /\ points' = {v \in points : v[i] >= g}
  /\ source' = zone

Widen(k) ==
  /\ verdict = "nonempty"
  /\ zone' = Extrapolate(Variables, zone, k)
  /\ points' = Meaning(zone')
  /\ source' = zone
  /\ UNCHANGED verdict

Next ==
  \/ Close
  \/ \E i \in Clocks, g \in Guards : RequireAtLeast(i, g)
  \/ \E k \in Largest : Widen(k)

Spec == Init /\ [][Next]_vars

-----------------------------------------------------------------------------
(* An operation returns the matrix of exactly the valuations it should,    *)
(* and tells an empty zone from a non-empty one.                           *)
MeansItsPoints ==
  /\ verdict = "empty" => points = {}
  /\ verdict = "nonempty" => points # {} /\ Meaning(zone) = points

(* Canonical form: every finite bound of a non-empty zone that has not     *)
(* saturated is reached, so two matrices of the same zone are the same     *)
(* matrix.  minimize has to reach this form although it replaces bounds in *)
(* place, and tighten with a single pass.                                  *)
BoundsAreReached ==
  verdict = "nonempty" =>
    \A p \in DOMAIN zone :
      zone[p] \notin {INF, IntMin} /\ zone[p] <= Box \div 2 =>
        \E v \in points : v[p[1]] - v[p[2]] = zone[p]

(* Inclusion of canonical matrices is inclusion of zones: tightening gives *)
(* a zone inside its source, extrapolating one around it.                  *)
InclusionIsSubset ==
  verdict = "nonempty" /\ ~ NegativeDiagonal(Variables, Minimize(Variables, source)) =>
    LET before == Minimize(Variables, source)
    IN  /\ IncludedIn(zone, before) <=> points \subseteq Meaning(before)
        /\ IncludedIn(before, zone) <=> Meaning(before) \subseteq points
=============================================================================
