------------------------- MODULE Comparisons_proofs -------------------------
(***************************************************************************)
(* Theorems about what is compared with a graph.                           *)
(*                                                                         *)
(* CompareBuilds compares two graphs of one net: whatever the mode, and    *)
(* with extrapolation or without, the second covers every class of the     *)
(* default graph; without extrapolation merging changes neither the        *)
(* behaviour nor a dwell time.                                             *)
(*                                                                         *)
(* Exactness compares a graph with the runs of the net: where the numbers  *)
(* leave room and a stopped clock has one value, the search of the runs    *)
(* meets every marking, every edge and both ends of every firing window.   *)
(***************************************************************************)
EXTENDS CompareBuilds, Exactness, StateClassGraph_proofs

-----------------------------------------------------------------------------
(* Two finished graphs of a net: the default one (o is FALSE), and one     *)
(* made in mode k, with extrapolation if x.  The numbers of the default    *)
(* graph leave room for the sums the engine forms, and its classes are     *)
(* canonical.                                                              *)
Comparable(n, o, x, k, V, E, V0, E0) ==
  /\ IsNet(n) /\ x \in BOOLEAN /\ o = FALSE
  /\ IsFinished(n, o, "EQUALITY", V0, E0)
  /\ IsFinished(n, x, k, V, E)
  /\ \E N, B : HasRoom(n, N, B) /\ \A b \in DOMAIN V0 : Fits(n, V0[b], N, B)
  /\ \A b \in DOMAIN V0 : IsCanonical(n, V0[b])

LEMMA NormalKeepsInclusion ==
  ASSUME NEW n, IsNet(n), NEW x \in BOOLEAN, NEW a, IsCanonical(n, a)
  PROVE  CheckInclusion(a, NormalIn(n, x, a))
<1> DEFINE X == ClockVars(n, a.marking)
<1>1. IsZoneClass(n, a) /\ CheckInclusion(a, a) /\ a.zone \in Zones(X)
  BY CoveringIsReflexive DEF IsCanonical, IsZoneClass
<1>2. CASE ~ x
  BY <1>1, <1>2 DEF NormalIn
<1>3. CASE x
  <2> DEFINE W == M!Extrapolate(X, a.zone, ExtrapolationBound(n))
  <2>1. Z!Below(X, a.zone, a.zone)
    BY <1>1, InclusionIsOrder DEF CheckInclusion
  <2>2. IsFiniteSet(X) /\ ClosedForm(X, a.zone) /\ ExtrapolationBound(n) \in 0 .. INF
    BY ClocksAreFinite, ExtrapolationBoundType DEF IsCanonical
  <2>3. Z!Below(X, a.zone, W) /\ W \in Zones(X)
    BY <1>1, <2>1, <2>2, WideningKeepsOrder, ExtrapolationWidens
  <2>4. ExtrapolateClass(n, a).marking = a.marking /\ ExtrapolateClass(n, a).zone = W
    BY <1>1 DEF ExtrapolateClass, IsZoneClass
  <2>5. CheckInclusion(a, ExtrapolateClass(n, a))
    BY <1>1, <2>3, <2>4, InclusionIsOrder DEF CheckInclusion
  <2> QED
    BY <1>3, <2>5 DEF NormalIn
<1> QED
  BY <1>2, <1>3

(* In the default graph an edge leads to the successor itself.             *)
LEMMA DefaultEdge ==
  ASSUME NEW n, NEW o, NEW V0, NEW E0, IsFinished(n, o, "EQUALITY", V0, E0),
         NEW b \in DOMAIN V0, NEW t \in LeavingClass(<<n, o>>, V0[b])
  PROVE  \E e \in E0 : /\ e.src = b /\ e.t = t /\ e.dst \in DOMAIN V0
                       /\ V0[e.dst] = NextClass(<<n, o>>, V0[b], t)
                       /\ HasWindow(n, V0[b], e)
<1>1. PICK e \in E0 : e.src = b /\ e.t = t
  BY DEF IsFinished
<1>2. e.dst \in DOMAIN V0 /\ Leads(n, o, "EQUALITY", V0[b], e, V0[e.dst])
  BY <1>1 DEF IsFinished
<1> QED
  BY <1>1, <1>2 DEF Leads, CanMergeInto, CheckEquality

(* An edge for t leaves v and leads to a vertex that covers the class.     *)
HasCoveringEdge(n, V, E, v, t, class) ==
  \E e \in E : /\ e.src = v /\ e.t = t /\ e.dst \in DOMAIN V
               /\ HasWindow(n, V[v], e)
               /\ CheckInclusion(class, V[e.dst])

(* What a default class can fire, a class that covers it can fire, and in  *)
(* the other graph the edge leads to a vertex that covers the successor.   *)
LEMMA CoveredStep ==
  ASSUME NEW n, NEW o, NEW x, NEW k, NEW V, NEW E, NEW V0, NEW E0,
         Comparable(n, o, x, k, V, E, V0, E0),
         NEW b \in DOMAIN V0, NEW v \in DOMAIN V, CheckInclusion(V0[b], V[v]),
         NEW t \in LeavingClass(<<n, o>>, V0[b])
  PROVE  /\ t \in LeavingClass(<<n, x>>, V[v])
         /\ HasCoveringEdge(n, V, E, v, t, NextClass(<<n, o>>, V0[b], t))
<1> DEFINE a == V0[b]
           c == V[v]
           next == NextClass(<<n, o>>, a, t)
           wide == NextClass(<<n, x>>, c, t)
<1>1. PICK N, B : HasRoom(n, N, B) /\ \A y \in DOMAIN V0 : Fits(n, V0[y], N, B)
  BY DEF Comparable
<1>2. PICK f \in E0 : f.dst \in DOMAIN V0 /\ V0[f.dst] = next
  <2>1. IsFinished(n, o, "EQUALITY", V0, E0)
    BY DEF Comparable
  <2>2. \E e \in E0 : /\ e.src = b /\ e.t = t /\ e.dst \in DOMAIN V0
                      /\ V0[e.dst] = NextClass(<<n, o>>, V0[b], t)
                      /\ HasWindow(n, V0[b], e)
    BY <2>1, DefaultEdge
  <2> QED
    BY <2>2
<1>3. /\ IsNet(n) /\ x \in BOOLEAN /\ IsCanonical(n, a) /\ IsZoneClass(n, c)
      /\ Fits(n, a, N, B) /\ Fits(n, next, N, B) /\ IsZoneClass(n, next)
  BY <1>1, <1>2 DEF Comparable, IsFinished
<1>4. t \in n.transitions /\ CanFire(n, TimeElapse(n, a), t)
  BY DEF LeavingClass
<1> DEFINE after == Successor(n, TimeElapse(n, a), t)
           larger == Successor(n, TimeElapse(n, c), t)
<1>5. next = after /\ wide = NormalIn(n, x, larger)
  BY DEF NextClass, NormalIn, Comparable
<1>6. after.marking = FireMarking(TimeElapse(n, a).marking, n, t)
  BY DEF Successor
<1>7. TimeElapse(n, a).marking = a.marking
  BY <1>3, ElapsedClass DEF IsCanonical
<1>8. Cardinality(ClockVars(n, FireMarking(a.marking, n, t))) <= N
  BY <1>3, <1>5, <1>6, <1>7 DEF Fits
<1>9. /\ CanFire(n, TimeElapse(n, c), t)
      /\ CheckInclusion(after, larger)
      /\ CheckInclusion(after, ExtrapolateClass(n, larger))
  BY <1>1, <1>3, <1>4, <1>8, StepKeepsInclusion
<1>10. t \in LeavingClass(<<n, x>>, c)
  BY <1>4, <1>9 DEF LeavingClass
<1>11. CheckInclusion(next, wide)
  BY <1>3, <1>5, <1>9 DEF NormalIn
<1>12. PICK e \in E : e.src = v /\ e.t = t
  BY ZenonT(60), <1>10 DEF Comparable, IsFinished
<1>13. e.dst \in DOMAIN V /\ Leads(n, x, k, c, e, V[e.dst]) /\ IsZoneClass(n, V[e.dst])
  BY <1>12 DEF Comparable, IsFinished
<1> HIDE DEF next, wide, a, c
<1>14. wide = V[e.dst] \/ CanMergeInto(wide, V[e.dst], k)
  BY <1>12, <1>13 DEF Leads, wide
<1>15. wide = V[e.dst] \/ CheckInclusion(wide, V[e.dst])
  BY <1>14 DEF CanMergeInto, CheckEquality
<1>16. IsZoneClass(n, wide)
  <2>1. t \in PriorityEnabled(n, c.marking)
    <3>1. TimeElapse(n, c).marking = c.marking
      BY <1>3, ElapsedClass
    <3> QED
      BY <1>9, <3>1 DEF CanFire, IsFirable
  <2> QED
    BY <1>3, <2>1, NextIsClass DEF wide
<1>17. CheckInclusion(next, V[e.dst])
  BY <1>3, <1>11, <1>13, <1>15, <1>16, CoveringIsTransitive
<1>18. HasCoveringEdge(n, V, E, v, t, next)
  BY <1>12, <1>13, <1>17 DEF HasCoveringEdge, Leads, c
<1> QED
  BY <1>10, <1>18 DEF next, c, a

(* Every class of the default graph is inside a class of the other.        *)
LEMMA EveryClassCovered ==
  ASSUME NEW n, NEW o, NEW x, NEW k, NEW V, NEW E, NEW V0, NEW E0,
         Comparable(n, o, x, k, V, E, V0, E0), NEW b \in DOMAIN V0
  PROVE  \E v \in DOMAIN V : CheckInclusion(V0[b], V[v])
<1> DEFINE Covered(y) == \E v \in DOMAIN V : CheckInclusion(V0[y], V[v])
           Missed == {y \in DOMAIN V0 : ~ Covered(y)}
<1> SUFFICES ASSUME Missed # {} PROVE FALSE
  OBVIOUS
<1>1. DOMAIN V0 \subseteq Nat /\ 1 \in DOMAIN V0 /\ 1 \in DOMAIN V
  BY DEF Comparable, IsFinished
<1>2. PICK y \in Missed : \A z \in Missed : y <= z
  BY <1>1, Z!LeastCount
<1>3. y # 1
  <2>1. /\ V0[1] = FirstClass(<<n, o>>) /\ V[1] = FirstClass(<<n, x>>)
        /\ IsNet(n) /\ x \in BOOLEAN /\ o = FALSE /\ IsCanonical(n, V0[1])
    BY <1>1 DEF Comparable, IsFinished
  <2>2. V[1] = NormalIn(n, x, V0[1])
    BY <2>1 DEF FirstClass, NormalIn
  <2>3. CheckInclusion(V0[1], V[1])
    BY <2>1, <2>2, NormalKeepsInclusion
  <2> QED
    BY <1>1, <2>3
<1>4. y \in DOMAIN V0 \ {1} /\ ~ Covered(y)
  BY <1>3
<1> HIDE DEF Covered
<1>5. PICK z \in DOMAIN V0 : \E t \in LeavingClass(<<n, o>>, V0[z]) :
        z < y /\ V0[y] = NextClass(<<n, o>>, V0[z], t)
  BY ZenonT(60), <1>4 DEF Comparable, IsFinished
<1>6. Covered(z)
  <2>1. z \notin Missed
    BY <1>1, <1>2, <1>5
  <2> QED
    BY <2>1 DEF Covered
<1>7. PICK v \in DOMAIN V : CheckInclusion(V0[z], V[v])
  BY <1>6 DEF Covered
<1>8. PICK t \in LeavingClass(<<n, o>>, V0[z]) :
        V0[y] = NextClass(<<n, o>>, V0[z], t)
  BY <1>5
<1>9. HasCoveringEdge(n, V, E, v, t, NextClass(<<n, o>>, V0[z], t))
  BY <1>7, CoveredStep
<1> QED
  BY <1>4, <1>8, <1>9 DEF Covered, HasCoveringEdge

-----------------------------------------------------------------------------
(* Without extrapolation every class that merging keeps is a class of the  *)
(* default graph.                                                          *)
LEMMA EveryClassKept ==
  ASSUME NEW n, NEW o, NEW k, NEW V, NEW E, NEW V0, NEW E0,
         Comparable(n, o, o, k, V, E, V0, E0), NEW v \in DOMAIN V
  PROVE  \E b \in DOMAIN V0 : V[v] = V0[b]
<1> DEFINE Kept(y) == \E b \in DOMAIN V0 : V[y] = V0[b]
           Made == {y \in DOMAIN V : ~ Kept(y)}
<1> SUFFICES ASSUME Made # {} PROVE FALSE
  OBVIOUS
<1>1. DOMAIN V \subseteq Nat /\ 1 \in DOMAIN V0 /\ 1 \in DOMAIN V
  BY DEF Comparable, IsFinished
<1>2. PICK y \in Made : \A z \in Made : y <= z
  BY <1>1, Z!LeastCount
<1>3. y # 1
  <2>1. V0[1] = FirstClass(<<n, o>>) /\ V[1] = FirstClass(<<n, o>>)
    BY DEF Comparable, IsFinished
  <2> QED
    BY <1>1, <2>1
<1>4. y \in DOMAIN V \ {1} /\ ~ Kept(y)
  BY <1>3
<1> HIDE DEF Kept
<1>5. PICK z \in DOMAIN V : \E t \in LeavingClass(<<n, o>>, V[z]) :
        z < y /\ V[y] = NextClass(<<n, o>>, V[z], t)
  BY <1>4 DEF Comparable, IsFinished
<1>6. Kept(z)
  <2>1. z \notin Made
    BY <1>1, <1>2, <1>5
  <2> QED
    BY <2>1 DEF Kept
<1>7. PICK b \in DOMAIN V0 : V[z] = V0[b]
  BY <1>6 DEF Kept
<1>8. PICK t \in LeavingClass(<<n, o>>, V0[b]) :
        V[y] = NextClass(<<n, o>>, V0[b], t)
  BY <1>5, <1>7
<1>9. IsFinished(n, o, "EQUALITY", V0, E0)
  BY DEF Comparable
<1>10. PICK e \in E0 : e.dst \in DOMAIN V0 /\ V0[e.dst] = NextClass(<<n, o>>, V0[b], t)
  <2>1. \E e \in E0 : /\ e.src = b /\ e.t = t /\ e.dst \in DOMAIN V0
                      /\ V0[e.dst] = NextClass(<<n, o>>, V0[b], t)
                      /\ HasWindow(n, V0[b], e)
    BY <1>9, DefaultEdge
  <2> QED
    BY <2>1
<1> QED
  BY <1>4, <1>8, <1>10 DEF Kept

(* So merging never makes the graph larger: two vertices that kept the     *)
(* same class would have been merged.                                      *)
LEMMA NoMoreClasses ==
  ASSUME NEW n, NEW o, NEW k, NEW V, NEW E, NEW V0, NEW E0,
         Comparable(n, o, o, k, V, E, V0, E0)
  PROVE  Len(V) <= Len(V0)
<1> DEFINE size == Len(V)
           size0 == Len(V0)
           twin == [v \in 1 .. size |-> CHOOSE b \in 1 .. size0 : V[v] = V0[b]]
<1>1. /\ size \in Nat \ {0} /\ DOMAIN V = 1 .. size
      /\ size0 \in Nat \ {0} /\ DOMAIN V0 = 1 .. size0
  BY DEF Comparable, IsFinished
<1>2. \A v \in 1 .. size : twin[v] \in 1 .. size0 /\ V[v] = V0[twin[v]]
  <2> TAKE v \in 1 .. size
  <2>1. \E b \in 1 .. size0 : V[v] = V0[b]
    BY <1>1, EveryClassKept
  <2> QED
    BY <2>1
<1> SUFFICES ASSUME ~ size <= size0 PROVE FALSE
  OBVIOUS
<1> HIDE DEF size, size0
<1>3. /\ IsFiniteSet(1 .. size) /\ Cardinality(1 .. size) = size
      /\ IsFiniteSet(1 .. size0) /\ Cardinality(1 .. size0) = size0
  <2>1. /\ IsFiniteSet(1 .. size)
        /\ Cardinality(1 .. size) = IF 1 > size THEN 0 ELSE size - 1 + 1
    BY <1>1, FS_Interval
  <2>2. /\ IsFiniteSet(1 .. size0)
        /\ Cardinality(1 .. size0) = IF 1 > size0 THEN 0 ELSE size0 - 1 + 1
    BY <1>1, FS_Interval
  <2> QED
    BY <1>1, <2>1, <2>2
<1>4. size0 < size
  BY <1>1
<1>5. twin \in [1 .. size -> 1 .. size0]
  BY <1>2
<1> HIDE DEF twin
<1>6. PICK v, y \in 1 .. size : v # y /\ twin[v] = twin[y]
  BY <1>3, <1>4, <1>5, FS_PigeonHole
<1>7. V[v] = V[y]
  BY <1>2, <1>6
<1>8. ASSUME NEW a \in 1 .. size, NEW b \in 1 .. size, b < a, V[a] = V[b]
      PROVE  FALSE
  <2>1. ~ CanMergeInto(V[a], V[b], k) /\ IsZoneClass(n, V[b])
    BY <1>1, <1>8 DEF Comparable, IsFinished
  <2>2. CheckInclusion(V[b], V[b])
    BY <2>1, CoveringIsReflexive
  <2> QED
    BY <1>8, <2>1, <2>2 DEF CanMergeInto, CheckEquality
<1> QED
  BY <1>1, <1>6, <1>7, <1>8

-----------------------------------------------------------------------------
(* The edges of the two graphs, one way and the other.                     *)
LEMMA KeptEdge ==
  ASSUME NEW n, NEW o, NEW k, NEW V, NEW E, NEW V0, NEW E0,
         Comparable(n, o, o, k, V, E, V0, E0), NEW e \in E
  PROVE  \E f \in E0 : /\ f.src \in DOMAIN V0 /\ f.dst \in DOMAIN V0
                       /\ V0[f.src].marking = V[e.src].marking
                       /\ f.t = e.t
                       /\ V0[f.dst].marking = V[e.dst].marking
                       /\ f.dwell_min = e.dwell_min /\ f.dwell_max = e.dwell_max
<1> DEFINE source == V[e.src]
           target == V[e.dst]
           next == NextClass(<<n, o>>, source, e.t)
<1>1. /\ e.src \in DOMAIN V /\ Leads(n, o, k, source, e, target)
      /\ IsFinished(n, o, "EQUALITY", V0, E0)
  BY DEF Comparable, IsFinished
<1>2. /\ e.t \in LeavingClass(<<n, o>>, source) /\ HasWindow(n, source, e)
      /\ next = target \/ CanMergeInto(next, target, k)
  BY <1>1 DEF Leads
<1>3. next.marking = target.marking
  BY <1>2 DEF CanMergeInto, CheckEquality, CheckInclusion
<1>4. PICK b \in DOMAIN V0 : source = V0[b]
  BY <1>1, EveryClassKept
<1>5. e.t \in LeavingClass(<<n, o>>, V0[b])
  BY <1>2, <1>4
<1>6. PICK f \in E0 : /\ f.src = b /\ f.t = e.t /\ f.dst \in DOMAIN V0
                      /\ V0[f.dst] = NextClass(<<n, o>>, V0[b], e.t)
                      /\ HasWindow(n, V0[b], f)
  <2> DEFINE t == e.t
  <2>1. t \in LeavingClass(<<n, o>>, V0[b])
    BY <1>5
  <2> HIDE DEF t
  <2>2. \E f \in E0 : /\ f.src = b /\ f.t = t /\ f.dst \in DOMAIN V0
                      /\ V0[f.dst] = NextClass(<<n, o>>, V0[b], t)
                      /\ HasWindow(n, V0[b], f)
    BY <1>1, <2>1, DefaultEdge
  <2> QED
    BY <2>2 DEF t
<1> HIDE DEF source, target, next
<1>7. f.dwell_min = e.dwell_min /\ f.dwell_max = e.dwell_max
  <2>1. HasWindow(n, source, f) /\ f.t = e.t
    BY <1>4, <1>6
  <2> QED
    BY <1>2, <2>1, SameWindow
<1>8. V0[f.dst] = next
  BY <1>4, <1>6 DEF next
<1> QED
  BY <1>3, <1>4, <1>6, <1>7, <1>8 DEF source, target

LEMMA DefaultEdgeLeads ==
  ASSUME NEW n, NEW o, NEW V0, NEW E0, IsFinished(n, o, "EQUALITY", V0, E0),
         NEW f \in E0
  PROVE  /\ f.src \in DOMAIN V0 /\ f.dst \in DOMAIN V0
         /\ f.t \in LeavingClass(<<n, o>>, V0[f.src])
         /\ V0[f.dst] = NextClass(<<n, o>>, V0[f.src], f.t)
         /\ HasWindow(n, V0[f.src], f)
<1>1. /\ f.src \in DOMAIN V0 /\ f.dst \in DOMAIN V0
      /\ Leads(n, o, "EQUALITY", V0[f.src], f, V0[f.dst])
  BY DEF IsFinished
<1> QED
  BY <1>1 DEF Leads, CanMergeInto, CheckEquality

LEMMA DefaultEdgeCovered ==
  ASSUME NEW n, NEW o, NEW x, NEW k, NEW V, NEW E, NEW V0, NEW E0,
         Comparable(n, o, x, k, V, E, V0, E0), NEW f \in E0
  PROVE  \E e \in E : /\ e.src \in DOMAIN V /\ e.dst \in DOMAIN V
                      /\ V[e.src].marking = V0[f.src].marking
                      /\ e.t = f.t
                      /\ V[e.dst].marking = V0[f.dst].marking
                      /\ e.dwell_min <= f.dwell_min /\ f.dwell_max <= e.dwell_max
<1> DEFINE b == f.src
           t == f.t
           a == V0[b]
           next == NextClass(<<n, o>>, a, t)
<1>1. IsFinished(n, o, "EQUALITY", V0, E0) /\ IsNet(n)
  BY DEF Comparable
<1>2. /\ b \in DOMAIN V0 /\ V0[f.dst] = next
      /\ t \in LeavingClass(<<n, o>>, a) /\ HasWindow(n, a, f)
  BY <1>1, DefaultEdgeLeads
<1>3. PICK v \in DOMAIN V : CheckInclusion(a, V[v])
  BY <1>2, EveryClassCovered
<1>4. HasCoveringEdge(n, V, E, v, t, next)
  <2> HIDE DEF b, t
  <2> QED
    BY <1>2, <1>3, CoveredStep
<1>5. PICK e \in E : /\ e.src = v /\ e.t = t /\ e.dst \in DOMAIN V
                     /\ HasWindow(n, V[v], e)
                     /\ CheckInclusion(next, V[e.dst])
  BY <1>4 DEF HasCoveringEdge
<1>6. PICK N, B : HasRoom(n, N, B) /\ Fits(n, a, N, B)
  BY <1>2 DEF Comparable
<1>7. IsCanonical(n, a) /\ IsZoneClass(n, V[v]) /\ IsZoneClass(n, a)
  BY <1>2 DEF Comparable, IsFinished
<1>8. t \in PriorityEnabled(n, a.marking)
  <2>1. TimeElapse(n, a).marking = a.marking
    BY <1>1, <1>7, ElapsedClass
  <2> QED
    BY <1>2, <2>1 DEF LeavingClass, CanFire, IsFirable
<1>9. e.dwell_min <= f.dwell_min /\ f.dwell_max <= e.dwell_max
  <2> HIDE DEF a, next
  <2> QED
    BY <1>1, <1>2, <1>3, <1>5, <1>6, <1>7, <1>8, DwellsGrow
<1>10. /\ V[e.src].marking = V0[f.src].marking
       /\ V[e.dst].marking = V0[f.dst].marking
  BY <1>2, <1>3, <1>5 DEF CheckInclusion
<1> QED
  BY <1>5, <1>9, <1>10

-----------------------------------------------------------------------------
(* A vertex is a dead end exactly when no transition can leave its class.  *)
LEMMA DeadEnds ==
  ASSUME NEW n, NEW o, NEW k, NEW V, NEW E, IsFinished(n, o, k, V, E),
         NEW v \in DOMAIN V
  PROVE  (\A e \in E : e.src # v) <=> LeavingClass(<<n, o>>, V[v]) = {}
<1>1. ASSUME NEW t \in LeavingClass(<<n, o>>, V[v])
      PROVE  \E e \in E : e.src = v
  BY DEF IsFinished
<1>2. ASSUME NEW e \in E, e.src = v
      PROVE  e.t \in LeavingClass(<<n, o>>, V[v])
  BY <1>2 DEF IsFinished, Leads
<1> QED
  BY <1>1, <1>2

(* From a canonical class something can leave unless no transition is      *)
(* active in its marking.                                                  *)
LEMMA StuckMarkings ==
  ASSUME NEW n, IsNet(n), NEW o, NEW class, IsCanonical(n, class),
         NEW N, NEW B, HasRoom(n, N, B), Fits(n, class, N, B),
         LeavingClass(<<n, o>>, class) = {}
  PROVE  PriorityEnabled(n, class.marking) = {}
<1> SUFFICES ASSUME PriorityEnabled(n, class.marking) # {} PROVE FALSE
  OBVIOUS
<1>1. PICK t \in PriorityEnabled(n, class.marking) :
        CanFire(n, TimeElapse(n, class), t)
  BY ActiveCanFire
<1>2. t \in n.transitions
  BY PriorityEnabledAreTransitions
<1> QED
  BY <1>1, <1>2 DEF LeavingClass

LEMMA SameSinks ==
  ASSUME NEW n, NEW o, NEW k, NEW V, NEW E, NEW V0, NEW E0,
         Comparable(n, o, o, k, V, E, V0, E0)
  PROVE  Behaviour(V, E).sinks = Behaviour(V0, E0).sinks
<1> DEFINE Ends == {v \in DOMAIN V : \A e \in E : e.src # v}
           Ends0 == {b \in DOMAIN V0 : \A e \in E0 : e.src # b}
<1>1. /\ IsNet(n) /\ IsFinished(n, o, "EQUALITY", V0, E0) /\ IsFinished(n, o, k, V, E)
  BY DEF Comparable
<1>2. ASSUME NEW v \in Ends PROVE \E b \in Ends0 : V0[b].marking = V[v].marking
  <2>1. v \in DOMAIN V /\ \A e \in E : e.src # v
    OBVIOUS
  <2>2. PICK b \in DOMAIN V0 : V[v] = V0[b]
    BY <2>1, EveryClassKept
  <2>3. LeavingClass(<<n, o>>, V0[b]) = {}
    BY <1>1, <2>1, <2>2, DeadEnds
  <2>4. \A e \in E0 : e.src # b
    BY <1>1, <2>3, DeadEnds
  <2> QED
    BY <2>2, <2>4
<1>3. ASSUME NEW b \in Ends0 PROVE \E v \in Ends : V[v].marking = V0[b].marking
  <2>1. b \in DOMAIN V0 /\ \A e \in E0 : e.src # b
    OBVIOUS
  <2>2. LeavingClass(<<n, o>>, V0[b]) = {}
    BY <1>1, <2>1, DeadEnds
  <2>3. PICK N, B : HasRoom(n, N, B) /\ Fits(n, V0[b], N, B)
    BY <2>1 DEF Comparable
  <2>4. IsCanonical(n, V0[b])
    BY <2>1 DEF Comparable
  <2>5. PriorityEnabled(n, V0[b].marking) = {}
    BY <1>1, <2>2, <2>3, <2>4, StuckMarkings
  <2>6. PICK v \in DOMAIN V : CheckInclusion(V0[b], V[v])
    BY <2>1, EveryClassCovered
  <2>7. V[v].marking = V0[b].marking /\ IsZoneClass(n, V[v])
    BY <1>1, <2>6 DEF CheckInclusion, IsFinished
  <2>8. TimeElapse(n, V[v]).marking = V[v].marking
    BY <1>1, <2>7, ElapsedClass
  <2>9. LeavingClass(<<n, o>>, V[v]) = {}
    BY <2>5, <2>7, <2>8 DEF LeavingClass, CanFire, IsFirable
  <2>10. \A e \in E : e.src # v
    BY <1>1, <2>9, DeadEnds
  <2> QED
    BY <2>7, <2>10
<1>4. {V[v].marking : v \in Ends} = {V0[b].marking : b \in Ends0}
  <2> HIDE DEF Ends, Ends0
  <2> QED
    BY <1>2, <1>3
<1> QED
  BY <1>4 DEF Behaviour

LEMMA SameBehaviours ==
  ASSUME NEW n, NEW o, NEW k, NEW V, NEW E, NEW V0, NEW E0,
         Comparable(n, o, o, k, V, E, V0, E0)
  PROVE  Behaviour(V, E) = Behaviour(V0, E0)
<1>1. {V[v].marking : v \in DOMAIN V} = {V0[b].marking : b \in DOMAIN V0}
  <2>1. \A v \in DOMAIN V : \E b \in DOMAIN V0 : V0[b].marking = V[v].marking
    BY EveryClassKept
  <2>2. \A b \in DOMAIN V0 : \E v \in DOMAIN V : V[v].marking = V0[b].marking
    BY EveryClassCovered DEF CheckInclusion
  <2> QED
    BY <2>1, <2>2
<1>2. {<<V[e.src].marking, e.t, V[e.dst].marking>> : e \in E}
        = {<<V0[f.src].marking, f.t, V0[f.dst].marking>> : f \in E0}
  <2>1. \A e \in E : \E f \in E0 :
          /\ V0[f.src].marking = V[e.src].marking
          /\ f.t = e.t
          /\ V0[f.dst].marking = V[e.dst].marking
    BY KeptEdge
  <2>2. \A f \in E0 : \E e \in E :
          /\ V0[f.src].marking = V[e.src].marking
          /\ f.t = e.t
          /\ V0[f.dst].marking = V[e.dst].marking
    BY DefaultEdgeCovered
  <2> QED
    BY SMTT(30), <2>1, <2>2
<1>3. Behaviour(V, E).sinks = Behaviour(V0, E0).sinks
  BY SameSinks
<1> QED
  BY <1>1, <1>2, <1>3 DEF Behaviour

-----------------------------------------------------------------------------
(* Two sets of numbers, one in the other and reaching as far down (up):    *)
(* what is least (greatest) in one is so in the other.                     *)
LEMMA SameLeast ==
  ASSUME NEW S0 \in SUBSET Nat, NEW S \in SUBSET S0,
         \A m \in S0 : \E l \in S : l <= m
  PROVE  (CHOOSE l \in S : \A m \in S : l <= m)
           = (CHOOSE l \in S0 : \A m \in S0 : l <= m)
<1>1. ASSUME NEW l PROVE (l \in S /\ \A m \in S : l <= m)
                           <=> (l \in S0 /\ \A m \in S0 : l <= m)
  <2>1. ASSUME l \in S, \A m \in S : l <= m, NEW p \in S0 PROVE l <= p
    <3>1. PICK q \in S : q <= p
      OBVIOUS
    <3> QED
      BY <2>1, <3>1
  <2>2. ASSUME l \in S0, \A m \in S0 : l <= m PROVE l \in S
    <3>1. PICK q \in S : q <= l
      BY <2>2
    <3> QED
      BY <2>2, <3>1
  <2> QED
    BY <2>1, <2>2
<1> QED
  BY <1>1

LEMMA SameGreatest ==
  ASSUME NEW S0 \in SUBSET Nat, NEW S \in SUBSET S0,
         \A m \in S0 : \E l \in S : m <= l
  PROVE  (CHOOSE l \in S : \A m \in S : m <= l)
           = (CHOOSE l \in S0 : \A m \in S0 : m <= l)
<1>1. ASSUME NEW l PROVE (l \in S /\ \A m \in S : m <= l)
                           <=> (l \in S0 /\ \A m \in S0 : m <= l)
  <2>1. ASSUME l \in S, \A m \in S : m <= l, NEW p \in S0 PROVE p <= l
    <3>1. PICK q \in S : p <= q
      OBVIOUS
    <3> QED
      BY <2>1, <3>1
  <2>2. ASSUME l \in S0, \A m \in S0 : m <= l PROVE l \in S
    <3>1. PICK q \in S : l <= q
      BY <2>2
    <3> QED
      BY <2>2, <3>1
  <2> QED
    BY <2>1, <2>2
<1> QED
  BY <1>1

(* The firings of a graph, and the dwell times on the edges of each.       *)
FiredIn(V, E) == {<<V[e.src].marking, e.t>> : e \in E}
EdgesOf(V, E, f) == {e \in E : <<V[e.src].marking, e.t>> = f}
Mins(V, E, f) == {e.dwell_min : e \in EdgesOf(V, E, f)}
Maxs(V, E, f) == {e.dwell_max : e \in EdgesOf(V, E, f)}
LeastOf(S) == CHOOSE l \in S : \A m \in S : l <= m
GreatestOf(S) == CHOOSE l \in S : \A m \in S : m <= l

LEMMA DwellsAre ==
  ASSUME NEW V, NEW E
  PROVE  Dwells(V, E) =
           [f \in FiredIn(V, E) |->
              [least |-> LeastOf(Mins(V, E, f)),
               greatest |-> GreatestOf(Maxs(V, E, f))]]
<1>1. ASSUME NEW f
      PROVE  (CHOOSE n \in {e.dwell_min : e \in EdgesOf(V, E, f)} :
                 \A e \in EdgesOf(V, E, f) : n <= e.dwell_min)
             = LeastOf(Mins(V, E, f))
  <2>1. \A n : (\A e \in EdgesOf(V, E, f) : n <= e.dwell_min)
                 <=> (\A m \in Mins(V, E, f) : n <= m)
    BY DEF Mins
  <2> QED
    BY <2>1 DEF LeastOf, Mins
<1>2. ASSUME NEW f
      PROVE  (CHOOSE n \in {e.dwell_max : e \in EdgesOf(V, E, f)} :
                 \A e \in EdgesOf(V, E, f) : e.dwell_max <= n)
             = GreatestOf(Maxs(V, E, f))
  <2>1. \A n : (\A e \in EdgesOf(V, E, f) : e.dwell_max <= n)
                 <=> (\A m \in Maxs(V, E, f) : m <= n)
    BY DEF Maxs
  <2> QED
    BY <2>1 DEF GreatestOf, Maxs
<1>3. Dwells(V, E) =
        [f \in FiredIn(V, E) |->
           [least |-> CHOOSE n \in {e.dwell_min : e \in EdgesOf(V, E, f)} :
                        \A e \in EdgesOf(V, E, f) : n <= e.dwell_min,
            greatest |-> CHOOSE n \in {e.dwell_max : e \in EdgesOf(V, E, f)} :
                           \A e \in EdgesOf(V, E, f) : e.dwell_max <= n]]
  BY DEF Dwells, FiredIn, EdgesOf
<1> QED
  BY <1>1, <1>2, <1>3

(* Dwell times are numbers.                                                *)
LEMMA EdgesHaveDwells ==
  ASSUME NEW n, IsNet(n), NEW o, NEW k, NEW V, NEW E, IsFinished(n, o, k, V, E),
         NEW e \in E
  PROVE  e.dwell_min \in Nat /\ e.dwell_max \in Nat
<1> DEFINE class == V[e.src]
<1>1. IsZoneClass(n, class) /\ Leads(n, o, k, class, e, V[e.dst])
  BY DEF IsFinished
<1>2. HasWindow(n, class, e) /\ CanFire(n, TimeElapse(n, class), e.t)
  BY <1>1 DEF Leads, LeavingClass
<1>3. TimeElapse(n, class).marking = class.marking
  BY <1>1, ElapsedClass
<1>4. e.t \in PriorityEnabled(n, class.marking)
  BY <1>2, <1>3 DEF CanFire, IsFirable
<1> HIDE DEF class
<1> QED
  BY <1>1, <1>2, <1>4, DwellsAreTimes

LEMMA SameDwells ==
  ASSUME NEW n, NEW o, NEW k, NEW V, NEW E, NEW V0, NEW E0,
         Comparable(n, o, o, k, V, E, V0, E0)
  PROVE  Dwells(V, E) = Dwells(V0, E0)
<1>1. /\ IsNet(n) /\ IsFinished(n, o, "EQUALITY", V0, E0) /\ IsFinished(n, o, k, V, E)
  BY DEF Comparable
<1>2. \A e \in E : \E f \in E0 :
        /\ V0[f.src].marking = V[e.src].marking /\ f.t = e.t
        /\ f.dwell_min = e.dwell_min /\ f.dwell_max = e.dwell_max
  BY KeptEdge
<1>3. \A f \in E0 : \E e \in E :
        /\ V[e.src].marking = V0[f.src].marking /\ e.t = f.t
        /\ e.dwell_min <= f.dwell_min /\ f.dwell_max <= e.dwell_max
  BY DefaultEdgeCovered
<1>4. \A f \in E0 : f.dwell_min \in Nat /\ f.dwell_max \in Nat
  BY <1>1, EdgesHaveDwells
<1>5. FiredIn(V, E) = FiredIn(V0, E0)
  BY <1>2, <1>3 DEF FiredIn
<1>6. ASSUME NEW g PROVE LeastOf(Mins(V, E, g)) = LeastOf(Mins(V0, E0, g))
  <2>1. Mins(V0, E0, g) \in SUBSET Nat
    BY <1>4 DEF Mins, EdgesOf
  <2>2. Mins(V, E, g) \in SUBSET Mins(V0, E0, g)
    BY <1>2 DEF Mins, EdgesOf
  <2>3. \A m \in Mins(V0, E0, g) : \E l \in Mins(V, E, g) : l <= m
    BY <1>3 DEF Mins, EdgesOf
  <2> QED
    BY <2>1, <2>2, <2>3, SameLeast DEF LeastOf
<1>7. ASSUME NEW g PROVE GreatestOf(Maxs(V, E, g)) = GreatestOf(Maxs(V0, E0, g))
  <2>1. Maxs(V0, E0, g) \in SUBSET Nat
    BY <1>4 DEF Maxs, EdgesOf
  <2>2. Maxs(V, E, g) \in SUBSET Maxs(V0, E0, g)
    BY <1>2 DEF Maxs, EdgesOf
  <2>3. \A m \in Maxs(V0, E0, g) : \E l \in Maxs(V, E, g) : m <= l
    BY <1>3 DEF Maxs, EdgesOf
  <2> QED
    BY <2>1, <2>2, <2>3, SameGreatest DEF GreatestOf
<1> QED
  BY <1>5, <1>6, <1>7, DwellsAre

-----------------------------------------------------------------------------
(* The default graph as an instance of the module proved about.            *)
BaseGraph ==
  INSTANCE StateClassGraph_proofs WITH
    mode <- "EQUALITY", extrapolation <- FALSE,
    vertices <- vertices0, edges <- edges0, frontier <- frontier0,
    next_frontier <- next_frontier0, todo <- todo0,
    truncated <- truncated0, pc <- pc0

(* The engine is the same whichever graph it works for: the definitions    *)
(* are the same, once in each instance.                                    *)
LEMMA BaseEngine ==
  /\ Base!X0 = X0
  /\ \A t : Base!Execution(t) = Execution(t)
  /\ \A n, t : /\ Base!Earliest(n, t) = Earliest(n, t)
               /\ Base!Latest(n, t) = Latest(n, t)
  /\ \A n, m : /\ Base!StructEnabled(n, m) = StructEnabled(n, m)
               /\ Base!PriorityEnabled(n, m) = PriorityEnabled(n, m)
               /\ Base!ClockVars(n, m) = ClockVars(n, m)
  /\ \A a, b : Base!M!Smaller(a, b) = M!Smaller(a, b)
  /\ \A n, class : Base!TimeElapse(n, class) = TimeElapse(n, class)
  /\ \A n, class, t :
       /\ Base!CanFire(n, class, t) = CanFire(n, class, t)
       /\ Base!Successor(n, class, t) = Successor(n, class, t)
  /\ \A n : /\ Base!InitialClass(n) = InitialClass(n)
            /\ Base!ExtrapolationBound(n) = ExtrapolationBound(n)
  /\ \A n, x, class : Base!NormalIn(n, x, class) = NormalIn(n, x, class)
  /\ \A a, b, k : Base!CanMergeInto(a, b, k) = CanMergeInto(a, b, k)
<1>1. Base!X0 = X0
  BY Zenon
     DEF X0, Base!X0
<1>2. ASSUME NEW t
      PROVE  /\ Base!Execution(t) = Execution(t)
             /\ Base!Suspension(t) = Suspension(t)
  BY Zenon
     DEF Execution, Base!Execution, Suspension, Base!Suspension
<1>3. ASSUME NEW n, NEW t
      PROVE  /\ Base!Earliest(n, t) = Earliest(n, t)
             /\ Base!Latest(n, t) = Latest(n, t)
  BY Zenon
     DEF Earliest, Base!Earliest, Latest, Base!Latest, EffectiveEarliest,
         Base!EffectiveEarliest, EffectiveLatest, Base!EffectiveLatest
<1>4. ASSUME NEW n, NEW m
      PROVE  Base!StructEnabled(n, m) = StructEnabled(n, m)
  BY Zenon
     DEF StructEnabled, Base!StructEnabled, IsEnabled, Base!IsEnabled
<1>5. ASSUME NEW n, NEW m
      PROVE  Base!PriorityEnabled(n, m) = PriorityEnabled(n, m)
  BY Zenon
     DEF PriorityEnabled, Base!PriorityEnabled, FilterPriorityPerCore,
         Base!FilterPriorityPerCore, ParallelismOfCore,
         Base!ParallelismOfCore, KeptInUnboundedGroup,
         Base!KeptInUnboundedGroup, KeptInBoundedGroup,
         Base!KeptInBoundedGroup, CoreGroup, Base!CoreGroup, Precedes,
         Base!Precedes, Cardinality, Base!Cardinality, IsFiniteSet,
         Base!IsFiniteSet, StructEnabled, Base!StructEnabled, IsEnabled,
         Base!IsEnabled
<1>6. ASSUME NEW n, NEW m
      PROVE  Base!Suspended(n, m) = Suspended(n, m)
  BY Zenon, <1>4, <1>5
     DEF Suspended, Base!Suspended
<1>7. ASSUME NEW m, NEW n, NEW t
      PROVE  Base!FireMarking(m, n, t) = FireMarking(m, n, t)
  BY Zenon
     DEF FireMarking, Base!FireMarking, Overflows, Base!Overflows, Produced,
         Base!Produced
<1>8. ASSUME NEW X, NEW D
      PROVE  Base!M!Minimize(X, D) = M!Minimize(X, D)
  BY Zenon
     DEF M!Minimize, Base!M!Minimize, M!FoldSet, Base!M!FoldSet,
         M!MapThenFoldSet, Base!M!MapThenFoldSet, M!Relax, Base!M!Relax,
         M!RelaxVia, Base!M!RelaxVia, M!Whole, Base!M!Whole, M!SafeAdd,
         Base!M!SafeAdd, M!Smaller, Base!M!Smaller, M!IntMin, Base!M!IntMin
<1>9. ASSUME NEW X
      PROVE  Base!M!NewDBM(X) = M!NewDBM(X)
  BY Zenon, <1>1
     DEF M!NewDBM, Base!M!NewDBM
<1>10. ASSUME NEW a, NEW b
      PROVE  Base!M!Smaller(a, b) = M!Smaller(a, b)
  BY Zenon
     DEF M!Smaller, Base!M!Smaller
<1>11. ASSUME NEW X, NEW D, NEW i, NEW j, NEW b
      PROVE  Base!M!Tighten(X, D, i, j, b) = M!Tighten(X, D, i, j, b)
  BY Zenon
     DEF M!Tighten, Base!M!Tighten, M!TightenVia, Base!M!TightenVia,
         M!NegativeDiagonal, Base!M!NegativeDiagonal, M!SafeAdd,
         Base!M!SafeAdd, M!Smaller, Base!M!Smaller, M!IntMin, Base!M!IntMin
<1>12. ASSUME NEW X, NEW D, NEW k
      PROVE  Base!M!Extrapolate(X, D, k) = M!Extrapolate(X, D, k)
  BY Zenon, <1>8
     DEF M!Extrapolate, Base!M!Extrapolate, M!RelaxBound, Base!M!RelaxBound
<1>13. ASSUME NEW D, NEW E
      PROVE  Base!M!IncludedIn(D, E) = M!IncludedIn(D, E)
  BY Zenon
     DEF M!IncludedIn, Base!M!IncludedIn
<1>14. ASSUME NEW n, NEW m
      PROVE  Base!ClockVars(n, m) = ClockVars(n, m)
  BY Zenon, <1>1, <1>2, <1>4, <1>6
     DEF ClockVars, Base!ClockVars, ExecClocks, Base!ExecClocks, SuspClocks,
         Base!SuspClocks
<1>15. ASSUME NEW n, NEW m, NEW i
      PROVE  /\ Base!Running(n, m) = Running(n, m)
             /\ Base!Deadline(n, m, i) = Deadline(n, m, i)
  BY Zenon, <1>2, <1>3, <1>5, <1>6
     DEF Running, Base!Running, Deadline, Base!Deadline, SuspClocks,
         Base!SuspClocks
<1>16. ASSUME NEW n, NEW class
       PROVE  Base!TimeElapse(n, class) = TimeElapse(n, class)
  <2> DEFINE X == ClockVars(n, class.marking)
             run == Running(n, class.marking)
             released == [p \in X \X X |->
                            IF p[1] \in run /\ p[2] \notin run THEN INF
                            ELSE class.zone[p]]
             cap(p) == Deadline(n, class.marking, p[1])
             capped == [p \in X \X X |->
                          IF p[2] = X0 THEN M!Smaller(released[p], cap(p))
                          ELSE released[p]]
             cap0(p) == Base!Deadline(n, class.marking, p[1])
             capped0 == [p \in X \X X |->
                           IF p[2] = X0 THEN Base!M!Smaller(released[p], cap0(p))
                           ELSE released[p]]
  <2>1. capped0 = capped
    <3>1. \A p : Base!M!Smaller(released[p], cap0(p)) = M!Smaller(released[p], cap(p))
      BY Zenon, <1>10, <1>15
    <3> QED
      BY Zenon, <3>1
  <2>2. Base!TimeElapse(n, class) = [class EXCEPT !.zone = Base!M!Minimize(X, capped0)]
    <3> DEFINE run0 == Base!Running(n, class.marking)
               all0 == Base!ClockVars(n, class.marking)
               free(on, Y) == [p \in Y \X Y |->
                                IF p[1] \in on /\ p[2] \notin on THEN INF
                                ELSE class.zone[p]]
               tight(on, Y) == [p \in Y \X Y |->
                                 IF p[2] = Base!X0
                                 THEN Base!M!Smaller(free(on, Y)[p], cap0(p))
                                 ELSE free(on, Y)[p]]
    <3>1. Base!TimeElapse(n, class)
            = [class EXCEPT !.zone = Base!M!Minimize(all0, tight(run0, all0))]
      BY Zenon DEF Base!TimeElapse
    <3>2. run0 = run /\ all0 = X
      BY Zenon, <1>14, <1>15
    <3>3. tight(run, X) = capped0
      BY Zenon, <1>1
    <3> HIDE DEF tight, run0, all0
    <3> QED
      BY Zenon, <3>1, <3>2, <3>3
  <2>3. TimeElapse(n, class) = [class EXCEPT !.zone = M!Minimize(X, capped)]
    BY Zenon DEF TimeElapse
  <2>4. Base!M!Minimize(X, capped0) = M!Minimize(X, capped)
    BY Zenon, <1>8, <2>1
  <2> QED
    BY Zenon, <2>2, <2>3, <2>4
<1>17. ASSUME NEW n, NEW class, NEW t
      PROVE  Base!FiringDomain(n, class, t) = FiringDomain(n, class, t)
  BY Zenon, <1>1, <1>2, <1>3, <1>11, <1>14
     DEF FiringDomain, Base!FiringDomain
<1>18. ASSUME NEW n, NEW class, NEW t
      PROVE  Base!CanFire(n, class, t) = CanFire(n, class, t)
  BY Zenon, <1>17
     DEF CanFire, Base!CanFire, IsFirable, Base!IsFirable, X0, Base!X0,
         Execution, Base!Execution, Earliest, Base!Earliest,
         EffectiveEarliest, Base!EffectiveEarliest, PriorityEnabled,
         Base!PriorityEnabled, FilterPriorityPerCore,
         Base!FilterPriorityPerCore, ParallelismOfCore,
         Base!ParallelismOfCore, KeptInUnboundedGroup,
         Base!KeptInUnboundedGroup, KeptInBoundedGroup,
         Base!KeptInBoundedGroup, CoreGroup, Base!CoreGroup, Precedes,
         Base!Precedes, Cardinality, Base!Cardinality, IsFiniteSet,
         Base!IsFiniteSet, StructEnabled, Base!StructEnabled, IsEnabled,
         Base!IsEnabled
<1>19. ASSUME NEW D, NEW fresh
      PROVE  Base!Pin(D, fresh) = Pin(D, fresh)
  BY Zenon, <1>1
     DEF Pin, Base!Pin
<1>20. ASSUME NEW n, NEW class, NEW t
       PROVE  Base!Successor(n, class, t) = Successor(n, class, t)
  <2>1. ASSUME NEW F, NEW source, NEW m
        PROVE  Base!SuccessorZone(n, F, source, m, t) = SuccessorZone(n, F, source, m, t)
    <3> DEFINE X == ClockVars(n, m)
               surviving == {i \in X \cap ClockVars(n, source) : i[2] # t}
               carried == [p \in X \X X |->
                             IF p[1] \in surviving /\ p[2] \in surviving
                             THEN F[p] ELSE M!NewDBM(X)[p]]
               pinned == Pin(carried, X \ surviving)
    <3>1. Base!M!NewDBM(X) = M!NewDBM(X)
      BY Zenon, <1>9
    <3>2. Base!SuccessorZone(n, F, source, m, t)
            = Base!M!Minimize(X, Base!Pin(carried, X \ surviving))
      BY Zenon, <1>14, <3>1 DEF Base!SuccessorZone
    <3>3. SuccessorZone(n, F, source, m, t) = M!Minimize(X, pinned)
      BY Zenon DEF SuccessorZone
    <3>4. Base!Pin(carried, X \ surviving) = pinned
      BY Zenon, <1>19
    <3> QED
      BY Zenon, <1>8, <3>2, <3>3, <3>4
  <2>2. Base!FireMarking(class.marking, n, t) = FireMarking(class.marking, n, t)
    BY Zenon, <1>7
  <2>3. Base!FiringDomain(n, class, t) = FiringDomain(n, class, t)
    BY Zenon, <1>17
  <2> QED
    BY Zenon, <2>1, <2>2, <2>3 DEF Successor, Base!Successor
<1>21. ASSUME NEW n
      PROVE  Base!InitialClass(n) = InitialClass(n)
  BY Zenon, <1>8, <1>9, <1>14, <1>19
     DEF InitialClass, Base!InitialClass
<1>22. ASSUME NEW n
      PROVE  Base!ExtrapolationBound(n) = ExtrapolationBound(n)
  BY Zenon, <1>3
     DEF ExtrapolationBound, Base!ExtrapolationBound, FiniteEndpoints,
         Base!FiniteEndpoints
<1>23. ASSUME NEW n, NEW class
      PROVE  Base!ExtrapolateClass(n, class) = ExtrapolateClass(n, class)
  BY Zenon, <1>12, <1>14, <1>22
     DEF ExtrapolateClass, Base!ExtrapolateClass
<1>24. ASSUME NEW n, NEW x, NEW class
      PROVE  Base!NormalIn(n, x, class) = NormalIn(n, x, class)
  BY Zenon, <1>23
     DEF NormalIn, Base!NormalIn
<1>25. ASSUME NEW a, NEW b, NEW k
      PROVE  Base!CanMergeInto(a, b, k) = CanMergeInto(a, b, k)
  BY Zenon, <1>13
     DEF CanMergeInto, Base!CanMergeInto, CheckEquality, Base!CheckEquality,
         CheckInclusion, Base!CheckInclusion
<1> QED
  BY Zenon, <1>1, <1>2, <1>3, <1>4, <1>5, <1>10, <1>14, <1>16, <1>18, <1>20,
     <1>21, <1>22, <1>24, <1>25

LEMMA BaseGraphEngine ==
  /\ BaseGraph!X0 = X0
  /\ \A t : BaseGraph!Execution(t) = Execution(t)
  /\ \A n, t : /\ BaseGraph!Earliest(n, t) = Earliest(n, t)
               /\ BaseGraph!Latest(n, t) = Latest(n, t)
  /\ \A n, m : /\ BaseGraph!StructEnabled(n, m) = StructEnabled(n, m)
               /\ BaseGraph!PriorityEnabled(n, m) = PriorityEnabled(n, m)
               /\ BaseGraph!ClockVars(n, m) = ClockVars(n, m)
  /\ \A a, b : BaseGraph!M!Smaller(a, b) = M!Smaller(a, b)
  /\ \A n, class : BaseGraph!TimeElapse(n, class) = TimeElapse(n, class)
  /\ \A n, class, t :
       /\ BaseGraph!CanFire(n, class, t) = CanFire(n, class, t)
       /\ BaseGraph!Successor(n, class, t) = Successor(n, class, t)
  /\ \A n : /\ BaseGraph!InitialClass(n) = InitialClass(n)
            /\ BaseGraph!ExtrapolationBound(n) = ExtrapolationBound(n)
  /\ \A n, x, class : BaseGraph!NormalIn(n, x, class) = NormalIn(n, x, class)
  /\ \A a, b, k : BaseGraph!CanMergeInto(a, b, k) = CanMergeInto(a, b, k)
<1>1. BaseGraph!X0 = X0
  BY Zenon
     DEF X0, BaseGraph!X0
<1>2. ASSUME NEW t
      PROVE  /\ BaseGraph!Execution(t) = Execution(t)
             /\ BaseGraph!Suspension(t) = Suspension(t)
  BY Zenon
     DEF Execution, BaseGraph!Execution, Suspension, BaseGraph!Suspension
<1>3. ASSUME NEW n, NEW t
      PROVE  /\ BaseGraph!Earliest(n, t) = Earliest(n, t)
             /\ BaseGraph!Latest(n, t) = Latest(n, t)
  BY Zenon
     DEF Earliest, BaseGraph!Earliest, Latest, BaseGraph!Latest,
         EffectiveEarliest, BaseGraph!EffectiveEarliest, EffectiveLatest,
         BaseGraph!EffectiveLatest
<1>4. ASSUME NEW n, NEW m
      PROVE  BaseGraph!StructEnabled(n, m) = StructEnabled(n, m)
  BY Zenon
     DEF StructEnabled, BaseGraph!StructEnabled, IsEnabled,
         BaseGraph!IsEnabled
<1>5. ASSUME NEW n, NEW m
      PROVE  BaseGraph!PriorityEnabled(n, m) = PriorityEnabled(n, m)
  BY Zenon
     DEF PriorityEnabled, BaseGraph!PriorityEnabled, FilterPriorityPerCore,
         BaseGraph!FilterPriorityPerCore, ParallelismOfCore,
         BaseGraph!ParallelismOfCore, KeptInUnboundedGroup,
         BaseGraph!KeptInUnboundedGroup, KeptInBoundedGroup,
         BaseGraph!KeptInBoundedGroup, CoreGroup, BaseGraph!CoreGroup,
         Precedes, BaseGraph!Precedes, Cardinality, BaseGraph!Cardinality,
         IsFiniteSet, BaseGraph!IsFiniteSet, StructEnabled,
         BaseGraph!StructEnabled, IsEnabled, BaseGraph!IsEnabled
<1>6. ASSUME NEW n, NEW m
      PROVE  BaseGraph!Suspended(n, m) = Suspended(n, m)
  BY Zenon, <1>4, <1>5
     DEF Suspended, BaseGraph!Suspended
<1>7. ASSUME NEW m, NEW n, NEW t
      PROVE  BaseGraph!FireMarking(m, n, t) = FireMarking(m, n, t)
  BY Zenon
     DEF FireMarking, BaseGraph!FireMarking, Overflows, BaseGraph!Overflows,
         Produced, BaseGraph!Produced
<1>8. ASSUME NEW X, NEW D
      PROVE  BaseGraph!M!Minimize(X, D) = M!Minimize(X, D)
  BY Zenon
     DEF M!Minimize, BaseGraph!M!Minimize, M!FoldSet, BaseGraph!M!FoldSet,
         M!MapThenFoldSet, BaseGraph!M!MapThenFoldSet, M!Relax,
         BaseGraph!M!Relax, M!RelaxVia, BaseGraph!M!RelaxVia, M!Whole,
         BaseGraph!M!Whole, M!SafeAdd, BaseGraph!M!SafeAdd, M!Smaller,
         BaseGraph!M!Smaller, M!IntMin, BaseGraph!M!IntMin
<1>9. ASSUME NEW X
      PROVE  BaseGraph!M!NewDBM(X) = M!NewDBM(X)
  BY Zenon, <1>1
     DEF M!NewDBM, BaseGraph!M!NewDBM
<1>10. ASSUME NEW a, NEW b
      PROVE  BaseGraph!M!Smaller(a, b) = M!Smaller(a, b)
  BY Zenon
     DEF M!Smaller, BaseGraph!M!Smaller
<1>11. ASSUME NEW X, NEW D, NEW i, NEW j, NEW b
      PROVE  BaseGraph!M!Tighten(X, D, i, j, b) = M!Tighten(X, D, i, j, b)
  BY Zenon
     DEF M!Tighten, BaseGraph!M!Tighten, M!TightenVia,
         BaseGraph!M!TightenVia, M!NegativeDiagonal,
         BaseGraph!M!NegativeDiagonal, M!SafeAdd, BaseGraph!M!SafeAdd,
         M!Smaller, BaseGraph!M!Smaller, M!IntMin, BaseGraph!M!IntMin
<1>12. ASSUME NEW X, NEW D, NEW k
      PROVE  BaseGraph!M!Extrapolate(X, D, k) = M!Extrapolate(X, D, k)
  BY Zenon, <1>8
     DEF M!Extrapolate, BaseGraph!M!Extrapolate, M!RelaxBound,
         BaseGraph!M!RelaxBound
<1>13. ASSUME NEW D, NEW E
      PROVE  BaseGraph!M!IncludedIn(D, E) = M!IncludedIn(D, E)
  BY Zenon
     DEF M!IncludedIn, BaseGraph!M!IncludedIn
<1>14. ASSUME NEW n, NEW m
      PROVE  BaseGraph!ClockVars(n, m) = ClockVars(n, m)
  BY Zenon, <1>1, <1>2, <1>4, <1>6
     DEF ClockVars, BaseGraph!ClockVars, ExecClocks, BaseGraph!ExecClocks,
         SuspClocks, BaseGraph!SuspClocks
<1>15. ASSUME NEW n, NEW m, NEW i
      PROVE  /\ BaseGraph!Running(n, m) = Running(n, m)
             /\ BaseGraph!Deadline(n, m, i) = Deadline(n, m, i)
  BY Zenon, <1>2, <1>3, <1>5, <1>6
     DEF Running, BaseGraph!Running, Deadline, BaseGraph!Deadline,
         SuspClocks, BaseGraph!SuspClocks
<1>16. ASSUME NEW n, NEW class
       PROVE  BaseGraph!TimeElapse(n, class) = TimeElapse(n, class)
  <2> DEFINE X == ClockVars(n, class.marking)
             run == Running(n, class.marking)
             released == [p \in X \X X |->
                            IF p[1] \in run /\ p[2] \notin run THEN INF
                            ELSE class.zone[p]]
             cap(p) == Deadline(n, class.marking, p[1])
             capped == [p \in X \X X |->
                          IF p[2] = X0 THEN M!Smaller(released[p], cap(p))
                          ELSE released[p]]
             cap0(p) == BaseGraph!Deadline(n, class.marking, p[1])
             capped0 == [p \in X \X X |->
                           IF p[2] = X0 THEN BaseGraph!M!Smaller(released[p], cap0(p))
                           ELSE released[p]]
  <2>1. capped0 = capped
    <3>1. \A p : BaseGraph!M!Smaller(released[p], cap0(p)) = M!Smaller(released[p], cap(p))
      BY Zenon, <1>10, <1>15
    <3> QED
      BY Zenon, <3>1
  <2>2. BaseGraph!TimeElapse(n, class) = [class EXCEPT !.zone = BaseGraph!M!Minimize(X, capped0)]
    <3> DEFINE run0 == BaseGraph!Running(n, class.marking)
               all0 == BaseGraph!ClockVars(n, class.marking)
               free(on, Y) == [p \in Y \X Y |->
                                IF p[1] \in on /\ p[2] \notin on THEN INF
                                ELSE class.zone[p]]
               tight(on, Y) == [p \in Y \X Y |->
                                 IF p[2] = BaseGraph!X0
                                 THEN BaseGraph!M!Smaller(free(on, Y)[p], cap0(p))
                                 ELSE free(on, Y)[p]]
    <3>1. BaseGraph!TimeElapse(n, class)
            = [class EXCEPT !.zone = BaseGraph!M!Minimize(all0, tight(run0, all0))]
      BY Zenon DEF BaseGraph!TimeElapse
    <3>2. run0 = run /\ all0 = X
      BY Zenon, <1>14, <1>15
    <3>3. tight(run, X) = capped0
      BY Zenon, <1>1
    <3> HIDE DEF tight, run0, all0
    <3> QED
      BY Zenon, <3>1, <3>2, <3>3
  <2>3. TimeElapse(n, class) = [class EXCEPT !.zone = M!Minimize(X, capped)]
    BY Zenon DEF TimeElapse
  <2>4. BaseGraph!M!Minimize(X, capped0) = M!Minimize(X, capped)
    BY Zenon, <1>8, <2>1
  <2> QED
    BY Zenon, <2>2, <2>3, <2>4
<1>17. ASSUME NEW n, NEW class, NEW t
      PROVE  BaseGraph!FiringDomain(n, class, t) = FiringDomain(n, class, t)
  BY Zenon, <1>1, <1>2, <1>3, <1>11, <1>14
     DEF FiringDomain, BaseGraph!FiringDomain
<1>18. ASSUME NEW n, NEW class, NEW t
      PROVE  BaseGraph!CanFire(n, class, t) = CanFire(n, class, t)
  BY Zenon, <1>17
     DEF CanFire, BaseGraph!CanFire, IsFirable, BaseGraph!IsFirable, X0,
         BaseGraph!X0, Execution, BaseGraph!Execution, Earliest,
         BaseGraph!Earliest, EffectiveEarliest, BaseGraph!EffectiveEarliest,
         PriorityEnabled, BaseGraph!PriorityEnabled, FilterPriorityPerCore,
         BaseGraph!FilterPriorityPerCore, ParallelismOfCore,
         BaseGraph!ParallelismOfCore, KeptInUnboundedGroup,
         BaseGraph!KeptInUnboundedGroup, KeptInBoundedGroup,
         BaseGraph!KeptInBoundedGroup, CoreGroup, BaseGraph!CoreGroup,
         Precedes, BaseGraph!Precedes, Cardinality, BaseGraph!Cardinality,
         IsFiniteSet, BaseGraph!IsFiniteSet, StructEnabled,
         BaseGraph!StructEnabled, IsEnabled, BaseGraph!IsEnabled
<1>19. ASSUME NEW D, NEW fresh
      PROVE  BaseGraph!Pin(D, fresh) = Pin(D, fresh)
  BY Zenon, <1>1
     DEF Pin, BaseGraph!Pin
<1>20. ASSUME NEW n, NEW class, NEW t
       PROVE  BaseGraph!Successor(n, class, t) = Successor(n, class, t)
  <2>1. ASSUME NEW F, NEW source, NEW m
        PROVE  BaseGraph!SuccessorZone(n, F, source, m, t) = SuccessorZone(n, F, source, m, t)
    <3> DEFINE X == ClockVars(n, m)
               surviving == {i \in X \cap ClockVars(n, source) : i[2] # t}
               carried == [p \in X \X X |->
                             IF p[1] \in surviving /\ p[2] \in surviving
                             THEN F[p] ELSE M!NewDBM(X)[p]]
               pinned == Pin(carried, X \ surviving)
    <3>1. BaseGraph!M!NewDBM(X) = M!NewDBM(X)
      BY Zenon, <1>9
    <3>2. BaseGraph!SuccessorZone(n, F, source, m, t)
            = BaseGraph!M!Minimize(X, BaseGraph!Pin(carried, X \ surviving))
      BY Zenon, <1>14, <3>1 DEF BaseGraph!SuccessorZone
    <3>3. SuccessorZone(n, F, source, m, t) = M!Minimize(X, pinned)
      BY Zenon DEF SuccessorZone
    <3>4. BaseGraph!Pin(carried, X \ surviving) = pinned
      BY Zenon, <1>19
    <3> QED
      BY Zenon, <1>8, <3>2, <3>3, <3>4
  <2>2. BaseGraph!FireMarking(class.marking, n, t) = FireMarking(class.marking, n, t)
    BY Zenon, <1>7
  <2>3. BaseGraph!FiringDomain(n, class, t) = FiringDomain(n, class, t)
    BY Zenon, <1>17
  <2> QED
    BY Zenon, <2>1, <2>2, <2>3 DEF Successor, BaseGraph!Successor
<1>21. ASSUME NEW n
      PROVE  BaseGraph!InitialClass(n) = InitialClass(n)
  BY Zenon, <1>8, <1>9, <1>14, <1>19
     DEF InitialClass, BaseGraph!InitialClass
<1>22. ASSUME NEW n
      PROVE  BaseGraph!ExtrapolationBound(n) = ExtrapolationBound(n)
  BY Zenon, <1>3
     DEF ExtrapolationBound, BaseGraph!ExtrapolationBound, FiniteEndpoints,
         BaseGraph!FiniteEndpoints
<1>23. ASSUME NEW n, NEW class
      PROVE  BaseGraph!ExtrapolateClass(n, class) = ExtrapolateClass(n, class)
  BY Zenon, <1>12, <1>14, <1>22
     DEF ExtrapolateClass, BaseGraph!ExtrapolateClass
<1>24. ASSUME NEW n, NEW x, NEW class
      PROVE  BaseGraph!NormalIn(n, x, class) = NormalIn(n, x, class)
  BY Zenon, <1>23
     DEF NormalIn, BaseGraph!NormalIn
<1>25. ASSUME NEW a, NEW b, NEW k
      PROVE  BaseGraph!CanMergeInto(a, b, k) = CanMergeInto(a, b, k)
  BY Zenon, <1>13
     DEF CanMergeInto, BaseGraph!CanMergeInto, CheckEquality,
         BaseGraph!CheckEquality, CheckInclusion, BaseGraph!CheckInclusion
<1> QED
  BY Zenon, <1>1, <1>2, <1>3, <1>4, <1>5, <1>10, <1>14, <1>16, <1>18, <1>20,
     <1>21, <1>22, <1>24, <1>25

(* So is what the proofs say of a class and of a finished graph.           *)
LEMMA BaseGraphClasses ==
  ASSUME NEW n
  PROVE  /\ BaseGraph!IsNet(n) <=> IsNet(n)
         /\ \A class : BaseGraph!IsZoneClass(n, class) <=> IsZoneClass(n, class)
         /\ \A class : BaseGraph!IsCanonical(n, class) <=> IsCanonical(n, class)
         /\ \A N, B : BaseGraph!HasRoom(n, N, B) <=> HasRoom(n, N, B)
         /\ \A class, N, B : BaseGraph!Fits(n, class, N, B) <=> Fits(n, class, N, B)
<1>1. BaseGraph!IsNet(n) <=> IsNet(n)
  BY DEF IsNet, BaseGraph!IsNet, IsInterval, BaseGraph!IsInterval,
         EffectiveEarliest, BaseGraph!EffectiveEarliest, EffectiveLatest,
         BaseGraph!EffectiveLatest, IsFiniteSet, BaseGraph!IsFiniteSet
<1>2. \A X : BaseGraph!Zones(X) = Zones(X)
  BY DEF Zones, BaseGraph!Zones, Z!Matrices, BaseGraph!Z!Matrices, Z!Bounds,
         BaseGraph!Z!Bounds, Z!IntMin, BaseGraph!Z!IntMin
<1>3. \A class : BaseGraph!IsZoneClass(n, class) <=> IsZoneClass(n, class)
  BY <1>2, BaseGraphEngine DEF IsZoneClass, BaseGraph!IsZoneClass
<1>4. \A X, D : BaseGraph!ClosedForm(X, D) <=> ClosedForm(X, D)
  BY <1>2
     DEF ClosedForm, BaseGraph!ClosedForm, Z!ClosedOver,
         BaseGraph!Z!ClosedOver, Z!ZeroDiagonal, BaseGraph!Z!ZeroDiagonal
<1>5. \A m, D : BaseGraph!InTime(n, m, D) <=> InTime(n, m, D)
  BY BaseGraphEngine DEF InTime, BaseGraph!InTime
<1>6. \A class : BaseGraph!IsCanonical(n, class) <=> IsCanonical(n, class)
  BY <1>3, <1>4, <1>5, BaseGraphEngine DEF IsCanonical, BaseGraph!IsCanonical
<1>7. \A N, B : BaseGraph!HasRoom(n, N, B) <=> HasRoom(n, N, B)
  BY BaseGraphEngine DEF HasRoom, BaseGraph!HasRoom
<1>8. ASSUME NEW X PROVE BaseGraph!Cardinality(X) = Cardinality(X)
  BY Zenon DEF Cardinality, BaseGraph!Cardinality, IsFiniteSet,
         BaseGraph!IsFiniteSet
<1>9. \A class, N, B : BaseGraph!Fits(n, class, N, B) <=> Fits(n, class, N, B)
  BY <1>8, BaseGraphEngine DEF Fits, BaseGraph!Fits, Z!Within, BaseGraph!Z!Within
<1> QED
  BY <1>1, <1>3, <1>6, <1>7, <1>9

LEMMA BaseGraphFinished ==
  ASSUME NEW n, NEW x, NEW k, NEW V, NEW E
  PROVE  BaseGraph!IsFinished(n, x, k, V, E) <=> IsFinished(n, x, k, V, E)
<1>1. \A class : BaseGraph!IsZoneClass(n, class) <=> IsZoneClass(n, class)
  BY BaseGraphClasses
<1>2. \A system : BaseGraph!FirstClass(system) = FirstClass(system)
  BY Zenon, BaseGraphEngine DEF FirstClass, BaseGraph!FirstClass
<1>3. \A system, class : BaseGraph!LeavingClass(system, class) = LeavingClass(system, class)
  BY BaseGraphEngine DEF LeavingClass, BaseGraph!LeavingClass
<1>4. \A system, class, t :
        BaseGraph!NextClass(system, class, t) = NextClass(system, class, t)
  BY Zenon, BaseGraphEngine DEF NextClass, BaseGraph!NextClass
<1>5. ASSUME NEW class, NEW e
      PROVE  BaseGraph!HasWindow(n, class, e) <=> HasWindow(n, class, e)
  <2> DEFINE f == TimeElapse(n, class).zone
  <2>1. BaseGraph!TimeElapse(n, class).zone = f
    BY BaseGraphEngine
  <2>2. /\ BaseGraph!X0 = X0
        /\ BaseGraph!Execution(e.t) = Execution(e.t)
        /\ BaseGraph!Earliest(n, e.t) = Earliest(n, e.t)
        /\ BaseGraph!Latest(n, e.t) = Latest(n, e.t)
    BY BaseGraphEngine
  <2> HIDE DEF f
  <2> QED
    BY Zenon, <2>1, <2>2
       DEF HasWindow, BaseGraph!HasWindow, M!Smaller, BaseGraph!M!Smaller, f
<1>6. \A source, e, target :
        BaseGraph!Leads(n, x, k, source, e, target) <=> Leads(n, x, k, source, e, target)
  BY <1>3, <1>4, <1>5, BaseGraphEngine DEF Leads, BaseGraph!Leads
<1>7. \A a, b : BaseGraph!CanMergeInto(a, b, k) <=> CanMergeInto(a, b, k)
  BY BaseGraphEngine
<1> QED
  BY SMTT(60), <1>1, <1>2, <1>3, <1>4, <1>6, <1>7
     DEF IsFinished, BaseGraph!IsFinished

(* And the steps that build the default graph are those of the instance.   *)
LEMMA BaseLoop ==
  /\ Base!Init <=> BaseGraph!Init
  /\ Base!LoopStep <=> BaseGraph!LoopStep
  /\ Base!Complete <=> BaseGraph!Complete
<1>1. Base!Init <=> BaseGraph!Init
  <2>1. \A class : Base!Normalised(class) = BaseGraph!Normalised(class)
    BY Zenon, BaseEngine, BaseGraphEngine DEF Base!Normalised, BaseGraph!Normalised
  <2> QED
    BY <2>1, BaseEngine, BaseGraphEngine DEF Base!Init, BaseGraph!Init
<1>2. Base!u = BaseGraph!u /\ Base!current = BaseGraph!current
  BY Zenon DEF Base!u, BaseGraph!u, Base!current, BaseGraph!current
<1>3. Base!Elapsed = BaseGraph!Elapsed
  BY Zenon, <1>2, BaseEngine, BaseGraphEngine DEF Base!Elapsed, BaseGraph!Elapsed
<1>4. Base!NewClass = BaseGraph!NewClass
  BY Zenon, <1>2, <1>3, BaseEngine, BaseGraphEngine
     DEF Base!NewClass, BaseGraph!NewClass, Base!Normalised,
         BaseGraph!Normalised
<1>5. \A class : Base!Matches(class) = BaseGraph!Matches(class)
  BY BaseEngine, BaseGraphEngine DEF Base!Matches, BaseGraph!Matches
<1>6. \A class : Base!FirstMatch(class) = BaseGraph!FirstMatch(class)
  BY Zenon, <1>5 DEF Base!FirstMatch, BaseGraph!FirstMatch
<1>7. ASSUME NEW class, NEW t, NEW v
      PROVE  Base!FiringEdge(class, t, v) = BaseGraph!FiringEdge(class, t, v)
  <2>1. /\ Base!TimeElapse(net, class) = BaseGraph!TimeElapse(net, class)
        /\ Base!X0 = BaseGraph!X0
        /\ Base!Execution(t) = BaseGraph!Execution(t)
        /\ Base!Earliest(net, t) = BaseGraph!Earliest(net, t)
        /\ Base!Latest(net, t) = BaseGraph!Latest(net, t)
    BY BaseEngine, BaseGraphEngine
  <2> QED
    BY Zenon, <1>2, <2>1
       DEF Base!FiringEdge, BaseGraph!FiringEdge, Base!M!Smaller,
           BaseGraph!M!Smaller
<1>8. (Base!Full <=> BaseGraph!Full) /\ (Base!Trying <=> BaseGraph!Trying)
  BY DEF Base!Full, BaseGraph!Full, Base!Trying, BaseGraph!Trying
<1>9. Base!CanFire(net, Base!Elapsed, Base!current)
        <=> BaseGraph!CanFire(net, BaseGraph!Elapsed, BaseGraph!current)
  BY <1>2, <1>3, BaseEngine, BaseGraphEngine
<1>10. Base!StopAtLimit \/ Base!NextLevel \/ Base!Finish \/ Base!EndVertex
         <=> \/ BaseGraph!StopAtLimit \/ BaseGraph!NextLevel
             \/ BaseGraph!Finish \/ BaseGraph!EndVertex
  BY <1>8
     DEF Base!StopAtLimit, BaseGraph!StopAtLimit, Base!NextLevel,
         BaseGraph!NextLevel, Base!Finish, BaseGraph!Finish, Base!EndVertex,
         BaseGraph!EndVertex
<1>11. Base!BeginVertex <=> BaseGraph!BeginVertex
  BY <1>8, BaseEngine, BaseGraphEngine DEF Base!BeginVertex, BaseGraph!BeginVertex
<1>12. Base!SkipTransition <=> BaseGraph!SkipTransition
  BY <1>2, <1>8, <1>9 DEF Base!SkipTransition, BaseGraph!SkipTransition
<1>13. Base!Merge <=> BaseGraph!Merge
  BY <1>2, <1>4, <1>5, <1>6, <1>7, <1>8, <1>9 DEF Base!Merge, BaseGraph!Merge
<1>14. Base!DropSuccessor <=> BaseGraph!DropSuccessor
  BY <1>2, <1>4, <1>5, <1>8, <1>9 DEF Base!DropSuccessor, BaseGraph!DropSuccessor
<1>15. Base!Discover <=> BaseGraph!Discover
  BY <1>2, <1>4, <1>5, <1>7, <1>8, <1>9 DEF Base!Discover, BaseGraph!Discover
<1>16. Base!Complete <=> BaseGraph!Complete
  BY DEF Base!Complete, BaseGraph!Complete
<1> QED
  BY <1>1, <1>10, <1>11, <1>12, <1>13, <1>14, <1>15, <1>16
     DEF Base!LoopStep, BaseGraph!LoopStep, Base!Expand, BaseGraph!Expand

-----------------------------------------------------------------------------
(* The inductive invariant: that of each construction, whatever the other  *)
(* does, and that the default classes are canonical.                       *)
CompareInv ==
  /\ GraphInv /\ BaseGraph!GraphInv /\ BaseGraph!VerticesAreCanonical
  /\ extrapolation \in BOOLEAN

(* The numbers of the default graph leave room for the sums the engine     *)
(* forms of them: N bounds its clocks, B its finite bounds.                *)
BaseRoomy ==
  \E N, B :
    /\ HasRoom(net, N, B)
    /\ \A b \in DOMAIN vertices0 : Fits(net, vertices0[b], N, B)

LEMMA BaseNets == BaseGraph!GraphAssumption
BY GraphAssumption, BaseGraphClasses DEF BaseGraph!GraphAssumption

LEMMA CompareStarts == CompareInit => CompareInv
<1> SUFFICES ASSUME CompareInit PROVE CompareInv
  OBVIOUS
<1>1. Init /\ BaseGraph!Init
  BY BaseLoop DEF CompareInit
<1>2. GraphInv
  BY <1>1, InitGraphInv
<1>3. BaseGraph!GraphInv
  BY <1>1, BaseNets, INFAssumption, BaseGraph!InitGraphInv
<1>4. BaseGraph!VerticesAreCanonical
  BY <1>1, BaseNets, INFAssumption, BaseGraph!InitCanonical
<1>5. extrapolation \in BOOLEAN
  BY <1>1 DEF Init
<1> QED
  BY <1>2, <1>3, <1>4, <1>5 DEF CompareInv

LEMMA CompareSteps ==
  ASSUME CompareInv, [CompareNext]_<<vars, baseVars>>
  PROVE  CompareInv'
<1>1. CASE Base!LoopStep /\ UNCHANGED vars
  <2>1. BaseGraph!Build
    BY <1>1, BaseLoop DEF BaseGraph!Build, BaseGraph!input, vars, input
  <2>2. GraphInv'
    BY <1>1, GraphInvStands DEF CompareInv
  <2>3. BaseGraph!GraphInv'
    BY <2>1, BaseNets, INFAssumption, BaseGraph!BuildGraphInv DEF CompareInv
  <2>4. BaseGraph!VerticesAreCanonical'
    BY <2>1, BaseNets, INFAssumption, BaseGraph!NextKeepsCanonical
       DEF CompareInv, BaseGraph!GraphInv, BaseGraph!Next
  <2>5. extrapolation' = extrapolation
    BY <1>1 DEF vars, input
  <2> QED
    BY <2>2, <2>3, <2>4, <2>5 DEF CompareInv
<1>2. ASSUME UNCHANGED <<net, max_states>>, UNCHANGED baseVars
      PROVE  BaseGraph!GraphInv' /\ BaseGraph!VerticesAreCanonical'
  <2>1. UNCHANGED BaseGraph!vars
    BY <1>2 DEF baseVars, BaseGraph!vars, BaseGraph!input
  <2>2. BaseGraph!GraphInv'
    BY <2>1, BaseNets, INFAssumption, BaseGraph!GraphInvStands DEF CompareInv
  <2>3. BaseGraph!VerticesAreCanonical'
    BY <2>1, BaseNets, INFAssumption, BaseGraph!NextKeepsCanonical
       DEF CompareInv, BaseGraph!GraphInv
  <2> QED
    BY <2>2, <2>3
<1>3. CASE Build /\ UNCHANGED baseVars
  <2>1. GraphInv'
    BY <1>3, BuildGraphInv DEF CompareInv
  <2>2. UNCHANGED <<net, max_states, extrapolation>>
    BY <1>3 DEF Build, input
  <2> QED
    BY <1>2, <1>3, <2>1, <2>2 DEF CompareInv
<1>4. CASE UNCHANGED <<vars, baseVars>>
  <2>1. GraphInv'
    BY <1>4, GraphInvStands DEF CompareInv
  <2>2. UNCHANGED <<net, max_states, extrapolation>>
    BY <1>4 DEF vars, input
  <2> QED
    BY <1>2, <1>4, <2>1, <2>2 DEF CompareInv
<1> QED
  BY <1>1, <1>3, <1>4 DEF CompareNext

(* When both graphs are complete they can be compared.                     *)
LEMMA BuildsCompare ==
  ASSUME CompareInv, BothComplete, BaseRoomy
  PROVE  \E o : /\ o = FALSE
                /\ Comparable(net, o, extrapolation, mode, vertices, edges,
                              vertices0, edges0)
<1>1. PICK o : o = FALSE
  OBVIOUS
<1>2. IsNet(net) /\ extrapolation \in BOOLEAN
  BY GraphAssumption DEF CompareInv, GraphInv, IInv, BuildTypeOK
<1>3. IsFinished(net, extrapolation, mode, vertices, edges)
  BY CompleteIsFinished DEF CompareInv, BothComplete
<1>4. IsFinished(net, o, "EQUALITY", vertices0, edges0)
  <2>1. BaseGraph!Complete
    BY BaseLoop DEF BothComplete
  <2>2. BaseGraph!IsFinished(net, FALSE, "EQUALITY", vertices0, edges0)
    BY <2>1, BaseNets, INFAssumption, BaseGraph!CompleteIsFinished DEF CompareInv
  <2>3. BaseGraph!IsFinished(net, o, "EQUALITY", vertices0, edges0)
    BY <1>1, <2>2
  <2> QED
    BY <2>3, BaseGraphFinished
<1>5. \A b \in DOMAIN vertices0 : IsCanonical(net, vertices0[b])
  <2>1. BaseGraph!Roomy
    BY BaseGraphClasses DEF BaseRoomy, BaseGraph!Roomy
  <2>2. \A b \in DOMAIN vertices0 : BaseGraph!IsCanonical(net, vertices0[b])
    BY <2>1 DEF CompareInv, BaseGraph!VerticesAreCanonical
  <2> QED
    BY <2>2, BaseGraphClasses
<1> QED
  BY <1>1, <1>2, <1>3, <1>4, <1>5 DEF Comparable, BaseRoomy

LEMMA CoveringIsInclusion ==
  ASSUME NEW class, NEW y
  PROVE  Covers(class, y) <=> CheckInclusion(class, vertices[y])
<1>1. vertices[y].marking = class.marking <=> class.marking = vertices[y].marking
  BY Zenon
<1> QED
  BY Zenon, <1>1 DEF Covers, CheckInclusion

(* CompareBuilds: whatever the mode, with extrapolation or without, every  *)
(* class of the default graph is inside a class of the other graph:        *)
(* neither merging (state_class.cpp, check_inclusion) nor widening loses a *)
(* valuation.                                                              *)
THEOREM EveryDefaultClassIsCovered ==
  CompareSpec =>
    [](BaseRoomy =>
         (BothComplete => \A v \in DOMAIN vertices0 :
                            \E y \in DOMAIN vertices : Covers(vertices0[v], y)))
<1>1. CompareInv => (BaseRoomy =>
         (BothComplete => \A v \in DOMAIN vertices0 :
                            \E y \in DOMAIN vertices : Covers(vertices0[v], y)))
  <2> SUFFICES ASSUME CompareInv, BaseRoomy, BothComplete,
                      NEW v \in DOMAIN vertices0
               PROVE  \E y \in DOMAIN vertices : Covers(vertices0[v], y)
    OBVIOUS
  <2>1. PICK o : Comparable(net, o, extrapolation, mode, vertices, edges,
                            vertices0, edges0)
    BY BuildsCompare
  <2>2. \E y \in DOMAIN vertices : CheckInclusion(vertices0[v], vertices[y])
    BY <2>1, EveryClassCovered
  <2> QED
    BY <2>2, CoveringIsInclusion
<1> QED
  BY <1>1, CompareStarts, CompareSteps, PTL DEF CompareSpec

(* CompareBuilds: without extrapolation the graph made by merging has the  *)
(* same markings, the same firings between them and the same dead ends as  *)
(* the default graph.                                                      *)
THEOREM MergingKeepsBehaviour ==
  CompareSpec => [](~ extrapolation /\ BaseRoomy => SameBehaviour)
<1>1. CompareInv => (~ extrapolation /\ BaseRoomy => SameBehaviour)
  <2> SUFFICES ASSUME CompareInv, BaseRoomy, BothComplete, ~ extrapolation
               PROVE  Behaviour(vertices, edges) = Behaviour(vertices0, edges0)
    BY DEF SameBehaviour
  <2>1. PICK o : /\ o = FALSE
                 /\ Comparable(net, o, extrapolation, mode, vertices, edges,
                               vertices0, edges0)
    BY BuildsCompare
  <2>2. Comparable(net, o, o, mode, vertices, edges, vertices0, edges0)
    <3>1. extrapolation = o
      BY <2>1 DEF CompareInv
    <3> QED
      BY <2>1, <3>1
  <2> QED
    BY <2>2, SameBehaviours
<1> QED
  BY <1>1, CompareStarts, CompareSteps, PTL DEF CompareSpec

(* CompareBuilds: without extrapolation merging keeps a part of the        *)
(* default graph's classes, one of them around every other, and no         *)
(* firing's least or greatest dwell time changes.                          *)
THEOREM MergingChangesNothing ==
  CompareSpec => [](~ extrapolation /\ BaseRoomy => MergingIsLossless)
<1>1. CompareInv => (~ extrapolation /\ BaseRoomy => MergingIsLossless)
  <2> SUFFICES ASSUME CompareInv, BaseRoomy, BothComplete, ~ extrapolation
               PROVE  MergingIsLossless
    BY DEF MergingIsLossless, NothingLost, MergingKeepsDwells
  <2>1. PICK o : /\ o = FALSE
                 /\ Comparable(net, o, extrapolation, mode, vertices, edges,
                               vertices0, edges0)
    BY BuildsCompare
  <2>2. Comparable(net, o, o, mode, vertices, edges, vertices0, edges0)
    <3>1. extrapolation = o
      BY <2>1 DEF CompareInv
    <3> QED
      BY <2>1, <3>1
  <2>3. \A b \in DOMAIN vertices0 :
          \E y \in DOMAIN vertices : CheckInclusion(vertices0[b], vertices[y])
    BY <2>2, EveryClassCovered
  <2>4. Len(vertices) <= Len(vertices0)
    BY <2>2, NoMoreClasses
  <2>5. \A y \in DOMAIN vertices : \E b \in DOMAIN vertices0 : vertices[y] = vertices0[b]
    BY <2>2, EveryClassKept
  <2>6. {vertices[y] : y \in DOMAIN vertices} \subseteq
          {vertices0[b] : b \in DOMAIN vertices0}
    BY <2>5
  <2>7. Dwells(vertices, edges) = Dwells(vertices0, edges0)
    BY <2>2, SameDwells
  <2>8. NothingLost
    BY <2>3, <2>4, CoveringIsInclusion DEF NothingLost
  <2> QED
    BY <2>6, <2>7, <2>8 DEF MergingIsLossless, MergingKeepsDwells
<1> QED
  BY <1>1, CompareStarts, CompareSteps, PTL DEF CompareSpec

-----------------------------------------------------------------------------
(* The scheduler of the explored runs is that of the graph.                *)
LEMMA SameScheduler ==
  \A s, n, m, t :
    /\ R(s)!Earliest(n, t) = Earliest(n, t)
    /\ R(s)!Latest(n, t) = Latest(n, t)
    /\ R(s)!StructEnabled(n, m) = StructEnabled(n, m)
    /\ R(s)!PriorityEnabled(n, m) = PriorityEnabled(n, m)
    /\ R(s)!Suspended(n, m) = Suspended(n, m)
    /\ R(s)!FireMarking(m, n, t) = FireMarking(m, n, t)
<1>1. \A s, n, t : /\ R(s)!Earliest(n, t) = Earliest(n, t)
                   /\ R(s)!Latest(n, t) = Latest(n, t)
  BY DEF R!Earliest, Earliest, R!EffectiveEarliest, EffectiveEarliest,
         R!Latest, Latest, R!EffectiveLatest, EffectiveLatest
<1>2. \A s, n, m : R(s)!StructEnabled(n, m) = StructEnabled(n, m)
  BY DEF R!StructEnabled, StructEnabled, R!IsEnabled, IsEnabled
<1>3. \A s, n, m : R(s)!PriorityEnabled(n, m) = PriorityEnabled(n, m)
  BY Zenon
     DEF R!PriorityEnabled, PriorityEnabled, R!FilterPriorityPerCore,
         FilterPriorityPerCore, R!ParallelismOfCore, ParallelismOfCore,
         R!KeptInUnboundedGroup, KeptInUnboundedGroup, R!KeptInBoundedGroup,
         KeptInBoundedGroup, R!CoreGroup, CoreGroup, R!Precedes, Precedes,
         R!Cardinality, Cardinality, R!IsFiniteSet, IsFiniteSet,
         R!StructEnabled, StructEnabled, R!IsEnabled, IsEnabled
<1>4. \A s, n, m : R(s)!Suspended(n, m) = Suspended(n, m)
  BY <1>2, <1>3 DEF R!Suspended, Suspended
<1>5. \A s, n, m, t : R(s)!FireMarking(m, n, t) = FireMarking(m, n, t)
  BY Zenon
     DEF R!FireMarking, FireMarking, R!Overflows, Overflows, R!Produced, Produced
<1> QED
  BY <1>1, <1>2, <1>3, <1>4, <1>5

(* What TimedRun says of a state, spelled out.                             *)
LEMMA StateView ==
  ASSUME NEW s
  PROVE  LET active == PriorityEnabled(net, s.marking)
             stopped == Suspended(net, s.marking)
         IN  /\ R(s)!Enabled = StructEnabled(net, s.marking)
             /\ R(s)!Active = active /\ R(s)!Stopped = stopped
             /\ \A t : R(s)!IsFirable(t) <=> t \in active /\ s.h[t] >= Earliest(net, t)
             /\ R(s)!MayElapse <=> \A t \in active : s.h[t] < Latest(net, t)
             /\ R(s)!WithinBound <=> /\ \A t \in active : s.h[t] < MaxClock
                                     /\ \A t \in stopped : s.w[t] < MaxClock
             /\ R(s)!CanElapse <=> R(s)!MayElapse /\ R(s)!WithinBound
             /\ \A t : R(s)!After(t) = FireMarking(s.marking, net, t)
<1>1. /\ R(s)!Enabled = StructEnabled(net, s.marking)
      /\ R(s)!Active = PriorityEnabled(net, s.marking)
      /\ R(s)!Stopped = Suspended(net, s.marking)
  BY SameScheduler DEF R!Enabled, R!Active, R!Stopped
<1> QED
  BY <1>1, SameScheduler
     DEF R!IsFirable, R!MayElapse, R!WithinBound, R!CanElapse, R!After

-----------------------------------------------------------------------------
(* The search.  Every state it finds has clocks within the bound, and it   *)
(* stops only when the states after those it has found are found too.      *)
IsState(s) ==
  /\ s = [marking |-> s.marking, h |-> s.h, w |-> s.w]
  /\ s.h \in [net.transitions -> 0 .. MaxClock]
  /\ s.w \in [net.transitions -> 0 .. MaxClock]

SearchInv ==
  /\ \A s \in reached : IsState(s)
  /\ wave \subseteq reached
  /\ \A s \in reached \ wave : NextStates(s) \subseteq reached
  /\ reached # {} => Start \in reached /\ pc \in {"exploring", "done"}
  /\ pc = "done" => wave = {}

LEMMA StartIsState == IsState(Start)
BY ExploreAssumption DEF IsState, Start

LEMMA NextAreStates ==
  ASSUME NEW s, IsState(s), NEW r \in NextStates(s)
  PROVE  IsState(r)
<1> DEFINE active == PriorityEnabled(net, s.marking)
           stopped == Suspended(net, s.marking)
<1>1. /\ s.h \in [net.transitions -> 0 .. MaxClock]
      /\ s.w \in [net.transitions -> 0 .. MaxClock]
      /\ MaxClock \in Nat
  BY ExploreAssumption DEF IsState
<1>2. CASE r \in {AfterFiring(s, t) : t \in Firable(s)}
  <2>1. PICK t : r = AfterFiring(s, t)
    BY <1>2
  <2>2. /\ R(s)!ExecutionAfter(t) \in [net.transitions -> 0 .. MaxClock]
        /\ R(s)!SuspensionAfter(t) \in [net.transitions -> 0 .. MaxClock]
    BY <1>1 DEF R!ExecutionAfter, R!SuspensionAfter, R!Surviving
  <2> QED
    BY <2>1, <2>2 DEF IsState, AfterFiring
<1>3. CASE R(s)!CanElapse /\ r = AfterElapse(s)
  <2>1. /\ \A t \in active : s.h[t] < MaxClock
        /\ \A t \in stopped : s.w[t] < MaxClock
        /\ R(s)!Active = active /\ R(s)!Stopped = stopped
    BY <1>3, StateView
  <2>2. /\ R(s)!Advanced(s.h, R(s)!Active) \in [net.transitions -> 0 .. MaxClock]
        /\ R(s)!Advanced(s.w, R(s)!Stopped) \in [net.transitions -> 0 .. MaxClock]
    BY <1>1, <2>1 DEF R!Advanced
  <2>3. r = [marking |-> s.marking, h |-> R(s)!Advanced(s.h, R(s)!Active),
             w |-> R(s)!Advanced(s.w, R(s)!Stopped)]
    BY <1>3 DEF AfterElapse, IsState
  <2> QED
    BY <2>2, <2>3 DEF IsState
<1> QED
  BY <1>2, <1>3 DEF NextStates

LEMMA SearchStarts == ExploreInit => SearchInv
BY DEF ExploreInit, Init, SearchInv

LEMMA SameView ==
  ASSUME net' = net
  PROVE  /\ Start' = Start
         /\ \A s : NextStates(s)' = NextStates(s) /\ (IsState(s)' <=> IsState(s))
<1>1. Start' = Start
  BY DEF Start
<1>2. ASSUME NEW s PROVE NextStates(s)' = NextStates(s)
  BY DEF NextStates, AfterFiring, AfterElapse, Firable,
         R!IsFirable, R!CanElapse, R!MayElapse, R!WithinBound, R!After,
         R!Active, R!Stopped, R!Enabled, R!Advanced, R!ExecutionAfter,
         R!SuspensionAfter, R!Surviving
<1>3. ASSUME NEW s PROVE IsState(s)' <=> IsState(s)
  BY DEF IsState
<1> QED
  BY <1>1, <1>2, <1>3

-----------------------------------------------------------------------------
(* A state of a run as a point of the clocks of its marking, and the state *)
(* k units later.                                                          *)
PointAt(s) ==
  [i \in ClockVars(net, s.marking) |->
     IF i = X0 THEN 0 ELSE IF i[1] = "Execution" THEN s.h[i[2]] ELSE s.w[i[2]]]

Shifted(clock, running, k) ==
  [t \in net.transitions |-> IF t \in running THEN clock[t] + k ELSE clock[t]]

Later(s, k) ==
  [marking |-> s.marking,
   h |-> Shifted(s.h, PriorityEnabled(net, s.marking), k),
   w |-> Shifted(s.w, Suspended(net, s.marking), k)]

LEMMA PointParts ==
  ASSUME net \in Nets, NEW s
  PROVE  /\ PointAt(s)[X0] = 0
         /\ \A t \in StructEnabled(net, s.marking) : PointAt(s)[Execution(t)] = s.h[t]
         /\ \A t \in Suspended(net, s.marking) : PointAt(s)[Suspension(t)] = s.w[t]
<1>1. IsNet(net)
  BY GraphAssumption
<1> DEFINE X == ClockVars(net, s.marking)
           value(i) == IF i = X0 THEN 0
                       ELSE IF i[1] = "Execution" THEN s.h[i[2]] ELSE s.w[i[2]]
<1>2. \A i \in X : PointAt(s)[i] = value(i)
  BY DEF PointAt
<1>3. /\ X0 \in X
      /\ \A t \in StructEnabled(net, s.marking) : Execution(t) \in X
      /\ \A t \in Suspended(net, s.marking) : Suspension(t) \in X
      /\ \A t : /\ Execution(t)[1] = "Execution" /\ Execution(t)[2] = t
                /\ Suspension(t)[1] = "Suspension" /\ Suspension(t)[2] = t
                /\ Execution(t) # X0 /\ Suspension(t) # X0
  BY <1>1, KindsOfClocks
<1> HIDE DEF X
<1>4. /\ value(X0) = 0
      /\ \A t : value(Execution(t)) = s.h[t] /\ value(Suspension(t)) = s.w[t]
  BY <1>3
<1> QED
  BY <1>2, <1>3, <1>4

LEMMA LaterStarts ==
  ASSUME NEW s, IsState(s)
  PROVE  Later(s, 0) = s
<1>1. /\ Shifted(s.h, PriorityEnabled(net, s.marking), 0) = s.h
      /\ Shifted(s.w, Suspended(net, s.marking), 0) = s.w
  BY ExploreAssumption DEF Shifted, IsState
<1> QED
  BY <1>1 DEF Later, IsState

LEMMA LaterElapses ==
  ASSUME NEW s, IsState(s), NEW k \in Nat
  PROVE  AfterElapse(Later(s, k)) = Later(s, k + 1)
<1> DEFINE r == Later(s, k)
           active == PriorityEnabled(net, s.marking)
           stopped == Suspended(net, s.marking)
<1>1. /\ r.marking = s.marking
      /\ r.h = Shifted(s.h, active, k) /\ r.w = Shifted(s.w, stopped, k)
      /\ r = [marking |-> r.marking, h |-> r.h, w |-> r.w]
  BY DEF Later
<1>2. R(r)!Active = active /\ R(r)!Stopped = stopped
  BY <1>1, StateView
<1>3. \A t \in net.transitions : s.h[t] \in Nat /\ s.w[t] \in Nat
  BY ExploreAssumption DEF IsState
<1>4. \A t \in net.transitions :
        /\ Shifted(s.h, active, k)[t] = IF t \in active THEN s.h[t] + k ELSE s.h[t]
        /\ Shifted(s.w, stopped, k)[t] = IF t \in stopped THEN s.w[t] + k ELSE s.w[t]
  BY DEF Shifted
<1> HIDE DEF r
<1>5. R(r)!Advanced(r.h, active) = Shifted(s.h, active, k + 1)
  <2>1. R(r)!Advanced(r.h, active)
          = [t \in net.transitions |-> IF t \in active THEN r.h[t] + 1 ELSE r.h[t]]
    BY DEF R!Advanced
  <2>2. \A t \in net.transitions :
          (IF t \in active THEN r.h[t] + 1 ELSE r.h[t])
            = IF t \in active THEN s.h[t] + (k + 1) ELSE s.h[t]
    BY <1>1, <1>3, <1>4
  <2> QED
    BY <2>1, <2>2 DEF Shifted
<1>6. R(r)!Advanced(r.w, stopped) = Shifted(s.w, stopped, k + 1)
  <2>1. R(r)!Advanced(r.w, stopped)
          = [t \in net.transitions |-> IF t \in stopped THEN r.w[t] + 1 ELSE r.w[t]]
    BY DEF R!Advanced
  <2>2. \A t \in net.transitions :
          (IF t \in stopped THEN r.w[t] + 1 ELSE r.w[t])
            = IF t \in stopped THEN s.w[t] + (k + 1) ELSE s.w[t]
    BY <1>1, <1>3, <1>4
  <2> QED
    BY <2>1, <2>2 DEF Shifted
<1>7. AfterElapse(r) = [marking |-> s.marking, h |-> Shifted(s.h, active, k + 1),
                        w |-> Shifted(s.w, stopped, k + 1)]
  <2>1. AfterElapse(r) = [r EXCEPT !.h = Shifted(s.h, active, k + 1),
                                   !.w = Shifted(s.w, stopped, k + 1)]
    BY <1>2, <1>5, <1>6 DEF AfterElapse
  <2> QED
    BY <1>1, <2>1
<1> QED
  BY <1>7 DEF Later, r

LEMMA PointLater ==
  ASSUME net \in Nets, NEW s, NEW k
  PROVE  PointAt(Later(s, k)) = Delayed(net, s.marking, PointAt(s), k)
<1> DEFINE m == s.marking
           X == ClockVars(net, m)
           r == Later(s, k)
<1>1. IsNet(net)
  BY GraphAssumption
<1>2. /\ PriorityEnabled(net, m) \subseteq StructEnabled(net, m)
      /\ Suspended(net, m) \subseteq StructEnabled(net, m)
      /\ StructEnabled(net, m) \subseteq net.transitions
  BY SchedulerSelects
<1>3. /\ r.marking = m
      /\ r.h = Shifted(s.h, PriorityEnabled(net, m), k)
      /\ r.w = Shifted(s.w, Suspended(net, m), k)
  BY DEF Later
<1>4. \A i \in X : /\ \/ i = X0
                      \/ \E t \in StructEnabled(net, m) : i = Execution(t)
                      \/ \E t \in Suspended(net, m) : i = Suspension(t)
  BY <1>1, KindsOfClocks
<1>5. /\ X0 \notin Running(net, m)
      /\ \A t : Execution(t) \in Running(net, m) <=> t \in PriorityEnabled(net, m)
      /\ \A t \in Suspended(net, m) : Suspension(t) \in Running(net, m)
  <2>1. \A t, x : /\ Execution(t) # X0 /\ Execution(t) # Suspension(x)
                  /\ Execution(t) = Execution(x) => t = x
    BY <1>1, KindsOfClocks
  <2>2. X0 \notin Running(net, m)
    BY <1>1, KindsOfClocks
  <2> QED
    BY <2>1, <2>2 DEF Running, SuspClocks
<1> HIDE DEF r
<1>6. ASSUME NEW i \in X
      PROVE  PointAt(r)[i] = IF i \in Running(net, m) THEN PointAt(s)[i] + k
                             ELSE PointAt(s)[i]
  <2>1. CASE i = X0
    BY <1>5, <2>1, PointParts
  <2>2. ASSUME NEW t \in StructEnabled(net, m), i = Execution(t)
        PROVE  PointAt(r)[i] = IF i \in Running(net, m) THEN PointAt(s)[i] + k
                               ELSE PointAt(s)[i]
    <3>1. PointAt(r)[i] = r.h[t] /\ PointAt(s)[i] = s.h[t]
      BY <1>3, <2>2, PointParts
    <3>2. r.h[t] = IF t \in PriorityEnabled(net, m) THEN s.h[t] + k ELSE s.h[t]
      BY <1>2, <1>3 DEF Shifted
    <3> QED
      BY <1>5, <2>2, <3>1, <3>2
  <2>3. ASSUME NEW t \in Suspended(net, m), i = Suspension(t)
        PROVE  PointAt(r)[i] = IF i \in Running(net, m) THEN PointAt(s)[i] + k
                               ELSE PointAt(s)[i]
    <3>1. PointAt(r)[i] = r.w[t] /\ PointAt(s)[i] = s.w[t]
      BY <1>3, <2>3, PointParts
    <3>2. r.w[t] = s.w[t] + k
      BY <1>2, <1>3 DEF Shifted
    <3> QED
      BY <1>5, <2>3, <3>1, <3>2
  <2> QED
    BY <1>4, <2>1, <2>2, <2>3
<1>7. PointAt(r) = [i \in X |-> PointAt(r)[i]]
  BY <1>3 DEF PointAt
<1>8. PointAt(r) = [i \in X |-> IF i \in Running(net, m) THEN PointAt(s)[i] + k
                                ELSE PointAt(s)[i]]
  BY <1>6, <1>7
<1> QED
  BY <1>8 DEF Delayed, r

(* A firing carries the clocks of the point over.                          *)
LEMMA PointFires ==
  ASSUME net \in Nets, NEW s, NEW t \in net.transitions
  PROVE  LET m == FireMarking(s.marking, net, t)
         IN  /\ AfterFiring(s, t).marking = m
             /\ PointAt(AfterFiring(s, t)) = Carried(net, PointAt(s), s.marking, m, t)
<1> DEFINE m == FireMarking(s.marking, net, t)
           Y == ClockVars(net, m)
           r == AfterFiring(s, t)
           surviving == SurvivingClocks(net, s.marking, m, t)
<1>1. IsNet(net) /\ t \in Nat
  BY GraphAssumption DEF IsNet
<1>2. /\ \A n \in {m, s.marking} :
           /\ Suspended(net, n) \subseteq StructEnabled(net, n)
           /\ StructEnabled(net, n) \subseteq net.transitions
  BY SchedulerSelects
<1>3. r = [marking |-> m, h |-> R(s)!ExecutionAfter(t), w |-> R(s)!SuspensionAfter(t)]
  BY SameScheduler DEF AfterFiring, R!After
<1>4. /\ \A i \in net.transitions :
           R(s)!ExecutionAfter(t)[i]
             = IF i # t /\ i \in StructEnabled(net, s.marking)
                        /\ i \in StructEnabled(net, m) THEN s.h[i] ELSE 0
      /\ \A i \in net.transitions :
           R(s)!SuspensionAfter(t)[i]
             = IF i # t /\ i \in Suspended(net, s.marking)
                        /\ i \in Suspended(net, m) THEN s.w[i] ELSE 0
  BY SameScheduler, StateView DEF R!ExecutionAfter, R!SuspensionAfter, R!Surviving, R!After
<1>5. /\ X0 \in Y /\ X0 \in ClockVars(net, s.marking) /\ X0[2] = -1
      /\ \A i \in StructEnabled(net, s.marking) : Execution(i) \in ClockVars(net, s.marking)
      /\ \A i \in Suspended(net, s.marking) : Suspension(i) \in ClockVars(net, s.marking)
      /\ \A i, j : /\ Execution(i)[2] = i /\ Suspension(i)[2] = i
                   /\ Execution(i) # X0 /\ Suspension(i) # X0
                   /\ Execution(i) # Suspension(j)
                   /\ (Execution(i) = Execution(j) => i = j)
                   /\ (Suspension(i) = Suspension(j) => i = j)
      /\ \A i \in Y : \/ i = X0
                      \/ \E j \in StructEnabled(net, m) : i = Execution(j)
                      \/ \E j \in Suspended(net, m) : i = Suspension(j)
  BY <1>1, KindsOfClocks
<1>6. /\ \A i \in StructEnabled(net, m) :
           Execution(i) \in surviving <=> i # t /\ i \in StructEnabled(net, s.marking)
      /\ \A i \in Suspended(net, m) :
           Suspension(i) \in surviving <=> i # t /\ i \in Suspended(net, s.marking)
  <2>1. \A i : Execution(i) \in ClockVars(net, s.marking)
                 <=> i \in StructEnabled(net, s.marking)
    <3>1. \A i \in ClockVars(net, s.marking) :
            \/ i = X0
            \/ \E j \in StructEnabled(net, s.marking) : i = Execution(j)
            \/ \E j \in Suspended(net, s.marking) : i = Suspension(j)
      BY <1>1, KindsOfClocks
    <3> QED
      BY <1>5, <3>1
  <2>2. \A i : Suspension(i) \in ClockVars(net, s.marking)
                 <=> i \in Suspended(net, s.marking)
    <3>1. \A i \in ClockVars(net, s.marking) :
            \/ i = X0
            \/ \E j \in StructEnabled(net, s.marking) : i = Execution(j)
            \/ \E j \in Suspended(net, s.marking) : i = Suspension(j)
      BY <1>1, KindsOfClocks
    <3> QED
      BY <1>5, <3>1
  <2>3. /\ \A i \in StructEnabled(net, m) : Execution(i) \in Y
        /\ \A i \in Suspended(net, m) : Suspension(i) \in Y
    BY <1>1, KindsOfClocks
  <2> QED
    BY <1>5, <2>1, <2>2, <2>3 DEF SurvivingClocks
<1>7. r.marking = m
  BY <1>3
<1>8. r.h = R(s)!ExecutionAfter(t) /\ r.w = R(s)!SuspensionAfter(t)
  BY <1>3
<1>9. X0 \in surviving
  BY <1>1, <1>5 DEF SurvivingClocks
<1> HIDE DEF r, surviving, m
<1>10. ASSUME NEW i \in Y
       PROVE  PointAt(r)[i] = IF i \in surviving THEN PointAt(s)[i] ELSE 0
  <2>1. CASE i = X0
    BY <1>9, <2>1, PointParts
  <2>2. ASSUME NEW j \in StructEnabled(net, m), i = Execution(j)
        PROVE  PointAt(r)[i] = IF i \in surviving THEN PointAt(s)[i] ELSE 0
    <3>1. PointAt(r)[i] = r.h[j]
      BY <1>7, <2>2, PointParts
    <3>2. j \in StructEnabled(net, s.marking) => PointAt(s)[i] = s.h[j]
      BY <2>2, PointParts
    <3>3. j \in net.transitions
      BY <1>2
    <3> QED
      BY <1>4, <1>6, <1>8, <2>2, <3>1, <3>2, <3>3
  <2>3. ASSUME NEW j \in Suspended(net, m), i = Suspension(j)
        PROVE  PointAt(r)[i] = IF i \in surviving THEN PointAt(s)[i] ELSE 0
    <3>1. PointAt(r)[i] = r.w[j]
      BY <1>7, <2>3, PointParts
    <3>2. j \in Suspended(net, s.marking) => PointAt(s)[i] = s.w[j]
      BY <2>3, PointParts
    <3>3. j \in net.transitions
      BY <1>2
    <3> QED
      BY <1>4, <1>6, <1>8, <2>3, <3>1, <3>2, <3>3
  <2> QED
    BY <1>5, <2>1, <2>2, <2>3
<1>11. PointAt(r) = [i \in Y |-> PointAt(r)[i]]
  BY <1>7 DEF PointAt
<1>12. PointAt(r) = [i \in Y |-> IF i \in surviving THEN PointAt(s)[i] ELSE 0]
  BY <1>10, <1>11
<1> QED
  BY <1>7, <1>12 DEF Carried, r, surviving, m

-----------------------------------------------------------------------------
(* The bound of the search never stops a clock that the net lets run on.   *)
BoundNeverStops == \A s \in reached : R(s)!MayElapse => R(s)!WithinBound

(* A search that has ended has let time pass as far as the deadlines let   *)
(* it, from every state it has found.                                      *)
LEMMA DelaysAreFound ==
  ASSUME net \in Nets, SearchInv, wave = {}, BoundNeverStops, NEW s \in reached,
         NEW d \in Nat, MeetsDeadlines(net, s.marking, PointAt(s), d)
  PROVE  Later(s, d) \in reached
<1> DEFINE m == s.marking
           Missed == {k \in Nat : Later(s, k) \notin reached}
<1> SUFFICES ASSUME Later(s, d) \notin reached PROVE FALSE
  OBVIOUS
<1>1. PICK k \in Missed : \A j \in Missed : k <= j
  <2>1. d \in Missed /\ Missed \in SUBSET Nat
    OBVIOUS
  <2> HIDE DEF Missed
  <2> QED
    BY <2>1, Z!LeastCount
<1>2. IsState(s) /\ Later(s, 0) = s
  BY LaterStarts DEF SearchInv
<1>3. k # 0 /\ k \in Nat /\ k <= d
  BY <1>1, <1>2
<1> DEFINE j == k - 1
           r == Later(s, j)
<1>4. j \in Nat /\ j < d /\ j + 1 = k /\ j < k
  BY <1>3
<1>5. r \in reached
  BY <1>1, <1>4
<1>6. IsState(r)
  BY <1>5 DEF SearchInv
<1>7. r.marking = m /\ r.h = Shifted(s.h, PriorityEnabled(net, m), j)
  BY DEF Later
<1> HIDE DEF j, r
<1>8. ASSUME NEW t \in PriorityEnabled(net, m)
      PROVE  r.h[t] < Latest(net, t)
  <2>1. t \in net.transitions /\ t \in StructEnabled(net, m)
    BY SchedulerSelects
  <2>2. r.h[t] = s.h[t] + j
    BY <1>7, <2>1 DEF Shifted
  <2>3. s.h[t] \in Nat /\ r.h[t] \in Nat /\ r.h[t] <= MaxClock
    BY <1>2, <1>6, <2>1, ExploreAssumption DEF IsState
  <2>4. Latest(net, t) \in Nat
    BY <2>1, IntervalBounds, GraphAssumption
  <2>5. CASE Latest(net, t) = INF
    BY <2>3, <2>5, ExploreAssumption, INFAssumption
  <2>6. CASE Latest(net, t) # INF
    <3>1. PointAt(s)[Execution(t)] + d <= Latest(net, t)
      BY <2>6 DEF MeetsDeadlines
    <3>2. PointAt(s)[Execution(t)] = s.h[t]
      BY <2>1, PointParts
    <3> QED
      BY <1>4, <2>2, <2>3, <2>4, <3>1, <3>2
  <2> QED
    BY <2>5, <2>6
<1>9. R(r)!MayElapse
  BY <1>7, <1>8, StateView
<1>10. R(r)!CanElapse
  BY <1>5, <1>9, StateView DEF BoundNeverStops
<1>11. AfterElapse(r) \in reached
  <2>1. NextStates(r) \subseteq reached
    BY <1>5 DEF SearchInv
  <2> QED
    BY <1>10, <2>1 DEF NextStates
<1>12. AfterElapse(r) = Later(s, k)
  BY <1>2, <1>4, LaterElapses DEF r
<1> QED
  BY <1>1, <1>11, <1>12

(* It has found every step that a run makes from such a state.             *)
LEMMA StepsAreFound ==
  ASSUME net \in Nets, SearchInv, wave = {}, BoundNeverStops, NEW s \in reached,
         NEW d \in Nat, NEW t \in net.transitions,
         CanStep(net, s.marking, PointAt(s), d, t)
  PROVE  LET r == Later(s, d)
         IN  /\ r \in reached /\ t \in Firable(r)
             /\ r.h[t] = Delayed(net, s.marking, PointAt(s), d)[Execution(t)]
             /\ AfterFiring(r, t) \in reached
             /\ AfterFiring(r, t).marking = FireMarking(s.marking, net, t)
             /\ PointAt(AfterFiring(r, t)) = PointAfter(net, s.marking, PointAt(s), d, t)
<1> DEFINE m == s.marking
           r == Later(s, d)
<1>1. r \in reached /\ r.marking = m
  BY DelaysAreFound DEF CanStep, Later
<1>2. PointAt(r) = Delayed(net, m, PointAt(s), d)
  BY PointLater
<1>3. /\ t \in PriorityEnabled(net, m) /\ t \in StructEnabled(net, m)
      /\ Earliest(net, t) <= Delayed(net, m, PointAt(s), d)[Execution(t)]
  BY SchedulerSelects DEF CanStep
<1> HIDE DEF r
<1>4. PointAt(r)[Execution(t)] = r.h[t]
  BY <1>1, <1>3, PointParts
<1>5. t \in Firable(r)
  <2>1. t \in net.transitions /\ IsState(r)
    BY <1>1 DEF SearchInv
  <2>2. r.h[t] \in Nat /\ Earliest(net, t) \in Nat
    BY <2>1, IntervalBounds, GraphAssumption, ExploreAssumption DEF IsState
  <2>3. r.h[t] >= Earliest(net, t)
    BY <1>2, <1>3, <1>4, <2>2
  <2> QED
    BY <1>1, <1>3, <2>3, StateView DEF Firable
<1>6. AfterFiring(r, t) \in reached
  BY <1>1, <1>5 DEF SearchInv, NextStates
<1>7. /\ AfterFiring(r, t).marking = FireMarking(m, net, t)
      /\ PointAt(AfterFiring(r, t)) = PointAfter(net, m, PointAt(s), d, t)
  BY <1>1, <1>2, PointFires DEF PointAfter
<1> QED
  BY <1>1, <1>2, <1>4, <1>5, <1>6, <1>7 DEF r

(* So it has found every point that a run reaches.                         *)
LEMMA RunsAreFound ==
  ASSUME net \in Nets, SearchInv, wave = {}, reached # {}, BoundNeverStops,
         NEW m, NEW v, IsReached(net, m, v)
  PROVE  \E s \in reached : s.marking = m /\ PointAt(s) = v
<1>1. PICK k \in Nat : \E r : IsRun(net, k, r) /\ r[k] = StateOf(m, v)
  BY DEF IsReached
<1>2. PICK r : IsRun(net, k, r) /\ r[k] = StateOf(m, v)
  BY <1>1
<1> DEFINE Found(a) == \E s \in reached : s.marking = a.marking /\ PointAt(s) = a.point
           Missed == {i \in 0 .. k : ~ Found(r[i])}
<1>3. Missed = {}
  <2> SUFFICES ASSUME Missed # {} PROVE FALSE
    OBVIOUS
  <2>1. PICK i \in Missed : \A j \in Missed : i <= j
    <3>1. Missed \in SUBSET Nat
      OBVIOUS
    <3> HIDE DEF Missed
    <3> QED
      BY <3>1, Z!LeastCount
  <2>2. i # 0
    <3>1. r[0] = RunStart(net)
      BY <1>2 DEF IsRun
    <3>2. r[0].marking = net.M0 /\ r[0].point = [c \in ClockVars(net, net.M0) |-> 0]
      BY <3>1 DEF RunStart, StateOf
    <3>3. Start \in reached /\ Start.marking = net.M0
      BY DEF SearchInv, Start
    <3>4. PointAt(Start) = [c \in ClockVars(net, net.M0) |-> 0]
      <4>1. IsNet(net)
        BY GraphAssumption
      <4>2. \A t \in net.transitions : Start.h[t] = 0 /\ Start.w[t] = 0
        BY DEF Start
      <4>3. ASSUME NEW c \in ClockVars(net, net.M0)
            PROVE  PointAt(Start)[c] = 0
        <5>1. /\ StructEnabled(net, net.M0) \subseteq net.transitions
              /\ Suspended(net, net.M0) \subseteq StructEnabled(net, net.M0)
          BY SchedulerSelects
        <5>2. \/ c = X0
              \/ \E t \in StructEnabled(net, net.M0) : c = Execution(t)
              \/ \E t \in Suspended(net, net.M0) : c = Suspension(t)
          BY <4>1, KindsOfClocks
        <5> QED
          BY <3>3, <4>2, <5>1, <5>2, PointParts
      <4>4. PointAt(Start) = [c \in ClockVars(net, net.M0) |-> PointAt(Start)[c]]
        BY <3>3 DEF PointAt
      <4> QED
        BY <4>3, <4>4
    <3> QED
      BY <2>1, <3>2, <3>3, <3>4
  <2>3. i \in 1 .. k /\ i - 1 \in 0 .. k /\ i - 1 < i
    BY <2>1, <2>2
  <2>4. Found(r[i - 1])
    BY <2>1, <2>3
  <2>5. RunStep(net, r[i - 1], r[i])
    BY <1>2, <2>3 DEF IsRun
  <2>6. PICK s \in reached : s.marking = r[i - 1].marking /\ PointAt(s) = r[i - 1].point
    BY <2>4
  <2>7. PICK d \in Nat, t \in net.transitions :
          /\ CanStep(net, s.marking, PointAt(s), d, t)
          /\ r[i] = StateOf(FireMarking(s.marking, net, t),
                            PointAfter(net, s.marking, PointAt(s), d, t))
    BY <2>5, <2>6 DEF RunStep
  <2> DEFINE q == AfterFiring(Later(s, d), t)
  <2>8. /\ q \in reached
        /\ q.marking = FireMarking(s.marking, net, t)
        /\ PointAt(q) = PointAfter(net, s.marking, PointAt(s), d, t)
    BY <2>7, StepsAreFound
  <2>9. r[i].marking = q.marking /\ r[i].point = PointAt(q)
    BY <2>7, <2>8 DEF StateOf
  <2> QED
    BY <2>1, <2>8, <2>9
<1>4. k \in 0 .. k
  OBVIOUS
<1>5. Found(r[k])
  BY <1>3, <1>4
<1>6. r[k].marking = m /\ r[k].point = v
  BY <1>2 DEF StateOf
<1> QED
  BY <1>5, <1>6

-----------------------------------------------------------------------------
(* The run of the checker: build first, then the search.  The graph stands *)
(* once it is built.                                                       *)
BuildsOrStands ==
  IF reached = {}
  THEN GraphInv /\ VerticesAreCanonical /\ extrapolation \in BOOLEAN
  ELSE IsBuilt

ExploreInv == BuildsOrStands /\ SearchInv

LEMMA BuiltSoFar == BuildsOrStands => IsBuilt
BY BuildIsBuilt DEF BuildsOrStands

LEMMA BuiltStands ==
  ASSUME IsBuilt, UNCHANGED <<net, mode, extrapolation, vertices, edges>>
  PROVE  IsBuilt'
<1>1. VerticesAreReached' /\ EdgesLead' /\ VerticesAreCanonical'
  BY DEF IsBuilt, VerticesAreReached, EdgesLead, VerticesAreCanonical, Roomy
<1> QED
  BY <1>1 DEF IsBuilt

LEMMA InitExploreInv == ExploreInit => ExploreInv
<1> SUFFICES ASSUME ExploreInit PROVE ExploreInv
  OBVIOUS
<1>1. GraphInv /\ VerticesAreCanonical /\ extrapolation \in BOOLEAN
  BY InitGraphInv, InitCanonical DEF ExploreInit, Init
<1> QED
  BY <1>1, SearchStarts DEF ExploreInv, BuildsOrStands, ExploreInit

LEMMA SearchStands ==
  ASSUME SearchInv, UNCHANGED net, UNCHANGED exploreVars,
         reached # {} => pc' \in {"exploring", "done"},
         pc' = "done" => wave = {}
  PROVE  SearchInv'
<1>1. /\ Start' = Start
      /\ \A s : NextStates(s)' = NextStates(s) /\ (IsState(s)' <=> IsState(s))
  BY SameView
<1>2. reached' = reached /\ wave' = wave
  BY DEF exploreVars
<1> QED
  BY <1>1, <1>2 DEF SearchInv

LEMMA NextKeepsExploreInv ==
  ASSUME ExploreInv, [ExploreNext]_<<vars, exploreVars>>
  PROVE  ExploreInv'
<1>1. CASE Build /\ UNCHANGED exploreVars
  <2>1. reached = {} /\ reached' = {} /\ wave = {} /\ UNCHANGED <<net, extrapolation>>
    <3>1. pc \in {"level", "expand"} /\ UNCHANGED input
      BY <1>1 DEF Build, LoopStep, StopAtLimit, BeginVertex, NextLevel, Finish, Expand,
                  Trying, SkipTransition, Merge, Discover, DropSuccessor, EndVertex
    <3> QED
      BY <1>1, <3>1 DEF ExploreInv, SearchInv, exploreVars, input
  <2>2. GraphInv /\ VerticesAreCanonical /\ extrapolation \in BOOLEAN
    BY <2>1 DEF ExploreInv, BuildsOrStands
  <2>3. GraphInv'
    BY <1>1, <2>2, BuildGraphInv
  <2>4. VerticesAreCanonical'
    BY <1>1, <2>2, NextKeepsCanonical DEF Next, GraphInv
  <2>5. SearchInv'
    BY <1>1, <2>1, SearchStands DEF ExploreInv
  <2> QED
    BY <2>1, <2>2, <2>3, <2>4, <2>5 DEF ExploreInv, BuildsOrStands
<1>2. CASE BeginExploring
  <2>1. /\ UNCHANGED <<net, mode, extrapolation, vertices, edges>>
        /\ reached' = {Start} /\ wave' = {Start} /\ pc' = "exploring"
    BY <1>2 DEF BeginExploring, GraphSame, input
  <2>2. IsBuilt'
    BY <2>1, BuiltSoFar, BuiltStands DEF ExploreInv
  <2>3. /\ Start' = Start
        /\ \A s : NextStates(s)' = NextStates(s) /\ (IsState(s)' <=> IsState(s))
    BY <2>1, SameView
  <2>4. SearchInv'
    BY <2>1, <2>3, StartIsState DEF SearchInv
  <2> QED
    BY <2>1, <2>2, <2>4 DEF ExploreInv, BuildsOrStands
<1>3. CASE Explore
  <2>1. /\ UNCHANGED <<net, mode, extrapolation, vertices, edges, pc>>
        /\ pc = "exploring" /\ wave # {}
        /\ wave' = (UNION {NextStates(s) : s \in wave}) \ reached
        /\ reached' = reached \cup wave'
    BY <1>3 DEF Explore, vars, input
  <2>2. IsBuilt'
    BY <2>1, BuiltSoFar, BuiltStands DEF ExploreInv
  <2>3. /\ Start' = Start
        /\ \A s : NextStates(s)' = NextStates(s) /\ (IsState(s)' <=> IsState(s))
    BY <2>1, SameView
  <2>4. reached # {} /\ reached' # {} /\ Start \in reached
    BY <2>1 DEF ExploreInv, SearchInv
  <2>5. \A s \in reached' : IsState(s)
    BY <2>1, NextAreStates DEF ExploreInv, SearchInv
  <2>6. \A s \in reached' \ wave' : NextStates(s) \subseteq reached'
    <3> SUFFICES ASSUME NEW s \in reached' \ wave'
                 PROVE  NextStates(s) \subseteq reached'
      OBVIOUS
    <3>1. s \in reached
      BY <2>1
    <3>2. CASE s \in wave
      BY <2>1, <3>2
    <3>3. CASE s \notin wave
      BY <2>1, <3>1, <3>3 DEF ExploreInv, SearchInv
    <3> QED
      BY <3>2, <3>3
  <2>7. SearchInv'
    BY <2>1, <2>3, <2>4, <2>5, <2>6 DEF SearchInv
  <2> QED
    BY <2>2, <2>4, <2>7 DEF ExploreInv, BuildsOrStands
<1>4. CASE EndExploring
  <2>1. /\ UNCHANGED <<net, mode, extrapolation, vertices, edges, exploreVars>>
        /\ pc = "exploring" /\ wave = {} /\ pc' = "done"
    BY <1>4 DEF EndExploring, GraphSame, input
  <2>2. reached # {} /\ reached' = reached
    BY <2>1 DEF ExploreInv, BuildsOrStands, GraphInv, IInv, BuildTypeOK, exploreVars
  <2>3. IsBuilt'
    BY <2>1, BuiltSoFar, BuiltStands DEF ExploreInv
  <2>4. SearchInv'
    BY <2>1, SearchStands DEF ExploreInv
  <2> QED
    BY <2>2, <2>3, <2>4 DEF ExploreInv, BuildsOrStands
<1>5. CASE Stop \/ UNCHANGED <<vars, exploreVars>>
  <2>1. UNCHANGED <<vars, exploreVars>>
    BY <1>5 DEF Stop
  <2>2. UNCHANGED <<net, mode, extrapolation, vertices, edges, exploreVars, pc, reached>>
    BY <2>1 DEF vars, input, exploreVars
  <2>3. SearchInv'
    BY <2>2, SearchStands DEF ExploreInv, SearchInv
  <2>4. CASE reached = {}
    <3>1. GraphInv /\ VerticesAreCanonical /\ extrapolation \in BOOLEAN
      BY <2>4 DEF ExploreInv, BuildsOrStands
    <3>2. GraphInv'
      BY <2>1, <3>1, GraphInvStands
    <3>3. VerticesAreCanonical'
      BY <2>2, <3>1 DEF VerticesAreCanonical, Roomy
    <3> QED
      BY <2>2, <2>3, <2>4, <3>1, <3>2, <3>3 DEF ExploreInv, BuildsOrStands
  <2>5. CASE reached # {}
    <3>1. IsBuilt'
      BY <2>2, BuiltSoFar, BuiltStands DEF ExploreInv
    <3> QED
      BY <2>2, <2>3, <2>5, <3>1 DEF ExploreInv, BuildsOrStands
  <2> QED
    BY <2>4, <2>5
<1> QED
  BY <1>1, <1>2, <1>3, <1>4, <1>5 DEF ExploreNext

(* "EQUALITY keeps the graph exact": where the bound of the search stops   *)
(* no clock, and a clock that the scheduler stops has one value in each    *)
(* vertex, every marking of the graph is one of the states that the search *)
(* has found.                                                              *)
THEOREM NothingIsSpurious ==
  ExploreSpec =>
    [](Roomy /\ StoppedClocksAreKnown /\ BoundNeverStops => NoSpuriousMarking)
<1>1. ExploreInit => ExploreInv
  BY InitExploreInv
<1>2. ExploreInv /\ [ExploreNext]_<<vars, exploreVars>> => ExploreInv'
  BY NextKeepsExploreInv
<1>3. ExploreInv =>
        (Roomy /\ StoppedClocksAreKnown /\ BoundNeverStops => NoSpuriousMarking)
  <2> SUFFICES ASSUME ExploreInv, Roomy, StoppedClocksAreKnown, BoundNeverStops, Explored,
                      NEW v \in DOMAIN vertices
               PROVE  \E s \in reached : s.marking = vertices[v].marking
    BY DEF NoSpuriousMarking
  <2>1. IsBuilt /\ net \in Nets
    BY BuiltSoFar DEF ExploreInv, IsBuilt
  <2>2. SearchInv /\ wave = {} /\ reached # {}
    BY DEF ExploreInv, SearchInv, Explored, Compares, Complete
  <2>3. MarkingsAreReal
    BY <2>1, BuiltIsReal
  <2>4. PICK point : IsReached(net, vertices[v].marking, point)
    BY <2>3 DEF MarkingsAreReal
  <2> QED
    BY <2>1, <2>2, <2>4, RunsAreFound
<1> QED
  BY <1>1, <1>2, <1>3, PTL DEF ExploreSpec

(* With extrapolation a firing window is exact where clocks have deadlines.*)
EndsAreExact == extrapolation => \A t \in net.transitions : Latest(net, t) # INF

(* Under the same hypotheses every edge is a firing of a state that the    *)
(* search has found, and both ends of its firing window are values that    *)
(* the clock has at such firings.  With extrapolation the ends are exact   *)
(* where every transition has a latest firing time.                        *)
THEOREM EdgesAreFound ==
  ExploreSpec =>
    [](Roomy /\ StoppedClocksAreKnown /\ BoundNeverStops /\ EndsAreExact
       => EdgesAreFirings)
<1>1. ExploreInit => ExploreInv
  BY InitExploreInv
<1>2. ExploreInv /\ [ExploreNext]_<<vars, exploreVars>> => ExploreInv'
  BY NextKeepsExploreInv
<1>3. ExploreInv =>
        (Roomy /\ StoppedClocksAreKnown /\ BoundNeverStops /\ EndsAreExact
         => EdgesAreFirings)
  <2> SUFFICES ASSUME ExploreInv, Roomy, StoppedClocksAreKnown, BoundNeverStops,
                      EndsAreExact, Explored
               PROVE  EdgesAreFirings
    BY Zenon DEF EdgesAreFirings
  <2>1. IsBuilt /\ net \in Nets /\ IsNet(net)
    BY BuiltSoFar, GraphAssumption DEF ExploreInv, IsBuilt
  <2>2. SearchInv /\ wave = {} /\ reached # {}
    BY DEF ExploreInv, SearchInv, Explored, Compares, Complete
  <2>3. EdgesAreReal
    BY <2>1, BuiltIsReal
  <2> SUFFICES ASSUME NEW e \in edges
               PROVE  LET from == vertices[e.src].marking
                          to == vertices[e.dst].marking
                          values == {s.h[e.t] : s \in {x \in reached :
                                       /\ x.marking = from
                                       /\ e.t \in Firable(x)
                                       /\ R(x)!After(e.t) = to}}
                      IN  /\ values # {}
                          /\ e.firing_min \in values
                          /\ e.firing_max \in values \cup {INF}
    BY DEF EdgesAreFirings
  <2> DEFINE source == vertices[e.src]
             from == source.marking
             to == vertices[e.dst].marking
             fires == {x \in reached : /\ x.marking = from
                                       /\ e.t \in Firable(x)
                                       /\ R(x)!After(e.t) = to}
             values == {s.h[e.t] : s \in fires}
  <2>4. PICK N, B : HasRoom(net, N, B) /\ \A v \in DOMAIN vertices : Fits(net, vertices[v], N, B)
    BY DEF Roomy
  <2>5. /\ e.src \in DOMAIN vertices
        /\ Leads(net, extrapolation, mode, source, e, vertices[e.dst])
        /\ IsCanonical(net, source) /\ Fits(net, source, N, B)
    BY <2>1, <2>4 DEF IsBuilt, EdgesLead, VerticesAreCanonical, Roomy
  <2>6. /\ e.t \in PriorityEnabled(net, from) /\ e.t \in net.transitions
        /\ e.firing_min \in Int /\ e.firing_max \in Int
        /\ e.firing_max = INF \/ e.firing_min <= e.firing_max
    BY <2>1, <2>4, <2>5, WindowIsRange DEF Leads
  <2>7. WindowIsReal(net, extrapolation, source, e, to)
    BY <2>3 DEF EdgesAreReal
  <2> HIDE DEF source, values
  <2>8. ASSUME NEW y \in Int, e.firing_min <= y, e.firing_max = INF \/ y <= e.firing_max
        PROVE  y \in values
    <3>1. PICK d \in Nat, v \in Points(ClockVars(net, from)) :
            /\ IsReached(net, from, v)
            /\ CanStep(net, from, v, d, e.t)
            /\ \/ Delayed(net, from, v, d)[Execution(e.t)] = y
               \/ /\ extrapolation
                  /\ PastEndpoints(net, Execution(e.t),
                                   Delayed(net, from, v, d)[Execution(e.t)], y)
            /\ FireMarking(from, net, e.t) = to
      BY <2>7, <2>8 DEF WindowIsReal
    <3>2. Delayed(net, from, v, d)[Execution(e.t)] = y
      BY <2>6, <3>1 DEF EndsAreExact, PastEndpoints, NoLatest
    <3>3. PICK s \in reached : s.marking = from /\ PointAt(s) = v
      BY <2>1, <2>2, <3>1, RunsAreFound
    <3> DEFINE r == Later(s, d)
    <3>4. /\ r \in reached /\ e.t \in Firable(r) /\ r.h[e.t] = y
          /\ r.marking = from
      BY <2>1, <2>2, <2>6, <3>1, <3>2, <3>3, StepsAreFound DEF Later
    <3> HIDE DEF r
    <3>5. R(r)!After(e.t) = to
      BY <3>1, <3>4, StateView
    <3>6. r \in fires
      BY <3>4, <3>5
    <3> QED
      BY <3>4, <3>6 DEF values
  <2>9. e.firing_min \in values
    BY <2>6, <2>8
  <2>10. e.firing_max \in values \cup {INF}
    BY <2>6, <2>8
  <2> QED
    BY <2>9, <2>10 DEF values, source
<1> QED
  BY <1>1, <1>2, <1>3, PTL DEF ExploreSpec
=============================================================================
