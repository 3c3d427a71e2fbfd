------------------------- MODULE StateClass_proofs -------------------------
(***************************************************************************)
(* What the symbolic step means, for every net and every class.            *)
(*                                                                         *)
(* Nothing is lost: whatever clock values a class contains, the class it   *)
(* becomes by letting time elapse, firing, extrapolating or merging        *)
(* contains the values they become, also when bounds saturate at the ends  *)
(* of the machine integers.                                                *)
(*                                                                         *)
(* Where the numbers leave room, the step keeps classes canonical: in      *)
(* closed form, not empty, within the latest firing times.  Inclusion of   *)
(* canonical classes is inclusion of their points and is kept by the step; *)
(* some active transition can always fire; and where a stopped clock has   *)
(* one value the step invents nothing: the points of the next class come   *)
(* from points of the class by a delay and the firing.                     *)
(***************************************************************************)
EXTENDS StateClass, FiniteSetTheorems, TLAPS

Z == INSTANCE DBM_proofs WITH Zero <- X0

Zones(X) == Z!Matrices(X)

(* A value for each clock variable, the reference variable being zero.     *)
Points(X) == {v \in [X -> Int] : v[X0] = 0}

-----------------------------------------------------------------------------
(* The effective endpoints of a valid interval are machine integers in     *)
(* order, whether the interval is open or closed.                          *)
LEMMA IntervalBounds ==
  ASSUME NEW n, IsNet(n), NEW t \in n.transitions
  PROVE  /\ Earliest(n, t) \in Nat /\ Earliest(n, t) <= INF
         /\ Latest(n, t) \in Nat /\ Latest(n, t) <= INF
         /\ Latest(n, t) = INF \/ Earliest(n, t) <= Latest(n, t)
<1>1. IsInterval(n.interval[t])
  BY DEF IsNet
<1> QED
  BY <1>1, INFAssumption
     DEF IsInterval, Earliest, Latest, EffectiveEarliest, EffectiveLatest

(* The scheduler only selects: active and suspended transitions are        *)
(* enabled, and none is both.                                              *)
LEMMA SchedulerSelects ==
  ASSUME NEW n, NEW m
  PROVE  /\ StructEnabled(n, m) \subseteq n.transitions
         /\ PriorityEnabled(n, m) \subseteq StructEnabled(n, m)
         /\ Suspended(n, m) \subseteq StructEnabled(n, m)
         /\ PriorityEnabled(n, m) \cap Suspended(n, m) = {}
BY DEF StructEnabled, PriorityEnabled, FilterPriorityPerCore, Suspended

-----------------------------------------------------------------------------
(* The matrix facts, said of the instance the engine uses.                 *)
LEMMA ClosureKeepsMeaning ==
  ASSUME NEW X, IsFiniteSet(X), NEW D \in Zones(X)
  PROVE  /\ M!Minimize(X, D) \in Zones(X)
         /\ \A v \in Points(X) :
              M!Satisfies(v, D) <=> M!Satisfies(v, M!Minimize(X, D))
<1>1. M!Minimize(X, D) = Z!Minimize(X, D)
  BY Zenon
     DEF M!Minimize, Z!Minimize, M!FoldSet, Z!FoldSet,
         M!MapThenFoldSet, Z!MapThenFoldSet, M!Relax, Z!Relax,
         M!RelaxVia, Z!RelaxVia, M!Whole, Z!Whole, M!SafeAdd, Z!SafeAdd,
         M!Smaller, Z!Smaller, M!IntMin, Z!IntMin
<1>2. \A v, E : M!Satisfies(v, E) <=> Z!Satisfies(v, E)
  BY DEF M!Satisfies, Z!Satisfies
<1>3. \A v \in Points(X) : v \in Z!Valuation(X)
  BY DEF Points, Z!Valuation
<1>4. INF \in Nat /\ D \in Z!Matrices(X) /\ Z!IsFiniteSet(X)
  BY INFAssumption DEF Zones, IsFiniteSet, Z!IsFiniteSet
<1>5. Z!Minimize(X, D) \in Z!Matrices(X)
  BY <1>4, Z!MinimizeType
<1>6. \A v \in Points(X) : Z!Satisfies(v, D) <=> Z!Satisfies(v, Z!Minimize(X, D))
  BY <1>3, <1>4, Z!MinimizeKeepsMeaning
<1> QED
  BY <1>1, <1>2, <1>5, <1>6 DEF Zones

LEMMA IntersectionIsExact ==
  ASSUME NEW X, NEW D \in Zones(X), NEW i \in X, NEW j \in X,
         NEW b \in Z!Bounds, b # INF
  PROVE  /\ M!Tighten(X, D, i, j, b).zone \in Zones(X)
         /\ \A v \in Points(X) :
              M!Satisfies(v, D) /\ v[i] - v[j] <= b
                => /\ M!Tighten(X, D, i, j, b).nonempty
                   /\ M!Satisfies(v, M!Tighten(X, D, i, j, b).zone)
<1>1. M!Tighten(X, D, i, j, b) = Z!Tighten(X, D, i, j, b)
  BY Zenon
     DEF M!Tighten, Z!Tighten, M!TightenVia, Z!TightenVia,
         M!NegativeDiagonal, Z!NegativeDiagonal, M!SafeAdd, Z!SafeAdd,
         M!Smaller, Z!Smaller, M!IntMin, Z!IntMin
<1>2. \A v, E : M!Satisfies(v, E) <=> Z!Satisfies(v, E)
  BY DEF M!Satisfies, Z!Satisfies
<1>3. \A v \in Points(X) : v \in Z!Valuation(X)
  BY DEF Points, Z!Valuation
<1>4. ASSUME NEW v \in Points(X), Z!Satisfies(v, D), v[i] - v[j] <= b
      PROVE  /\ Z!Tighten(X, D, i, j, b).nonempty
             /\ Z!Satisfies(v, Z!Tighten(X, D, i, j, b).zone)
  BY <1>3, <1>4, Z!TightenIsIntersection, INFAssumption DEF Zones
<1> QED
  BY <1>1, <1>2, <1>4, Z!TightenType, INFAssumption DEF Zones

LEMMA ExtrapolationWidens ==
  ASSUME NEW X, IsFiniteSet(X), NEW D \in Zones(X), NEW k \in 0 .. INF
  PROVE  /\ M!Extrapolate(X, D, k) \in Zones(X)
         /\ \A v \in Points(X) :
              M!Satisfies(v, D) => M!Satisfies(v, M!Extrapolate(X, D, k))
<1>1. M!Extrapolate(X, D, k) = Z!Extrapolate(X, D, k)
  BY Zenon
     DEF M!Extrapolate, Z!Extrapolate, M!RelaxBound, Z!RelaxBound,
         M!Minimize, Z!Minimize, M!FoldSet, Z!FoldSet,
         M!MapThenFoldSet, Z!MapThenFoldSet, M!Relax, Z!Relax,
         M!RelaxVia, Z!RelaxVia, M!Whole, Z!Whole, M!SafeAdd, Z!SafeAdd,
         M!Smaller, Z!Smaller, M!IntMin, Z!IntMin
<1>2. \A v, E : M!Satisfies(v, E) <=> Z!Satisfies(v, E)
  BY DEF M!Satisfies, Z!Satisfies
<1>3. \A v \in Points(X) : v \in Z!Valuation(X)
  BY DEF Points, Z!Valuation
<1>4. INF \in Nat /\ D \in Z!Matrices(X) /\ Z!IsFiniteSet(X)
  BY INFAssumption DEF Zones, IsFiniteSet, Z!IsFiniteSet
<1>5. Z!Extrapolate(X, D, k) \in Z!Matrices(X)
  BY <1>4, Z!ExtrapolateType
<1>6. \A v \in Points(X) :
        Z!Satisfies(v, D) => Z!Satisfies(v, Z!Extrapolate(X, D, k))
  BY <1>3, <1>4, Z!ExtrapolationLosesNothing
<1> QED
  BY <1>1, <1>2, <1>5, <1>6 DEF Zones

LEMMA InclusionCovers ==
  ASSUME NEW X, NEW D \in Zones(X), NEW E \in Zones(X), M!IncludedIn(D, E),
         NEW v \in Points(X), M!Satisfies(v, D)
  PROVE  M!Satisfies(v, E)
<1>1. M!IncludedIn(D, E) <=> Z!IncludedIn(D, E)
  BY DEF M!IncludedIn, Z!IncludedIn
<1>2. \A F : M!Satisfies(v, F) <=> Z!Satisfies(v, F)
  BY DEF M!Satisfies, Z!Satisfies
<1>3. v \in Z!Valuation(X)
  BY DEF Points, Z!Valuation
<1> QED
  BY <1>1, <1>2, <1>3, Z!IncludedInIsSound, INFAssumption DEF Zones

-----------------------------------------------------------------------------
(* The clock variables of a marking: finitely many, each of one kind.      *)
LEMMA ClocksAreFinite ==
  ASSUME NEW n, IsNet(n), NEW m
  PROVE  IsFiniteSet(ClockVars(n, m))
<1>1. /\ IsFiniteSet(StructEnabled(n, m))
      /\ IsFiniteSet(Suspended(n, m))
  <2>1. /\ StructEnabled(n, m) \in SUBSET n.transitions
        /\ Suspended(n, m) \in SUBSET n.transitions
    BY SchedulerSelects
  <2> QED
    BY <2>1, FS_Subset DEF IsNet
<1>2. IsFiniteSet(ExecClocks(n, m))
  <2> DEFINE T == {Execution(t) : t \in StructEnabled(n, m)}
  <2>1. [t \in StructEnabled(n, m) |-> Execution(t)] \in Surjection(StructEnabled(n, m), T)
    BY DEF Surjection
  <2>2. IsFiniteSet(T)
    BY <1>1, <2>1, FS_Surjection
  <2> QED
    BY <2>2 DEF ExecClocks
<1>3. IsFiniteSet(SuspClocks(n, m))
  <2> DEFINE T == {Suspension(t) : t \in Suspended(n, m)}
  <2>1. [t \in Suspended(n, m) |-> Suspension(t)] \in Surjection(Suspended(n, m), T)
    BY DEF Surjection
  <2>2. IsFiniteSet(T)
    BY <1>1, <2>1, FS_Surjection
  <2> QED
    BY <2>2 DEF SuspClocks
<1>4. IsFiniteSet({X0})
  BY FS_Singleton
<1> QED
  BY <1>2, <1>3, <1>4, FS_Union DEF ClockVars

LEMMA KindsOfClocks ==
  ASSUME NEW n, IsNet(n), NEW m
  PROVE  /\ X0 \in ClockVars(n, m)
         /\ \A t \in StructEnabled(n, m) : Execution(t) \in ClockVars(n, m)
         /\ \A t \in Suspended(n, m) : Suspension(t) \in ClockVars(n, m)
         /\ Running(n, m) \subseteq ClockVars(n, m) \ {X0}
         /\ \A t, s : /\ Execution(t)[1] = "Execution" /\ Execution(t)[2] = t
                      /\ Suspension(t)[1] = "Suspension" /\ Suspension(t)[2] = t
                      /\ Execution(t) # X0 /\ Suspension(t) # X0
                      /\ Execution(t) # Suspension(s)
                      /\ (Execution(t) = Execution(s) => t = s)
                      /\ (Suspension(t) = Suspension(s) => t = s)
         /\ X0[1] = "Zero" /\ X0[2] = -1
         /\ \A i \in ClockVars(n, m) :
              \/ i = X0
              \/ \E t \in StructEnabled(n, m) : i = Execution(t)
              \/ \E t \in Suspended(n, m) : i = Suspension(t)
<1>1. \A t, s : /\ Execution(t)[1] = "Execution" /\ Execution(t)[2] = t
                /\ Suspension(t)[1] = "Suspension" /\ Suspension(t)[2] = t
                /\ Execution(t) # X0 /\ Suspension(t) # X0
                /\ Execution(t) # Suspension(s)
                /\ (Execution(t) = Execution(s) => t = s)
                /\ (Suspension(t) = Suspension(s) => t = s)
  BY DEF Execution, Suspension, X0
<1>2. X0[1] = "Zero" /\ X0[2] = -1
  BY DEF X0
<1> QED
  BY <1>1, <1>2, SchedulerSelects
     DEF ClockVars, ExecClocks, SuspClocks, Running

(* A class is a record of a marking and a matrix over its clock variables. *)
IsZoneClass(n, class) ==
  /\ class = [marking |-> class.marking, zone |-> class.zone]
  /\ class.zone \in Zones(ClockVars(n, class.marking))

(* The matrix that time_elapse closes: first what runs is released from    *)
(* above against what does not, then the latest firing times are put on.   *)
Released(n, class) ==
  LET X == ClockVars(n, class.marking)
      run == Running(n, class.marking)
  IN  [p \in X \X X |->
         IF p[1] \in run /\ p[2] \notin run THEN INF ELSE class.zone[p]]

Capped(n, class) ==
  LET X == ClockVars(n, class.marking)
  IN  [p \in X \X X |->
         IF p[2] = X0
         THEN M!Smaller(Released(n, class)[p], Deadline(n, class.marking, p[1]))
         ELSE Released(n, class)[p]]

LEMMA Deadlines ==
  ASSUME NEW n, IsNet(n), NEW m, NEW i
  PROVE  /\ Deadline(n, m, i) \in 0 .. INF
         /\ Deadline(n, m, i) # INF
              => \E t \in PriorityEnabled(n, m) :
                   i = Execution(t) /\ Deadline(n, m, i) = Latest(n, t)
<1>1. CASE i \in {Execution(t) : t \in PriorityEnabled(n, m)}
  <2>1. PICK t \in PriorityEnabled(n, m) : i = Execution(t)
    BY <1>1
  <2>2. Deadline(n, m, i) = Latest(n, t)
    BY <1>1, <2>1 DEF Deadline, Execution
  <2>3. Latest(n, t) \in 0 .. INF
    BY SchedulerSelects, IntervalBounds
  <2> QED
    BY <2>1, <2>2, <2>3
<1>2. CASE i \notin {Execution(t) : t \in PriorityEnabled(n, m)}
  BY <1>2, INFAssumption DEF Deadline
<1> QED
  BY <1>1, <1>2

LEMMA ElapsedClass ==
  ASSUME NEW n, IsNet(n), NEW class, IsZoneClass(n, class)
  PROVE  LET X == ClockVars(n, class.marking)
             E == TimeElapse(n, class)
         IN  /\ IsZoneClass(n, E)
             /\ E.marking = class.marking
             /\ E.zone = M!Minimize(X, Capped(n, class))
             /\ Capped(n, class) \in Zones(X)
<1> DEFINE X == ClockVars(n, class.marking)
<1>1. ASSUME NEW p \in X \X X
      PROVE  Released(n, class)[p] \in Z!Bounds
  <2>1. class.zone[p] \in Z!Bounds /\ INF \in Z!Bounds
    BY INFAssumption DEF IsZoneClass, Zones, Z!Matrices, Z!Bounds, Z!IntMin
  <2> QED
    BY <2>1 DEF Released
<1>2. ASSUME NEW p \in X \X X
      PROVE  Capped(n, class)[p] \in Z!Bounds
  <2> DEFINE r == Released(n, class)[p]
             c == Deadline(n, class.marking, p[1])
  <2>1. r \in Z!Bounds /\ c \in 0 .. INF
    BY <1>1, Deadlines
  <2>2. Capped(n, class)[p] = IF p[2] = X0 THEN M!Smaller(r, c) ELSE r
    BY DEF Capped
  <2> HIDE DEF r, c
  <2> QED
    BY <2>1, <2>2, INFAssumption DEF M!Smaller, Z!Bounds, Z!IntMin
<1>3. Capped(n, class) \in Zones(X)
  BY <1>2 DEF Capped, Zones, Z!Matrices
<1>4. TimeElapse(n, class) = [class EXCEPT !.zone = M!Minimize(X, Capped(n, class))]
  BY Zenon DEF TimeElapse, Capped, Released
<1>5. TimeElapse(n, class)
        = [marking |-> class.marking, zone |-> M!Minimize(X, Capped(n, class))]
  BY <1>4 DEF IsZoneClass
<1>6. M!Minimize(X, Capped(n, class)) \in Zones(X)
  BY <1>3, ClocksAreFinite, ClosureKeepsMeaning
<1> QED
  BY <1>3, <1>5, <1>6 DEF IsZoneClass

(* The values of the clocks d units later.                                 *)
Delayed(n, m, v, d) ==
  [i \in ClockVars(n, m) |-> IF i \in Running(n, m) THEN v[i] + d ELSE v[i]]

(* Letting time elapse loses no value: what runs moves d units on, as long *)
(* as no active transition passes its latest firing time, and what is      *)
(* filtered out stays.                                                     *)
THEOREM ElapsingLosesNothing ==
  ASSUME NEW n, IsNet(n), NEW class, IsZoneClass(n, class),
         NEW v \in Points(ClockVars(n, class.marking)), NEW d \in Nat,
         M!Satisfies(v, class.zone),
         \A t \in PriorityEnabled(n, class.marking) :
           v[Execution(t)] + d <= Latest(n, t)
  PROVE  M!Satisfies(Delayed(n, class.marking, v, d), TimeElapse(n, class).zone)
<1> DEFINE m == class.marking
           X == ClockVars(n, m)
           run == Running(n, m)
           later == Delayed(n, m, v, d)
           released == Released(n, class)
           capped == Capped(n, class)
<1>1. /\ X0 \in X /\ X0 \notin run /\ run \subseteq X
      /\ \A i \in X : v[i] \in Int
      /\ v[X0] = 0 /\ d \in Int
      /\ INF \in Nat /\ INF # 0
  BY KindsOfClocks, INFAssumption DEF Points
<1>2. /\ \A i \in X : later[i] = IF i \in run THEN v[i] + d ELSE v[i]
      /\ \A i \in X : later[i] \in Int
      /\ later \in Points(X)
  BY <1>1 DEF Delayed, Points
<1>3. ASSUME NEW i \in X, Deadline(n, m, i) # INF
      PROVE  later[i] <= Deadline(n, m, i)
  <2>1. PICK t \in PriorityEnabled(n, m) :
          i = Execution(t) /\ Deadline(n, m, i) = Latest(n, t)
    BY <1>3, Deadlines
  <2>2. i \in run
    BY <2>1 DEF Running
  <2> QED
    BY <1>2, <2>1, <2>2
<1>4. ASSUME NEW p \in X \X X
      PROVE  /\ released[p] \in Int
             /\ released[p] = INF \/ later[p[1]] - later[p[2]] <= released[p]
  <2>1. /\ class.zone[p] \in Int
        /\ p[1] \in X /\ p[2] \in X
        /\ DOMAIN class.zone = X \X X
    BY DEF IsZoneClass, Zones, Z!Matrices, Z!Bounds, Z!IntMin
  <2>2. class.zone[p] = INF \/ v[p[1]] - v[p[2]] <= class.zone[p]
    BY <2>1 DEF M!Satisfies
  <2>3. released[p] = IF p[1] \in run /\ p[2] \notin run THEN INF ELSE class.zone[p]
    BY DEF Released
  <2> HIDE DEF released
  <2> QED
    BY <1>1, <1>2, <2>1, <2>2, <2>3
<1>5. ASSUME NEW p \in X \X X
      PROVE  capped[p] = INF \/ later[p[1]] - later[p[2]] <= capped[p]
  <2> DEFINE r == released[p]
             c == Deadline(n, m, p[1])
  <2>1. /\ r \in Int
        /\ r = INF \/ later[p[1]] - later[p[2]] <= r
        /\ c \in 0 .. INF
        /\ c # INF => later[p[1]] <= c
        /\ later[X0] = 0 /\ later[p[1]] \in Int /\ later[p[2]] \in Int
    BY <1>1, <1>2, <1>3, <1>4, Deadlines
  <2>2. capped[p] = IF p[2] = X0 THEN M!Smaller(r, c) ELSE r
    BY DEF Capped
  <2> HIDE DEF r, c, capped, released, later
  <2> QED
    BY <1>1, <2>1, <2>2 DEF M!Smaller
<1>6. /\ capped \in Zones(X)
      /\ TimeElapse(n, class).zone = M!Minimize(X, capped)
  BY ElapsedClass
<1>7. M!Satisfies(later, capped)
  <2>1. DOMAIN capped = X \X X
    BY DEF Capped
  <2> HIDE DEF capped, later
  <2> QED
    BY <1>5, <2>1 DEF M!Satisfies
<1> HIDE DEF capped, later
<1>8. M!Satisfies(later, M!Minimize(X, capped))
  BY <1>2, <1>6, <1>7, ClocksAreFinite, ClosureKeepsMeaning
<1> QED
  BY <1>6, <1>8 DEF later

-----------------------------------------------------------------------------
(* The part of an elapsed zone in which t may fire, for a transition t of  *)
(* the class.                                                              *)
LEMMA FiringZone ==
  ASSUME NEW n, IsNet(n), NEW class, IsZoneClass(n, class),
         NEW t \in PriorityEnabled(n, class.marking)
  PROVE  /\ FiringDomain(n, class, t).zone \in Zones(ClockVars(n, class.marking))
         /\ \A v \in Points(ClockVars(n, class.marking)) :
              M!Satisfies(v, class.zone) /\ Earliest(n, t) <= v[Execution(t)]
                => /\ CanFire(n, class, t)
                   /\ M!Satisfies(v, FiringDomain(n, class, t).zone)
<1> DEFINE X == ClockVars(n, class.marking)
           ht == Execution(t)
           b == -Earliest(n, t)
<1>1. /\ X0 \in X /\ ht \in X /\ class.zone \in Zones(X)
  BY KindsOfClocks, SchedulerSelects DEF IsZoneClass
<1>2. /\ Earliest(n, t) \in 0 .. INF /\ INF \in Nat \ {0}
      /\ b \in Z!Bounds /\ b # INF
  BY SchedulerSelects, IntervalBounds, INFAssumption DEF Z!Bounds, Z!IntMin
<1>3. FiringDomain(n, class, t) = M!Tighten(X, class.zone, X0, ht, b)
  BY DEF FiringDomain
<1>4. ASSUME NEW v \in Points(X), M!Satisfies(v, class.zone),
             Earliest(n, t) <= v[ht]
      PROVE  /\ IsFirable(n, class, t)
             /\ v[X0] - v[ht] <= b
  <2>1. v[ht] \in Int /\ v[X0] = 0 /\ <<ht, X0>> \in X \X X
    BY <1>1 DEF Points
  <2>2. class.zone[<<ht, X0>>] \in Int /\ DOMAIN class.zone = X \X X
    BY <2>1 DEF IsZoneClass, Zones, Z!Matrices, Z!Bounds, Z!IntMin
  <2>3. class.zone[<<ht, X0>>] = INF \/ v[ht] - v[X0] <= class.zone[<<ht, X0>>]
    BY <1>4, <2>1, <2>2 DEF M!Satisfies
  <2>4. class.zone[<<ht, X0>>] >= Earliest(n, t)
    BY <1>2, <1>4, <2>1, <2>2, <2>3
  <2>5. v[X0] - v[ht] <= b
    BY <1>2, <1>4, <2>1
  <2> QED
    BY <2>4, <2>5 DEF IsFirable
<1> HIDE DEF X, ht, b
<1> QED
  BY <1>1, <1>2, <1>3, <1>4, IntersectionIsExact DEF CanFire, X, ht

(* The clocks that survive the firing of t keep their values, every other  *)
(* clock of the marking it leads to starts from zero.                      *)
SurvivingClocks(n, source, m, t) ==
  {i \in ClockVars(n, m) \cap ClockVars(n, source) : i[2] # t}

Carried(n, v, source, m, t) ==
  [i \in ClockVars(n, m) |->
     IF i \in SurvivingClocks(n, source, m, t) THEN v[i] ELSE 0]

LEMMA FreshMatrix ==
  ASSUME NEW X, NEW p \in X \X X
  PROVE  M!NewDBM(X)[p] = IF p[1] = p[2] \/ p[1] = X0 THEN 0 ELSE INF
BY DEF M!NewDBM

(* build_successor_zone before it is closed.                               *)
LaidOut(n, F, source, m, t) ==
  LET X == ClockVars(n, m)
      surviving == SurvivingClocks(n, source, m, t)
  IN  [p \in X \X X |->
         IF p[1] \in surviving /\ p[2] \in surviving
         THEN F[p] ELSE M!NewDBM(X)[p]]

Unclosed(n, F, source, m, t) ==
  Pin(LaidOut(n, F, source, m, t),
      ClockVars(n, m) \ SurvivingClocks(n, source, m, t))

LEMMA PinnedEntry ==
  ASSUME NEW D, NEW fresh, NEW p \in DOMAIN D
  PROVE  /\ DOMAIN Pin(D, fresh) = DOMAIN D
         /\ Pin(D, fresh)[p] =
              IF p[1] # p[2] /\ (\/ p[1] = X0 /\ p[2] \in fresh
                                 \/ p[2] = X0 /\ p[1] \in fresh)
              THEN 0 ELSE D[p]
BY DEF Pin

LEMMA UnclosedSuccessor ==
  ASSUME NEW n, IsNet(n), NEW source, NEW m, NEW t,
         NEW F \in Zones(ClockVars(n, source))
  PROVE  /\ Unclosed(n, F, source, m, t) \in Zones(ClockVars(n, m))
         /\ SuccessorZone(n, F, source, m, t)
              = M!Minimize(ClockVars(n, m), Unclosed(n, F, source, m, t))
<1> DEFINE X == ClockVars(n, m)
           surviving == SurvivingClocks(n, source, m, t)
           laid == LaidOut(n, F, source, m, t)
<1>1. 0 \in Z!Bounds /\ INF \in Z!Bounds
  BY INFAssumption DEF Z!Bounds, Z!IntMin
<1>2. DOMAIN laid = X \X X
  BY DEF LaidOut
<1>3. ASSUME NEW p \in X \X X
      PROVE  laid[p] \in Z!Bounds
  <2>1. laid[p] = IF p[1] \in surviving /\ p[2] \in surviving
                  THEN F[p] ELSE M!NewDBM(X)[p]
    BY DEF LaidOut
  <2>2. p[1] \in surviving /\ p[2] \in surviving => F[p] \in Z!Bounds
    BY DEF SurvivingClocks, Zones, Z!Matrices
  <2>3. M!NewDBM(X)[p] \in Z!Bounds
    BY <1>1, FreshMatrix
  <2> HIDE DEF laid
  <2> QED
    BY <2>1, <2>2, <2>3
<1>4. ASSUME NEW p \in X \X X
      PROVE  Pin(laid, X \ surviving)[p] \in Z!Bounds
  <2> HIDE DEF laid, surviving
  <2> QED
    BY <1>1, <1>2, <1>3, PinnedEntry
<1>5. Pin(laid, X \ surviving) \in Zones(X)
  <2> HIDE DEF surviving
  <2>1. Pin(laid, X \ surviving) = [p \in X \X X |-> Pin(laid, X \ surviving)[p]]
    BY <1>2 DEF Pin
  <2> HIDE DEF laid
  <2> QED
    BY <1>4, <2>1 DEF Zones, Z!Matrices
<1>6. SuccessorZone(n, F, source, m, t) = M!Minimize(X, Pin(laid, X \ surviving))
  BY Zenon DEF SuccessorZone, SurvivingClocks, LaidOut
<1> QED
  BY <1>5, <1>6 DEF Unclosed

LEMMA SuccessorContains ==
  ASSUME NEW n, IsNet(n), NEW source, NEW m, NEW t \in Nat,
         NEW F \in Zones(ClockVars(n, source)),
         NEW v \in Points(ClockVars(n, source)), M!Satisfies(v, F),
         \A i \in ClockVars(n, source) : v[i] >= 0
  PROVE  M!Satisfies(Carried(n, v, source, m, t), SuccessorZone(n, F, source, m, t))
<1> DEFINE X == ClockVars(n, m)
           surviving == SurvivingClocks(n, source, m, t)
           after == Carried(n, v, source, m, t)
           laid == LaidOut(n, F, source, m, t)
           open == Unclosed(n, F, source, m, t)
<1>1. X0 \in X /\ X0 \in surviving /\ surviving \subseteq X
  BY KindsOfClocks DEF SurvivingClocks
<1>2. /\ \A i \in X : after[i] = IF i \in surviving THEN v[i] ELSE 0
      /\ \A i \in X : after[i] \in Int /\ after[i] >= 0
      /\ after[X0] = 0
      /\ after \in Points(X)
  <2>1. \A i \in surviving : v[i] \in Int /\ v[i] >= 0
    BY DEF SurvivingClocks, Points
  <2>2. v[X0] = 0
    BY DEF Points
  <2> QED
    BY <1>1, <2>1, <2>2 DEF Carried, Points
<1>3. ASSUME NEW p \in X \X X
      PROVE  laid[p] = INF \/ after[p[1]] - after[p[2]] <= laid[p]
  <2>1. laid[p] = IF p[1] \in surviving /\ p[2] \in surviving
                  THEN F[p] ELSE M!NewDBM(X)[p]
    BY DEF LaidOut
  <2>2. CASE p[1] \in surviving /\ p[2] \in surviving
    <3>1. p \in DOMAIN F
      BY <2>2 DEF SurvivingClocks, Zones, Z!Matrices
    <3>2. F[p] = INF \/ v[p[1]] - v[p[2]] <= F[p]
      BY <3>1 DEF M!Satisfies
    <3> HIDE DEF laid, after, surviving
    <3> QED
      BY <1>2, <2>1, <2>2, <3>2
  <2>3. CASE ~ (p[1] \in surviving /\ p[2] \in surviving)
    <3>1. laid[p] = IF p[1] = p[2] \/ p[1] = X0 THEN 0 ELSE INF
      BY <2>1, <2>3, FreshMatrix
    <3> HIDE DEF laid, after, surviving
    <3> QED
      BY <1>2, <3>1
  <2> QED
    BY <2>2, <2>3
<1>4. DOMAIN laid = X \X X
  BY DEF LaidOut
<1>5. /\ open \in Zones(X)
      /\ SuccessorZone(n, F, source, m, t) = M!Minimize(X, open)
  BY UnclosedSuccessor
<1>6. M!Satisfies(after, open)
  <2> HIDE DEF after, laid, surviving
  <2>1. open = Pin(laid, X \ surviving)
    BY DEF Unclosed, laid, surviving
  <2>2. DOMAIN open = X \X X
    BY <1>4, <2>1 DEF Pin
  <2> SUFFICES ASSUME NEW p \in X \X X
               PROVE  open[p] = INF \/ after[p[1]] - after[p[2]] <= open[p]
    BY <2>2 DEF M!Satisfies
  <2> DEFINE pinned == /\ p[1] # p[2]
                       /\ \/ p[1] = X0 /\ p[2] \in X \ surviving
                          \/ p[2] = X0 /\ p[1] \in X \ surviving
  <2>3. open[p] = IF pinned THEN 0 ELSE laid[p]
    BY <1>4, <2>1, PinnedEntry
  <2>4. pinned => after[p[1]] - after[p[2]] = 0
    BY <1>2
  <2> HIDE DEF open, pinned
  <2> QED
    BY <1>3, <2>3, <2>4
<1> HIDE DEF after, open
<1>7. M!Satisfies(after, M!Minimize(X, open))
  BY <1>2, <1>5, <1>6, ClocksAreFinite, ClosureKeepsMeaning
<1> QED
  BY <1>5, <1>7 DEF after

(* Firing loses no value: a point of an elapsed class at which t has       *)
(* reached its earliest firing time is a point at which the engine fires   *)
(* t, and the point it becomes is in the successor.                        *)
THEOREM FiringLosesNothing ==
  ASSUME NEW n, IsNet(n), NEW class, IsZoneClass(n, class),
         NEW t \in PriorityEnabled(n, class.marking),
         NEW v \in Points(ClockVars(n, class.marking)),
         M!Satisfies(v, class.zone),
         \A i \in ClockVars(n, class.marking) : v[i] >= 0,
         Earliest(n, t) <= v[Execution(t)]
  PROVE  LET m == FireMarking(class.marking, n, t)
         IN  /\ CanFire(n, class, t)
             /\ Successor(n, class, t).marking = m
             /\ M!Satisfies(Carried(n, v, class.marking, m, t),
                            Successor(n, class, t).zone)
<1> DEFINE m == FireMarking(class.marking, n, t)
           F == FiringDomain(n, class, t).zone
<1>1. CanFire(n, class, t) /\ M!Satisfies(v, F)
  BY FiringZone
<1>2. F \in Zones(ClockVars(n, class.marking)) /\ t \in Nat
  BY FiringZone, SchedulerSelects DEF IsNet
<1>3. Successor(n, class, t)
        = [marking |-> m, zone |-> SuccessorZone(n, F, class.marking, m, t)]
  BY Zenon DEF Successor
<1> HIDE DEF F, m
<1>4. M!Satisfies(Carried(n, v, class.marking, m, t),
                  SuccessorZone(n, F, class.marking, m, t))
  BY <1>1, <1>2, SuccessorContains
<1> QED
  BY <1>1, <1>3, <1>4 DEF m

LEMMA SuccessorIsClass ==
  ASSUME NEW n, IsNet(n), NEW class, IsZoneClass(n, class),
         NEW t \in PriorityEnabled(n, class.marking)
  PROVE  IsZoneClass(n, Successor(n, class, t))
<1> DEFINE m == FireMarking(class.marking, n, t)
           F == FiringDomain(n, class, t).zone
           S == SuccessorZone(n, F, class.marking, m, t)
<1>1. F \in Zones(ClockVars(n, class.marking))
  BY FiringZone
<1>2. Successor(n, class, t) = [marking |-> m, zone |-> S]
  BY Zenon DEF Successor
<1> HIDE DEF F, m
<1>3. S \in Zones(ClockVars(n, m))
  BY <1>1, UnclosedSuccessor, ClocksAreFinite, ClosureKeepsMeaning
<1> HIDE DEF S
<1> QED
  BY <1>2, <1>3 DEF IsZoneClass

-----------------------------------------------------------------------------
(* Every clock of the initial class may be zero.                           *)
LEMMA InitialClassContains ==
  ASSUME NEW n, IsNet(n)
  PROVE  /\ IsZoneClass(n, InitialClass(n))
         /\ InitialClass(n).marking = n.M0
         /\ M!Satisfies([i \in ClockVars(n, n.M0) |-> 0], InitialClass(n).zone)
<1> DEFINE X == ClockVars(n, n.M0)
           D == Pin(M!NewDBM(X), X)
           zero == [i \in X |-> 0]
<1>1. DOMAIN D = X \X X
  BY DEF Pin, M!NewDBM
<1>2. \A p \in X \X X : D[p] \in {0, INF}
  <2> TAKE p \in X \X X
  <2>1. M!NewDBM(X)[p] \in {0, INF} /\ p \in DOMAIN M!NewDBM(X)
    BY DEF M!NewDBM
  <2> QED
    BY <2>1, PinnedEntry
<1>3. D \in Zones(X)
  <2>1. 0 \in Z!Bounds /\ INF \in Z!Bounds
    BY INFAssumption DEF Z!Bounds, Z!IntMin
  <2>2. D = [p \in X \X X |-> D[p]]
    BY <1>1 DEF Pin
  <2> HIDE DEF D
  <2> QED
    BY <1>2, <2>1, <2>2 DEF Zones, Z!Matrices
<1>4. zero \in Points(X)
  BY KindsOfClocks DEF Points
<1>5. M!Satisfies(zero, D)
  <2> HIDE DEF D
  <2> QED
    BY <1>1, <1>2 DEF M!Satisfies
<1>6. InitialClass(n) = [marking |-> n.M0, zone |-> M!Minimize(X, D)]
  BY DEF InitialClass
<1> HIDE DEF D, zero
<1>7. M!Minimize(X, D) \in Zones(X) /\ M!Satisfies(zero, M!Minimize(X, D))
  BY <1>3, <1>4, <1>5, ClocksAreFinite, ClosureKeepsMeaning
<1> QED
  BY <1>6, <1>7 DEF IsZoneClass, zero

(* The extrapolation bound exists and is a machine integer.                *)
LEMMA ExtrapolationBoundType ==
  ASSUME NEW n, IsNet(n)
  PROVE  /\ ExtrapolationBound(n) \in 0 .. INF
         /\ \A e \in FiniteEndpoints(n) : e <= ExtrapolationBound(n)
<1> DEFINE gaps == {INF - e : e \in FiniteEndpoints(n)}
<1>1. \A e \in FiniteEndpoints(n) : e \in 0 .. INF
  BY IntervalBounds, INFAssumption DEF FiniteEndpoints
<1>2. 0 \in FiniteEndpoints(n)
  BY DEF FiniteEndpoints
<1>3. gaps \in SUBSET Nat /\ gaps # {}
  BY <1>1, <1>2, INFAssumption
<1>4. PICK g \in gaps : \A x \in gaps : g <= x
  BY <1>3, Z!LeastCount
<1>5. PICK k \in FiniteEndpoints(n) : g = INF - k
  BY <1>4
<1>6. \A e \in FiniteEndpoints(n) : e <= k
  <2> TAKE e \in FiniteEndpoints(n)
  <2>1. INF - k <= INF - e
    BY <1>4, <1>5
  <2> QED
    BY <1>1, <1>5, <2>1, INFAssumption
<1>7. /\ ExtrapolationBound(n) \in FiniteEndpoints(n)
      /\ \A e \in FiniteEndpoints(n) : e <= ExtrapolationBound(n)
  BY <1>5, <1>6 DEF ExtrapolationBound
<1> QED
  BY <1>1, <1>7

(* Extrapolating a class loses no value.                                   *)
LEMMA ExtrapolatedClass ==
  ASSUME NEW n, IsNet(n), NEW class, IsZoneClass(n, class)
  PROVE  /\ IsZoneClass(n, ExtrapolateClass(n, class))
         /\ ExtrapolateClass(n, class).marking = class.marking
         /\ \A v \in Points(ClockVars(n, class.marking)) :
              M!Satisfies(v, class.zone)
                => M!Satisfies(v, ExtrapolateClass(n, class).zone)
<1> DEFINE X == ClockVars(n, class.marking)
           k == ExtrapolationBound(n)
<1>1. ExtrapolateClass(n, class)
        = [marking |-> class.marking, zone |-> M!Extrapolate(X, class.zone, k)]
  BY DEF ExtrapolateClass, IsZoneClass
<1>2. k \in 0 .. INF /\ IsFiniteSet(X) /\ class.zone \in Zones(X)
  BY ExtrapolationBoundType, ClocksAreFinite DEF IsZoneClass
<1>3. /\ M!Extrapolate(X, class.zone, k) \in Zones(X)
      /\ \A v \in Points(X) :
           M!Satisfies(v, class.zone)
             => M!Satisfies(v, M!Extrapolate(X, class.zone, k))
  BY <1>2, ExtrapolationWidens
<1> QED
  BY <1>1, <1>3 DEF IsZoneClass

(* A class covers what is merged into it, in every mode.                   *)
THEOREM MergingLosesNothing ==
  ASSUME NEW n, NEW candidate, IsZoneClass(n, candidate),
         NEW existing, IsZoneClass(n, existing),
         NEW mode, CanMergeInto(candidate, existing, mode),
         NEW v \in Points(ClockVars(n, candidate.marking)),
         M!Satisfies(v, candidate.zone)
  PROVE  /\ candidate.marking = existing.marking
         /\ M!Satisfies(v, existing.zone)
<1>1. CASE candidate = existing
  BY <1>1
<1>2. CASE CheckInclusion(candidate, existing)
  BY <1>2, InclusionCovers DEF CheckInclusion, IsZoneClass
<1> QED
  BY <1>1, <1>2 DEF CanMergeInto, CheckEquality

-----------------------------------------------------------------------------
(* Closed form.  A class is canonical when its zone is closed, its diagonal*)
(* is zero, no clock can be negative, and no enabled transition can be past*)
(* its latest firing time.  The last two are what keeps the zone from being*)
(* emptied when the clocks are capped or new ones are laid out.            *)
ClosedForm(X, D) ==
  /\ D \in Zones(X)
  /\ Z!ClosedOver(X, X, D)
  /\ Z!ZeroDiagonal(X, D)

InTime(n, m, D) ==
  /\ \A i \in ClockVars(n, m) : D[<<X0, i>>] <= 0
  /\ \A t \in StructEnabled(n, m) : D[<<Execution(t), X0>>] <= Latest(n, t)

IsCanonical(n, class) ==
  /\ IsZoneClass(n, class)
  /\ ClosedForm(ClockVars(n, class.marking), class.zone)
  /\ InTime(n, class.marking, class.zone)

(* The matrix facts about closed forms, said of the engine's instance.     *)
LEMMA ClosureCloses ==
  ASSUME NEW X, IsFiniteSet(X), NEW D \in Zones(X), NEW B \in Nat,
         2 * ((Cardinality(X) + 1) * B) < INF,
         \A i, j \in X : D[<<i, j>>] = INF \/ D[<<i, j>>] <= B,
         NEW v \in Points(X), \A i \in X : v[i] \in 0 .. B, M!Satisfies(v, D),
         Z!ZeroDiagonal(X, D)
  PROVE  LET C == M!Minimize(X, D)
         IN  /\ ClosedForm(X, C) /\ M!Satisfies(v, C) /\ Z!Below(X, C, D)
             /\ Z!Within(X, C, -B, (Cardinality(X) + 1) * B)
<1>1. M!Minimize(X, D) = Z!Minimize(X, D)
  BY Zenon
     DEF M!Minimize, Z!Minimize, M!FoldSet, Z!FoldSet,
         M!MapThenFoldSet, Z!MapThenFoldSet, M!Relax, Z!Relax,
         M!RelaxVia, Z!RelaxVia, M!Whole, Z!Whole, M!SafeAdd, Z!SafeAdd,
         M!Smaller, Z!Smaller, M!IntMin, Z!IntMin
<1>2. \A x, E : M!Satisfies(x, E) <=> Z!Satisfies(x, E)
  BY DEF M!Satisfies, Z!Satisfies
<1>3. v \in Z!Valuation(X)
  BY DEF Points, Z!Valuation
<1>4. INF \in Nat /\ D \in Z!Matrices(X) /\ Z!IsFiniteSet(X)
  BY INFAssumption DEF Zones, IsFiniteSet, Z!IsFiniteSet
<1>5. Z!Cardinality(X) = Cardinality(X)
  BY Zenon DEF Z!Cardinality, Cardinality, Z!IsFiniteSet, IsFiniteSet
<1>6. /\ Z!Minimize(X, D) \in Z!Matrices(X) /\ Z!Satisfies(v, Z!Minimize(X, D))
      /\ Z!ClosedOver(X, X, Z!Minimize(X, D)) /\ Z!ZeroDiagonal(X, Z!Minimize(X, D))
      /\ Z!Below(X, Z!Minimize(X, D), D)
      /\ Z!Within(X, Z!Minimize(X, D), -B, (Cardinality(X) + 1) * B)
  BY <1>2, <1>3, <1>4, <1>5, Z!MinimizeCloses
<1> QED
  BY <1>1, <1>2, <1>6 DEF ClosedForm, Zones

LEMMA IntersectionCloses ==
  ASSUME NEW X, NEW D, ClosedForm(X, D), NEW U \in Nat, 3 * U < INF,
         Z!Within(X, D, -U, U),
         NEW i \in X, NEW j \in X, i # j, NEW b \in -U .. U
  PROVE  LET R == M!Tighten(X, D, i, j, b)
         IN  R.nonempty =>
               /\ ClosedForm(X, R.zone) /\ Z!Below(X, R.zone, D)
               /\ Z!Within(X, R.zone, -(3 * U), 3 * U)
<1>1. M!Tighten(X, D, i, j, b) = Z!Tighten(X, D, i, j, b)
  BY Zenon
     DEF M!Tighten, Z!Tighten, M!TightenVia, Z!TightenVia,
         M!NegativeDiagonal, Z!NegativeDiagonal, M!SafeAdd, Z!SafeAdd,
         M!Smaller, Z!Smaller, M!IntMin, Z!IntMin
<1>2. D \in Z!Matrices(X) /\ INF \in Nat
  BY INFAssumption DEF ClosedForm, Zones
<1>3. Z!Tighten(X, D, i, j, b).nonempty =>
        /\ Z!ClosedOver(X, X, Z!Tighten(X, D, i, j, b).zone)
        /\ Z!ZeroDiagonal(X, Z!Tighten(X, D, i, j, b).zone)
        /\ Z!Below(X, Z!Tighten(X, D, i, j, b).zone, D)
        /\ Z!Within(X, Z!Tighten(X, D, i, j, b).zone, -(3 * U), 3 * U)
  BY <1>2, Z!TightenCloses DEF ClosedForm
<1>4. b \in Z!Bounds /\ b # INF
  BY <1>2 DEF Z!Bounds, Z!IntMin
<1>5. M!Tighten(X, D, i, j, b).zone \in Zones(X)
  BY <1>4, IntersectionIsExact DEF ClosedForm
<1> QED
  BY <1>1, <1>3, <1>5 DEF ClosedForm

LEMMA WideningCloses ==
  ASSUME NEW X, IsFiniteSet(X), X0 \in X, NEW D, ClosedForm(X, D), NEW B \in Nat,
         2 * ((Cardinality(X) + 1) * B) < INF,
         \A i \in X : -B <= D[<<X0, i>>] /\ D[<<X0, i>>] <= 0,
         NEW k \in 0 .. INF, k <= B
  PROVE  LET E == M!Extrapolate(X, D, k)
         IN  /\ ClosedForm(X, E)
             /\ Z!Below(X, E, Z!Relaxed(D, k))
             /\ M!Satisfies(Z!Corner(X, D), E)
<1>1. M!Extrapolate(X, D, k) = Z!Extrapolate(X, D, k)
  BY Zenon
     DEF M!Extrapolate, Z!Extrapolate, M!RelaxBound, Z!RelaxBound,
         M!Minimize, Z!Minimize, M!FoldSet, Z!FoldSet,
         M!MapThenFoldSet, Z!MapThenFoldSet, M!Relax, Z!Relax,
         M!RelaxVia, Z!RelaxVia, M!Whole, Z!Whole, M!SafeAdd, Z!SafeAdd,
         M!Smaller, Z!Smaller, M!IntMin, Z!IntMin
<1>2. \A x, E : M!Satisfies(x, E) <=> Z!Satisfies(x, E)
  BY DEF M!Satisfies, Z!Satisfies
<1>3. INF \in Nat \ {0} /\ D \in Z!Matrices(X) /\ Z!IsFiniteSet(X)
  BY INFAssumption DEF ClosedForm, Zones, IsFiniteSet, Z!IsFiniteSet
<1>4. Z!Cardinality(X) = Cardinality(X)
  BY Zenon DEF Z!Cardinality, Cardinality, Z!IsFiniteSet, IsFiniteSet
<1>5. /\ Z!Extrapolate(X, D, k) \in Z!Matrices(X)
      /\ Z!ClosedOver(X, X, Z!Extrapolate(X, D, k))
      /\ Z!ZeroDiagonal(X, Z!Extrapolate(X, D, k))
      /\ Z!Below(X, Z!Extrapolate(X, D, k), Z!Relaxed(D, k))
      /\ Z!Satisfies(Z!Corner(X, D), Z!Extrapolate(X, D, k))
  BY <1>3, <1>4, Z!ExtrapolateCloses DEF ClosedForm
<1> QED
  BY <1>1, <1>2, <1>5 DEF ClosedForm, Zones

(* The point of a closed zone at which every clock has its least value.    *)
LEMMA LeastPoint ==
  ASSUME NEW X, X0 \in X, NEW D, ClosedForm(X, D), NEW L \in Nat,
         \A i \in X : -L <= D[<<X0, i>>] /\ D[<<X0, i>>] <= 0
  PROVE  LET c == Z!Corner(X, D)
         IN  /\ c \in Points(X) /\ M!Satisfies(c, D)
             /\ \A i \in X : c[i] \in 0 .. L /\ c[i] = -D[<<X0, i>>]
<1>1. INF \in Nat \ {0} /\ D \in Z!Matrices(X)
  BY INFAssumption DEF ClosedForm, Zones
<1>2. LET c == Z!Corner(X, D)
      IN  /\ c \in Z!Valuation(X) /\ c[X0] = 0 /\ Z!Satisfies(c, D)
          /\ \A i \in X : c[i] \in 0 .. L /\ c[i] = -D[<<X0, i>>]
  BY <1>1, Z!CornerIsInside DEF ClosedForm
<1>3. \A x : M!Satisfies(x, D) <=> Z!Satisfies(x, D)
  BY DEF M!Satisfies, Z!Satisfies
<1> QED
  BY <1>2, <1>3 DEF Points, Z!Valuation

LEMMA ZoneEntries ==
  ASSUME NEW X, NEW D \in Zones(X)
  PROVE  /\ \A i, j \in X : D[<<i, j>>] \in Int /\ D[<<i, j>>] <= INF
         /\ DOMAIN D = X \X X
BY INFAssumption DEF Zones, Z!Matrices, Z!Bounds, Z!IntMin

-----------------------------------------------------------------------------
(* Room for the sums.  A step of the engine on zones of at most N clocks   *)
(* with bounds up to B meets no sum above 6 * (N + 1) * (N + 1) * B.       *)
HasRoom(n, N, B) ==
  /\ N \in Nat /\ B \in Nat
  /\ 6 * ((N + 1) * ((N + 1) * B)) < INF /\ 3 * (B + 1) < INF
  /\ ExtrapolationBound(n) <= B

LEMMA RoomForSums ==
  ASSUME NEW n, NEW N, NEW B, HasRoom(n, N, B), NEW c \in Nat, c <= N
  PROVE  LET U == (N + 1) * B
         IN  /\ U \in Nat /\ B <= U
             /\ (c + 1) * B <= U /\ 2 * ((c + 1) * B) < INF
             /\ 3 * U \in Nat /\ 3 * U < INF
             /\ 2 * ((c + 1) * (3 * U)) < INF
<1> DEFINE U == (N + 1) * B
<1>1. N \in Nat /\ B \in Nat /\ INF \in Nat /\ 6 * ((N + 1) * U) < INF
  BY INFAssumption DEF HasRoom
<1>2. U = N * B + B /\ N * B \in Nat
  BY <1>1, Z!OneMore
<1>3. (c + 1) * B <= U
  BY <1>1, Z!MoreIsMore, c + 1 \in Nat, N + 1 \in Nat, c + 1 <= N + 1
<1>4. U \in Nat /\ B <= U
  BY <1>1, <1>2
<1> HIDE DEF U
<1>5. (N + 1) * U = N * U + U /\ N * U \in Nat /\ (c + 1) * U = c * U + U /\ c * U \in Nat
  BY <1>1, <1>4, Z!OneMore
<1>6. c * U <= N * U
  BY <1>1, <1>4, Z!MoreIsMore
<1>7. (c + 1) * (3 * U) = 3 * ((c + 1) * U)
  BY <1>4
<1>8. (c + 1) * B \in Nat
  BY <1>1
<1> DEFINE p == (N + 1) * U
           q == (c + 1) * U
           r == (c + 1) * B
           s == (c + 1) * (3 * U)
           x == N * U
           y == c * U
<1>9. /\ p = x + U /\ q = y + U /\ y <= x /\ x \in Nat /\ y \in Nat
      /\ s = 3 * q /\ r \in Nat /\ r <= U /\ 6 * p < INF
  BY <1>1, <1>3, <1>5, <1>6, <1>7, <1>8
<1> HIDE DEF p, q, r, s, x, y
<1>10. 2 * s < INF /\ 3 * U < INF /\ 2 * r < INF /\ 3 * U \in Nat
  BY <1>1, <1>4, <1>9
<1> QED
  BY <1>3, <1>4, <1>10 DEF U, r, s

LEMMA EndpointsHaveRoom ==
  ASSUME NEW n, IsNet(n), NEW N, NEW B, HasRoom(n, N, B), NEW t \in n.transitions
  PROVE  /\ Earliest(n, t) \in 0 .. B
         /\ Latest(n, t) \in 0 .. INF
         /\ Latest(n, t) # INF => Latest(n, t) <= B
<1>1. Earliest(n, t) <= ExtrapolationBound(n)
  BY ExtrapolationBoundType DEF FiniteEndpoints
<1>2. Latest(n, t) # INF => Latest(n, t) <= ExtrapolationBound(n)
  BY ExtrapolationBoundType DEF FiniteEndpoints
<1>3. ExtrapolationBound(n) \in Nat
  BY ExtrapolationBoundType, INFAssumption
<1> QED
  BY <1>1, <1>2, <1>3, IntervalBounds, INFAssumption DEF HasRoom

LEMMA ClocksAreCounted ==
  ASSUME NEW n, IsNet(n), NEW m
  PROVE  Cardinality(ClockVars(n, m)) \in Nat
BY ClocksAreFinite, FS_CardinalityType

(* The least point of a canonical class is in time: no enabled transition  *)
(* has passed its latest firing time there.                                *)
LEMMA LeastPointInTime ==
  ASSUME NEW n, IsNet(n), NEW class, IsCanonical(n, class),
         NEW t \in StructEnabled(n, class.marking),
         -INF <= class.zone[<<X0, Execution(t)>>]
  PROVE  LET D == class.zone
         IN  /\ D[<<X0, Execution(t)>>] \in Int
             /\ -D[<<X0, Execution(t)>>] <= Latest(n, t)
             /\ D[<<Execution(t), X0>>] \in Int
             /\ 0 <= D[<<X0, Execution(t)>>] + D[<<Execution(t), X0>>]
                  \/ D[<<Execution(t), X0>>] = INF
<1> DEFINE X == ClockVars(n, class.marking)
           D == class.zone
           h == Execution(t)
<1>1. X0 \in X /\ h \in X
  BY KindsOfClocks
<1>2. D \in Zones(X)
  BY DEF IsCanonical, ClosedForm
<1>3. /\ D[<<X0, h>>] \in Int /\ D[<<h, X0>>] \in Int
      /\ D[<<X0, X0>>] \in Int
      /\ INF \in Nat \ {0}
  BY <1>1, <1>2, ZoneEntries, INFAssumption
<1>4. D[<<X0, X0>>] = 0 /\ D[<<X0, h>>] <= 0 /\ D[<<h, X0>>] <= Latest(n, t)
  BY <1>1 DEF IsCanonical, ClosedForm, InTime, Z!ZeroDiagonal
<1>5. D[<<X0, h>>] # INF
  BY <1>3, <1>4
<1>6. D[<<h, X0>>] # INF => D[<<X0, X0>>] <= D[<<X0, h>>] + D[<<h, X0>>]
  BY <1>1, <1>5 DEF IsCanonical, ClosedForm, Z!ClosedOver
<1>7. Latest(n, t) \in 0 .. INF
  BY SchedulerSelects, IntervalBounds
<1> QED
  BY <1>3, <1>4, <1>6, <1>7

(* Fits: the zone of a class has at most N clocks and bounds up to B.      *)
Fits(n, class, N, B) ==
  /\ Cardinality(ClockVars(n, class.marking)) <= N
  /\ Z!Within(ClockVars(n, class.marking), class.zone, -B, B)

(* time_elapse leaves a canonical class canonical: the least point of the  *)
(* class is still there, so closing cannot empty the zone.                 *)
LEMMA ElapsedIsCanonical ==
  ASSUME NEW n, IsNet(n), NEW class, IsCanonical(n, class),
         NEW N, NEW B, HasRoom(n, N, B), Fits(n, class, N, B)
  PROVE  /\ IsCanonical(n, TimeElapse(n, class))
         /\ TimeElapse(n, class).marking = class.marking
         /\ Fits(n, TimeElapse(n, class), N, (N + 1) * B)
<1> DEFINE m == class.marking
           X == ClockVars(n, m)
           D == class.zone
           C == Capped(n, class)
           E == TimeElapse(n, class)
           U == (N + 1) * B
           c == Z!Corner(X, D)
<1>1. /\ X0 \in X /\ IsFiniteSet(X) /\ Cardinality(X) \in Nat /\ Cardinality(X) <= N
      /\ INF \in Nat \ {0} /\ N \in Nat /\ B \in Nat /\ ClosedForm(X, D) /\ D \in Zones(X)
      /\ IsZoneClass(n, class)
  BY KindsOfClocks, ClocksAreFinite, ClocksAreCounted, INFAssumption
     DEF Fits, HasRoom, IsCanonical, ClosedForm
<1>2. /\ U \in Nat /\ B <= U /\ 3 * U < INF
      /\ (Cardinality(X) + 1) * B <= U /\ 2 * ((Cardinality(X) + 1) * B) < INF
  BY <1>1, RoomForSums
<1>3. B < INF
  BY <1>1, <1>2
<1>4. \A i, j \in X : /\ D[<<i, j>>] \in Int
                      /\ D[<<i, j>>] = INF \/ (-B <= D[<<i, j>>] /\ D[<<i, j>>] <= B)
  BY <1>1, ZoneEntries DEF Fits, Z!Within
<1>5. /\ \A i \in X : -B <= D[<<X0, i>>] /\ D[<<X0, i>>] <= 0
      /\ \A i \in X : D[<<i, i>>] = 0
  <2>1. \A i \in X : D[<<X0, i>>] <= 0 /\ D[<<i, i>>] = 0
    BY DEF IsCanonical, InTime, ClosedForm, Z!ZeroDiagonal
  <2>2. ASSUME NEW i \in X PROVE -B <= D[<<X0, i>>]
    <3> DEFINE d == D[<<X0, i>>]
    <3>1. d \in Int /\ d <= 0 /\ (d = INF \/ -B <= d)
      BY <1>1, <1>4, <2>1
    <3> HIDE DEF d
    <3> QED
      BY <1>1, <3>1 DEF d
  <2> QED
    BY <2>1, <2>2
<1>6. /\ c \in Points(X) /\ M!Satisfies(c, D)
      /\ \A i \in X : c[i] \in 0 .. B /\ c[i] = -D[<<X0, i>>]
  BY <1>1, <1>5, LeastPoint
<1>7. /\ IsZoneClass(n, E) /\ E.marking = m
      /\ E.zone = M!Minimize(X, C)
      /\ C \in Zones(X)
  BY <1>1, ElapsedClass
<1>8. ASSUME NEW t \in StructEnabled(n, m)
      PROVE  /\ Execution(t) \in X
             /\ c[Execution(t)] <= Latest(n, t)
             /\ Latest(n, t) \in 0 .. INF
             /\ Latest(n, t) # INF => Latest(n, t) <= B
  <2>1. Execution(t) \in X
    BY KindsOfClocks
  <2>2. -INF <= D[<<X0, Execution(t)>>]
    BY <1>1, <1>3, <1>4, <1>5, <2>1
  <2>3. c[Execution(t)] <= Latest(n, t)
    BY <1>6, <2>1, <2>2, LeastPointInTime
  <2> QED
    BY <2>1, <2>3, EndpointsHaveRoom, SchedulerSelects
<1>9. M!Satisfies(c, C)
  <2> HIDE DEF c, C
  <2>1. \A t \in PriorityEnabled(n, m) : c[Execution(t)] + 0 <= Latest(n, t)
    <3> TAKE t \in PriorityEnabled(n, m)
    <3>1. t \in StructEnabled(n, m)
      BY SchedulerSelects
    <3>2. c[Execution(t)] \in 0 .. B /\ c[Execution(t)] <= Latest(n, t)
      BY <1>6, <1>8, <3>1
    <3>3. \A a \in 0 .. B : a + 0 = a
      BY <1>1
    <3> QED
      BY <3>2, <3>3
  <2>2. M!Satisfies(Delayed(n, m, c, 0), E.zone)
    BY <1>1, <1>6, <2>1, ElapsingLosesNothing
  <2>3. Delayed(n, m, c, 0) = c
    <3>1. c = [i \in X |-> c[i]] /\ \A i \in X : c[i] + 0 = c[i]
      BY <1>6 DEF Points
    <3> QED
      BY <3>1 DEF Delayed
  <2> QED
    BY <1>1, <1>6, <1>7, <2>2, <2>3, ClosureKeepsMeaning
<1>10. ASSUME NEW i \in X, NEW j \in X
       PROVE  /\ C[<<i, j>>] = IF j = X0
                               THEN M!Smaller(Released(n, class)[<<i, j>>],
                                              Deadline(n, m, i))
                               ELSE Released(n, class)[<<i, j>>]
              /\ Released(n, class)[<<i, j>>]
                   = IF i \in Running(n, m) /\ j \notin Running(n, m)
                     THEN INF ELSE D[<<i, j>>]
  BY DEF Capped, Released
<1>11. ASSUME NEW i \in X
       PROVE  /\ Deadline(n, m, i) \in 0 .. INF
              /\ Deadline(n, m, i) # INF => Deadline(n, m, i) <= B
  <2>1. Deadline(n, m, i) # INF
          => \E t \in PriorityEnabled(n, m) : Deadline(n, m, i) = Latest(n, t)
    BY Deadlines
  <2>2. \A t \in PriorityEnabled(n, m) : t \in StructEnabled(n, m)
    BY SchedulerSelects
  <2> QED
    BY <1>8, <2>1, <2>2, Deadlines
<1>12. \A i, j \in X : C[<<i, j>>] = INF \/ C[<<i, j>>] <= B
  <2> TAKE i, j \in X
  <2> DEFINE r == Released(n, class)[<<i, j>>]
             d == Deadline(n, m, i)
  <2>1. r = INF \/ r = D[<<i, j>>]
    BY <1>10
  <2>2. r \in Int /\ (r = INF \/ r <= B)
    BY <1>1, <1>4, <2>1
  <2>3. d \in 0 .. INF /\ (d = INF \/ d <= B)
    BY <1>11
  <2>4. C[<<i, j>>] = M!Smaller(r, d) \/ C[<<i, j>>] = r
    BY <1>10
  <2> HIDE DEF r, d, C
  <2> QED
    BY <2>2, <2>3, <2>4 DEF M!Smaller
<1>13. Z!ZeroDiagonal(X, C)
  <2> SUFFICES ASSUME NEW i \in X PROVE C[<<i, i>>] = 0
    BY DEF Z!ZeroDiagonal
  <2>1. Released(n, class)[<<i, i>>] = 0
    BY <1>5, <1>10
  <2>2. M!Smaller(0, Deadline(n, m, i)) = 0
    BY <1>11 DEF M!Smaller
  <2> QED
    BY <1>10, <2>1, <2>2
<1> HIDE DEF C, c
<1>14. /\ ClosedForm(X, E.zone) /\ Z!Below(X, E.zone, C)
       /\ Z!Within(X, E.zone, -B, (Cardinality(X) + 1) * B)
  BY <1>1, <1>2, <1>6, <1>7, <1>9, <1>12, <1>13, ClosureCloses
<1>15. \A i, j \in X : E.zone[<<i, j>>] \in Int /\ C[<<i, j>>] \in Int
  BY <1>7, <1>14, ZoneEntries DEF ClosedForm
<1>16. \A i, j \in X : E.zone[<<i, j>>] <= C[<<i, j>>]
  BY <1>14 DEF Z!Below
<1>17. InTime(n, m, E.zone)
  <2>1. ASSUME NEW i \in X PROVE E.zone[<<X0, i>>] <= 0
    <3>1. CASE i = X0
      <4>1. E.zone[<<X0, X0>>] = 0
        BY <1>1, <1>14 DEF ClosedForm, Z!ZeroDiagonal
      <4> QED
        BY <3>1, <4>1
    <3>2. CASE i # X0
      <4>1. X0 \notin Running(n, m)
        BY KindsOfClocks
      <4>2. C[<<X0, i>>] = D[<<X0, i>>]
        BY <1>1, <1>10, <3>2, <4>1
      <4>3. E.zone[<<X0, i>>] <= D[<<X0, i>>] /\ D[<<X0, i>>] <= 0
        BY <1>1, <1>5, <1>16, <4>2
      <4> QED
        BY <1>1, <1>4, <1>15, <4>3
    <3> QED
      BY <3>1, <3>2
  <2>2. ASSUME NEW t \in StructEnabled(n, m)
        PROVE  E.zone[<<Execution(t), X0>>] <= Latest(n, t)
    <3> DEFINE h == Execution(t)
               r == Released(n, class)[<<h, X0>>]
               d == Deadline(n, m, h)
    <3>1. h \in X /\ Latest(n, t) \in 0 .. INF /\ D[<<h, X0>>] <= Latest(n, t)
      BY <1>8 DEF IsCanonical, InTime
    <3>2. /\ C[<<h, X0>>] = M!Smaller(r, d) /\ d \in 0 .. INF
          /\ r \in Int
      <4>1. r = INF \/ r = D[<<h, X0>>]
        BY <1>1, <1>10, <3>1
      <4> QED
        BY <1>1, <1>4, <1>10, <1>11, <3>1, <4>1
    <3>3. CASE t \in PriorityEnabled(n, m)
      <4>1. d = Latest(n, t)
        BY <3>3 DEF Deadline, Execution
      <4> HIDE DEF r, d, h
      <4>2. C[<<h, X0>>] <= Latest(n, t)
        BY <3>1, <3>2, <4>1 DEF M!Smaller
      <4> QED
        BY <1>1, <1>15, <1>16, <3>1, <4>2 DEF h
    <3>4. CASE t \notin PriorityEnabled(n, m)
      <4>1. h \notin Running(n, m)
        BY <3>4, KindsOfClocks DEF Running, SuspClocks
      <4>2. r = D[<<h, X0>>]
        BY <1>1, <1>10, <3>1, <4>1
      <4> HIDE DEF r, d, h
      <4>3. C[<<h, X0>>] <= Latest(n, t)
        BY <3>1, <3>2, <4>2 DEF M!Smaller
      <4> QED
        BY <1>1, <1>15, <1>16, <3>1, <4>3 DEF h
    <3> QED
      BY <3>3, <3>4
  <2> QED
    BY <2>1, <2>2 DEF InTime
<1>18. Z!Within(X, E.zone, -U, U)
  <2> SUFFICES ASSUME NEW i \in X, NEW j \in X, E.zone[<<i, j>>] # INF
               PROVE  -U <= E.zone[<<i, j>>] /\ E.zone[<<i, j>>] <= U
    BY DEF Z!Within
  <2> DEFINE e == E.zone[<<i, j>>]
             q == (Cardinality(X) + 1) * B
  <2>1. -B <= e /\ e <= q /\ e \in Int
    BY <1>14, <1>15 DEF Z!Within
  <2>2. q \in Nat /\ q <= U
    <3>1. Cardinality(X) + 1 \in Nat
      BY <1>1
    <3>2. q \in Nat
      BY <1>1, <3>1, Z!OneMore
    <3> QED
      BY <1>2, <3>2
  <2> HIDE DEF e, q, U
  <2> QED
    BY <1>1, <1>2, <2>1, <2>2 DEF e
<1> QED
  BY <1>1, <1>7, <1>14, <1>17, <1>18 DEF IsCanonical, Fits

LEMMA UnclosedEntry ==
  ASSUME NEW n, NEW F, NEW source, NEW m, NEW t,
         NEW i \in ClockVars(n, m), NEW j \in ClockVars(n, m)
  PROVE  LET surviving == SurvivingClocks(n, source, m, t)
         IN  Unclosed(n, F, source, m, t)[<<i, j>>] =
               IF i # j /\ ((i = X0 /\ j \notin surviving) \/ (j = X0 /\ i \notin surviving))
               THEN 0
               ELSE IF i \in surviving /\ j \in surviving THEN F[<<i, j>>]
               ELSE IF i = j \/ i = X0 THEN 0 ELSE INF
<1> DEFINE X == ClockVars(n, m)
           surviving == SurvivingClocks(n, source, m, t)
           laid == LaidOut(n, F, source, m, t)
<1>1. <<i, j>> \in X \X X /\ DOMAIN laid = X \X X
  BY DEF LaidOut
<1>2. laid[<<i, j>>] = IF i \in surviving /\ j \in surviving
                       THEN F[<<i, j>>] ELSE M!NewDBM(X)[<<i, j>>]
  BY <1>1 DEF LaidOut
<1>3. M!NewDBM(X)[<<i, j>>] = IF i = j \/ i = X0 THEN 0 ELSE INF
  BY <1>1, FreshMatrix
<1> HIDE DEF laid, surviving
<1>4. Pin(laid, X \ surviving)[<<i, j>>] =
        IF i # j /\ ((i = X0 /\ j \in X \ surviving) \/ (j = X0 /\ i \in X \ surviving))
        THEN 0 ELSE laid[<<i, j>>]
  <2> DEFINE p == <<i, j>>
  <2>1. p \in DOMAIN laid /\ p[1] = i /\ p[2] = j
    BY <1>1
  <2> HIDE DEF p
  <2>2. Pin(laid, X \ surviving)[p] =
          IF i # j /\ ((i = X0 /\ j \in X \ surviving) \/ (j = X0 /\ i \in X \ surviving))
          THEN 0 ELSE laid[p]
    BY <2>1, PinnedEntry
  <2> QED
    BY <2>2 DEF p
<1>5. Unclosed(n, F, source, m, t) = Pin(laid, X \ surviving)
  BY DEF Unclosed, laid, surviving
<1> QED
  BY <1>2, <1>3, <1>4, <1>5 DEF surviving

(* The part of an elapsed zone in which a transition can fire is closed    *)
(* when it is not empty.                                                   *)
LEMMA FiringZoneIsClosed ==
  ASSUME NEW n, IsNet(n), NEW class, IsCanonical(n, class),
         NEW N, NEW B, HasRoom(n, N, B), Fits(n, class, N, (N + 1) * B),
         NEW t \in n.transitions, CanFire(n, class, t)
  PROVE  LET X == ClockVars(n, class.marking)
             F == FiringDomain(n, class, t).zone
             V == 3 * ((N + 1) * B)
         IN  /\ ClosedForm(X, F)
             /\ \A i, j \in X : F[<<i, j>>] <= class.zone[<<i, j>>]
             /\ Z!Within(X, F, -V, V)
             /\ \A i \in X : -V <= F[<<X0, i>>] /\ F[<<X0, i>>] <= 0
<1> DEFINE X == ClockVars(n, class.marking)
           D == class.zone
           h == Execution(t)
           b == -Earliest(n, t)
           U == (N + 1) * B
           V == 3 * U
           R == M!Tighten(X, D, X0, h, b)
<1>1. FiringDomain(n, class, t) = R /\ R.nonempty
  BY DEF FiringDomain, CanFire
<1>2. t \in PriorityEnabled(n, class.marking)
  BY DEF CanFire, IsFirable
<1>3. /\ X0 \in X /\ h \in X /\ X0 # h
      /\ INF \in Nat \ {0} /\ N \in Nat /\ B \in Nat
      /\ ClosedForm(X, D) /\ Z!Within(X, D, -U, U)
      /\ Cardinality(X) \in Nat /\ Cardinality(X) <= N
  BY <1>2, KindsOfClocks, SchedulerSelects, INFAssumption, ClocksAreCounted
     DEF HasRoom, IsCanonical, Fits
<1>4. U \in Nat /\ B <= U /\ V < INF /\ V \in Nat
  BY <1>3, RoomForSums
<1>5. b \in -U .. U
  <2>1. Earliest(n, t) \in 0 .. B
    BY EndpointsHaveRoom
  <2> HIDE DEF U
  <2> QED
    BY <1>3, <1>4, <2>1
<1> HIDE DEF U, R, b, h
<1>6. ClosedForm(X, R.zone) /\ Z!Below(X, R.zone, D) /\ Z!Within(X, R.zone, -V, V)
  BY <1>1, <1>3, <1>4, <1>5, IntersectionCloses DEF R
<1>7. \A i \in X : D[<<X0, i>>] <= 0
  BY DEF IsCanonical, InTime
<1>8. ASSUME NEW i \in X PROVE -V <= R.zone[<<X0, i>>] /\ R.zone[<<X0, i>>] <= 0
  <2> DEFINE f == R.zone[<<X0, i>>]
             d == D[<<X0, i>>]
  <2>1. f \in Int /\ d \in Int
    BY <1>3, <1>6, ZoneEntries DEF ClosedForm
  <2>2. f <= d /\ d <= 0 /\ (f = INF \/ -V <= f)
    BY <1>3, <1>6, <1>7 DEF Z!Below, Z!Within
  <2> HIDE DEF f, d, V
  <2> QED
    BY <1>3, <2>1, <2>2 DEF f
<1>9. \A i, j \in X : R.zone[<<i, j>>] <= D[<<i, j>>]
  BY <1>6 DEF Z!Below
<1> QED
  BY <1>1, <1>6, <1>8, <1>9 DEF U

(* The finite bounds of a zone are small enough to be added.               *)
CanBeAdded(X, D) == \E V \in Nat : 2 * V < INF /\ Z!Within(X, D, -V, V)

(* build_successor_zone leads from a canonical class to a canonical one:   *)
(* the least point of the firing zone, carried over, is in it.             *)
LEMMA SuccessorIsCanonical ==
  ASSUME NEW n, IsNet(n), NEW class, IsCanonical(n, class),
         NEW N, NEW B, HasRoom(n, N, B), Fits(n, class, N, (N + 1) * B),
         NEW t \in n.transitions, CanFire(n, class, t),
         Cardinality(ClockVars(n, FireMarking(class.marking, n, t))) <= N
  PROVE  LET next == Successor(n, class, t)
         IN  /\ IsCanonical(n, next)
             /\ next.marking = FireMarking(class.marking, n, t)
             /\ \A i \in ClockVars(n, next.marking) :
                  -(3 * ((N + 1) * B)) <= next.zone[<<X0, i>>]
             /\ CanBeAdded(ClockVars(n, next.marking), next.zone)
<1> DEFINE source == class.marking
           m == FireMarking(source, n, t)
           W == ClockVars(n, source)
           X == ClockVars(n, m)
           D == class.zone
           F == FiringDomain(n, class, t).zone
           U == (N + 1) * B
           V == 3 * U
           surviving == SurvivingClocks(n, source, m, t)
           open == Unclosed(n, F, source, m, t)
           c == Z!Corner(W, F)
           a == Carried(n, c, source, m, t)
           S == SuccessorZone(n, F, source, m, t)
<1>1. t \in PriorityEnabled(n, source) /\ t \in Nat /\ IsZoneClass(n, class)
  BY DEF CanFire, IsFirable, IsNet, IsCanonical
<1>2. /\ X0 \in X /\ X0 \in W /\ X0 \in surviving
      /\ surviving \subseteq X /\ surviving \subseteq W
      /\ INF \in Nat \ {0} /\ N \in Nat /\ B \in Nat
      /\ IsFiniteSet(X) /\ Cardinality(X) \in Nat /\ Cardinality(X) <= N
  BY <1>1, KindsOfClocks, INFAssumption, ClocksAreCounted, ClocksAreFinite
     DEF HasRoom, SurvivingClocks
<1>3. U \in Nat /\ V < INF /\ V \in Nat /\ 2 * ((Cardinality(X) + 1) * V) < INF
  BY <1>2, RoomForSums
<1>4. /\ ClosedForm(W, F) /\ F \in Zones(W)
      /\ \A i, j \in W : F[<<i, j>>] <= D[<<i, j>>]
      /\ Z!Within(W, F, -V, V)
      /\ \A i \in W : -V <= F[<<X0, i>>] /\ F[<<X0, i>>] <= 0
  BY FiringZoneIsClosed DEF ClosedForm
<1>5. /\ c \in Points(W) /\ M!Satisfies(c, F)
      /\ \A i \in W : c[i] \in 0 .. V
  <2> HIDE DEF F, V
  <2> QED
    BY <1>2, <1>3, <1>4, LeastPoint
<1>6. Successor(n, class, t) = [marking |-> m, zone |-> S]
  BY Zenon DEF Successor
<1>7. IsZoneClass(n, Successor(n, class, t))
  BY <1>1, SuccessorIsClass
<1> HIDE DEF F, U, c
<1>8. open \in Zones(X) /\ S = M!Minimize(X, open)
  BY <1>4, UnclosedSuccessor
<1>9. /\ a \in Points(X) /\ \A i \in X : a[i] \in 0 .. V
  <2>1. \A i \in X : a[i] = IF i \in surviving THEN c[i] ELSE 0
    BY DEF Carried
  <2>2. \A i \in surviving : c[i] \in 0 .. V
    BY <1>2, <1>5
  <2>3. \A i \in X : a[i] \in 0 .. V
    BY <1>3, <2>1, <2>2
  <2>4. a[X0] = 0
    BY <1>2, <1>5, <2>1 DEF Points
  <2> QED
    BY <1>3, <2>3, <2>4 DEF Points, Carried
<1>10. M!Satisfies(a, open)
  <2>1. \A i \in W : c[i] >= 0
    BY <1>3, <1>5
  <2>2. M!Satisfies(a, S)
    BY <1>1, <1>4, <1>5, <2>1, SuccessorContains
  <2> HIDE DEF a, S, open
  <2> QED
    BY <1>2, <1>8, <1>9, <2>2, ClosureKeepsMeaning
<1>11. ASSUME NEW i \in X, NEW j \in X
       PROVE  open[<<i, j>>] =
                IF i # j /\ ((i = X0 /\ j \notin surviving) \/ (j = X0 /\ i \notin surviving))
                THEN 0
                ELSE IF i \in surviving /\ j \in surviving THEN F[<<i, j>>]
                ELSE IF i = j \/ i = X0 THEN 0 ELSE INF
  BY UnclosedEntry
<1> HIDE DEF a, S, open, surviving
<1>12. \A i, j \in X : open[<<i, j>>] = INF \/ open[<<i, j>>] <= V
  <2> TAKE i, j \in X
  <2>1. i \in surviving /\ j \in surviving => F[<<i, j>>] = INF \/ F[<<i, j>>] <= V
    BY <1>2, <1>4 DEF Z!Within
  <2> QED
    BY <1>3, <1>11, <2>1
<1>13. Z!ZeroDiagonal(X, open)
  <2> SUFFICES ASSUME NEW i \in X PROVE open[<<i, i>>] = 0
    BY DEF Z!ZeroDiagonal
  <2>1. i \in surviving => F[<<i, i>>] = 0
    BY <1>2, <1>4 DEF ClosedForm, Z!ZeroDiagonal
  <2> QED
    BY <1>11, <2>1
<1>14. /\ ClosedForm(X, S) /\ Z!Below(X, S, open)
       /\ Z!Within(X, S, -V, (Cardinality(X) + 1) * V)
  <2> HIDE DEF V
  <2> QED
    BY <1>2, <1>3, <1>8, <1>9, <1>10, <1>12, <1>13, ClosureCloses
<1>15. \A i, j \in X : /\ S[<<i, j>>] \in Int /\ open[<<i, j>>] \in Int
                       /\ S[<<i, j>>] <= open[<<i, j>>]
  BY <1>8, <1>14, ZoneEntries DEF ClosedForm, Z!Below
<1>16. \A i \in X : S[<<X0, i>>] <= 0
  <2> TAKE i \in X
  <2>1. i \in surviving => F[<<X0, i>>] <= 0
    BY <1>2, <1>4
  <2>2. open[<<X0, i>>] <= 0
    BY <1>2, <1>11, <2>1
  <2> QED
    BY <1>2, <1>15, <2>2
<1>17. \A s \in StructEnabled(n, m) : S[<<Execution(s), X0>>] <= Latest(n, s)
  <2> TAKE s \in StructEnabled(n, m)
  <2> DEFINE h == Execution(s)
  <2>1. h \in X /\ h # X0 /\ Latest(n, s) \in 0 .. INF
    BY KindsOfClocks, SchedulerSelects, EndpointsHaveRoom
  <2>2. h \in surviving => F[<<h, X0>>] <= Latest(n, s)
    <3> HAVE h \in surviving
    <3>1. h \in W
      BY <1>2
    <3>2. s \in StructEnabled(n, source)
      BY <3>1, KindsOfClocks
    <3>3. D[<<h, X0>>] <= Latest(n, s)
      BY <3>2 DEF IsCanonical, InTime
    <3>4. F[<<h, X0>>] <= D[<<h, X0>>] /\ F[<<h, X0>>] \in Int /\ D[<<h, X0>>] \in Int
      BY <1>2, <1>4, <3>1, ZoneEntries DEF IsCanonical, ClosedForm
    <3> QED
      BY <2>1, <3>3, <3>4
  <2>3. open[<<h, X0>>] <= Latest(n, s)
    BY <1>2, <1>11, <2>1, <2>2
  <2> HIDE DEF h
  <2> QED
    BY <1>2, <1>15, <2>1, <2>3 DEF h
<1>18. \A i \in X : -V <= S[<<X0, i>>]
  <2> TAKE i \in X
  <2> DEFINE e == S[<<X0, i>>]
  <2>1. e \in Int /\ e <= 0 /\ (e = INF \/ -V <= e)
    BY <1>2, <1>14, <1>15, <1>16 DEF Z!Within
  <2> HIDE DEF e
  <2> QED
    BY <1>2, <2>1 DEF e
<1>19. CanBeAdded(X, S)
  <2> DEFINE size == Cardinality(X)
             V2 == (size + 1) * V
  <2> HIDE DEF V
  <2>1. V2 = size * V + V /\ size * V \in Nat
    BY <1>2, <1>3, Z!OneMore
  <2> DEFINE e == size * V
  <2> HIDE DEF V2, e
  <2>2. V2 \in Nat /\ -V2 <= -V
    BY <1>3, <2>1 DEF e
  <2>3. 2 * V2 < INF /\ Z!Within(X, S, -V, V2)
    BY <1>3, <1>14 DEF V2
  <2>4. Z!Within(X, S, -V2, V2)
    <3>1. S \in Zones(X)
      BY <1>14 DEF ClosedForm
    <3> QED
      BY <1>2, <1>3, <2>2, <2>3, <3>1, Z!WithinMore DEF Zones
  <2> QED
    BY <2>2, <2>3, <2>4 DEF CanBeAdded
<1> QED
  BY <1>6, <1>7, <1>14, <1>16, <1>17, <1>18, <1>19 DEF IsCanonical, InTime, U

(* Extrapolation closes what it relaxed, and relaxes neither a lower bound *)
(* of zero nor a latest firing time.                                       *)
LEMMA ExtrapolatedIsCanonical ==
  ASSUME NEW n, IsNet(n), NEW class, IsCanonical(n, class),
         NEW N, NEW B, HasRoom(n, N, B),
         Cardinality(ClockVars(n, class.marking)) <= N,
         \A i \in ClockVars(n, class.marking) :
           -(3 * ((N + 1) * B)) <= class.zone[<<X0, i>>]
  PROVE  /\ IsCanonical(n, ExtrapolateClass(n, class))
         /\ Z!Below(ClockVars(n, class.marking), ExtrapolateClass(n, class).zone,
                    Z!Relaxed(class.zone, ExtrapolationBound(n)))
<1> DEFINE m == class.marking
           X == ClockVars(n, m)
           D == class.zone
           V == 3 * ((N + 1) * B)
           k == ExtrapolationBound(n)
           E == M!Extrapolate(X, D, k)
<1>1. /\ X0 \in X /\ INF \in Nat \ {0} /\ N \in Nat /\ B \in Nat
      /\ IsFiniteSet(X) /\ Cardinality(X) \in Nat /\ Cardinality(X) <= N
      /\ IsZoneClass(n, class) /\ ClosedForm(X, D)
  BY KindsOfClocks, INFAssumption, ClocksAreCounted, ClocksAreFinite
     DEF HasRoom, IsCanonical
<1>2. V \in Nat /\ B <= V /\ 2 * ((Cardinality(X) + 1) * V) < INF /\ V < INF
  <2> DEFINE U == (N + 1) * B
  <2>1. U \in Nat /\ B <= U /\ 2 * ((Cardinality(X) + 1) * (3 * U)) < INF /\ 3 * U < INF
    BY <1>1, RoomForSums
  <2> HIDE DEF U
  <2>2. B <= 3 * U /\ 3 * U \in Nat
    BY <1>1, <2>1
  <2> QED
    BY <2>1, <2>2 DEF U
<1>3. k \in 0 .. INF /\ k <= B
  BY ExtrapolationBoundType DEF HasRoom
<1>4. /\ \A i \in X : -V <= D[<<X0, i>>] /\ D[<<X0, i>>] <= 0
      /\ \A i, j \in X : D[<<i, j>>] \in Int
  BY <1>1, ZoneEntries DEF IsCanonical, InTime, ClosedForm
<1>5. /\ ClosedForm(X, E) /\ Z!Below(X, E, Z!Relaxed(D, k))
  <2> HIDE DEF V, k
  <2>1. k <= V
    BY <1>1, <1>2, <1>3
  <2> QED
    BY <1>1, <1>2, <1>3, <1>4, <2>1, WideningCloses
<1>6. ExtrapolateClass(n, class) = [marking |-> m, zone |-> E]
  BY DEF ExtrapolateClass, IsCanonical, IsZoneClass
<1>7. IsZoneClass(n, ExtrapolateClass(n, class))
  BY <1>1, ExtrapolatedClass
<1> HIDE DEF V, k, E
<1>8. \A i, j \in X :
        /\ E[<<i, j>>] \in Int /\ E[<<i, j>>] <= Z!Relaxed(D, k)[<<i, j>>]
        /\ Z!Relaxed(D, k)[<<i, j>>]
             = IF i = j THEN D[<<i, j>>] ELSE Z!RelaxBound(D[<<i, j>>], k)
  <2>1. DOMAIN D = X \X X
    BY <1>1, ZoneEntries DEF ClosedForm
  <2>2. \A i, j \in X : E[<<i, j>>] \in Int
    BY <1>5, ZoneEntries DEF ClosedForm
  <2> QED
    BY <1>5, <2>1, <2>2 DEF Z!Below, Z!Relaxed
<1>9. ASSUME NEW i \in X PROVE E[<<X0, i>>] <= 0
  <2> DEFINE d == D[<<X0, i>>]
             e == E[<<X0, i>>]
  <2>1. /\ d \in Int /\ d <= 0 /\ e \in Int
        /\ e <= d \/ e <= Z!RelaxBound(d, k)
    BY <1>1, <1>4, <1>8
  <2> HIDE DEF d, e
  <2> QED
    BY <1>1, <1>3, <2>1 DEF Z!RelaxBound, e
<1>10. ASSUME NEW t \in StructEnabled(n, m)
       PROVE  E[<<Execution(t), X0>>] <= Latest(n, t)
  <2> DEFINE h == Execution(t)
             d == D[<<h, X0>>]
             e == E[<<h, X0>>]
  <2>1. h \in X /\ h # X0 /\ t \in n.transitions
    BY KindsOfClocks, SchedulerSelects
  <2>2. -INF <= D[<<X0, h>>] /\ D[<<X0, h>>] <= 0 /\ D[<<X0, h>>] \in Int
    BY <1>1, <1>2, <1>4, <2>1
  <2>3. 0 <= D[<<X0, h>>] + d \/ d = INF
    BY <2>2, LeastPointInTime
  <2>4. d \in Int /\ d <= Latest(n, t) /\ (0 <= d \/ d = INF)
    <3>1. d \in Int /\ d <= Latest(n, t)
      BY <1>1, <1>4, <2>1 DEF IsCanonical, InTime
    <3> HIDE DEF d, h
    <3> QED
      BY <2>2, <2>3, <3>1
  <2>5. /\ Latest(n, t) \in 0 .. INF
        /\ Latest(n, t) # INF => Latest(n, t) <= k
    BY <2>1, ExtrapolationBoundType, EndpointsHaveRoom DEF FiniteEndpoints, k
  <2>6. e \in Int /\ e <= Z!RelaxBound(d, k) /\ e <= INF
    <3>1. e <= INF
      BY <1>1, <1>5, <2>1, ZoneEntries DEF ClosedForm
    <3> QED
      BY <1>1, <1>8, <2>1, <3>1
  <2> HIDE DEF d, e, h
  <2>7. e <= Latest(n, t)
    <3>1. CASE Latest(n, t) = INF
      BY <2>6, <3>1
    <3>2. CASE Latest(n, t) # INF
      <4>1. d # INF /\ ~ (d > k) /\ ~ (d < -k)
        BY <1>1, <1>3, <2>4, <2>5, <3>2
      <4>2. Z!RelaxBound(d, k) = d
        BY <4>1 DEF Z!RelaxBound
      <4> QED
        BY <2>4, <2>5, <2>6, <4>2
    <3> QED
      BY <3>1, <3>2
  <2> QED
    BY <2>7 DEF e, h
<1> QED
  BY <1>5, <1>6, <1>7, <1>9, <1>10 DEF IsCanonical, InTime, k

LEMMA InitialIsCanonical ==
  ASSUME NEW n, IsNet(n)
  PROVE  /\ IsCanonical(n, InitialClass(n))
         /\ InitialClass(n).marking = n.M0
         /\ \A i \in ClockVars(n, n.M0) : /\ 0 <= InitialClass(n).zone[<<X0, i>>]
                                          /\ InitialClass(n).zone[<<i, X0>>] <= 0
         /\ CanBeAdded(ClockVars(n, n.M0), InitialClass(n).zone)
<1> DEFINE X == ClockVars(n, n.M0)
           D == Pin(M!NewDBM(X), X)
           C == M!Minimize(X, D)
           zero == [i \in X |-> 0]
<1>1. /\ X0 \in X /\ INF \in Nat \ {0} /\ IsFiniteSet(X) /\ Cardinality(X) \in Nat
  BY KindsOfClocks, INFAssumption, ClocksAreCounted, ClocksAreFinite
<1>2. ASSUME NEW i \in X, NEW j \in X
      PROVE  /\ <<i, j>> \in DOMAIN D
             /\ D[<<i, j>>] = IF i = j \/ i = X0 \/ j = X0 THEN 0 ELSE INF
  <2> DEFINE p == <<i, j>>
  <2>1. p \in X \X X /\ p[1] = i /\ p[2] = j
    OBVIOUS
  <2> HIDE DEF p
  <2>2. M!NewDBM(X)[p] = IF i = j \/ i = X0 THEN 0 ELSE INF
    BY <2>1, FreshMatrix
  <2>3. p \in DOMAIN M!NewDBM(X)
    BY <2>1 DEF M!NewDBM
  <2>4. DOMAIN D = DOMAIN M!NewDBM(X)
    BY DEF Pin
  <2>5. D[p] = IF p[1] # p[2] /\ (\/ p[1] = X0 /\ p[2] \in X
                                  \/ p[2] = X0 /\ p[1] \in X)
               THEN 0 ELSE M!NewDBM(X)[p]
    BY <2>3, PinnedEntry
  <2> HIDE DEF D
  <2>6. D[p] = IF i = j \/ i = X0 \/ j = X0 THEN 0 ELSE INF
    BY <2>1, <2>2, <2>5
  <2> QED
    BY <2>3, <2>4, <2>6 DEF p
<1>3. D \in Zones(X)
  <2>1. 0 \in Z!Bounds /\ INF \in Z!Bounds
    BY <1>1 DEF Z!Bounds, Z!IntMin
  <2>2. D = [p \in X \X X |-> D[p]]
    BY DEF Pin, M!NewDBM
  <2>3. \A p \in X \X X : D[p] \in Z!Bounds
    <3> HIDE DEF D
    <3> QED
      BY <1>2, <2>1
  <2> HIDE DEF D
  <2> QED
    BY <2>2, <2>3 DEF Zones, Z!Matrices
<1>4. InitialClass(n) = [marking |-> n.M0, zone |-> C]
  BY DEF InitialClass
<1>5. IsZoneClass(n, InitialClass(n)) /\ M!Satisfies(zero, C)
  BY <1>4, InitialClassContains
<1> HIDE DEF D, C
<1>6. zero \in Points(X) /\ \A i \in X : zero[i] \in 0 .. 0
  BY <1>1 DEF Points
<1> HIDE DEF zero
<1>7. M!Satisfies(zero, D)
  BY <1>1, <1>3, <1>5, <1>6, ClosureKeepsMeaning DEF C
<1>8. 2 * ((Cardinality(X) + 1) * 0) < INF /\ 0 \in Nat
  BY <1>1
<1>9. /\ \A i, j \in X : D[<<i, j>>] = INF \/ D[<<i, j>>] <= 0
      /\ Z!ZeroDiagonal(X, D)
  BY <1>2 DEF Z!ZeroDiagonal
<1>10. ClosedForm(X, C) /\ Z!Below(X, C, D) /\ Z!Within(X, C, -0, (Cardinality(X) + 1) * 0)
  BY <1>1, <1>3, <1>6, <1>7, <1>8, <1>9, ClosureCloses DEF C
<1>11. \A i, j \in X : C[<<i, j>>] \in Int /\ C[<<i, j>>] <= D[<<i, j>>]
  BY <1>10, ZoneEntries DEF ClosedForm, Z!Below
<1>12. \A i \in X : /\ C[<<X0, i>>] <= 0 /\ 0 <= C[<<X0, i>>]
                    /\ C[<<i, X0>>] <= 0
  <2> TAKE i \in X
  <2>1. D[<<X0, i>>] = 0 /\ D[<<i, X0>>] = 0
    BY <1>1, <1>2
  <2>2. C[<<X0, i>>] <= 0 /\ C[<<i, X0>>] <= 0
    <3>1. C[<<X0, i>>] <= D[<<X0, i>>] /\ C[<<i, X0>>] <= D[<<i, X0>>]
      BY <1>1, <1>11
    <3> QED
      BY <2>1, <3>1
  <2>3. C[<<X0, i>>] # INF
    BY <1>1, <2>2
  <2>4. zero[X0] - zero[i] <= C[<<X0, i>>]
    <3>1. DOMAIN C = X \X X /\ <<X0, i>> \in X \X X
      BY <1>1, <1>10, ZoneEntries DEF ClosedForm
    <3> QED
      BY <1>5, <2>3, <3>1 DEF M!Satisfies, C
  <2>5. zero[X0] - zero[i] = 0
    BY <1>1, <1>6
  <2> QED
    BY <2>2, <2>4, <2>5
<1>13. ASSUME NEW t \in StructEnabled(n, n.M0)
       PROVE  C[<<Execution(t), X0>>] <= Latest(n, t)
  <2>1. Execution(t) \in X
    BY KindsOfClocks
  <2>2. 0 <= Latest(n, t) /\ Latest(n, t) \in Nat
    BY SchedulerSelects, IntervalBounds
  <2>3. C[<<Execution(t), X0>>] <= 0 /\ C[<<Execution(t), X0>>] \in Int
    BY <1>1, <1>11, <1>12, <2>1
  <2> QED
    BY <2>2, <2>3
<1>14. ClosedForm(X, C) /\ InTime(n, n.M0, C)
  BY <1>10, <1>12, <1>13 DEF InTime
<1>15. InitialClass(n).marking = n.M0 /\ InitialClass(n).zone = C
  BY <1>4
<1>16. IsCanonical(n, InitialClass(n))
  BY <1>5, <1>14, <1>15 DEF IsCanonical
<1>17. CanBeAdded(X, C)
  <2>1. \A c \in Nat : (c + 1) * 0 = 0
    OBVIOUS
  <2>2. 2 * 0 < INF /\ (Cardinality(X) + 1) * 0 = 0
    BY <1>1, <2>1
  <2>3. Z!Within(X, C, -0, 0)
    BY <1>10, <2>2
  <2> QED
    BY <2>2, <2>3 DEF CanBeAdded
<1> QED
  BY <1>12, <1>15, <1>16, <1>17

(* One step of the engine, time elapse, firing and optional extrapolation, *)
(* leads from a canonical class to a canonical class, as long as the sums  *)
(* it forms stay below the largest machine integer.                        *)
THEOREM StepKeepsClosedForm ==
  ASSUME NEW n, IsNet(n), NEW class, IsCanonical(n, class),
         NEW N, NEW B, HasRoom(n, N, B), Fits(n, class, N, B),
         NEW t \in n.transitions, CanFire(n, TimeElapse(n, class), t),
         Cardinality(ClockVars(n, FireMarking(class.marking, n, t))) <= N
  PROVE  LET next == Successor(n, TimeElapse(n, class), t)
         IN  /\ IsCanonical(n, next)
             /\ IsCanonical(n, ExtrapolateClass(n, next))
             /\ next.marking = FireMarking(class.marking, n, t)
             /\ ExtrapolateClass(n, next).marking = next.marking
             /\ \A i \in ClockVars(n, next.marking) :
                  -(3 * ((N + 1) * B)) <= next.zone[<<X0, i>>]
             /\ CanBeAdded(ClockVars(n, next.marking), next.zone)
<1> DEFINE E == TimeElapse(n, class)
           next == Successor(n, E, t)
<1>1. /\ IsCanonical(n, E) /\ E.marking = class.marking
      /\ Fits(n, E, N, (N + 1) * B)
  BY ElapsedIsCanonical
<1> HIDE DEF E
<1>2. /\ IsCanonical(n, next)
      /\ next.marking = FireMarking(class.marking, n, t)
      /\ \A i \in ClockVars(n, next.marking) :
           -(3 * ((N + 1) * B)) <= next.zone[<<X0, i>>]
      /\ CanBeAdded(ClockVars(n, next.marking), next.zone)
  <2>1. CanFire(n, E, t)
    BY DEF E
  <2>2. Cardinality(ClockVars(n, FireMarking(E.marking, n, t))) <= N
    BY <1>1
  <2> QED
    BY <1>1, <2>1, <2>2, SuccessorIsCanonical
<1> HIDE DEF next
<1>3. IsCanonical(n, ExtrapolateClass(n, next))
  BY <1>2, ExtrapolatedIsCanonical
<1>4. ExtrapolateClass(n, next).marking = next.marking
  BY <1>2, ExtrapolatedClass DEF IsCanonical
<1> QED
  BY <1>2, <1>3, <1>4 DEF next, E

(* Extrapolation also bounds the zone: after it, a class of at most N      *)
(* clocks has no finite bound beyond this one, however large the bounds    *)
(* were before.                                                            *)
WidenedBound(n, N) == (N + 1) * (N * ExtrapolationBound(n))

LEMMA WideningBounds ==
  ASSUME NEW X, IsFiniteSet(X), X0 \in X, NEW D, ClosedForm(X, D), NEW B \in Nat,
         \A i \in X : -B <= D[<<X0, i>>] /\ D[<<X0, i>>] <= 0,
         NEW k \in 0 .. INF,
         2 * ((Cardinality(X) + 1) * (Cardinality(X) * k)) < INF
  PROVE  LET L == (Cardinality(X) + 1) * (Cardinality(X) * k)
         IN  Z!Within(X, M!Extrapolate(X, D, k), -L, L)
<1>1. M!Extrapolate(X, D, k) = Z!Extrapolate(X, D, k)
  BY Zenon
     DEF M!Extrapolate, Z!Extrapolate, M!RelaxBound, Z!RelaxBound,
         M!Minimize, Z!Minimize, M!FoldSet, Z!FoldSet,
         M!MapThenFoldSet, Z!MapThenFoldSet, M!Relax, Z!Relax,
         M!RelaxVia, Z!RelaxVia, M!Whole, Z!Whole, M!SafeAdd, Z!SafeAdd,
         M!Smaller, Z!Smaller, M!IntMin, Z!IntMin
<1>2. INF \in Nat \ {0} /\ D \in Z!Matrices(X) /\ Z!IsFiniteSet(X)
  BY INFAssumption DEF ClosedForm, Zones, IsFiniteSet, Z!IsFiniteSet
<1>3. Z!Cardinality(X) = Cardinality(X)
  BY Zenon DEF Z!Cardinality, Cardinality, Z!IsFiniteSet, IsFiniteSet
<1>4. 2 * ((Z!Cardinality(X) + 1) * (Z!Cardinality(X) * k)) < INF
  BY <1>3
<1>5. LET L == (Z!Cardinality(X) + 1) * (Z!Cardinality(X) * k)
      IN  Z!Within(X, Z!Extrapolate(X, D, k), -L, L)
  BY <1>2, <1>4, Z!ExtrapolationIsBounded DEF ClosedForm
<1> QED
  BY <1>1, <1>3, <1>5

LEMMA ExtrapolatedFits ==
  ASSUME NEW n, IsNet(n), NEW class, IsCanonical(n, class),
         NEW N, HasRoom(n, N, WidenedBound(n, N)),
         Cardinality(ClockVars(n, class.marking)) <= N,
         NEW V \in Nat,
         \A i \in ClockVars(n, class.marking) : -V <= class.zone[<<X0, i>>]
  PROVE  Fits(n, ExtrapolateClass(n, class), N, WidenedBound(n, N))
<1> DEFINE X == ClockVars(n, class.marking)
           D == class.zone
           k == ExtrapolationBound(n)
           c == Cardinality(X)
           E == M!Extrapolate(X, D, k)
           K == c * k
           L == (c + 1) * K
           B == WidenedBound(n, N)
<1>1. /\ X0 \in X /\ INF \in Nat \ {0} /\ N \in Nat
      /\ IsFiniteSet(X) /\ c \in Nat /\ c <= N
      /\ IsZoneClass(n, class) /\ ClosedForm(X, D)
      /\ k \in 0 .. INF /\ B \in Nat
  BY KindsOfClocks, INFAssumption, ClocksAreCounted, ClocksAreFinite,
     ExtrapolationBoundType
     DEF HasRoom, IsCanonical
<1>2. \A i \in X : -V <= D[<<X0, i>>] /\ D[<<X0, i>>] <= 0
  BY DEF IsCanonical, InTime
<1>3. ExtrapolateClass(n, class) = [marking |-> class.marking, zone |-> E]
  BY DEF ExtrapolateClass, IsCanonical, IsZoneClass
<1>4. 3 * ((N + 1) * B) < INF /\ B <= (N + 1) * B /\ (N + 1) * B \in Nat
  BY <1>1, RoomForSums
<1>5. 2 * B < INF
  <2> DEFINE U == (N + 1) * B
  <2>1. 3 * U < INF /\ B <= U /\ U \in Nat
    BY <1>4
  <2> HIDE DEF U, B
  <2> QED
    BY <1>1, <2>1
<1>6. K \in Nat /\ L \in Nat /\ L <= B
  <2> HIDE DEF c, k
  <2> DEFINE J == N * k
  <2>1. k \in Nat
    BY <1>1
  <2>2. K \in Nat /\ K <= J /\ J \in Nat
    BY <1>1, <2>1, Z!MoreIsMore, Z!OneMore
  <2>3. B = (N + 1) * J
    BY DEF WidenedBound, k
  <2> HIDE DEF K, J, B
  <2>4. (c + 1) * K <= (N + 1) * K
    BY <1>1, <2>2, Z!MoreIsMore, c + 1 \in Nat, N + 1 \in Nat, c + 1 <= N + 1
  <2>5. (N + 1) * K <= (N + 1) * J
    <3>1. K * (N + 1) <= J * (N + 1)
      BY <1>1, <2>2, Z!MoreIsMore, N + 1 \in Nat
    <3>2. K * (N + 1) = (N + 1) * K /\ J * (N + 1) = (N + 1) * J
      BY <1>1, <2>2
    <3> QED
      BY <3>1, <3>2
  <2>6. (c + 1) * K \in Nat /\ (N + 1) * K \in Nat /\ (N + 1) * J \in Nat
    BY <1>1, <2>2
  <2> QED
    BY <2>2, <2>3, <2>4, <2>5, <2>6
<1>7. 2 * ((c + 1) * (c * k)) < INF
  <2>1. 2 * L < INF
    <3> HIDE DEF L, B
    <3> QED
      BY <1>1, <1>5, <1>6
  <2> QED
    BY <2>1
<1>8. Z!Within(X, E, -L, L) /\ E \in Zones(X)
  <2>1. Z!Within(X, E, -L, L)
    <3> HIDE DEF k
    <3> QED
      BY <1>1, <1>2, <1>7, WideningBounds
  <2>2. E \in Zones(X)
    BY <1>1, ExtrapolationWidens DEF ClosedForm
  <2> QED
    BY <2>1, <2>2
<1> HIDE DEF E, L, B
<1>9. Z!Within(X, E, -B, B)
  <2>1. E \in Z!Matrices(X) /\ INF \in Nat
    BY <1>1, <1>8 DEF Zones
  <2>2. -L \in Int /\ L \in Int /\ -B <= -L
    BY <1>1, <1>6
  <2> QED
    BY <1>1, <1>6, <1>8, <2>1, <2>2, Z!WithinMore
<1> QED
  BY <1>1, <1>3, <1>9 DEF Fits, B

(* On canonical classes the comparison of matrices decides inclusion: a    *)
(* class is merged into another exactly when all its points are points of  *)
(* the other.                                                              *)
THEOREM InclusionDecides ==
  ASSUME NEW n, IsNet(n), NEW a, IsCanonical(n, a), NEW b, IsCanonical(n, b),
         NEW N, NEW B, HasRoom(n, N, B), Fits(n, a, N, B), Fits(n, b, N, B),
         a.marking = b.marking
  PROVE  CheckInclusion(a, b) <=>
           \A v \in Points(ClockVars(n, a.marking)) :
             M!Satisfies(v, a.zone) => M!Satisfies(v, b.zone)
<1> DEFINE X == ClockVars(n, a.marking)
<1>1. CheckInclusion(a, b) <=> Z!IncludedIn(a.zone, b.zone)
  BY DEF CheckInclusion, M!IncludedIn, Z!IncludedIn
<1>2. \A v, D : M!Satisfies(v, D) <=> Z!Satisfies(v, D)
  BY DEF M!Satisfies, Z!Satisfies
<1>3. \A v : v \in Points(X) <=> v \in Z!Valuation(X) /\ v[X0] = 0
  BY DEF Points, Z!Valuation
<1>4. /\ INF \in Nat \ {0} /\ X0 \in X /\ B \in Nat /\ 3 * (B + 1) < INF
      /\ a.zone \in Z!Matrices(X) /\ b.zone \in Z!Matrices(X)
      /\ Z!Within(X, a.zone, -B, B) /\ Z!Within(X, b.zone, -B, B)
      /\ Z!ClosedOver(X, X, a.zone) /\ Z!ZeroDiagonal(X, a.zone)
      /\ \A i \in X : a.zone[<<X0, i>>] <= 0
  BY INFAssumption, KindsOfClocks
     DEF HasRoom, Fits, IsCanonical, ClosedForm, Zones, InTime
<1>5. Z!IncludedIn(a.zone, b.zone) <=>
        \A v \in Z!Valuation(X) :
          v[X0] = 0 /\ Z!Satisfies(v, a.zone) => Z!Satisfies(v, b.zone)
  BY <1>4, Z!InclusionIsExact
<1> QED
  BY <1>1, <1>2, <1>3, <1>5

-----------------------------------------------------------------------------
(* Monotony.  A class that contains another can do what the other can, and *)
(* what it becomes contains what the other becomes.                        *)
LEMMA InclusionIsOrder ==
  ASSUME NEW X, NEW D \in Zones(X), NEW E \in Zones(X)
  PROVE  M!IncludedIn(D, E) <=> Z!Below(X, D, E)
<1>1. /\ DOMAIN D = X \X X
      /\ \A i, j \in X : /\ D[<<i, j>>] \in Int /\ D[<<i, j>>] <= INF
                         /\ E[<<i, j>>] \in Int /\ E[<<i, j>>] <= INF
  BY ZoneEntries
<1>2. INF \in Nat
  BY INFAssumption
<1>3. M!IncludedIn(D, E) <=>
        \A i, j \in X : E[<<i, j>>] = INF \/ (D[<<i, j>>] # INF /\ D[<<i, j>>] <= E[<<i, j>>])
  BY <1>1 DEF M!IncludedIn
<1>4. \A i, j \in X :
        (E[<<i, j>>] = INF \/ (D[<<i, j>>] # INF /\ D[<<i, j>>] <= E[<<i, j>>]))
          <=> D[<<i, j>>] <= E[<<i, j>>]
  <2> TAKE i, j \in X
  <2> DEFINE d == D[<<i, j>>]
             e == E[<<i, j>>]
  <2>1. d \in Int /\ e \in Int /\ d <= INF /\ e <= INF
    BY <1>1
  <2> HIDE DEF d, e
  <2>2. (e = INF \/ (d # INF /\ d <= e)) <=> d <= e
    BY <1>2, <2>1
  <2> QED
    BY <2>2 DEF d, e
<1> QED
  BY <1>3, <1>4 DEF Z!Below

LEMMA OrderIsTransitive ==
  ASSUME NEW X, NEW C \in Zones(X), NEW D \in Zones(X), NEW E \in Zones(X),
         Z!Below(X, C, D), Z!Below(X, D, E)
  PROVE  Z!Below(X, C, E)
<1> SUFFICES ASSUME NEW i \in X, NEW j \in X PROVE C[<<i, j>>] <= E[<<i, j>>]
  BY DEF Z!Below
<1>1. C[<<i, j>>] \in Int /\ D[<<i, j>>] \in Int /\ E[<<i, j>>] \in Int
  BY ZoneEntries
<1>2. C[<<i, j>>] <= D[<<i, j>>] /\ D[<<i, j>>] <= E[<<i, j>>]
  BY DEF Z!Below
<1> QED
  BY <1>1, <1>2

LEMMA CoveringIsTransitive ==
  ASSUME NEW n, NEW a, NEW b, NEW c,
         IsZoneClass(n, a), IsZoneClass(n, b), IsZoneClass(n, c),
         CheckInclusion(a, b), CheckInclusion(b, c)
  PROVE  CheckInclusion(a, c)
<1> DEFINE X == ClockVars(n, a.marking)
<1>1. /\ a.marking = b.marking /\ b.marking = c.marking
      /\ a.zone \in Zones(X) /\ b.zone \in Zones(X) /\ c.zone \in Zones(X)
      /\ M!IncludedIn(a.zone, b.zone) /\ M!IncludedIn(b.zone, c.zone)
  BY DEF IsZoneClass, CheckInclusion
<1>2. Z!Below(X, a.zone, b.zone) /\ Z!Below(X, b.zone, c.zone)
  BY <1>1, InclusionIsOrder
<1>3. M!IncludedIn(a.zone, c.zone)
  BY <1>1, <1>2, OrderIsTransitive, InclusionIsOrder
<1> QED
  BY <1>1, <1>3 DEF CheckInclusion

LEMMA CoveringIsReflexive ==
  ASSUME NEW n, NEW a, IsZoneClass(n, a)
  PROVE  CheckInclusion(a, a)
<1> DEFINE X == ClockVars(n, a.marking)
<1>1. a.zone \in Zones(X)
  BY DEF IsZoneClass
<1>2. \A i, j \in X : a.zone[<<i, j>>] \in Int
  BY <1>1, ZoneEntries
<1>3. \A i, j \in X : a.zone[<<i, j>>] <= a.zone[<<i, j>>]
  <2> TAKE i, j \in X
  <2> DEFINE d == a.zone[<<i, j>>]
  <2>1. d \in Int
    BY <1>2
  <2> HIDE DEF d
  <2>2. d <= d
    BY <2>1
  <2> QED
    BY <2>2 DEF d
<1>4. M!IncludedIn(a.zone, a.zone)
  BY <1>1, <1>3, InclusionIsOrder DEF Z!Below
<1> QED
  BY <1>4 DEF CheckInclusion

LEMMA ClosureKeepsOrder ==
  ASSUME NEW X, IsFiniteSet(X), NEW E \in Zones(X)
  PROVE  /\ Z!Below(X, M!Minimize(X, E), E)
         /\ \A D : ClosedForm(X, D) /\ Z!Below(X, D, E)
                     => Z!Below(X, D, M!Minimize(X, E))
<1>1. M!Minimize(X, E) = Z!Minimize(X, E)
  BY Zenon
     DEF M!Minimize, Z!Minimize, M!FoldSet, Z!FoldSet,
         M!MapThenFoldSet, Z!MapThenFoldSet, M!Relax, Z!Relax,
         M!RelaxVia, Z!RelaxVia, M!Whole, Z!Whole, M!SafeAdd, Z!SafeAdd,
         M!Smaller, Z!Smaller, M!IntMin, Z!IntMin
<1>2. INF \in Nat /\ E \in Z!Matrices(X) /\ Z!IsFiniteSet(X)
  BY INFAssumption DEF Zones, IsFiniteSet, Z!IsFiniteSet
<1> QED
  BY <1>1, <1>2, Z!ClosureIsGreatest DEF ClosedForm, Zones

LEMMA IntersectionKeepsOrder ==
  ASSUME NEW X, NEW D, ClosedForm(X, D), NEW E \in Zones(X), Z!Below(X, D, E),
         NEW i \in X, NEW j \in X, i # j, NEW b \in Z!Bounds, b # INF,
         M!Tighten(X, D, i, j, b).nonempty
  PROVE  /\ M!Tighten(X, E, i, j, b).nonempty
         /\ Z!Below(X, M!Tighten(X, D, i, j, b).zone, M!Tighten(X, E, i, j, b).zone)
<1>1. \A F : M!Tighten(X, F, i, j, b) = Z!Tighten(X, F, i, j, b)
  BY Zenon
     DEF M!Tighten, Z!Tighten, M!TightenVia, Z!TightenVia,
         M!NegativeDiagonal, Z!NegativeDiagonal, M!SafeAdd, Z!SafeAdd,
         M!Smaller, Z!Smaller, M!IntMin, Z!IntMin
<1>2. INF \in Nat /\ D \in Z!Matrices(X) /\ E \in Z!Matrices(X)
  BY INFAssumption DEF ClosedForm, Zones
<1> QED
  BY <1>1, <1>2, Z!TightenKeepsOrder DEF ClosedForm

(* Time elapse.                                                            *)
LEMMA CapsKeepOrder ==
  ASSUME NEW n, IsNet(n), NEW a, IsZoneClass(n, a), NEW x, IsZoneClass(n, x),
         CheckInclusion(a, x)
  PROVE  Z!Below(ClockVars(n, a.marking), Capped(n, a), Capped(n, x))
<1> DEFINE m == a.marking
           X == ClockVars(n, m)
<1>1. /\ x.marking = m /\ a.zone \in Zones(X) /\ x.zone \in Zones(X)
      /\ Z!Below(X, a.zone, x.zone)
  BY InclusionIsOrder DEF CheckInclusion, IsZoneClass
<1> SUFFICES ASSUME NEW i \in X, NEW j \in X
             PROVE  Capped(n, a)[<<i, j>>] <= Capped(n, x)[<<i, j>>]
  BY DEF Z!Below
<1> DEFINE p == <<i, j>>
           run == Running(n, m)
           d == Deadline(n, m, i)
           free == i \in run /\ j \notin run
<1>2. /\ a.zone[p] \in Int /\ x.zone[p] \in Int /\ a.zone[p] <= x.zone[p]
      /\ d \in Int /\ INF \in Int
  <2>1. a.zone[p] \in Int /\ x.zone[p] \in Int
    BY <1>1, ZoneEntries
  <2>2. a.zone[p] <= x.zone[p]
    BY <1>1 DEF Z!Below
  <2>3. d \in 0 .. INF
    BY Deadlines
  <2> HIDE DEF d, p
  <2> QED
    BY <2>1, <2>2, <2>3, INFAssumption
<1> DEFINE ra == IF free THEN INF ELSE a.zone[p]
           rx == IF free THEN INF ELSE x.zone[p]
<1>3. /\ Capped(n, a)[p] = IF j = X0 THEN M!Smaller(ra, d) ELSE ra
      /\ Capped(n, x)[p] = IF j = X0 THEN M!Smaller(rx, d) ELSE rx
  BY <1>1 DEF Capped, Released
<1>4. ra \in Int /\ rx \in Int /\ ra <= rx
  <2> HIDE DEF d, p
  <2> QED
    BY <1>2
<1> HIDE DEF ra, rx, d
<1> QED
  BY <1>2, <1>3, <1>4 DEF M!Smaller

LEMMA ElapseKeepsOrder ==
  ASSUME NEW n, IsNet(n), NEW a, IsCanonical(n, a),
         NEW N, NEW B, HasRoom(n, N, B), Fits(n, a, N, B),
         NEW x, IsZoneClass(n, x), CheckInclusion(a, x)
  PROVE  CheckInclusion(TimeElapse(n, a), TimeElapse(n, x))
<1> DEFINE X == ClockVars(n, a.marking)
           ea == TimeElapse(n, a)
           ex == TimeElapse(n, x)
<1>1. IsZoneClass(n, a) /\ x.marking = a.marking /\ IsFiniteSet(X)
  BY ClocksAreFinite DEF IsCanonical, CheckInclusion
<1>2. /\ ea.marking = a.marking /\ ea.zone = M!Minimize(X, Capped(n, a))
      /\ Capped(n, a) \in Zones(X) /\ ea.zone \in Zones(X)
  BY <1>1, ElapsedClass DEF IsZoneClass
<1>3. /\ ex.marking = a.marking /\ ex.zone = M!Minimize(X, Capped(n, x))
      /\ Capped(n, x) \in Zones(X) /\ ex.zone \in Zones(X)
  BY <1>1, ElapsedClass DEF IsZoneClass
<1>4. ClosedForm(X, ea.zone)
  BY <1>2, ElapsedIsCanonical DEF IsCanonical
<1> HIDE DEF ea, ex
<1>5. Z!Below(X, Capped(n, a), Capped(n, x))
  BY <1>1, CapsKeepOrder
<1>6. Z!Below(X, ea.zone, Capped(n, a))
  BY <1>1, <1>2, ClosureKeepsOrder
<1>7. Z!Below(X, ea.zone, Capped(n, x))
  BY <1>2, <1>3, <1>5, <1>6, OrderIsTransitive
<1>8. Z!Below(X, ea.zone, ex.zone)
  BY <1>1, <1>3, <1>4, <1>7, ClosureKeepsOrder
<1>9. M!IncludedIn(ea.zone, ex.zone)
  BY <1>2, <1>3, <1>8, InclusionIsOrder
<1> QED
  BY <1>2, <1>3, <1>9 DEF CheckInclusion, ea, ex

(* Firing.                                                                 *)
LEMMA FiringKeepsOrder ==
  ASSUME NEW n, IsNet(n), NEW a, IsCanonical(n, a),
         NEW x, IsZoneClass(n, x), CheckInclusion(a, x),
         NEW t \in n.transitions, CanFire(n, a, t)
  PROVE  /\ CanFire(n, x, t)
         /\ FiringDomain(n, a, t).zone \in Zones(ClockVars(n, a.marking))
         /\ FiringDomain(n, x, t).zone \in Zones(ClockVars(n, a.marking))
         /\ Z!Below(ClockVars(n, a.marking),
                    FiringDomain(n, a, t).zone, FiringDomain(n, x, t).zone)
<1> DEFINE X == ClockVars(n, a.marking)
           ht == Execution(t)
           b == -Earliest(n, t)
<1>1. /\ x.marking = a.marking /\ x.zone \in Zones(X) /\ a.zone \in Zones(X)
      /\ ClosedForm(X, a.zone) /\ Z!Below(X, a.zone, x.zone)
  BY InclusionIsOrder DEF CheckInclusion, IsCanonical, IsZoneClass
<1>2. /\ t \in PriorityEnabled(n, a.marking)
      /\ a.zone[<<ht, X0>>] >= Earliest(n, t)
      /\ FiringDomain(n, a, t).nonempty
  BY DEF CanFire, IsFirable
<1>3. X0 \in X /\ ht \in X /\ ht # X0
  BY <1>2, KindsOfClocks, SchedulerSelects
<1>4. Earliest(n, t) \in 0 .. INF /\ INF \in Nat \ {0} /\ b \in Z!Bounds /\ b # INF
  BY IntervalBounds, INFAssumption DEF Z!Bounds, Z!IntMin
<1>5. /\ FiringDomain(n, a, t) = M!Tighten(X, a.zone, X0, ht, b)
      /\ FiringDomain(n, x, t) = M!Tighten(X, x.zone, X0, ht, b)
  BY <1>1 DEF FiringDomain
<1>6. x.zone[<<ht, X0>>] >= Earliest(n, t)
  <2> DEFINE da == a.zone[<<ht, X0>>]
             dx == x.zone[<<ht, X0>>]
             e == Earliest(n, t)
  <2>1. da \in Int /\ dx \in Int
    BY <1>1, <1>3, ZoneEntries
  <2>2. da <= dx
    BY <1>1, <1>3 DEF Z!Below
  <2>3. e \in Int /\ da >= e
    BY <1>2, <1>4
  <2> HIDE DEF da, dx, e
  <2>4. dx >= e
    BY <2>1, <2>2, <2>3
  <2> QED
    BY <2>4 DEF dx, e
<1> HIDE DEF X, ht, b
<1>7. /\ M!Tighten(X, x.zone, X0, ht, b).nonempty
      /\ Z!Below(X, M!Tighten(X, a.zone, X0, ht, b).zone,
                    M!Tighten(X, x.zone, X0, ht, b).zone)
  BY <1>1, <1>2, <1>3, <1>4, <1>5, IntersectionKeepsOrder
<1>8. /\ M!Tighten(X, a.zone, X0, ht, b).zone \in Zones(X)
      /\ M!Tighten(X, x.zone, X0, ht, b).zone \in Zones(X)
  BY <1>1, <1>3, <1>4, IntersectionIsExact
<1>9. CanFire(n, x, t)
  BY <1>1, <1>2, <1>5, <1>6, <1>7 DEF CanFire, IsFirable, ht
<1> QED
  BY <1>5, <1>7, <1>8, <1>9 DEF X

LEMMA LayoutKeepsOrder ==
  ASSUME NEW n, IsNet(n), NEW source, NEW m, NEW t,
         NEW F \in Zones(ClockVars(n, source)), NEW G \in Zones(ClockVars(n, source)),
         Z!Below(ClockVars(n, source), F, G)
  PROVE  Z!Below(ClockVars(n, m), Unclosed(n, F, source, m, t),
                                  Unclosed(n, G, source, m, t))
<1> DEFINE X == ClockVars(n, m)
           surviving == SurvivingClocks(n, source, m, t)
           fresh == X \ surviving
           lf == LaidOut(n, F, source, m, t)
           lg == LaidOut(n, G, source, m, t)
<1> SUFFICES ASSUME NEW i \in X, NEW j \in X
             PROVE  Unclosed(n, F, source, m, t)[<<i, j>>]
                      <= Unclosed(n, G, source, m, t)[<<i, j>>]
  BY DEF Z!Below
<1> DEFINE p == <<i, j>>
           kept == i \in surviving /\ j \in surviving
           new == M!NewDBM(X)[p]
           pinned == i # j /\ (\/ i = X0 /\ j \in fresh
                               \/ j = X0 /\ i \in fresh)
<1>1. /\ DOMAIN lf = X \X X /\ DOMAIN lg = X \X X /\ p \in X \X X
      /\ lf[p] = IF kept THEN F[p] ELSE new
      /\ lg[p] = IF kept THEN G[p] ELSE new
  BY DEF LaidOut
<1>2. kept => F[p] \in Int /\ G[p] \in Int /\ F[p] <= G[p]
  <2> HAVE kept
  <2>1. i \in ClockVars(n, source) /\ j \in ClockVars(n, source)
    BY DEF SurvivingClocks
  <2>2. F[p] \in Int /\ G[p] \in Int
    BY <2>1, ZoneEntries
  <2>3. F[p] <= G[p]
    BY <2>1 DEF Z!Below
  <2> QED
    BY <2>2, <2>3
<1>3. new \in Int
  BY FreshMatrix, INFAssumption
<1> HIDE DEF lf, lg, new, kept
<1>4. lf[p] \in Int /\ lg[p] \in Int /\ lf[p] <= lg[p]
  BY <1>1, <1>2, <1>3
<1>5. /\ Pin(lf, fresh)[p] = IF pinned THEN 0 ELSE lf[p]
      /\ Pin(lg, fresh)[p] = IF pinned THEN 0 ELSE lg[p]
  BY <1>1, PinnedEntry
<1>6. /\ Unclosed(n, F, source, m, t) = Pin(lf, fresh)
      /\ Unclosed(n, G, source, m, t) = Pin(lg, fresh)
  BY DEF Unclosed, lf, lg
<1> HIDE DEF pinned, fresh
<1>7. Pin(lf, fresh)[p] <= Pin(lg, fresh)[p]
  BY <1>4, <1>5
<1> QED
  BY <1>6, <1>7

(* Extrapolation keeps what is below a zone below it.                      *)
LEMMA WideningKeepsOrder ==
  ASSUME NEW X, IsFiniteSet(X), NEW D, ClosedForm(X, D), NEW E \in Zones(X),
         Z!Below(X, D, E), NEW k \in 0 .. INF
  PROVE  Z!Below(X, D, M!Extrapolate(X, E, k))
<1> DEFINE R == Z!Relaxed(E, k)
<1>1. \A F, G : M!Minimize(F, G) = Z!Minimize(F, G)
  BY Zenon
     DEF M!Minimize, Z!Minimize, M!FoldSet, Z!FoldSet,
         M!MapThenFoldSet, Z!MapThenFoldSet, M!Relax, Z!Relax,
         M!RelaxVia, Z!RelaxVia, M!Whole, Z!Whole, M!SafeAdd, Z!SafeAdd,
         M!Smaller, Z!Smaller, M!IntMin, Z!IntMin
<1>2. M!Extrapolate(X, E, k) = IF k < 0 \/ R = E THEN E ELSE M!Minimize(X, R)
  BY Zenon DEF M!Extrapolate, Z!Relaxed, M!RelaxBound, Z!RelaxBound
<1>3. /\ INF \in Nat /\ Z!IsFiniteSet(X) /\ D \in Zones(X)
      /\ E \in Z!Matrices(X)
  BY INFAssumption DEF IsFiniteSet, Z!IsFiniteSet, ClosedForm, Zones
<1>4. R \in Zones(X)
  BY <1>3, Z!ExtrapolateType DEF Zones
<1>5. Z!Below(X, D, R)
  <2> SUFFICES ASSUME NEW i \in X, NEW j \in X PROVE D[<<i, j>>] <= R[<<i, j>>]
    BY DEF Z!Below
  <2> DEFINE d == D[<<i, j>>]
             e == E[<<i, j>>]
  <2>1. d \in Int /\ e \in Int /\ d <= e /\ d <= INF /\ DOMAIN E = X \X X
    BY <1>3, ZoneEntries DEF Z!Below
  <2>2. R[<<i, j>>] = IF i = j THEN e ELSE Z!RelaxBound(e, k)
    BY <2>1 DEF Z!Relaxed
  <2>3. d <= Z!RelaxBound(e, k)
    <3> HIDE DEF d, e
    <3> QED
      BY <1>3, <2>1 DEF Z!RelaxBound
  <2> HIDE DEF R
  <2> QED
    BY <2>1, <2>2, <2>3
<1> HIDE DEF R
<1>6. Z!Below(X, D, M!Minimize(X, R))
  BY <1>4, <1>5, ClosureKeepsOrder
<1> QED
  BY <1>2, <1>6

(* Monotony of the whole step: whatever a canonical class can fire, a      *)
(* class that contains it can fire, and the class that becomes of it,      *)
(* extrapolated or not, is contained in what becomes of the other.         *)
THEOREM StepKeepsInclusion ==
  ASSUME NEW n, IsNet(n), NEW a, IsCanonical(n, a),
         NEW N, NEW B, HasRoom(n, N, B), Fits(n, a, N, B),
         NEW x, IsZoneClass(n, x), CheckInclusion(a, x),
         NEW t \in n.transitions, CanFire(n, TimeElapse(n, a), t),
         Cardinality(ClockVars(n, FireMarking(a.marking, n, t))) <= N
  PROVE  LET after == Successor(n, TimeElapse(n, a), t)
             wide == Successor(n, TimeElapse(n, x), t)
         IN  /\ CanFire(n, TimeElapse(n, x), t)
             /\ CheckInclusion(after, wide)
             /\ CheckInclusion(after, ExtrapolateClass(n, wide))
<1> DEFINE ea == TimeElapse(n, a)
           ex == TimeElapse(n, x)
           after == Successor(n, ea, t)
           wide == Successor(n, ex, t)
           source == a.marking
           m == FireMarking(source, n, t)
           X == ClockVars(n, m)
           F == FiringDomain(n, ea, t).zone
           G == FiringDomain(n, ex, t).zone
<1>1. /\ IsCanonical(n, ea) /\ ea.marking = source
      /\ IsZoneClass(n, ex) /\ ex.marking = source /\ CheckInclusion(ea, ex)
  BY ElapsedIsCanonical, ElapsedClass, ElapseKeepsOrder
     DEF CheckInclusion, IsCanonical
<1>2. IsCanonical(n, after) /\ after.marking = m
  BY StepKeepsClosedForm
<1>3. CanFire(n, ea, t)
  OBVIOUS
<1> HIDE DEF ea, ex
<1>4. /\ CanFire(n, ex, t)
      /\ F \in Zones(ClockVars(n, source)) /\ G \in Zones(ClockVars(n, source))
      /\ Z!Below(ClockVars(n, source), F, G)
  BY <1>1, <1>3, FiringKeepsOrder
<1>5. /\ after = [marking |-> m, zone |-> SuccessorZone(n, F, source, m, t)]
      /\ wide = [marking |-> m, zone |-> SuccessorZone(n, G, source, m, t)]
  BY <1>1, Zenon DEF Successor
<1>6. t \in PriorityEnabled(n, ex.marking)
  BY <1>4 DEF CanFire, IsFirable
<1>7. IsZoneClass(n, wide)
  BY <1>1, <1>6, SuccessorIsClass
<1> HIDE DEF F, G, m, after, wide
<1>8. /\ Unclosed(n, F, source, m, t) \in Zones(X)
      /\ Unclosed(n, G, source, m, t) \in Zones(X)
      /\ after.zone = M!Minimize(X, Unclosed(n, F, source, m, t))
      /\ wide.zone = M!Minimize(X, Unclosed(n, G, source, m, t))
      /\ wide.marking = m
  BY <1>4, <1>5, UnclosedSuccessor
<1>9. Z!Below(X, Unclosed(n, F, source, m, t), Unclosed(n, G, source, m, t))
  BY <1>4, LayoutKeepsOrder
<1>10. ClosedForm(X, after.zone) /\ after.zone \in Zones(X) /\ IsFiniteSet(X)
  BY <1>2, ClocksAreFinite DEF IsCanonical, ClosedForm
<1>11. wide.zone \in Zones(X)
  BY <1>7, <1>8 DEF IsZoneClass
<1>12. Z!Below(X, after.zone, Unclosed(n, F, source, m, t))
  BY <1>8, <1>10, ClosureKeepsOrder
<1>13. Z!Below(X, after.zone, Unclosed(n, G, source, m, t))
  BY <1>8, <1>9, <1>10, <1>12, OrderIsTransitive
<1>14. Z!Below(X, after.zone, wide.zone)
  BY <1>8, <1>10, <1>13, ClosureKeepsOrder
<1>15. CheckInclusion(after, wide)
  BY <1>2, <1>8, <1>10, <1>11, <1>14, InclusionIsOrder DEF CheckInclusion
<1> DEFINE E == M!Extrapolate(X, wide.zone, ExtrapolationBound(n))
<1>16. ExtrapolationBound(n) \in 0 .. INF
  BY ExtrapolationBoundType
<1>17. Z!Below(X, after.zone, E) /\ E \in Zones(X)
  BY <1>10, <1>11, <1>14, <1>16, WideningKeepsOrder, ExtrapolationWidens
<1>18. ExtrapolateClass(n, wide).marking = m /\ ExtrapolateClass(n, wide).zone = E
  BY <1>7, <1>8 DEF ExtrapolateClass, IsZoneClass
<1>19. CheckInclusion(after, ExtrapolateClass(n, wide))
  BY <1>2, <1>10, <1>17, <1>18, InclusionIsOrder DEF CheckInclusion
<1> QED
  BY <1>4, <1>15, <1>19 DEF after, wide, ea, ex

-----------------------------------------------------------------------------
(* A canonical class has a point at which every clock is at least zero and *)
(* no enabled transition is late.                                          *)
LEMMA CanonicalPoint ==
  ASSUME NEW n, IsNet(n), NEW class, IsCanonical(n, class),
         NEW N, NEW B, HasRoom(n, N, B), Fits(n, class, N, B)
  PROVE  \E c \in Points(ClockVars(n, class.marking)) :
           /\ M!Satisfies(c, class.zone)
           /\ \A i \in ClockVars(n, class.marking) : c[i] \in Nat
           /\ \A t \in StructEnabled(n, class.marking) :
                c[Execution(t)] <= Latest(n, t)
<1> DEFINE m == class.marking
           X == ClockVars(n, m)
           D == class.zone
           c == Z!Corner(X, D)
<1>1. /\ X0 \in X /\ Cardinality(X) \in Nat /\ Cardinality(X) <= N
      /\ INF \in Nat \ {0} /\ B \in Nat /\ ClosedForm(X, D) /\ D \in Zones(X)
  BY KindsOfClocks, ClocksAreCounted, INFAssumption
     DEF Fits, HasRoom, IsCanonical, ClosedForm
<1>2. B < INF
  <2>1. (N + 1) * B \in Nat /\ B <= (N + 1) * B /\ 3 * ((N + 1) * B) < INF
    BY <1>1, RoomForSums
  <2> DEFINE U == (N + 1) * B
  <2> HIDE DEF U
  <2>2. U \in Nat /\ B <= U /\ 3 * U < INF
    BY <2>1 DEF U
  <2> QED
    BY <1>1, <2>2
<1>3. ASSUME NEW i \in X
      PROVE  -B <= D[<<X0, i>>] /\ D[<<X0, i>>] <= 0 /\ -INF <= D[<<X0, i>>]
  <2> DEFINE d == D[<<X0, i>>]
  <2>1. d \in Int /\ d <= 0 /\ (d = INF \/ -B <= d)
    BY <1>1, ZoneEntries DEF Fits, Z!Within, IsCanonical, InTime
  <2> HIDE DEF d
  <2>2. -B <= d /\ d <= 0 /\ -INF <= d
    BY <1>1, <1>2, <2>1
  <2> QED
    BY <2>2 DEF d
<1>4. /\ c \in Points(X) /\ M!Satisfies(c, D)
      /\ \A i \in X : c[i] \in 0 .. B /\ c[i] = -D[<<X0, i>>]
  BY <1>1, <1>3, LeastPoint
<1>5. ASSUME NEW t \in StructEnabled(n, m)
      PROVE  c[Execution(t)] <= Latest(n, t)
  <2>1. Execution(t) \in X
    BY KindsOfClocks
  <2> QED
    BY <1>3, <1>4, <2>1, LeastPointInTime
<1>6. \A i \in X : c[i] \in Nat
  <2> SUFFICES ASSUME NEW i \in X PROVE c[i] \in Nat
    OBVIOUS
  <2>1. c[i] \in 0 .. B
    BY <1>4
  <2> HIDE DEF c
  <2> QED
    BY <2>1
<1> HIDE DEF c
<1> QED
  BY <1>4, <1>5, <1>6

(* The engine is never stuck: while a transition is active, some active    *)
(* transition can fire from a canonical class.  Time elapses until the     *)
(* first of them is due.                                                   *)
THEOREM ActiveCanFire ==
  ASSUME NEW n, IsNet(n), NEW class, IsCanonical(n, class),
         NEW N, NEW B, HasRoom(n, N, B), Fits(n, class, N, B),
         PriorityEnabled(n, class.marking) # {}
  PROVE  \E t \in PriorityEnabled(n, class.marking) :
           CanFire(n, TimeElapse(n, class), t)
<1> DEFINE m == class.marking
           X == ClockVars(n, m)
           E == TimeElapse(n, class)
           Active == PriorityEnabled(n, m)
<1>1. PICK c \in Points(X) :
        /\ M!Satisfies(c, class.zone)
        /\ \A i \in X : c[i] \in Nat
        /\ \A t \in StructEnabled(n, m) : c[Execution(t)] <= Latest(n, t)
  BY CanonicalPoint
<1> DEFINE Left(t) == Latest(n, t) - c[Execution(t)]
           Due == {Left(t) : t \in Active}
<1>2. ASSUME NEW t \in Active
      PROVE  /\ Execution(t) \in X /\ Execution(t) \in Running(n, m)
             /\ c[Execution(t)] \in Nat /\ c[Execution(t)] <= Latest(n, t)
             /\ Earliest(n, t) \in Nat /\ Latest(n, t) \in Nat
             /\ Earliest(n, t) <= Latest(n, t)
  <2>1. t \in StructEnabled(n, m) /\ t \in n.transitions
    BY SchedulerSelects
  <2>2. Execution(t) \in X /\ Execution(t) \in Running(n, m)
    BY <2>1, KindsOfClocks DEF Running
  <2>3. INF \in Nat
    BY INFAssumption
  <2> QED
    BY <1>1, <2>1, <2>2, <2>3, IntervalBounds
<1>3. Due \in SUBSET Nat /\ Due # {}
  BY <1>2
<1>4. PICK t \in Active : \A s \in Active : Left(t) <= Left(s)
  <2>1. PICK d \in Due : \A x \in Due : d <= x
    BY <1>3, Z!LeastCount
  <2> QED
    BY <2>1
<1> DEFINE d == Left(t)
           later == Delayed(n, m, c, d)
<1>5. d \in Nat /\ c[Execution(t)] + d = Latest(n, t)
  BY <1>2
<1>6. \A s \in Active : c[Execution(s)] + d <= Latest(n, s)
  <2> TAKE s \in Active
  <2>1. d <= Latest(n, s) - c[Execution(s)]
    BY <1>4
  <2> HIDE DEF d
  <2> QED
    BY <1>2, <1>5, <2>1
<1> HIDE DEF d
<1>7. IsZoneClass(n, class)
  BY DEF IsCanonical
<1>8. M!Satisfies(later, E.zone) /\ IsZoneClass(n, E) /\ E.marking = m
  BY <1>1, <1>5, <1>6, <1>7, ElapsingLosesNothing, ElapsedClass
<1>9. later \in Points(X) /\ \A i \in X : later[i] >= 0
  <2>1. X0 \in X /\ X0 \notin Running(n, m) /\ c[X0] = 0
    BY KindsOfClocks DEF Points
  <2>2. \A i \in X : later[i] \in Int /\ later[i] >= 0
    BY <1>1, <1>5 DEF Delayed
  <2> QED
    BY <2>1, <2>2 DEF Points, Delayed
<1>10. Earliest(n, t) <= later[Execution(t)]
  BY <1>2, <1>5 DEF Delayed
<1> HIDE DEF later, E
<1>11. CanFire(n, E, t)
  BY <1>8, <1>9, <1>10, FiringLosesNothing
<1> QED
  BY <1>11 DEF E

-----------------------------------------------------------------------------
(* Nothing is invented: a point of the elapsed class, of the successor and *)
(* of the extrapolated class comes from a point of the class before.       *)
(* The first lemmas find points of zones and the delay that led to one.    *)
LEMMA LeastOfFinite ==
  ASSUME NEW S \in SUBSET Int, IsFiniteSet(S), S # {}
  PROVE  \E l \in S : \A s \in S : l <= s
<1> DEFINE n == Cardinality(S)
<1>1. n \in Nat /\ n # 0 /\ ExistsBijection(1 .. n, S)
  BY FS_CardinalityType, FS_EmptySet
<1>2. PICK f : f \in [1 .. n -> S] /\ \A s \in S : \E k \in 1 .. n : f[k] = s
  BY <1>1 DEF ExistsBijection, Bijection, Surjection
<1> HIDE DEF n
<1> DEFINE Low(k) == \E l \in S : \A j \in 1 .. k : l <= f[j]
           Bad == {k \in 1 .. n : ~ Low(k)}
<1>3. Bad = {}
  <2> SUFFICES ASSUME Bad # {} PROVE FALSE
    OBVIOUS
  <2>1. PICK k \in Bad : \A j \in Bad : k <= j
    BY <1>1, Z!LeastCount, Bad \in SUBSET Nat
  <2>2. k \in 1 .. n /\ ~ Low(k)
    OBVIOUS
  <2>3. f[k] \in S /\ f[k] \in Int
    BY <1>2, <2>2
  <2>4. k # 1
    BY <2>2, <2>3
  <2>5. k - 1 \in 1 .. n /\ k - 1 < k
    BY <1>1, <2>2, <2>4
  <2>6. Low(k - 1)
    BY <2>1, <2>2, <2>5
  <2>7. PICK l \in S : \A j \in 1 .. (k - 1) : l <= f[j]
    BY <2>6
  <2>8. ASSUME NEW j \in 1 .. k
        PROVE  /\ j = k \/ j \in 1 .. (k - 1)
               /\ f[j] \in Int
    <3>1. k \in Nat /\ k <= n
      BY <1>1, <2>2
    <3>2. j \in 1 .. n /\ (j = k \/ j \in 1 .. (k - 1))
      BY <1>1, <3>1
    <3>3. f[j] \in Int
      BY <1>2, <3>2
    <3> QED
      BY <3>2, <3>3
  <2>9. CASE f[k] <= l
    <3>1. \A j \in 1 .. k : f[k] <= f[j]
      BY <2>3, <2>7, <2>8, <2>9
    <3> QED
      BY <2>2, <2>3, <3>1
  <2>10. CASE ~ (f[k] <= l)
    <3>1. \A j \in 1 .. k : l <= f[j]
      BY <2>3, <2>7, <2>8, <2>10
    <3> QED
      BY <2>2, <3>1
  <2> QED
    BY <2>9, <2>10
<1>4. PICK l \in S : \A j \in 1 .. n : l <= f[j]
  <2>1. n \in 1 .. n
    BY <1>1
  <2> QED
    BY <1>3, <2>1
<1> QED
  BY <1>2, <1>4

(* Given lower values for some of the clocks, a closed zone has a least    *)
(* point above them; a clock that the others do not push up keeps its      *)
(* value.                                                                  *)
LEMMA LeastAbove ==
  ASSUME NEW X, IsFiniteSet(X), NEW D, ClosedForm(X, D),
         NEW V \in Nat, 2 * V < INF, Z!Within(X, D, -V, V),
         NEW S \in SUBSET X, X0 \in S, \A k \in X : D[<<X0, k>>] # INF,
         NEW low \in [S -> Int]
  PROVE  \E w \in [X -> Int] :
           /\ M!Satisfies(w, D)
           /\ \A i \in S :
                /\ low[i] <= w[i]
                /\ (\A l \in S : D[<<l, i>>] = INF \/ low[l] - low[i] <= D[<<l, i>>])
                     => w[i] = low[i]
<1> DEFINE Bounding(k) == {l \in S : D[<<l, k>>] # INF}
           Gaps(k) == {D[<<l, k>>] - low[l] : l \in Bounding(k)}
           Least(k) == CHOOSE g \in Gaps(k) : \A x \in Gaps(k) : g <= x
           w == [k \in X |-> -Least(k)]
<1>1. /\ \A i, j \in X : D[<<i, j>>] \in Int /\ (D[<<i, j>>] = INF
                           \/ (-V <= D[<<i, j>>] /\ D[<<i, j>>] <= V))
      /\ \A i \in X : D[<<i, i>>] = 0
      /\ DOMAIN D = X \X X /\ INF \in Nat \ {0}
  BY ZoneEntries, INFAssumption DEF ClosedForm, Z!Within, Z!ZeroDiagonal
<1>2. ASSUME NEW k \in X
      PROVE  /\ Least(k) \in Gaps(k)
             /\ \A x \in Gaps(k) : Least(k) <= x
  <2>1. Gaps(k) \in SUBSET Int
    <3>1. \A l \in Bounding(k) : D[<<l, k>>] \in Int /\ low[l] \in Int
      BY <1>1
    <3>2. \A l \in Bounding(k) : D[<<l, k>>] - low[l] \in Int
      BY <3>1
    <3> QED
      BY <3>2
  <2>2. IsFiniteSet(Bounding(k))
    BY FS_Subset
  <2>3. [l \in Bounding(k) |-> D[<<l, k>>] - low[l]] \in Surjection(Bounding(k), Gaps(k))
    BY DEF Surjection
  <2>4. IsFiniteSet(Gaps(k))
    BY <2>2, <2>3, FS_Surjection
  <2>5. Gaps(k) # {}
    BY X0 \in Bounding(k)
  <2> HIDE DEF Gaps
  <2>6. \E g \in Gaps(k) : \A x \in Gaps(k) : g <= x
    BY <2>1, <2>4, <2>5, LeastOfFinite
  <2> QED
    BY <2>6
<1>3. ASSUME NEW k \in X
      PROVE  /\ w[k] \in Int
             /\ \A l \in S : D[<<l, k>>] = INF \/ low[l] - w[k] <= D[<<l, k>>]
             /\ \E l \in S : D[<<l, k>>] # INF /\ w[k] = low[l] - D[<<l, k>>]
  <2>1. w[k] = -Least(k)
    OBVIOUS
  <2>2. PICK l \in S : D[<<l, k>>] # INF /\ Least(k) = D[<<l, k>>] - low[l]
    BY <1>2
  <2>3. \A x \in S : D[<<x, k>>] # INF => Least(k) <= D[<<x, k>>] - low[x]
    BY <1>2
  <2>4. \A x \in S : low[x] \in Int /\ D[<<x, k>>] \in Int
    BY <1>1
  <2> HIDE DEF Least, w
  <2>5. w[k] \in Int /\ w[k] = low[l] - D[<<l, k>>]
    BY <2>1, <2>2, <2>4
  <2>6. ASSUME NEW x \in S, D[<<x, k>>] # INF PROVE low[x] - w[k] <= D[<<x, k>>]
    <3>1. Least(k) <= D[<<x, k>>] - low[x] /\ Least(k) \in Int
      BY <2>2, <2>3, <2>4, <2>6
    <3> QED
      BY <2>1, <2>4, <3>1
  <2> QED
    BY <2>2, <2>5, <2>6
<1>4. w \in [X -> Int]
  <2>1. w = [k \in X |-> w[k]]
    OBVIOUS
  <2> HIDE DEF w
  <2> QED
    BY <1>3, <2>1
<1> HIDE DEF w
<1>5. ASSUME NEW k \in X, NEW i \in X, D[<<k, i>>] # INF
      PROVE  w[k] - w[i] <= D[<<k, i>>]
  <2>1. PICK l \in S : D[<<l, k>>] # INF /\ w[k] = low[l] - D[<<l, k>>]
    BY <1>3
  <2>2. D[<<l, i>>] <= D[<<l, k>>] + D[<<k, i>>]
    BY <1>5, <2>1 DEF ClosedForm, Z!ClosedOver
  <2>3. D[<<l, i>>] = INF \/ low[l] - w[i] <= D[<<l, i>>]
    BY <1>3
  <2> DEFINE a == D[<<l, k>>]
             b == D[<<k, i>>]
             c == D[<<l, i>>]
  <2>4. a \in Int /\ b \in Int /\ c \in Int /\ a <= V /\ b <= V
    BY <1>1, <1>5, <2>1
  <2>5. w[k] \in Int /\ w[i] \in Int /\ low[l] \in Int
    BY <1>3
  <2>6. c <= a + b /\ (c = INF \/ low[l] - w[i] <= c) /\ w[k] = low[l] - a
    BY <2>1, <2>2, <2>3
  <2> HIDE DEF a, b, c
  <2>7. w[k] - w[i] <= b
    BY <1>1, <2>4, <2>5, <2>6
  <2> QED
    BY <2>7 DEF b
<1>6. M!Satisfies(w, D)
  BY <1>1, <1>5 DEF M!Satisfies
<1>7. ASSUME NEW i \in S
      PROVE  /\ low[i] <= w[i]
             /\ (\A l \in S : D[<<l, i>>] = INF \/ low[l] - low[i] <= D[<<l, i>>])
                  => w[i] = low[i]
  <2>1. low[i] \in Int /\ w[i] \in Int /\ D[<<i, i>>] = 0 /\ 0 # INF
    BY <1>1, <1>3
  <2>2. low[i] - w[i] <= 0
    BY <1>3, <2>1
  <2>3. low[i] <= w[i]
    BY <2>1, <2>2
  <2>4. PICK l \in S : D[<<l, i>>] # INF /\ w[i] = low[l] - D[<<l, i>>]
    BY <1>3
  <2>5. low[l] \in Int /\ D[<<l, i>>] \in Int
    BY <1>1
  <2>6. low[l] - low[i] <= D[<<l, i>>] => w[i] = low[i]
    BY <2>1, <2>3, <2>4, <2>5
  <2> QED
    BY <2>3, <2>4, <2>6
<1> QED
  BY <1>4, <1>6, <1>7

(* Some of the clocks of a point of a closed zone can be chosen first, as  *)
(* long as they respect the bounds between them.                           *)
LEMMA PartOfPoint ==
  ASSUME NEW X, IsFiniteSet(X), NEW D, ClosedForm(X, D),
         NEW V \in Nat, 2 * V < INF, Z!Within(X, D, -V, V),
         NEW S \in SUBSET X, X0 \in S, \A k \in X : D[<<X0, k>>] # INF,
         NEW v \in [S -> Int], v[X0] = 0,
         \A i, j \in S : D[<<i, j>>] = INF \/ v[i] - v[j] <= D[<<i, j>>]
  PROVE  \E w \in Points(X) : M!Satisfies(w, D) /\ \A i \in S : w[i] = v[i]
<1>1. PICK w \in [X -> Int] :
        /\ M!Satisfies(w, D)
        /\ \A i \in S :
             /\ v[i] <= w[i]
             /\ (\A l \in S : D[<<l, i>>] = INF \/ v[l] - v[i] <= D[<<l, i>>])
                  => w[i] = v[i]
  BY LeastAbove
<1>2. \A i \in S : w[i] = v[i]
  BY <1>1
<1>3. w \in Points(X)
  BY <1>2 DEF Points
<1> QED
  BY <1>1, <1>2, <1>3

(* A point that satisfies every bound of a zone but its upper ones comes   *)
(* from a point of the zone, some time ago: as long ago as the clock that  *)
(* is first to meet its lower bound allows.                                *)
LEMMA BackInTime ==
  ASSUME NEW X, X0 \in X, NEW D, ClosedForm(X, D),
         NEW V \in Nat, V < INF, Z!Within(X, D, -V, V),
         \A i \in X : D[<<X0, i>>] <= 0,
         NEW w \in Points(X),
         \A i, j \in X : j # X0 \/ i = X0 =>
           D[<<i, j>>] = INF \/ w[i] - w[j] <= D[<<i, j>>]
  PROVE  \E d \in Nat : \E v \in Points(X) :
           M!Satisfies(v, D) /\ \A i \in X \ {X0} : w[i] = v[i] + d
<1> DEFINE Rest == X \ {X0}
           Slack(i) == w[i] + D[<<X0, i>>]
           Slacks == {Slack(i) : i \in Rest}
<1>1. /\ \A i, j \in X : D[<<i, j>>] \in Int /\ (D[<<i, j>>] = INF \/ D[<<i, j>>] <= V)
      /\ \A i \in X : D[<<i, i>>] = 0
      /\ DOMAIN D = X \X X /\ INF \in Nat \ {0}
      /\ \A i \in X : w[i] \in Int
      /\ w[X0] = 0 /\ w = [i \in X |-> w[i]]
  BY ZoneEntries, INFAssumption DEF ClosedForm, Z!Within, Z!ZeroDiagonal, Points
<1>2. CASE Rest = {}
  <2>1. X = {X0}
    BY <1>2
  <2>2. M!Satisfies(w, D)
    BY <1>1, <2>1 DEF M!Satisfies
  <2> QED
    BY <1>2, <2>2
<1>3. CASE Rest # {}
  <2>1. ASSUME NEW i \in Rest
        PROVE  D[<<X0, i>>] # INF /\ Slack(i) \in Nat
    <3>1. D[<<X0, i>>] \in Int /\ D[<<X0, i>>] <= 0 /\ w[i] \in Int
      BY <1>1
    <3>2. D[<<X0, i>>] # INF
      BY <1>1, <3>1
    <3>3. w[X0] - w[i] <= D[<<X0, i>>]
      BY <3>2
    <3> QED
      BY <1>1, <3>1, <3>2, <3>3
  <2>2. Slacks \in SUBSET Nat /\ Slacks # {}
    BY <1>3, <2>1
  <2>3. PICK k \in Rest : \A i \in Rest : Slack(k) <= Slack(i)
    <3>1. PICK d \in Slacks : \A x \in Slacks : d <= x
      BY <2>2, Z!LeastCount
    <3> QED
      BY <3>1
  <2> DEFINE d == Slack(k)
             v == [i \in X |-> IF i = X0 THEN 0 ELSE w[i] - d]
  <2>4. d \in Nat
    BY <2>1
  <2>5. /\ v[X0] = 0
        /\ \A i \in Rest : v[i] = w[i] - d /\ v[i] \in Int
        /\ v \in Points(X)
    <3> HIDE DEF d
    <3>1. \A i \in X : (IF i = X0 THEN 0 ELSE w[i] - d) \in Int
      BY <1>1, <2>4
    <3> QED
      BY <1>1, <2>4, <3>1 DEF Points
  <2>6. ASSUME NEW i \in X, NEW j \in X, D[<<i, j>>] # INF
        PROVE  v[i] - v[j] <= D[<<i, j>>]
    <3> HIDE DEF v
    <3>1. CASE i \in Rest /\ j \in Rest
      <4>1. w[i] - w[j] <= D[<<i, j>>]
        BY <2>6, <3>1
      <4> HIDE DEF d
      <4> QED
        BY <1>1, <2>4, <2>5, <3>1, <4>1
    <3>2. CASE i = X0 /\ j \in Rest
      <4>1. d <= w[j] + D[<<X0, j>>]
        BY <2>3, <3>2
      <4>2. w[j] \in Int /\ D[<<X0, j>>] \in Int
        BY <1>1
      <4> HIDE DEF d
      <4> QED
        BY <2>4, <2>5, <3>2, <4>1, <4>2
    <3>3. CASE i \in Rest /\ j = X0
      <4> DEFINE a == D[<<i, X0>>]
                 b == D[<<X0, k>>]
                 c == D[<<i, k>>]
      <4>1. a \in Int /\ b \in Int /\ c \in Int /\ a <= V /\ b <= 0 /\ a # INF /\ b # INF
        BY <1>1, <2>1, <2>6, <3>3
      <4>2. c <= a + b
        BY <2>1, <2>6, <3>3 DEF ClosedForm, Z!ClosedOver
      <4>3. c # INF
        BY <1>1, <4>1, <4>2
      <4>4. w[i] - w[k] <= c
        BY <3>3, <4>3
      <4>5. w[i] \in Int /\ w[k] \in Int /\ d = w[k] + b
        BY <1>1, <3>3
      <4>6. v[i] = w[i] - d /\ v[X0] = 0
        BY <2>5, <3>3
      <4> HIDE DEF a, b, c, d
      <4>7. v[i] - v[X0] <= a
        BY <4>1, <4>2, <4>4, <4>5, <4>6, <2>4
      <4> QED
        BY <3>3, <4>7 DEF a
    <3>4. CASE i = X0 /\ j = X0
      BY <1>1, <2>5, <3>4
    <3> QED
      BY <3>1, <3>2, <3>3, <3>4
  <2> HIDE DEF v
  <2>7. M!Satisfies(v, D)
    BY <1>1, <2>6 DEF M!Satisfies
  <2>8. \A i \in Rest : w[i] = v[i] + d
    <3> HIDE DEF d
    <3> QED
      BY <1>1, <2>4, <2>5
  <2> QED
    BY <2>4, <2>5, <2>7, <2>8
<1> QED
  BY <1>2, <1>3

(* The same when some clocks stand still, if each of those has only one    *)
(* value in the zone: it is bound to the others as x0 is.                  *)
LEMMA RunBackInTime ==
  ASSUME NEW X, X0 \in X, NEW D, ClosedForm(X, D),
         NEW V \in Nat, 2 * V < INF, Z!Within(X, D, -V, V),
         \A i \in X : D[<<X0, i>>] <= 0,
         NEW run \in SUBSET (X \ {X0}),
         \A i \in X \ run : D[<<i, X0>>] + D[<<X0, i>>] = 0,
         NEW w \in Points(X),
         \A i, j \in X : j \in run \/ i \notin run =>
           D[<<i, j>>] = INF \/ w[i] - w[j] <= D[<<i, j>>]
  PROVE  \E d \in Nat : \E v \in Points(X) :
           /\ M!Satisfies(v, D)
           /\ \A i \in X : w[i] = IF i \in run THEN v[i] + d ELSE v[i]
<1> DEFINE Y == run \cup {X0}
           E == [p \in Y \X Y |-> D[p]]
           part == [i \in Y |-> w[i]]
<1>1. /\ \A i, j \in X : D[<<i, j>>] \in Int
      /\ \A i, j \in X : D[<<i, j>>] = INF \/ (-V <= D[<<i, j>>] /\ D[<<i, j>>] <= V)
      /\ DOMAIN D = X \X X /\ INF \in Nat \ {0}
      /\ \A i \in X : w[i] \in Int
      /\ w[X0] = 0 /\ w = [i \in X |-> w[i]]
      /\ Z!ClosedOver(X, X, D) /\ Z!ZeroDiagonal(X, D)
  BY ZoneEntries, INFAssumption DEF ClosedForm, Z!Within, Points
<1>2. Y \in SUBSET X /\ X0 \in Y
  OBVIOUS
<1>3. DOMAIN E = Y \X Y /\ \A i, j \in Y : E[<<i, j>>] = D[<<i, j>>]
  OBVIOUS
<1>4. ClosedForm(Y, E)
  <2>1. E \in Zones(Y)
    BY <1>2 DEF ClosedForm, Zones, Z!Matrices
  <2>2. Z!ClosedOver(Y, Y, E)
    <3> HIDE DEF E
    <3> QED
      BY <1>1, <1>2, <1>3 DEF Z!ClosedOver
  <2>3. Z!ZeroDiagonal(Y, E)
    BY <1>1, <1>2, <1>3 DEF Z!ZeroDiagonal
  <2> QED
    BY <2>1, <2>2, <2>3 DEF ClosedForm
<1>5. part \in Points(Y) /\ \A i \in Y : part[i] = w[i]
  BY <1>1, <1>2 DEF Points
<1> HIDE DEF E, part
<1>6. Z!Within(Y, E, -V, V) /\ \A i \in Y : E[<<X0, i>>] <= 0
  BY <1>1, <1>2, <1>3 DEF Z!Within
<1>7. \A i, j \in Y : j # X0 \/ i = X0 =>
        E[<<i, j>>] = INF \/ part[i] - part[j] <= E[<<i, j>>]
  BY <1>2, <1>3, <1>5
<1>8. V < INF
  BY <1>1
<1> HIDE DEF Y
<1>9. PICK d \in Nat : \E v \in Points(Y) :
        M!Satisfies(v, E) /\ \A i \in Y \ {X0} : part[i] = v[i] + d
  <2>1. X0 \in Y /\ ClosedForm(Y, E) /\ Z!Within(Y, E, -V, V) /\ part \in Points(Y)
    BY <1>2, <1>4, <1>5, <1>6
  <2>2. \A i \in Y : E[<<X0, i>>] <= 0
    BY <1>6
  <2> QED
    BY <1>7, <1>8, <2>1, <2>2, BackInTime
<1>10. PICK back \in Points(Y) :
         M!Satisfies(back, E) /\ \A i \in Y \ {X0} : part[i] = back[i] + d
  BY <1>9
<1> DEFINE v == [i \in X |-> IF i \in run THEN back[i] ELSE w[i]]
<1>11. /\ v \in Points(X)
       /\ \A i \in run : v[i] \in Int /\ v[i] = back[i] /\ w[i] = v[i] + d
       /\ \A i \in X \ run : v[i] = w[i]
  BY <1>1, <1>2, <1>5, <1>10 DEF Points, Y
<1>12. /\ back[X0] = 0
       /\ \A i, j \in Y : D[<<i, j>>] = INF \/ back[i] - back[j] <= D[<<i, j>>]
  BY <1>2, <1>3, <1>10 DEF M!Satisfies, Points
<1> HIDE DEF v
(* A clock that stands still is at its one value.                          *)
<1>13. ASSUME NEW j \in X \ run
       PROVE  /\ D[<<j, X0>>] # INF /\ D[<<X0, j>>] # INF
              /\ D[<<X0, j>>] = -D[<<j, X0>>] /\ w[j] = D[<<j, X0>>]
  <2> DEFINE a == D[<<j, X0>>]
             b == D[<<X0, j>>]
  <2>1. a \in Int /\ b \in Int /\ b <= 0 /\ a + b = 0
    BY <1>1, <1>2
  <2>2. b = INF \/ (-V <= b /\ b <= V)
    BY <1>1
  <2>3. (a = INF \/ w[j] - w[X0] <= a) /\ (b = INF \/ w[X0] - w[j] <= b)
    BY <1>2
  <2>4. w[j] \in Int /\ w[X0] = 0
    BY <1>1
  <2> HIDE DEF a, b
  <2>5. b # INF /\ -V <= b
    BY <1>1, <2>1, <2>2
  <2>6. b = -a /\ a <= V
    BY <2>1, <2>5
  <2>7. a # INF
    BY <1>8, <2>1, <2>6
  <2>8. w[j] <= a /\ a <= w[j]
    BY <2>1, <2>3, <2>4, <2>5, <2>6, <2>7
  <2>9. w[j] = a
    BY <2>1, <2>4, <2>8
  <2> QED
    BY <2>5, <2>6, <2>7, <2>9 DEF a, b
<1>14. ASSUME NEW i \in X, NEW j \in X, D[<<i, j>>] # INF
       PROVE  v[i] - v[j] <= D[<<i, j>>]
  <2> DEFINE a == D[<<i, j>>]
  <2>1. a \in Int /\ a <= V
    BY <1>1, <1>14
  <2>2. CASE i \in run /\ j \in run
    BY <1>11, <1>12, <1>14, <2>2 DEF Y
  <2>3. CASE i \notin run /\ j \notin run
    BY <1>11, <1>14, <2>3
  <2>4. CASE i \in run /\ j \notin run
    <3> DEFINE c == D[<<j, X0>>]
               e == D[<<i, X0>>]
    <3>1. c \in Int /\ c # INF /\ w[j] = c /\ c <= V /\ e \in Int
      BY <1>1, <1>2, <1>13, <2>4
    <3>2. e <= a + c
      BY <1>1, <1>2, <1>14, <3>1 DEF Z!ClosedOver
    <3>3. e # INF
      <4> HIDE DEF a, c, e
      <4> QED
        BY <1>1, <2>1, <3>1, <3>2
    <3>4. back[i] - back[X0] <= e
      BY <1>12, <2>4, <3>3 DEF Y
    <3>5. v[i] = back[i] /\ v[i] \in Int /\ v[j] = c /\ back[X0] = 0
      BY <1>11, <1>12, <2>4, <3>1
    <3> HIDE DEF a, c, e
    <3>6. v[i] - v[j] <= a
      BY <2>1, <3>1, <3>2, <3>4, <3>5
    <3> QED
      BY <3>6 DEF a
  <2>5. CASE i \notin run /\ j \in run
    <3> DEFINE c == D[<<i, X0>>]
               b == D[<<X0, i>>]
               e == D[<<X0, j>>]
    <3>1. c \in Int /\ b \in Int /\ b # INF /\ b = -c /\ w[i] = c /\ e \in Int /\ e <= 0
      BY <1>1, <1>2, <1>13, <2>5
    <3>2. e <= b + a
      BY <1>1, <1>2, <1>14, <3>1 DEF Z!ClosedOver
    <3>3. e # INF
      <4> HIDE DEF a, b, c, e
      <4> QED
        BY <1>1, <3>1
    <3>4. back[X0] - back[j] <= e
      BY <1>12, <2>5, <3>3 DEF Y
    <3>5. v[j] = back[j] /\ v[j] \in Int /\ v[i] = c /\ back[X0] = 0
      BY <1>11, <1>12, <2>5, <3>1
    <3> HIDE DEF a, b, c, e
    <3>6. v[i] - v[j] <= a
      BY <2>1, <3>1, <3>2, <3>4, <3>5
    <3> QED
      BY <3>6 DEF a
  <2> QED
    BY <2>2, <2>3, <2>4, <2>5
<1>15. M!Satisfies(v, D)
  BY <1>1, <1>14 DEF M!Satisfies
<1> QED
  BY <1>11, <1>15

(* Every clock that the scheduler has stopped has only one value in the    *)
(* class.  Where it has several, time_elapse drops the bounds of running   *)
(* clocks against it, and admits points that no delay leads to.            *)
StoppedAtOneValue(n, class) ==
  \A t \in StructEnabled(n, class.marking) \ PriorityEnabled(n, class.marking) :
    class.zone[<<Execution(t), X0>>] + class.zone[<<X0, Execution(t)>>] = 0

(* A transition's deadline is met after d units from the point v.          *)
MeetsDeadlines(n, m, v, d) ==
  \A t \in PriorityEnabled(n, m) :
    Latest(n, t) = INF \/ v[Execution(t)] + d <= Latest(n, t)

(* Letting time elapse invents no value: where each stopped clock has one  *)
(* value, every point of the elapsed zone is a point of the class some     *)
(* units later, with no deadline missed.                                   *)
THEOREM ElapsingInventsNothing ==
  ASSUME NEW n, IsNet(n), NEW class, IsCanonical(n, class),
         NEW N, NEW B, HasRoom(n, N, B), Fits(n, class, N, B),
         StoppedAtOneValue(n, class),
         NEW w \in Points(ClockVars(n, class.marking)),
         M!Satisfies(w, TimeElapse(n, class).zone)
  PROVE  \E d \in Nat : \E v \in Points(ClockVars(n, class.marking)) :
           /\ M!Satisfies(v, class.zone)
           /\ MeetsDeadlines(n, class.marking, v, d)
           /\ w = Delayed(n, class.marking, v, d)
<1> DEFINE m == class.marking
           X == ClockVars(n, m)
           D == class.zone
           C == Capped(n, class)
           run == Running(n, m)
<1>1. /\ X0 \in X /\ INF \in Nat \ {0} /\ B \in Nat /\ ClosedForm(X, D) /\ D \in Zones(X)
      /\ IsZoneClass(n, class) /\ IsFiniteSet(X)
      /\ Z!Within(X, D, -B, B)
      /\ \A i \in X : D[<<X0, i>>] <= 0
      /\ run \in SUBSET (X \ {X0})
  BY KindsOfClocks, ClocksAreFinite, INFAssumption
     DEF Fits, HasRoom, IsCanonical, ClosedForm, InTime
<1>2. 2 * B < INF
  BY <1>1, INFAssumption DEF HasRoom
<1>3. /\ C \in Zones(X) /\ DOMAIN C = X \X X
      /\ TimeElapse(n, class).zone = M!Minimize(X, C)
  BY <1>1, ElapsedClass, ZoneEntries
<1>4. M!Satisfies(w, C)
  BY <1>1, <1>3, ClosureKeepsMeaning
<1>5. ASSUME NEW i \in X, NEW j \in X
      PROVE  C[<<i, j>>] =
               IF j = X0
               THEN M!Smaller(IF i \in run THEN INF ELSE D[<<i, j>>], Deadline(n, m, i))
               ELSE IF i \in run /\ j \notin run THEN INF ELSE D[<<i, j>>]
  <2> DEFINE p == <<i, j>>
  <2>1. p \in X \X X /\ p[1] = i /\ p[2] = j /\ X0 \notin run
    BY <1>1
  <2> HIDE DEF p
  <2>2. Released(n, class)[p] = IF i \in run /\ j \notin run THEN INF ELSE D[p]
    BY <2>1 DEF Released
  <2>3. C[p] = IF j = X0 THEN M!Smaller(Released(n, class)[p], Deadline(n, m, i))
                         ELSE Released(n, class)[p]
    BY <2>1 DEF Capped
  <2> HIDE DEF run, C, D
  <2>4. C[p] = IF j = X0
               THEN M!Smaller(IF i \in run THEN INF ELSE D[p], Deadline(n, m, i))
               ELSE IF i \in run /\ j \notin run THEN INF ELSE D[p]
    BY <2>1, <2>2, <2>3
  <2> QED
    BY <2>4 DEF p
<1>6. \A i, j \in X : C[<<i, j>>] = INF \/ w[i] - w[j] <= C[<<i, j>>]
  BY <1>3, <1>4 DEF M!Satisfies
<1>7. \A i \in X \ run : Deadline(n, m, i) = INF
  BY DEF Deadline, Running
<1>8. /\ \A i \in X : w[i] \in Int
      /\ \A i, j \in X : D[<<i, j>>] \in Int /\ D[<<i, j>>] <= INF
      /\ w[X0] = 0 /\ w = [i \in X |-> w[i]]
  <2>1. \A i, j \in X : D[<<i, j>>] \in Int /\ D[<<i, j>>] <= INF
    BY <1>1, ZoneEntries
  <2>2. (\A i \in X : w[i] \in Int) /\ w[X0] = 0 /\ w = [i \in X |-> w[i]]
    BY DEF Points
  <2> QED
    BY <2>1, <2>2
<1>9. \A i \in X \ run : D[<<i, X0>>] + D[<<X0, i>>] = 0
  <2> TAKE i \in X \ run
  <2>1. CASE i = X0
    <3>1. D[<<X0, X0>>] = 0
      BY <1>1 DEF ClosedForm, Z!ZeroDiagonal
    <3> QED
      BY <2>1, <3>1
  <2>2. CASE i # X0
    <3>1. PICK t \in StructEnabled(n, m) : i = Execution(t)
      BY <2>2, KindsOfClocks DEF Running, SuspClocks
    <3>2. t \notin PriorityEnabled(n, m)
      BY <3>1 DEF Running
    <3> QED
      BY <3>1, <3>2 DEF StoppedAtOneValue
  <2> QED
    BY <2>1, <2>2
<1> HIDE DEF C, D, X, run
<1>10. ASSUME NEW i \in X, NEW j \in X, j \in run \/ i \notin run
       PROVE  D[<<i, j>>] = INF \/ w[i] - w[j] <= D[<<i, j>>]
  <2>1. CASE j # X0
    BY <1>5, <1>6, <1>10, <2>1
  <2>2. CASE j = X0
    <3>1. i \in X \ run
      BY <1>1, <1>10, <2>2
    <3>2. C[<<i, j>>] = M!Smaller(D[<<i, j>>], INF)
      BY <1>5, <1>7, <2>2, <3>1
    <3>3. C[<<i, j>>] = D[<<i, j>>]
      BY <1>1, <1>8, <3>2 DEF M!Smaller
    <3> QED
      BY <1>6, <3>3
  <2> QED
    BY <2>1, <2>2
<1>11. PICK d \in Nat : \E v \in Points(X) :
         /\ M!Satisfies(v, D)
         /\ \A i \in X : w[i] = IF i \in run THEN v[i] + d ELSE v[i]
  <2>1. w \in Points(X)
    BY DEF X
  <2>2. \A i, j \in X : j \in run \/ i \notin run =>
          D[<<i, j>>] = INF \/ w[i] - w[j] <= D[<<i, j>>]
    BY <1>10
  <2> QED
    BY <1>1, <1>2, <1>9, <2>1, <2>2, RunBackInTime
<1>12. PICK v \in Points(X) :
         /\ M!Satisfies(v, D)
         /\ \A i \in X : w[i] = IF i \in run THEN v[i] + d ELSE v[i]
  BY <1>11
<1>13. w = Delayed(n, m, v, d)
  BY <1>8, <1>12 DEF Delayed, X, run
<1>14. MeetsDeadlines(n, m, v, d)
  <2> SUFFICES ASSUME NEW t \in PriorityEnabled(n, m), Latest(n, t) # INF
               PROVE  v[Execution(t)] + d <= Latest(n, t)
    BY DEF MeetsDeadlines
  <2> DEFINE ht == Execution(t)
  <2>1. ht \in X /\ ht \in run /\ Latest(n, t) \in 0 .. INF
    BY SchedulerSelects, KindsOfClocks, IntervalBounds DEF X, run, Running
  <2>2. Deadline(n, m, ht) = Latest(n, t)
    BY KindsOfClocks DEF Deadline
  <2>3. C[<<ht, X0>>] = Latest(n, t)
    BY <1>1, <1>5, <2>1, <2>2 DEF M!Smaller
  <2>4. w[ht] - w[X0] <= Latest(n, t)
    BY <1>1, <1>6, <2>1, <2>3
  <2> HIDE DEF ht
  <2>5. w[ht] <= Latest(n, t)
    BY <1>8, <2>1, <2>4
  <2>6. w[ht] = v[ht] + d
    BY <1>12, <2>1
  <2> QED
    BY <2>5, <2>6 DEF ht
<1> QED
  BY <1>12, <1>13, <1>14 DEF X, D

(* The firing zone holds nothing but points of the elapsed zone at which   *)
(* the transition has reached its earliest firing time.                    *)
LEMMA FiringZoneIsPart ==
  ASSUME NEW n, IsNet(n), NEW class, IsZoneClass(n, class),
         NEW t, CanFire(n, class, t),
         NEW v \in Points(ClockVars(n, class.marking)),
         M!Satisfies(v, FiringDomain(n, class, t).zone)
  PROVE  M!Satisfies(v, class.zone) /\ Earliest(n, t) <= v[Execution(t)]
<1> DEFINE X == ClockVars(n, class.marking)
           D == class.zone
           ht == Execution(t)
           b == -Earliest(n, t)
<1>1. t \in PriorityEnabled(n, class.marking) /\ M!Tighten(X, D, X0, ht, b).nonempty
  BY DEF CanFire, IsFirable, FiringDomain
<1>2. /\ X0 \in X /\ ht \in X /\ D \in Zones(X)
      /\ Earliest(n, t) \in 0 .. INF /\ INF \in Nat \ {0}
      /\ b \in Z!Bounds /\ b # INF
  BY <1>1, KindsOfClocks, SchedulerSelects, IntervalBounds, INFAssumption
     DEF IsZoneClass, Z!Bounds, Z!IntMin
<1>3. M!Tighten(X, D, X0, ht, b) = Z!Tighten(X, D, X0, ht, b)
  BY Zenon
     DEF M!Tighten, Z!Tighten, M!TightenVia, Z!TightenVia,
         M!NegativeDiagonal, Z!NegativeDiagonal, M!SafeAdd, Z!SafeAdd,
         M!Smaller, Z!Smaller, M!IntMin, Z!IntMin
<1>4. \A E : M!Satisfies(v, E) <=> Z!Satisfies(v, E)
  BY DEF M!Satisfies, Z!Satisfies
<1>5. /\ v \in Z!Valuation(X) /\ v[X0] = 0 /\ v[ht] \in Int
      /\ D \in Z!Matrices(X)
  BY <1>2 DEF Points, Z!Valuation, Zones
<1>6. Z!Satisfies(v, Z!Tighten(X, D, X0, ht, b).zone)
  BY <1>3, <1>4 DEF FiringDomain
<1> HIDE DEF b, ht
<1>7. Z!Satisfies(v, D) /\ v[X0] - v[ht] <= b
  BY <1>1, <1>2, <1>3, <1>5, <1>6, Z!TightenIsIntersection
<1>8. Earliest(n, t) <= v[ht]
  BY <1>2, <1>5, <1>7 DEF b
<1> QED
  BY <1>4, <1>7, <1>8 DEF ht

(* Firing invents no value: every point of the successor is carried over   *)
(* from a point of the elapsed class at which the transition has reached   *)
(* its earliest firing time.                                               *)
THEOREM FiringInventsNothing ==
  ASSUME NEW n, IsNet(n), NEW class, IsCanonical(n, class),
         NEW N, NEW B, HasRoom(n, N, B), Fits(n, class, N, (N + 1) * B),
         NEW t \in n.transitions, CanFire(n, class, t),
         NEW u \in Points(ClockVars(n, FireMarking(class.marking, n, t))),
         M!Satisfies(u, Successor(n, class, t).zone)
  PROVE  \E w \in Points(ClockVars(n, class.marking)) :
           /\ M!Satisfies(w, class.zone)
           /\ Earliest(n, t) <= w[Execution(t)]
           /\ u = Carried(n, w, class.marking, FireMarking(class.marking, n, t), t)
<1> DEFINE source == class.marking
           m == FireMarking(source, n, t)
           W == ClockVars(n, source)
           X == ClockVars(n, m)
           F == FiringDomain(n, class, t).zone
           S == SurvivingClocks(n, source, m, t)
           open == Unclosed(n, F, source, m, t)
           V == 3 * ((N + 1) * B)
           part == [i \in S |-> u[i]]
<1>1. /\ IsZoneClass(n, class) /\ IsFiniteSet(W) /\ IsFiniteSet(X)
      /\ X0 \in X /\ X0 \in W /\ INF \in Nat \ {0}
      /\ Cardinality(W) \in Nat /\ Cardinality(W) <= N
  BY KindsOfClocks, ClocksAreFinite, ClocksAreCounted, INFAssumption DEF Fits, IsCanonical
<1>2. /\ ClosedForm(W, F) /\ F \in Zones(W) /\ Z!Within(W, F, -V, V)
      /\ \A i \in W : F[<<X0, i>>] <= 0
  BY FiringZoneIsClosed DEF ClosedForm
<1>3. V \in Nat /\ 2 * V < INF
  <2> DEFINE U == (N + 1) * B
             s == (Cardinality(W) + 1) * (3 * U)
             e == Cardinality(W) * (3 * U)
  <2>1. U \in Nat /\ 3 * U \in Nat /\ 2 * s < INF
    BY <1>1, RoomForSums
  <2>2. s = e + 3 * U /\ e \in Nat
    BY <1>1, <2>1, Z!OneMore
  <2> HIDE DEF U, s, e
  <2>3. 3 * U \in Nat /\ 2 * (3 * U) < INF
    BY <1>1, <2>1, <2>2
  <2> QED
    BY <2>3 DEF U
<1>4. /\ S \subseteq W /\ S \subseteq X /\ X0 \in S
  BY <1>1, KindsOfClocks, SchedulerSelects DEF SurvivingClocks, IsNet
<1>5. /\ open \in Zones(X) /\ DOMAIN open = X \X X
      /\ Successor(n, class, t).zone = M!Minimize(X, open)
  <2>1. Successor(n, class, t).zone = SuccessorZone(n, F, source, m, t)
    BY Zenon DEF Successor
  <2> HIDE DEF F
  <2> QED
    BY <1>2, <2>1, UnclosedSuccessor, ZoneEntries
<1>6. M!Satisfies(u, open)
  BY <1>1, <1>5, ClosureKeepsMeaning
<1>7. \A i, j \in X : open[<<i, j>>] = INF \/ u[i] - u[j] <= open[<<i, j>>]
  BY <1>5, <1>6 DEF M!Satisfies
<1>8. (\A i \in X : u[i] \in Int) /\ u[X0] = 0 /\ u = [i \in X |-> u[i]]
  BY DEF Points
<1>9. ASSUME NEW i \in X, NEW j \in X
      PROVE  open[<<i, j>>] =
               IF i # j /\ ((i = X0 /\ j \notin S) \/ (j = X0 /\ i \notin S))
               THEN 0
               ELSE IF i \in S /\ j \in S THEN F[<<i, j>>]
               ELSE IF i = j \/ i = X0 THEN 0 ELSE INF
  BY UnclosedEntry
<1> HIDE DEF open, F, S, X, W, m
<1>10. ASSUME NEW i \in S, NEW j \in S
       PROVE  F[<<i, j>>] = INF \/ u[i] - u[j] <= F[<<i, j>>]
  <2>1. i \in X /\ j \in X
    BY <1>4
  <2>2. open[<<i, j>>] = F[<<i, j>>]
    BY <1>4, <1>9, <2>1
  <2> QED
    BY <1>7, <2>1, <2>2
<1>11. ASSUME NEW i \in X, i \notin S
       PROVE  u[i] = 0
  <2>1. i # X0
    BY <1>4, <1>11
  <2>2. open[<<i, X0>>] = 0 /\ open[<<X0, i>>] = 0
    BY <1>1, <1>9, <1>11, <2>1
  <2>3. u[i] - u[X0] <= 0 /\ u[X0] - u[i] <= 0
    <3>1. 0 # INF
      BY <1>1
    <3> QED
      BY <1>1, <1>7, <2>2, <3>1
  <2>4. u[i] \in Int /\ u[X0] = 0
    BY <1>8
  <2> QED
    BY <2>3, <2>4
<1>12. PICK w \in Points(W) : M!Satisfies(w, F) /\ \A i \in S : w[i] = part[i]
  <2>1. /\ part \in [S -> Int] /\ part[X0] = 0
        /\ \A i, j \in S : F[<<i, j>>] = INF \/ part[i] - part[j] <= F[<<i, j>>]
    BY <1>4, <1>8, <1>10
  <2>2. \A k \in W : F[<<X0, k>>] # INF
    <3> SUFFICES ASSUME NEW k \in W PROVE F[<<X0, k>>] # INF
      OBVIOUS
    <3> DEFINE f == F[<<X0, k>>]
    <3>1. f <= 0
      BY <1>2
    <3> HIDE DEF f
    <3>2. f # INF
      BY <1>1, <3>1
    <3> QED
      BY <3>2 DEF f
  <2> HIDE DEF part, V
  <2> QED
    BY <1>1, <1>2, <1>3, <1>4, <2>1, <2>2, PartOfPoint
<1>13. M!Satisfies(w, class.zone) /\ Earliest(n, t) <= w[Execution(t)]
  BY <1>1, <1>12, FiringZoneIsPart DEF F, W
<1>14. u = Carried(n, w, source, m, t)
  <2>1. \A i \in X : u[i] = IF i \in S THEN w[i] ELSE 0
    BY <1>11, <1>12
  <2> QED
    BY <1>8, <2>1 DEF Carried, S, X
<1> QED
  BY <1>13, <1>14 DEF W, m

(* What extrapolation may change of a clock: its value may differ from the *)
(* true one where both are past every endpoint of the net, unless it is    *)
(* the execution clock of a transition with a latest firing time.          *)
NoLatest(n, i) == \A t \in n.transitions : i = Execution(t) => Latest(n, t) = INF

PastEndpoints(n, i, a, b) ==
  NoLatest(n, i) /\ ExtrapolationBound(n) <= a /\ ExtrapolationBound(n) <= b

Alike(n, extrapolates, v, w) ==
  \A i \in DOMAIN w : v[i] = w[i] \/ (extrapolates /\ PastEndpoints(n, i, v[i], w[i]))

(* The bounds that extrapolation writes admit only points that are alike   *)
(* to a point of the zone.                                                 *)
LEMMA RelaxedPoint ==
  ASSUME NEW n, IsNet(n), NEW class, IsCanonical(n, class),
         CanBeAdded(ClockVars(n, class.marking), class.zone),
         NEW w \in Points(ClockVars(n, class.marking)),
         M!Satisfies(w, Z!Relaxed(class.zone, ExtrapolationBound(n))),
         NEW x, x
  PROVE  \E v \in Points(ClockVars(n, class.marking)) :
           M!Satisfies(v, class.zone) /\ Alike(n, x, v, w)
<1> DEFINE m == class.marking
           X == ClockVars(n, m)
           D == class.zone
           k == ExtrapolationBound(n)
           low == [i \in X |-> IF w[i] < k THEN w[i] ELSE k]
<1>1. /\ X0 \in X /\ IsFiniteSet(X) /\ INF \in Nat \ {0} /\ k \in Nat
      /\ ClosedForm(X, D) /\ D \in Zones(X) /\ DOMAIN D = X \X X
  <2>1. k \in Nat /\ INF \in Nat \ {0}
    BY INFAssumption, ExtrapolationBoundType
  <2> HIDE DEF k
  <2> QED
    BY <2>1, KindsOfClocks, ClocksAreFinite, ZoneEntries DEF IsCanonical, ClosedForm
<1>2. /\ \A i, j \in X : D[<<i, j>>] \in Int
      /\ \A i \in X : D[<<i, i>>] = 0 /\ D[<<X0, i>>] <= 0 /\ D[<<X0, i>>] # INF
  <2>1. \A i, j \in X : D[<<i, j>>] \in Int
    BY <1>1, ZoneEntries
  <2>2. \A i \in X : D[<<i, i>>] = 0 /\ D[<<X0, i>>] <= 0
    BY DEF IsCanonical, InTime, ClosedForm, Z!ZeroDiagonal
  <2> QED
    BY <1>1, <2>1, <2>2
<1>3. (\A i \in X : w[i] \in Int) /\ w[X0] = 0 /\ w = [i \in X |-> w[i]] /\ DOMAIN w = X
  BY DEF Points
<1> HIDE DEF k
<1>4. ASSUME NEW i \in X, NEW j \in X, i # j
      PROVE  LET r == Z!RelaxBound(D[<<i, j>>], k)
             IN  r = INF \/ w[i] - w[j] <= r
  <2> DEFINE p == <<i, j>>
  <2>1. p \in DOMAIN D /\ p[1] = i /\ p[2] = j
    BY <1>1
  <2> HIDE DEF p
  <2>2. /\ DOMAIN Z!Relaxed(D, k) = DOMAIN D
        /\ Z!Relaxed(D, k)[p] = Z!RelaxBound(D[p], k)
    BY <1>4, <2>1 DEF Z!Relaxed
  <2>3. Z!RelaxBound(D[p], k) = INF \/ w[i] - w[j] <= Z!RelaxBound(D[p], k)
    BY <2>1, <2>2 DEF M!Satisfies, k
  <2> QED
    BY <2>3 DEF p
<1>5. \A i \in X : 0 <= w[i]
  <2> TAKE i \in X
  <2>1. CASE i = X0
    BY <1>3, <2>1
  <2>2. CASE i # X0
    <3> DEFINE d == D[<<X0, i>>]
               r == Z!RelaxBound(d, k)
    <3>1. d \in Int /\ d <= 0 /\ d # INF /\ (r = INF \/ w[X0] - w[i] <= r)
      BY <1>1, <1>2, <1>4, <2>2
    <3> HIDE DEF d
    <3>2. r # INF /\ r <= 0 /\ r \in Int
      BY <1>1, <3>1 DEF Z!RelaxBound
    <3> HIDE DEF r
    <3> QED
      BY <1>3, <3>1, <3>2
  <2> QED
    BY <2>1, <2>2
<1>6. \A i \in X : low[i] \in Int /\ low[i] <= w[i] /\ low[i] <= k
                   /\ (low[i] = w[i] \/ (low[i] = k /\ k <= w[i]))
  BY <1>1, <1>3
<1>7. low \in [X -> Int] /\ low[X0] = 0
  <2>1. low[X0] = 0
    BY <1>1, <1>3
  <2> QED
    BY <1>6, <2>1
<1>8. ASSUME NEW i \in X
      PROVE  D[<<i, X0>>] = INF \/ 0 <= D[<<i, X0>>]
  <2>1. D[<<i, X0>>] # INF => D[<<X0, X0>>] <= D[<<X0, i>>] + D[<<i, X0>>]
    BY <1>1, <1>2 DEF ClosedForm, Z!ClosedOver
  <2>2. D[<<X0, X0>>] = 0 /\ D[<<X0, i>>] <= 0 /\ D[<<X0, i>>] \in Int /\ D[<<i, X0>>] \in Int
    BY <1>1, <1>2
  <2> QED
    BY <2>1, <2>2
<1> HIDE DEF low
<1>9. ASSUME NEW j \in X, w[j] < k \/ j = X0, NEW i \in X
      PROVE  D[<<i, j>>] = INF \/ low[i] - low[j] <= D[<<i, j>>]
  <2>1. low[j] = w[j]
    BY <1>1, <1>3, <1>6, <1>7, <1>9
  <2>2. CASE i = j
    <3>1. D[<<j, j>>] = 0 /\ low[j] \in Int
      BY <1>2, <1>6
    <3>2. low[j] - low[j] <= D[<<j, j>>]
      BY <3>1
    <3> QED
      BY <2>2, <3>2
  <2>3. CASE i # j /\ D[<<i, j>>] # INF
    <3> DEFINE d == D[<<i, j>>]
               r == Z!RelaxBound(d, k)
    <3>1. d \in Int /\ d # INF /\ (r = INF \/ w[i] - w[j] <= r)
      BY <1>2, <1>4, <2>3
    <3>2. j = X0 => 0 <= d
      BY <1>8, <2>3
    <3> HIDE DEF d
    <3>3. CASE d > k
      BY <1>1, <1>3, <1>5, <1>6, <2>1, <3>1, <3>3 DEF d
    <3>4. CASE d < -k
      <4>1. r = -k
        BY <1>1, <3>1, <3>4 DEF Z!RelaxBound
      <4>2. w[i] - w[j] <= -k
        <5>1. -k # INF
          BY <1>1
        <5> QED
          BY <3>1, <4>1, <5>1
      <4>3. 0 <= w[i] /\ w[i] \in Int /\ w[j] \in Int
        BY <1>3, <1>5
      <4>4. k <= w[j]
        BY <1>1, <4>2, <4>3
      <4>5. j # X0
        BY <1>1, <3>2, <3>4, <3>1
      <4> QED
        BY <1>1, <1>9, <4>3, <4>4, <4>5
    <3>5. CASE ~ (d > k) /\ ~ (d < -k)
      <4>1. r = d
        BY <3>1, <3>5 DEF Z!RelaxBound
      <4>2. w[i] - w[j] <= d
        BY <3>1, <4>1
      <4>3. low[i] \in Int /\ low[i] <= w[i] /\ w[i] \in Int /\ w[j] \in Int
        BY <1>3, <1>6
      <4> QED
        BY <2>1, <3>1, <4>2, <4>3 DEF d
    <3> QED
      BY <3>3, <3>4, <3>5
  <2> QED
    BY <2>2, <2>3
<1>10. PICK v \in [X -> Int] :
         /\ M!Satisfies(v, D)
         /\ \A i \in X :
              /\ low[i] <= v[i]
              /\ (\A l \in X : D[<<l, i>>] = INF \/ low[l] - low[i] <= D[<<l, i>>])
                   => v[i] = low[i]
  <2>1. PICK V \in Nat : 2 * V < INF /\ Z!Within(X, D, -V, V)
    BY DEF CanBeAdded
  <2>2. X \in SUBSET X /\ X0 \in X /\ \A i \in X : D[<<X0, i>>] # INF
    BY <1>1, <1>2
  <2>3. low \in [X -> Int]
    BY <1>7
  <2>4. IsFiniteSet(X) /\ ClosedForm(X, D)
    BY <1>1
  <2> HIDE DEF X, D, low
  <2> QED
    BY SMTT(30), <2>1, <2>2, <2>3, <2>4, LeastAbove
<1>11. \A i \in X : w[i] < k \/ i = X0 => v[i] = w[i]
  BY <1>1, <1>3, <1>6, <1>7, <1>9, <1>10
<1>12. v \in Points(X)
  BY <1>1, <1>3, <1>11 DEF Points
<1>13. ASSUME NEW i \in X, ~ (w[i] < k), i # X0
       PROVE  v[i] = w[i] \/ PastEndpoints(n, i, v[i], w[i])
  <2>1. /\ low[i] = k /\ k <= v[i] /\ k <= w[i] /\ v[i] \in Int /\ w[i] \in Int
    BY <1>1, <1>3, <1>6, <1>10, <1>13
  <2>2. CASE NoLatest(n, i)
    BY <2>1, <2>2 DEF PastEndpoints, k
  <2>3. CASE ~ NoLatest(n, i)
    <3>1. PICK t \in n.transitions : i = Execution(t) /\ Latest(n, t) # INF
      BY <2>3 DEF NoLatest
    <3>2. t \in StructEnabled(n, m)
      BY <3>1, KindsOfClocks
    <3> DEFINE d == D[<<i, X0>>]
               r == Z!RelaxBound(d, k)
    <3>3. d <= Latest(n, t)
      BY <3>1, <3>2 DEF IsCanonical, InTime
    <3>4. Latest(n, t) \in 0 .. INF /\ Latest(n, t) <= k
      BY <3>1, IntervalBounds, ExtrapolationBoundType DEF FiniteEndpoints, k
    <3>5. d \in Int /\ (d = INF \/ 0 <= d) /\ (r = INF \/ w[i] - w[X0] <= r)
      BY <1>1, <1>2, <1>4, <1>8, <1>13
    <3>6. d = INF \/ v[i] - v[X0] <= d
      BY <1>1, <1>10 DEF M!Satisfies
    <3>7. v[X0] = 0 /\ w[X0] = 0
      BY <1>1, <1>3, <1>11
    <3> HIDE DEF d
    <3>8. d # INF /\ d <= k /\ 0 <= d
      BY <1>1, <3>1, <3>3, <3>4, <3>5
    <3>9. r = d
      BY <1>1, <3>5, <3>8 DEF Z!RelaxBound
    <3>10. w[i] <= k /\ v[i] <= k
      BY <1>1, <2>1, <3>5, <3>6, <3>7, <3>8, <3>9
    <3> QED
      BY <1>1, <2>1, <3>10
  <2> QED
    BY <2>2, <2>3
<1>14. Alike(n, x, v, w)
  BY <1>3, <1>11, <1>13 DEF Alike
<1> QED
  BY <1>10, <1>12, <1>14

(* Extrapolation invents nothing else: every point of the extrapolated     *)
(* class is alike to a point of the class.                                 *)
LEMMA WidenedPoint ==
  ASSUME NEW n, IsNet(n), NEW class, IsCanonical(n, class),
         NEW N, NEW B, HasRoom(n, N, B),
         Cardinality(ClockVars(n, class.marking)) <= N,
         \A i \in ClockVars(n, class.marking) :
           -(3 * ((N + 1) * B)) <= class.zone[<<X0, i>>],
         CanBeAdded(ClockVars(n, class.marking), class.zone),
         NEW x \in BOOLEAN,
         NEW w \in Points(ClockVars(n, class.marking)),
         M!Satisfies(w, (IF x THEN ExtrapolateClass(n, class) ELSE class).zone)
  PROVE  \E v \in Points(ClockVars(n, class.marking)) :
           M!Satisfies(v, class.zone) /\ Alike(n, x, v, w)
<1> DEFINE Y == ClockVars(n, class.marking)
           k == ExtrapolationBound(n)
           F == ExtrapolateClass(n, class).zone
           G == Z!Relaxed(class.zone, k)
<1>1. CASE ~ x
  <2>1. M!Satisfies(w, class.zone) /\ Alike(n, x, w, w)
    BY <1>1 DEF Alike
  <2> QED
    BY <2>1
<1>2. CASE x
  <2>1. M!Satisfies(w, F)
    BY <1>2
  <2>2. IsCanonical(n, ExtrapolateClass(n, class)) /\ Z!Below(Y, F, G)
    BY ExtrapolatedIsCanonical
  <2>3. F \in Zones(Y) /\ class.zone \in Zones(Y)
    <3>1. ExtrapolateClass(n, class).marking = class.marking
      BY ExtrapolatedClass DEF IsCanonical
    <3> QED
      BY <2>2, <3>1 DEF IsCanonical, ClosedForm
  <2>4. G \in Zones(Y) /\ INF \in Nat
    <3>1. Z!IsFiniteSet(Y) /\ k \in 0 .. INF /\ INF \in Nat
      BY ClocksAreFinite, ExtrapolationBoundType, INFAssumption
         DEF IsFiniteSet, Z!IsFiniteSet
    <3> HIDE DEF k
    <3> QED
      BY <2>3, <3>1, Z!ExtrapolateType DEF Zones
  <2> HIDE DEF F, G
  <2>5. /\ \A i, j \in Y : /\ F[<<i, j>>] \in Int /\ F[<<i, j>>] <= G[<<i, j>>]
                           /\ G[<<i, j>>] \in Int /\ G[<<i, j>>] <= INF
        /\ DOMAIN F = Y \X Y /\ DOMAIN G = Y \X Y
    BY <2>2, <2>3, <2>4, ZoneEntries DEF Z!Below
  <2>6. \A i, j \in Y : F[<<i, j>>] = INF \/ w[i] - w[j] <= F[<<i, j>>]
    BY <2>1, <2>5 DEF M!Satisfies
  <2>7. ASSUME NEW i \in Y, NEW j \in Y
        PROVE  G[<<i, j>>] = INF \/ w[i] - w[j] <= G[<<i, j>>]
    <3> DEFINE f == F[<<i, j>>]
               g == G[<<i, j>>]
               gap == w[i] - w[j]
    <3>1. f \in Int /\ g \in Int /\ f <= g /\ g <= INF /\ (f = INF \/ gap <= f)
      BY <2>5, <2>6
    <3>2. gap \in Int
      BY DEF Points
    <3> HIDE DEF f, g, gap
    <3>3. g = INF \/ gap <= g
      BY <2>4, <3>1, <3>2
    <3> QED
      BY <3>3 DEF g, gap
  <2>8. M!Satisfies(w, G)
    BY <2>5, <2>7 DEF M!Satisfies
  <2> QED
    BY <1>2, <2>8, RelaxedPoint DEF G
<1> QED
  BY <1>1, <1>2

(* One step of a run: d units pass, no deadline is missed, and t, which    *)
(* has reached its earliest firing time, fires.                            *)
CanStep(n, m, v, d, t) ==
  /\ t \in PriorityEnabled(n, m)
  /\ MeetsDeadlines(n, m, v, d)
  /\ Earliest(n, t) <= Delayed(n, m, v, d)[Execution(t)]

PointAfter(n, m, v, d, t) ==
  Carried(n, Delayed(n, m, v, d), m, FireMarking(m, n, t), t)

LEMMA PointsMoveOn ==
  ASSUME NEW n, IsNet(n), NEW m, NEW v \in Points(ClockVars(n, m)), NEW d \in Nat,
         NEW t \in Nat
  PROVE  /\ Delayed(n, m, v, d) \in Points(ClockVars(n, m))
         /\ PointAfter(n, m, v, d, t) \in Points(ClockVars(n, FireMarking(m, n, t)))
<1> DEFINE X == ClockVars(n, m)
           next == FireMarking(m, n, t)
           Y == ClockVars(n, next)
           later == Delayed(n, m, v, d)
           S == SurvivingClocks(n, m, next, t)
<1>1. /\ X0 \in X /\ X0 \notin Running(n, m) /\ X0 \in Y /\ X0 \in S /\ S \subseteq X
  BY KindsOfClocks DEF SurvivingClocks
<1>2. later \in Points(X)
  <2>1. v[X0] = 0 /\ \A i \in X : v[i] \in Int
    BY DEF Points
  <2>2. \A i \in X : (IF i \in Running(n, m) THEN v[i] + d ELSE v[i]) \in Int
    BY <2>1
  <2> QED
    BY <1>1, <2>1, <2>2 DEF Delayed, Points
<1> HIDE DEF later, S, next
<1>3. Carried(n, later, m, next, t) \in Points(Y)
  <2>1. later[X0] = 0 /\ \A i \in S : later[i] \in Int
    BY <1>1, <1>2 DEF Points
  <2>2. \A i \in Y : (IF i \in S THEN later[i] ELSE 0) \in Int
    BY <2>1
  <2> QED
    BY <1>1, <2>1, <2>2 DEF Carried, Points, S
<1> QED
  BY <1>2, <1>3 DEF PointAfter, later, next

(* Alike points take the same steps, to points that are alike.             *)
LEMMA AlikeDelays ==
  ASSUME NEW n, IsNet(n), NEW m, NEW x, NEW d \in Nat,
         NEW v \in Points(ClockVars(n, m)), NEW w \in Points(ClockVars(n, m)),
         Alike(n, x, v, w)
  PROVE  Alike(n, x, Delayed(n, m, v, d), Delayed(n, m, w, d))
<1> DEFINE X == ClockVars(n, m)
           k == ExtrapolationBound(n)
           dv == Delayed(n, m, v, d)
           dw == Delayed(n, m, w, d)
<1> SUFFICES ASSUME NEW i \in X
             PROVE  dv[i] = dw[i] \/ (x /\ PastEndpoints(n, i, dv[i], dw[i]))
  BY DEF Alike, Delayed
<1>1. v[i] = w[i] \/ (x /\ PastEndpoints(n, i, v[i], w[i]))
  BY DEF Alike, Points
<1>2. v[i] \in Int /\ w[i] \in Int /\ k \in Nat
  BY ExtrapolationBoundType, INFAssumption DEF Points
<1>3. CASE i \in Running(n, m)
  <2>1. dv[i] = v[i] + d /\ dw[i] = w[i] + d
    BY <1>3 DEF Delayed
  <2>2. k <= v[i] => k <= v[i] + d
    BY <1>2
  <2>3. k <= w[i] => k <= w[i] + d
    BY <1>2
  <2> HIDE DEF dv, dw, k
  <2> QED
    BY <1>1, <2>1, <2>2, <2>3 DEF PastEndpoints, k
<1>4. CASE i \notin Running(n, m)
  <2>1. dv[i] = v[i] /\ dw[i] = w[i]
    BY <1>4 DEF Delayed
  <2> HIDE DEF dv, dw
  <2> QED
    BY <1>1, <2>1
<1> QED
  BY <1>3, <1>4

LEMMA AlikeSteps ==
  ASSUME NEW n, IsNet(n), NEW m, NEW x, NEW d \in Nat, NEW t \in n.transitions,
         NEW v \in Points(ClockVars(n, m)), NEW w \in Points(ClockVars(n, m)),
         Alike(n, x, v, w), CanStep(n, m, w, d, t)
  PROVE  /\ CanStep(n, m, v, d, t)
         /\ Alike(n, x, PointAfter(n, m, v, d, t), PointAfter(n, m, w, d, t))
<1> DEFINE X == ClockVars(n, m)
           k == ExtrapolationBound(n)
           dv == Delayed(n, m, v, d)
           dw == Delayed(n, m, w, d)
           ht == Execution(t)
<1>1. /\ Alike(n, x, dv, dw) /\ dv \in Points(X) /\ dw \in Points(X)
      /\ t \in Nat
  BY AlikeDelays, PointsMoveOn DEF IsNet
<1>2. ht \in X /\ t \in PriorityEnabled(n, m) /\ Earliest(n, t) <= dw[ht]
  BY KindsOfClocks, SchedulerSelects DEF CanStep
<1>3. Earliest(n, t) \in Nat /\ Earliest(n, t) <= k /\ k \in Nat
  BY ExtrapolationBoundType, IntervalBounds, INFAssumption DEF FiniteEndpoints
<1>4. Earliest(n, t) <= dv[ht]
  <2>1. dv[ht] \in Int /\ dw[ht] \in Int
    BY <1>1, <1>2 DEF Points
  <2>2. dv[ht] = dw[ht] \/ k <= dv[ht]
    BY <1>1, <1>2 DEF Alike, Points, PastEndpoints
  <2> HIDE DEF dv, dw, ht, k
  <2> QED
    BY <1>2, <1>3, <2>1, <2>2
<1>5. MeetsDeadlines(n, m, v, d)
  <2> SUFFICES ASSUME NEW s \in PriorityEnabled(n, m), Latest(n, s) # INF
               PROVE  v[Execution(s)] + d <= Latest(n, s)
    BY DEF MeetsDeadlines
  <2>1. w[Execution(s)] + d <= Latest(n, s)
    BY DEF CanStep, MeetsDeadlines
  <2>2. s \in n.transitions /\ Execution(s) \in X
    BY KindsOfClocks, SchedulerSelects
  <2>3. ~ NoLatest(n, Execution(s))
    BY <2>2 DEF NoLatest
  <2>4. v[Execution(s)] = w[Execution(s)]
    BY <2>2, <2>3 DEF Alike, Points, PastEndpoints
  <2> QED
    BY <2>1, <2>4
<1>6. CanStep(n, m, v, d, t)
  BY <1>2, <1>4, <1>5 DEF CanStep
<1> DEFINE next == FireMarking(m, n, t)
           S == SurvivingClocks(n, m, next, t)
<1> HIDE DEF dv, dw, next
<1>7. Alike(n, x, Carried(n, dv, m, next, t), Carried(n, dw, m, next, t))
  <2> SUFFICES ASSUME NEW i \in ClockVars(n, next)
               PROVE  LET a == Carried(n, dv, m, next, t)[i]
                          b == Carried(n, dw, m, next, t)[i]
                      IN  a = b \/ (x /\ PastEndpoints(n, i, a, b))
    BY DEF Alike, Carried
  <2>1. CASE i \in S
    <3>1. i \in X
      BY <2>1 DEF SurvivingClocks
    <3>2. dv[i] = dw[i] \/ (x /\ PastEndpoints(n, i, dv[i], dw[i]))
      BY <1>1, <3>1 DEF Alike, Points
    <3>3. Carried(n, dv, m, next, t)[i] = dv[i] /\ Carried(n, dw, m, next, t)[i] = dw[i]
      BY <2>1 DEF Carried
    <3> QED
      BY <3>2, <3>3
  <2>2. CASE i \notin S
    <3>1. Carried(n, dv, m, next, t)[i] = 0 /\ Carried(n, dw, m, next, t)[i] = 0
      BY <2>2 DEF Carried
    <3> QED
      BY <3>1
  <2> QED
    BY <2>1, <2>2
<1> QED
  BY <1>6, <1>7 DEF PointAfter, dv, dw, next

LEMMA AlikeIsTransitive ==
  ASSUME NEW n, NEW x, NEW X,
         NEW u \in Points(X), NEW v \in Points(X), NEW w \in Points(X),
         Alike(n, x, u, v), Alike(n, x, v, w)
  PROVE  Alike(n, x, u, w)
<1> SUFFICES ASSUME NEW i \in X
             PROVE  u[i] = w[i] \/ (x /\ PastEndpoints(n, i, u[i], w[i]))
  BY DEF Alike, Points
<1>1. u[i] = v[i] \/ (x /\ PastEndpoints(n, i, u[i], v[i]))
  BY DEF Alike, Points
<1>2. v[i] = w[i] \/ (x /\ PastEndpoints(n, i, v[i], w[i]))
  BY DEF Alike, Points
<1> QED
  BY <1>1, <1>2 DEF PastEndpoints

(* The engine's step invents nothing: where each stopped clock has one     *)
(* value, every point of the class it leads to is what some point of the   *)
(* class becomes, up to what extrapolation may change.                     *)
THEOREM StepInventsNothing ==
  ASSUME NEW n, IsNet(n), NEW class, IsCanonical(n, class),
         NEW N, NEW B, HasRoom(n, N, B), Fits(n, class, N, B),
         StoppedAtOneValue(n, class),
         NEW t \in n.transitions, CanFire(n, TimeElapse(n, class), t),
         Cardinality(ClockVars(n, FireMarking(class.marking, n, t))) <= N,
         NEW x \in BOOLEAN,
         NEW w \in Points(ClockVars(n, FireMarking(class.marking, n, t))),
         LET next == Successor(n, TimeElapse(n, class), t)
         IN  M!Satisfies(w, (IF x THEN ExtrapolateClass(n, next) ELSE next).zone)
  PROVE  \E d \in Nat : \E v \in Points(ClockVars(n, class.marking)) :
           /\ M!Satisfies(v, class.zone)
           /\ CanStep(n, class.marking, v, d, t)
           /\ Alike(n, x, PointAfter(n, class.marking, v, d, t), w)
<1> DEFINE m == class.marking
           E == TimeElapse(n, class)
           next == Successor(n, E, t)
           Y == ClockVars(n, FireMarking(m, n, t))
<1>1. /\ IsCanonical(n, E) /\ E.marking = m /\ Fits(n, E, N, (N + 1) * B)
  BY ElapsedIsCanonical
<1>2. /\ IsCanonical(n, next) /\ next.marking = FireMarking(m, n, t)
      /\ \A i \in Y : -(3 * ((N + 1) * B)) <= next.zone[<<X0, i>>]
      /\ CanBeAdded(Y, next.zone)
      /\ IsCanonical(n, ExtrapolateClass(n, next))
  <2> HIDE DEF next
  <2> QED
    BY StepKeepsClosedForm DEF next
<1> HIDE DEF E
<1>3. CanFire(n, E, t) /\ t \in PriorityEnabled(n, m)
  BY <1>1 DEF E, CanFire, IsFirable
<1>4. PICK after \in Points(Y) : M!Satisfies(after, next.zone) /\ Alike(n, x, after, w)
  <2> HIDE DEF next
  <2>1. M!Satisfies(w, (IF x THEN ExtrapolateClass(n, next) ELSE next).zone)
    BY DEF next, E
  <2>2. Cardinality(ClockVars(n, next.marking)) <= N
    BY <1>2
  <2> QED
    BY <1>2, <2>1, <2>2, WidenedPoint
<1>5. PICK u \in Points(ClockVars(n, m)) :
        /\ M!Satisfies(u, E.zone)
        /\ Earliest(n, t) <= u[Execution(t)]
        /\ after = Carried(n, u, m, FireMarking(m, n, t), t)
  BY <1>1, <1>3, <1>4, FiringInventsNothing
<1>6. PICK d \in Nat : \E v \in Points(ClockVars(n, m)) :
        /\ M!Satisfies(v, class.zone)
        /\ MeetsDeadlines(n, m, v, d)
        /\ u = Delayed(n, m, v, d)
  BY <1>5, ElapsingInventsNothing DEF E
<1>7. PICK v \in Points(ClockVars(n, m)) :
        /\ M!Satisfies(v, class.zone)
        /\ MeetsDeadlines(n, m, v, d)
        /\ u = Delayed(n, m, v, d)
  BY <1>6
<1>8. CanStep(n, m, v, d, t) /\ after = PointAfter(n, m, v, d, t)
  BY <1>3, <1>5, <1>7 DEF CanStep, PointAfter
<1> QED
  BY <1>4, <1>7, <1>8

(* The same with firing times: an active transition that can fire does so  *)
(* at every value between its bounds in the elapsed zone, from its         *)
(* earliest firing time on.                                                *)
LEMMA FiringTimesAreTaken ==
  ASSUME NEW n, IsNet(n), NEW class, IsCanonical(n, class),
         NEW N, NEW B, HasRoom(n, N, B), Fits(n, class, N, B),
         StoppedAtOneValue(n, class),
         NEW t \in PriorityEnabled(n, class.marking), NEW y \in Int,
         LET D == TimeElapse(n, class).zone
             ht == Execution(t)
         IN  /\ Earliest(n, t) <= y /\ -D[<<X0, ht>>] <= y
             /\ D[<<ht, X0>>] = INF \/ y <= D[<<ht, X0>>]
  PROVE  \E d \in Nat : \E v \in Points(ClockVars(n, class.marking)) :
           /\ M!Satisfies(v, class.zone)
           /\ CanStep(n, class.marking, v, d, t)
           /\ Delayed(n, class.marking, v, d)[Execution(t)] = y
<1> DEFINE m == class.marking
           X == ClockVars(n, m)
           E == TimeElapse(n, class)
           D == E.zone
           ht == Execution(t)
           S == {X0, ht}
           part == [i \in S |-> IF i = X0 THEN 0 ELSE y]
           U == (N + 1) * B
<1>1. /\ IsCanonical(n, E) /\ E.marking = m /\ Fits(n, E, N, U)
  BY ElapsedIsCanonical
<1>2. /\ Earliest(n, t) <= y /\ -D[<<X0, ht>>] <= y
      /\ D[<<ht, X0>>] = INF \/ y <= D[<<ht, X0>>]
  OBVIOUS
<1>3. /\ X0 \in X /\ ht \in X /\ ht # X0 /\ IsFiniteSet(X) /\ INF \in Nat \ {0}
      /\ Cardinality(X) \in Nat
  BY KindsOfClocks, SchedulerSelects, ClocksAreFinite, ClocksAreCounted, INFAssumption
<1> HIDE DEF E, ht, U
<1>4. U \in Nat /\ 2 * U < INF
  <2>1. Cardinality(X) <= N
    BY <1>1 DEF Fits
  <2>2. U \in Nat /\ 3 * U < INF
    BY <1>3, <2>1, RoomForSums DEF U
  <2> QED
    BY <1>3, <2>2
<1>5. /\ ClosedForm(X, D) /\ Z!Within(X, D, -U, U) /\ D \in Zones(X)
      /\ \A i \in X : D[<<X0, i>>] <= 0 /\ D[<<i, i>>] = 0
  BY <1>1 DEF IsCanonical, ClosedForm, Z!ZeroDiagonal, InTime, Fits
<1>6. \A i, j \in X : D[<<i, j>>] \in Int
  BY <1>5, ZoneEntries
<1>7. ASSUME NEW i \in X
      PROVE  D[<<X0, i>>] # INF
  <2> DEFINE e == D[<<X0, i>>]
  <2>1. e \in Int /\ e <= 0
    BY <1>3, <1>5, <1>6
  <2> HIDE DEF e
  <2>2. e # INF
    BY <1>3, <2>1
  <2> QED
    BY <2>2 DEF e
<1>8. /\ part \in [S -> Int] /\ part[X0] = 0 /\ part[ht] = y
      /\ S \in SUBSET X /\ X0 \in S
  BY <1>3
<1>9. ASSUME NEW i \in S, NEW j \in S
      PROVE  D[<<i, j>>] = INF \/ part[i] - part[j] <= D[<<i, j>>]
  <2>1. CASE i = j
    <3>1. part[i] \in Int /\ D[<<i, i>>] = 0
      BY <1>5, <1>8
    <3> HIDE DEF D, part
    <3>2. part[i] - part[i] <= D[<<i, i>>]
      BY <3>1
    <3> QED
      BY <2>1, <3>2
  <2>2. CASE i = ht /\ j = X0
    BY <1>2, <1>8, <2>2
  <2>3. CASE i = X0 /\ j = ht
    <3>1. D[<<X0, ht>>] \in Int
      BY <1>3, <1>6
    <3> HIDE DEF D, part
    <3>2. part[X0] - part[ht] <= D[<<X0, ht>>]
      BY <1>2, <1>8, <3>1
    <3> QED
      BY <2>3, <3>2
  <2> QED
    BY <2>1, <2>2, <2>3
<1> HIDE DEF part, S, D
<1>10. PICK u \in Points(X) : M!Satisfies(u, D) /\ \A i \in S : u[i] = part[i]
  BY <1>3, <1>4, <1>5, <1>7, <1>8, <1>9, PartOfPoint
<1>11. u[ht] = y
  BY <1>8, <1>10 DEF S
<1>12. PICK d \in Nat : \E v \in Points(X) :
        /\ M!Satisfies(v, class.zone)
        /\ MeetsDeadlines(n, m, v, d)
        /\ u = Delayed(n, m, v, d)
  BY <1>10, ElapsingInventsNothing DEF D, E
<1>13. PICK v \in Points(X) :
        /\ M!Satisfies(v, class.zone)
        /\ MeetsDeadlines(n, m, v, d)
        /\ u = Delayed(n, m, v, d)
  BY <1>12
<1>14. CanStep(n, m, v, d, t)
  BY <1>2, <1>11, <1>13 DEF CanStep, ht
<1> QED
  BY <1>11, <1>13, <1>14 DEF ht
=============================================================================
