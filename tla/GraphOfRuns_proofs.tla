------------------------- MODULE GraphOfRuns_proofs -------------------------
(***************************************************************************)
(* The two theorems the state-class graph exists for, for every net, every *)
(* merging mode, with and without extrapolation, and for runs of every     *)
(* length: when build has finished without truncating, every run of the    *)
(* net is inside the class of the vertex it is in, and whatever it can     *)
(* fire next is an edge whose windows contain its clock and its stay.      *)
(***************************************************************************)
EXTENDS GraphOfRuns, StateClassGraph_proofs, StateClass_proofs

Runs == INSTANCE TimedRun_proofs

-----------------------------------------------------------------------------
(* The nets and the scheduler of the run are those of the graph: the       *)
(* definitions are the same, once in each instance.                        *)
LEMMA SameNets ==
  \A n, m, t :
    /\ Run!Earliest(n, t) = Earliest(n, t)
    /\ Run!Latest(n, t) = Latest(n, t)
    /\ Run!StructEnabled(n, m) = StructEnabled(n, m)
    /\ Run!PriorityEnabled(n, m) = PriorityEnabled(n, m)
    /\ Run!Suspended(n, m) = Suspended(n, m)
    /\ Run!FireMarking(m, n, t) = FireMarking(m, n, t)
<1>1. \A n, t : /\ Run!Earliest(n, t) = Earliest(n, t)
                /\ Run!Latest(n, t) = Latest(n, t)
  BY DEF Run!Earliest, Earliest, Run!EffectiveEarliest,
         EffectiveEarliest, Run!Latest, Latest, Run!EffectiveLatest,
         EffectiveLatest
<1>2. \A n, m : Run!StructEnabled(n, m) = StructEnabled(n, m)
  BY DEF Run!StructEnabled, StructEnabled, Run!IsEnabled, IsEnabled
<1>3. \A n, m : Run!PriorityEnabled(n, m) = PriorityEnabled(n, m)
  BY Zenon
     DEF Run!PriorityEnabled, PriorityEnabled,
         Run!FilterPriorityPerCore, FilterPriorityPerCore,
         Run!ParallelismOfCore, ParallelismOfCore,
         Run!KeptInUnboundedGroup, KeptInUnboundedGroup,
         Run!KeptInBoundedGroup, KeptInBoundedGroup, Run!CoreGroup,
         CoreGroup, Run!Precedes, Precedes, Run!Cardinality,
         Cardinality, Run!IsFiniteSet, IsFiniteSet, Run!StructEnabled,
         StructEnabled, Run!IsEnabled, IsEnabled
<1>4. \A n, m : Run!Suspended(n, m) = Suspended(n, m)
  BY <1>2, <1>3 DEF Run!Suspended, Suspended
<1>5. \A n, m, t : Run!FireMarking(m, n, t) = FireMarking(m, n, t)
  BY Zenon
     DEF Run!FireMarking, FireMarking, Run!Overflows, Overflows,
         Run!Produced, Produced
<1> QED
  BY <1>1, <1>2, <1>3, <1>4, <1>5

(* And the run is the one TimedRun_proofs is about.                        *)
LEMMA SameRun ==
  /\ Run!Init <=> Runs!Init
  /\ Run!Elapse <=> Runs!Elapse
  /\ \A t : Run!Fire(t) <=> Runs!Fire(t)
<1>1. Run!Init <=> Runs!Init
  BY DEF Run!Init, Runs!Init
<1>2. /\ Run!Active = Runs!Active
      /\ Run!Enabled = Runs!Enabled
      /\ Run!Stopped = Runs!Stopped
  BY Zenon
     DEF Run!Active, Runs!Active, Run!Enabled, Runs!Enabled,
         Run!Stopped, Runs!Stopped, Run!Suspended, Runs!Suspended,
         Run!PriorityEnabled, Runs!PriorityEnabled,
         Run!FilterPriorityPerCore, Runs!FilterPriorityPerCore,
         Run!ParallelismOfCore, Runs!ParallelismOfCore,
         Run!KeptInUnboundedGroup, Runs!KeptInUnboundedGroup,
         Run!KeptInBoundedGroup, Runs!KeptInBoundedGroup,
         Run!CoreGroup, Runs!CoreGroup, Run!Precedes, Runs!Precedes,
         Run!Cardinality, Runs!Cardinality, Run!IsFiniteSet,
         Runs!IsFiniteSet, Run!StructEnabled, Runs!StructEnabled,
         Run!IsEnabled, Runs!IsEnabled
<1>3. \A n, t : /\ Run!Earliest(n, t) = Runs!Earliest(n, t)
                /\ Run!Latest(n, t) = Runs!Latest(n, t)
  BY DEF Run!Earliest, Runs!Earliest, Run!EffectiveEarliest,
         Runs!EffectiveEarliest, Run!Latest, Runs!Latest,
         Run!EffectiveLatest, Runs!EffectiveLatest
<1>4. \A n, m, t : Run!FireMarking(m, n, t) = Runs!FireMarking(m, n, t)
  BY Zenon
     DEF Run!FireMarking, Runs!FireMarking, Run!Overflows, Runs!Overflows,
         Run!Produced, Runs!Produced
<1>5. \A n, m, t :
        Run!RecordedOverflow(m, n, t) = Runs!RecordedOverflow(m, n, t)
  BY Zenon
     DEF Run!RecordedOverflow, Runs!RecordedOverflow, Run!Overflows,
         Runs!Overflows, Run!Produced, Runs!Produced
<1>6. \A n, m : Run!StructEnabled(n, m) = Runs!StructEnabled(n, m)
  BY Zenon
     DEF Run!StructEnabled, Runs!StructEnabled, Run!IsEnabled,
         Runs!IsEnabled
<1>7. \A n, m : Run!Suspended(n, m) = Runs!Suspended(n, m)
  BY Zenon
     DEF Run!Suspended, Runs!Suspended,
         Run!PriorityEnabled, Runs!PriorityEnabled,
         Run!FilterPriorityPerCore, Runs!FilterPriorityPerCore,
         Run!ParallelismOfCore, Runs!ParallelismOfCore,
         Run!KeptInUnboundedGroup, Runs!KeptInUnboundedGroup,
         Run!KeptInBoundedGroup, Runs!KeptInBoundedGroup,
         Run!CoreGroup, Runs!CoreGroup, Run!Precedes, Runs!Precedes,
         Run!Cardinality, Runs!Cardinality, Run!IsFiniteSet,
         Runs!IsFiniteSet, Run!StructEnabled, Runs!StructEnabled,
         Run!IsEnabled, Runs!IsEnabled
<1>8. Run!Elapse <=> Runs!Elapse
  BY <1>2, <1>3
     DEF Run!Elapse, Runs!Elapse, Run!CanElapse, Runs!CanElapse,
         Run!MayElapse, Runs!MayElapse, Run!WithinBound,
         Runs!WithinBound, Run!Advanced, Runs!Advanced
<1>9. \A t : Run!Fire(t) <=> Runs!Fire(t)
  <2>1. \A t : Run!IsFirable(t) <=> Runs!IsFirable(t)
    BY <1>2, <1>3 DEF Run!IsFirable, Runs!IsFirable
  <2>2. \A t : Run!After(t) = Runs!After(t)
    BY <1>4 DEF Run!After, Runs!After
  <2>3. \A clock, before, after, t :
          Run!Surviving(clock, before, after, t)
            = Runs!Surviving(clock, before, after, t)
    BY DEF Run!Surviving, Runs!Surviving
  <2>4. \A t : /\ Run!ExecutionAfter(t) = Runs!ExecutionAfter(t)
               /\ Run!SuspensionAfter(t) = Runs!SuspensionAfter(t)
    BY <1>2, <1>6, <1>7, <2>2, <2>3
       DEF Run!ExecutionAfter, Runs!ExecutionAfter,
           Run!SuspensionAfter, Runs!SuspensionAfter
  <2> QED
    BY <1>5, <2>1, <2>2, <2>4 DEF Run!Fire, Runs!Fire
<1> QED
  BY <1>1, <1>8, <1>9

-----------------------------------------------------------------------------
(* The run keeps the invariant of TimedRun_proofs, whatever build does.    *)
LEMMA NetsAreWellFormed == Runs!NetsAssumption
BY GraphAssumption, MaxClockAssumption
   DEF Runs!NetsAssumption, Runs!IsNet, IsNet, Runs!IsInterval, IsInterval,
       Runs!EffectiveEarliest, EffectiveEarliest, Runs!EffectiveLatest,
       EffectiveLatest, Runs!IsFiniteSet, IsFiniteSet

LEMMA RunStarts == Run!Init => Runs!IInv
BY NetsAreWellFormed, INFAssumption, SameRun, Runs!InitIInv

LEMMA RunElapses == Runs!IInv /\ Run!Elapse => Runs!IInv'
BY NetsAreWellFormed, INFAssumption, SameRun, Runs!ElapseIInv

LEMMA RunFires ==
  ASSUME NEW t \in net.transitions
  PROVE  Runs!IInv /\ Run!Fire(t) => Runs!IInv'
BY NetsAreWellFormed, INFAssumption, SameRun, Runs!FireIInv

LEMMA RunStands == Runs!IInv /\ UNCHANGED <<net, runVars>> => Runs!IInv'
<1>1. UNCHANGED <<net, runVars>> => UNCHANGED Runs!vars
  BY DEF runVars, Runs!vars
<1> QED
  BY <1>1, NetsAreWellFormed, INFAssumption, Runs!StutterIInv

(* What the invariant says, in terms of the graph's net.                   *)
LEMMA RunIsBounded ==
  ASSUME Runs!IInv
  PROVE  /\ net \in Nets /\ IsNet(net)
         /\ \A t \in net.transitions : h[t] \in Nat /\ w[t] \in Nat
         /\ \A t \in net.transitions : h[t] <= MaxClock
         /\ \A t \in StructEnabled(net, marking) : h[t] <= Latest(net, t)
<1>1. \A n, m : Runs!StructEnabled(n, m) = StructEnabled(n, m)
  BY DEF Runs!StructEnabled, StructEnabled, Runs!IsEnabled, IsEnabled
<1>2. \A n, t : Runs!Latest(n, t) = Latest(n, t)
  BY DEF Runs!Latest, Latest, Runs!EffectiveLatest, EffectiveLatest
<1>3. net \in Nets /\ IsNet(net)
  BY GraphAssumption DEF Runs!IInv, Runs!TypeOK
<1>4. \A t \in net.transitions : h[t] \in Nat /\ w[t] \in Nat
  BY DEF Runs!IInv, Runs!TypeOK
<1>5. \A t \in net.transitions : h[t] <= MaxClock
  BY DEF Runs!IInv, Runs!ClocksBounded
<1>6. \A t \in StructEnabled(net, marking) : h[t] <= Latest(net, t)
  BY <1>1, <1>2 DEF Runs!IInv, Runs!WithinLatest, Runs!Enabled
<1> QED
  BY <1>3, <1>4, <1>5, <1>6

-----------------------------------------------------------------------------
(* Whatever values a run entered the class with: when t has reached its    *)
(* earliest and is not past its latest time, its clock is in the firing    *)
(* window and the time since the entry is in the dwell window.             *)
LEMMA WindowContains ==
  ASSUME NEW n, IsNet(n), NEW class, IsZoneClass(n, class),
         NEW e, e.t \in PriorityEnabled(n, class.marking), HasWindow(n, class, e),
         NEW v \in Points(ClockVars(n, class.marking)), NEW d \in Nat,
         M!Satisfies(v, class.zone),
         M!Satisfies(Delayed(n, class.marking, v, d), TimeElapse(n, class).zone),
         v[Execution(e.t)] >= 0,
         Earliest(n, e.t) <= v[Execution(e.t)] + d,
         v[Execution(e.t)] + d <= Latest(n, e.t),
         v[Execution(e.t)] + d < INF
  PROVE  /\ e.firing_min <= v[Execution(e.t)] + d
         /\ v[Execution(e.t)] + d <= e.firing_max
         /\ e.dwell_min <= d
         /\ d <= e.dwell_max
<1> DEFINE X == ClockVars(n, class.marking)
           ht == Execution(e.t)
           elapsed == TimeElapse(n, class).zone
           later == Delayed(n, class.marking, v, d)
           reached == elapsed[<<ht, X0>>]
           waited == elapsed[<<X0, ht>>]
           most == class.zone[<<ht, X0>>]
           least == class.zone[<<X0, ht>>]
           lower == Earliest(n, e.t)
           upper == Latest(n, e.t)
<1>1. /\ X0 \in X /\ ht \in X /\ ht \in Running(n, class.marking)
      /\ X0 \notin Running(n, class.marking)
      /\ v[ht] \in Int /\ v[X0] = 0
  BY KindsOfClocks, SchedulerSelects DEF Points, Running
<1>2. later[ht] = v[ht] + d /\ later[X0] = 0
  BY <1>1 DEF Delayed
<1>3. /\ INF \in Nat \ {0}
      /\ lower \in Nat /\ upper \in Nat /\ upper <= INF
  BY INFAssumption, SchedulerSelects, IntervalBounds
<1>4. /\ most \in Int /\ least \in Int
      /\ most = INF \/ v[ht] <= most
      /\ least = INF \/ -v[ht] <= least
  <2>1. /\ <<ht, X0>> \in DOMAIN class.zone /\ <<X0, ht>> \in DOMAIN class.zone
        /\ most \in Int /\ least \in Int
    BY <1>1 DEF IsZoneClass, Zones, Z!Matrices, Z!Bounds, Z!IntMin
  <2>2. /\ most = INF \/ v[ht] - v[X0] <= most
        /\ least = INF \/ v[X0] - v[ht] <= least
    BY <2>1 DEF M!Satisfies
  <2> QED
    BY <1>1, <2>1, <2>2
<1>5. /\ reached \in Int /\ waited \in Int
      /\ reached = INF \/ v[ht] + d <= reached
      /\ waited = INF \/ -(v[ht] + d) <= waited
  <2>1. elapsed \in Zones(X)
    BY ElapsedClass DEF IsZoneClass
  <2> HIDE DEF elapsed, later
  <2>2. /\ <<ht, X0>> \in DOMAIN elapsed /\ <<X0, ht>> \in DOMAIN elapsed
        /\ reached \in Int /\ waited \in Int
    BY <1>1, <2>1 DEF Zones, Z!Matrices, Z!Bounds, Z!IntMin
  <2>3. M!Satisfies(later, elapsed)
    BY DEF later, elapsed
  <2>4. /\ reached = INF \/ later[ht] - later[X0] <= reached
        /\ waited = INF \/ later[X0] - later[ht] <= waited
    BY <2>2, <2>3 DEF M!Satisfies
  <2> QED
    BY <1>1, <1>2, <2>2, <2>4
<1> DEFINE fire_min == IF lower < -waited THEN -waited ELSE lower
           fire_max == IF reached < upper THEN reached ELSE upper
<1>6. /\ e.firing_min = fire_min
      /\ e.firing_max = fire_max
      /\ e.dwell_min = IF fire_min - most < 0 THEN 0 ELSE fire_min - most
      /\ e.dwell_max = IF fire_max = INF THEN INF
                       ELSE IF fire_max + least < 0 THEN 0 ELSE fire_max + least
  BY DEF HasWindow, M!Smaller
<1> HIDE DEF most, least, reached, waited, lower, upper, ht
<1>7. v[ht] \in Nat /\ lower <= v[ht] + d /\ v[ht] + d <= upper /\ v[ht] + d < INF
  BY <1>1 DEF lower, upper, ht
<1>8. fire_min <= v[ht] + d /\ fire_min \in Int
  BY <1>3, <1>5, <1>7
<1>9. v[ht] + d <= fire_max /\ fire_max \in Int
  BY <1>3, <1>5, <1>7
<1> HIDE DEF fire_min, fire_max
<1>10. e.dwell_min <= d
  BY <1>3, <1>4, <1>6, <1>7, <1>8
<1>11. d <= e.dwell_max
  BY <1>3, <1>4, <1>6, <1>7, <1>9
<1> QED
  BY <1>6, <1>8, <1>9, <1>10, <1>11 DEF ht

-----------------------------------------------------------------------------
(* The clock values of a run as a point over the clock variables.          *)
ClockValue(i, running, suspended) ==
  CASE i[1] = "Zero" -> 0
    [] i[1] = "Execution" -> running[i[2]]
    [] i[1] = "Suspension" -> suspended[i[2]]

ClockValues(n, m, running, suspended) ==
  [i \in ClockVars(n, m) |-> ClockValue(i, running, suspended)]

LEMMA ClockValuesAre ==
  ASSUME NEW n, IsNet(n), NEW m, NEW running, NEW suspended
  PROVE  LET point == ClockValues(n, m, running, suspended)
         IN  /\ point[X0] = 0
             /\ \A t \in StructEnabled(n, m) : point[Execution(t)] = running[t]
             /\ \A t \in Suspended(n, m) : point[Suspension(t)] = suspended[t]
<1> DEFINE point == ClockValues(n, m, running, suspended)
<1>1. ASSUME NEW i \in ClockVars(n, m)
      PROVE  point[i] = CASE i[1] = "Zero" -> 0
                          [] i[1] = "Execution" -> running[i[2]]
                          [] i[1] = "Suspension" -> suspended[i[2]]
  BY <1>1, Zenon DEF ClockValues, ClockValue
<1> HIDE DEF point
<1>2. X0 \in ClockVars(n, m) /\ X0[1] = "Zero"
  BY KindsOfClocks
<1>3. point[X0] = 0
  BY <1>1, <1>2
<1>4. ASSUME NEW t \in StructEnabled(n, m)
      PROVE  point[Execution(t)] = running[t]
  <2>1. /\ Execution(t) \in ClockVars(n, m)
        /\ Execution(t)[1] = "Execution" /\ Execution(t)[2] = t
    BY KindsOfClocks
  <2> QED
    BY <1>1, <2>1
<1>5. ASSUME NEW t \in Suspended(n, m)
      PROVE  point[Suspension(t)] = suspended[t]
  <2>1. /\ Suspension(t) \in ClockVars(n, m)
        /\ Suspension(t)[1] = "Suspension" /\ Suspension(t)[2] = t
    BY KindsOfClocks
  <2> QED
    BY <1>1, <2>1
<1> QED
  BY <1>3, <1>4, <1>5 DEF point

LEMMA ClockValuesArePoints ==
  ASSUME NEW n, IsNet(n), NEW m, NEW running, NEW suspended,
         \A t \in n.transitions : running[t] \in Nat /\ suspended[t] \in Nat
  PROVE  LET point == ClockValues(n, m, running, suspended)
         IN  /\ point \in Points(ClockVars(n, m))
             /\ \A i \in ClockVars(n, m) : point[i] >= 0
<1> DEFINE point == ClockValues(n, m, running, suspended)
<1>1. point = [i \in ClockVars(n, m) |-> point[i]]
  BY DEF ClockValues
<1> HIDE DEF point
<1>2. /\ point[X0] = 0
      /\ \A t \in StructEnabled(n, m) : point[Execution(t)] = running[t]
      /\ \A t \in Suspended(n, m) : point[Suspension(t)] = suspended[t]
  BY ClockValuesAre DEF point
<1>3. \A t \in StructEnabled(n, m) \cup Suspended(n, m) : t \in n.transitions
  BY SchedulerSelects
<1>4. \A i \in ClockVars(n, m) : point[i] \in Nat
  BY <1>2, <1>3, KindsOfClocks
<1> QED
  BY <1>1, <1>2, <1>4 DEF Points, point

(* Where the run entered its vertex: what runs has advanced by the stay.   *)
EnteredAt(n, m, point, time) ==
  [i \in ClockVars(n, m) |->
     IF i \in Running(n, m) THEN point[i] - time ELSE point[i]]

LEMMA EntryPointIs ==
  ASSUME NEW n, IsNet(n), NEW m, NEW point \in Points(ClockVars(n, m)),
         NEW time \in Nat,
         \A i \in ClockVars(n, m) : point[i] >= 0,
         \A i \in Running(n, m) : time <= point[i]
  PROVE  LET start == EnteredAt(n, m, point, time)
         IN  /\ start \in Points(ClockVars(n, m))
             /\ \A i \in ClockVars(n, m) : start[i] >= 0
             /\ Delayed(n, m, start, time) = point
<1> DEFINE X == ClockVars(n, m)
           start == EnteredAt(n, m, point, time)
<1>1. /\ \A i \in X : point[i] \in Int
      /\ point[X0] = 0 /\ X0 \in X /\ X0 \notin Running(n, m)
      /\ point = [i \in X |-> point[i]]
  BY KindsOfClocks DEF Points
<1>2. \A i \in X : start[i] = IF i \in Running(n, m) THEN point[i] - time ELSE point[i]
  BY DEF EnteredAt
<1>3. start = [i \in X |-> start[i]]
  BY DEF EnteredAt
<1> HIDE DEF start
<1>4. start \in Points(X)
  BY <1>1, <1>2, <1>3 DEF Points
<1>5. \A i \in X : start[i] >= 0
  BY <1>1, <1>2
<1>6. \A i \in X : (IF i \in Running(n, m) THEN start[i] + time ELSE start[i]) = point[i]
  BY <1>1, <1>2
<1>7. Delayed(n, m, start, time) = point
  BY <1>1, <1>6 DEF Delayed
<1> QED
  BY <1>4, <1>5, <1>7 DEF start

(* What a firing does to the clocks of a run is what it does to a point.   *)
LEMMA CarriedIsFired ==
  ASSUME NEW n, IsNet(n), NEW m, NEW after, NEW t \in n.transitions,
         NEW h1, NEW w1, NEW h2, NEW w2,
         \A s \in StructEnabled(n, after) :
           h2[s] = IF s # t /\ s \in StructEnabled(n, m) THEN h1[s] ELSE 0,
         \A s \in Suspended(n, after) :
           w2[s] = IF s # t /\ s \in Suspended(n, m) THEN w1[s] ELSE 0
  PROVE  Carried(n, ClockValues(n, m, h1, w1), m, after, t)
           = ClockValues(n, after, h2, w2)
<1> DEFINE point == ClockValues(n, m, h1, w1)
           fired == ClockValues(n, after, h2, w2)
           carried == Carried(n, point, m, after, t)
           surviving == SurvivingClocks(n, m, after, t)
<1>1. \A i \in ClockVars(n, after) :
        carried[i] = IF i \in surviving THEN point[i] ELSE 0
  BY DEF Carried
<1>2. /\ carried = [i \in ClockVars(n, after) |-> carried[i]]
      /\ fired = [i \in ClockVars(n, after) |-> fired[i]]
  BY DEF Carried, ClockValues
<1>3. \A i \in ClockVars(n, after) :
        i \in surviving <=> i \in ClockVars(n, m) /\ i[2] # t
  BY DEF SurvivingClocks
<1>4. /\ point[X0] = 0 /\ fired[X0] = 0
      /\ \A s \in StructEnabled(n, m) : point[Execution(s)] = h1[s]
      /\ \A s \in StructEnabled(n, after) : fired[Execution(s)] = h2[s]
      /\ \A s \in Suspended(n, m) : point[Suspension(s)] = w1[s]
      /\ \A s \in Suspended(n, after) : fired[Suspension(s)] = w2[s]
  BY ClockValuesAre
<1> HIDE DEF point, fired, carried, surviving
<1>5. t \in Nat
  BY DEF IsNet
<1>6. \A s : /\ Execution(s) \in ClockVars(n, m) <=> s \in StructEnabled(n, m)
             /\ Suspension(s) \in ClockVars(n, m) <=> s \in Suspended(n, m)
  BY KindsOfClocks
<1>7. ASSUME NEW i \in ClockVars(n, after)
      PROVE  carried[i] = fired[i]
  <2>1. CASE i = X0
    <3>1. X0 \in ClockVars(n, m) /\ X0[2] = -1
      BY KindsOfClocks
    <3>2. i \in surviving
      BY <1>3, <1>5, <2>1, <3>1
    <3> QED
      BY <1>1, <1>4, <2>1, <3>2
  <2>2. ASSUME NEW s \in StructEnabled(n, after), i = Execution(s)
        PROVE  carried[i] = fired[i]
    <3>1. i[2] = s
      BY <2>2, KindsOfClocks
    <3>2. i \in surviving <=> s \in StructEnabled(n, m) /\ s # t
      BY <1>3, <1>6, <2>2, <3>1
    <3> QED
      BY <1>1, <1>4, <2>2, <3>2
  <2>3. ASSUME NEW s \in Suspended(n, after), i = Suspension(s)
        PROVE  carried[i] = fired[i]
    <3>1. i[2] = s
      BY <2>3, KindsOfClocks
    <3>2. i \in surviving <=> s \in Suspended(n, m) /\ s # t
      BY <1>3, <1>6, <2>3, <3>1
    <3> QED
      BY <1>1, <1>4, <2>3, <3>2
  <2> QED
    BY <2>1, <2>2, <2>3, KindsOfClocks
<1>8. carried = fired
  BY <1>2, <1>7
<1> QED
  BY <1>8 DEF carried, fired, point

-----------------------------------------------------------------------------
(* The inductive invariant of the walk: the values the run had when it     *)
(* entered its vertex are in the vertex's zone.                            *)
RunInVertex ==
  /\ at \in DOMAIN vertices
  /\ marking = vertices[at].marking
  /\ stay \in 0 .. MaxClock
  /\ \A i \in Running(net, marking) : stay <= Valuation[i]
  /\ M!Satisfies(EnteredAt(net, marking, Valuation, stay), vertices[at].zone)

WalkInv == GraphInv /\ Runs!IInv /\ RunInVertex

LEMMA ValuationIs ==
  /\ Valuation = ClockValues(net, marking, h, w)
  /\ Valuation' = ClockValues(net', marking', h', w')
BY Zenon DEF Valuation, ClockValues, ClockValue

LEMMA ValuationIsPoint ==
  ASSUME Runs!IInv
  PROVE  /\ Valuation \in Points(ClockVars(net, marking))
         /\ \A i \in ClockVars(net, marking) : Valuation[i] >= 0
         /\ \A t \in StructEnabled(net, marking) : Valuation[Execution(t)] = h[t]
         /\ \A t \in Suspended(net, marking) : Valuation[Suspension(t)] = w[t]
BY ValuationIs, RunIsBounded, ClockValuesArePoints, ClockValuesAre

(* A run in its vertex: where it entered, and where it is now.             *)
LEMMA RunIsElapsed ==
  ASSUME WalkInv
  PROVE  LET class == vertices[at]
             start == EnteredAt(net, marking, Valuation, stay)
         IN  /\ IsZoneClass(net, class)
             /\ start \in Points(ClockVars(net, class.marking))
             /\ M!Satisfies(start, class.zone)
             /\ Delayed(net, class.marking, start, stay) = Valuation
             /\ \A t \in PriorityEnabled(net, class.marking) :
                  /\ start[Execution(t)] >= 0
                  /\ start[Execution(t)] + stay = h[t]
                  /\ h[t] <= Latest(net, t)
                  /\ h[t] < INF
             /\ M!Satisfies(Valuation, TimeElapse(net, class).zone)
<1> DEFINE class == vertices[at]
           m == class.marking
           start == EnteredAt(net, m, Valuation, stay)
<1>1. /\ IsZoneClass(net, class) /\ m = marking
      /\ M!Satisfies(start, class.zone)
  BY DEF WalkInv, GraphInv, VerticesAreClasses, RunInVertex
<1>2. /\ IsNet(net)
      /\ \A t \in net.transitions : h[t] \in Nat /\ h[t] <= MaxClock
      /\ \A t \in StructEnabled(net, m) : h[t] <= Latest(net, t)
  BY <1>1, RunIsBounded DEF WalkInv
<1>3. /\ stay \in Nat
      /\ \A i \in Running(net, m) : stay <= Valuation[i]
  BY <1>1, MaxClockAssumption DEF WalkInv, RunInVertex
<1>4. /\ Valuation \in Points(ClockVars(net, m))
      /\ \A i \in ClockVars(net, m) : Valuation[i] >= 0
      /\ \A t \in StructEnabled(net, m) : Valuation[Execution(t)] = h[t]
  BY <1>1, ValuationIsPoint DEF WalkInv
<1>5. /\ start \in Points(ClockVars(net, m))
      /\ \A i \in ClockVars(net, m) : start[i] >= 0
      /\ Delayed(net, m, start, stay) = Valuation
  BY <1>2, <1>3, <1>4, EntryPointIs
<1>6. ASSUME NEW t \in PriorityEnabled(net, m)
      PROVE  /\ start[Execution(t)] >= 0
             /\ start[Execution(t)] + stay = h[t]
             /\ h[t] <= Latest(net, t)
             /\ h[t] < INF
  <2>1. t \in net.transitions /\ t \in StructEnabled(net, m)
    BY SchedulerSelects
  <2>2. Execution(t) \in ClockVars(net, m) /\ Execution(t) \in Running(net, m)
    BY <1>2, <2>1, KindsOfClocks DEF Running
  <2>3. start[Execution(t)] = h[t] - stay
    BY <1>4, <2>1, <2>2 DEF EnteredAt
  <2>4. h[t] \in Nat /\ h[t] <= MaxClock /\ h[t] <= Latest(net, t)
    BY <1>2, <2>1
  <2>5. start[Execution(t)] >= 0
    BY <1>5, <2>2
  <2> HIDE DEF start
  <2> QED
    BY <1>3, <2>3, <2>4, <2>5, MaxClockAssumption, INFAssumption
<1> HIDE DEF start
<1>7. M!Satisfies(Delayed(net, m, start, stay), TimeElapse(net, class).zone)
  BY <1>1, <1>2, <1>3, <1>5, <1>6, ElapsingLosesNothing
<1> QED
  BY <1>1, <1>5, <1>6, <1>7 DEF start

(* What a run can fire can leave its vertex, and the clock values after    *)
(* the firing are in the class the engine computes.                        *)
LEMMA RunCanLeave ==
  ASSUME WalkInv, NEW t \in net.transitions, Run!IsFirable(t)
  PROVE  LET next == NextClass(<<net, extrapolation>>, vertices[at], t)
             after == FireMarking(marking, net, t)
         IN  /\ t \in PriorityEnabled(net, marking)
             /\ Earliest(net, t) <= h[t]
             /\ t \in LeavingClass(<<net, extrapolation>>, vertices[at])
             /\ IsZoneClass(net, next) /\ next.marking = after
             /\ M!Satisfies(Carried(net, Valuation, marking, after, t), next.zone)
<1> DEFINE class == vertices[at]
           elapsed == TimeElapse(net, class)
           after == FireMarking(marking, net, t)
           carried == Carried(net, Valuation, marking, after, t)
           successor == Successor(net, elapsed, t)
<1>1. t \in PriorityEnabled(net, marking) /\ Earliest(net, t) <= h[t]
  BY SameNets DEF Run!IsFirable, Run!Active
<1>2. /\ IsNet(net) /\ IsZoneClass(net, class) /\ class.marking = marking
      /\ M!Satisfies(Valuation, elapsed.zone)
  BY RunIsElapsed, RunIsBounded DEF WalkInv, RunInVertex
<1>3. IsZoneClass(net, elapsed) /\ elapsed.marking = marking
  BY <1>2, ElapsedClass
<1>4. /\ Valuation \in Points(ClockVars(net, marking))
      /\ \A i \in ClockVars(net, marking) : Valuation[i] >= 0
      /\ Earliest(net, t) <= Valuation[Execution(t)]
  BY <1>1, ValuationIsPoint, SchedulerSelects DEF WalkInv
<1> HIDE DEF elapsed
<1>5. /\ CanFire(net, elapsed, t)
      /\ successor.marking = after
      /\ M!Satisfies(carried, successor.zone)
  BY <1>1, <1>2, <1>3, <1>4, FiringLosesNothing
<1>6. IsZoneClass(net, successor)
  BY <1>1, <1>2, <1>3, SuccessorIsClass
<1>7. NextClass(<<net, extrapolation>>, class, t) = NormalIn(net, extrapolation, successor)
  BY DEF NextClass, elapsed
<1>8. t \in LeavingClass(<<net, extrapolation>>, class)
  BY <1>5 DEF LeavingClass, elapsed
<1>9. carried \in Points(ClockVars(net, after))
  <2>1. \A i \in ClockVars(net, marking) : Valuation[i] \in Int
    BY <1>4 DEF Points
  <2>2. t # -1
    BY <1>2 DEF IsNet
  <2>3. X0 \in ClockVars(net, after) /\ X0 \in SurvivingClocks(net, marking, after, t)
    BY <1>2, <2>2, KindsOfClocks DEF SurvivingClocks
  <2>4. Valuation[X0] = 0
    BY <1>4 DEF Points
  <2>5. carried[X0] = 0
    BY <2>3, <2>4 DEF Carried
  <2>6. carried \in [ClockVars(net, after) -> Int]
    BY <2>1 DEF Carried, SurvivingClocks
  <2> QED
    BY <2>5, <2>6 DEF Points
<1> HIDE DEF successor, carried
<1>10. /\ IsZoneClass(net, NormalIn(net, extrapolation, successor))
       /\ NormalIn(net, extrapolation, successor).marking = after
       /\ M!Satisfies(carried, NormalIn(net, extrapolation, successor).zone)
  BY <1>2, <1>5, <1>6, <1>9, NormalClass
<1> QED
  BY <1>1, <1>7, <1>8, <1>10 DEF carried

-----------------------------------------------------------------------------
LEMMA WalkStarts == WalkInit => WalkInv
<1> SUFFICES ASSUME WalkInit PROVE WalkInv
  OBVIOUS
<1>1. GraphInv /\ Runs!IInv
  BY InitGraphInv, RunStarts DEF WalkInit
<1> DEFINE first == InitialClass(net)
           zero == [i \in ClockVars(net, net.M0) |-> 0]
<1>2. IsNet(net) /\ at = 1 /\ stay = 0
  BY <1>1, RunIsBounded DEF WalkInit
<1>3. /\ DOMAIN vertices = {1}
      /\ vertices[1] = NormalIn(net, extrapolation, first)
  BY DEF WalkInit, Init, Normalised
<1>4. /\ marking = net.M0
      /\ \A t \in net.transitions : h[t] = 0 /\ w[t] = 0
  BY DEF WalkInit, Run!Init
<1>5. zero \in Points(ClockVars(net, net.M0))
  BY <1>2, KindsOfClocks DEF Points
<1> HIDE DEF first
<1>6. /\ vertices[1].marking = net.M0
      /\ M!Satisfies(zero, vertices[1].zone)
  <2>1. /\ IsZoneClass(net, first) /\ first.marking = net.M0
        /\ M!Satisfies(zero, first.zone)
    BY <1>2, InitialClassContains DEF first
  <2> HIDE DEF zero
  <2> QED
    BY <1>2, <1>3, <1>5, <2>1, NormalClass
<1>7. \A i \in ClockVars(net, marking) : Valuation[i] = 0
  <2>1. /\ Valuation[X0] = 0
        /\ \A t \in StructEnabled(net, marking) : Valuation[Execution(t)] = h[t]
        /\ \A t \in Suspended(net, marking) : Valuation[Suspension(t)] = w[t]
    BY <1>2, ValuationIs, ClockValuesAre
  <2> QED
    BY <1>2, <1>4, <2>1, KindsOfClocks, SchedulerSelects
<1>8. EnteredAt(net, marking, Valuation, stay) = zero
  BY <1>2, <1>4, <1>7 DEF EnteredAt
<1>9. \A i \in Running(net, marking) : stay <= Valuation[i]
  BY <1>2, <1>7, KindsOfClocks
<1>10. RunInVertex
  BY <1>2, <1>3, <1>4, <1>6, <1>8, <1>9, MaxClockAssumption DEF RunInVertex
<1> QED
  BY <1>1, <1>10 DEF WalkInv

(* build only adds vertices behind the one the run is in.                  *)
LEMMA BuildKeepsWalk == WalkInv /\ BuildStep => WalkInv'
<1> SUFFICES ASSUME WalkInv, BuildStep PROVE WalkInv'
  OBVIOUS
<1>1. GraphInv'
  BY BuildGraphInv DEF BuildStep, WalkInv
<1>2. UNCHANGED <<net, marking, h, w, overflow, at, stay>>
  BY DEF BuildStep, Build, input, runVars
<1>3. Runs!IInv'
  BY <1>2, RunStands DEF WalkInv, runVars
<1>4. at \in DOMAIN vertices' /\ vertices'[at] = vertices[at]
  <2>1. CASE Discover
    BY <2>1, DiscoveredVertex DEF WalkInv, GraphInv, IInv, RunInVertex
  <2>2. CASE StopAtLimit \/ BeginVertex \/ NextLevel \/ Finish \/ EndVertex
    BY <2>2
       DEF StopAtLimit, BeginVertex, NextLevel, Finish, EndVertex, WalkInv,
           RunInVertex
  <2>3. CASE SkipTransition \/ Merge \/ DropSuccessor
    BY <2>3 DEF SkipTransition, Merge, DropSuccessor, WalkInv, RunInVertex
  <2> QED
    BY <2>1, <2>2, <2>3 DEF BuildStep, Build, LoopStep, Expand
<1>5. Valuation' = Valuation
  BY <1>2, ValuationIs
<1>6. RunInVertex'
  BY <1>2, <1>4, <1>5 DEF WalkInv, RunInVertex
<1> QED
  BY <1>1, <1>3, <1>6 DEF WalkInv

LEMMA WalkStands == WalkInv /\ UNCHANGED allVars => WalkInv'
<1> SUFFICES ASSUME WalkInv, UNCHANGED allVars PROVE WalkInv'
  OBVIOUS
<1>1. UNCHANGED vars /\ UNCHANGED <<net, runVars>>
  BY DEF allVars, vars, input
<1>2. UNCHANGED <<net, marking, h, w, at, stay, vertices>>
  BY DEF allVars, vars, input, runVars
<1>3. GraphInv' /\ Runs!IInv'
  BY <1>1, GraphInvStands, RunStands DEF WalkInv
<1>4. Valuation' = Valuation
  BY <1>2, ValuationIs
<1>5. RunInVertex'
  BY <1>2, <1>4 DEF WalkInv, RunInVertex
<1> QED
  BY <1>3, <1>5 DEF WalkInv

(* While time passes the run stays where it entered: what runs advances    *)
(* with the stay, and the stay stops only when nothing runs.               *)
LEMMA WalkElapses == WalkInv /\ WalkElapse => WalkInv'
<1> SUFFICES ASSUME WalkInv, WalkElapse PROVE WalkInv'
  OBVIOUS
<1> DEFINE X == ClockVars(net, marking)
           active == PriorityEnabled(net, marking)
           stopped == Suspended(net, marking)
           running == Running(net, marking)
<1>1. /\ UNCHANGED <<vars, at, net, marking, vertices>>
      /\ stay' = IF stay < MaxClock THEN stay + 1 ELSE stay
  BY DEF WalkElapse, Run!Elapse, vars
<1>2. GraphInv' /\ Runs!IInv'
  BY <1>1, GraphInvStands, RunElapses DEF WalkInv, WalkElapse
<1>3. /\ \A t \in net.transitions : h'[t] = IF t \in active THEN h[t] + 1 ELSE h[t]
      /\ \A t \in net.transitions : w'[t] = IF t \in stopped THEN w[t] + 1 ELSE w[t]
      /\ \A t \in active : h[t] < MaxClock
      /\ \A t \in stopped : w[t] < MaxClock
  BY SameNets
     DEF WalkElapse, Run!Elapse, Run!Advanced, Run!CanElapse,
         Run!WithinBound, Run!Active, Run!Stopped
<1>4. /\ IsNet(net) /\ MaxClock \in Nat /\ stay \in 0 .. MaxClock
      /\ \A t \in net.transitions : h[t] \in Nat /\ w[t] \in Nat
      /\ \A i \in running : stay <= Valuation[i]
      /\ Valuation \in Points(X)
      /\ at \in DOMAIN vertices /\ marking = vertices[at].marking
      /\ M!Satisfies(EnteredAt(net, marking, Valuation, stay), vertices[at].zone)
  BY RunIsBounded, ValuationIsPoint, MaxClockAssumption DEF WalkInv, RunInVertex
<1>5. /\ Valuation[X0] = 0
      /\ \A t \in StructEnabled(net, marking) : Valuation[Execution(t)] = h[t]
      /\ \A t \in stopped : Valuation[Suspension(t)] = w[t]
      /\ Valuation'[X0] = 0
      /\ \A t \in StructEnabled(net, marking) : Valuation'[Execution(t)] = h'[t]
      /\ \A t \in stopped : Valuation'[Suspension(t)] = w'[t]
  BY <1>1, <1>4, ValuationIs, ClockValuesAre
<1>6. /\ active \subseteq StructEnabled(net, marking)
      /\ StructEnabled(net, marking) \subseteq net.transitions
      /\ stopped \subseteq net.transitions
  BY SchedulerSelects
<1> HIDE DEF active, stopped, running, X
<1>7. /\ X0 \in X /\ X0 \notin running
      /\ \A t \in StructEnabled(net, marking) :
           Execution(t) \in running <=> t \in active
      /\ \A t \in stopped : Suspension(t) \in running
      /\ \A i \in X :
           \/ i = X0
           \/ \E t \in StructEnabled(net, marking) : i = Execution(t)
           \/ \E t \in stopped : i = Suspension(t)
      /\ running \subseteq X
  BY <1>4, KindsOfClocks DEF running, active, stopped, X, Running, SuspClocks
<1>8. \A i \in X :
        Valuation'[i] = IF i \in running THEN Valuation[i] + 1 ELSE Valuation[i]
  BY <1>3, <1>5, <1>6, <1>7
<1>9. ASSUME NEW i \in running
      PROVE  stay < MaxClock
  <2>1. CASE i = X0
    BY <1>7, <2>1
  <2>2. ASSUME NEW t \in StructEnabled(net, marking), i = Execution(t)
        PROVE  stay < MaxClock
    BY <1>3, <1>4, <1>5, <1>6, <1>7, <2>2
  <2>3. ASSUME NEW t \in stopped, i = Suspension(t)
        PROVE  stay < MaxClock
    BY <1>3, <1>4, <1>5, <1>6, <2>3
  <2> QED
    BY <1>7, <2>1, <2>2, <2>3
<1>10. stay' \in 0 .. MaxClock
  BY <1>1, <1>4
<1>11. \A i \in X : Valuation[i] \in Int
  BY <1>4 DEF Points
<1>12. \A i \in running : stay' <= Valuation'[i]
  BY <1>1, <1>4, <1>7, <1>8, <1>9, <1>11
<1>13. \A i \in X :
         (IF i \in running THEN Valuation'[i] - stay' ELSE Valuation'[i])
           = IF i \in running THEN Valuation[i] - stay ELSE Valuation[i]
  BY <1>1, <1>4, <1>8, <1>9, <1>11
<1>14. EnteredAt(net, marking, Valuation', stay')
         = EnteredAt(net, marking, Valuation, stay)
  BY <1>13 DEF EnteredAt, X, running
<1>15. RunInVertex'
  BY <1>1, <1>4, <1>10, <1>12, <1>14 DEF RunInVertex, running
<1> QED
  BY <1>2, <1>15 DEF WalkInv

(* A firing leads to the vertex its successor is, or was merged into.      *)
LEMMA WalkFires ==
  ASSUME NEW t \in net.transitions
  PROVE  WalkInv /\ WalkFire(t) => WalkInv'
<1> SUFFICES ASSUME WalkInv, WalkFire(t) PROVE WalkInv'
  OBVIOUS
<1> DEFINE after == FireMarking(marking, net, t)
           next == NextClass(<<net, extrapolation>>, vertices[at], t)
           carried == Carried(net, Valuation, marking, after, t)
<1>1. /\ UNCHANGED vars /\ UNCHANGED <<net, vertices, edges>>
      /\ stay' = 0
      /\ Run!IsFirable(t)
      /\ marking' = after
  BY SameNets DEF WalkFire, Run!Fire, Run!After, vars
<1>2. GraphInv' /\ Runs!IInv'
  BY <1>1, GraphInvStands, RunFires DEF WalkInv, WalkFire
<1>3. PICK e \in edges : e.src = at /\ e.t = t /\ at' = e.dst
  BY DEF WalkFire, EdgesFor
<1>4. /\ IsZoneClass(net, next) /\ next.marking = after
      /\ M!Satisfies(carried, next.zone)
  BY <1>1, RunCanLeave
<1>5. IsNet(net)
  BY RunIsBounded DEF WalkInv
<1>6. carried = Valuation'
  <2>1. \A s \in StructEnabled(net, after) :
          h'[s] = IF s # t /\ s \in StructEnabled(net, marking) THEN h[s] ELSE 0
    BY SameNets, SchedulerSelects
       DEF WalkFire, Run!Fire, Run!ExecutionAfter, Run!Surviving, Run!After,
           Run!Enabled
  <2>2. \A s \in Suspended(net, after) :
          w'[s] = IF s # t /\ s \in Suspended(net, marking) THEN w[s] ELSE 0
    BY SameNets, SchedulerSelects
       DEF WalkFire, Run!Fire, Run!SuspensionAfter, Run!Surviving,
           Run!After, Run!Stopped
  <2> QED
    BY <1>1, <1>5, <2>1, <2>2, CarriedIsFired, ValuationIs
<1>7. /\ e.dst \in DOMAIN vertices
      /\ IsZoneClass(net, vertices[e.dst])
      /\ next = vertices[e.dst] \/ CanMergeInto(next, vertices[e.dst], mode)
  BY <1>3
     DEF WalkInv, GraphInv, EdgesLead, Leads, VerticesAreClasses, IInv,
         BuildTypeOK
<1>8. /\ Valuation' \in Points(ClockVars(net, after))
      /\ \A i \in ClockVars(net, after) : Valuation'[i] >= 0
  <2>1. \A s \in net.transitions : h'[s] \in Nat /\ w'[s] \in Nat
    BY <1>1, <1>2 DEF Runs!IInv, Runs!TypeOK
  <2> QED
    BY <1>1, <1>5, <2>1, ValuationIs, ClockValuesArePoints
<1> HIDE DEF next, carried
<1>9. after = vertices[e.dst].marking /\ M!Satisfies(Valuation', vertices[e.dst].zone)
  BY <1>4, <1>6, <1>7, <1>8, MergingLosesNothing
<1>10. EnteredAt(net, after, Valuation', 0) = Valuation'
  BY <1>8 DEF EnteredAt, Points
<1>11. \A i \in Running(net, after) : 0 <= Valuation'[i]
  BY <1>5, <1>8, KindsOfClocks
<1>12. RunInVertex'
  BY <1>1, <1>3, <1>7, <1>9, <1>10, <1>11, MaxClockAssumption DEF RunInVertex
<1> QED
  BY <1>2, <1>12 DEF WalkInv

(* The inductive invariant, which the two theorems below follow from.      *)
THEOREM WalkInvariance == WalkSpec => []WalkInv
<1>1. WalkInv /\ [WalkNext]_allVars => WalkInv'
  BY BuildKeepsWalk, WalkElapses, WalkFires, WalkStands DEF WalkNext
<1> QED
  BY WalkStarts, <1>1, PTL DEF WalkSpec

-----------------------------------------------------------------------------
(* Every run of the net is inside the elapsed zone of the vertex it is in, *)
(* and inside the vertex's own zone when it enters, in every merging mode, *)
(* with and without extrapolation, for runs of every length.               *)
THEOREM RunsStayInTheirClass == WalkSpec => []RunIsInClass
<1>1. WalkInv => RunIsInClass
  <2> SUFFICES ASSUME WalkInv PROVE RunIsInClass
    OBVIOUS
  <2>1. /\ marking = vertices[at].marking
        /\ M!Satisfies(Valuation, TimeElapse(net, vertices[at]).zone)
    BY RunIsElapsed DEF WalkInv, RunInVertex
  <2>2. stay = 0 => M!Satisfies(Valuation, vertices[at].zone)
    <3> SUFFICES ASSUME stay = 0
                 PROVE  M!Satisfies(Valuation, vertices[at].zone)
      OBVIOUS
    <3>1. Valuation \in Points(ClockVars(net, marking))
      BY ValuationIsPoint DEF WalkInv
    <3>2. EnteredAt(net, marking, Valuation, 0) = Valuation
      <4>1. /\ \A i \in ClockVars(net, marking) : Valuation[i] \in Int
            /\ Valuation = [i \in ClockVars(net, marking) |-> Valuation[i]]
        BY <3>1 DEF Points
      <4> QED
        BY <4>1 DEF EnteredAt
    <3> QED
      BY <3>2 DEF WalkInv, RunInVertex
  <2> QED
    BY <2>1, <2>2 DEF RunIsInClass
<1> QED
  BY <1>1, WalkInvariance, PTL

(* Whatever a run can fire is an edge of the vertex it is in, its clock is *)
(* in the edge's firing window and the time since the run entered the      *)
(* vertex is in the dwell window: the graph misses no behaviour of the net *)
(* and the metrics add up windows that every run respects.                 *)
THEOREM RunsFollowEdges == WalkSpec => []FiringIsAnEdge
<1>1. WalkInv => FiringIsAnEdge
  <2> SUFFICES ASSUME WalkInv, Complete, NEW t \in net.transitions, Run!IsFirable(t)
               PROVE  \E e \in EdgesFor(t) :
                        /\ e.firing_min <= h[t] /\ h[t] <= e.firing_max
                        /\ e.dwell_min <= stay /\ stay <= e.dwell_max
    BY DEF FiringIsAnEdge
  <2> DEFINE class == vertices[at]
             start == EnteredAt(net, marking, Valuation, stay)
  <2>1. /\ t \in PriorityEnabled(net, marking)
        /\ Earliest(net, t) <= h[t]
        /\ t \in LeavingClass(<<net, extrapolation>>, class)
    BY RunCanLeave
  <2>2. at \in DOMAIN vertices /\ class.marking = marking /\ stay \in Nat /\ IsNet(net)
    BY RunIsBounded, MaxClockAssumption DEF WalkInv, RunInVertex
  <2>3. PICK e \in edges : e.src = at /\ e.t = t
    BY <2>1, <2>2, CompleteGraphs DEF WalkInv
  <2>4. HasWindow(net, class, e)
    BY <2>3 DEF WalkInv, GraphInv, EdgesLead, Leads
  <2>5. /\ IsZoneClass(net, class)
        /\ start \in Points(ClockVars(net, marking))
        /\ M!Satisfies(start, class.zone)
        /\ Delayed(net, marking, start, stay) = Valuation
        /\ start[Execution(t)] >= 0
        /\ start[Execution(t)] + stay = h[t]
        /\ h[t] <= Latest(net, t)
        /\ h[t] < INF
        /\ M!Satisfies(Valuation, TimeElapse(net, class).zone)
    BY <2>1, <2>2, RunIsElapsed
  <2> HIDE DEF start, class
  <2>6. /\ e.firing_min <= start[Execution(t)] + stay
        /\ start[Execution(t)] + stay <= e.firing_max
        /\ e.dwell_min <= stay
        /\ stay <= e.dwell_max
    BY <2>1, <2>2, <2>3, <2>4, <2>5, WindowContains
  <2> QED
    BY <2>3, <2>5, <2>6 DEF EdgesFor
<1> QED
  BY <1>1, WalkInvariance, PTL
=============================================================================
