-------------------------- MODULE TimedRun_proofs --------------------------
(***************************************************************************)
(* What filter_priority_per_core guarantees for every net and marking, and *)
(* theorems about every timed run of every well-formed net, whatever the   *)
(* number of places, transitions and cores, the intervals and the          *)
(* priorities, and without a bound on the length of the run.               *)
(*                                                                         *)
(* The proofs about the filter need that a finite group has a first and a  *)
(* last member in the sort order; it comes from the well-ordering of the   *)
(* naturals, applied to the number of members that are ahead.              *)
(***************************************************************************)
EXTENDS TimedRun, FiniteSetTheorems, WellFoundedInduction, TLAPS

-----------------------------------------------------------------------------
LEMMA LeastNatural ==
  ASSUME NEW S \in SUBSET Nat, S # {}
  PROVE  \E x \in S : \A y \in S : x <= y
<1> DEFINE R == OpToRel(<, Nat)
<1>1. \E x \in S : \A y \in S : ~ (<<y, x>> \in R)
  <2> HIDE DEF R
  <2>1. IsWellFoundedOn(R, Nat)
    BY NatLessThanWellFounded DEF R
  <2> QED
    BY <2>1, WFMin, Zenon
<1>2. \A x, y \in S : <<y, x>> \in R <=> y < x
  BY DEF OpToRel
<1> HIDE DEF R
<1>3. PICK x \in S : \A y \in S : ~ (<<y, x>> \in R)
  BY <1>1
<1>4. \A y \in S : x <= y
  <2> TAKE y \in S
  <2>1. ~ (y < x)
    BY <1>2, <1>3
  <2>2. x \in Nat /\ y \in Nat
    OBVIOUS
  <2> QED
    BY <2>1, <2>2
<1> QED
  BY <1>4

(* The effective endpoints of a valid interval are machine integers in     *)
(* order, whether the interval is open or closed.                          *)
LEMMA IntervalBounds ==
  ASSUME NEW n, IsNet(n), NEW t \in n.transitions
  PROVE  /\ Earliest(n, t) \in Nat /\ Earliest(n, t) <= INF
         /\ Latest(n, t) \in Nat /\ Latest(n, t) <= INF
         /\ Latest(n, t) = INF \/ Earliest(n, t) <= Latest(n, t)
<1>1. IsInterval(n.interval[t])
  BY DEF IsNet
<1> QED
  BY <1>1, INFAssumption
     DEF IsInterval, Earliest, Latest, EffectiveEarliest, EffectiveLatest

(* The sort order of a core group is a strict total order.                 *)
LEMMA PrecedesIsTotalOrder ==
  ASSUME NEW n, IsNet(n),
         NEW s \in n.transitions, NEW t \in n.transitions,
         NEW u \in n.transitions
  PROVE  /\ ~ Precedes(n, t, t)
         /\ Precedes(n, s, t) /\ Precedes(n, t, u) => Precedes(n, s, u)
         /\ s = t \/ Precedes(n, s, t) \/ Precedes(n, t, s)
<1>1. /\ s \in Nat /\ t \in Nat /\ u \in Nat
      /\ n.priority[s] \in Int /\ n.priority[t] \in Int /\ n.priority[u] \in Int
  BY DEF IsNet
<1> QED
  BY <1>1 DEF Precedes

(* A finite group has a member that no other precedes.                     *)
LEMMA FirstExists ==
  ASSUME NEW n, IsNet(n), NEW G \in SUBSET n.transitions, G # {}
  PROVE  \E t \in G : \A u \in G : ~ Precedes(n, u, t)
<1> DEFINE Ahead(t) == {u \in G : Precedes(n, u, t)}
           Counts == {Cardinality(Ahead(t)) : t \in G}
<1>1. IsFiniteSet(G)
  BY FS_Subset DEF IsNet
<1>2. \A t \in G : IsFiniteSet(Ahead(t)) /\ Cardinality(Ahead(t)) \in Nat
  <2> TAKE t \in G
  <2>1. IsFiniteSet(Ahead(t))
    BY <1>1, FS_Subset, Ahead(t) \in SUBSET G
  <2> QED
    BY <2>1, FS_CardinalityType
<1>3. PICK t \in G : \A u \in G : Cardinality(Ahead(t)) <= Cardinality(Ahead(u))
  <2>1. Counts \in SUBSET Nat /\ Counts # {}
    BY <1>2
  <2>2. PICK c \in Counts : \A d \in Counts : c <= d
    BY <2>1, LeastNatural
  <2> QED
    BY <2>2
<1>4. \A u \in G : ~ Precedes(n, u, t)
  <2> SUFFICES ASSUME NEW u \in G, Precedes(n, u, t) PROVE FALSE
    OBVIOUS
  <2>1. Ahead(u) \subseteq Ahead(t)
    BY PrecedesIsTotalOrder
  <2>2. u \in Ahead(t) /\ u \notin Ahead(u)
    BY PrecedesIsTotalOrder
  <2>3. /\ Cardinality(Ahead(u)) <= Cardinality(Ahead(t))
        /\ Cardinality(Ahead(u)) # Cardinality(Ahead(t))
    BY <1>2, <2>1, <2>2, FS_Subset, Ahead(u) \in SUBSET Ahead(t)
  <2> QED
    BY <1>2, <1>3, <2>3
<1> QED
  BY <1>4

(* And one that every other precedes.                                      *)
LEMMA LastExists ==
  ASSUME NEW n, IsNet(n), NEW G \in SUBSET n.transitions, G # {}
  PROVE  \E t \in G : \A u \in G : u = t \/ Precedes(n, u, t)
<1> DEFINE Behind(t) == {u \in G : Precedes(n, t, u)}
           Counts == {Cardinality(Behind(t)) : t \in G}
<1>1. IsFiniteSet(G)
  BY FS_Subset DEF IsNet
<1>2. \A t \in G : IsFiniteSet(Behind(t)) /\ Cardinality(Behind(t)) \in Nat
  <2> TAKE t \in G
  <2>1. IsFiniteSet(Behind(t))
    BY <1>1, FS_Subset, Behind(t) \in SUBSET G
  <2> QED
    BY <2>1, FS_CardinalityType
<1>3. PICK t \in G : \A u \in G : Cardinality(Behind(t)) <= Cardinality(Behind(u))
  <2>1. Counts \in SUBSET Nat /\ Counts # {}
    BY <1>2
  <2>2. PICK c \in Counts : \A d \in Counts : c <= d
    BY <2>1, LeastNatural
  <2> QED
    BY <2>2
<1>4. \A u \in G : ~ Precedes(n, t, u)
  <2> SUFFICES ASSUME NEW u \in G, Precedes(n, t, u) PROVE FALSE
    OBVIOUS
  <2>1. Behind(u) \subseteq Behind(t)
    BY PrecedesIsTotalOrder
  <2>2. u \in Behind(t) /\ u \notin Behind(u)
    BY PrecedesIsTotalOrder
  <2>3. /\ Cardinality(Behind(u)) <= Cardinality(Behind(t))
        /\ Cardinality(Behind(u)) # Cardinality(Behind(t))
    BY <1>2, <2>1, <2>2, FS_Subset, Behind(u) \in SUBSET Behind(t)
  <2> QED
    BY <1>2, <1>3, <2>3
<1> QED
  BY <1>4, PrecedesIsTotalOrder

-----------------------------------------------------------------------------
(* The scheduler only selects: active and suspended transitions are        *)
(* enabled, and none is both.                                              *)
LEMMA SchedulerSelects ==
  ASSUME NEW n, NEW m
  PROVE  /\ StructEnabled(n, m) \subseteq n.transitions
         /\ PriorityEnabled(n, m) \subseteq StructEnabled(n, m)
         /\ Suspended(n, m) \subseteq StructEnabled(n, m)
         /\ PriorityEnabled(n, m) \cap Suspended(n, m) = {}
BY DEF StructEnabled, PriorityEnabled, FilterPriorityPerCore, Suspended

(* The sort-and-resize of scheduling.cpp keeps at most K transitions of a  *)
(* core whose parallelism is bounded by K, however many are enabled and    *)
(* however their priorities tie.                                           *)
THEOREM ParallelismBound ==
  ASSUME NEW n, IsNet(n), NEW m,
         NEW t \in PriorityEnabled(n, m),
         ParallelismOfCore(n, n.core[t]) > 0
  PROVE  Cardinality(CoreGroup(n, PriorityEnabled(n, m), t))
           <= ParallelismOfCore(n, n.core[t])
<1> DEFINE K == ParallelismOfCore(n, n.core[t])
           E == StructEnabled(n, m)
           A == CoreGroup(n, PriorityEnabled(n, m), t)
<1>1. A \in SUBSET n.transitions /\ t \in A /\ A \subseteq E
  BY SchedulerSelects DEF CoreGroup
<1>2. PICK last \in A : \A u \in A : u = last \/ Precedes(n, u, last)
  BY <1>1, LastExists
<1> DEFINE Ahead == {u \in CoreGroup(n, E, last) : Precedes(n, u, last)}
<1>3. n.core[last] = n.core[t] /\ last \in PriorityEnabled(n, m)
  BY DEF CoreGroup
<1>4. K \in Int
  BY <1>1 DEF ParallelismOfCore, IsNet
<1>5. Cardinality(Ahead) < K
  BY <1>3, <1>4
     DEF PriorityEnabled, FilterPriorityPerCore, KeptInBoundedGroup
<1>6. A \ {last} \in SUBSET Ahead
  BY <1>1, <1>2, <1>3 DEF CoreGroup
<1>7. IsFiniteSet(Ahead) /\ IsFiniteSet(A)
  <2>1. Ahead \in SUBSET n.transitions /\ A \in SUBSET n.transitions
    BY <1>1, SchedulerSelects DEF CoreGroup
  <2> QED
    BY <2>1, FS_Subset DEF IsNet
<1>8. /\ Cardinality(A \ {last}) <= Cardinality(Ahead)
      /\ Cardinality(A \ {last}) = Cardinality(A) - 1
  BY <1>6, <1>7, FS_Subset, FS_RemoveElement
<1>9. Cardinality(A) \in Nat /\ Cardinality(Ahead) \in Nat
  BY <1>7, FS_CardinalityType
<1> QED
  BY <1>4, <1>5, <1>8, <1>9

(* No core idles, or runs something less important, while a transition of  *)
(* it is enabled.                                                          *)
THEOREM MostImportantRuns ==
  ASSUME NEW n, IsNet(n), NEW m, NEW t \in StructEnabled(n, m)
  PROVE  \E u \in PriorityEnabled(n, m) :
           /\ n.core[u] = n.core[t]
           /\ \A v \in CoreGroup(n, StructEnabled(n, m), t) :
                n.priority[v] <= n.priority[u]
<1> DEFINE G == CoreGroup(n, StructEnabled(n, m), t)
<1>1. G \in SUBSET n.transitions /\ t \in G
  BY SchedulerSelects DEF CoreGroup
<1>2. PICK u \in G : \A v \in G : ~ Precedes(n, v, u)
  BY <1>1, FirstExists
<1>3. /\ u \in StructEnabled(n, m) /\ n.core[u] = n.core[t]
      /\ CoreGroup(n, StructEnabled(n, m), u) = G
  BY DEF CoreGroup
<1>4. \A v \in G : n.priority[v] <= n.priority[u]
  <2> TAKE v \in G
  <2>1. n.priority[v] \in Int /\ n.priority[u] \in Int
    BY <1>1 DEF IsNet
  <2> QED
    BY <1>2, <2>1 DEF Precedes
<1>5. KeptInUnboundedGroup(n, StructEnabled(n, m), u)
  BY <1>3, <1>4 DEF KeptInUnboundedGroup
<1>6. ASSUME ~ ParallelismOfCore(n, n.core[u]) <= 0
      PROVE  KeptInBoundedGroup(n, StructEnabled(n, m), u)
  <2>1. {v \in G : Precedes(n, v, u)} = {}
    BY <1>2
  <2>2. ParallelismOfCore(n, n.core[u]) \in Int
    BY <1>1 DEF ParallelismOfCore, IsNet
  <2> QED
    BY <1>3, <1>6, <2>1, <2>2, FS_EmptySet DEF KeptInBoundedGroup
<1>7. u \in PriorityEnabled(n, m)
  BY <1>3, <1>5, <1>6 DEF PriorityEnabled, FilterPriorityPerCore
<1> QED
  BY <1>3, <1>4, <1>7

-----------------------------------------------------------------------------
(* Firing an enabled transition never takes a place below zero, with or    *)
(* without clamping to a capacity.                                         *)
LEMMA FiringKeepsTokens ==
  ASSUME NEW n, IsNet(n),
         NEW m \in [n.places -> Nat],
         NEW t \in n.transitions, IsEnabled(m, n, t)
  PROVE  FireMarking(m, n, t) \in [n.places -> Nat]
<1> SUFFICES ASSUME NEW p \in n.places
             PROVE  FireMarking(m, n, t)[p] \in Nat
  BY DEF FireMarking
<1>1. /\ m[p] \in Nat
      /\ n.Pre[p][t] \in Nat
      /\ n.Post[t][p] \in Nat
      /\ n.capacity[p] \in Nat
  BY DEF IsNet
<1>2. m[p] >= n.Pre[p][t]
  BY DEF IsEnabled
<1>3. Produced(m, n, t, p) \in Nat
  BY <1>1, <1>2 DEF Produced
<1> QED
  BY <1>1, <1>3 DEF FireMarking

-----------------------------------------------------------------------------
(* The inductive invariant: the clocks of a run are within their latest    *)
(* times and within the bound, and those without a variable are zero.      *)
ClocksBounded == \A t \in net.transitions : h[t] <= MaxClock

IInv == TypeOK /\ WithinLatest /\ NoStaleClock /\ ClocksBounded

LEMMA NetIsWellFormed == TypeOK => IsNet(net)
BY NetsAssumption DEF TypeOK

LEMMA InitIInv == Init => IInv
<1> SUFFICES ASSUME Init PROVE IInv
  OBVIOUS
<1>1. IsNet(net)
  BY NetsAssumption DEF Init
<1>2. TypeOK
  BY <1>1 DEF Init, TypeOK, IsNet
<1>3. WithinLatest
  BY <1>1, IntervalBounds, SchedulerSelects DEF Init, WithinLatest, Enabled
<1>4. NoStaleClock
  BY DEF Init, NoStaleClock
<1>5. ClocksBounded
  BY NetsAssumption DEF Init, ClocksBounded
<1> QED
  BY <1>2, <1>3, <1>4, <1>5 DEF IInv

LEMMA ElapseIInv == IInv /\ Elapse => IInv'
<1> SUFFICES ASSUME IInv, Elapse PROVE IInv'
  OBVIOUS
<1> USE DEF IInv
<1>1. /\ Enabled' = Enabled /\ Active' = Active /\ Stopped' = Stopped
      /\ net' = net /\ marking' = marking /\ overflow' = overflow
  BY DEF Elapse, Enabled, Active, Stopped
<1>2. /\ Enabled \subseteq net.transitions
      /\ Active \subseteq Enabled /\ Stopped \subseteq Enabled
  BY SchedulerSelects DEF Enabled, Active, Stopped
<1>3. /\ \A t \in net.transitions :
            h'[t] = IF t \in Active THEN h[t] + 1 ELSE h[t]
      /\ \A t \in net.transitions :
            w'[t] = IF t \in Stopped THEN w[t] + 1 ELSE w[t]
  BY DEF Elapse, Advanced
<1>4. TypeOK'
  <2>1. h' \in [net.transitions -> Nat] /\ w' \in [net.transitions -> Nat]
    BY DEF Elapse, Advanced, TypeOK
  <2> QED
    BY <1>1, <2>1 DEF TypeOK
<1>5. WithinLatest'
  <2> SUFFICES ASSUME NEW t \in Enabled PROVE h'[t] <= Latest(net, t)
    BY <1>1 DEF WithinLatest
  <2>1. h[t] <= Latest(net, t)
    BY DEF WithinLatest
  <2>2. t \in Active => h[t] < Latest(net, t)
    BY DEF Elapse, CanElapse, MayElapse
  <2>3. h[t] \in Nat /\ Latest(net, t) \in Nat
    BY <1>2, NetIsWellFormed, IntervalBounds DEF TypeOK
  <2> QED
    BY <1>2, <1>3, <2>1, <2>2, <2>3
<1>6. NoStaleClock'
  BY <1>1, <1>2, <1>3 DEF NoStaleClock
<1>7. ClocksBounded'
  <2> SUFFICES ASSUME NEW t \in net.transitions PROVE h'[t] <= MaxClock
    BY <1>1 DEF ClocksBounded
  <2>1. h[t] \in Nat /\ h[t] <= MaxClock /\ MaxClock \in Nat
    BY NetsAssumption DEF TypeOK, ClocksBounded
  <2>2. t \in Active => h[t] < MaxClock
    BY DEF Elapse, CanElapse, WithinBound
  <2> QED
    BY <1>3, <2>1, <2>2
<1> QED
  BY <1>4, <1>5, <1>6, <1>7

LEMMA FireIInv ==
  ASSUME NEW t \in net.transitions
  PROVE  IInv /\ Fire(t) => IInv'
<1> SUFFICES ASSUME IInv, Fire(t) PROVE IInv'
  OBVIOUS
<1> USE DEF IInv
<1>1. /\ net' = net /\ marking' = After(t)
      /\ Enabled' = StructEnabled(net, After(t))
      /\ Stopped' = Suspended(net, After(t))
  BY DEF Fire, Enabled, Stopped
<1>2. /\ Enabled \subseteq net.transitions /\ Active \subseteq Enabled
      /\ Enabled' \subseteq net.transitions
  BY <1>1, SchedulerSelects DEF Enabled, Active
<1>3. /\ \A u \in net.transitions :
            h'[u] = IF u # t /\ u \in Enabled /\ u \in Enabled'
                    THEN h[u] ELSE 0
      /\ \A u \in net.transitions :
            w'[u] = IF u # t /\ u \in Stopped /\ u \in Stopped'
                    THEN w[u] ELSE 0
  BY <1>1 DEF Fire, ExecutionAfter, SuspensionAfter, Surviving
<1>4. TypeOK'
  <2>1. IsEnabled(marking, net, t)
    BY <1>2 DEF Fire, IsFirable, Enabled, StructEnabled
  <2>2. marking' \in [net.places -> Nat]
    BY <1>1, <2>1, NetIsWellFormed, FiringKeepsTokens DEF TypeOK, After
  <2>3. h' \in [net.transitions -> Nat] /\ w' \in [net.transitions -> Nat]
    BY DEF Fire, ExecutionAfter, SuspensionAfter, Surviving, TypeOK
  <2>4. overflow' \subseteq net.places
    BY DEF Fire, RecordedOverflow, TypeOK
  <2> QED
    BY <1>1, <2>2, <2>3, <2>4 DEF TypeOK
<1>5. WithinLatest'
  <2> SUFFICES ASSUME NEW u \in Enabled' PROVE h'[u] <= Latest(net, u)
    BY <1>1 DEF WithinLatest
  <2>1. u \in net.transitions /\ Latest(net, u) \in Nat
    BY <1>2, NetIsWellFormed, IntervalBounds
  <2>2. u \in Enabled => h[u] <= Latest(net, u)
    BY DEF WithinLatest
  <2> QED
    BY <1>3, <2>1, <2>2
<1>6. NoStaleClock'
  BY <1>1, <1>3 DEF NoStaleClock
<1>7. ClocksBounded'
  BY <1>1, <1>3, NetsAssumption DEF ClocksBounded
<1> QED
  BY <1>4, <1>5, <1>6, <1>7

LEMMA StutterIInv == IInv /\ UNCHANGED vars => IInv'
BY DEF IInv, vars, TypeOK, WithinLatest, NoStaleClock, ClocksBounded,
       Enabled, Stopped

(* The invariant all the others follow from.                               *)
THEOREM Invariance == Spec => []IInv
<1>1. IInv /\ [Next]_vars => IInv'
  BY ElapseIInv, FireIInv, StutterIInv DEF Next
<1> QED
  BY InitIInv, <1>1, PTL DEF Spec

-----------------------------------------------------------------------------
(* Tokens stay natural numbers and clocks non-negative along every run.    *)
THEOREM TypeCorrect == Spec => []TypeOK
BY Invariance, PTL DEF IInv

(* No enabled transition is ever past its latest firing time, however      *)
(* often it was preempted.                                                 *)
THEOREM DeadlinesHold == Spec => []WithinLatest
BY Invariance, PTL DEF IInv

(* A transition enabled again starts from zero.                            *)
THEOREM ClocksStartAtZero == Spec => []NoStaleClock
BY Invariance, PTL DEF IInv

-----------------------------------------------------------------------------
(* On a core whose parallelism is bounded by K, at most K transitions run; *)
(* with K = 1, the bound the resume policy registers for every real core,  *)
(* any two that run are the same.                                          *)
LEMMA BoundInEveryState ==
  IInv => CoreParallelismRespected /\ OneRunningPerCore
<1> SUFFICES ASSUME IInv PROVE CoreParallelismRespected /\ OneRunningPerCore
  OBVIOUS
<1>1. IsNet(net)
  BY NetIsWellFormed DEF IInv
<1>2. ASSUME NEW t \in Active, ParallelismOfCore(net, net.core[t]) > 0
      PROVE  Cardinality(CoreGroup(net, Active, t))
               <= ParallelismOfCore(net, net.core[t])
  BY <1>1, <1>2, ParallelismBound DEF Active
<1>3. OneRunningPerCore
  <2> SUFFICES ASSUME NEW t \in Active, NEW u \in Active, t # u,
                      net.core[t] = net.core[u],
                      ParallelismOfCore(net, net.core[t]) = 1
               PROVE  FALSE
    BY DEF OneRunningPerCore
  <2> DEFINE G == CoreGroup(net, Active, t)
  <2>1. G \in SUBSET net.transitions
    BY SchedulerSelects DEF CoreGroup, Active
  <2>2. IsFiniteSet(G)
    BY <1>1, <2>1, FS_Subset DEF IsNet
  <2>3. Cardinality(G) <= 1
    BY <1>2
  <2>4. {t, u} \in SUBSET G
    BY DEF CoreGroup
  <2>5. Cardinality({t, u}) <= Cardinality(G)
    BY <2>2, <2>4, FS_Subset
  <2>6. /\ IsFiniteSet({t}) /\ Cardinality({t}) = 1
        /\ {t} \cup {u} = {t, u} /\ u \notin {t}
    BY FS_Singleton
  <2>7. Cardinality({t, u}) = 2
    BY <2>6, FS_AddElement
  <2>8. Cardinality(G) \in Nat
    BY <2>2, FS_CardinalityType
  <2> QED
    BY <2>3, <2>5, <2>7, <2>8
<1> QED
  BY <1>2, <1>3 DEF CoreParallelismRespected

THEOREM ParallelismHolds == Spec => []CoreParallelismRespected
BY Invariance, BoundInEveryState, PTL

(* Mutual exclusion on a core of parallelism one.                          *)
THEOREM MutualExclusion == Spec => []OneRunningPerCore
BY Invariance, BoundInEveryState, PTL

(* A core with an enabled transition always runs one of maximal priority.  *)
THEOREM NeverIdle == Spec => []WorkConserving
<1>1. IInv => WorkConserving
  <2> SUFFICES ASSUME IInv PROVE WorkConserving
    OBVIOUS
  <2>1. IsNet(net)
    BY NetIsWellFormed DEF IInv
  <2> QED
    BY <2>1, MostImportantRuns DEF WorkConserving, Enabled, Active
<1> QED
  BY <1>1, Invariance, PTL

(* Time never gets stuck: the transition whose deadline blocks it can      *)
(* fire, because its earliest time is not past its latest one.             *)
THEOREM TimeProceeds == Spec => []NoTimelock
<1>1. IInv => NoTimelock
  <2> SUFFICES ASSUME IInv, NEW t \in Active, ~ (h[t] < Latest(net, t))
               PROVE  IsFirable(t)
    BY SchedulerSelects DEF NoTimelock, MayElapse, Active, Enabled
  <2>1. t \in net.transitions
    BY SchedulerSelects DEF Active
  <2>2. h[t] \in Nat /\ h[t] <= MaxClock /\ MaxClock \in Nat /\ MaxClock < INF
    BY <2>1, NetsAssumption DEF IInv, TypeOK, ClocksBounded
  <2>3. /\ Earliest(net, t) \in Nat /\ Latest(net, t) \in Nat
        /\ Latest(net, t) = INF \/ Earliest(net, t) <= Latest(net, t)
    BY <2>1, NetIsWellFormed, IntervalBounds DEF IInv
  <2> QED
    BY <2>2, <2>3, INFAssumption DEF IsFirable
<1> QED
  BY <1>1, Invariance, PTL

-----------------------------------------------------------------------------
(* Preemption costs no work: as long as a transition stays enabled, only   *)
(* its own firing resets its execution clock.                              *)
THEOREM PreemptionCostsNothing == Spec => ProgressKept
<1> DEFINE Kept == \A t \in net.transitions :
                     h'[t] < h[t] /\ t \in Enabled' => IsFirable(t)
<1>1. IInv /\ [Next]_vars => [Kept]_vars
  <2> SUFFICES ASSUME IInv, Next,
                      NEW t \in net.transitions, h'[t] < h[t], t \in Enabled'
               PROVE  IsFirable(t)
    OBVIOUS
  <2>1. h[t] \in Nat /\ h[t] # 0
    <3>1. h[t] \in Nat
      BY DEF IInv, TypeOK
    <3>2. h'[t] \in Nat
      BY <3>1 DEF Next, Elapse, Fire, Advanced, ExecutionAfter, Surviving
    <3> QED
      BY <3>1, <3>2
  <2>2. t \in Enabled
    BY <2>1 DEF IInv, NoStaleClock
  <2>3. CASE Elapse
    BY <2>1, <2>3 DEF Elapse, Advanced
  <2>4. ASSUME NEW s \in net.transitions, Fire(s)
        PROVE  IsFirable(t)
    <3>1. Enabled' = StructEnabled(net, After(s))
      BY <2>4 DEF Fire, Enabled
    <3>2. CASE t = s
      BY <2>4, <3>2 DEF Fire
    <3>3. CASE t # s
      BY <2>1, <2>2, <2>4, <3>1, <3>3 DEF Fire, ExecutionAfter, Surviving
    <3> QED
      BY <3>2, <3>3
  <2> QED
    BY <2>3, <2>4 DEF Next
<1> QED
  BY <1>1, Invariance, PTL DEF Spec, ProgressKept
=============================================================================
