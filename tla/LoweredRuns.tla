---------------------------- MODULE LoweredRuns ----------------------------
(***************************************************************************)
(* The timed runs of lowered graphs: what transform makes of cores, locks, *)
(* dependencies and releases, seen through the scheduler and the clocks.   *)
(***************************************************************************)
EXTENDS Lowering, TimedRun

CONSTANT Graphs         \* the graphs that are lowered

ASSUME GraphsAssumption == \A g \in Graphs : IsGraph(g)

VARIABLES tdg,
          phase       \* for every period, the time since the start modulo it

loweredVars == <<vars, tdg, phase>>

(* To be given to Nets.                                                    *)
LoweredNets == {Lowered(g) : g \in Graphs}

Periods(g) == {b.period : b \in ToSet(g.periodic)}
AllTasks == UNION {Tasks(g) : g \in Graphs}

LoweredInit ==
  /\ tdg \in Graphs
  /\ ~ Throws(tdg)
  /\ net = Lowered(tdg)
  /\ phase = [p \in Periods(tdg) |-> 0]
  /\ Init

LoweredElapse ==
  /\ Elapse
  /\ phase' = [p \in Periods(tdg) |-> (phase[p] + 1) % p]
  /\ UNCHANGED tdg

LoweredFire(t) == Fire(t) /\ UNCHANGED <<tdg, phase>>

LoweredNext == LoweredElapse \/ \E t \in net.transitions : LoweredFire(t)

LoweredSpec == LoweredInit /\ [][LoweredNext]_loweredVars

(* Runs go on as long as they can: time does not stop by itself, and a     *)
(* transition at its deadline fires.  This is weak fairness of             *)
(* LoweredNext, with ENABLED spelled out: nothing can fire, and no clock   *)
(* may run or none is left.                                                *)
AtRest ==
  /\ \A t \in net.transitions : ~ IsFirable(t)
  /\ CanElapse => Active \cup Stopped = {} /\ Periods(tdg) \subseteq {1}

Progress == []<>AtRest \/ []<><<LoweredNext>>_loweredVars

FairLoweredSpec == LoweredSpec /\ Progress

-----------------------------------------------------------------------------
Tokens(M, places) == MapThenSumSet(LAMBDA p : M[p], places)

ChainPlaces(t) ==
  {Chain(t, k) : k \in {i \in 0 .. ChainLength(tdg, t) - 1 : i % 2 = 0}}

(* The places of t from the one after get_core to the one before the exit. *)
WithCore(t) == ChainPlaces(t) \ {Entry(tdg, t), Exit(tdg, t)}

(* The places of t from the one after it takes its j-th lock to the one    *)
(* before the segment that gives it back.                                  *)
Critical(t, j) ==
  {Chain(t, k) : k \in {i \in 2 + 4 * j .. ChainLength(tdg, t) - 3 - 2 * j : i % 2 = 0}}

LockSet == UNION {ToSet(Locks(tdg, t)) : t \in Tasks(tdg)}

HoldersOf(l) ==
  UNION {UNION {Critical(t, j) : j \in {i \in 1 .. NumLocks(tdg, t) : Locks(tdg, t)[i] = l}}
           : t \in Tasks(tdg)}

OnCore(c) == {t \in Tasks(tdg) : tdg.node[t].core = c}

Occupies(n) == IF IsTask(tdg, n) THEN Tokens(marking, ChainPlaces(n)) > 0 ELSE marking[Empty(n)] > 0

(* m can only start when a job of n has gone through: there is a tied edge *)
(* between them, perhaps by way of one fork or join.                       *)
Precede(n, m) ==
  \E e, f \in EdgesOf(tdg) :
     /\ Ties(e) /\ Ties(f)
     /\ e.source = n /\ f.target = m
     /\ e = f \/ (e.target = f.source /\ IsControl(tdg, e.target))

PlainNodes == {n \in DOMAIN tdg.node : ~ IsControl(tdg, n)}

(* The release transition of a periodic binding.                           *)
ReleaseOf(i) == CHOOSE t \in net.transitions : net.Pre[Period(i)][t] > 0
PeriodAt(i) == tdg.periodic[i].period

-----------------------------------------------------------------------------
(* A lock is free or held by exactly one job, and it is held by a job that *)
(* is between taking and giving back that lock, also when that job was     *)
(* preempted or merged with a later one ("Lock resource model: kept",      *)
(* docs/rule.md:229).                                                      *)
LockConserved ==
  \A l \in LockSet : marking[Lock(l)] + Tokens(marking, HoldersOf(l)) = 1

(* Under the policies with core places, the free cores and the jobs that   *)
(* hold one add up to the number of cores ("dropping a resource token      *)
(* would be unsound", docs/json_format.md:77).                             *)
CoreConserved ==
  ~ IsResume(tdg) =>
    \A c \in Cpus(tdg) :
       marking[Core(c)] + Tokens(marking, UNION {WithCore(t) : t \in OnCore(c)})
         = tdg.cores_per_cpu

(* Neither locks nor cores are lost or doubled.                            *)
ResourcesConserved == LockConserved /\ CoreConserved

(* In a graph that is started once, a node never runs while a node it      *)
(* depends on still does, and a join waits for all of its branches.        *)
PrecedenceRespected ==
  tdg.periodic = <<>> =>
    \A n, m \in PlainNodes : Precede(n, m) => ~ (Occupies(n) /\ Occupies(m))

(* Releases come every period without drift (docs/json_format.md:70),      *)
(* whatever the tasks, the other control transitions and a second binding  *)
(* of the same task do.                                                    *)
NoReleaseDrift ==
  \A i \in Released(tdg) : h[ReleaseOf(i)] % PeriodAt(i) = phase[PeriodAt(i)]

(* Every release is served: a job in the entry place is followed by a      *)
(* finished one.                                                           *)
JobsComplete ==
  \A t \in AllTasks :
     (t \in Tasks(tdg) /\ marking[Entry(tdg, t)] > 0)
       ~> (t \in Tasks(tdg) /\ marking[Exit(tdg, t)] > 0)
=============================================================================
