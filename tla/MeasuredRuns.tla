---------------------------- MODULE MeasuredRuns ----------------------------
(***************************************************************************)
(* The metrics of a net against its runs: the state-class graph of the net *)
(* is built and analysed, and then a run walks on the state-class graph    *)
(* with a stop watch on one job of one task.  The net is the lowering of a *)
(* task graph, or one that was written in the .ptpn language and comes     *)
(* without tasks.                                                          *)
(***************************************************************************)
EXTENDS GraphOfRuns, Metrics, TaskTopology

CONSTANTS Graphs,        \* the task graphs
          WrittenNets,   \* the nets that are not lowered from a graph
          MaxAhead       \* how many jobs may be ahead of the watched one

VARIABLES tdg,           \* a task graph, or NoGraph
          report,        \* what analyze returns, or NoReport
          watched,       \* a task, once there is a report
          job            \* the watched job, or NoJob

measures == <<tdg, report, watched, job>>

NoReport == [schedulable |-> "unknown"]
NoTaskYet == "none"
NoJob == [age |-> -1]

NoGraph == [node |-> <<>>]

(* To be given to Nets.                                                    *)
AllNets == WrittenNets \cup {Lowered(g) : g \in Graphs}

TopologyOf == [g \in Graphs |-> Topology(g)] @@ (NoGraph :> <<>>)

-----------------------------------------------------------------------------
(* The vertices that build has expanded, and the places for which          *)
(* record_overflow was called while it did.                                *)
Expanded == DOMAIN vertices \ (ToSet(frontier) \cup ToSet(next_frontier))

OverflowedAt(v) ==
  UNION {RecordedOverflow(vertices[v].marking, net, t) :
           t \in {x \in net.transitions : CanFire(net, TimeElapse(net, vertices[v]), x)}}

Overflowed == UNION {OverflowedAt(v) : v \in Expanded}

Analysed ==
  [net |-> net, task |-> TopologyOf[tdg],
   locks |-> IF tdg = NoGraph THEN {} ELSE LockPlaces(tdg)]
    @@ Flatten(net, vertices, edges)

-----------------------------------------------------------------------------
(* The watched job, released while `ahead` jobs of its task were in        *)
(* flight, until that many and one more are completed: jobs of one task do *)
(* not overtake each other.  `age` is the time since the release; `ran`,   *)
(* `stopped` and `inverted` are the parts of it in which the task executed,*)
(* was suspended, waited while a lower one ran; `preempted` is how often   *)
(* it was suspended.  A job older than MaxClock is not watched further.    *)
Subject == TopologyOf[tdg][watched]
InChain(m) == MapThenSumSet(LAMBDA p : m[p], Subject.places)

NewJob(m, s) ==
  LET ahead == MapThenSumSet(LAMBDA p : m[p], s.places) - 1
  IN  IF m[s.entry] = 1 /\ ahead <= MaxAhead
      THEN [age |-> 0, ran |-> 0, stopped |-> 0, inverted |-> 0, preempted |-> 0,
            ahead |-> ahead, done |-> FALSE]
      ELSE NoJob

Measuring == job # NoJob /\ ~ job.done

Waits == Subject.exec \cap Run!Stopped # {}
Runs == Subject.transitions \cap Run!Active # {}

LowerRuns ==
  LET exec == UNION {TopologyOf[tdg][t].exec : t \in Tasks(tdg)}
  IN  /\ InChain(marking) > 0 /\ ~ Runs
      /\ \E x \in exec \cap Run!Active :
            net.core[x] = Subject.info.core /\ net.priority[x] < Subject.info.priority

Older ==
  IF ~ Measuring \/ job.age = MaxClock THEN NoJob
  ELSE [job EXCEPT !.age = @ + 1,
                   !.ran = IF Subject.exec \cap Run!Active # {} THEN @ + 1 ELSE @,
                   !.stopped = IF Waits THEN @ + 1 ELSE @,
                   !.inverted = IF LowerRuns THEN @ + 1 ELSE @]

JobAfter(t) ==
  IF tdg = NoGraph THEN NoJob ELSE
  LET m == Run!After(t)
      released == m[Subject.entry] > marking[Subject.entry]
      completed == m[Subject.end] > marking[Subject.end]
      stops == Runs /\ Subject.exec \cap Suspended(net, m) # {}
  IN  IF ~ Measuring THEN IF released THEN NewJob(m, Subject) ELSE NoJob
      ELSE [job EXCEPT !.preempted = IF stops THEN @ + 1 ELSE @,
                       !.ahead = IF completed /\ @ > 0 THEN @ - 1 ELSE @,
                       !.done = completed /\ job.ahead = 0]

-----------------------------------------------------------------------------
MeasuredInit ==
  /\ \/ tdg \in {g \in Graphs : ~ Throws(g)} /\ net = Lowered(tdg)
     \/ tdg = NoGraph /\ net \in WrittenNets
  /\ WalkInit
  /\ report = NoReport
  /\ watched = NoTaskYet
  /\ job = NoJob

BuildGraph == BuildStep /\ UNCHANGED measures

AnalyzeGraph ==
  /\ pc = "done" /\ report = NoReport
  /\ report' = Analyze(Analysed, 1, Overflowed)
  /\ \/ /\ tdg = NoGraph
        /\ UNCHANGED <<watched, job>>
     \/ /\ watched' \in DOMAIN TopologyOf[tdg]
        /\ job' = NewJob(marking, TopologyOf[tdg][watched'])
  /\ UNCHANGED <<allVars, tdg>>

MeasuredElapse ==
  /\ report # NoReport
  /\ WalkElapse
  /\ job' = Older
  /\ UNCHANGED <<tdg, report, watched>>

MeasuredFire(t) ==
  /\ report # NoReport
  /\ WalkFire(t)
  /\ job' = JobAfter(t)
  /\ UNCHANGED <<tdg, report, watched>>

MeasuredNext ==
  \/ BuildGraph
  \/ AnalyzeGraph
  \/ MeasuredElapse
  \/ \E t \in net.transitions : MeasuredFire(t)

MeasuredSpec == MeasuredInit /\ [][MeasuredNext]_<<allVars, measures>>

-----------------------------------------------------------------------------
Reported == report # NoReport /\ Complete
Watching == Reported /\ job # NoJob

(* "All times are sound bounds" (metrics.h:20): a job that is released     *)
(* while no other job of its task is in flight is finished between bcrt    *)
(* and wcrt later.                                                         *)
ResponseBounded ==
  Watching /\ job.done =>
    /\ report.task[watched].bcrt <= job.age
    /\ job.age <= report.task[watched].wcrt

(* It executed no shorter than bcet and no longer than wcet, from which    *)
(* the utilisation is computed; the restart policy executes a segment      *)
(* again, and there only the first half holds.                             *)
DemandBounded ==
  Watching /\ job.done =>
    /\ Subject.info.bcet <= job.ran
    /\ tdg.policy # "fixed_prior_with_restart" => job.ran <= Subject.info.wcet

(* It was not suspended longer, not suspended more often and not blocked   *)
(* by lower tasks longer than reported.                                    *)
InterferenceBounded ==
  Watching /\ job.done =>
    /\ job.stopped <= report.task[watched].interference
    /\ job.inverted <= report.task[watched].blocking
    /\ job.preempted <= report.task[watched].preemptions

(* A system that is called schedulable misses no deadline and does not     *)
(* stop with work left over; where a deadlock is reported, it stops; a net *)
(* that is called bounded never overflows, and no run has more tokens in a *)
(* place, or in a task, than reported.                                     *)
VerdictHolds ==
  Reported =>
    /\ report.schedulable /\ tdg # NoGraph =>
         /\ \A p \in Subject.timeout : marking[p] = 0
         /\ Run!Enabled # {} \/ InChain(marking) = 0
    /\ at \in report.deadlocks => Run!Enabled = {}
    /\ report.bounded => overflow = {}
    /\ \A p \in net.places : marking[p] <= report.max_tokens[p]
    /\ tdg # NoGraph => InChain(marking) <= report.task[watched].in_flight

(* A lock is not held for longer in one vertex than reported ("the longest *)
(* single-state dwell while the lock is held", docs/ptopner/metrics.md).   *)
HoldBounded ==
  Reported /\ Run!Enabled # {} =>
    \A l \in DOMAIN report.lock : marking[l] = 0 => stay <= report.lock[l].worst_hold

(* What is read off the graph alone, when a report has just been made.     *)
JustReported == Reported /\ at = 1 /\ stay = 0

After(S) == {e.dst : e \in {f \in edges : f.src \in S}}
Before(S) == {e.src : e \in {f \in edges : f.dst \in S}}

RECURSIVE Closure(_, _, _)
Closure(step(_), new, seen) ==
  IF new = {} THEN seen ELSE Closure(step, step(new) \ (seen \cup new), seen \cup new)

OnACycleWith(v) == Closure(After, After({v}), {}) \cap Closure(Before, Before({v}), {})

(* "The path to the first miss" (docs/ptopner/metrics.md): the witness is  *)
(* a way from the initial vertex to a missed deadline, there is none       *)
(* shorter, and without a witness no vertex misses a deadline.             *)
WitnessIsFirst ==
  JustReported =>
    LET path == report.witness
        timeouts == UNION {TopologyOf[tdg][t].timeout : t \in DOMAIN report.task}
        misses == {v \in DOMAIN vertices : \E p \in timeouts : vertices[v].marking[p] > 0}
        near == FoldLeft(LAMBDA S, i : S \cup After(S), {1},
                         SubSeq(path, 3, Len(path)))
    IN  IF path = <<>> THEN misses = {}
        ELSE /\ Head(path) = 1 /\ Last(path) \in misses
             /\ \A i \in 2 .. Len(path) : path[i] \in After({path[i - 1]})
             /\ Len(path) > 1 => near \cap misses = {}

(* "The largest recurrent SCC" (docs/ptopner/metrics.md): the steady       *)
(* region is the set of vertices on a common cycle, no other such set is   *)
(* larger, and there is one unless every path ends.                        *)
SteadyIsRecurrent ==
  JustReported =>
    \A v \in DOMAIN vertices :
       IF v \in report.steady THEN OnACycleWith(v) = report.steady
       ELSE Cardinality(OnACycleWith(v)) <= Cardinality(report.steady)

(* Both are read off the graph as documented.                              *)
ReportReadsGraph == WitnessIsFirst /\ SteadyIsRecurrent

-----------------------------------------------------------------------------
(* What documentation says and the analysis does not do.                   *)

(* "All times are sound bounds" (metrics.h:20), also for a job that was    *)
(* released behind another one.                                            *)
EveryResponseBounded == ResponseBounded
=============================================================================
