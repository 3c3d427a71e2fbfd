# A TLA+ model of the PPTPN scheduler analysis

The repository translates real-time task graphs into *priority timed Petri nets*
(PTPN) and analyses them: it builds the state-class graph of a net, whose
vertices are a marking and a zone of clock valuations (a difference bound matrix,
DBM), and computes deadlines, response times, deadlocks and utilisation from it.
This directory holds a TLA+ model of the way from an input document to the numbers that are
reported and the files that are written, the TLC configurations that check it on small graphs and nets, and machine-checked proofs
of its central properties.

All source paths below are relative to the repository root's `src/` directory
(`analysis/dbm.cpp` is `src/analysis/dbm.cpp` of the program).

## 1. Inventory of the system

| Part | State it keeps | Operations | Talks to | What is hard about it |
|---|---|---|---|---|
| Pipelines, `main.cpp` | options, the files written so far | `tdg`, `ptpn`, `export romeo`, `export ptopner` | everything, the file system | the input is read twice; stages fail one by one |
| JSON front end, `json/json.cpp` | parsed document | parse, validate | TDG | what it lets through |
| TDG, `tdg/tdg.cpp` | nodes, edges, task sets | `load_from_parser`, classification | JSON, lowering | order of hash tables; a failure that is only logged |
| Lowering, `tdg2pn/tdg2pn.cpp` | the net under construction | chains, bindings, policies, `task_info` | TDG, PTPN | lock and core tokens under preemption; positions used as indices |
| PTPN core, `petri/petri.{h,cpp}` | matrices, intervals, attributes, `M0`; a process-wide list of overflowed places | `add_*`, `set_*_arc`, `is_enabled`, `fire` | everything | clamping to capacity, open interval ends, the global list |
| Scheduler, `analysis/scheduling.cpp` | none | `structural_enabled`, `filter_priority_per_core` | engine | ties, K of N, groups without a bound |
| DBM, `analysis/dbm.cpp` | one square matrix, its frozen clocks | closure, time, guards, resets, comparison; the engine calls only some | engine | in-place closure, single-pass re-closure, saturating integers, rows and columns edited in place |
| State-class engine, `analysis/ptpn_analysis.cpp`, `canonicalization.cpp`, `state_class.h` | graph, frontier, statistics | `build` and its steps | scheduler, DBM, PTPN | freezing and resuming clocks, merging, truncation, termination |
| Metrics, `analysis/metrics.cpp` | topology derived from net and graph | `analyze` | graph, net | memoised search on cyclic graphs, truncated graphs, jobs told apart by markings only |
| PToPNer export, `tdg2ptopner/` | a model made of the net | validate, convert | TDG, PTPN | arcs, weights and intervals that do not fit |
| `.ptpn` front end, `parser/ptpn_parser.cpp` | AST | parse, validate, build | PTPN | what it lets through |
| Romeo encodings, `tdg2romeo/` | a guarded-command net | two encodings | TDG | fork and join, two kinds of assignments |
| DOT, JSON and `.ptpn` writers | - | output | files | - |
| `rust/`, `scripts/`, `example/`, `test/` | - | - | - | not part of the C++ program |

The program is sequential; its concurrency is in what it *models*, and in one
place in its environment: the input file may change between the two readings. The hard
behaviour is the interleaving of tasks on cores: which transitions run, which
stand still with a frozen clock, what time may do meanwhile, and whether a
symbolic construction that represents infinitely many timed runs by finitely many
matrices, and the numbers computed from it, still say the truth about each of them.

What makes each part correct:

* **PTPN**: token counts never go below zero; overflow clamps and is recorded.
* **Scheduler**: never more than K transitions on a core with parallelism K;
  never an idle core with an enabled transition; the most important one runs.
* **Clocks**: deadlines hold across preemption; preempted work is kept; a new
  activation starts from zero; time is never stuck.
* **DBM**: an operation returns the matrix of exactly the valuations it should,
  in closed form, and tells empty from non-empty.
* **Engine**: `build` returns; its graph is closed under the symbolic step,
  contains every timed run, contains (without frozen clocks) nothing else, and
  does not depend on the merging mode or extrapolation in what it says.
* **Metrics**: no run contradicts a verdict or exceeds a bound that is reported.
* **Lowering**: a lock is free or held by one job inside its critical section, a
  core free or held by one job between taking and giving it back; releases come
  every period; a join waits for all branches; a released job is completed.
* **Front end, exports, pipelines**: what passes the validation can be lowered; exit status
  0 means the files are there; a `.ppn` file describes the net it was made from and is in the
  subset PToPNer understands; every call ends.

## 2. Modules

```
PTPN            nets as values, enabling, firing           petri/petri.h
 └ Scheduling    per-core priority filter                  analysis/scheduling.cpp
    ├ TimedRun    one timed run of a net (concrete)        ptpn_analysis.cpp, explicit clocks
    └ StateClass  classes, time elapse, successor          ptpn_analysis.cpp, symbolic
       │  └ DBM    matrices                                analysis/dbm.cpp
       └ StateClassGraph   build(), one action per step    ptpn_analysis.cpp:384-520
          │                 implements SymbolicReachability (abstract)
          ├ GraphOfRuns    build, then a run walking on the graph   (with TimedRun)
          │  └ MeasuredRuns  build, analyze, then a run with a stop watch
          ├ Exactness      build, then all runs compared            (with TimedRun)
          └ CompareBuilds  two builds of the same net
DBM
 ├ ZoneCalls      what the engine calls, against sets of valuations
 └ ZoneLibrary    the other operations                     analysis/dbm.cpp
PTPN
 └ Lowering       task graphs to nets                      tdg2pn/tdg2pn.cpp
    ├ LoweredRuns   runs of lowered graphs                 (with TimedRun)
    ├ TaskTopology  task_info and build_topology           tdg2pn.cpp, analysis/metrics.cpp
    ├ InputGraph    documents to task graphs               json/json.cpp, tdg/tdg.cpp
    └ PpnExport     validation and .ppn model              tdg2ptopner/
Scheduling
 └ Metrics        analyze() on a finished graph            analysis/metrics.cpp
InputGraph, PpnExport
 └ Pipeline       one call of the command line             main.cpp
SampleNets, SampleGraphs   the nets and graphs the checks use
*_proofs          theorems (section 4); Comparisons_proofs is about CompareBuilds and Exactness
MC*               instances for TLC
```

**PTPN.** A net is a record with the fields of `class PTPN`. Where the code has
sparse arcs, the model has the full matrices with zero entries. `FireMarking` is
`PTPN::fire`: subtract, add, clamp; `RecordedOverflow` are the places
`record_overflow` is called for. `IsNet` is what `PTPNParser::validate` accepts; an
interval stays within the machine integers, the shift of an open left end included.

**Scheduling.** The sort and cut of `filter_priority_per_core` are stated
without a sort: a transition is kept if fewer than K members of its group precede
it in (priority, index) order. `Suspended` is the third set of `recompute_sets`.

**TimedRun.** The concrete meaning of a state class: a marking and one integer
per clock (`h` for execution, `w` for suspension). `Elapse` is one unit of
`time_elapse` (running clocks advance, deadlines of active transitions stop
time); `Fire(t)` is `fire` for one valuation. The functions that say which clocks
survive are those of `build_successor_zone`. Two lines of the code that are easy to
get wrong, the set of running clocks and the survival test, are thereby stated
once for valuations and once for zones, and `GraphOfRuns` and `Exactness` compare
the two.

**DBM.** A matrix is a function on pairs of variables. A round of `minimize` is
stated as one parallel update; `ZoneCalls` runs the in-place loops as they are written
(`MinimizeInPlace`). `Tighten` returns the value and the matrix, the
half-updated matrix of the early return included. The engine never freezes a
clock *of a matrix* (`freeze_clock` has no caller in it), so `frozen_clocks_` is
not represented here; preemption freezes clocks by leaving them out of the running set.

**ZoneLibrary** has the operations that no analysis calls: a caller applies them to one
matrix in any order, adds, removes, freezes and unfreezes clocks, and beside the matrix
the module keeps the set of valuations it has to stand for. Here `frozen_clocks_` is a
variable. `add_clock` and `copy_clock_constraints` leave a matrix that has to be closed
again (status `open`), `future` leads to one in which clocks may be negative (`past`), and an
empty result ends the sequence. `restrict_clock` answers an empty zone with a matrix of no clocks
(`NoClocks`), as the code does with `DBM(0)`.

**StateClass, StateClassGraph.** The code's variable numbering is replaced by the
variables themselves. `build` is a state machine with a program counter:

| Action | Lines of `analysis/ptpn_analysis.cpp` |
|---|---|
| `Init` | 384-400 |
| `StopAtLimit`, `BeginVertex` | 405-438 |
| `SkipTransition` | 442-449 |
| `Merge` | 482-488 |
| `DropSuccessor` | 490-493 |
| `Discover` | 495-499 |
| `EndVertex` | 502-504 |
| `NextLevel`, `Finish` | 402, 507-520 |

**SymbolicReachability** is what `build` promises without saying how: a set of known classes that starts with the
first one, arcs added one at a time and in any order, each leading to the successor or to a known class that covers
it, and an answer that is "complete" only if no arc is missing. It knows nothing of levels, queues, numbers or
limits. `StateClassGraph!Reachability` is the refinement mapping: `Known` and `Arcs` forget the numbers of the vertices, so that two
vertices with the same class are one; `Merge` and `Discover` add an arc (or none, if it is there), the ends of the
loops give the answer, all other steps stutter.

`elapsed_time` is metadata outside the identity of a class and is left out, as is
the hash index of the EQUALITY mode, which finds what `FirstMatch` says.

**Exactness, CompareBuilds, GraphOfRuns** run `build` to its end and then do something
with the result. `Exactness` adds the states `exploring`, in which all timed runs of the net are
collected breadth-first; `CompareBuilds` interleaves nothing, it builds twice; `GraphOfRuns` lets one run
walk on the edges of the graph and keeps `at`, its vertex, and `stay`, the time spent in it.

**Metrics, TaskTopology.** `Analyze` is `MetricsAnalyzer::analyze` as a function of a graph. The two depth-first
searches are recursive operators with the state of the search passed along: `Dfs` and `TryEdges` for `run_dp`
with its gray vertices and memo table (the values that a cycle leaves in it included), and
`StrongConnect` for Tarjan's algorithm. Sums of midpoints are kept doubled and not divided. `TaskTopology`
is what `populate_task_info` leaves in the net and `build_topology` derives from chain positions
and the names of transitions. The list of overflowed places, process-wide in the program and reset when
`build` starts, is collected from the vertices that `build` expanded (`Overflowed`).

**MeasuredRuns** composes it all: a task graph is lowered, its net built (each step of `build`), analysed (one
step), and then a run walks on the graph while a stop watch follows one job of one task from its release to
its completion: its age, the time it executed, was suspended, waited behind a lower task, and how often it was
preempted. Nets that were written by hand have no tasks; for them only the verdicts and the token bounds are
compared.

**Lowering.** `Lowered(g)` is the net `TDG2PN::transform` builds for the graph `g`
(vertices, edges, bindings, preemption, resources, in the code's order). A place is
named by its role: `Chain(t, k)` is the place at position `k` of the code's
`node_pn_map[t]`, so that the index arithmetic of `TaskChainLayout` stays visible.
A transition is a record with its arcs, numbered by its place in the sequence
`Steps(g)`, because the scheduler breaks ties by number. `order` is the traversal order
of the hash table `nodes_type`; the checks use both orders where it matters. Two index
mix-ups of the code are reproduced: the arc that `add_monitor_matrix` draws with a place
number as transition number (`StrayArcs`; usually it makes transform throw, `Throws`),
and the transitions that restart preemption marks suspendable by chain position
(`marks`). Edge labels are parsed into sequences of numbers. `AsInt` is the cast from `long` to
`int` that each number goes through, and `LabelInterval` what becomes of a label, malformed ones included;
a label that begins with a number beyond INT_MAX becomes a negative time, for which transform throws. The
places of a periodic binding and of the monitor of a self-loop carry the number of the binding or
edge, not the name of the task: a task with two of them has two sets of places. `IsGraph` says which graphs are lowered: what `Parser::validate`
accepts, without self-loops at forks and joins (there transform takes transition numbers for places).
A task may name a lock twice. Without the resume policy the core of a task has to be below `num_cpus`.

**LoweredRuns** starts `TimedRun` in a lowered net and adds two variables, the graph
and the time modulo each of its periods (`phase`). The releases are told apart by the number of their binding (`ReleaseOf`). `HoldersOf(l)` are the chain places between taking
and giving back lock `l`, `WithCore(t)` those between `get_core` and the last segment;
conservation is stated over them.

**InputGraph.** A document is a record of what the JSON library hands over. `Accepted` is
`Parser::validate`, `LoadedGraph(doc, order)` what `load_from_parser` makes of it, with the order of the hash table as a
parameter, and `BlankGraph` what is left when the second reading fails.

**PpnExport.** `ValidForPtopner` is the validation, `Exportable` what the conversion refuses, `PpnModel` what it
writes. A `.ppn` file knows places by position, so the module fixes the order in which the lowering creates
them (`PlaceOrder`), and the roles that the export guesses from the names of transitions (`Roles`).

**Pipeline.** One action per stage of the four commands. A stage continues (`Goto`), or ends the process
(`Quit`) with a status, or the process is aborted by an exception nobody catches.

| Action | Function of `main.cpp` |
|---|---|
| `ReadInput`, `Reread` | `load_tdg_from_json`, `TDG::parse_json` |
| `Replace` | the environment: another process writes or removes the input file |
| `ParsePtpn` | `run_ptpn_pipeline`, `run_export_ptopner` |
| `Override`, `CheckPtopner` | `apply_policy_override`, `validate_ptopner_tdg` |
| `ExportTdg`, `WriteWcet`, `ExportRomeo`, `Lower` | `run_tdg_pipeline`, `export_romeo_from_tdg` |
| `ExportPtpn`, `ExportPpn`, `ExportScg`, `ExportMetrics`, `Finish` | `run_ptpn_postprocess` |

**Variants.** Operators marked "variant" in a comment are wrong versions of the
definition they stand in front of (a dropped test, an off-by-one, a swapped
index). Nothing uses them; `PROJECT.json` ("mutants") pairs each with the property
that notices when it is used instead. They document what each property is able
to see.

## 3. Runs

Every run takes less than two minutes with two workers.

| Run | Question | Instance |
|---|---|---|
| `timed_run` | scheduler and clocks on all runs | 6 nets, clocks to 24 |
| `class_graph` | does `build` return a closed, minimal, canonical graph within its limit, and does the graph hold anything no run does? | 7 nets, 2 modes, extrapolation on/off, limits 7 and 130, and none; runs of 6 of the nets |
| `graph_of_runs` | is every timed run a path of the graph, and is what `analyze` reports true of it? | 7 task graphs, 4 written nets, 2 modes, extrapolation on/off |
| `compare_builds` | do merging and extrapolation change the answer? | 7 nets, 3 modes, extrapolation on/off |
| `zone_calls` | do the DBM operations of the engine mean what they should, when sums saturate too? | all matrices over 2 clocks with bounds from small sets, INT_MAX = 7 |
| `zone_library` | and the other operations? | sequences of calls on matrices over 0 to 2 clocks |
| `lowered_runs` | locks, cores, precedence, timers and progress of lowered graphs | 17 graphs, 3 policies, clocks to 24 |
| `pipeline` | what is written, what aborts, what ends | 21 documents, 2 nets, all commands |
| `stopwatch`, `restart_lock`, `backlog`, `ppn_arcs` | disagreements with documentation, see section 5 | 1 net or graph each; the documents of `pipeline` |

**timed_run.** `WithinLatest` (no enabled transition is past its latest time, also
when frozen in between), `NoStaleClock`, `CoreParallelismRespected`, `WorkConserving`, `NoTimelock`
and `ProgressKept` ("resumes from the exact frozen value", docs/rule.md:270).

**class_graph.** `ImplementsReachability`: every step of `build` is a step of `SymbolicReachability` or changes nothing there. So every
vertex but the first is the successor of a known class, every edge is a firing that leads to a vertex covering the
result, and unless the graph is called truncated every transition that can fire in a class has such an edge, the closure
property every later use of the graph relies on.
`NoRedundantVertex` says no class is stored that could be merged, `ZonesAreCanonical` that comparing matrices
entry by entry is legitimate, `LimitRespected` is about the two places where the limit is tested.
`FiniteWithExtrapolation` is the header's promise that extrapolation "keeps the
zone space finite"; the net `Patient` does not terminate without it.
`Terminates` is checked under the fairness below. Then all runs are collected and compared with the graph: every marking
(`NoSpuriousMarking`) and every edge (`EdgesAreFirings`) has a run, and on nets in which no clock is ever frozen the ends of
every firing window are attained by a run.

**graph_of_runs.** A run is followed through the finished graph: it is always
inside the time-elapsed zone of its vertex (`RunIsInClass`), and whatever it can
fire is an edge whose firing and dwell windows contain the run's own times
(`FiringIsAnEdge`); the dwell windows are what the metrics sum up. A job released while no other job of its
task is in flight takes between `bcrt` and `wcrt` (`ResponseBounded`), executes between `bcet` and
`wcet` (`DemandBounded`; under restart only the first half), is suspended, preempted and blocked no more than reported
(`InterferenceBounded`). `VerdictHolds`: what is called schedulable neither misses a deadline nor stops with work
left, a state reported as deadlock is one, what is called bounded does not overflow, and no run has more tokens
anywhere than reported. All of this is about graphs that are not truncated. `HoldBounded` is about locks. `ReportReadsGraph` relates two results to their
definition on the graph: the witness is a shortest path to a missed deadline, the steady region is a largest set of
vertices on a common cycle.

**compare_builds.** The graph of the default options is compared with the graph of
each other choice: same markings, same firings between markings, same dead ends
(`SameBehaviour`); no valuation lost and, without extrapolation, no class added and
the same extreme dwell times (`MergingIsLossless`).

**zone_calls.** Every matrix beside the set of valuations it stands for. The largest integer is 7, so that sums
saturate in both directions; `BoundsAreReached` is not claimed of bounds that have saturated, but meaning and
emptiness (`MeansItsPoints`) still are, and so is `InclusionIsSubset`.

**zone_library.** `LibraryMeansItsPoints` and `LibraryIsCanonical` are the same two claims of every other operation, with
three exceptions that the first shows nothing of: `elapse_time` and `future` with a frozen clock and
`synchronize_clocks` on clocks that cannot be equal are taken as they are, and `DBM(0)`, the answer of `restrict_clock` to
an empty zone, is counted as empty, whatever `is_empty` says of it (section 5).
`ComparisonsAreRight` covers `contains`, `operator<` and `operator==`; `FrozenSurvivesWidening` is the promise of
dbm.h:64 that extrapolation leaves frozen clocks alone.

**lowered_runs.** `ResourcesConserved` has two halves. Free tokens of a lock plus jobs in its critical
section are always one, across preemption of the holder and merging of jobs (`LockConserved`);
`CoreConserved` is the same for core places (fifo and restart policies, one core per
CPU); the restart graphs throw the low task back from its ready place, where it holds
the core and no lock. `PrecedenceRespected` is about `Diamond`, started once, under all
three policies: a node and one it depends on never hold tokens at the same time.
`NoReleaseDrift`: the timer of each period shows the time modulo that period, also when a task has two
(`TwoPeriods`), whatever else the control core does (in `Overload` a delayed dependency and two timers share
it). `JobsComplete`: a job in the entry place is followed by one in the exit place, with
nested locks on two cores, with a lower-priority holder of a needed lock, with
equal priorities in both orders of creation, and in overload. In overload the claim is
about the graph checked, not a general one: a task with several segments and
two places for each of its jobs can be starved by its own later jobs, since the
earlier segment has the smaller number.

**pipeline.** `SuccessMeansWritten`: exit status 0 means every export with a checked result is there.
`PpnIsRestartStyle`: a `.ppn` file made from a document has core places, no locks, and marks as suspended exactly the
transitions some preemption of a higher priority takes the token from, whatever policy was asked for and
whatever the second reading found. `AbortsAreKnown`: a document that passes the validation is lowered without an exception,
except with a self-loop, a tie between forks and joins, a negative time, or a label that begins with a number
beyond INT_MAX. Among the documents are such a label, one whose number wraps to a small one, one whose second number is
too large, and malformed ones; they are lowered, except the first. `Ends`: every call ends.

### Bounds

* `MaxClock` bounds the clocks of a run. In `timed_run`, `graph_of_runs` and
  `class_graph` every latest time of the nets except one is at most 8, so 12 or 24
  is beyond every deadline; the one transition without a latest time (in
  `OpenAndOverflow`) is bounded by it. Runs that would go beyond are cut there, and a job older than
  `MaxClock` is not watched any longer.
* `MaxStates` is the program's `--max-states`. 0 and 7 make `build` stop at once and in the middle of
  every net that has more classes, 130 and 200 are larger than any complete graph
  of the nets.
* `INF` is the program's INT_MAX, except in `zone_calls` (7) and in `pipeline` and `ppn_arcs`
  (127, so that a number beyond it, 200, and one beyond twice it, 300, fit TLC's integers).
* In the lowered graphs every latest time is at most 12 and every period at most 20,
  so a `MaxClock` of 24 cuts nothing in the passing runs; `MaxClock` is reached
  only in graphs where a task stays preempted for ever.
* The lowered graphs have 1 to 4 tasks, 1 to 2 CPUs, at most 2 locks and capacity 1
  or 2. A lock needs two tasks to be contended and a third place in the chain to be
  held under preemption; the hyperperiods (6 to 18) let every phase of the timers meet.
* `MaxAhead` is the number of jobs that may be in flight when the watched one is released: none in
  `graph_of_runs`, one in `backlog`.
* `Box` in `ZoneCalls` bounds the valuations counted; it is larger than any sum of
  bounds that does not saturate, so a non-empty zone has a point in it. In `ZoneLibrary` no finite bound exceeds
  `Half` (4), results that would are not followed; zones are compared up to `Half` and searched for
  witnesses up to twice that. There are at most two clocks, since every operation works on one
  clock against all others.
* In `Pipeline` at most one of the files asked for cannot be written, and the input is replaced at most once, by another
  document that validation accepts or by one that cannot be read. The documents differ from a valid one in one
  respect each. A task on a core that has no place (`num_cpus * cores_per_cpu` cores are accepted, `num_cpus` get
  one) is excluded: what transform does with it is undefined.
* Time is integer. The engine computes with closed integer bounds only
  (open ends are shifted by one in `effective_earliest/latest`), so the corners of
  its zones are integer points.
* The nets have 3 to 8 transitions. `SampleNets` and `SampleGraphs` say what each isolates.

`CHECK_DEADLOCK FALSE` appears in the two `zone` runs, where a sequence of
calls may end with an empty zone, and in runs of section 5. Elsewhere deadlock is checked: a finished
construction and an ended process stutter explicitly (`Returned`, `Stop`, `Ended`), and a run of a net that had
neither time nor a transition left to go would be reported. A net without active
transitions lets time pass for ever.

### Fairness

`StateClassGraph!Fairness` is there because `build` is one sequential loop that takes
its next step until it returns, so weak fairness of `Build` is what running the
function means. It is written out as `[]<>(pc = "done") \/ []<><<Build>>_vars`,
with "`Build` is disabled" spelled `pc = "done"`; that the two are the same is what
the deadlock check of the run shows.

`Pipeline!Spec` has `WF_vars(Stage)`: the process is one thread and runs its next stage. Nothing is assumed about the
environment that replaces the file.

`FairLoweredSpec` assumes that a run goes on as long as it can: weak fairness of
`LoweredNext` as a whole, again with ENABLED written out (`AtRest`). The analysed
system does this because time passes by itself and the strong time semantics of
`time_elapse` makes a transition at its deadline fire. Nothing is assumed about which
task runs, and the scheduler decides between tasks. `TimedRun!Spec`, `MeasuredSpec` and
`LoweredSpec` have no fairness.

## 4. Proofs

The proofs hold for every net, every task graph, every number of tasks and every constant, under these
assumptions: `INFAssumption` (INF is a positive natural number), `NetsAssumption` and `GraphAssumption` (every
net is well-formed, `MaxClock` is a natural number below INF, limits are natural numbers), `MaxClockAssumption` and
`ExploreAssumption` (the same bound, for `GraphOfRuns` and `Exactness`), `GraphsAssumption` (every task graph is one the
validation accepts, `IsGraph`), `PipelineAssumption` (requests are sets of known exports, a document that replaces another passes
the validation) and `DocumentAssumption` (locks are listed in order, times are numbers). Proofs about arbitrary
nets are also about lowered ones: `MCLoweredRuns` has TLC evaluate `NetsAssumption` for them. TLC evaluates every assumption in
some passing run.

```
TimedRun_proofs                      scheduler, clocks
 └ LoweredRuns_proofs                locks, cores, precedence, releases
DBM_proofs                           matrices
 └ StateClass_proofs                 one symbolic step
    └ StateClassGraph_proofs         the graph
       ├ GraphOfRuns_proofs          runs are in the graph       (with TimedRun_proofs)
       └ Comparisons_proofs          two graphs; the graph and all runs
Pipeline_proofs                      the command line
```

**TimedRun_proofs.** First the scheduler. `Precedes` is a total order on a finite set of transitions
(`PrecedesIsTotalOrder`), so each group has a first and a last member
(`FirstExists`, `LastExists`). `ParallelismBound`: take the *last* active
transition of a core; all other active ones precede it, and fewer than K
transitions do, so at most K are active. `MostImportantRuns`: the *first* of a
group is always kept. Then the runs. The inductive invariant is
`IInv == TypeOK /\ WithinLatest /\ NoStaleClock /\ ClocksBounded`. `WithinLatest`
alone is not inductive: a firing can enable a transition, and only
`NoStaleClock` says its clock is zero then. Elapse keeps it because only active
clocks move and `MayElapse` bounds them; Fire because a clock survives or is zero,
and zero is within every valid interval. From `IInv` follow the theorems
`TypeCorrect`, `DeadlinesHold`, `ClocksStartAtZero`, `TimeProceeds` (`NoTimelock`: a
transition that blocks time is at its latest time, hence past its earliest time),
and the action property `PreemptionCostsNothing`; `ParallelismHolds`, `MutualExclusion`
and `NeverIdle` follow from `TypeOK` and the scheduler's theorems. `MutualExclusion` is
proved and not checked by a run: it is the case of one core of
`CoreParallelismRespected`.

**DBM_proofs.** *Meaning, whatever saturates.* A round of the closure keeps exactly the valuations of the matrix
although its sums saturate (`RelaxKeepsMeaning`); `TightenIsIntersection` is the full
contract of `tighten`, the early return included; `IncludedInIsSound` makes merging
by inclusion safe; `RelaxedBoundsAreWeaker` makes extrapolation safe. The reason
saturation is harmless is `SafeAddIsSound`: the saturated sum is still implied by
the two bounds. `MinimizeKeepsMeaning` carries `RelaxKeepsMeaning` from a round to the whole closure. The rounds are a fold over
the set of variables, and the induction is over the size of that set, with the fold written out as the
recursive function it stands for; `ExtrapolationLosesNothing` follows.

*Form, where nothing saturates.* If the bounds are small enough that no sum reaches INF, `minimize` ends in closed form or with a negative
diagonal (`MinimizeCloses`), the single pass of `tighten` closes a closed matrix as fully as `minimize` would (`TightenCloses`), and so
does the closure at the end of `extrapolate` (`ExtrapolateCloses`). In closed form a finite bound is attained by a valuation and a
missing one exceeded, hence `InclusionIsExact`. `tighten` and `extrapolate` are monotone (`TightenKeepsOrder`,
`WideningKeepsOrder`), and after extrapolation with constant k no finite bound of n variables exceeds (n+1)nk, whatever it was
before (`ExtrapolationIsBounded`). Without the condition the closed form is lost: with saturated sums the run `zone_calls` has
matrices whose closure is not closed.

**StateClass_proofs.** What the symbolic step means, one operation at a time and for every net.

*Nothing is lost.* A point of a class (one value per
clock) that lets time pass is in the elapsed class (`ElapsingLosesNothing`: the relaxed upper bounds let it through, the caps of
the active clocks are its own deadlines); a point that has reached the earliest time of `t` is in the guard, so `CanFire`
says yes, and the point it becomes is in the successor (`FiringLosesNothing`: bounds between surviving clocks are copied, a fresh
clock is zero, a bound that is not copied is INF); a class covers what is merged into it (`MergingLosesNothing`). This needs no
condition on the size of numbers.

*Classes are canonical.* `IsCanonical` is: the zone is in closed form, it is not empty, no clock is negative, and no active or frozen
execution clock is past its latest firing time (`InTime`; without that last part `time_elapse` could empty a zone by its caps).
`StepKeepsClosedForm`: elapse, guard, firing and extrapolation keep it, if the numbers leave room (`HasRoom(n, N, B)`: with at most N
clocks and bounds up to B the largest sum that one step forms is below INF). Then comparing
entries is comparing zones (`InclusionDecides`), a class that is included in another stays so through a step
(`StepKeepsInclusion`: the fate of a merged class is that of its representative), and in every class with an active transition some active one can fire
(`ActiveCanFire`: the graph has no deadlock that is due to the engine).

*Nothing is invented.* Every point of a successor is what a point of the elapsed class becomes (`FiringInventsNothing`), and every point
of an elapsed class is a point of the class some time later with no deadline missed (`ElapsingInventsNothing`), so the same holds of the
whole step (`StepInventsNothing`). For `time_elapse` there is a condition, `StoppedAtOneValue`: each transition that the scheduler has stopped has one
value of its clock in the class. It holds of a transition that waits from the moment it is enabled, and of one that is
preempted at a fixed time. Without it the claim is false, and run `stopwatch` (section 5) is what becomes of it: time elapse drops the upper bounds of
running clocks against a stopped one, and if the stopped clock has several values these bounds said something about the
start of the delay. With extrapolation a point is met up to `Alike`: a clock without a latest firing time may
have another value if both are past the largest endpoint of the net.

**StateClassGraph_proofs.** `IInv == BuildTypeOK /\ NothingForgotten /\ LimitRespected /\ Unmergeable`.
`NothingForgotten` is the heart of it: as long as nothing was cut off, a transition that can leave a vertex has an edge, or is
still to be tried (`BeingTried`), or its vertex waits in one of the two levels (`Waits`). `LimitRespected` needs the
test of `Full` in both places; `Unmergeable`, about all pairs of vertices, is kept because `find_match` looks at every
vertex there is. One lemma per action keeps `IInv`, one per kind of abstract step shows the refinement; when the loops
end both levels are empty, and `NothingForgotten` says that no arc is missing (`FinishImplements`). These theorems hold for every
net and limit, also for a construction that never ends: extrapolation and matrices stay opaque in the proofs.
`GraphInv` adds what vertices and edges are: classes of the net (`VerticesAreClasses`), each the successor of an earlier one
(`VerticesAreReached`), edges that lead where their firing leads, up to merging, with the windows of their source (`EdgesLead`), and two empty levels at
the end (`EndsWhenEmpty`).

The other theorems have a condition on numbers. `Roomy` says that the bounds of all stored classes stay so far from
INT_MAX that no sum of a step saturates. Under it every vertex is canonical (`ZonesAreClosed`, which is `ZonesAreCanonical`), and in the inclusion modes each vertex has
points that no earlier vertex of its marking has (`VerticesAddPoints`). With extrapolation the condition is one on the constants of the
net alone, `SmallConstants`: what extrapolation leaves behind is bounded in terms of the largest endpoint, and the next step starts
from there (`ExtrapolatedZonesAreClosed`). That bound also makes the number of zones of a marking finite: `ExtrapolationKeepsFinite` gives a number,
computed from the net, of vertices per marking, and for a net whose places all have capacities a limit that is never reached. (The condition
`RoomForAll` is `SmallConstants` for all clocks the net can have.) The run `class_graph` checks the same promise as `FiniteWithExtrapolation`, with 130 for
the number.

`GraphInventsNothing` is the converse of GraphOfRuns: if in addition every stopped clock has one value in each vertex (`StoppedClocksAreKnown`), every point of every vertex is
reached by a run of the net, every marking is that of a run, and every edge is fired by a run at every integer of its firing window. The induction is over the
order of discovery: an unreal vertex would have an unreal one before it. A run (`IsRun`) is a sequence of delays and
firings of the net, with clocks of any size. TLC finds the condition true of the nets `UnboundedGroups`, `Overloaded`, `Deferred`,
`OpenAndOverflow`, `FifoPair` and `Patient` of `SampleNets`, which include scheduling by priority with transitions that wait, and false of `PeriodicPair`,
`TwoOfThree` and `PreemptedOnce`, where one is preempted at several ages.

**GraphOfRuns_proofs.** `RunsStayInTheirClass` and `RunsFollowEdges`: every run of a net is a path of the graph, and the windows of
the edges hold of it, without any condition on numbers. `RunIsInClass` alone is not inductive, for two reasons. The graph must keep its promise, which is
`GraphInv` of StateClassGraph_proofs. And the run must remember where it came in: its
clocks less the time it has stayed are a point of the vertex's own zone (`RunInVertex`), which the dwell windows are
computed from. `WalkInv` is their conjunction with the invariant of TimedRun_proofs. The theorems are about `WalkSpec`, the build
followed by a walk of any length; the run checks the two properties in `MeasuredSpec`, where `analyze` and a stop watch come on top.

**Comparisons_proofs.** *Two graphs.* `CompareBuilds` builds the graph of the default options and then that of others. Each build is an instance
of StateClassGraph_proofs, and a few lemmas identify the operators of the two instances. `EveryDefaultClassIsCovered`: by induction on the order of
discovery in the default graph, a class has a cover in the other one; its successor is included in the successor of the cover, by monotony of the
step (`StepKeepsInclusion`) and of extrapolation, and the other graph lacks no arc. Without extrapolation the converse holds too, since every class of
the other graph is also one of the default graph: `MergingKeepsBehaviour` (`SameBehaviour`) and `MergingChangesNothing`
(`MergingIsLossless`, extreme dwell times and numbers of classes included). With extrapolation the converse is not proved: an extrapolated class has points
that no class of the default graph has, so that the same behaviour is a fact about the choice of the constant that the
matrices alone do not show. It stays with the run.

*The graph and all runs.* `NothingIsSpurious` and `EdgesAreFound` are the two properties of `Exactness` for every set of nets. The search
of `Exactness` moves one unit at a time and stops at `MaxClock`; the runs of StateClassGraph_proofs move by delays and stop nowhere. `SearchInv` says that the successors of
all states but the last wave are found. So a finished search is closed under steps, a delay is a sequence of them (`DelaysAreFound`), and each run is found
(`RunsAreFound`), provided that `MaxClock` stops no clock that the net lets run on (`BoundNeverStops`; TLC finds it true of all six nets whose runs are
compared). With that, both theorems follow from `BuiltIsReal`, the lemma behind `GraphInventsNothing`, under its conditions; the windows of
`EdgesAreFound` with extrapolation only for nets whose transitions all have a latest firing time.
Of the six nets four have stopped clocks with one value; for `PeriodicPair` and `TwoOfThree` the result is only model-checked, and for `PreemptedOnce` it is false.

**LoweredRuns_proofs.** *Resources.* Locks and cores are P-invariants: the tokens in the places a resource can be in add up to a constant, because a
transition that takes from these places gives back to them (`PassesOn`, `FiringConserves`). The firing rule adds one obligation, that no token is
clamped away: a place with room for all the tokens of the sum never overflows from it. `StepsAre` says what transitions a lowered graph has: steps
of chains, takeovers of the restart policy, and steps whose arcs all end in entries, exits and auxiliary places. The
sum alone is not inductive. If a task names a lock twice, the part of the chain after the second taking is counted once, but the
second taking would pass on two tokens; it never happens because the task would need the lock that it holds itself, so `NeverTwice` (no token is ever
there) is part of the invariant. Two hypotheses remain, and without either the claim is false: `RestartKeepsLocks` (otherwise run
`restart_lock`), and that task places have room for `cores_per_cpu` tokens (otherwise `TwoCoresPerCpu`, section 5).

*Precedence.* `PrecedenceIsRespected` is for graphs without cycles in which each start puts one token at a task that nothing leads to, and dependencies
come together at joins only (`StartedOnce`); a periodic graph has many jobs under way and the property does not apply. Follow the edges back from a node, at each step to one node
that leads to it, up to a root: the places on this line, those of the edges included, have at most one token together, because each
transition takes from the line at least what it gives to it. Two nodes of which one depends on the other are on one line. The
restart of a task moves a token back in one chain and stays on the line.

*Releases.* `ReleasesNeverDrift`: the clock of a release transition is `phase` as long as the transition is always enabled and always active. It is
enabled because its place gets its token back in the same firing, and active because nothing on the control core has a higher priority (`YieldsToReleases`) and that
core has no bound that an equal priority could exhaust. Without that hypothesis the claim is false (`PriorityJoinGraphs`,
section 5). Each binding has a place and a transition of its own (`BindingsHavePeriods`), so a task may have several.

**Pipeline_proofs.** `ToCome` is what `main.cpp` writes at a stage or later. The invariant says that of the checked exports that
were asked for each is written or to come (`Settled`), and which command has which stages (`StageOK`): the two export
commands leave out stages, but ask for one file only. With that, each of the fourteen stages goes on with nothing left behind, fails,
or succeeds with everything written (`StageKeepsIInv`). What the validation and the export look at is not
expanded in `SuccessIsWritten`. `AbortsHaveAReason` does expand them: the graph of every document that the validation accepts is taken through each
place where transform throws, and only the shapes that `AbortsAreKnown` lists remain, whatever document the second reading found. A label
enters the proof through the cast: an earliest time below zero can only come from a first number beyond INT_MAX
(`NegativeLabelsAreLong`), since in all other cases `parse_edge_interval` falls back.

**Only model-checked**, and why:

* Liveness (`Terminates`, `JobsComplete`, `Ends`): fairness and ENABLED are beyond the prover.
* The metrics (`ResponseBounded`, `DemandBounded`, `InterferenceBounded`, `VerdictHolds`, `HoldBounded`, `ReportReadsGraph`): `Metrics` has the recursive searches
  of the code as recursive operators, and no prover takes a module that reaches one.
* `PpnIsRestartStyle`, and `PpnHasTheArcs` of section 5: the `.ppn` model is made of sorted and selected sequences whose definitions the provers cannot expand.
* `FiniteWithExtrapolation` with its fixed number; the proved theorem has one for every net.
* `SameBehaviour` and `MergingIsLossless` with extrapolation; `NoSpuriousMarking` and `EdgesAreFirings` for nets where a stopped clock has several
  values. The latter is false in general, and there is no simpler condition than to look.
* `ZoneCalls` and `ZoneLibrary`: their properties count valuations in a box, which fits the instance and says less than the theorems of DBM_proofs; the
  in-place loops and the operations without a caller are compared there only.

## 5. Disagreements

**stopwatch.** `analysis/canonicalization.h:7` says "EQUALITY keeps the graph exact". Once a clock is
frozen, it is not: with a stopwatch L that stands still for O - L time units, the
relation between L, the time of the interruption and its length involves three
clocks, and a difference bound matrix cannot hold it. Run `stopwatch` builds the
graph of `PreemptedOnce` under EQUALITY without extrapolation. The graph has a marking
with both `lateA` (which takes an interruption 3 units after the start or later)
and `earlyZ` (2 units or earlier); no run reaches it. The error is on the safe side:
`RunIsInClass` and `FiringIsAnEdge` are proved for every net, so the graph is always
an over-approximation. For the metrics it means that "exact" (`metrics.h:66`) holds
of the merging, not of the timing.

**backlog.** `analysis/metrics.h:20` says "All times are sound bounds". The search for the response time ends at
the first increase of the end place after a release (metrics.cpp:362). In `Backlog` a job takes 3 units and
one comes every 2: a job that is released behind another one is reported with the completion of
the other.

**restart_lock.** The lock preemption of the restart policy (tdg2pn.cpp:913-923) returns the task to its entry and not the lock to
its place; docs/rule.md:229 says of the lock resource model "kept".

**ppn_arcs.** `ptpn_to_ppn.cpp:73` compares the number of a place with the number of transitions before it looks for an input arc, so the
places from that number on have none in the `.ppn` file. Two independent tasks on two cores have 6 transitions and
8 places; both core places are only given back to. The graph passes the validation.

Further ones, seen in the model or in the code and without a run of their own.

*Lowering and policies*

* `parse_time_bound` reads a number of an edge label as `long` and casts it to `int` (tdg2pn.cpp:76). The label
  `"3000000000"` of a dependency between two tasks becomes a negative time; earliest and latest are equal, so the test
  at line 112 lets it pass, the constructor of `TimeInterval` (petri.h:36) throws, and nobody catches: `ptpn tdg` aborts
  on a document that the validation accepts. tdg2pn.cpp:88 says "Any malformed label falls back to [0, 0] with a
  warning", and so does docs/json_format.md:194 (with `LabelsFallBack` as an invariant, `MCPipeline.cfg` is violated by the
  document `long`). By the same cast `"1,3000000000"` becomes `[0, 0]` and `"4294967297"` becomes `[1, 1]`, where
  docs/json_format.md:191-192 has `[a, a]` and `[a, b]` for such labels.
* "A spin-lock holder keeps the CPU" (docs/rule.md:280): `tdg2pn.cpp:780` exempts the segment *before* the lock is
  taken from suspension (`SegmentSuspendable`); the critical section can be preempted.
* A bound of 1 "for every real core" (docs/rule.md:261), cores `0 .. num_cpus * cores_per_cpu - 1`
  (docs/json_format.md:291): `tdg2pn.cpp:580` registers `0 .. num_cpus - 1`, so that two tasks on the second core of a
  CPU run at the same time.
* With `cores_per_cpu` of two, two jobs of one task take two core tokens, merge in a
  saturating place and give one back, although docs/json_format.md:75-78 keeps core places
  strict "since dropping a resource token would be unsound" (`Graphs <-
  TwoCoreGraphs` violates `CoreConserved`).
* A join on the control core with a priority stops the release timers while it is enabled:
  core -1 is filtered by priority like any core, although docs/json_format.md:129 calls
  it "not scheduled" and line 70 has timers "without drift" (`Graphs <-
  PriorityJoinGraphs` violates `NoReleaseDrift`).
* A self-loop adds a deadline monitor and suppresses the periodic release
  (`tdg2pn.cpp:204`), while docs/json_format.md:202-203 has it "driving a periodic release". The monitor draws an arc with a
  place number as transition number, which usually makes transform throw.
* "Single-server semantics" (docs/json_format.md:68) merges jobs that meet in one place
  only: a new job starts behind an old one of the same task and, with the smaller
  transition numbers, goes first.
* A lock named, say, `mutex_spin` is a mutex to the validator (prefix) and a spin lock to the lowering (substring).

*DBM* (operations without a caller)

* `restrict_clock` returns `DBM(0)` for an empty zone, which `is_empty` calls non-empty.
* `future` drops the lower bounds of the running clocks, which reaches the past, not the future.
* With a frozen clock `elapse_time` and `future` keep the bounds between it and the running clocks and lose valuations.
* `synchronize_clocks` replaces bounds between clocks with zero, tighter ones too; `constrain_upper_bound` does nothing to a
  clock without a bound.

*Metrics*

* The utilisation of a core assumes that a job executes no longer than `wcet`; under restart it may.
* The report of a truncated graph counts vertices that were never expanded as deadlocks when work remains in them
  (metrics.cpp:268), so that such a graph is rarely called schedulable, and looks for missed deadlines in the part that
  was built. docs/ptopner/metrics.md:70 defines a deadlock by the graph, as the code does; the report has `truncated` beside it.

*Exports and command line*

* An interval without an upper end (a label `1,inf`) is exported to `.ppn` as a point, while
  docs/ptopner/ptopner-export-and-limits.md:44 promises "deterministic durations, not general `[earliest, latest]` intervals";
  a label with a range passes `validate_for_ptopner` and fails in the export.
* A failing TDG DOT export is logged as written; `--tina` writes nothing; `ptpn ptpn` accepts `--romeo`, `--export-tdg` and
  `--export-wcet` and ignores them. All with exit status 0 (hence `Checked` in `SuccessMeansWritten`).
* The second reading of the input is not validated, and a failure of it is only logged (`Reread`): the process goes on with
  an empty graph, or with a document the validation has never seen.
* Exceptions of transform are not caught; files of earlier stages stay.
* The usage texts show `export romeo ... --policy` and `export ptopner ... --from ptpn` (main.cpp:612, 692), which the option
  definitions do not have or do not accept (main.cpp:571).

*Romeo encodings* (read, not checked)

* A join fires when any one predecessor has arrived (encode_common.cpp:238), a fork has the guard `true` and fires for ever (230).
* The core token that `get_core` needs, and the lock token that `_lock_` needs, are decremented in `intermediate` only, the task's
  own tokens in `intermediate` and in the updates (63-76, 112-116), and the period place in `intermediate` but incremented in the
  updates (317-319). Whether tokens are lost depends on what Romeo does with `intermediate`; under no reading are the
  three consistent.

## 6. Not modelled, and the plan

| Part | Why not, or when |
|---|---|
| Romeo encodings | their meaning is that of an external tool; the repository does not say how it treats `intermediate`. `RomeoRefuses` has what makes the export fail |
| `.ptpn` text parser, JSON text | formatting; what validation accepts is `IsNet` and `Accepted` |
| DOT, JSON and `.ptpn` writers | output |
| `verify_structure` of the lowering | only logs |
| `filter_by_priority`, `filter_by_core_and_priority`, `fire_transition`, `transform_to_ppn_file` | no caller |
| Rust port, scripts, examples | a second implementation; the C++ program is the reference |

Order of the work. Done: PTPN, Scheduling, TimedRun, DBM, StateClass, StateClassGraph and their compositions; Lowering, LoweredRuns;
TaskTopology, Metrics and MeasuredRuns; ZoneLibrary; InputGraph, PpnExport, Pipeline; the proofs of section 4.

What would come next: `HoldBounded` and `VerdictHolds` need only the part of `Metrics` without searches, in a module of its own; that extrapolation keeps the behaviour
needs a bisimulation between a class and its extrapolation, which for nets with preemption the repository does not claim either.
