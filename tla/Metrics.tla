------------------------------- MODULE Metrics -------------------------------
(***************************************************************************)
(* The metrics of src/src/analysis/metrics.cpp, as functions of a built    *)
(* state-class graph G, a record of                                        *)
(*   net     the net                                                       *)
(*   state   vertex -> [marking, active, suspended]                        *)
(*   out     vertex -> sequence of edges, in order of creation             *)
(*   task    task name -> topology, see TaskTopology                       *)
(*   locks   the places of locks                                           *)
(*                                                                         *)
(* A time is a natural number or INF; `NotReached` stands for a result     *)
(* whose flag `reachable` is false.                                        *)
(***************************************************************************)
EXTENDS Scheduling, SequencesExt

NotReached == -1

(* A finite set of natural numbers in increasing order.                    *)
InOrder(S) ==
  IF S = {} THEN <<>>
  ELSE LET top == Max(S) IN SelectSeq([i \in 1 .. top + 1 |-> i - 1], LAMBDA n : n \in S)

(* flatten_graph; one edge per vertex and transition, in increasing order. *)
Flatten(net, vertices, edges) ==
  [state |-> [v \in DOMAIN vertices |->
                LET m == vertices[v].marking
                IN  [marking |-> m, active |-> PriorityEnabled(net, m),
                     suspended |-> Suspended(net, m)]],
   out |-> [v \in DOMAIN vertices |->
              LET from == {e \in edges : e.src = v}
                  fired == InOrder({e.t : e \in from})
              IN  [i \in DOMAIN fired |-> CHOOSE e \in from : e.t = fired[i]]]]

Vertices(G) == DOMAIN G.state
TokensAt(G, v, p) == G.state[v].marking[p]

-----------------------------------------------------------------------------
(* Predicates over a vertex.                                               *)
InFlight(G, t, v) == \E p \in G.task[t].places : TokensAt(G, v, p) > 0
IsActive(G, t, v) == G.task[t].transitions \cap G.state[v].active # {}
IsSuspendedWhole(G, t, v) ==                  \* variant: all of its segments
  G.task[t].exec \subseteq G.state[v].suspended
IsSuspended(G, t, v) == G.task[t].exec \cap G.state[v].suspended # {}

Executing(G, v) ==
  (UNION {G.task[t].exec : t \in DOMAIN G.task}) \cap G.state[v].active

CoreBusy(G, c, v) == c >= 0 /\ \E x \in Executing(G, v) : G.net.core[x] = c

(* Priority inversion: t waits while a lower task executes on its core.    *)
BlockedByLower(G, t, v) ==
  LET info == G.task[t].info
  IN  /\ info.core >= 0
      /\ InFlight(G, t, v) /\ ~ IsActive(G, t, v)
      /\ \E x \in Executing(G, v) :
            G.net.core[x] = info.core /\ G.net.priority[x] < info.priority

-----------------------------------------------------------------------------
(* Structure.                                                              *)
Missed(G, t, v) == \E p \in G.task[t].timeout : TokensAt(G, v, p) > 0

WorkRemains(G, v) == \E t \in DOMAIN G.task : InFlight(G, t, v) \/ Missed(G, t, v)

DeadlockStates(G) == {v \in Vertices(G) : G.out[v] = <<>> /\ WorkRemains(G, v)}

MaxTokens(G) ==
  [p \in G.net.places |-> Max({TokensAt(G, v, p) : v \in Vertices(G)})]

-----------------------------------------------------------------------------
(* Breadth-first search for a missed deadline: `path` leads to each vertex *)
(* seen so far.                                                            *)
IsMissOfAll(G, v) == \A t \in DOMAIN G.task : Missed(G, t, v)        \* variant
IsMiss(G, v) == \E t \in DOMAIN G.task : Missed(G, t, v)

RECURSIVE FirstMiss(_, _, _)
FirstMiss(G, queue, path) ==
  IF queue = <<>> THEN <<>>
  ELSE LET u == Head(queue)
           targets == [i \in DOMAIN G.out[u] |-> G.out[u][i].dst]
           unseen == SelectSeq(targets, LAMBDA v : v \notin DOMAIN path)
           new == FoldLeft(LAMBDA s, v : IF v \in ToSet(s) THEN s ELSE Append(s, v),
                           <<>>, unseen)
           misses == SelectSeq(new, LAMBDA v : IsMiss(G, v))
       IN  IF misses # <<>> THEN Append(path[u], Head(misses))
           ELSE FirstMiss(G, Tail(queue) \o new,
                          [v \in ToSet(new) |-> Append(path[u], v)] @@ path)

Witness(G, initial) ==
  IF IsMiss(G, initial) THEN <<initial>>
  ELSE FirstMiss(G, <<initial>>, initial :> <<initial>>)

-----------------------------------------------------------------------------
(* run_dp: depth-first search for the heaviest (or lightest) way through   *)
(* the part of the graph where t is in flight, to an edge that completes   *)
(* it.  S is the state of the search: gray vertices, results of black ones *)
(* and the last result.  W[v][i] is the weight of the i-th edge of v.      *)
Completes(G, t, e) ==
  TokensAt(G, e.dst, G.task[t].end) > TokensAt(G, e.src, G.task[t].end)

Better(longest, a, b) ==        \* combine_max, combine_min
  IF longest THEN Max({a, b})
  ELSE IF NotReached \in {a, b} THEN Max({a, b}) ELSE Min({a, b})

Plus(w, rest) == IF INF \in {w, rest} THEN INF ELSE w + rest

RECURSIVE Dfs(_, _, _, _, _, _)
RECURSIVE TryEdges(_, _, _, _, _, _, _, _)

Dfs(G, t, W, longest, v, S) ==
  IF v \in DOMAIN S.memo THEN [S EXCEPT !.result = S.memo[v]]
  ELSE IF v \in S.gray THEN [S EXCEPT !.result = IF longest THEN INF ELSE NotReached]
  ELSE TryEdges(G, t, W, longest, v, 1, NotReached, [S EXCEPT !.gray = @ \cup {v}])

TryEdges(G, t, W, longest, v, i, best, S) ==
  IF i > Len(G.out[v])
  THEN [gray |-> S.gray \ {v}, memo |-> (v :> best) @@ S.memo, result |-> best]
  ELSE LET e == G.out[v][i]
           w == W[v][i]
           try(found, S1) == TryEdges(G, t, W, longest, v, i + 1, found, S1)
       IN  IF Completes(G, t, e) THEN try(Better(longest, best, w), S)
           ELSE IF ~ InFlight(G, t, e.dst) THEN try(best, S)
           ELSE LET S1 == Dfs(G, t, W, longest, e.dst, S)
                IN  try(IF S1.result = NotReached THEN best
                        ELSE Better(longest, best, Plus(w, S1.result)), S1)

RunDP(G, t, W, longest, starts) ==
  LET memo == FoldLeft(LAMBDA S, v : Dfs(G, t, W, longest, v, S),
                       [gray |-> {}, memo |-> [v \in {} |-> 0], result |-> NotReached],
                       InOrder(starts)).memo
  IN  FoldSet(LAMBDA v, best : Better(longest, best, memo[v]), NotReached, starts)

Weigh(G, weight(_)) ==
  [v \in Vertices(G) |-> [i \in DOMAIN G.out[v] |-> weight(G.out[v][i])]]

(* to_time: nothing found reads as zero.                                   *)
ToTime(result) == IF result = NotReached THEN 0 ELSE result

-----------------------------------------------------------------------------
(* The metrics of one task.                                                *)
Releases(G, t) ==
  {e \in UNION {ToSet(G.out[v]) : v \in Vertices(G)} :
     TokensAt(G, e.dst, G.task[t].entry) > TokensAt(G, e.src, G.task[t].entry)}

StartedReleased(G, t, initial) == TokensAt(G, initial, G.task[t].entry) > 0

ReleasesOnly(G, t, initial) == {e.dst : e \in Releases(G, t)}      \* variant
ReleaseStates(G, t, initial) ==
  {e.dst : e \in Releases(G, t)}
    \cup {v \in {initial} : StartedReleased(G, t, v)}

Difference(a, b) == IF a = INF THEN INF ELSE a - b

(* A task that is never released has no times.                             *)
TaskMetrics(G, t, initial) ==
  LET info == G.task[t].info
      starts == ReleaseStates(G, t, initial)
      observed(time) == IF starts = {} THEN 0 ELSE time
      longest(weight(_)) == ToTime(RunDP(G, t, Weigh(G, weight), TRUE, starts))
      wcrt == longest(LAMBDA e : e.dwell_max)
      shortest == ToTime(RunDP(G, t, Weigh(G, LAMBDA e : e.dwell_min), FALSE, starts))
      bcrt == IF shortest # INF /\ info.bcet > shortest THEN info.bcet ELSE shortest
  IN [activations |-> Cardinality(Releases(G, t))
                        + (IF StartedReleased(G, t, initial) THEN 1 ELSE 0),
      in_flight |-> Max({MapThenSumSet(LAMBDA p : TokensAt(G, v, p), G.task[t].places)
                           : v \in Vertices(G)}),
      missed |-> \E v \in Vertices(G) : Missed(G, t, v),
      wcrt |-> wcrt,
      bcrt |-> observed(bcrt),
      jitter |-> IF wcrt = INF THEN INF
                 ELSE IF bcrt = INF THEN 0 ELSE observed(Max({0, wcrt - bcrt})),
      interference |-> longest(LAMBDA e : IF IsSuspended(G, t, e.src)
                                          THEN e.dwell_max ELSE 0),
      blocking |-> longest(LAMBDA e : IF BlockedByLower(G, t, e.src)
                                      THEN e.dwell_max ELSE 0),
      preemptions |-> longest(LAMBDA e : IF /\ IsActive(G, t, e.src)
                                            /\ IsSuspended(G, t, e.dst) THEN 1 ELSE 0),
      slack |-> IF info.deadline = 0 THEN INF
                ELSE observed(IF wcrt = INF THEN INF ELSE info.deadline - wcrt)]

-----------------------------------------------------------------------------
(* Locks.  A lock is held in a vertex without a token in its place; the    *)
(* vertex is left within the longest of its dwell times.                   *)
HeldAt(G, l) == {v \in Vertices(G) : TokensAt(G, v, l) = 0}

ShortestStay(G, v) ==           \* variant: the wrong end of the dwell times
  Max({e.dwell_min : e \in ToSet(G.out[v])} \cup {0})
LongestStay(G, v) ==
  LET dwells == {e.dwell_max : e \in ToSet(G.out[v])}
  IN  Max(dwells \cup {0})

Contended(G, l, v) ==
  \E t \in DOMAIN G.task :
     /\ l[2] \in G.task[t].info.locks
     /\ InFlight(G, t, v) /\ ~ IsActive(G, t, v)

SumOfStays(G, S) == FoldSet(LAMBDA v, sum : Plus(LongestStay(G, v), sum), 0, S)

LockMetrics(G, l) ==
  LET held == HeldAt(G, l)
  IN [worst_hold |-> Max({LongestStay(G, v) : v \in held} \cup {0}),
      total_hold |-> SumOfStays(G, held),
      total_wait |-> SumOfStays(G, {v \in held : Contended(G, l, v)})]

-----------------------------------------------------------------------------
(* Utilisation: the hyperperiod, the demand of a core in it, and Tarjan's  *)
(* strongly connected components.                                          *)
LCM(a, b) ==
  IF 0 \in {a, b} THEN 0 ELSE Min({n \in 1 .. a * b : n % a = 0 /\ n % b = 0})

Hyperperiod(G) ==
  FoldSet(LAMBDA p, h : IF h = 0 THEN p ELSE LCM(h, p), 0,
          {G.task[t].info.period : t \in DOMAIN G.task} \ {0})

Demanded(G, c, time(_)) ==
  MapThenSumSet(LAMBDA t : time(G.task[t].info) * (Hyperperiod(G) \div G.task[t].info.period),
                {t \in DOMAIN G.task : G.task[t].info.core = c /\ G.task[t].info.period > 0})

(* S is the state of Tarjan's algorithm: index and lowlink of the vertices *)
(* visited, the stack, and the components found so far.                    *)
RECURSIVE StrongConnect(_, _, _)
RECURSIVE FollowEdges(_, _, _, _)

StrongConnect(G, v, S) ==
  LET n == Cardinality(DOMAIN S.index)
      S1 == FollowEdges(G, v, 1, [S EXCEPT !.index = (v :> n) @@ @,
                                           !.low = (v :> n) @@ @,
                                           !.stack = Append(@, v)])
      root == CHOOSE i \in DOMAIN S1.stack : S1.stack[i] = v
  IN  IF S1.low[v] # S1.index[v] THEN S1
      ELSE [S1 EXCEPT !.stack = SubSeq(@, 1, root - 1),
                      !.components = Append(@, ToSet(SubSeq(S1.stack, root, Len(S1.stack))))]

FollowOnce(G, v, i, S) ==       \* variant: the lowlink of a child is not taken over
  IF i > Len(G.out[v]) THEN S
  ELSE LET x == G.out[v][i].dst
           S1 == IF x \in DOMAIN S.index THEN S ELSE StrongConnect(G, x, S)
       IN  FollowEdges(G, v, i + 1,
             IF x \in ToSet(S1.stack) THEN [S1 EXCEPT !.low[v] = Min({@, S1.index[x]})] ELSE S1)
FollowEdges(G, v, i, S) ==
  IF i > Len(G.out[v]) THEN S
  ELSE LET x == G.out[v][i].dst
           S1 == IF x \in DOMAIN S.index THEN S ELSE StrongConnect(G, x, S)
           low == IF x \notin DOMAIN S.index THEN S1.low[x]
                  ELSE IF x \in ToSet(S.stack) THEN S.index[x] ELSE S.low[v]
       IN  FollowEdges(G, v, i + 1, [S1 EXCEPT !.low[v] = Min({@, low})])

Components(G) ==
  FoldLeft(LAMBDA S, v : IF v \in DOMAIN S.index THEN S ELSE StrongConnect(G, v, S),
           [index |-> [v \in {} |-> 0], low |-> [v \in {} |-> 0],
            stack |-> <<>>, components |-> <<>>],
           InOrder(Vertices(G))).components

(* A component recurs if an edge stays inside it; the first largest one    *)
(* counts, and without one the whole graph.                                *)
Recurs(G, C) == \E v \in C : \E e \in ToSet(G.out[v]) : e.dst \in C

SteadyRegion(G) ==
  LET recurrent == SelectSeq(Components(G), LAMBDA C : Recurs(G, C))
      largest == Max({Cardinality(C) : C \in ToSet(recurrent)} \cup {0})
  IN  IF recurrent = <<>> THEN {}
      ELSE Head(SelectSeq(recurrent, LAMBDA C : Cardinality(C) = largest))

(* Twice the sum of the mid-points of the dwell times of a region.         *)
DwellOf(G, region) ==
  LET twice(e) == IF e.dwell_max = INF THEN 2 * e.dwell_min ELSE e.dwell_min + e.dwell_max
      all == UNION {ToSet(G.out[v]) : v \in region}
  IN  MapThenSumSet(twice, all)

CoreMetrics(G, c, steady) ==
  LET region == IF steady = {} THEN Vertices(G) ELSE steady
  IN [util_min |-> Demanded(G, c, LAMBDA info : info.bcet),
      util_max |-> Demanded(G, c, LAMBDA info : info.wcet),
      busy |-> DwellOf(G, {v \in region : CoreBusy(G, c, v)}),
      total |-> DwellOf(G, region)]

RealCores(G) == {G.task[t].info.core : t \in DOMAIN G.task} \ {-1}

-----------------------------------------------------------------------------
(* analyze.  `overflowed` are the places recorded while the graph was      *)
(* built.                                                                  *)
Analyze(G, initial, overflowed) ==
  LET miss == Witness(G, initial)
      deadlocks == DeadlockStates(G)
      steady == SteadyRegion(G)
  IN [max_tokens |-> MaxTokens(G),
      bounded |-> overflowed = {},
      deadlocks |-> deadlocks,
      witness |-> miss,
      schedulable |-> miss = <<>> /\ deadlocks = {},
      task |-> [t \in DOMAIN G.task |-> TaskMetrics(G, t, initial)],
      lock |-> [l \in G.locks |-> LockMetrics(G, l)],
      hyperperiod |-> Hyperperiod(G),
      steady |-> steady,
      core |-> [c \in RealCores(G) |-> CoreMetrics(G, c, steady)]]
=============================================================================
