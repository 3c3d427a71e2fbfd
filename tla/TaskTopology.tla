---------------------------- MODULE TaskTopology ----------------------------
(***************************************************************************)
(* What the metrics know about the tasks of a lowered net: the task_info   *)
(* that the lowering leaves in it (TDG2PN::populate_task_info) and the     *)
(* topology the analyser reads off it (MetricsAnalyzer::build_topology).   *)
(***************************************************************************)
EXTENDS Lowering

-----------------------------------------------------------------------------
(* The last binding of a task counts, then its first self-loop.            *)
PeriodOf(g, t) ==
  LET bound == SelectSeq(g.periodic, LAMBDA b : b.task = t)
      loops == SelectSeq(g.edges, LAMBDA e : /\ e.source = t
                                             /\ IsSelfLoop(e) /\ e.label # <<>>)
  IN  IF bound # <<>> THEN Last(bound).period
      ELSE IF loops # <<>> THEN Head(loops).label[1] ELSE 0

(* The shortest (1) or longest (2) execution time of all segments.         *)
FirstSegment(g, t, end) == g.node[t].time[1][end]                 \* variant
Demand(g, t, end) == MapThenSumSet(LAMBDA i : g.node[t].time[i][end], DOMAIN g.node[t].time)

TaskInfo(g, t) ==
  [core |-> g.node[t].core, priority |-> g.node[t].priority, locks |-> ToSet(Locks(g, t)),
   bcet |-> Demand(g, t, 1), wcet |-> Demand(g, t, 2),
   period |-> PeriodOf(g, t), deadline |-> PeriodOf(g, t)]

-----------------------------------------------------------------------------
(* The number of the transition at position k of the chain of t.           *)
NumberAt(g, t, k) ==
  LET before == {i \in DOMAIN g.order : \E j \in DOMAIN g.order : i < j /\ g.order[j] = t}
  IN  MapThenSumSet(LAMBDA i : Len(NodeSteps(g, g.order[i])), before) + (k - 1) \div 2

(* Of the places that are called "timeout" the last one is looked at.      *)
LastSelfLoop(g, t) ==
  LET loops == {i \in SelfLoops(g) : g.edges[i].source = t}
  IN  {i \in loops : \A j \in loops : j <= i}

ChainPositions(g, t, parity) == {k \in 0 .. ChainLength(g, t) - 1 : k % 2 = parity}

Topology(g) ==
  [t \in Tasks(g) |->
     [info |-> TaskInfo(g, t),
      places |-> {Chain(t, k) : k \in ChainPositions(g, t, 0)},
      transitions |-> {NumberAt(g, t, k) : k \in ChainPositions(g, t, 1)},
      exec |-> {NumberAt(g, t, k) : k \in {i \in ChainPositions(g, t, 1) : IsSegment(g, t, i)}},
      entry |-> Entry(g, t),
      end |-> Exit(g, t),
      timeout |-> {Monitor(i, "timeout") : i \in LastSelfLoop(g, t)}]]

LockPlaces(g) == {Lock(l) : l \in UNION {ToSet(Locks(g, t)) : t \in Tasks(g)}}
=============================================================================
