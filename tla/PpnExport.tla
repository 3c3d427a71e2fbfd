------------------------------ MODULE PpnExport ------------------------------
(***************************************************************************)
(* The PToPNer export: what it accepts (src/src/tdg2ptopner/validate.cpp)  *)
(* and the .ppn model it makes of a net (ptpn_to_ppn.cpp).                 *)
(*                                                                         *)
(* A .ppn file knows places and transitions by their positions, so a net   *)
(* comes with the sequence `place` of its places, and with the `role` of   *)
(* each transition, which the export guesses from its name: names that end *)
(* in "get_core" (get_core), contain "restart_preempt_" (preempt) or       *)
(* contain "exec" (exec), and all others (control).                        *)
(***************************************************************************)
EXTENDS Lowering

-----------------------------------------------------------------------------
(* Validation.                                                             *)
TimedNodes(g) == {n \in DOMAIN g.node : IsTask(g, n) \/ IsControl(g, n)}

PointIntervals(g) ==
  \A n \in TimedNodes(g) : \A range \in ToSet(g.node[n].time) : range[1] = range[2]

NoLocks(g) == \A n \in Tasks(g) : Locks(g, n) = <<>>

ValidWithLocks(g) ==            \* variant: locks are not looked at
  g.policy = "fixed_prior_with_restart" /\ PointIntervals(g)
ValidForPtopner(g) ==
  /\ g.policy = "fixed_prior_with_restart"
  /\ PointIntervals(g)
  /\ NoLocks(g)

-----------------------------------------------------------------------------
(* A lowered graph: its places in the order of creation and the roles that *)
(* the names of its transitions give them.                                 *)
NodePlaces(g, n) ==
  IF IsTask(g, n) THEN [k \in 1 .. PlacesOfNode(g, n) |-> Chain(n, 2 * (k - 1))]
  ELSE IF IsControl(g, n) THEN <<>> ELSE <<Empty(n)>>

MonitorPlaces(g, i) ==
  IF IsSelfLoop(g.edges[i])
  THEN [k \in 1 .. 4 |-> Monitor(i, <<"deadline", "timeout", "ok", "end">>[k])]
  ELSE <<>>

PeriodPlaces(g) ==
  LET places(i) == IF i \in Released(g) THEN <<Period(i)>> ELSE <<>>
  IN  FlattenSeq([i \in DOMAIN g.periodic |-> places(i)])

CorePlaces(g) == IF IsResume(g) THEN <<>> ELSE [i \in 1 .. g.num_cpus |-> Core(i - 1)]

LockPlaces(g) == SetToSeq({Lock(l) : l \in UNION {ToSet(Locks(g, t)) : t \in Tasks(g)}})

PlaceOrder(g) ==
  FlattenSeq([i \in DOMAIN g.order |-> NodePlaces(g, g.order[i])])
    \o FlattenSeq([i \in DOMAIN g.edges |-> MonitorPlaces(g, i)])
    \o PeriodPlaces(g) \o CorePlaces(g) \o LockPlaces(g)

NodeRoles(g, n) ==
  [i \in DOMAIN NodeSteps(g, n) |->
     IF ~ IsTask(g, n) THEN "control"
     ELSE IF i = 1 THEN "get_core"
     ELSE IF IsSegment(g, n, 2 * i - 1) THEN "exec" ELSE "control"]

(* Preempting the holder of a lock is "restart_lock_preempt_": control.    *)
PreemptRoles(steps) ==
  [i \in DOMAIN steps |->
     IF \E p \in steps[i].in : p[1] = "chain" /\ p[3] = 2 THEN "preempt" ELSE "control"]

ControlRoles(steps) == [i \in DOMAIN steps |-> "control"]

Roles(g) ==
  FlattenSeq([i \in DOMAIN g.order |-> NodeRoles(g, g.order[i])])
    \o ControlRoles(StepsOfEdges(g, Len(g.edges)) \o ReleaseSteps(g) \o ConsumeSteps(g))
    \o PreemptRoles(RestartSteps(g))

LoweredForExport(g) == [net |-> Lowered(g), place |-> PlaceOrder(g), role |-> Roles(g)]

-----------------------------------------------------------------------------
(* The model.  Priorities are tenths: a transition that takes a core goes  *)
(* just before a preemption, and that before the work itself.              *)
MapPrior(priority, role) ==
  CASE role = "control" -> 0
    [] role = "exec" -> 10 * priority
    [] role = "get_core" -> 10 * priority + 2
    [] role = "preempt" -> 10 * priority + 1

(* A transition that need not fire at its earliest time cannot be put into *)
(* a .ppn file, except that no latest time at all is taken for a point.    *)
Exportable(intervals) == \A i \in intervals : i.latest \in {i.earliest, INF}

IntervalsOf(net) == {net.interval[t] : t \in net.transitions}
LoweredIntervals(g) == {s.interval : s \in ToSet(Steps(g))}

(* Input arcs are looked for among the first |T| places only; weights are  *)
(* not kept.                                                               *)
Preset(e, t) ==
  {i \in DOMAIN e.place :
     i <= Cardinality(e.net.transitions) /\ e.net.Pre[e.place[i]][t] > 0}
Postset(e, t) == {i \in DOMAIN e.place : e.net.Post[t][e.place[i]] > 0}

PpnModel(e) ==
  [token |-> [i \in DOMAIN e.place |-> e.net.M0[e.place[i]]],
   transition |-> [t \in e.net.transitions |->
     [preset |-> Preset(e, t), postset |-> Postset(e, t),
      time |-> e.net.interval[t].earliest,
      prior |-> MapPrior(e.net.priority[t], e.role[t + 1]),
      is_suspend |-> e.role[t + 1] = "exec" /\ e.net.suspendable[t]]]]
=============================================================================
