------------------------------ MODULE Lowering ------------------------------
(***************************************************************************)
(* The lowering of a task dependency graph to a priority timed net, of     *)
(* src/src/tdg2pn/tdg2pn.cpp: TDG2PN::transform as a function from graphs  *)
(* to nets.                                                                *)
(*                                                                         *)
(* A graph g is a record:                                                  *)
(*   node     name -> [kind, core, priority, time, lock]: `time` is the    *)
(*            sequence of segments <<shortest, longest>>, `lock` the       *)
(*            sequence of locks, taken in this order                       *)
(*   order    the names, in the order in which the hash table nodes_type   *)
(*            is traversed: any order                                      *)
(*   edges    sequence of [source, target, label, dashed]                  *)
(*   start    task -> initial tokens          ends       set of end tasks  *)
(*   periodic sequence of [task, period]      spin       the spin locks    *)
(*   policy, num_cpus, cores_per_cpu, capacity: the configuration          *)
(*                                                                         *)
(* Places are named by what they are for; transitions are numbered in the  *)
(* order of creation, which decides ties in the scheduler.                 *)
(*                                                                         *)
(* What the module takes for granted is IsGraph below, and that without    *)
(* the resume policy the core of a task is below num_cpus.                 *)
(***************************************************************************)
EXTENDS PTPN, SequencesExt

ControlCore == -1
ControlPriority == 0

KindOf(g, n) == g.node[n].kind
IsTask(g, n) == KindOf(g, n) = "task"
IsControl(g, n) == KindOf(g, n) \in {"fork", "join"}
Tasks(g) == {n \in DOMAIN g.node : IsTask(g, n)}
IsResume(g) == g.policy \in {"fixed", "fixed_prior_with_resume"}
IsSelfLoop(e) == e.source = e.target
EdgesOf(g) == ToSet(g.edges)
HasSelfLoop(g, n) == \E e \in EdgesOf(g) : e.source = n /\ IsSelfLoop(e)

IsSequence(s) == s \in Seq(ToSet(s))

(* What the validation of json.cpp accepts, except that self-loops at      *)
(* forks and joins are left out.  A task may name the same lock twice.     *)
IsGraph(g) ==
  /\ IsSequence(g.order) /\ ToSet(g.order) = DOMAIN g.node
  /\ \A n \in DOMAIN g.node : KindOf(g, n) \in {"task", "fork", "join", "empty"}
  /\ \A t \in Tasks(g) : /\ g.node[t].core \in Nat
                         /\ IsSequence(g.node[t].lock)
                         /\ Len(g.node[t].time) = 2 * Len(g.node[t].lock) + 1
  /\ IsSequence(g.edges)
  /\ \A e \in EdgesOf(g) : /\ {e.source, e.target} \subseteq DOMAIN g.node
                           /\ IsSelfLoop(e) => ~ IsControl(g, e.source)
  /\ IsSequence(g.periodic)
  /\ \A b \in ToSet(g.periodic) : b.task \in Tasks(g) /\ b.period \in Nat \ {0}
  /\ DOMAIN g.start \cup g.ends \subseteq Tasks(g)
  /\ g.capacity \in Nat \ {0}

-----------------------------------------------------------------------------
(* Places.  Chain(t, k), k even, is the place at position k of the chain   *)
(* of task t: 0 is the entry, 2 the ready place, the last one the exit.    *)
Chain(t, k) == <<"chain", t, k>>
Empty(n) == <<"empty", n>>
Period(i) == <<"period", i>>                 \* of the i-th periodic binding
Monitor(i, role) == <<"monitor", i, role>>    \* of the i-th edge, a self-loop
Core(c) == <<"core", c>>
Lock(l) == <<"lock", l>>

Locks(g, t) == g.node[t].lock
NumLocks(g, t) == Len(Locks(g, t))
ChainLength(g, t) == 6 * NumLocks(g, t) + 5

Entry(g, n) == IF IsTask(g, n) THEN Chain(n, 0) ELSE Empty(n)
Exit(g, n) == IF IsTask(g, n) THEN Chain(n, ChainLength(g, n) - 1) ELSE Empty(n)

-----------------------------------------------------------------------------
(* Transitions, with arcs of weight one.  `marks` are the numbers of the   *)
(* transitions that are made suspendable when this one is created.         *)
Closed(e, l) == [earliest |-> e, latest |-> l,
                 left_open |-> FALSE, right_open |-> FALSE]

ControlStep(in, out, interval) ==
  [in |-> in, out |-> out, interval |-> interval, priority |-> ControlPriority,
   core |-> ControlCore, suspendable |-> FALSE, marks |-> {}]

(* The transition at position k (odd) of a chain takes the token from      *)
(* place k-1 to place k+1.  Position 1 is get_core, 5, 9, ... take a lock; *)
(* all others are segments, the last of which give the locks back, most    *)
(* recently taken first.                                                   *)
AcquiredAt(g, t, k) ==
  {Locks(g, t)[j] : j \in {i \in 1 .. NumLocks(g, t) : k = 5 + 4 * (i - 1)}}

ReleasedInOrder(g, t, k) ==     \* variant: first taken, first given back
  {Locks(g, t)[j] : j \in {i \in 1 .. NumLocks(g, t) :
     k = ChainLength(g, t) - 4 - 2 * (NumLocks(g, t) - i)}}
ReleasedPastEnd(g, t, k) ==     \* variant: counted from the end of the chain
  {Locks(g, t)[j] : j \in {i \in 1 .. NumLocks(g, t) :
     k = ChainLength(g, t) - 2 * (i - 1)}}
ReleasedAt(g, t, k) ==
  {Locks(g, t)[j] : j \in {i \in 1 .. NumLocks(g, t) :
     k = ChainLength(g, t) - 4 - 2 * (i - 1)}}

SegmentAt(g, t, k) ==
  IF k <= 3 + 4 * NumLocks(g, t) THEN (k - 3) \div 4
                                 ELSE (k - 3 - 2 * NumLocks(g, t)) \div 2

IsSegment(g, t, k) == k > 1 /\ AcquiredAt(g, t, k) = {}

(* Segments may be suspended under the resume policy, unless the lock of   *)
(* the same index is a spin lock.                                          *)
SegmentSuspendable(g, t, k) ==
  LET i == SegmentAt(g, t, k)
  IN  IsResume(g) /\ ~ (i < NumLocks(g, t) /\ Locks(g, t)[i + 1] \in g.spin)

CoreTaken(g, t, k) ==
  IF ~ IsResume(g) /\ k = 1 THEN {Core(g.node[t].core)} ELSE {}
CoreGiven(g, t, k) ==
  IF ~ IsResume(g) /\ k = ChainLength(g, t) - 2 THEN {Core(g.node[t].core)} ELSE {}

(* The restart policy lets h preempt l: same core, lower priority.         *)
Preempts(g, h, l) ==
  /\ g.policy = "fixed_prior_with_restart"
  /\ {h, l} \subseteq Tasks(g)
  /\ g.node[h].core = g.node[l].core
  /\ g.node[h].priority > g.node[l].priority

ChainStep(g, t, k) ==
  LET segment == g.node[t].time[SegmentAt(g, t, k) + 1]
      timed == IsSegment(g, t, k)
  IN  [in |-> {Chain(t, k - 1)} \cup CoreTaken(g, t, k)
                \cup {Lock(l) : l \in AcquiredAt(g, t, k)},
       out |-> {Chain(t, k + 1)} \cup CoreGiven(g, t, k)
                \cup {Lock(l) : l \in ReleasedAt(g, t, k)},
       interval |-> IF timed THEN Closed(segment[1], segment[2]) ELSE Closed(0, 0),
       priority |-> g.node[t].priority,
       core |-> g.node[t].core,
       suspendable |-> /\ timed
                       /\ \/ SegmentSuspendable(g, t, k)
                          \/ k = 3 /\ \E h \in Tasks(g) : Preempts(g, h, t),
       marks |-> {}]

ChainSteps(g, t) ==
  [i \in 1 .. 3 * NumLocks(g, t) + 2 |-> ChainStep(g, t, 2 * i - 1)]

(* A normal edge ties two nodes together.  At a fork or join it is an arc. *)
Ties(e) == ~ IsSelfLoop(e) /\ ~ e.dashed
TiesInto(g, n) == {e \in EdgesOf(g) : Ties(e) /\ e.target = n}
TiesFrom(g, n) == {e \in EdgesOf(g) : Ties(e) /\ e.source = n}

JoinsAnyOf(g, n) ==             \* variant: each edge replaces the arc before it
  {Exit(g, e.source) : e \in {CHOOSE e \in TiesInto(g, n) : TRUE}}
JoinsAllOf(g, n) == {Exit(g, e.source) : e \in TiesInto(g, n)}

ForkOrJoin(g, n) ==
  [in |-> JoinsAllOf(g, n),
   out |-> {Entry(g, e.target) : e \in TiesFrom(g, n)},
   interval |-> Closed(g.node[n].time[1][1], g.node[n].time[1][2]),
   priority |-> g.node[n].priority, core |-> g.node[n].core,
   suspendable |-> FALSE, marks |-> {}]

NodeSteps(g, n) ==
  IF IsTask(g, n) THEN ChainSteps(g, n)
  ELSE IF IsControl(g, n) THEN <<ForkOrJoin(g, n)>> ELSE <<>>

VertexSteps(g) == FlattenSeq([i \in DOMAIN g.order |-> NodeSteps(g, g.order[i])])

-----------------------------------------------------------------------------
(* Edges.  A label is <<>>, <<a>>, <<a, b>> or malformed (any other, also  *)
(* one with a number that no `long` holds); "inf" is INF.  The numbers are *)
(* read as `long` and become `int` without a look at what is lost: the     *)
(* number INF + 1 becomes -INF - 1.                                        *)
AsInt(number) ==
  IF number <= INF THEN number
  ELSE ((number + INF + 1) % (2 * (INF + 1))) - (INF + 1)

LabelInterval(label) ==
  LET a == AsInt(label[1])
      b == AsInt(label[Len(label)])
  IN  IF label \in Seq(Nat) /\ Len(label) \in {1, 2} /\ a # INF /\ a <= b
      THEN Closed(a, b) ELSE Closed(0, 0)

(* A self-loop becomes a monitor; T units after a token arrives in the     *)
(* entry place, the first of its steps takes that token.                   *)
MonitorSteps(g, i) ==
  LET t == g.edges[i].source
      place(role) == {Monitor(i, role)}
      at(in, out, T) == ControlStep(in, out, Closed(T, T))
  IN  <<at({Entry(g, t)}, place("deadline"), g.edges[i].label[1]),
        at({Exit(g, t)}, place("end"), 0),
        at(place("end"), place("ok"), 0),
        at(place("deadline"), place("timeout"), 0)>>

(* A tie that is a transition of its own, with the interval of its label.  *)
Bridges(g, e) == Ties(e) /\ ~ IsControl(g, e.source) /\ ~ IsControl(g, e.target)

EdgeSteps(g, i) ==
  LET e == g.edges[i]
  IN  IF IsSelfLoop(e) THEN MonitorSteps(g, i)
      ELSE IF Bridges(g, e)
           THEN <<ControlStep({Exit(g, e.source)}, {Entry(g, e.target)},
                              LabelInterval(e.label))>>
           ELSE <<>>

StepsOfEdges(g, n) == FlattenSeq([i \in 1 .. n |-> EdgeSteps(g, i)])

(* The monitor of the i-th edge draws one of its arcs from the deadline    *)
(* place to the transition whose number is that of the place "ok".         *)
PlacesOfNode(g, n) ==
  IF IsTask(g, n) THEN 3 * NumLocks(g, n) + 3
  ELSE IF IsControl(g, n) THEN 0 ELSE 1

OkIndex(g, i) ==
  MapThenSumSet(LAMBDA n : PlacesOfNode(g, n), DOMAIN g.node)
    + 4 * Cardinality({j \in 1 .. i : IsSelfLoop(g.edges[j])}) - 2

SelfLoops(g) == {i \in DOMAIN g.edges : IsSelfLoop(g.edges[i])}
StrayArcs(g) ==
  {<<Monitor(i, "deadline"), OkIndex(g, i)>> : i \in SelfLoops(g)}

(* The graphs for which transform throws instead of returning a net: a tie *)
(* between forks and joins, a label that has become negative, a stray arc  *)
(* to a transition that does not exist, a self-loop without a number that  *)
(* fits, or with a negative one.                                           *)
Throws(g) ==
  \/ \E e \in EdgesOf(g) :
        Ties(e) /\ IsControl(g, e.source) /\ IsControl(g, e.target)
  \/ \E e \in EdgesOf(g) : Bridges(g, e) /\ LabelInterval(e.label).earliest < 0
  \/ \E i \in SelfLoops(g) :
        \/ OkIndex(g, i) >= Len(VertexSteps(g)) + Len(StepsOfEdges(g, i))
        \/ g.edges[i].label = <<>> \/ g.edges[i].label[1] \notin 0 .. INF - 1

-----------------------------------------------------------------------------
(* Periodic releases, consumers of finished jobs, restart preemption.      *)
ReleaseBelow(g, i) ==           \* variant: releases yield to other control steps
  LET b == g.periodic[i]
  IN  [ControlStep({Period(i)}, {Period(i), Entry(g, b.task)}, Closed(b.period, b.period))
         EXCEPT !.priority = ControlPriority - 1]
Release(g, i) ==
  LET b == g.periodic[i]
  IN  ControlStep({Period(i)}, {Period(i), Entry(g, b.task)}, Closed(b.period, b.period))

(* The numbers of the bindings that become releases.                       *)
Released(g) == {i \in DOMAIN g.periodic : ~ HasSelfLoop(g, g.periodic[i].task)}

ReleaseSteps(g) ==
  LET steps(i) == IF i \in Released(g) THEN <<Release(g, i)>> ELSE <<>>
  IN  FlattenSeq([i \in 1 .. Len(g.periodic) |-> steps(i)])

Consumed(g) ==
  g.ends \cup {t \in Tasks(g) :
                 ~ \E e \in EdgesOf(g) : e.source = t /\ ~ IsSelfLoop(e)}

ConsumeSteps(g) ==              \* control steps never tie, so any order will do
  LET ts == SetToSeq(Consumed(g))
  IN  [i \in 1 .. Cardinality(Consumed(g)) |->
         ControlStep({Exit(g, ts[i])}, {}, Closed(0, 0))]

(* h takes over the core that l holds at place k; l starts again.          *)
Takeover(g, h, l, k, marks) ==
  [in |-> {Entry(g, h), Chain(l, k)}, out |-> {Chain(h, 2), Entry(g, l)},
   interval |-> Closed(0, 0), priority |-> g.node[h].priority,
   core |-> g.node[h].core, suspendable |-> FALSE, marks |-> marks]

MutexesFirst(g, l) ==
  Cardinality({j \in 1 .. NumLocks(g, l) :
                 \A i \in 1 .. j : Locks(g, l)[i] \notin g.spin})

PreemptSteps(g, h, l) ==
  <<Takeover(g, h, l, 2, {})>> \o
  [j \in 1 .. MutexesFirst(g, l) |->
     Takeover(g, h, l, ChainLength(g, l) - 3 - 2 * j, {ChainLength(g, l) - 2 - 2 * j})]

(* The tasks by falling priority, equal ones in any order.                 *)
ByPriority(g) ==
  SortSeq(SelectSeq(g.order, LAMBDA n : IsTask(g, n)),
          LAMBDA m, n : g.node[m].priority > g.node[n].priority)

RestartSteps(g) ==
  LET ts == ByPriority(g)
      ranks == 1 .. Cardinality(Tasks(g))
      steps(h, l) == IF Preempts(g, h, l) THEN PreemptSteps(g, h, l) ELSE <<>>
  IN  FlattenSeq([i \in ranks |-> FlattenSeq([j \in ranks |-> steps(ts[i], ts[j])])])

Steps(g) == VertexSteps(g) \o StepsOfEdges(g, Len(g.edges))
              \o ReleaseSteps(g) \o ConsumeSteps(g) \o RestartSteps(g)

-----------------------------------------------------------------------------
(* Attributes of the places and the net itself.                            *)
CapacityOf(g, p) ==
  CASE p[1] = "chain" -> g.capacity
    [] p[1] = "core" -> g.cores_per_cpu
    [] OTHER -> 1

Saturates(p) == p[1] \in {"chain", "period"}

InitialTokens(g, p) ==
  CASE p[1] = "chain" -> IF p[3] = 0 /\ p[2] \in DOMAIN g.start THEN g.start[p[2]] ELSE 0
    [] p[1] = "core" -> g.cores_per_cpu
    [] p[1] \in {"lock", "period"} -> 1
    [] OTHER -> 0

Cpus(g) == 0 .. g.num_cpus - 1

PlacesOf(g) ==
  (UNION {s.in \cup s.out : s \in ToSet(Steps(g))})
    \cup {Empty(n) : n \in {m \in DOMAIN g.node : KindOf(g, m) = "empty"}}
    \cup (IF IsResume(g) THEN {} ELSE {Core(c) : c \in Cpus(g)})

Lowered(g) ==
  LET S == Steps(g)
      T == 0 .. Len(S) - 1
      P == PlacesOf(g)
      arc(connected) == IF connected THEN 1 ELSE 0
  IN [places |-> P,
      transitions |-> T,
      capacity |-> [p \in P |-> CapacityOf(g, p)],
      saturate |-> [p \in P |-> Saturates(p)],
      Pre |-> [p \in P |-> [t \in T |->
                 arc(p \in S[t + 1].in \/ <<p, t>> \in StrayArcs(g))]],
      Post |-> [t \in T |-> [p \in P |-> arc(p \in S[t + 1].out)]],
      interval |-> [t \in T |-> S[t + 1].interval],
      priority |-> [t \in T |-> S[t + 1].priority],
      core |-> [t \in T |-> S[t + 1].core],
      suspendable |-> [t \in T |-> \/ S[t + 1].suspendable
                                   \/ \E u \in T : t < u /\ t \in S[u + 1].marks],
      core_parallelism |-> IF IsResume(g) THEN [c \in Cpus(g) |-> 1] ELSE [c \in {} |-> 0],
      M0 |-> [p \in P |-> InitialTokens(g, p)]]
=============================================================================
