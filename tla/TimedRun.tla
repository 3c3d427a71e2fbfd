------------------------------ MODULE TimedRun ------------------------------
(***************************************************************************)
(* One timed run of a priority timed net: the explicit-state meaning of    *)
(* the state classes of src/src/analysis/ptpn_analysis.cpp.  A run keeps a *)
(* marking and one value per clock where a state class keeps a marking and *)
(* a zone:                                                                 *)
(*   h[t]  how long enabled transition t has effectively been running,     *)
(*   w[t]  how long suspendable transition t has been suspended.           *)
(* Time is counted in integer units.  The net is the analyser's input: it  *)
(* is chosen once, from Nets.                                              *)
(***************************************************************************)
EXTENDS Scheduling

CONSTANTS Nets,      \* the nets a run may be a run of
          MaxClock   \* bound: no running clock is advanced beyond it

ASSUME NetsAssumption ==
  /\ \A net \in Nets : IsNet(net)
  /\ MaxClock \in Nat
  /\ MaxClock < INF

VARIABLES net, marking, h, w,
          overflow   \* places for which record_overflow was called

vars == <<net, marking, h, w, overflow>>

-----------------------------------------------------------------------------
Enabled == StructEnabled(net, marking)
Active == PriorityEnabled(net, marking)
Stopped == Suspended(net, marking)

(* Every clock starts at zero (compute_initial_class).                     *)
Init ==
  /\ net \in Nets
  /\ marking = net.M0
  /\ h = [t \in net.transitions |-> 0]
  /\ w = [t \in net.transitions |-> 0]
  /\ overflow = {}

(* Variant: one unit past the deadline.                                    *)
MayOverrun == \A t \in Active : h[t] <= Latest(net, t)

(* Strong time semantics: time stops at the deadline of an active          *)
(* transition.                                                             *)
MayElapse == \A t \in Active : h[t] < Latest(net, t)

WithinBound ==
  /\ \A t \in Active : h[t] < MaxClock
  /\ \A t \in Stopped : w[t] < MaxClock

(* One unit of time: the execution clocks of the active transitions and    *)
(* the suspension clocks run, every other clock stays put.                 *)
Advanced(clock, running) ==
  [t \in net.transitions |-> IF t \in running THEN clock[t] + 1 ELSE clock[t]]

CanElapse == MayElapse /\ WithinBound

Elapse ==
  /\ CanElapse
  /\ h' = Advanced(h, Active)
  /\ w' = Advanced(w, Stopped)
  /\ UNCHANGED <<net, marking, overflow>>

IsFirableLate(t) == t \in Active /\ h[t] > Earliest(net, t)   \* variant
IsFirable(t) == t \in Active /\ h[t] >= Earliest(net, t)

(* Variant: clocks of transitions that the firing disables are not reset.  *)
SurvivingAlways(clock, before, after, t) ==
  [u \in net.transitions |-> IF u # t THEN clock[u] ELSE 0]

(* A clock survives the firing of t if its variable exists on both sides   *)
(* and does not belong to t itself; a fresh clock starts at zero.          *)
Surviving(clock, before, after, t) ==
  [u \in net.transitions |->
     IF u # t /\ u \in before /\ u \in after THEN clock[u] ELSE 0]

After(t) == FireMarking(marking, net, t)
ExecutionRestarted(t) ==          \* variant: a preempted segment restarts
  Surviving(h, Active, PriorityEnabled(net, After(t)), t)
ExecutionAfter(t) == Surviving(h, Enabled, StructEnabled(net, After(t)), t)
SuspensionAfter(t) == Surviving(w, Stopped, Suspended(net, After(t)), t)

Fire(t) ==
  /\ IsFirable(t)
  /\ marking' = After(t)
  /\ h' = ExecutionAfter(t)
  /\ w' = SuspensionAfter(t)
  /\ overflow' = overflow \cup RecordedOverflow(marking, net, t)
  /\ UNCHANGED net

Next == Elapse \/ \E t \in net.transitions : Fire(t)

Spec == Init /\ [][Next]_vars

-----------------------------------------------------------------------------
(* The variables have the shape the code gives them; tokens are never      *)
(* negative and a clock runs only while its variable exists.               *)
TypeOK ==
  /\ net \in Nets
  /\ marking \in [net.places -> Nat]
  /\ h \in [net.transitions -> Nat]
  /\ w \in [net.transitions -> Nat]
  /\ overflow \subseteq net.places

(* No enabled transition is ever past its latest firing time, also when it *)
(* was frozen by preemption in between and resumed later (the caps that    *)
(* time_elapse puts on active clocks are the only ones).                   *)
WithinLatest == \A t \in Enabled : h[t] <= Latest(net, t)

(* A clock that belongs to no variable of the current layout holds nothing *)
(* over to the next activation: a task released again starts from zero.    *)
NoStaleClock ==
  /\ \A t \in net.transitions \ Enabled : h[t] = 0
  /\ \A t \in net.transitions \ Stopped : w[t] = 0

(* Mutual exclusion of the resume policy: on a core whose parallelism is   *)
(* bounded by one, at most one transition runs.                            *)
OneRunningPerCore ==
  \A t, u \in Active :
     /\ net.core[t] = net.core[u]
     /\ ParallelismOfCore(net, net.core[t]) = 1
     => t = u

(* The general bound: never more than K active transitions on a core with  *)
(* parallelism K.                                                          *)
CoreParallelismRespected ==
  \A t \in Active :
     LET K == ParallelismOfCore(net, net.core[t])
     IN  K > 0 => Cardinality(CoreGroup(net, Active, t)) <= K

(* The scheduler is work conserving: a core with an enabled transition has *)
(* an active one, of maximal priority among its enabled transitions.       *)
WorkConserving ==
  \A t \in Enabled : \E u \in Active :
     /\ net.core[u] = net.core[t]
     /\ \A v \in CoreGroup(net, Enabled, t) : net.priority[v] <= net.priority[u]

(* Time never gets stuck: when a deadline blocks it, the transition that   *)
(* blocks it can fire.                                                     *)
NoTimelock == MayElapse \/ \E t \in net.transitions : IsFirable(t)

(* Preemption costs no work: the execution clock of a transition that      *)
(* stays enabled goes back only by its own firing, which needs it active   *)
(* and inside its interval ("resumes from the exact frozen value").        *)
ProgressKept ==
  [][\A t \in net.transitions :
       h'[t] < h[t] /\ t \in Enabled' => IsFirable(t)]_vars
=============================================================================
