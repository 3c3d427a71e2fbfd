----------------------------- MODULE Exactness -----------------------------
(***************************************************************************)
(* The converse of GraphOfRuns: does the graph contain anything that no    *)
(* run does?  The module builds the graph and, if it is a complete one     *)
(* under EQUALITY, explores all timed runs of the net breadth-first and    *)
(* compares.                                                               *)
(***************************************************************************)
EXTENDS StateClassGraph

CONSTANTS MaxClock,
          Compared     \* the nets whose runs are explored

ASSUME ExploreAssumption == MaxClock \in Nat /\ MaxClock < INF

VARIABLES reached,   \* states of runs found so far
          wave       \* those found last

exploreVars == <<reached, wave>>

-----------------------------------------------------------------------------
(* A state of a run as a value, and TimedRun seen from it.                 *)
R(s) == INSTANCE TimedRun WITH marking <- s.marking, h <- s.h, w <- s.w,
                               overflow <- {}

Start ==
  LET Zeros == [t \in net.transitions |-> 0]
  IN  [marking |-> net.M0, h |-> Zeros, w |-> Zeros]

AfterFiring(s, t) ==
  [marking |-> R(s)!After(t),
   h |-> R(s)!ExecutionAfter(t), w |-> R(s)!SuspensionAfter(t)]

AfterElapse(s) ==
  [s EXCEPT !.h = R(s)!Advanced(s.h, R(s)!Active),
            !.w = R(s)!Advanced(s.w, R(s)!Stopped)]

Firable(s) == {t \in net.transitions : R(s)!IsFirable(t)}

NextStates(s) ==
  {AfterFiring(s, t) : t \in Firable(s)}
    \cup (IF R(s)!CanElapse THEN {AfterElapse(s)} ELSE {})

-----------------------------------------------------------------------------
Compares == Complete /\ mode = "EQUALITY" /\ net \in Compared

ExploreInit == Init /\ reached = {} /\ wave = {}

GraphSame == UNCHANGED <<input, vertices, edges, frontier, next_frontier, todo, truncated>>

BeginExploring ==
  /\ Compares /\ reached = {}
  /\ reached' = {Start} /\ wave' = {Start}
  /\ pc' = "exploring"
  /\ GraphSame

Explore ==
  /\ pc = "exploring" /\ wave # {}
  /\ wave' = (UNION {NextStates(s) : s \in wave}) \ reached
  /\ reached' = reached \cup wave'
  /\ UNCHANGED vars

EndExploring ==
  /\ pc = "exploring" /\ wave = {}
  /\ pc' = "done"
  /\ GraphSame /\ UNCHANGED exploreVars

Explored == Compares /\ reached # {}

Stop == pc = "done" /\ (Compares => Explored) /\ UNCHANGED <<vars, exploreVars>>

ExploreNext ==
  \/ Build /\ UNCHANGED exploreVars
  \/ BeginExploring \/ Explore \/ EndExploring
  \/ Stop

ExploreSpec == ExploreInit /\ [][ExploreNext]_<<vars, exploreVars>> /\ Fairness

-----------------------------------------------------------------------------
(* "EQUALITY keeps the graph exact": a marking of the graph is the marking *)
(* of some run.                                                            *)
NoSpuriousMarking ==
  Explored =>
    \A v \in DOMAIN vertices : \E s \in reached : s.marking = vertices[v].marking

(* Every edge is some run's firing between those two markings; and as long *)
(* as no clock is ever frozen, the ends of its firing window are values    *)
(* the clock really has at such a firing.                                  *)
NeverFrozen == \A s \in reached : R(s)!Enabled = R(s)!Active

EdgesAreFirings ==
  Explored =>
    \A e \in edges :
      LET from == vertices[e.src].marking
          to == vertices[e.dst].marking
          values == {s.h[e.t] : s \in {x \in reached :
                       /\ x.marking = from
                       /\ e.t \in Firable(x)
                       /\ R(x)!After(e.t) = to}}
      IN  /\ values # {}
          /\ NeverFrozen => /\ e.firing_min \in values
                            /\ e.firing_max \in values \cup {INF}
=============================================================================
