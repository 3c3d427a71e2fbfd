---------------------------- MODULE GraphOfRuns ----------------------------
(***************************************************************************)
(* What the state-class graph is for.  Once build has finished without     *)
(* truncating, every timed run of the net must be a path of the graph: the *)
(* run starts in vertex 1 and every firing of the run follows an edge.     *)
(* This module builds the graph and then lets a run walk on it.            *)
(***************************************************************************)
EXTENDS StateClassGraph

CONSTANT MaxClock   \* bound: no running clock of the run passes it

ASSUME MaxClockAssumption == MaxClock \in Nat /\ MaxClock < INF

VARIABLES marking, h, w, overflow,   \* the run, see TimedRun
          at,                        \* the vertex the run is in
          stay                       \* time since then, at most MaxClock

Run == INSTANCE TimedRun

runVars == <<marking, h, w, overflow>>
allVars == <<vars, runVars, at, stay>>

WalkInit ==
  /\ Init
  /\ Run!Init
  /\ at = 1
  /\ stay = 0

EdgesFor(t) == {e \in edges : e.src = at /\ e.t = t}

WalkElapse ==
  /\ Complete
  /\ Run!Elapse
  /\ stay' = IF stay < MaxClock THEN stay + 1 ELSE stay
  /\ UNCHANGED <<vars, at>>

WalkFire(t) ==
  /\ Complete
  /\ Run!Fire(t)
  /\ at' \in {e.dst : e \in EdgesFor(t)}
  /\ stay' = 0
  /\ UNCHANGED vars

BuildStep == Build /\ UNCHANGED <<runVars, at, stay>>

WalkNext ==
  \/ BuildStep
  \/ WalkElapse
  \/ \E t \in net.transitions : WalkFire(t)

WalkSpec == WalkInit /\ [][WalkNext]_allVars

-----------------------------------------------------------------------------
Valuation ==
  [i \in ClockVars(net, marking) |->
     CASE i[1] = "Zero" -> 0
       [] i[1] = "Execution" -> h[i[2]]
       [] i[1] = "Suspension" -> w[i[2]]]

(* Soundness of the zones: a run is always inside the time-elapsed zone of *)
(* the vertex it is in, and inside the vertex's own zone when it enters,   *)
(* whatever merging and extrapolation did to that vertex.                  *)
RunIsInClass ==
  Complete =>
    /\ marking = vertices[at].marking
    /\ M!Satisfies(Valuation, TimeElapse(net, vertices[at]).zone)
    /\ stay = 0 => M!Satisfies(Valuation, vertices[at].zone)

(* Completeness of the edges: whatever a run can do next is an edge of its *)
(* vertex, its clock is in the edge's firing window, and the time it spent *)
(* in the vertex is in the dwell window the metrics add up.                *)
FiringIsAnEdge ==
  Complete =>
    \A t \in net.transitions : Run!IsFirable(t) =>
      \E e \in EdgesFor(t) :
        /\ e.firing_min <= h[t] /\ h[t] <= e.firing_max
        /\ e.dwell_min <= stay /\ stay <= e.dwell_max
=============================================================================
