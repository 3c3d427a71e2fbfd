------------------------ MODULE SymbolicReachability ------------------------
(***************************************************************************)
(* What build promises, without saying how.  A system has a first class;   *)
(* transitions can leave a class, and each has a successor.  Some graph of *)
(* classes is made, one arc at a time and in any order: an arc leaves a    *)
(* known class and leads to the successor, which is known from then on, or *)
(* to a known class that covers it.  An answer is called complete only     *)
(* when no arc is missing.  StateClassGraph implements this.               *)
(***************************************************************************)
CONSTANTS First(_),         \* the first class of a system
          Leaving(_, _),    \* the transitions that can leave a class
          Target(_, _, _),  \* the successor of a class by a transition
          Within(_, _)      \* whether a class is covered by another

VARIABLES system,           \* never changes
          known,            \* a set of classes
          arcs,             \* a set of [from, t, to]
          answer            \* "none", then "complete" or "truncated"

graphVars == <<system, known, arcs, answer>>

Init ==
  /\ known = {First(system)}
  /\ arcs = {}
  /\ answer = "none"

(* The new arc is whichever one arcs' has more than arcs.                  *)
AddArc ==
  /\ answer = "none"
  /\ \E arc \in arcs' \ arcs :
       LET successor == Target(system, arc.from, arc.t)
       IN  /\ arc.from \in known
           /\ arc.t \in Leaving(system, arc.from)
           /\ \/ arc.to = successor
              \/ arc.to \in known /\ Within(successor, arc.to)
           /\ arcs' = arcs \cup {arc}
           /\ known' = known \cup {arc.to}
  /\ UNCHANGED <<system, answer>>

Followed(class) == {a.t : a \in {x \in arcs : x.from = class}}

GiveAnswer ==
  /\ answer = "none"
  /\ answer' \in {"complete", "truncated"}
  /\ answer' = "complete" =>
       \A class \in known : Leaving(system, class) \subseteq Followed(class)
  /\ UNCHANGED <<system, known, arcs>>

Next == AddArc \/ GiveAnswer

Spec == Init /\ [][Next]_graphVars
=============================================================================
