----------------------------- MODULE SampleNets -----------------------------
(***************************************************************************)
(* Small priority timed nets for the model checker.  Each isolates one     *)
(* thing the scheduler or the clocks have to get right.                    *)
(***************************************************************************)
EXTENDS Integers, Sequences

MaxInt == 2147483647      \* INT_MAX, the code's INF

(* A transition: input places, output places, [e, l], priority, core.      *)
Step(in, out, e, l, prio, core) ==
  [in |-> in, out |-> out, prio |-> prio, core |-> core, susp |-> FALSE,
   interval |-> [earliest |-> e, latest |-> l,
                 left_open |-> FALSE, right_open |-> FALSE]]

Preemptible(step) == [step EXCEPT !.susp = TRUE]
Open(step) == [step EXCEPT !.interval.left_open = TRUE,
                           !.interval.right_open = TRUE]

(* Places are named like those of a lowered net, by a tuple.               *)
Named(names) == {<<"place", p>> : p \in names}

(* The net with the given steps, numbered from 0.  `bounded` gives the     *)
(* capacity of the places that have one, `merging` the saturating ones,    *)
(* `cores` the registered parallelism, `marked` the initially marked.      *)
NetOf(steps, bounded, merging, cores, marked) ==
  LET T == 0 .. Len(steps) - 1
      S(t) == steps[t + 1]
      P == Named(UNION {S(t).in \cup S(t).out : t \in T})
      arc(p, S1) == IF p[2] \in S1 THEN 1 ELSE 0
  IN [places |-> P, transitions |-> T,
      capacity |-> [p \in P |-> IF p[2] \in DOMAIN bounded THEN bounded[p[2]] ELSE MaxInt],
      saturate |-> [p \in P |-> p[2] \in merging],
      Pre |-> [p \in P |-> [t \in T |-> arc(p, S(t).in)]],
      Post |-> [t \in T |-> [p \in P |-> arc(p, S(t).out)]],
      interval |-> [t \in T |-> S(t).interval],
      priority |-> [t \in T |-> S(t).prio],
      core |-> [t \in T |-> S(t).core],
      suspendable |-> [t \in T |-> S(t).susp],
      core_parallelism |-> cores,
      M0 |-> [p \in P |-> arc(p, marked)]]

Control == -1
Once(S) == [p \in S |-> 1]

-----------------------------------------------------------------------------
(* Two periodic tasks on one core, as the resume policy lowers them: H     *)
(* every 4 units, L every 8; H preempts L in the middle of its segment.    *)
PeriodicPair ==
  NetOf(<<Step({"Hentry"}, {"Hready"}, 0, 0, 2, 0),
          Preemptible(Step({"Hready"}, {"Hexit"}, 1, 2, 2, 0)),
          Step({"Lentry"}, {"Lready"}, 0, 0, 1, 0),
          Preemptible(Step({"Lready"}, {"Lexit"}, 3, 4, 1, 0)),
          Step({"Hrel"}, {"Hrel", "Hentry"}, 4, 4, 0, Control),
          Step({"Lrel"}, {"Lrel", "Lentry"}, 8, 8, 0, Control),
          Step({"Hexit"}, {}, 0, 0, 0, Control),
          Step({"Lexit"}, {}, 0, 0, 0, Control)>>,
        Once({"Hentry", "Hready", "Hexit", "Lentry", "Lready", "Lexit"}),
        {"Hentry", "Hready", "Hexit", "Lentry", "Lready", "Lexit"},
        [c \in {0} |-> 1], {"Hentry", "Hrel", "Lentry", "Lrel"})

(* The period of L is shorter than its response time: releases meet a full *)
(* saturating entry place and merge.                                       *)
Overloaded ==
  NetOf(<<Step({"Hentry"}, {"Hready"}, 0, 0, 2, 0),
          Preemptible(Step({"Hready"}, {"Hexit"}, 2, 2, 2, 0)),
          Step({"Lentry"}, {"Lready"}, 0, 0, 1, 0),
          Preemptible(Step({"Lready"}, {"Lexit"}, 2, 2, 1, 0)),
          Step({"Hrel"}, {"Hrel", "Hentry"}, 3, 3, 0, Control),
          Step({"Lrel"}, {"Lrel", "Lentry"}, 2, 2, 0, Control),
          Step({"Hexit"}, {}, 0, 0, 0, Control),
          Step({"Lexit"}, {}, 0, 0, 0, Control)>>,
        Once({"Hentry", "Hready", "Hexit", "Lentry", "Lready", "Lexit"}),
        {"Hentry", "Hready", "Hexit", "Lentry", "Lready", "Lexit"},
        [c \in {0} |-> 1], {"Hentry", "Hrel", "Lentry", "Lrel"})

(* Three jobs on a core of parallelism two; the job that waits has the     *)
(* same priority as one that runs and a larger index.                      *)
TwoOfThree ==
  NetOf(<<Preemptible(Step({"a"}, {"adone"}, 1, 3, 1, 0)),
          Preemptible(Step({"b"}, {"bdone"}, 2, 4, 1, 0)),
          Preemptible(Step({"c"}, {"cdone"}, 1, 2, 2, 0)),
          Step({"rel"}, {"c"}, 1, 2, 0, Control)>>,
        Once({"a", "b", "c"}), {}, [c \in {0} |-> 2], {"a", "b", "rel"})

(* No registered bound: the group keeps every transition of top priority,  *)
(* and a positive priority on the control core stops the control timer.    *)
UnboundedGroups ==
  NetOf(<<Step({"x"}, {"xdone"}, 1, 3, 5, 1),
          Step({"y"}, {"ydone"}, 2, 2, 5, 1),
          Step({"z"}, {"zdone"}, 0, 1, 4, 1),
          Step({"timer"}, {"timer", "z"}, 3, 3, 0, Control),
          Step({"join"}, {"joined"}, 1, 1, 1, Control)>>,
        Once({"z", "zdone"}), {"z"}, [c \in {} |-> 0],
        {"x", "y", "z", "timer", "join"})

(* Open endpoints, an unbounded latest time, a conflict, and a             *)
(* non-saturating place that overflows.                                    *)
OpenAndOverflow ==
  NetOf(<<Open(Step({"s"}, {"s", "q"}, 0, 2, 0, Control)),
          Step({"q"}, {"r"}, 1, MaxInt, 0, Control),
          Open(Step({"q"}, {}, 1, 4, 0, Control))>>,
        Once({"q", "r"}), {}, [c \in {} |-> 0], {"s"})

(* A transition without a latest time beside a timer that never rests: its *)
(* clock grows for ever, and only extrapolation ends the exploration.      *)
Patient ==
  NetOf(<<Step({"tick"}, {"tick"}, 1, 1, 0, Control),
          Step({"p"}, {"q"}, 2, MaxInt, 0, 1),
          Preemptible(Step({"q", "low"}, {"p", "low"}, 0, 2, 0, 1))>>,
        [p \in {} |-> 0], {}, [c \in {1} |-> 1], {"tick", "p", "low"})

(* The same without preemption, as the FIFO policy lowers two tasks: a     *)
(* token for the core, held from the get_core step to the exit step.       *)
FifoPair ==
  NetOf(<<Step({"Aentry", "cpu"}, {"Aready"}, 0, 0, 1, 0),
          Step({"Aready"}, {"Aexit", "cpu"}, 1, 3, 1, 0),
          Step({"Bentry", "cpu"}, {"Bready"}, 0, 0, 1, 0),
          Step({"Bready"}, {"Bexit", "cpu"}, 2, 2, 1, 0),
          Step({"Arel"}, {"Arel", "Aentry"}, 4, 4, 0, Control),
          Step({"Aexit"}, {}, 0, 0, 0, Control),
          Step({"Bexit"}, {"Bentry"}, 1, 1, 0, Control)>>,
        Once({"Aentry", "Aready", "Aexit", "Bentry", "Bready", "Bexit"}),
        {"Aentry", "Aready", "Aexit", "Bentry", "Bready", "Bexit"},
        [c \in {} |-> 0], {"Aentry", "Bentry", "Arel", "cpu"})

(* L (6 units) is preempted once, by H (1 to 3 units), r units (2 to 4)    *)
(* after the start.  lateA marks that L finished before A did, which takes *)
(* r >= 3; earlyZ that Z finished before O did, which takes r <= 2.        *)
PreemptedOnce ==
  NetOf(<<Step({"h"}, {"a"}, 1, 3, 2, 0),
          Preemptible(Step({"l"}, {"ldone"}, 6, 6, 1, 0)),
          Step({"r"}, {"h", "z"}, 2, 4, 0, Control),
          Step({"o"}, {"odone"}, 9, 9, 1, 1),
          Step({"z"}, {"zdone"}, 7, 7, 1, 2),
          Step({"a"}, {"adone"}, 3, 3, 1, 3),
          Step({"ldone", "a"}, {"lateA", "a"}, 0, 0, 0, Control),
          Step({"zdone", "o"}, {"earlyZ", "o"}, 0, 0, 0, Control)>>,
        [p \in {} |-> 0], {}, [c \in {0} |-> 1], {"l", "r", "o"})

(* A transition with the largest constant of the net as its earliest time  *)
(* and no latest time, preempted on its core by the third of four steps    *)
(* that together may or may not take that long.                            *)
Deferred ==
  NetOf(<<Preemptible(Step({"p"}, {"q"}, 6, MaxInt, 1, 1)),
          Step({"s1"}, {"s2"}, 2, 2, 0, Control),
          Step({"s2"}, {"s3"}, 1, 1, 0, Control),
          Step({"s3"}, {"s4"}, 1, 2, 2, 1),
          Step({"s4"}, {"s5"}, 2, 2, 0, Control),
          Step({"q", "s4"}, {"s4", "early"}, 0, 0, 0, Control)>>,
        [p \in {} |-> 0], {}, [c \in {1} |-> 1], {"p", "s1"})
=============================================================================
