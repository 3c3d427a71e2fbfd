---------------------------- MODULE SampleGraphs ----------------------------
(***************************************************************************)
(* Small task graphs for the model checker.                                *)
(***************************************************************************)
EXTENDS Integers, Sequences, TLC

Task(core, priority, time) ==
  [kind |-> "task", core |-> core, priority |-> priority, time |-> time, lock |-> <<>>]
Locking(task, locks) == [task EXCEPT !.lock = locks]
Sync(kind) ==
  [kind |-> kind, core |-> -1, priority |-> 0, time |-> <<<<0, 0>>>>, lock |-> <<>>]
NoTask == [kind |-> "empty"]

Edge(a, b) == [source |-> a, target |-> b, label |-> <<>>, dashed |-> FALSE]
Labelled(a, b, label) == [Edge(a, b) EXCEPT !.label = label]
Dashed(a, b) == [Edge(a, b) EXCEPT !.dashed = TRUE]
Every(task, period) == [task |-> task, period |-> period]

Graph(policy, node, order, edges, start, periodic) ==
  [policy |-> policy, node |-> node, order |-> order, edges |-> edges,
   start |-> [t \in start |-> 1], ends |-> {}, periodic |-> periodic,
   spin |-> {"spin"}, num_cpus |-> 2, cores_per_cpu |-> 1, capacity |-> 1]

Under(policy, g) == [g EXCEPT !.policy = policy]

-----------------------------------------------------------------------------
(* H preempts L, also while L holds the mutex that H needs.                *)
SharedMutex ==
  Graph("fixed",
        "H" :> Locking(Task(0, 2, <<<<0, 1>>, <<1, 1>>, <<0, 0>>>>), <<"mutex">>) @@
        "L" :> Locking(Task(0, 1, <<<<1, 1>>, <<3, 4>>, <<1, 1>>>>), <<"mutex">>),
        <<"H", "L">>, <<>>, {"H", "L"}, <<Every("H", 6), Every("L", 12)>>)

(* Two nested locks taken in the same order on two cores.                  *)
NestedLocks ==
  Graph("fixed_prior_with_resume",
        "A" :> Locking(Task(0, 1, <<<<0, 1>>, <<1, 1>>, <<1, 2>>, <<1, 1>>, <<0, 0>>>>),
                       <<"mutex1", "mutex2">>) @@
        "B" :> Locking(Task(1, 1, <<<<1, 1>>, <<0, 0>>, <<1, 1>>, <<0, 1>>, <<1, 1>>>>),
                       <<"mutex1", "mutex2">>),
        <<"A", "B">>, <<>>, {"A", "B"}, <<Every("A", 8), Every("B", 8)>>)

(* Equal priorities on one core, in both orders of the hash table.         *)
EqualPriorities(order) ==
  Graph("fixed",
        "A" :> Task(0, 1, <<<<1, 2>>>>) @@ "B" :> Task(0, 1, <<<<2, 3>>>>),
        order, <<>>, {"A", "B"}, <<Every("A", 6), Every("B", 9)>>)

(* A releases more often than it can run; B depends on A with a delay.     *)
Overload ==
  Graph("fixed",
        "A" :> Task(0, 1, <<<<3, 3>>>>) @@ "B" :> Task(0, 2, <<<<0, 1>>>>),
        <<"A", "B">>, <<Labelled("A", "B", <<1, 2>>)>>, {"A"},
        <<Every("A", 2), Every("B", 12)>>)

(* A has two periods, and is released by both at the same time now and     *)
(* then, and while it still runs.                                          *)
TwoPeriods ==
  Graph("fixed",
        "A" :> Task(0, 1, <<<<1, 3>>>>) @@ "B" :> Task(0, 2, <<<<1, 1>>>>),
        <<"A", "B">>, <<>>, {"A", "B"}, <<Every("A", 4), Every("B", 6), Every("A", 6)>>)

(* Two jobs at the start and room for one queued job in every place.       *)
Queueing ==
  [Graph("fixed",
         "A" :> Locking(Task(0, 1, <<<<0, 1>>, <<2, 2>>, <<0, 0>>>>), <<"mutex">>),
         <<"A">>, <<>>, {"A"}, <<Every("A", 6)>>)
   EXCEPT !.capacity = 2, !.start["A"] = 2]

(* A restarted L: H takes the core away from it.                           *)
RestartPair ==
  Graph("fixed_prior_with_restart",
        "H" :> Task(0, 2, <<<<1, 2>>>>) @@ "L" :> Task(0, 1, <<<<2, 3>>>>),
        <<"L", "H">>, <<>>, {"H", "L"}, <<Every("H", 6), Every("L", 12)>>)

(* The same, with the lock: L may be preempted while it holds it.          *)
RestartLocked == Under("fixed_prior_with_restart", SharedMutex)

(* Only L locks, a spin lock: it is preempted before it takes the lock.    *)
RestartSpin ==
  Graph("fixed_prior_with_restart",
        "H" :> Task(0, 2, <<<<1, 2>>>>) @@
        "L" :> Locking(Task(0, 1, <<<<1, 2>>, <<1, 1>>, <<0, 1>>>>), <<"spin">>),
        <<"H", "L">>, <<>>, {"H", "L"}, <<Every("H", 6), Every("L", 12)>>)

(* Fork, two branches of different length, join; started once.             *)
Diamond ==
  Graph("fixed",
        "A" :> Task(0, 3, <<<<1, 2>>>>) @@ "fork" :> Sync("fork") @@
        "B" :> Task(0, 2, <<<<1, 3>>>>) @@
        "C" :> Locking(Task(1, 1, <<<<0, 1>>, <<1, 2>>, <<1, 1>>>>), <<"mutex">>) @@
        "E" :> NoTask @@
        "join" :> Sync("join") @@
        "D" :> Locking(Task(0, 1, <<<<1, 1>>, <<0, 1>>, <<1, 1>>>>), <<"mutex">>),
        <<"A", "B", "C", "D", "E", "fork", "join">>,
        <<Edge("A", "fork"), Edge("fork", "B"), Edge("fork", "C"), Edge("B", "E"),
          Edge("E", "join"), Edge("C", "join"), Edge("join", "D"), Dashed("D", "A")>>,
        {"A"}, <<>>)

(* The same, started every 14 units.                                       *)
PeriodicDiamond == [Diamond EXCEPT !.periodic = <<Every("A", 14)>>]

(* A task with a self-loop.                                               *)
SelfLoop ==
  Graph("fixed", "A" :> Task(0, 1, <<<<1, 2>>>>), <<"A">>,
        <<Labelled("A", "A", <<5>>)>>, {"A"}, <<>>)

(* A self-loop with a deadline that H makes A miss; the fork keeps the     *)
(* numbers of places and transitions in step.                              *)
MissedDeadline ==
  Graph("fixed",
        "A" :> Task(0, 1, <<<<1, 2>>>>) @@ "H" :> Task(0, 2, <<<<1, 3>>>>)
          @@ "F" :> Sync("fork"),
        <<"A", "H", "F">>, <<Labelled("A", "A", <<2>>), Edge("H", "F")>>, {"A", "H"},
        <<Every("H", 6)>>)

(* B follows A on another core after a delay.                              *)
Handover ==
  Graph("fifo",
        "A" :> Task(0, 1, <<<<1, 2>>>>) @@ "B" :> Task(1, 1, <<<<0, 2>>>>),
        <<"A", "B">>, <<Labelled("A", "B", <<1, 2>>)>>, {"A"}, <<Every("A", 8)>>)

-----------------------------------------------------------------------------
(* Graphs for the disagreements.                                           *)

(* The jobs of a task queue up behind each other.                          *)
Backlog ==
  Graph("fifo", "A" :> Task(0, 1, <<<<3, 3>>>>), <<"A">>, <<>>, {"A"}, <<Every("A", 2)>>)

(* A CPU with two cores and a task that is released again while it runs.   *)
TwoCoresPerCpu ==
  [Under("fifo", Overload) EXCEPT !.num_cpus = 1, !.cores_per_cpu = 2]

(* A join on the control core that is given a duration and a priority.     *)
PriorityJoin ==
  [Diamond EXCEPT !.node["join"].priority = 1, !.node["join"].time = <<<<2, 2>>>>,
                  !.periodic = <<Every("A", 20)>>]
=============================================================================
