----------------------------- MODULE Scheduling -----------------------------
(***************************************************************************)
(* The scheduler of src/src/analysis/scheduling.cpp: which enabled         *)
(* transitions may run in a marking, and which of the others are           *)
(* suspended (StateClassReachabilityGraph::recompute_sets).                *)
(***************************************************************************)
EXTENDS PTPN

StructEnabled(net, M) == {t \in net.transitions : IsEnabled(M, net, t)}

(* The transitions of E that compete with t: its core group.  The control  *)
(* core -1 is a group like any other.                                      *)
CoreGroup(net, E, t) == {u \in E : net.core[u] = net.core[t]}

(* PTPN::parallelism_of_core: the control core and a core without a        *)
(* registered bound yield 0, "unbounded".                                  *)
ParallelismOfCore(net, c) ==
  IF c < 0 \/ c \notin DOMAIN net.core_parallelism THEN 0
                                                ELSE net.core_parallelism[c]

(* Variant of the order: lowest first.                                     *)
PrecedesAscending(net, u, t) ==
  \/ net.priority[u] < net.priority[t]
  \/ net.priority[u] = net.priority[t] /\ u < t

(* The sort order of a bounded group: priority first, then the index.      *)
Precedes(net, u, t) ==
  \/ net.priority[u] > net.priority[t]
  \/ net.priority[u] = net.priority[t] /\ u < t

(* An unbounded group keeps every member of maximal priority; a bounded    *)
(* one keeps its first K members.                                          *)
KeptInUnboundedGroup(net, E, t) ==
  \A u \in CoreGroup(net, E, t) : net.priority[u] <= net.priority[t]

KeepOneTooMany(net, E, t) ==      \* variant: resize(k + 1)
  Cardinality({u \in CoreGroup(net, E, t) : Precedes(net, u, t)})
    <= ParallelismOfCore(net, net.core[t])

KeptInBoundedGroup(net, E, t) ==
  Cardinality({u \in CoreGroup(net, E, t) : Precedes(net, u, t)})
    < ParallelismOfCore(net, net.core[t])

FilterPriorityPerCore(net, E) ==
  {t \in E : IF ParallelismOfCore(net, net.core[t]) <= 0
             THEN KeptInUnboundedGroup(net, E, t)
             ELSE KeptInBoundedGroup(net, E, t)}

PriorityEnabled(net, M) == FilterPriorityPerCore(net, StructEnabled(net, M))

Suspended(net, M) ==
  {t \in StructEnabled(net, M) \ PriorityEnabled(net, M) : net.suspendable[t]}
=============================================================================
