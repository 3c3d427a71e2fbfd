----------------------------- MODULE InputGraph -----------------------------
(***************************************************************************)
(* From a JSON document to the task dependency graph that is lowered:      *)
(* Parser::validate and JsonNode::to_node_type (src/src/json/json.cpp) and *)
(* load_from_parser (src/src/tdg/tdg.cpp).                                 *)
(*                                                                         *)
(* A document is a record of what nlohmann::json hands over; an optional   *)
(* member is <<>> when it is absent and <<v>> when it is there:            *)
(*   num_cpus, cores_per_cpu, capacity, policy   optional                  *)
(*   shared_locks  set of locks        start     sequence of [task,tokens] *)
(*   ends          set of names        periodic  sequence of [task,period] *)
(*   nodes  sequence of [id, type, priority (opt), core (opt), time, locks]*)
(*          where `time` is a sequence of sequences of numbers             *)
(*   edges  sequence of [source, target, label, dashed]                    *)
(* The graph is the record that module Lowering describes.                 *)
(***************************************************************************)
EXTENDS Lowering

CONSTANTS
    KnownPrefix,        \* locks whose name starts with "mutex" or "spin"
    MentionsSpin        \* locks whose name contains "spin" anywhere

Given(option, default) == IF option = <<>> THEN default ELSE option[1]

NumCpus(doc) == Given(doc.num_cpus, 1)
CoresPerCpu(doc) == Given(doc.cores_per_cpu, 1)

Policies == {"fixed", "fixed_prior_with_restart", "fixed_prior_with_resume",
             "rm", "dm", "edf", "llf", "fifo", "pip", "pcp", "srp"}

(* A policy that no one knows is not an error, in a document.              *)
ParsePolicy(name) == IF name \in Policies THEN name ELSE "unknown"
DocumentPolicy(doc) == ParsePolicy(Given(doc.policy, "fixed"))

(* What is not a pair is dropped from `time`, without a word.              *)
TimeOf(node) == SelectSeq(node.time, LAMBDA range : Len(range) = 2)

CoreOf(node) == Given(node.core, IF node.type = "task" THEN 0 ELSE ControlCore)

-----------------------------------------------------------------------------
(* Validation.                                                             *)
NodesOf(doc) == ToSet(doc.nodes)
Ids(doc) == {node.id : node \in NodesOf(doc)}
TaskNodes(doc) == {node \in NodesOf(doc) : node.type = "task"}
TaskIds(doc) == {node.id : node \in TaskNodes(doc)}

MaxCore(doc) == NumCpus(doc) * CoresPerCpu(doc) - 1

CoreExists(doc, node) ==
  CASE node.type = "task" -> CoreOf(node) \in 0 .. MaxCore(doc)
    [] node.type \in {"fork", "join"} -> CoreOf(node) \in {ControlCore} \cup 0 .. MaxCore(doc)
    [] OTHER -> TRUE

LocksDeclared(doc, node) ==
  ToSet(node.locks) \subseteq doc.shared_locks \cap KnownPrefix

(* Before, in and after the critical section of every lock.                *)
SegmentsMatchLocks(node) == Len(TimeOf(node)) = 2 * Len(node.locks) + 1

FirstTimeOrdered(node) ==       \* variant: only the first interval is looked at
  TimeOf(node) # <<>> => TimeOf(node)[1][1] <= TimeOf(node)[1][2]
TimesOrdered(node) == \A range \in ToSet(TimeOf(node)) : range[1] <= range[2]

NodeAccepted(doc, node) ==
  /\ node.type \in {"task", "fork", "join", "empty"}
  /\ CoreExists(doc, node)
  /\ LocksDeclared(doc, node)
  /\ node.type = "task" => SegmentsMatchLocks(node)
  /\ TimesOrdered(node)

Accepted(doc) ==
  /\ Given(doc.capacity, 1) >= 1
  /\ Cardinality(Ids(doc)) = Len(doc.nodes)
  /\ \A node \in NodesOf(doc) : NodeAccepted(doc, node)
  /\ \A e \in ToSet(doc.edges) : {e.source, e.target} \subseteq Ids(doc)
  /\ \A b \in ToSet(doc.start) : b.task \in TaskIds(doc) /\ b.tokens >= 0
  /\ doc.ends \subseteq TaskIds(doc)
  /\ \A b \in ToSet(doc.periodic) : b.task \in TaskIds(doc) /\ b.period > 0

-----------------------------------------------------------------------------
(* The graph of a document, for one order of traversal of its hash tables. *)
TaskNode(node) ==
  [kind |-> "task", core |-> CoreOf(node), priority |-> Given(node.priority, 100),
   time |-> TimeOf(node), lock |-> node.locks]

(* A fork or join uses the first interval only, and no locks.              *)
ForkOrJoinNode(node) ==
  [kind |-> node.type, core |-> CoreOf(node),
   priority |-> Given(node.priority, ControlPriority),
   time |-> <<IF TimeOf(node) = <<>> THEN <<0, 0>> ELSE TimeOf(node)[1]>>,
   lock |-> <<>>]

EmptyNode ==
  [kind |-> "empty", core |-> ControlCore, priority |-> ControlPriority,
   time |-> <<>>, lock |-> <<>>]

ToNodeType(node) ==
  CASE node.type = "task" -> TaskNode(node)
    [] node.type \in {"fork", "join"} -> ForkOrJoinNode(node)
    [] OTHER -> EmptyNode

(* The last binding of a task that brings a token decides.                 *)
StartOf(doc) ==
  LET bringing == SelectSeq(doc.start, LAMBDA b : b.tokens > 0)
      bindings(t) == SelectSeq(bringing, LAMBDA b : b.task = t)
  IN  [t \in {b.task : b \in ToSet(bringing)} |-> Last(bindings(t)).tokens]

LocksUsed(doc) == UNION {ToSet(node.locks) : node \in TaskNodes(doc)}

LoadedGraph(doc, order) ==
  [node |-> [n \in Ids(doc) |-> ToNodeType(CHOOSE node \in NodesOf(doc) : node.id = n)],
   order |-> order,
   edges |-> doc.edges,
   start |-> StartOf(doc),
   ends |-> doc.ends,
   periodic |-> doc.periodic,
   spin |-> LocksUsed(doc) \cap MentionsSpin,
   policy |-> DocumentPolicy(doc),
   num_cpus |-> NumCpus(doc), cores_per_cpu |-> CoresPerCpu(doc),
   capacity |-> Given(doc.capacity, 1)]

(* TDG(num_cpus, cores_per_cpu), which a second reading that fails leaves  *)
(* as it is.                                                               *)
BlankGraph(doc) ==
  [node |-> <<>>, order |-> <<>>, edges |-> <<>>, start |-> <<>>, ends |-> {},
   periodic |-> <<>>, spin |-> {}, policy |-> "fixed",
   num_cpus |-> NumCpus(doc), cores_per_cpu |-> CoresPerCpu(doc), capacity |-> 1]
=============================================================================
