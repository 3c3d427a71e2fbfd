--------------------------- MODULE Pipeline_proofs ---------------------------
(***************************************************************************)
(* Exit status 0 means that the files are there: for every set of input    *)
(* documents and nets, every combination of exports, every file that       *)
(* cannot be written, and whatever replaces the input file.  An exception  *)
(* that ends the process comes from one of the known shapes of document.   *)
(***************************************************************************)
EXTENDS Pipeline, TLAPS

(* The exports that are still to come at a stage, in the order of main.cpp.*)
AnalysisExports == {"scg", "metrics"}
NetExports == {"ptpn_dot", "ppn"} \cup AnalysisExports

ToCome ==
  CASE step \in {"romeo", "check_ppn"} -> {"romeo"} \cup NetExports
    [] step = "wcet" -> {"wcet", "romeo"} \cup NetExports
    [] step \in {"lower", "ptpn_dot"} -> NetExports
    [] step = "ppn" -> {"ppn"} \cup AnalysisExports
    [] step = "scg" -> AnalysisExports
    [] step = "metrics" -> {"metrics"}
    [] step \in {"finish", "none"} -> {}
    [] OTHER -> Exports

(* The two export commands ask for one file each.                          *)
CallOK ==
  /\ call.command \in {"tdg", "ptpn", "romeo", "ptopner"}
  /\ call.requested \subseteq Exports
  /\ call.command = "romeo" => call.requested = {"romeo"}
  /\ call.command = "ptopner" => call.requested = {"ppn"}

(* Which commands have which stages.                                       *)
StageOK ==
  /\ step \in {"read", "reread", "override", "romeo"} =>
       call.command # "ptpn"
  /\ step = "romeo" => call.command \in {"tdg", "romeo"}
  /\ step \in {"tdg_dot", "wcet"} => call.command = "tdg"
  /\ step \in {"check_ppn", "lower"} => call.command \in {"tdg", "ptopner"}
  /\ step = "parse" => call.command \in {"ptpn", "ptopner"}
  /\ step \in {"ptpn_dot", "scg", "metrics"} => call.command \in {"tdg", "ptpn"}
  /\ step = "ppn" => call.command # "romeo"

(* What was asked for and checked is written, or still to come; a process  *)
(* that has ended well has nothing to come, one that runs is at a stage.   *)
Settled == call.requested \cap Checked \subseteq written \cup ToCome

Ending ==
  /\ outcome \in {"running", "success", "failure", "aborted"}
  /\ outcome = "running" <=> step # "none"

IInv == /\ CallOK
        /\ Ending
        /\ outcome = "running" => StageOK /\ Settled
        /\ SuccessMeansWritten

LEMMA CallsAreOK == call \in Calls => CallOK
<1> SUFFICES ASSUME call \in Calls PROVE CallOK
  OBVIOUS
<1>1. ASSUME NEW c, NEW requests, NEW skips, NEW policies,
             call \in CallsOf(c, requests, skips, policies)
      PROVE  call.command = c /\ call.requested \in requests
  <2>1. PICK r \in requests :
          call \in {Call(c, r, skip, policy, bad) :
                      skip \in skips, policy \in policies, bad \in Failing(r)}
    BY <1>1 DEF CallsOf
  <2>2. PICK skip, policy, bad : call = Call(c, r, skip, policy, bad)
    BY <2>1
  <2> QED
    BY <2>2 DEF Call
<1>2. CASE call \in CallsOf("tdg", Requests, BOOLEAN, GivenPolicies)
  BY <1>1, <1>2, PipelineAssumption DEF CallOK
<1>3. CASE call \in CallsOf("ptpn", Requests, BOOLEAN, {<<>>})
  BY <1>1, <1>3, PipelineAssumption DEF CallOK
<1>4. CASE call \in CallsOf("romeo", {{"romeo"}}, {TRUE}, {<<>>})
  BY <1>1, <1>4 DEF CallOK, Exports
<1>5. CASE call \in CallsOf("ptopner", {{"ppn"}}, {TRUE}, GivenPolicies)
  BY <1>1, <1>5 DEF CallOK, Exports
<1> QED
  BY <1>2, <1>3, <1>4, <1>5 DEF Calls

LEMMA InitIInv == Init => IInv
<1> SUFFICES ASSUME Init PROVE IInv
  OBVIOUS
<1>1. CallOK
  BY CallsAreOK DEF Init
<1>2. \/ step = "parse" /\ call.command \in {"ptpn", "ptopner"}
      \/ step = "read" /\ call.command # "ptpn"
  BY <1>1 DEF Init, Formats, CallOK
<1>3. Ending /\ outcome = "running"
  BY <1>2 DEF Init, Ending
<1>4. StageOK
  BY <1>2 DEF StageOK
<1>5. Settled
  BY <1>1, <1>2 DEF Settled, ToCome, CallOK
<1> QED
  BY <1>1, <1>3, <1>4, <1>5 DEF IInv, SuccessMeansWritten

(* A stage goes on to another one, which leaves nothing behind that was    *)
(* asked for, or ends the process, well only if everything is written.     *)
GoesOn ==
  /\ step' # "none" /\ outcome' = outcome
  /\ StageOK' /\ Settled'

Fails ==
  step' = "none" /\ outcome' \in {"failure", "aborted"}

Succeeds ==
  /\ step' = "none" /\ outcome' = "success"
  /\ call.requested \cap Checked \subseteq written'

LEMMA StageKeepsIInv ==
  ASSUME IInv, outcome = "running", UNCHANGED call,
         GoesOn \/ Fails \/ Succeeds
  PROVE  IInv'
<1>1. CallOK' /\ UNCHANGED Checked
  BY DEF IInv, CallOK, Checked
<1>2. CASE GoesOn
  BY <1>1, <1>2 DEF GoesOn, IInv, Ending, SuccessMeansWritten
<1>3. CASE Fails
  BY <1>1, <1>3 DEF Fails, IInv, Ending, SuccessMeansWritten
<1>4. CASE Succeeds
  BY <1>1, <1>4 DEF Succeeds, IInv, Ending, SuccessMeansWritten
<1> QED
  BY <1>2, <1>3, <1>4

LEMMA ReadInputStep ==
  ASSUME IInv, ReadInput PROVE IInv'
<1>1. outcome = "running" /\ StageOK /\ Settled
  BY DEF IInv, Ending, ReadInput
<1>2. GoesOn \/ Fails
  BY <1>1 DEF GoesOn, Fails, ReadInput, Goto, Quit, StageOK, Settled, ToCome, Checked
<1> QED
  BY <1>1, <1>2, StageKeepsIInv DEF ReadInput

LEMMA RereadStep ==
  ASSUME IInv, Reread PROVE IInv'
<1>1. outcome = "running" /\ StageOK /\ Settled
  BY DEF IInv, Ending, Reread
<1>2. GoesOn
  BY <1>1 DEF GoesOn, Reread, Goto, StageOK, Settled, ToCome, Checked
<1> QED
  BY <1>1, <1>2, StageKeepsIInv DEF Reread

LEMMA ParsePtpnStep ==
  ASSUME IInv, ParsePtpn PROVE IInv'
<1>1. outcome = "running" /\ StageOK /\ Settled /\ CallOK
  BY DEF IInv, Ending, ParsePtpn
<1>2. GoesOn \/ Fails \/ Succeeds
  BY <1>1 DEF GoesOn, Fails, Succeeds, ParsePtpn, Goto, Quit, Same,
              CallOK, StageOK, Settled, ToCome, Checked, NetExports, AnalysisExports
<1> QED
  BY <1>1, <1>2, StageKeepsIInv DEF ParsePtpn, Same

LEMMA OverrideStep ==
  ASSUME IInv, Override PROVE IInv'
<1>1. outcome = "running" /\ StageOK /\ Settled /\ CallOK
  BY DEF IInv, Ending, Override
<1>2. GoesOn \/ Fails
  BY <1>1 DEF GoesOn, Fails, Override, AfterOverride, Goto, Quit,
              CallOK, StageOK, Settled, ToCome, Checked, NetExports, AnalysisExports
<1> QED
  BY <1>1, <1>2, StageKeepsIInv DEF Override

LEMMA ExportTdgStep ==
  ASSUME IInv, ExportTdg PROVE IInv'
<1>1. outcome = "running" /\ StageOK /\ Settled
  BY DEF IInv, Ending, ExportTdg
<1>2. GoesOn
  BY <1>1 DEF GoesOn, ExportTdg, WriteOrIgnore, Goto, Same, StageOK, Settled,
              ToCome, Checked, NetExports, AnalysisExports, Exports
<1> QED
  BY <1>1, <1>2, StageKeepsIInv DEF ExportTdg, Same

(* An export that ends the process when it fails.                          *)
LEMMA WriteWrites ==
  ASSUME NEW x, NEW next, next # "none", Write(x, next), UNCHANGED call,
         outcome = "running"
  PROVE  \/ Fails
         \/ /\ step' = next /\ outcome' = outcome
            /\ written \subseteq written'
            /\ x \in call.requested => x \in written'
BY DEF Write, Fails, Goto, Quit, Requested

LEMMA WriteWcetStep ==
  ASSUME IInv, WriteWcet PROVE IInv'
<1>1. outcome = "running" /\ StageOK /\ Settled
  BY DEF IInv, Ending, WriteWcet
<1>2. GoesOn \/ Fails
  BY <1>1, WriteWrites
     DEF GoesOn, WriteWcet, Same, StageOK, Settled, ToCome, Checked
<1> QED
  BY <1>1, <1>2, StageKeepsIInv DEF WriteWcet, Same

LEMMA CheckPtopnerStep ==
  ASSUME IInv, CheckPtopner PROVE IInv'
<1>1. outcome = "running" /\ StageOK /\ Settled /\ CallOK
  BY DEF IInv, Ending, CheckPtopner
<1>2. GoesOn \/ Fails
  BY <1>1 DEF GoesOn, Fails, CheckPtopner, Goto, Quit, Same,
              CallOK, StageOK, Settled, ToCome, Checked, NetExports
<1> QED
  BY <1>1, <1>2, StageKeepsIInv DEF CheckPtopner, Same

LEMMA ExportRomeoStep ==
  ASSUME IInv, ExportRomeo PROVE IInv'
<1>1. outcome = "running" /\ StageOK /\ Settled /\ CallOK
  BY DEF IInv, Ending, ExportRomeo
<1>2. Fails \/ Write("romeo", IF call.command = "tdg" THEN "lower" ELSE "finish")
  BY DEF ExportRomeo, Fails, Quit
<1>3. GoesOn \/ Fails
  BY <1>1, <1>2, WriteWrites
     DEF GoesOn, ExportRomeo, Same, CallOK, StageOK, Settled, ToCome, Checked,
         NetExports, AnalysisExports
<1> QED
  BY <1>1, <1>3, StageKeepsIInv DEF ExportRomeo, Same

LEMMA LowerStep ==
  ASSUME IInv, Lower PROVE IInv'
<1>1. outcome = "running" /\ StageOK /\ Settled /\ CallOK
  BY DEF IInv, Ending, Lower
<1>2. GoesOn \/ Fails \/ Succeeds
  BY <1>1 DEF GoesOn, Fails, Succeeds, Lower, Goto, Quit, Same,
              NeedsNet, ShouldRunAnalysis, Requested,
              CallOK, StageOK, Settled, ToCome, Checked, NetExports, AnalysisExports
<1> QED
  BY <1>1, <1>2, StageKeepsIInv DEF Lower, Same

LEMMA ExportPtpnStep ==
  ASSUME IInv, ExportPtpn PROVE IInv'
<1>1. outcome = "running" /\ StageOK /\ Settled
  BY DEF IInv, Ending, ExportPtpn
<1>2. GoesOn \/ Fails
  BY <1>1, WriteWrites
     DEF GoesOn, ExportPtpn, Same, StageOK, Settled, ToCome, Checked, NetExports
<1> QED
  BY <1>1, <1>2, StageKeepsIInv DEF ExportPtpn, Same

(* With --no-analysis nothing is lost by leaving out the last two stages.  *)
LEMMA ExportPpnStep ==
  ASSUME IInv, ExportPpn PROVE IInv'
<1>1. outcome = "running" /\ StageOK /\ Settled /\ CallOK
  BY DEF IInv, Ending, ExportPpn
<1> DEFINE next == IF call.command = "ptopner" THEN "finish"
                   ELSE IF ShouldRunAnalysis THEN "scg" ELSE "finish"
<1>2. Fails \/ Write("ppn", next)
  BY DEF ExportPpn, Fails, Quit
<1>3. /\ next \in {"scg", "finish"}
      /\ next = "scg" => call.command \in {"tdg", "ptpn"}
      /\ next = "finish" => call.requested \cap AnalysisExports = {}
  BY <1>1 DEF ShouldRunAnalysis, Requested, AnalysisExports, CallOK, StageOK, ExportPpn
<1> HIDE DEF next
<1>4. GoesOn \/ Fails
  BY <1>1, <1>2, <1>3, WriteWrites
     DEF GoesOn, ExportPpn, Same, StageOK, Settled, ToCome, Checked, AnalysisExports
<1> QED
  BY <1>1, <1>4, StageKeepsIInv DEF ExportPpn, Same

LEMMA ExportScgStep ==
  ASSUME IInv, ExportScg PROVE IInv'
<1>1. outcome = "running" /\ StageOK /\ Settled
  BY DEF IInv, Ending, ExportScg
<1>2. GoesOn \/ Fails
  BY <1>1, WriteWrites
     DEF GoesOn, ExportScg, Same, StageOK, Settled, ToCome, Checked, AnalysisExports
<1> QED
  BY <1>1, <1>2, StageKeepsIInv DEF ExportScg, Same

LEMMA ExportMetricsStep ==
  ASSUME IInv, ExportMetrics PROVE IInv'
<1>1. outcome = "running" /\ StageOK /\ Settled
  BY DEF IInv, Ending, ExportMetrics
<1>2. GoesOn \/ Fails
  BY <1>1, WriteWrites
     DEF GoesOn, ExportMetrics, Same, StageOK, Settled, ToCome, Checked
<1> QED
  BY <1>1, <1>2, StageKeepsIInv DEF ExportMetrics, Same

LEMMA FinishStep ==
  ASSUME IInv, Finish PROVE IInv'
<1>1. outcome = "running" /\ Settled
  BY DEF IInv, Ending, Finish
<1>2. Succeeds
  BY <1>1 DEF Succeeds, Finish, Quit, Settled, ToCome
<1> QED
  BY <1>1, <1>2, StageKeepsIInv DEF Finish, Same

LEMMA NextKeepsIInv ==
  ASSUME IInv, [Next]_vars
  PROVE  IInv'
<1>1. CASE UNCHANGED <<call, step, written, outcome>>
  BY <1>1 DEF IInv, CallOK, Ending, StageOK, Settled, ToCome, Checked,
              SuccessMeansWritten
<1>2. CASE Stage
  BY <1>2, ReadInputStep, RereadStep, ParsePtpnStep, OverrideStep,
     ExportTdgStep, WriteWcetStep, CheckPtopnerStep, ExportRomeoStep,
     LowerStep, ExportPtpnStep, ExportPpnStep, ExportScgStep,
     ExportMetricsStep, FinishStep
     DEF Stage
<1> QED
  BY <1>1, <1>2 DEF Next, Replace, Ended, vars

(* Exit status 0 means that every export with a checked result has been    *)
(* written, whatever the documents and nets are, whichever file cannot be  *)
(* written and whatever replaces the input between its two readings.       *)
THEOREM SuccessIsWritten == Spec => []SuccessMeansWritten
<1>1. Init => IInv
  BY InitIInv
<1>2. IInv /\ [Next]_vars => IInv'
  BY NextKeepsIInv
<1>3. IInv => SuccessMeansWritten
  BY DEF IInv
<1> QED
  BY <1>1, <1>2, <1>3, PTL DEF Spec

-----------------------------------------------------------------------------
(* Aborts.  What the lowering throws at, apart from self-loops, ties       *)
(* between forks and joins and long labels, is not in a graph made from a  *)
(* valid document.                                                         *)
Ordered(range) == range[1] \in Int /\ range[2] \in Int /\ range[1] <= range[2]

WellMade(g) ==
  /\ \A e \in EdgesOf(g) : {e.source, e.target} \subseteq DOMAIN g.node
  /\ \A t \in Tasks(g) : /\ g.node[t].time # <<>>
                         /\ ~ Len(g.node[t].time) < NumLocks(g, t)
  /\ \A range \in TimesOf(g) : Ordered(range)

(* The earliest time of a label is negative only when its first number is  *)
(* larger than the largest `int`: all that fit, and all that are malformed *)
(* or out of order, give an interval.                                      *)
LEMMA NegativeLabelsAreLong ==
  ASSUME NEW label, LabelInterval(label).earliest < 0
  PROVE  label # <<>> /\ label[1] > INF
<1> DEFINE a == AsInt(label[1])
           b == AsInt(label[Len(label)])
           usable == label \in Seq(Nat) /\ Len(label) \in {1, 2} /\ a # INF /\ a <= b
<1>1. LabelInterval(label).earliest = IF usable THEN a ELSE 0
  BY DEF LabelInterval, Closed
<1>2. usable /\ a < 0
  BY <1>1
<1>3. label \in Seq(Nat) /\ Len(label) \in {1, 2} /\ AsInt(label[1]) < 0
  BY <1>2
<1>4. label # <<>> /\ label[1] \in Nat
  BY <1>3
<1> QED
  BY <1>3, <1>4, INFAssumption DEF AsInt

LEMMA WellMadeThrows ==
  ASSUME NEW g, WellMade(g), LoweringThrows(g)
  PROVE  OddShape(g) \/ LongLabel(g)
<1>1. CASE Throws(g)
  <2>1. CASE \E i \in SelfLoops(g) : TRUE
    BY <2>1 DEF SelfLoops, SelfLooped, EdgesOf, ToSet, OddShape
  <2>2. CASE \E e \in EdgesOf(g) : Bridges(g, e) /\ LabelInterval(e.label).earliest < 0
    BY <2>2, NegativeLabelsAreLong DEF LongLabel
  <2> QED
    BY <1>1, <2>1, <2>2 DEF Throws, ControlsTied, OddShape
<1>2. CASE \E range \in TimesOf(g) : range[1] < 0 \/ range[2] < range[1]
  BY <1>2 DEF WellMade, Ordered, OddShape
<1> QED
  BY <1>1, <1>2 DEF LoweringThrows, WellMade

(* The node of a valid document with a given name.                         *)
Named(doc, n) == CHOOSE node \in NodesOf(doc) : node.id = n

LEMMA NamedIsThere ==
  ASSUME NEW d \in DOMAIN Document, Accepted(Document[d]), NEW n \in Ids(Document[d])
  PROVE  /\ NodeAccepted(Document[d], Named(Document[d], n))
         /\ IsSequence(Named(Document[d], n).locks)
         /\ TimeOf(Named(Document[d], n)) \in Seq(Int \X Int)
<1>1. Named(Document[d], n) \in NodesOf(Document[d])
  BY DEF Ids, Named
<1> QED
  BY <1>1, DocumentAssumption DEF Accepted

LEMMA TimesAreOrdered ==
  ASSUME NEW doc, NEW node, NodeAccepted(doc, node), TimeOf(node) \in Seq(Int \X Int),
         NEW range \in ToSet(TimeOf(node))
  PROVE  Ordered(range)
<1>1. range \in Int \X Int /\ range[1] <= range[2]
  BY DEF NodeAccepted, TimesOrdered, ToSet
<1> QED
  BY <1>1 DEF Ordered

(* What to_node_type makes of it.                                          *)
LEMMA NodeIsMade ==
  ASSUME NEW d \in DOMAIN Document, Accepted(Document[d]), NEW n \in Ids(Document[d]),
         NEW made, made = ToNodeType(Named(Document[d], n))
  PROVE  /\ made.kind = "task" => /\ made.time # <<>>
                                  /\ ~ Len(made.time) < Len(made.lock)
         /\ \A range \in ToSet(made.time) : Ordered(range)
<1> DEFINE node == Named(Document[d], n)
<1>1. /\ NodeAccepted(Document[d], node) /\ IsSequence(node.locks)
      /\ TimeOf(node) \in Seq(Int \X Int)
  BY NamedIsThere
<1>2. made = ToNodeType(node)
  OBVIOUS
<1> HIDE DEF node
<1>3. node.type \in {"task", "fork", "join", "empty"}
  BY <1>1 DEF NodeAccepted
<1>4. CASE node.type = "task"
  <2>1. made = TaskNode(node)
    BY <1>2, <1>4 DEF ToNodeType
  <2>2. made.time = TimeOf(node) /\ made.lock = node.locks
    BY <2>1 DEF TaskNode
  <2>3. Len(made.time) = 2 * Len(made.lock) + 1 /\ Len(made.lock) \in Nat
    BY <1>1, <1>4, <2>2 DEF NodeAccepted, SegmentsMatchLocks, IsSequence
  <2>4. made.time # <<>> /\ ~ Len(made.time) < Len(made.lock)
    BY <2>3
  <2> QED
    BY <1>1, <2>2, <2>4, TimesAreOrdered
<1>5. CASE node.type \in {"fork", "join"}
  <2>1. made = ForkOrJoinNode(node)
    BY <1>2, <1>5 DEF ToNodeType
  <2>2. /\ made.kind # "task"
        /\ made.time = <<IF TimeOf(node) = <<>> THEN <<0, 0>> ELSE TimeOf(node)[1]>>
    BY <1>5, <2>1 DEF ForkOrJoinNode
  <2>3. TimeOf(node) # <<>> => TimeOf(node)[1] \in ToSet(TimeOf(node))
    BY <1>1 DEF ToSet
  <2>4. ASSUME NEW range \in ToSet(made.time) PROVE Ordered(range)
    <3>1. range = IF TimeOf(node) = <<>> THEN <<0, 0>> ELSE TimeOf(node)[1]
      BY <2>2 DEF ToSet
    <3>2. CASE TimeOf(node) = <<>>
      BY <3>1, <3>2 DEF Ordered
    <3>3. CASE TimeOf(node) # <<>>
      BY <1>1, <2>3, <3>1, <3>3, TimesAreOrdered
    <3> QED
      BY <3>2, <3>3
  <2> QED
    BY <2>2, <2>4
<1>6. CASE node.type = "empty"
  <2>1. made = EmptyNode
    BY <1>2, <1>6 DEF ToNodeType
  <2> QED
    BY <2>1 DEF EmptyNode, ToSet
<1> QED
  BY <1>3, <1>4, <1>5, <1>6

LEMMA LoadedIsWellMade ==
  ASSUME NEW d \in DOMAIN Document, Accepted(Document[d]), NEW order
  PROVE  WellMade(LoadedGraph(Document[d], order))
<1> DEFINE g == LoadedGraph(Document[d], order)
<1>1. /\ g.edges = Document[d].edges
      /\ g.node = [n \in Ids(Document[d]) |-> ToNodeType(Named(Document[d], n))]
  BY DEF LoadedGraph, Named
<1> HIDE DEF g
<1>2. /\ DOMAIN g.node = Ids(Document[d])
      /\ \A n \in Ids(Document[d]) : g.node[n] = ToNodeType(Named(Document[d], n))
  BY <1>1
<1>3. \A e \in EdgesOf(g) : {e.source, e.target} \subseteq DOMAIN g.node
  BY <1>1, <1>2 DEF EdgesOf, Accepted
<1>4. ASSUME NEW t \in Tasks(g)
      PROVE  g.node[t].time # <<>> /\ ~ Len(g.node[t].time) < NumLocks(g, t)
  <2>1. t \in Ids(Document[d]) /\ g.node[t].kind = "task"
    BY <1>2 DEF Tasks, IsTask, KindOf
  <2> QED
    BY <1>2, <2>1, NodeIsMade DEF NumLocks, Locks
<1>5. ASSUME NEW range \in TimesOf(g) PROVE Ordered(range)
  <2>1. PICK n \in Ids(Document[d]) : range \in ToSet(g.node[n].time)
    BY <1>2 DEF TimesOf, TimedNodes
  <2> QED
    BY <1>2, <2>1, NodeIsMade
<1>6. WellMade(g)
  BY <1>3, <1>4, <1>5 DEF WellMade
<1> QED
  BY <1>6 DEF g

LEMMA BlankIsWellMade ==
  ASSUME NEW doc PROVE WellMade(BlankGraph(doc))
<1> DEFINE g == BlankGraph(doc)
<1>1. g.node = <<>> /\ g.edges = <<>>
  BY DEF BlankGraph
<1> HIDE DEF g
<1>2. DOMAIN g.node = {} /\ DOMAIN g.edges = {}
  BY <1>1
<1>3. EdgesOf(g) = {} /\ Tasks(g) = {} /\ TimesOf(g) = {}
  BY <1>2 DEF EdgesOf, ToSet, Tasks, TimesOf, TimedNodes
<1>4. WellMade(g)
  BY <1>3 DEF WellMade
<1> QED
  BY <1>4 DEF g

(* Another policy changes nothing of this.                                 *)
LEMMA PolicyKeepsWellMade ==
  ASSUME NEW g, WellMade(g), NEW policy
  PROVE  WellMade([g EXCEPT !.policy = policy])
<1> DEFINE o == [g EXCEPT !.policy = policy]
<1>1. o.node = g.node /\ o.edges = g.edges
  OBVIOUS
<1> HIDE DEF o
<1>2. EdgesOf(o) = EdgesOf(g) /\ Tasks(o) = Tasks(g) /\ TimesOf(o) = TimesOf(g)
  BY <1>1 DEF EdgesOf, Tasks, TimesOf, TimedNodes, IsTask, IsControl, KindOf
<1>3. WellMade(o)
  BY <1>1, <1>2 DEF WellMade, NumLocks, Locks
<1> QED
  BY <1>3 DEF o

(* The document that was validated stays one, the graph at hand comes from *)
(* a valid document, and a process that has aborted had a reason.          *)
ValidName(d) == d \in DOMAIN Document /\ Accepted(Document[d])

GraphStages == {"override", "tdg_dot", "wcet", "check_ppn", "romeo", "lower"}

AInv ==
  /\ step = "read" /\ file # "unreadable" => file \in DOMAIN Document
  /\ step = "reread" =>
       ValidName(accepted) /\ (file # "unreadable" => ValidName(file))
  /\ step \in GraphStages => WellMade(tdg)
  /\ AbortsAreKnown

LEMMA InitAInv == Init => AInv
<1> SUFFICES ASSUME Init PROVE AInv
  OBVIOUS
<1>1. outcome = "running" /\ step \in {"parse", "read"}
  BY DEF Init
<1>2. step = "read" /\ file # "unreadable" => file \in DOMAIN Document
  BY DEF Init
<1> QED
  BY <1>1, <1>2 DEF AInv, GraphStages, AbortsAreKnown

(* The stages that keep the graph, other than the lowering, do not abort.  *)
LEMMA OtherStagesKeepAInv ==
  ASSUME AInv, outcome = "running", UNCHANGED <<file, accepted, tdg>>,
         step' \notin {"read", "reread"},
         step' \in GraphStages => step \in GraphStages,
         outcome' # "aborted"
  PROVE  AInv'
BY DEF AInv, AbortsAreKnown, GraphStages

LEMMA NextKeepsAInv ==
  ASSUME IInv, AInv, [Next]_vars
  PROVE  AInv'
<1>1. CASE UNCHANGED vars
  BY <1>1 DEF AInv, vars, AbortsAreKnown, ValidName
<1>2. step # "none" => outcome = "running"
  BY DEF IInv, Ending
<1>3. ASSUME NEW content \in Replacing \cup {"unreadable"}, Replace(content)
      PROVE  AInv'
  <2>1. content # "unreadable" => ValidName(content)
    BY PipelineAssumption DEF ValidName
  <2>2. outcome = "running"
    BY <1>2, <1>3 DEF Replace
  <2> QED
    BY <1>3, <2>1, <2>2 DEF Replace, AInv, GraphStages, AbortsAreKnown, ValidName
<1>4. ASSUME ReadInput PROVE AInv'
  <2>1. outcome = "running" /\ step = "read"
    BY <1>2, <1>4 DEF ReadInput
  <2> QED
    BY <1>4, <2>1
       DEF ReadInput, Goto, Quit, AInv, GraphStages, AbortsAreKnown, ValidName
<1>5. ASSUME Reread PROVE AInv'
  <2>1. outcome = "running" /\ step = "reread" /\ step' = "override" /\ outcome' = outcome
    BY <1>2, <1>5 DEF Reread, Goto
  <2>2. WellMade(tdg')
    <3>1. CASE file = "unreadable"
      BY <1>5, <3>1, BlankIsWellMade DEF Reread
    <3>2. CASE file # "unreadable"
      BY <1>5, <2>1, <3>2, LoadedIsWellMade DEF Reread, AInv, ValidName
    <3> QED
      BY <3>1, <3>2
  <2> QED
    BY <2>1, <2>2 DEF AInv, AbortsAreKnown
<1>6. ASSUME Override PROVE AInv'
  <2>1. outcome = "running" /\ step = "override"
    BY <1>2, <1>6 DEF Override
  <2>2. outcome' # "aborted" /\ step' \notin {"read", "reread"}
    BY <1>6, <2>1 DEF Override, Goto, Quit, AfterOverride, IInv, CallOK, StageOK
  <2>3. WellMade(tdg')
    <3>1. tdg' = tdg \/ \E policy : tdg' = [tdg EXCEPT !.policy = policy]
      BY <1>6 DEF Override
    <3>2. WellMade(tdg)
      BY <2>1 DEF AInv, GraphStages
    <3>3. ASSUME NEW policy, tdg' = [tdg EXCEPT !.policy = policy] PROVE WellMade(tdg')
      <4> DEFINE g == [tdg EXCEPT !.policy = policy]
      <4>1. WellMade(g)
        BY <3>2, PolicyKeepsWellMade
      <4> HIDE DEF g
      <4>2. tdg' = g
        BY <3>3 DEF g
      <4> QED
        BY <4>1, <4>2
    <3>4. CASE tdg' = tdg
      BY <3>2, <3>4
    <3> QED
      BY <3>1, <3>3, <3>4
  <2> QED
    BY <2>2, <2>3 DEF AInv, AbortsAreKnown
<1>7. ASSUME Lower PROVE AInv'
  <2>1. outcome = "running" /\ step = "lower" /\ UNCHANGED <<file, accepted, tdg>>
    BY <1>2, <1>7 DEF Lower, Same
  <2>2. step' \in {"none", "ptpn_dot", "ppn"}
    BY <1>7 DEF Lower, Goto, Quit
  <2>3. outcome' = "aborted" => LoweringThrows(tdg)
    BY <1>7, <2>1 DEF Lower, Goto, Quit
  <2>4. outcome' = "aborted" => OddShape(tdg) \/ LongLabel(tdg)
    BY <2>1, <2>3, WellMadeThrows DEF AInv, GraphStages
  <2> QED
    BY <2>1, <2>2, <2>4 DEF AInv, AbortsAreKnown, GraphStages
<1>8. ASSUME \/ ParsePtpn \/ ExportTdg \/ WriteWcet \/ CheckPtopner \/ ExportRomeo
             \/ ExportPtpn \/ ExportPpn \/ ExportScg \/ ExportMetrics \/ Finish
      PROVE  AInv'
  <2>1. step # "none" /\ UNCHANGED <<file, accepted, tdg>>
    BY <1>8 DEF Same, ParsePtpn, ExportTdg, WriteWcet, CheckPtopner, ExportRomeo,
                ExportPtpn, ExportPpn, ExportScg, ExportMetrics, Finish
  <2>2. outcome' # "aborted" /\ step' \notin {"read", "reread"}
    BY <1>2, <1>8, <2>1
       DEF Goto, Quit, Write, WriteOrIgnore, ParsePtpn, ExportTdg, WriteWcet, CheckPtopner,
           ExportRomeo, ExportPtpn, ExportPpn, ExportScg, ExportMetrics, Finish
  <2>3. step' \in GraphStages => step \in GraphStages
    BY <1>8, <2>1
       DEF Goto, Quit, Write, WriteOrIgnore, ParsePtpn, ExportTdg, WriteWcet, CheckPtopner,
           ExportRomeo, ExportPtpn, ExportPpn, ExportScg, ExportMetrics, Finish, GraphStages
  <2> QED
    BY <1>2, <2>1, <2>2, <2>3, OtherStagesKeepAInv
<1> QED
  BY <1>1, <1>3, <1>4, <1>5, <1>6, <1>7, <1>8 DEF Next, Stage, Ended

(* A document that passes the validation is lowered without an exception,  *)
(* whatever it holds and whatever replaces it before the second reading,   *)
(* unless the graph has a self-loop, a tie between forks and joins, a      *)
(* negative time, or a label that begins with a number beyond the largest  *)
(* `int`.  What the second reading finds may have changed, but it was      *)
(* valid too; if it finds nothing, the graph of nothing is lowered.        *)
THEOREM AbortsHaveAReason == Spec => []AbortsAreKnown
<1>1. Init => IInv /\ AInv
  BY InitIInv, InitAInv
<1>2. IInv /\ AInv /\ [Next]_vars => IInv' /\ AInv'
  BY NextKeepsIInv, NextKeepsAInv
<1>3. AInv => AbortsAreKnown
  BY DEF AInv
<1> QED
  BY <1>1, <1>2, <1>3, PTL DEF Spec
=============================================================================
