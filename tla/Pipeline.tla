------------------------------ MODULE Pipeline ------------------------------
(***************************************************************************)
(* One call of the command line (src/src/main.cpp): `ptpn tdg`, `ptpn      *)
(* ptpn`, `ptpn export romeo` and `ptpn export ptopner`, one action per    *)
(* stage that reads the input, writes a file or ends the process.          *)
(*                                                                         *)
(* The stages have no way back: a file that is written stays when a later  *)
(* stage fails.  The JSON file is read twice, first to be validated and    *)
(* then to be loaded, and somebody may replace it in between.              *)
(***************************************************************************)
EXTENDS InputGraph, PpnExport

CONSTANTS
    Document,   \* name -> JSON document, as in InputGraph
    Source,     \* name -> net of a .ptpn file, as PpnExport describes it
    Requests,   \* sets of exports that are asked for
    Replacing   \* names of documents that may replace the one validated

Exports == {"tdg_dot", "wcet", "ptpn_dot", "scg", "metrics", "romeo", "ppn", "tina"}

ASSUME PipelineAssumption ==
  /\ Requests \subseteq SUBSET Exports
  /\ Replacing \subseteq {d \in DOMAIN Document : Accepted(Document[d])}

(* Locks are listed in order, and times are numbers.                       *)
ASSUME DocumentAssumption ==
  \A d \in DOMAIN Document : \A node \in NodesOf(Document[d]) :
    IsSequence(node.locks) /\ TimeOf(node) \in Seq(Int \X Int)

VARIABLES call,     \* [command, requested, skip, policy, unwritable]
          file,     \* what the input file holds: a name, or "unreadable"
          accepted, \* the name of the document that was validated
          tdg,      \* the graph that was loaded
          step,     \* the stage to come
          written,  \* the exports written so far
          outcome   \* "running", "success", "failure" or "aborted"

vars == <<call, file, accepted, tdg, step, written, outcome>>

Requested(x) == x \in call.requested
Writable(x) == x \notin call.unwritable

-----------------------------------------------------------------------------
(* How a stage ends.                                                       *)
Goto(next) == step' = next /\ UNCHANGED outcome
Quit(result) == step' = "none" /\ outcome' = result

Same == UNCHANGED <<call, file, accepted, tdg>>

(* An export whose failure ends the process, and one whose does not.       *)
Write(x, next) ==
  IF ~ Requested(x) THEN Goto(next) /\ UNCHANGED written
  ELSE IF Writable(x) THEN Goto(next) /\ written' = written \cup {x}
  ELSE Quit("failure") /\ UNCHANGED written

WriteOrIgnore(x, next) ==
  /\ written' = IF Requested(x) /\ Writable(x) THEN written \cup {x} ELSE written
  /\ Goto(next)

-----------------------------------------------------------------------------
(* Reading.                                                                *)
GivenPolicies == {<<>>, <<"fixed_prior_with_restart">>, <<"fixed">>}

Call(command, requested, skip, policy, unwritable) ==
  [command |-> command, requested |-> requested, skip |-> skip,
   policy |-> policy, unwritable |-> unwritable]

(* At most one of the files that are asked for cannot be written.          *)
Failing(requested) == {{}} \cup {{x} : x \in requested}

CallsOf(command, requests, skips, policies) ==
  UNION {{Call(command, r, skip, policy, bad) :
            skip \in skips, policy \in policies, bad \in Failing(r)} : r \in requests}

(* The two export commands ask for one file each.                          *)
Calls ==
  CallsOf("tdg", Requests, BOOLEAN, GivenPolicies)
  \cup CallsOf("ptpn", Requests, BOOLEAN, {<<>>})
  \cup CallsOf("romeo", {{"romeo"}}, {TRUE}, {<<>>})
  \cup CallsOf("ptopner", {{"ppn"}}, {TRUE}, GivenPolicies)

Formats(command) ==
  CASE command = "ptpn" -> {"ptpn"}
    [] command = "ptopner" -> {"json", "ptpn"}
    [] OTHER -> {"json"}

Init ==
  /\ call \in Calls
  /\ \E from \in Formats(call.command) :
       /\ file \in {"unreadable"} \cup
                   (IF from = "ptpn" THEN DOMAIN Source ELSE DOMAIN Document)
       /\ step = IF from = "ptpn" THEN "parse" ELSE "read"
  /\ accepted = "none"
  /\ tdg = <<>>
  /\ written = {}
  /\ outcome = "running"

(* load_tdg_from_json, up to the end of the validation.                    *)
ReadInput ==
  /\ step = "read"
  /\ IF file # "unreadable" /\ Accepted(Document[file])
     THEN accepted' = file /\ Goto("reread")
     ELSE Quit("failure") /\ UNCHANGED accepted
  /\ UNCHANGED <<call, file, tdg, written>>

(* Somebody else replaces the file, or removes it.                         *)
Replace(content) ==
  /\ step = "reread"
  /\ file = accepted
  /\ file' = content
  /\ UNCHANGED <<call, accepted, tdg, step, written, outcome>>

RereadUntilFound ==             \* variant: waits for the file to come back
  /\ step = "reread"
  /\ IF file = "unreadable" THEN UNCHANGED <<tdg, step, outcome>>
     ELSE /\ tdg' = LoadedGraph(Document[file], SetToSeq(Ids(Document[file])))
          /\ Goto("override")
  /\ UNCHANGED <<call, file, accepted, written>>

(* The rest of it: parse_json reads the file again.  If that fails it logs *)
(* an error and returns, and the caller goes on with a graph of nothing.   *)
Reread ==
  /\ step = "reread"
  /\ IF file = "unreadable" THEN tdg' = BlankGraph(Document[accepted])
     ELSE \E order \in SetToSeqs(Ids(Document[file])) :
            tdg' = LoadedGraph(Document[file], order)
  /\ Goto("override")
  /\ UNCHANGED <<call, file, accepted, written>>

(* A .ptpn file either parses or ends the process.                         *)
ParsePtpn ==
  /\ step = "parse"
  /\ IF file = "unreadable" THEN Quit("failure")
     ELSE IF call.command = "ptopner" THEN Goto("ppn")
     ELSE IF call.skip /\ call.requested = {} THEN Quit("success")
     ELSE Goto("ptpn_dot")
  /\ UNCHANGED written /\ Same

-----------------------------------------------------------------------------
(* From the graph to the net.                                              *)
AfterOverride ==
  CASE call.command = "tdg" -> "tdg_dot"
    [] call.command = "romeo" -> "romeo"
    [] call.command = "ptopner" -> "check_ppn"

(* The .ppn export turns every policy into restart, but not the one given  *)
(* on the command line.                                                    *)
Override ==
  /\ step = "override"
  /\ IF call.command = "ptopner" /\ call.policy \notin {<<>>, <<"fixed_prior_with_restart">>}
     THEN Quit("failure") /\ UNCHANGED tdg
     ELSE /\ tdg' = [tdg EXCEPT !.policy =
                       IF call.command = "ptopner" THEN "fixed_prior_with_restart"
                                                   ELSE Given(call.policy, tdg.policy)]
          /\ Goto(AfterOverride)
  /\ UNCHANGED <<call, file, accepted, written>>

ExportTdg == step = "tdg_dot" /\ WriteOrIgnore("tdg_dot", "wcet") /\ Same

WriteWcetOrIgnore ==            \* variant: like the DOT file before it
  step = "wcet" /\ WriteOrIgnore("wcet", "check_ppn") /\ Same
WriteWcet == step = "wcet" /\ Write("wcet", "check_ppn") /\ Same

CheckPtopner ==
  /\ step = "check_ppn"
  /\ IF Requested("ppn") /\ ~ ValidForPtopner(tdg) THEN Quit("failure")
     ELSE Goto(IF call.command = "tdg" THEN "romeo" ELSE "lower")
  /\ UNCHANGED written /\ Same

(* The Romeo encoding refuses ties between forks and joins, and ties of    *)
(* empty nodes, which it gives no places.                                  *)
RomeoRefuses(g) ==
  \E e \in EdgesOf(g) :
    /\ Ties(e)
    /\ \/ IsControl(g, e.source) /\ IsControl(g, e.target)
       \/ "empty" \in {KindOf(g, e.source), KindOf(g, e.target)}

ExportRomeo ==
  /\ step = "romeo"
  /\ IF Requested("romeo") /\ RomeoRefuses(tdg)
     THEN Quit("failure") /\ UNCHANGED written
     ELSE Write("romeo", IF call.command = "tdg" THEN "lower" ELSE "finish")
  /\ Same

ShouldRunAnalysis == ~ call.skip \/ Requested("scg") \/ Requested("metrics")
NeedsNet == ShouldRunAnalysis \/ Requested("ptpn_dot") \/ Requested("ppn")

(* Where transform throws, and nobody catches.                             *)
SelfLooped(g) == \E e \in EdgesOf(g) : IsSelfLoop(e)
ControlsTied(g) ==
  \E e \in EdgesOf(g) : Ties(e) /\ IsControl(g, e.source) /\ IsControl(g, e.target)
TimesOf(g) == UNION {ToSet(g.node[n].time) : n \in TimedNodes(g)}

LoweringThrows(g) ==
  \/ \E e \in EdgesOf(g) : ~ {e.source, e.target} \subseteq DOMAIN g.node
  \/ \E t \in Tasks(g) : \/ g.node[t].time = <<>>
                         \/ Len(g.node[t].time) < NumLocks(g, t)
  \/ \E range \in TimesOf(g) : range[1] < 0 \/ range[2] < range[1]
  \/ Throws(g)

Lower ==
  /\ step = "lower"
  /\ IF ~ NeedsNet THEN Quit("success")
     ELSE IF LoweringThrows(tdg) THEN Quit("aborted")
     ELSE Goto(IF call.command = "tdg" THEN "ptpn_dot" ELSE "ppn")
  /\ UNCHANGED written /\ Same

(* The net at hand, once there is one.                                     *)
FromJson == accepted # "none"
Export == IF FromJson THEN LoweredForExport(tdg) ELSE Source[file]
Intervals == IF FromJson THEN LoweredIntervals(tdg) ELSE IntervalsOf(Source[file].net)

-----------------------------------------------------------------------------
(* run_ptpn_postprocess, and the end of the export commands.               *)
ExportPtpn == step = "ptpn_dot" /\ Write("ptpn_dot", "ppn") /\ Same

ExportPpn ==
  /\ step = "ppn"
  /\ IF Requested("ppn") /\ ~ Exportable(Intervals)
     THEN Quit("failure") /\ UNCHANGED written
     ELSE Write("ppn", IF call.command = "ptopner" THEN "finish"
                       ELSE IF ShouldRunAnalysis THEN "scg" ELSE "finish")
  /\ Same

ExportScg == step = "scg" /\ Write("scg", "metrics") /\ Same
ExportMetrics == step = "metrics" /\ Write("metrics", "finish") /\ Same

Finish == step = "finish" /\ Quit("success") /\ UNCHANGED written /\ Same

Stage ==
  \/ ReadInput \/ Reread \/ ParsePtpn \/ Override
  \/ ExportTdg \/ WriteWcet \/ CheckPtopner \/ ExportRomeo \/ Lower
  \/ ExportPtpn \/ ExportPpn \/ ExportScg \/ ExportMetrics \/ Finish

Ended == step = "none" /\ UNCHANGED vars

Next ==
  \/ Stage
  \/ \E content \in Replacing \cup {"unreadable"} : Replace(content)
  \/ Ended

(* The process runs: a stage that can be taken is taken.                   *)
Spec == Init /\ [][Next]_vars /\ WF_vars(Stage)

-----------------------------------------------------------------------------
(* Exit status 0 means that every export the command makes with a checked  *)
(* result has been written: a failing stage is not passed over, and no     *)
(* stage is left out that an export needs, with or without --no-analysis.  *)
Checked ==
  CASE call.command = "tdg" -> Exports \ {"tdg_dot", "tina"}
    [] call.command = "ptpn" -> {"ptpn_dot", "ppn", "scg", "metrics"}
    [] OTHER -> Exports

SuccessMeansWritten ==
  outcome = "success" => call.requested \cap Checked \subseteq written

(* A .ppn file that comes from a JSON document describes a net PToPNer can *)
(* handle, whatever policy the document or the command line asks for and   *)
(* whatever document is found on the second reading: cores are places, no  *)
(* transition waits for a lock, and a transition is marked as one that is  *)
(* suspended exactly when some preemption, of a higher priority, takes the *)
(* token it works on.                                                      *)
Consumes(e, t) == {p \in e.net.places : e.net.Pre[p][t] > 0}

PreemptionsOf(e, prior, t) ==
  {u \in e.net.transitions :
     /\ e.role[u + 1] = "preempt"
     /\ Consumes(e, t) \cap Consumes(e, u) # {}
     /\ prior[t] < prior[u]}

PpnIsRestartStyle ==
  "ppn" \in written /\ FromJson =>
    LET e == Export
        model == PpnModel(e)
        prior == [t \in e.net.transitions |-> model.transition[t].prior]
    IN  /\ \A c \in Cpus(tdg) : Core(c) \in e.net.places
        /\ \A p \in e.net.places : p[1] # "lock"
        /\ \A t \in e.net.transitions :
             model.transition[t].is_suspend <=>
               e.role[t + 1] = "exec" /\ PreemptionsOf(e, prior, t) # {}

(* A document that passes the validation is lowered, unless it has one of  *)
(* four things that the validation does not look for: a self-loop, a tie   *)
(* between forks and joins, a negative time, a label that begins with a    *)
(* number which does not fit an `int`.                                     *)
OddShape(g) ==
  \/ SelfLooped(g) \/ ControlsTied(g)
  \/ \E range \in TimesOf(g) : range[1] < 0

LongLabel(g) ==
  \E e \in EdgesOf(g) : Bridges(g, e) /\ e.label # <<>> /\ e.label[1] > INF

AbortsAreKnown == outcome = "aborted" => OddShape(tdg) \/ LongLabel(tdg)

(* A label that cannot be used becomes [0, 0] with a warning ("A malformed *)
(* label falls back to `[0, 0]`", docs/json_format.md:194): whatever ends  *)
(* the process is not a label.                                             *)
LabelsFallBack == outcome = "aborted" => OddShape(tdg)

(* Every call ends, also when the file disappears under it.                *)
Ends == <>(outcome # "running")

(* A .ppn file has the arcs of the net it was made from.                   *)
PpnHasTheArcs ==
  "ppn" \in written =>
    LET e == Export
        model == PpnModel(e)
    IN  \A t \in e.net.transitions :
          {e.place[i] : i \in model.transition[t].preset} = Consumes(e, t)
=============================================================================
