----------------------------- MODULE MCPipeline -----------------------------
EXTENDS Pipeline, TLC

TaskAs(id, core, priority, time, locks) ==
  [id |-> id, type |-> "task", priority |-> <<priority>>, core |-> <<core>>,
   time |-> time, locks |-> locks]
Bare(id, type) ==
  [id |-> id, type |-> type, priority |-> <<>>, core |-> <<>>, time |-> <<>>, locks |-> <<>>]
Tie(a, b) == [source |-> a, target |-> b, label |-> <<>>, dashed |-> FALSE]

Plain(nodes, edges) ==
  [num_cpus |-> <<2>>, cores_per_cpu |-> <<>>, capacity |-> <<>>, policy |-> <<>>,
   shared_locks |-> {"mutex", "queue"}, start |-> <<[task |-> "A", tokens |-> 1]>>,
   ends |-> {}, periodic |-> <<>>, nodes |-> nodes, edges |-> edges]

Points == <<TaskAs("A", 0, 2, <<<<1, 1>>>>, <<>>), TaskAs("B", 0, 1, <<<<3, 3>>>>, <<>>)>>
Pair == [Plain(Points, <<>>) EXCEPT !.periodic = <<[task |-> "A", period |-> 4]>>]
Apart == Plain(<<Points[1], TaskAs("B", 1, 1, <<<<3, 3>>>>, <<>>)>>, <<>>)
Chained == Plain(Points, <<[Tie("A", "B") EXCEPT !.label = <<1, 2>>]>>)
OpenEnded == Plain(Points, <<[Tie("A", "B") EXCEPT !.label = <<1, INF>>]>>)
Twice == [Pair EXCEPT !.periodic = <<[task |-> "A", period |-> 4], [task |-> "A", period |-> 6]>>]
Locked ==
  Plain(<<TaskAs("A", 0, 2, <<<<1, 1>>, <<1, 1>>, <<0, 0>>>>, <<"mutex">>), Points[2]>>, <<>>)
Forked ==
  Plain(<<Points[1], Points[2], Bare("F", "fork")>>, <<Tie("A", "F"), Tie("F", "B")>>)

(* Each of these has one fault, which validation finds or does not find.   *)
Faulty ==
  [reversed |-> [Locked EXCEPT !.nodes[1].time[2] = <<2, 1>>],
   short |-> [Locked EXCEPT !.nodes[1].time = <<<<1, 1>>, <<2>>, <<3, 3>>>>],
   elsewhere |-> [Chained EXCEPT !.edges[1].target = "C"],
   offcore |-> [Pair EXCEPT !.nodes[1].core = <<2>>],
   queued |-> [Locked EXCEPT !.nodes[1].locks = <<"queue">>],
   negative |-> [Pair EXCEPT !.nodes[1].time[1] = <<-1, -1>>],
   looped |-> [Pair EXCEPT !.edges = <<[Tie("A", "A") EXCEPT !.label = <<4>>]>>],
   long |-> [Chained EXCEPT !.edges[1].label = <<200>>],
   wrapped |-> [Chained EXCEPT !.edges[1].label = <<300>>],
   crossed |-> [Chained EXCEPT !.edges[1].label = <<1, 200>>],
   malformed |-> [Chained EXCEPT !.edges[1].label = <<1, 2, 3>>],
   tied |-> Plain(<<Points[1], Bare("F", "fork"), Bare("J", "join")>>, <<Tie("F", "J")>>)]

MCDocument ==
  [pair |-> Pair, twice |-> Twice, apart |-> Apart, chained |-> Chained, open |-> OpenEnded, locked |-> Locked,
   forked |-> Forked, odd |-> [Pair EXCEPT !.policy = <<"round robin">>],
   restart |-> [Chained EXCEPT !.policy = <<"fixed_prior_with_restart">>]] @@ Faulty

(* Two places and one transition; with an interval, with a point.          *)
Hop(latest) ==
  [net |-> [places |-> {"p", "q"}, transitions |-> {0},
            Pre |-> [p \in {"p", "q"} |-> [t \in {0} |-> IF p = "p" THEN 1 ELSE 0]],
            Post |-> [t \in {0} |-> [p \in {"p", "q"} |-> IF p = "q" THEN 1 ELSE 0]],
            interval |-> [t \in {0} |-> Closed(1, latest)],
            priority |-> [t \in {0} |-> 1], suspendable |-> [t \in {0} |-> TRUE],
            M0 |-> [p \in {"p", "q"} |-> 1]],
   place |-> <<"p", "q">>, role |-> <<"control">>]

MCSource == [ranged |-> Hop(2), pointed |-> Hop(1)]

MCRequests ==
  {Exports, {}} \cup {{x} : x \in Exports} \cup
  {{"wcet", "ppn"}, {"romeo", "ptpn_dot"}, {"ppn", "metrics"}, {"tdg_dot", "scg"}}
=============================================================================
