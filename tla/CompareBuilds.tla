--------------------------- MODULE CompareBuilds ---------------------------
(***************************************************************************)
(* What merging and extrapolation may change.  The module builds the same  *)
(* net twice: first as the command line does by default (EQUALITY, no      *)
(* extrapolation, no limit), then with the chosen mode and switch, and     *)
(* compares the two graphs.                                                *)
(***************************************************************************)
EXTENDS StateClassGraph

VARIABLES vertices0, edges0, frontier0, next_frontier0, todo0, truncated0, pc0

baseVars ==
  <<vertices0, edges0, frontier0, next_frontier0, todo0, truncated0, pc0>>

Base == INSTANCE StateClassGraph WITH
          mode <- "EQUALITY", extrapolation <- FALSE,
          vertices <- vertices0, edges <- edges0, frontier <- frontier0,
          next_frontier <- next_frontier0, todo <- todo0,
          truncated <- truncated0, pc <- pc0

CompareInit == Init /\ Base!Init

CompareNext ==
  \/ Base!LoopStep /\ UNCHANGED vars
  \/ pc0 = "done" /\ Build /\ UNCHANGED baseVars
  \/ pc = "done" /\ UNCHANGED <<vars, baseVars>>

CompareSpec == CompareInit /\ [][CompareNext]_<<vars, baseVars>>

BothComplete == Base!Complete /\ Complete

-----------------------------------------------------------------------------
(* Extrapolation "preserves the reachable marking set exactly", and so     *)
(* does merging by inclusion: the two graphs have the same markings, the   *)
(* same firings between them and the same dead ends.                       *)
Behaviour(V, E) ==
  [markings |-> {V[v].marking : v \in DOMAIN V},
   firings |-> {<<V[e.src].marking, e.t, V[e.dst].marking>> : e \in E},
   sinks |-> {V[v].marking : v \in {x \in DOMAIN V : \A e \in E : e.src # x}}]

SameBehaviour ==
  BothComplete => Behaviour(vertices, edges) = Behaviour(vertices0, edges0)

(* Merging loses no valuation: every class of the default graph is inside  *)
(* a class of the other one; and the other has no more classes.            *)
NothingLost ==
  BothComplete =>
    /\ \A v \in DOMAIN vertices0 :
         \E x \in DOMAIN vertices : Covers(vertices0[v], x)
    /\ Len(vertices) <= Len(vertices0)

(* Without extrapolation, merging invents none either: the classes it      *)
(* keeps are classes of the default graph, so for every firing the least   *)
(* and the greatest dwell time are unchanged.                              *)
Dwells(V, E) ==
  LET Of(f) == {e \in E : <<V[e.src].marking, e.t>> = f}
      Fired == {<<V[e.src].marking, e.t>> : e \in E}
  IN  [f \in Fired |->
         [least |-> CHOOSE n \in {e.dwell_min : e \in Of(f)} :
                      \A e \in Of(f) : n <= e.dwell_min,
          greatest |-> CHOOSE n \in {e.dwell_max : e \in Of(f)} :
                         \A e \in Of(f) : e.dwell_max <= n]]

MergingKeepsDwells ==
  BothComplete /\ ~ extrapolation =>
    /\ {vertices[v] : v \in DOMAIN vertices} \subseteq
         {vertices0[v] : v \in DOMAIN vertices0}
    /\ Dwells(vertices, edges) = Dwells(vertices0, edges0)

(* Merging neither loses what the default graph has nor adds to it.        *)
MergingIsLossless == NothingLost /\ MergingKeepsDwells
=============================================================================
