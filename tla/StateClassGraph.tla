-------------------------- MODULE StateClassGraph --------------------------
(***************************************************************************)
(* StateClassReachabilityGraph::build: the breadth-first construction of   *)
(* the state-class graph, one action per step of its loops.  The input is  *)
(* a net, a canonicalization mode, the extrapolation switch and the bound  *)
(* on the number of classes.                                               *)
(***************************************************************************)
EXTENDS StateClass, Sequences

CONSTANTS Nets,      \* the nets to analyse
          Modes,     \* subset of {"EQUALITY", "MAX_LOWER", "INTERSECTION"}
          MaxStates  \* the values --max-states is given

ASSUME GraphAssumption ==
  /\ \A net \in Nets : IsNet(net)
  /\ Modes \subseteq {"EQUALITY", "MAX_LOWER", "INTERSECTION"}
  /\ MaxStates \subseteq Nat

VARIABLES net, mode, extrapolation, max_states,   \* the input
          vertices,        \* sequence of classes, in order of discovery
          edges,           \* set of firing edges between vertex numbers
          frontier,        \* what is left of the level being expanded
          next_frontier,   \* the level under construction
          todo,            \* enabled transitions of Head(frontier) left to try
          truncated,
          pc

input == <<net, mode, extrapolation, max_states>>
vars == <<input, vertices, edges, frontier, next_frontier, todo, truncated, pc>>

-----------------------------------------------------------------------------
NormalIn(n, extrapolates, class) ==
  IF extrapolates THEN ExtrapolateClass(n, class) ELSE class

Normalised(class) == NormalIn(net, extrapolation, class)

Init ==
  /\ net \in Nets
  /\ mode \in Modes
  /\ extrapolation \in BOOLEAN
  /\ max_states \in MaxStates
  /\ vertices = <<Normalised(InitialClass(net))>>
  /\ edges = {}
  /\ frontier = <<1>>
  /\ next_frontier = <<>>
  /\ todo = {}
  /\ truncated = FALSE
  /\ pc = "level"

FullTooLate == Len(vertices) > max_states     \* variant
Full == Len(vertices) >= max_states

(* The loop over the level stops as soon as the graph is full.             *)
StopAtLimit ==
  /\ pc = "level" /\ frontier # <<>> /\ Full
  /\ truncated' = TRUE
  /\ pc' = "done"
  /\ UNCHANGED <<vertices, edges, frontier, next_frontier, todo>>

BeginVertex ==
  /\ pc = "level" /\ frontier # <<>> /\ ~ Full
  /\ todo' = PriorityEnabled(net, vertices[Head(frontier)].marking)
  /\ pc' = "expand"
  /\ UNCHANGED <<vertices, edges, frontier, next_frontier, truncated>>

NextLevel ==
  /\ pc = "level" /\ frontier = <<>> /\ next_frontier # <<>>
  /\ frontier' = next_frontier
  /\ next_frontier' = <<>>
  /\ UNCHANGED <<vertices, edges, todo, truncated, pc>>

Finish ==
  /\ pc = "level" /\ frontier = <<>> /\ next_frontier = <<>>
  /\ pc' = "done"
  /\ UNCHANGED <<vertices, edges, frontier, next_frontier, todo, truncated>>

-----------------------------------------------------------------------------
(* The vertex being expanded and the transition tried next: they are tried *)
(* in increasing order.                                                    *)
u == Head(frontier)
Elapsed == TimeElapse(net, vertices[u])
current == CHOOSE t \in todo : \A s \in todo : t <= s
NewClass == Normalised(Successor(net, Elapsed, current))

(* Variant of the edge: the entry range is not taken into account.         *)
EdgeFromZero(class, t, v) ==
  LET elapsed == TimeElapse(net, class).zone
      ht == Execution(t)
      fire_max == M!Smaller(elapsed[ht, X0], Latest(net, t))
  IN [src |-> u, t |-> t, dst |-> v,
      firing_min |-> Earliest(net, t), firing_max |-> fire_max,
      dwell_min |-> Earliest(net, t), dwell_max |-> fire_max]

(* The window of h_t at the firing, and the time spent in the source class *)
(* before it, measured from the entry range of h_t.                        *)
FiringEdge(class, t, v) ==
  LET entry == class.zone
      elapsed == TimeElapse(net, class).zone
      ht == Execution(t)
      lower == Earliest(net, t)
      fire_min == IF lower < -elapsed[X0, ht] THEN -elapsed[X0, ht] ELSE lower
      fire_max == M!Smaller(elapsed[ht, X0], Latest(net, t))
      NonNegative(n) == IF n < 0 THEN 0 ELSE n
  IN [src |-> u, t |-> t, dst |-> v,
      firing_min |-> fire_min, firing_max |-> fire_max,
      dwell_min |-> NonNegative(fire_min - entry[ht, X0]),
      dwell_max |-> IF fire_max = INF THEN INF
                    ELSE NonNegative(fire_max + entry[X0, ht])]

MatchesButInitial(class) ==       \* variant: the initial class is not indexed
  {v \in DOMAIN vertices \ {1} : CanMergeInto(class, vertices[v], mode)}

(* find_match: the first vertex, in order of discovery, that the class may *)
(* be merged into.                                                         *)
Matches(class) == {v \in DOMAIN vertices : CanMergeInto(class, vertices[v], mode)}
FirstMatch(class) == CHOOSE v \in Matches(class) : \A x \in Matches(class) : v <= x

Trying == pc = "expand" /\ todo # {}

SkipTransition ==
  /\ Trying /\ ~ CanFire(net, Elapsed, current)
  /\ todo' = todo \ {current}
  /\ UNCHANGED <<vertices, edges, frontier, next_frontier, truncated, pc>>

Merge ==
  /\ Trying /\ CanFire(net, Elapsed, current)
  /\ Matches(NewClass) # {}
  /\ edges' = edges \cup {FiringEdge(vertices[u], current, FirstMatch(NewClass))}
  /\ todo' = todo \ {current}
  /\ UNCHANGED <<vertices, frontier, next_frontier, truncated, pc>>

DropSuccessor ==
  /\ Trying /\ CanFire(net, Elapsed, current)
  /\ Matches(NewClass) = {} /\ Full
  /\ truncated' = TRUE
  /\ todo' = todo \ {current}
  /\ UNCHANGED <<vertices, edges, frontier, next_frontier, pc>>

DiscoverRaw ==                    \* variant: stored before extrapolation
  /\ Trying /\ CanFire(net, Elapsed, current)
  /\ Matches(NewClass) = {} /\ ~ Full
  /\ vertices' = Append(vertices, Successor(net, Elapsed, current))
  /\ edges' = edges \cup {FiringEdge(vertices[u], current, Len(vertices) + 1)}
  /\ next_frontier' = Append(next_frontier, Len(vertices) + 1)
  /\ todo' = todo \ {current}
  /\ UNCHANGED <<frontier, truncated, pc>>

Discover ==
  /\ Trying /\ CanFire(net, Elapsed, current)
  /\ Matches(NewClass) = {} /\ ~ Full
  /\ vertices' = Append(vertices, NewClass)
  /\ edges' = edges \cup {FiringEdge(vertices[u], current, Len(vertices) + 1)}
  /\ next_frontier' = Append(next_frontier, Len(vertices) + 1)
  /\ todo' = todo \ {current}
  /\ UNCHANGED <<frontier, truncated, pc>>

EndVertexInPlace ==               \* variant: the loop does not advance
  /\ pc = "expand" /\ todo = {}
  /\ pc' = IF truncated THEN "done" ELSE "level"
  /\ UNCHANGED <<frontier, vertices, edges, next_frontier, todo, truncated>>

EndVertex ==
  /\ pc = "expand" /\ todo = {}
  /\ frontier' = Tail(frontier)
  /\ pc' = IF truncated THEN "done" ELSE "level"
  /\ UNCHANGED <<vertices, edges, next_frontier, todo, truncated>>

Expand == SkipTransition \/ Merge \/ DropSuccessor \/ Discover

LoopStep ==
  StopAtLimit \/ BeginVertex \/ NextLevel \/ Finish \/ Expand \/ EndVertex

Build == LoopStep /\ UNCHANGED input

Returned == pc = "done" /\ UNCHANGED vars

Next == Build \/ Returned

(* build is one sequential loop that takes its next step until it returns: *)
(* weak fairness of Build, with "Build is disabled" spelled pc = "done"    *)
(* (the deadlock check of the runs is what makes the two the same).        *)
Fairness == []<>(pc = "done") \/ []<><<Build>>_vars

Spec == Init /\ [][Next]_vars /\ Fairness

-----------------------------------------------------------------------------
Complete == pc = "done" /\ ~ truncated

(* The bound on the number of classes is never exceeded (the initial class *)
(* excepted), and a graph is called truncated only when it is full.        *)
LimitRespected ==
  /\ Len(vertices) <= IF max_states = 0 THEN 1 ELSE max_states
  /\ truncated => Full

Covers(class, v) ==
  /\ vertices[v].marking = class.marking
  /\ M!IncludedIn(class.zone, vertices[v].zone)

(* build implements SymbolicReachability, the graph of classes made in any *)
(* order: every vertex but the first is the successor of an earlier one,   *)
(* every edge is a firing of its source and leads to a vertex that covers  *)
(* the result, and when the loops end without truncation none is missing.  *)
Answer ==
  IF pc \in {"level", "expand"} THEN "none"
  ELSE IF truncated THEN "truncated" ELSE "complete"

Known == {vertices[v] : v \in DOMAIN vertices}
Arcs ==
  {[from |-> vertices[e.src], t |-> e.t, to |-> vertices[e.dst]] : e \in edges}

FirstClass(system) == NormalIn(system[1], system[2], InitialClass(system[1]))

LeavingClass(system, class) ==
  LET n == system[1] IN {t \in n.transitions : CanFire(n, TimeElapse(n, class), t)}

NextClass(system, class, t) ==
  LET n == system[1]
  IN  NormalIn(n, system[2], Successor(n, TimeElapse(n, class), t))

Reachability == INSTANCE SymbolicReachability WITH
           First <- FirstClass, Leaving <- LeavingClass,
           Target <- NextClass, Within <- CheckInclusion,
           system <- <<net, extrapolation>>, known <- Known, arcs <- Arcs, answer <- Answer

ImplementsReachability == Reachability!Spec

(* No class is stored that could have been merged into an earlier vertex.  *)
NoRedundantVertex ==
  pc = "done" =>
    \A v, x \in DOMAIN vertices :
      x < v => ~ CanMergeInto(vertices[v], vertices[x], mode)

(* Classes are compared matrix against matrix, which decides equality and  *)
(* inclusion of zones only for matrices in closed form; and no class is    *)
(* empty.                                                                  *)
ZonesAreCanonical ==
  pc = "done" =>
    \A v \in DOMAIN vertices :
      LET X == ClockVars(net, vertices[v].marking)
          D == vertices[v].zone
      IN  /\ DOMAIN D = X \X X
          /\ ~ M!NegativeDiagonal(X, D)
          /\ \A i, j, k \in X :
               D[i, k] # INF /\ D[k, j] # INF
                 => D[i, j] # INF /\ D[i, j] <= D[i, k] + D[k, j]

(* Extrapolation "keeps the zone space finite": with it, none of the nets  *)
(* runs into a generous bound, whatever their intervals.                   *)
FiniteWithExtrapolation ==
  pc = "done" /\ extrapolation /\ max_states >= 130 => ~ truncated

(* The construction ends, with a complete graph or a truncated one.        *)
Terminates == <>(pc = "done")
=============================================================================
