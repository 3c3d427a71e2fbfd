----------------------- MODULE StateClassGraph_proofs -----------------------
(***************************************************************************)
(* Theorems about every state-class graph that build constructs, for every *)
(* net, every mode, every limit, with and without extrapolation: it is     *)
(* what SymbolicReachability promises, it stays within the limit, and no   *)
(* vertex could have been merged into an earlier one.                      *)
(*                                                                         *)
(* Where the numbers leave room its zones are in closed form and every     *)
(* vertex of the inclusion modes adds points; extrapolation keeps the      *)
(* graph finite; and where a stopped clock has one value, every vertex and *)
(* every edge belongs to a run of the net.                                 *)
(***************************************************************************)
EXTENDS StateClassGraph, StateClass_proofs, SequenceTheorems

-----------------------------------------------------------------------------
(* The choices that build makes among numbers can be made.                 *)
LEMMA CurrentIsToDo ==
  ASSUME todo \subseteq Nat, todo # {}
  PROVE  current \in todo
<1>1. \E t \in todo : \A s \in todo : t <= s
  BY Z!LeastCount
<1> QED
  BY <1>1 DEF current

LEMMA FirstMatchMatches ==
  ASSUME NEW class, Matches(class) \subseteq Nat, Matches(class) # {}
  PROVE  FirstMatch(class) \in Matches(class)
<1>1. \E v \in Matches(class) : \A x \in Matches(class) : v <= x
  BY Z!LeastCount
<1> QED
  BY <1>1 DEF FirstMatch

-----------------------------------------------------------------------------
(* A class is a record of a marking and a zone, whatever is done to it.    *)
IsClass(class) == class = [marking |-> class.marking, zone |-> class.zone]

LEMMA ClassesAreRecords ==
  /\ \A n, x : IsClass(NormalIn(n, x, InitialClass(n)))
  /\ \A n, x, e, t : IsClass(NormalIn(n, x, Successor(n, e, t)))
<1>1. \A n : IsClass(InitialClass(n))
  BY DEF IsClass, InitialClass
<1>2. \A n, e, t : IsClass(Successor(n, e, t))
  BY DEF IsClass, Successor
<1>3. \A n, x, c : IsClass(c) => IsClass(NormalIn(n, x, c))
  BY DEF IsClass, NormalIn, ExtrapolateClass
<1> QED
  BY <1>1, <1>2, <1>3

(* The transitions that can leave a class are among those build tries.     *)
LEMMA LeavingAreEnabled ==
  ASSUME NEW n, NEW x, NEW class, IsClass(class)
  PROVE  LeavingClass(<<n, x>>, class) \subseteq PriorityEnabled(n, class.marking)
<1>1. TimeElapse(n, class).marking = class.marking
  BY DEF IsClass, TimeElapse
<1> QED
  BY <1>1 DEF LeavingClass, CanFire, IsFirable

LEMMA PriorityEnabledAreTransitions ==
  ASSUME NEW n, NEW m
  PROVE  PriorityEnabled(n, m) \subseteq n.transitions
BY DEF PriorityEnabled, FilterPriorityPerCore, StructEnabled

-----------------------------------------------------------------------------
(* The inductive invariant.                                                *)
BuildTypeOK ==
  /\ net \in Nets
  /\ mode \in Modes
  /\ max_states \in MaxStates
  /\ vertices \in Seq(Known) /\ vertices # <<>>
  /\ \A v \in DOMAIN vertices : IsClass(vertices[v])
  /\ frontier \in Seq(DOMAIN vertices)
  /\ next_frontier \in Seq(DOMAIN vertices)
  /\ \A e \in edges : e.src \in DOMAIN vertices /\ e.dst \in DOMAIN vertices
  /\ todo \subseteq net.transitions
  /\ truncated \in BOOLEAN
  /\ pc \in {"level", "expand", "done"}
  /\ pc = "expand" => frontier # <<>>
  /\ pc = "level" => ~ truncated

(* A vertex that build will come back to: one of the next level, or one of *)
(* this level that it has not begun.                                       *)
Waits(v) ==
  \/ \E i \in DOMAIN next_frontier : next_frontier[i] = v
  \/ \E i \in DOMAIN frontier : frontier[i] = v /\ (i # 1 \/ pc = "level")

BeingTried(v, t) == pc = "expand" /\ v = frontier[1] /\ t \in todo

HasEdge(v, t) == \E e \in edges : e.src = v /\ e.t = t

(* As long as nothing was cut off, a transition that can leave a vertex    *)
(* has an edge, or will be tried.                                          *)
NothingForgotten ==
  ~ truncated =>
    \A v \in DOMAIN vertices :
      \A t \in LeavingClass(<<net, extrapolation>>, vertices[v]) :
         HasEdge(v, t) \/ Waits(v) \/ BeingTried(v, t)

Unmergeable ==
  \A v, x \in DOMAIN vertices :
    x < v => ~ CanMergeInto(vertices[v], vertices[x], mode)

IInv ==
  BuildTypeOK /\ NothingForgotten /\ LimitRespected /\ Unmergeable

-----------------------------------------------------------------------------
(* The graph is made of vertices numbered from 1.                          *)
LEMMA VertexNumbers ==
  ASSUME BuildTypeOK
  PROVE  /\ Len(vertices) \in Nat \ {0}
         /\ DOMAIN vertices = 1 .. Len(vertices)
         /\ 1 \in DOMAIN vertices
         /\ net.transitions \subseteq Nat
<1>1. /\ Len(vertices) \in Nat
      /\ DOMAIN vertices = 1 .. Len(vertices)
      /\ Len(vertices) # 0
  BY EmptySeq, LenProperties DEF BuildTypeOK
<1>2. net.transitions \subseteq Nat
  BY GraphAssumption DEF BuildTypeOK, IsNet
<1> QED
  BY <1>1, <1>2

LEMMA InitIInv == Init => IInv
<1> SUFFICES ASSUME Init PROVE IInv
  OBVIOUS
<1>1. /\ Len(vertices) = 1 /\ DOMAIN vertices = {1}
      /\ vertices = <<vertices[1]>>
      /\ vertices[1] = NormalIn(net, extrapolation, InitialClass(net))
  BY DEF Init, Normalised
<1>2. BuildTypeOK
  <2>1. IsClass(vertices[1])
    BY <1>1, ClassesAreRecords
  <2>2. vertices[1] \in Known
    BY <1>1 DEF Known
  <2>3. <<vertices[1]>> \in Seq(Known) /\ <<vertices[1]>> # <<>>
    BY <2>2
  <2>4. vertices \in Seq(Known) /\ vertices # <<>>
    BY <1>1, <2>3
  <2>5. frontier \in Seq(DOMAIN vertices) /\ next_frontier \in Seq(DOMAIN vertices)
    BY <1>1 DEF Init
  <2> QED
    BY <1>1, <2>1, <2>4, <2>5 DEF Init, BuildTypeOK
<1>3. NothingForgotten
  BY <1>1 DEF Init, NothingForgotten, Waits
<1>4. LimitRespected
  <2>1. max_states \in Nat
    BY GraphAssumption DEF Init
  <2> QED
    BY <1>1, <2>1 DEF Init, LimitRespected
<1>5. Unmergeable
  BY <1>1 DEF Unmergeable
<1> QED
  BY <1>2, <1>3, <1>4, <1>5 DEF IInv

-----------------------------------------------------------------------------
(* One step for each action.  The sequences first.                         *)
LEMMA AppendedIsSeq ==
  ASSUME NEW S, NEW s \in Seq(S), NEW x
  PROVE  /\ Append(s, x) \in Seq(S \cup {x})
         /\ Append(s, x) # <<>>
         /\ Len(Append(s, x)) = Len(s) + 1
         /\ DOMAIN Append(s, x) = 1 .. Len(s) + 1
         /\ \A i \in 1 .. Len(s) : Append(s, x)[i] = s[i]
         /\ Append(s, x)[Len(s) + 1] = x
<1>1. s \in Seq(S \cup {x})
  BY SeqMonotonic, S \subseteq S \cup {x}
<1>2. Len(s) \in Nat
  BY LenProperties
<1> QED
  BY <1>1, <1>2, AppendProperties, EmptySeq, LenProperties

LEMMA TailIsSeq ==
  ASSUME NEW S, NEW s \in Seq(S), s # <<>>
  PROVE  /\ Tail(s) \in Seq(S)
         /\ Head(s) = s[1]
         /\ Head(s) \in S
         /\ Len(s) \in Nat \ {0}
         /\ DOMAIN s = 1 .. Len(s)
         /\ DOMAIN Tail(s) = 1 .. Len(s) - 1
         /\ \A i \in 1 .. Len(s) - 1 : Tail(s)[i] = s[i + 1]
<1>1. /\ Len(s) \in Nat \ {0}
      /\ DOMAIN s = 1 .. Len(s)
  BY EmptySeq, LenProperties
<1>2. /\ Tail(s) \in Seq(S) /\ Len(Tail(s)) = Len(s) - 1
      /\ \A i \in 1 .. Len(s) - 1 : Tail(s)[i] = s[i + 1]
      /\ Head(s) = s[1] /\ Head(s) \in S
  BY <1>1, HeadTailProperties, ElementOfSeq
<1> QED
  BY <1>1, <1>2, LenProperties

LEMMA ArcIsAdded ==
  ASSUME BuildTypeOK, UNCHANGED input,
         Answer = "none", Answer' = "none", NEW arc,
         Arcs' = Arcs \cup {arc}, Known' = Known \cup {arc.to},
         arc.from \in Known,
         arc.t \in LeavingClass(<<net, extrapolation>>, arc.from),
         LET successor == NextClass(<<net, extrapolation>>, arc.from, arc.t)
         IN  \/ arc.to = successor
             \/ arc.to \in Known /\ CheckInclusion(successor, arc.to)
  PROVE  [Reachability!Next]_Reachability!graphVars
<1>1. UNCHANGED <<net, extrapolation>>
  BY DEF input
<1>2. CASE arc \in Arcs
  <2>1. arc.to \in Known
    BY <1>2 DEF Arcs, Known, BuildTypeOK
  <2> QED
    BY <1>1, <1>2, <2>1 DEF Reachability!graphVars
<1>3. CASE arc \notin Arcs
  <2>1. Reachability!AddArc
    BY <1>1, <1>3 DEF Reachability!AddArc
  <2> QED
    BY <2>1 DEF Reachability!Next
<1> QED
  BY <1>2, <1>3

(* What is being tried, and what it is called in the abstract graph.       *)
LEMMA WhatIsTried ==
  ASSUME BuildTypeOK, Trying
  PROVE  /\ u = frontier[1] /\ u \in DOMAIN vertices /\ vertices[u] \in Known
         /\ current \in todo /\ current \in net.transitions
         /\ IsClass(NewClass)
         /\ NewClass = NextClass(<<net, extrapolation>>, vertices[u], current)
         /\ CanFire(net, Elapsed, current) <=>
              current \in LeavingClass(<<net, extrapolation>>, vertices[u])
<1>1. u = frontier[1] /\ u \in DOMAIN vertices
  BY TailIsSeq DEF BuildTypeOK, Trying, u
<1>2. current \in todo /\ current \in net.transitions
  <2>1. todo \subseteq Nat
    BY VertexNumbers DEF BuildTypeOK
  <2> QED
    BY <2>1, CurrentIsToDo DEF Trying, BuildTypeOK
<1>3. IsClass(NewClass)
  BY ClassesAreRecords DEF NewClass, Normalised
<1>4. NewClass = NextClass(<<net, extrapolation>>, vertices[u], current)
  BY DEF NewClass, NextClass, Normalised, Elapsed
<1>5. CanFire(net, Elapsed, current) <=>
        current \in LeavingClass(<<net, extrapolation>>, vertices[u])
  BY <1>2 DEF LeavingClass, Elapsed
<1> QED
  BY <1>1, <1>2, <1>3, <1>4, <1>5 DEF Known

LEMMA StopAtLimitStep ==
  ASSUME IInv, StopAtLimit, UNCHANGED input
  PROVE  IInv'
<1>1. BuildTypeOK'
  BY DEF IInv, BuildTypeOK, StopAtLimit, input, IsClass, Known
<1>2. NothingForgotten' /\ LimitRespected' /\ Unmergeable'
  BY DEF IInv, NothingForgotten, LimitRespected, Unmergeable, Full, StopAtLimit, input
<1> QED
  BY <1>1, <1>2 DEF IInv

LEMMA BeginVertexStep ==
  ASSUME IInv, BeginVertex, UNCHANGED input
  PROVE  IInv'
<1>1. Head(frontier) = frontier[1] /\ frontier[1] \in DOMAIN vertices
  BY TailIsSeq DEF IInv, BuildTypeOK, BeginVertex
<1>2. BuildTypeOK'
  <2>1. todo' \subseteq net.transitions
    BY PriorityEnabledAreTransitions DEF BeginVertex
  <2> QED
    BY <2>1 DEF IInv, BuildTypeOK, BeginVertex, input, IsClass, Known
<1>3. NothingForgotten'
  <2> SUFFICES ASSUME ~ truncated, NEW v \in DOMAIN vertices,
                      NEW t \in LeavingClass(<<net, extrapolation>>, vertices[v])
               PROVE  HasEdge(v, t)' \/ Waits(v)' \/ BeingTried(v, t)'
    BY DEF NothingForgotten, BeginVertex, input
  <2>1. CASE HasEdge(v, t)
    BY <2>1 DEF HasEdge, BeginVertex
  <2>2. CASE v = frontier[1]
    <3>1. t \in PriorityEnabled(net, vertices[v].marking)
      BY LeavingAreEnabled DEF IInv, BuildTypeOK
    <3> QED
      BY <1>1, <2>2, <3>1 DEF BeingTried, BeginVertex
  <2>3. CASE Waits(v) /\ v # frontier[1]
    BY <2>3 DEF Waits, BeginVertex
  <2>4. ~ BeingTried(v, t)
    BY DEF BeingTried, BeginVertex
  <2> QED
    BY <2>1, <2>2, <2>3, <2>4 DEF IInv, NothingForgotten
<1>4. LimitRespected' /\ Unmergeable'
  BY DEF IInv, LimitRespected, Unmergeable, Full, BeginVertex, input
<1> QED
  BY <1>2, <1>3, <1>4 DEF IInv

LEMMA NextLevelStep ==
  ASSUME IInv, NextLevel, UNCHANGED input
  PROVE  IInv'
<1>1. BuildTypeOK'
  <2>1. << >> \in Seq(DOMAIN vertices)
    BY EmptySeq
  <2> QED
    BY <2>1 DEF IInv, BuildTypeOK, NextLevel, input, IsClass, Known
<1>2. NothingForgotten'
  <2> SUFFICES ASSUME ~ truncated, NEW v \in DOMAIN vertices,
                      NEW t \in LeavingClass(<<net, extrapolation>>, vertices[v])
               PROVE  HasEdge(v, t)' \/ Waits(v)' \/ BeingTried(v, t)'
    BY DEF NothingForgotten, NextLevel, input
  <2>1. CASE HasEdge(v, t)
    BY <2>1 DEF HasEdge, NextLevel
  <2>2. CASE Waits(v)
    <3>1. DOMAIN frontier = {}
      BY EmptySeq DEF NextLevel
    <3> QED
      BY <2>2, <3>1 DEF Waits, NextLevel
  <2>3. ~ BeingTried(v, t)
    BY DEF BeingTried, NextLevel
  <2> QED
    BY <2>1, <2>2, <2>3 DEF IInv, NothingForgotten
<1>3. LimitRespected' /\ Unmergeable'
  BY DEF IInv, LimitRespected, Unmergeable, Full, NextLevel, input
<1> QED
  BY <1>1, <1>2, <1>3 DEF IInv

LEMMA FinishStep ==
  ASSUME IInv, Finish, UNCHANGED input
  PROVE  IInv'
<1>1. BuildTypeOK'
  BY DEF IInv, BuildTypeOK, Finish, input, IsClass, Known
<1>2. NothingForgotten'
  <2>1. DOMAIN frontier = {} /\ DOMAIN next_frontier = {}
    BY EmptySeq DEF Finish
  <2>2. \A v, t : HasEdge(v, t)' <=> HasEdge(v, t)
    BY DEF HasEdge, Finish
  <2>3. \A v, t : ~ Waits(v) /\ ~ BeingTried(v, t)
    BY <2>1 DEF Waits, BeingTried, Finish
  <2> QED
    BY <2>2, <2>3 DEF IInv, NothingForgotten, Finish, input
<1>3. LimitRespected' /\ Unmergeable'
  BY DEF IInv, LimitRespected, Unmergeable, Full, Finish, input
<1> QED
  BY <1>1, <1>2, <1>3 DEF IInv

LEMMA SkipTransitionStep ==
  ASSUME IInv, SkipTransition, UNCHANGED input
  PROVE  IInv'
<1>1. BuildTypeOK'
  BY DEF IInv, BuildTypeOK, SkipTransition, Trying, input, IsClass, Known
<1>2. NothingForgotten'
  <2> SUFFICES ASSUME ~ truncated, NEW v \in DOMAIN vertices,
                      NEW t \in LeavingClass(<<net, extrapolation>>, vertices[v])
               PROVE  HasEdge(v, t)' \/ Waits(v)' \/ BeingTried(v, t)'
    BY DEF NothingForgotten, SkipTransition, input
  <2>1. ~ (v = frontier[1] /\ t = current)
    BY WhatIsTried DEF IInv, SkipTransition
  <2>2. /\ HasEdge(v, t) => HasEdge(v, t)'
        /\ Waits(v) => Waits(v)'
    BY DEF HasEdge, Waits, SkipTransition
  <2>3. BeingTried(v, t) => BeingTried(v, t)'
    BY <2>1 DEF BeingTried, SkipTransition
  <2> QED
    BY <2>2, <2>3 DEF IInv, NothingForgotten
<1>3. LimitRespected' /\ Unmergeable'
  BY DEF IInv, LimitRespected, Unmergeable, Full, SkipTransition, input
<1> QED
  BY <1>1, <1>2, <1>3 DEF IInv

LEMMA DropSuccessorStep ==
  ASSUME IInv, DropSuccessor, UNCHANGED input
  PROVE  IInv'
<1>1. BuildTypeOK'
  BY DEF IInv, BuildTypeOK, DropSuccessor, Trying, input, IsClass, Known
<1>2. NothingForgotten' /\ LimitRespected' /\ Unmergeable'
  BY DEF IInv, NothingForgotten, LimitRespected, Unmergeable, Full,
         DropSuccessor, input
<1> QED
  BY <1>1, <1>2 DEF IInv

LEMMA EndVertexStep ==
  ASSUME IInv, EndVertex, UNCHANGED input
  PROVE  IInv'
<1>1. /\ Tail(frontier) \in Seq(DOMAIN vertices)
      /\ Len(frontier) \in Nat \ {0}
      /\ DOMAIN frontier = 1 .. Len(frontier)
      /\ DOMAIN Tail(frontier) = 1 .. Len(frontier) - 1
      /\ \A i \in 1 .. Len(frontier) - 1 : Tail(frontier)[i] = frontier[i + 1]
  BY TailIsSeq DEF IInv, BuildTypeOK, EndVertex
<1>2. BuildTypeOK'
  BY <1>1 DEF IInv, BuildTypeOK, EndVertex, input, IsClass, Known
<1>3. NothingForgotten'
  <2> SUFFICES ASSUME ~ truncated, NEW v \in DOMAIN vertices,
                      NEW t \in LeavingClass(<<net, extrapolation>>, vertices[v])
               PROVE  HasEdge(v, t)' \/ Waits(v)' \/ BeingTried(v, t)'
    BY DEF NothingForgotten, EndVertex, input
  <2>1. HasEdge(v, t) => HasEdge(v, t)'
    BY DEF HasEdge, EndVertex
  <2>2. Waits(v) => Waits(v)'
    <3>1. CASE \E i \in DOMAIN next_frontier : next_frontier[i] = v
      BY <3>1 DEF Waits, EndVertex
    <3>2. ASSUME NEW i \in DOMAIN frontier, frontier[i] = v, i # 1
          PROVE  Waits(v)'
      <4>1. /\ i - 1 \in 1 .. Len(frontier) - 1
            /\ Tail(frontier)[i - 1] = frontier[i]
        BY <1>1, <3>2
      <4> QED
        BY <1>1, <3>2, <4>1 DEF Waits, EndVertex
    <3> QED
      BY <3>1, <3>2 DEF Waits, EndVertex
  <2>3. ~ BeingTried(v, t)
    BY DEF BeingTried, EndVertex
  <2> QED
    BY <2>1, <2>2, <2>3 DEF IInv, NothingForgotten
<1>4. LimitRespected' /\ Unmergeable'
  BY DEF IInv, LimitRespected, Unmergeable, Full, EndVertex, input
<1> QED
  BY <1>2, <1>3, <1>4 DEF IInv

LEMMA MergeStep ==
  ASSUME IInv, Merge, UNCHANGED input
  PROVE  IInv'
<1> DEFINE edge == FiringEdge(vertices[u], current, FirstMatch(NewClass))
<1>1. edge.src = u /\ edge.t = current /\ edge.dst = FirstMatch(NewClass)
  BY DEF FiringEdge
<1>2. FirstMatch(NewClass) \in DOMAIN vertices
  BY FirstMatchMatches, VertexNumbers DEF IInv, Matches, Merge
<1>3. u = frontier[1] /\ u \in DOMAIN vertices
  BY WhatIsTried DEF IInv, Merge
<1> HIDE DEF edge
<1>4. edges' = edges \cup {edge}
  BY DEF edge, Merge
<1>5. BuildTypeOK'
  BY <1>1, <1>2, <1>3, <1>4
     DEF IInv, BuildTypeOK, Merge, Trying, input, IsClass, Known
<1>6. NothingForgotten'
  <2> SUFFICES ASSUME ~ truncated, NEW v \in DOMAIN vertices,
                      NEW t \in LeavingClass(<<net, extrapolation>>, vertices[v])
               PROVE  HasEdge(v, t)' \/ Waits(v)' \/ BeingTried(v, t)'
    BY DEF NothingForgotten, Merge, input
  <2>1. HasEdge(v, t) => HasEdge(v, t)'
    BY <1>4 DEF HasEdge
  <2>2. Waits(v) => Waits(v)'
    BY DEF Waits, Merge
  <2>3. v = u /\ t = current => HasEdge(v, t)'
    BY <1>1, <1>4 DEF HasEdge
  <2>4. BeingTried(v, t) => (v = u /\ t = current) \/ BeingTried(v, t)'
    BY <1>3 DEF BeingTried, Merge
  <2> QED
    BY <2>1, <2>2, <2>3, <2>4 DEF IInv, NothingForgotten
<1>7. LimitRespected' /\ Unmergeable'
  BY DEF IInv, LimitRespected, Unmergeable, Full, Merge, input
<1> QED
  BY <1>5, <1>6, <1>7 DEF IInv

(* After Discover the new vertex has the last number, and every other one  *)
(* is what it was.                                                         *)
LEMMA DiscoveredVertex ==
  ASSUME BuildTypeOK, Discover
  PROVE  /\ Len(vertices) \in Nat \ {0} /\ DOMAIN vertices = 1 .. Len(vertices)
         /\ Len(vertices') = Len(vertices) + 1
         /\ DOMAIN vertices' = DOMAIN vertices \cup {Len(vertices) + 1}
         /\ \A v \in DOMAIN vertices : vertices'[v] = vertices[v]
         /\ vertices'[Len(vertices) + 1] = NewClass
         /\ vertices' # <<>>
         /\ Known' = Known \cup {NewClass}
         /\ vertices' \in Seq(Known')
<1> DEFINE n == Len(vertices)
<1>1. n \in Nat \ {0} /\ DOMAIN vertices = 1 .. n
  BY VertexNumbers
<1>2. vertices \in Seq(Known) /\ vertices' = Append(vertices, NewClass)
  BY DEF BuildTypeOK, Discover
<1>3. /\ vertices' \in Seq(Known \cup {NewClass})
      /\ vertices' # <<>>
      /\ Len(vertices') = n + 1
      /\ DOMAIN vertices' = 1 .. n + 1
      /\ \A v \in 1 .. n : vertices'[v] = vertices[v]
      /\ vertices'[n + 1] = NewClass
  BY <1>2, AppendedIsSeq
<1>4. 1 .. n + 1 = (1 .. n) \cup {n + 1}
  BY <1>1
<1>5. Known' = Known \cup {NewClass}
  BY <1>1, <1>3, <1>4 DEF Known
<1> QED
  BY <1>1, <1>3, <1>4, <1>5

LEMMA DiscoverStep ==
  ASSUME IInv, Discover, UNCHANGED input
  PROVE  IInv'
<1> DEFINE n == Len(vertices)
           edge == FiringEdge(vertices[u], current, n + 1)
<1>1. edge.src = u /\ edge.t = current /\ edge.dst = n + 1
  BY DEF FiringEdge
<1>2. u = frontier[1] /\ u \in DOMAIN vertices /\ IsClass(NewClass)
  BY WhatIsTried DEF IInv, Discover
<1>3. edges' = edges \cup {edge}
  BY DEF Discover
<1>4. /\ n \in Nat \ {0} /\ DOMAIN vertices = 1 .. n
      /\ Len(vertices') = n + 1
      /\ DOMAIN vertices' = DOMAIN vertices \cup {n + 1}
      /\ \A v \in DOMAIN vertices : vertices'[v] = vertices[v]
      /\ vertices'[n + 1] = NewClass
      /\ vertices' # <<>>
      /\ vertices' \in Seq(Known')
  BY DiscoveredVertex DEF IInv
<1>5. /\ next_frontier' \in Seq(DOMAIN vertices')
      /\ \A i \in DOMAIN next_frontier :
           i \in DOMAIN next_frontier' /\ next_frontier'[i] = next_frontier[i]
      /\ \E i \in DOMAIN next_frontier' : next_frontier'[i] = n + 1
  <2>1. next_frontier \in Seq(DOMAIN vertices)
    BY DEF IInv, BuildTypeOK
  <2>2. /\ Len(next_frontier) \in Nat
        /\ DOMAIN next_frontier = 1 .. Len(next_frontier)
    BY <2>1, LenProperties
  <2>3. next_frontier' = Append(next_frontier, n + 1)
    BY DEF Discover
  <2>4. /\ next_frontier' \in Seq(DOMAIN vertices')
        /\ DOMAIN next_frontier' = 1 .. Len(next_frontier) + 1
        /\ \A i \in 1 .. Len(next_frontier) : next_frontier'[i] = next_frontier[i]
        /\ next_frontier'[Len(next_frontier) + 1] = n + 1
    BY <1>4, <2>1, <2>3, AppendedIsSeq
  <2> QED
    BY <2>2, <2>4
<1>6. frontier' \in Seq(DOMAIN vertices')
  <2>1. frontier \in Seq(DOMAIN vertices) /\ frontier' = frontier
    BY DEF IInv, BuildTypeOK, Discover
  <2> QED
    BY <1>4, <2>1, SeqMonotonic, DOMAIN vertices \subseteq DOMAIN vertices'
<1> HIDE DEF edge, n
<1>7. BuildTypeOK'
  <2>1. \A v \in DOMAIN vertices' : IsClass(vertices'[v])
    BY <1>2, <1>4 DEF IInv, BuildTypeOK, IsClass
  <2>2. \A e \in edges' : e.src \in DOMAIN vertices' /\ e.dst \in DOMAIN vertices'
    BY <1>1, <1>2, <1>3, <1>4 DEF IInv, BuildTypeOK
  <2>3. todo' \subseteq net.transitions
    BY DEF IInv, BuildTypeOK, Discover
  <2> QED
    BY <1>4, <1>5, <1>6, <2>1, <2>2, <2>3
       DEF IInv, BuildTypeOK, IsClass, Discover, Trying, input
<1>8. NothingForgotten'
  <2> SUFFICES ASSUME ~ truncated, NEW v \in DOMAIN vertices',
                      NEW t \in LeavingClass(<<net, extrapolation>>, vertices'[v])
               PROVE  HasEdge(v, t)' \/ Waits(v)' \/ BeingTried(v, t)'
    BY DEF NothingForgotten, Discover, input
  <2>1. CASE v = n + 1
    BY <1>5, <2>1 DEF Waits
  <2>2. CASE v \in DOMAIN vertices
    <3>1. t \in LeavingClass(<<net, extrapolation>>, vertices[v])
      BY <1>4, <2>2
    <3>2. HasEdge(v, t) => HasEdge(v, t)'
      BY <1>3 DEF HasEdge
    <3>3. Waits(v) => Waits(v)'
      BY <1>5 DEF Waits, Discover
    <3>4. v = u /\ t = current => HasEdge(v, t)'
      BY <1>1, <1>3 DEF HasEdge
    <3>5. BeingTried(v, t) => (v = u /\ t = current) \/ BeingTried(v, t)'
      BY <1>2 DEF BeingTried, Discover
    <3> QED
      BY <2>2, <3>1, <3>2, <3>3, <3>4, <3>5 DEF IInv, NothingForgotten
  <2> QED
    BY <1>4, <2>1, <2>2
<1>9. LimitRespected'
  <2>1. max_states \in Nat
    BY GraphAssumption DEF IInv, BuildTypeOK
  <2>2. n < max_states /\ ~ truncated
    BY <1>4, <2>1 DEF IInv, LimitRespected, Full, Discover, n
  <2> QED
    BY <1>4, <2>1, <2>2 DEF LimitRespected, Discover, input
<1>10. Unmergeable'
  <2> SUFFICES ASSUME NEW v \in DOMAIN vertices', NEW x \in DOMAIN vertices', x < v
               PROVE  ~ CanMergeInto(vertices'[v], vertices'[x], mode)
    BY DEF Unmergeable, Discover, input
  <2>1. x \in DOMAIN vertices
    BY <1>4
  <2>2. CASE v = n + 1
    <3>1. Matches(NewClass) = {}
      BY DEF Discover
    <3>2. ~ CanMergeInto(NewClass, vertices[x], mode)
      BY <2>1, <3>1 DEF Matches
    <3> QED
      BY <1>4, <2>1, <2>2, <3>2
  <2>3. CASE v \in DOMAIN vertices
    BY <1>4, <2>1, <2>3 DEF IInv, Unmergeable
  <2> QED
    BY <1>4, <2>2, <2>3
<1> QED
  BY <1>7, <1>8, <1>9, <1>10 DEF IInv

-----------------------------------------------------------------------------
LEMMA NextKeepsIInv ==
  ASSUME IInv, [Next]_vars
  PROVE  IInv'
<1>1. CASE UNCHANGED vars
  <2>1. BuildTypeOK'
    BY <1>1 DEF IInv, BuildTypeOK, IsClass, Known, vars, input
  <2>2. \A v, t : /\ HasEdge(v, t)' <=> HasEdge(v, t)
                  /\ Waits(v)' <=> Waits(v)
                  /\ BeingTried(v, t)' <=> BeingTried(v, t)
    BY <1>1 DEF HasEdge, Waits, BeingTried, vars
  <2>3. NothingForgotten' /\ LimitRespected' /\ Unmergeable'
    BY <1>1, <2>2 DEF IInv, NothingForgotten, LimitRespected, Unmergeable,
                      Full, vars, input
  <2> QED
    BY <2>1, <2>3 DEF IInv
<1>2. CASE Build
  BY <1>2, StopAtLimitStep, BeginVertexStep, NextLevelStep, FinishStep,
     SkipTransitionStep, MergeStep, DropSuccessorStep, DiscoverStep,
     EndVertexStep
     DEF Build, LoopStep, Expand
<1> QED
  BY <1>1, <1>2 DEF Next, Returned

(* What is proved of every state of every construction.                    *)
THEOREM Invariance == Spec => []IInv
<1>1. Init => IInv
  BY InitIInv
<1>2. IInv /\ [Next]_vars => IInv'
  BY NextKeepsIInv
<1> QED
  BY <1>1, <1>2, PTL DEF Spec

(* --max-states is respected whatever the net: the graph never has more    *)
(* classes than it was allowed, nor is one called truncated that could     *)
(* have taken another class.                                               *)
THEOREM BuildRespectsLimit == Spec => []LimitRespected
<1>1. IInv => LimitRespected
  BY DEF IInv
<1> QED
  BY <1>1, Invariance, PTL

(* In every mode, no class is stored that find_match could have merged     *)
(* into a vertex stored before it.                                         *)
THEOREM BuildStoresNoRedundantVertex == Spec => []NoRedundantVertex
<1>1. IInv => NoRedundantVertex
  BY DEF IInv, Unmergeable, NoRedundantVertex
<1> QED
  BY <1>1, Invariance, PTL

-----------------------------------------------------------------------------
(* The refinement.  What the loops do to the abstract answer.              *)
LEMMA InitImplements == Init => Reachability!Init
<1> SUFFICES ASSUME Init PROVE Reachability!Init
  OBVIOUS
<1>1. Known = {FirstClass(<<net, extrapolation>>)}
  BY DEF Init, Known, Normalised, FirstClass
<1>2. Arcs = {} /\ Answer = "none"
  BY DEF Init, Arcs, Answer
<1> QED
  BY <1>1, <1>2 DEF Reachability!Init

(* A merged successor is an arc to the vertex that covers it; it may be    *)
(* there already, since two vertices can hold the same class.              *)
LEMMA MergeImplements ==
  ASSUME IInv, Merge, UNCHANGED input
  PROVE  [Reachability!Next]_Reachability!graphVars
<1> DEFINE v == FirstMatch(NewClass)
           edge == FiringEdge(vertices[u], current, v)
           arc == [from |-> vertices[u], t |-> current, to |-> vertices[v]]
<1>1. edge.src = u /\ edge.t = current /\ edge.dst = v
  BY DEF FiringEdge
<1>2. v \in Matches(NewClass) /\ v \in DOMAIN vertices
  BY FirstMatchMatches, VertexNumbers DEF IInv, Matches, Merge
<1>3. edges' = edges \cup {edge} /\ vertices' = vertices
  BY DEF Merge
<1> HIDE DEF v, edge
<1>4. Arcs' = Arcs \cup {arc}
  BY <1>1, <1>3 DEF Arcs
<1>5. vertices[v] \in Known /\ Known' = Known \cup {arc.to}
  BY <1>2, <1>3 DEF Known
<1>6. vertices[v] = NewClass \/ CheckInclusion(NewClass, vertices[v])
  BY <1>2 DEF Matches, CanMergeInto, CheckEquality
<1>7. /\ vertices[u] \in Known
      /\ current \in LeavingClass(<<net, extrapolation>>, vertices[u])
      /\ NewClass = NextClass(<<net, extrapolation>>, vertices[u], current)
  BY WhatIsTried DEF IInv, Merge
<1>8. Answer = "none" /\ Answer' = "none"
  BY DEF Answer, Merge, Trying
<1>9. /\ arc.from = vertices[u] /\ arc.t = current /\ arc.to = vertices[v]
      /\ BuildTypeOK
  BY DEF IInv
<1> HIDE DEF arc
<1> QED
  BY <1>4, <1>5, <1>6, <1>7, <1>8, <1>9, ArcIsAdded

LEMMA DiscoverImplements ==
  ASSUME IInv, Discover, UNCHANGED input
  PROVE  [Reachability!Next]_Reachability!graphVars
<1> DEFINE n == Len(vertices)
           edge == FiringEdge(vertices[u], current, n + 1)
           arc == [from |-> vertices[u], t |-> current, to |-> NewClass]
<1>1. edge.src = u /\ edge.t = current /\ edge.dst = n + 1
  BY DEF FiringEdge
<1>2. edges' = edges \cup {edge}
  BY DEF Discover
<1>3. /\ \A v \in DOMAIN vertices : vertices'[v] = vertices[v]
      /\ vertices'[n + 1] = NewClass
      /\ Known' = Known \cup {NewClass}
  BY DiscoveredVertex DEF IInv
<1>4. /\ u \in DOMAIN vertices /\ vertices[u] \in Known
      /\ current \in LeavingClass(<<net, extrapolation>>, vertices[u])
      /\ NewClass = NextClass(<<net, extrapolation>>, vertices[u], current)
  BY WhatIsTried DEF IInv, Discover
<1>5. \A e \in edges : /\ vertices'[e.src] = vertices[e.src]
                       /\ vertices'[e.dst] = vertices[e.dst]
  BY <1>3 DEF IInv, BuildTypeOK
<1> HIDE DEF n, edge
<1>6. Arcs' = Arcs \cup {arc}
  BY <1>1, <1>2, <1>3, <1>4, <1>5 DEF Arcs
<1>7. Answer = "none" /\ Answer' = "none"
  BY DEF Answer, Discover, Trying
<1>8. /\ arc.from = vertices[u] /\ arc.t = current /\ arc.to = NewClass
      /\ BuildTypeOK
  BY DEF IInv
<1> HIDE DEF arc
<1> QED
  BY <1>3, <1>4, <1>6, <1>7, <1>8, ArcIsAdded

(* When the loops end with nothing cut off, no arc is missing.             *)
LEMMA FinishImplements ==
  ASSUME IInv, Finish, UNCHANGED input
  PROVE  Reachability!GiveAnswer
<1>1. Answer = "none" /\ Answer' = "complete"
  BY DEF IInv, BuildTypeOK, Finish, Answer
<1>2. UNCHANGED <<net, extrapolation, Known, Arcs>>
  BY DEF Finish, input, Known, Arcs
<1>3. \A v \in DOMAIN vertices :
        LeavingClass(<<net, extrapolation>>, vertices[v])
          \subseteq Reachability!Followed(vertices[v])
  <2> TAKE v \in DOMAIN vertices
  <2> SUFFICES ASSUME NEW t \in LeavingClass(<<net, extrapolation>>, vertices[v])
               PROVE  t \in Reachability!Followed(vertices[v])
    OBVIOUS
  <2>1. ~ truncated /\ DOMAIN frontier = {} /\ DOMAIN next_frontier = {}
    BY EmptySeq DEF IInv, BuildTypeOK, Finish
  <2>2. ~ Waits(v) /\ ~ BeingTried(v, t)
    BY <2>1 DEF Waits, BeingTried, Finish
  <2>3. PICK e \in edges : e.src = v /\ e.t = t
    BY <2>1, <2>2 DEF IInv, NothingForgotten, HasEdge
  <2> DEFINE arc == [from |-> vertices[e.src], t |-> e.t, to |-> vertices[e.dst]]
  <2>4. arc \in Arcs
    BY DEF Arcs
  <2>5. arc.from = vertices[v] /\ arc.t = t
    BY <2>3
  <2> HIDE DEF arc
  <2> QED
    BY <2>4, <2>5 DEF Reachability!Followed
<1>4. \A class \in Known :
        LeavingClass(<<net, extrapolation>>, class) \subseteq Reachability!Followed(class)
  BY <1>3 DEF Known
<1> QED
  BY <1>1, <1>2, <1>4 DEF Reachability!GiveAnswer

LEMMA CutOffImplements ==
  ASSUME IInv, UNCHANGED input,
         StopAtLimit \/ (EndVertex /\ truncated)
  PROVE  Reachability!GiveAnswer
<1>1. Answer = "none" /\ Answer' = "truncated"
  BY DEF StopAtLimit, EndVertex, Answer
<1>2. UNCHANGED <<net, extrapolation, Known, Arcs>>
  BY DEF StopAtLimit, EndVertex, input, Known, Arcs
<1> QED
  BY <1>1, <1>2 DEF Reachability!GiveAnswer

LEMMA OthersStutter ==
  ASSUME UNCHANGED input,
         \/ BeginVertex
         \/ NextLevel
         \/ SkipTransition
         \/ DropSuccessor
         \/ EndVertex /\ ~ truncated
  PROVE  UNCHANGED Reachability!graphVars
<1>1. UNCHANGED Answer
  BY DEF BeginVertex, NextLevel, SkipTransition, DropSuccessor, EndVertex,
         Trying, Answer
<1>2. UNCHANGED <<net, extrapolation, Known, Arcs>>
  BY DEF BeginVertex, NextLevel, SkipTransition, DropSuccessor, EndVertex,
         input, Known, Arcs
<1> QED
  BY <1>1, <1>2 DEF Reachability!graphVars

LEMMA StepImplements ==
  ASSUME IInv, [Next]_vars
  PROVE  [Reachability!Next]_Reachability!graphVars
<1>1. CASE UNCHANGED vars
  BY <1>1 DEF vars, input, Reachability!graphVars, Known, Arcs, Answer
<1>2. CASE Build
  BY <1>2, MergeImplements, DiscoverImplements, FinishImplements,
     CutOffImplements, OthersStutter
     DEF Build, LoopStep, Expand, Reachability!Next
<1> QED
  BY <1>1, <1>2 DEF Next, Returned

(* The breadth-first construction, with its limit, its merging modes and   *)
(* its extrapolation, makes a graph that SymbolicReachability allows: no   *)
(* vertex and no edge is invented, and a graph that is not called          *)
(* truncated lacks no firing.                                              *)
THEOREM BuildImplementsReachability == Spec => ImplementsReachability
<1>1. Init => Reachability!Init
  BY InitImplements
<1>2. IInv /\ [Next]_vars => [Reachability!Next]_Reachability!graphVars
  BY StepImplements
<1> QED
  BY <1>1, <1>2, Invariance, PTL DEF Spec, ImplementsReachability, Reachability!Spec

-----------------------------------------------------------------------------
(* Closed form.  Every vertex is canonical as long as the numbers in the   *)
(* graph leave room for the sums the engine forms of them: N and B bound   *)
(* the clocks and the finite bounds of every stored class.                 *)
Roomy ==
  \E N, B :
    /\ HasRoom(net, N, B)
    /\ \A v \in DOMAIN vertices : Fits(net, vertices[v], N, B)

VerticesAreCanonical ==
  Roomy => \A v \in DOMAIN vertices : IsCanonical(net, vertices[v])

LEMMA NormalisedIsCanonical ==
  ASSUME NEW n, NEW x, NEW class, IsCanonical(n, class),
         IsCanonical(n, ExtrapolateClass(n, class))
  PROVE  IsCanonical(n, NormalIn(n, x, class))
BY DEF NormalIn

LEMMA NormalisedMarking ==
  ASSUME NEW n, IsNet(n), NEW x, NEW class, IsZoneClass(n, class)
  PROVE  NormalIn(n, x, class).marking = class.marking
BY ExtrapolatedClass DEF NormalIn

LEMMA InitCanonical == Init => VerticesAreCanonical
<1> SUFFICES ASSUME Init, NEW N, NEW B, HasRoom(net, N, B),
                    \A v \in DOMAIN vertices : Fits(net, vertices[v], N, B)
             PROVE  \A v \in DOMAIN vertices : IsCanonical(net, vertices[v])
  BY DEF VerticesAreCanonical, Roomy
<1> DEFINE class == InitialClass(net)
<1>1. /\ DOMAIN vertices = {1}
      /\ vertices[1] = NormalIn(net, extrapolation, class)
  BY DEF Init, Normalised
<1>2. IsNet(net)
  BY GraphAssumption DEF Init
<1>3. /\ IsCanonical(net, class) /\ class.marking = net.M0
      /\ \A i \in ClockVars(net, class.marking) : 0 <= class.zone[<<X0, i>>]
      /\ class.zone \in Zones(ClockVars(net, class.marking))
  BY <1>2, InitialIsCanonical DEF IsCanonical, IsZoneClass
<1> HIDE DEF class
<1>4. vertices[1].marking = class.marking
  BY <1>1, <1>2, <1>3, NormalisedMarking DEF IsCanonical
<1>5. Cardinality(ClockVars(net, class.marking)) <= N
  BY <1>1, <1>4 DEF Fits
<1>6. \A i \in ClockVars(net, class.marking) :
        -(3 * ((N + 1) * B)) <= class.zone[<<X0, i>>]
  <2> DEFINE U == (N + 1) * B
  <2>1. Cardinality(ClockVars(net, class.marking)) \in Nat
    BY <1>2, ClocksAreCounted
  <2>2. 3 * U \in Nat
    BY <1>5, <2>1, RoomForSums
  <2>3. \A i \in ClockVars(net, class.marking) : class.zone[<<X0, i>>] \in Int
    BY <1>2, <1>3, KindsOfClocks, ZoneEntries
  <2> HIDE DEF U
  <2>4. \A i \in ClockVars(net, class.marking) : -(3 * U) <= class.zone[<<X0, i>>]
    BY <1>3, <2>2, <2>3
  <2> QED
    BY <2>4 DEF U
<1>7. IsCanonical(net, ExtrapolateClass(net, class))
  BY <1>2, <1>3, <1>5, <1>6, ExtrapolatedIsCanonical
<1> QED
  BY <1>1, <1>3, <1>7, NormalisedIsCanonical

LEMMA DiscoverKeepsCanonical ==
  ASSUME IInv, VerticesAreCanonical, Discover, UNCHANGED input
  PROVE  VerticesAreCanonical'
<1>1. /\ net' = net
      /\ DOMAIN vertices' = DOMAIN vertices \cup {Len(vertices) + 1}
      /\ \A v \in DOMAIN vertices : vertices'[v] = vertices[v]
      /\ vertices'[Len(vertices) + 1] = NewClass
  BY DiscoveredVertex DEF IInv, input
<1> SUFFICES ASSUME NEW N, NEW B, HasRoom(net, N, B),
                    \A v \in DOMAIN vertices' : Fits(net, vertices'[v], N, B)
             PROVE  \A v \in DOMAIN vertices' : IsCanonical(net, vertices'[v])
  BY <1>1 DEF VerticesAreCanonical, Roomy
<1>2. \A v \in DOMAIN vertices : Fits(net, vertices[v], N, B)
  BY <1>1
<1>3. \A v \in DOMAIN vertices : IsCanonical(net, vertices[v])
  BY <1>2 DEF VerticesAreCanonical, Roomy
<1> DEFINE class == vertices[u]
           next == Successor(net, TimeElapse(net, class), current)
<1>4. /\ u \in DOMAIN vertices /\ current \in net.transitions
      /\ CanFire(net, TimeElapse(net, class), current)
      /\ NewClass = NormalIn(net, extrapolation, next)
  BY WhatIsTried DEF IInv, Discover, Elapsed, NewClass, Normalised
<1>5. IsNet(net) /\ IsCanonical(net, class) /\ Fits(net, class, N, B)
  BY <1>2, <1>3, <1>4, GraphAssumption DEF IInv, BuildTypeOK
<1> HIDE DEF class
<1>6. /\ TimeElapse(net, class).marking = class.marking
      /\ IsZoneClass(net, TimeElapse(net, class))
  BY <1>5, ElapsedIsCanonical DEF IsCanonical
<1>7. IsZoneClass(net, next) /\ next.marking = FireMarking(class.marking, net, current)
  <2>1. current \in PriorityEnabled(net, TimeElapse(net, class).marking)
    BY <1>4 DEF CanFire, IsFirable
  <2>2. next.marking = FireMarking(class.marking, net, current)
    BY <1>6 DEF Successor
  <2> QED
    BY <1>5, <1>6, <2>1, <2>2, SuccessorIsClass
<1>8. NewClass.marking = FireMarking(class.marking, net, current)
  <2> HIDE DEF next
  <2> QED
    BY <1>4, <1>5, <1>7, NormalisedMarking
<1>9. Cardinality(ClockVars(net, FireMarking(class.marking, net, current))) <= N
  BY <1>1, <1>8 DEF Fits
<1>10. IsCanonical(net, next) /\ IsCanonical(net, ExtrapolateClass(net, next))
  BY <1>4, <1>5, <1>9, StepKeepsClosedForm
<1> HIDE DEF next
<1>11. IsCanonical(net, NewClass)
  BY <1>4, <1>10, NormalisedIsCanonical
<1> QED
  BY <1>1, <1>3, <1>11

LEMMA NextKeepsCanonical ==
  ASSUME IInv, VerticesAreCanonical, [Next]_vars
  PROVE  VerticesAreCanonical'
<1>1. CASE UNCHANGED <<net, vertices>>
  BY <1>1 DEF VerticesAreCanonical, Roomy
<1>2. CASE Discover /\ UNCHANGED input
  BY <1>2, DiscoverKeepsCanonical
<1>3. CASE /\ UNCHANGED input
           /\ \/ StopAtLimit \/ BeginVertex \/ NextLevel \/ Finish
              \/ SkipTransition \/ Merge \/ DropSuccessor \/ EndVertex
  <2>1. UNCHANGED <<net, vertices>>
    BY <1>3 DEF input, StopAtLimit, BeginVertex, NextLevel, Finish,
                SkipTransition, Merge, DropSuccessor, EndVertex
  <2> QED
    BY <1>1, <2>1
<1>4. CASE UNCHANGED vars
  BY <1>1, <1>4 DEF vars, input
<1> QED
  BY <1>2, <1>3, <1>4 DEF Next, Build, Returned, LoopStep, Expand

(* As long as the numbers leave room, the zones that find_match compares   *)
(* are in closed form and none is empty.                                   *)
THEOREM ZonesAreClosed == Spec => [](Roomy => ZonesAreCanonical)
<1>1. Init => VerticesAreCanonical
  BY InitCanonical
<1>2. IInv /\ VerticesAreCanonical /\ [Next]_vars => VerticesAreCanonical'
  BY NextKeepsCanonical
<1>3. BuildTypeOK /\ VerticesAreCanonical => (Roomy => ZonesAreCanonical)
  <2> SUFFICES ASSUME BuildTypeOK,
                      NEW N, NEW B, HasRoom(net, N, B), NEW v \in DOMAIN vertices,
                      Fits(net, vertices[v], N, B), IsCanonical(net, vertices[v])
               PROVE  LET X == ClockVars(net, vertices[v].marking)
                          D == vertices[v].zone
                      IN  /\ DOMAIN D = X \X X
                          /\ ~ M!NegativeDiagonal(X, D)
                          /\ \A i, j, k \in X :
                               D[i, k] # INF /\ D[k, j] # INF
                                 => D[i, j] # INF /\ D[i, j] <= D[i, k] + D[k, j]
    BY DEF VerticesAreCanonical, Roomy, ZonesAreCanonical
  <2> DEFINE X == ClockVars(net, vertices[v].marking)
             D == vertices[v].zone
             U == (N + 1) * B
  <2>1. /\ D \in Zones(X) /\ Z!ClosedOver(X, X, D) /\ Z!ZeroDiagonal(X, D)
        /\ Z!Within(X, D, -B, B)
    BY DEF IsCanonical, ClosedForm, Fits
  <2>2. IsNet(net) /\ B \in Nat /\ INF \in Nat \ {0}
    BY GraphAssumption, INFAssumption DEF BuildTypeOK, HasRoom
  <2>3. U \in Nat /\ B <= U /\ 3 * U < INF
    <3>1. Cardinality(X) \in Nat /\ Cardinality(X) <= N
      BY <2>2, ClocksAreCounted DEF Fits
    <3> QED
      BY <3>1, RoomForSums
  <2> HIDE DEF U
  <2>4. 2 * B < INF
    BY <2>2, <2>3
  <2> HIDE DEF X, D
  <2>5. DOMAIN D = X \X X /\ \A i, j \in X : D[<<i, j>>] \in Int
    BY <2>1, ZoneEntries
  <2>6. ~ M!NegativeDiagonal(X, D)
    <3>1. \A i \in X : ~ (D[<<i, i>>] < 0)
      BY <2>1, 0 \in Int /\ ~ (0 < 0) DEF Z!ZeroDiagonal
    <3> QED
      BY Zenon, <3>1 DEF M!NegativeDiagonal
  <2>7. ASSUME NEW i \in X, NEW j \in X, NEW k \in X,
               D[<<i, k>>] # INF, D[<<k, j>>] # INF
        PROVE  D[<<i, j>>] # INF /\ D[<<i, j>>] <= D[<<i, k>>] + D[<<k, j>>]
    <3> DEFINE a == D[<<i, k>>]
               b == D[<<k, j>>]
               c == D[<<i, j>>]
    <3>1. a \in Int /\ b \in Int /\ c \in Int /\ c <= a + b
      BY <2>1, <2>5, <2>7 DEF Z!ClosedOver
    <3>2. a <= B /\ b <= B
      BY <2>1, <2>7 DEF Z!Within
    <3> HIDE DEF a, b, c
    <3>3. c < INF
      BY <2>2, <2>4, <3>1, <3>2
    <3> QED
      BY <2>2, <3>1, <3>3 DEF a, b, c
  <2> QED
    BY <2>5, <2>6, <2>7 DEF X, D
<1> QED
  BY <1>1, <1>2, <1>3, Invariance, PTL DEF Spec, IInv

(* With extrapolation the room is a matter of the input alone: N bounds    *)
(* the clocks of the stored classes and, with the constants of the net,    *)
(* every bound of every stored zone.                                       *)
FewClocks(N) ==
  /\ extrapolation
  /\ HasRoom(net, N, WidenedBound(net, N))
  /\ \A v \in DOMAIN vertices :
       Cardinality(ClockVars(net, vertices[v].marking)) <= N

SmallConstants == \E N : FewClocks(N)

VerticesFit ==
  \A N : FewClocks(N) =>
    \A v \in DOMAIN vertices : Fits(net, vertices[v], N, WidenedBound(net, N))

LEMMA FittingIsRoomy ==
  ASSUME VerticesFit, SmallConstants
  PROVE  Roomy
BY DEF VerticesFit, SmallConstants, FewClocks, Roomy

LEMMA InitFits == Init => VerticesFit
<1> SUFFICES ASSUME Init, NEW N, FewClocks(N)
             PROVE  \A v \in DOMAIN vertices :
                      Fits(net, vertices[v], N, WidenedBound(net, N))
  BY DEF VerticesFit
<1> DEFINE class == InitialClass(net)
<1>1. /\ DOMAIN vertices = {1}
      /\ vertices[1] = ExtrapolateClass(net, class)
  BY DEF Init, Normalised, NormalIn, FewClocks
<1>2. IsNet(net)
  BY GraphAssumption DEF Init
<1>3. /\ IsCanonical(net, class) /\ class.marking = net.M0
      /\ \A i \in ClockVars(net, class.marking) : 0 <= class.zone[<<X0, i>>]
      /\ IsZoneClass(net, class)
  BY <1>2, InitialIsCanonical DEF IsCanonical
<1> HIDE DEF class
<1>4. Cardinality(ClockVars(net, class.marking)) <= N
  BY <1>1, <1>2, <1>3, ExtrapolatedClass DEF FewClocks
<1>5. \A i \in ClockVars(net, class.marking) : -0 <= class.zone[<<X0, i>>]
  BY <1>3
<1> QED
  BY <1>1, <1>2, <1>3, <1>4, <1>5, ExtrapolatedFits, 0 \in Nat DEF FewClocks

LEMMA DiscoverFits ==
  ASSUME IInv, VerticesAreCanonical, VerticesFit, Discover, UNCHANGED input
  PROVE  VerticesFit'
<1>1. /\ net' = net /\ extrapolation' = extrapolation
      /\ DOMAIN vertices' = DOMAIN vertices \cup {Len(vertices) + 1}
      /\ \A v \in DOMAIN vertices : vertices'[v] = vertices[v]
      /\ vertices'[Len(vertices) + 1] = NewClass
  BY DiscoveredVertex DEF IInv, input
<1> SUFFICES ASSUME NEW N, extrapolation, HasRoom(net, N, WidenedBound(net, N)),
                    \A v \in DOMAIN vertices' :
                      Cardinality(ClockVars(net, vertices'[v].marking)) <= N
             PROVE  \A v \in DOMAIN vertices' :
                      Fits(net, vertices'[v], N, WidenedBound(net, N))
  BY <1>1 DEF VerticesFit, FewClocks
<1> DEFINE B == WidenedBound(net, N)
<1>2. \A v \in DOMAIN vertices : Fits(net, vertices[v], N, B)
  BY <1>1 DEF VerticesFit, FewClocks
<1>3. \A v \in DOMAIN vertices : IsCanonical(net, vertices[v])
  BY <1>2 DEF VerticesAreCanonical, Roomy
<1> DEFINE class == vertices[u]
           next == Successor(net, TimeElapse(net, class), current)
<1>4. /\ u \in DOMAIN vertices /\ current \in net.transitions
      /\ CanFire(net, TimeElapse(net, class), current)
      /\ NewClass = ExtrapolateClass(net, next)
  BY WhatIsTried DEF IInv, Discover, Elapsed, NewClass, Normalised, NormalIn
<1>5. IsNet(net) /\ IsCanonical(net, class) /\ Fits(net, class, N, B)
  BY <1>2, <1>3, <1>4, GraphAssumption DEF IInv, BuildTypeOK
<1> HIDE DEF class
<1>6. /\ TimeElapse(net, class).marking = class.marking
      /\ IsZoneClass(net, TimeElapse(net, class))
  BY <1>5, ElapsedIsCanonical DEF IsCanonical
<1>7. IsZoneClass(net, next) /\ next.marking = FireMarking(class.marking, net, current)
  <2>1. current \in PriorityEnabled(net, TimeElapse(net, class).marking)
    BY <1>4 DEF CanFire, IsFirable
  <2>2. next.marking = FireMarking(class.marking, net, current)
    BY <1>6 DEF Successor
  <2> QED
    BY <1>5, <1>6, <2>1, <2>2, SuccessorIsClass
<1>8. NewClass.marking = next.marking
  <2> HIDE DEF next
  <2> QED
    BY <1>4, <1>5, <1>7, ExtrapolatedClass
<1>9. Cardinality(ClockVars(net, next.marking)) <= N
  BY <1>1, <1>8
<1>10. /\ IsCanonical(net, next)
       /\ \A i \in ClockVars(net, next.marking) :
            -(3 * ((N + 1) * B)) <= next.zone[<<X0, i>>]
  <2> HIDE DEF B
  <2>1. Cardinality(ClockVars(net, FireMarking(class.marking, net, current))) <= N
    BY <1>7, <1>9
  <2>2. HasRoom(net, N, B)
    BY DEF B
  <2> QED
    BY <1>4, <1>5, <2>1, <2>2, StepKeepsClosedForm
<1>11. 3 * ((N + 1) * B) \in Nat
  <2>1. Cardinality(ClockVars(net, next.marking)) \in Nat
    BY <1>5, ClocksAreCounted
  <2> HIDE DEF B
  <2>2. HasRoom(net, N, B)
    BY DEF B
  <2> QED
    BY <1>9, <2>1, <2>2, RoomForSums
<1> HIDE DEF next
<1>12. Fits(net, NewClass, N, B)
  <2> DEFINE V == 3 * ((N + 1) * B)
  <2>1. V \in Nat /\ \A i \in ClockVars(net, next.marking) : -V <= next.zone[<<X0, i>>]
    BY <1>10, <1>11
  <2> HIDE DEF V
  <2> QED
    BY <1>4, <1>5, <1>9, <1>10, <2>1, ExtrapolatedFits
<1> QED
  BY <1>1, <1>2, <1>12

LEMMA NextFits ==
  ASSUME IInv, VerticesAreCanonical, VerticesFit, [Next]_vars
  PROVE  VerticesFit'
<1>1. CASE UNCHANGED <<net, extrapolation, vertices>>
  BY <1>1 DEF VerticesFit, FewClocks
<1>2. CASE Discover /\ UNCHANGED input
  BY <1>2, DiscoverFits
<1>3. CASE /\ UNCHANGED input
           /\ \/ StopAtLimit \/ BeginVertex \/ NextLevel \/ Finish
              \/ SkipTransition \/ Merge \/ DropSuccessor \/ EndVertex
  <2>1. UNCHANGED <<net, extrapolation, vertices>>
    BY <1>3 DEF input, StopAtLimit, BeginVertex, NextLevel, Finish,
                SkipTransition, Merge, DropSuccessor, EndVertex
  <2> QED
    BY <1>1, <2>1
<1>4. CASE UNCHANGED vars
  BY <1>1, <1>4 DEF vars, input
<1> QED
  BY <1>2, <1>3, <1>4 DEF Next, Build, Returned, LoopStep, Expand

(* With extrapolation and small enough constants, the zones that are       *)
(* compared are in closed form, whatever build does.                       *)
THEOREM ExtrapolatedZonesAreClosed == Spec => [](SmallConstants => ZonesAreCanonical)
<1>1. Init => VerticesAreCanonical /\ VerticesFit
  BY InitCanonical, InitFits
<1>2. /\ IInv /\ VerticesAreCanonical /\ VerticesFit /\ [Next]_vars
      => VerticesAreCanonical' /\ VerticesFit'
  BY NextKeepsCanonical, NextFits
<1>3. VerticesFit /\ (Roomy => ZonesAreCanonical)
        => (SmallConstants => ZonesAreCanonical)
  BY FittingIsRoomy
<1> QED
  BY <1>1, <1>2, <1>3, Invariance, ZonesAreClosed, PTL DEF Spec

(* Every vertex says something new: when classes are merged by inclusion,  *)
(* each holds clock values that no earlier vertex of its marking holds.    *)
EveryVertexAddsPoints ==
  mode # "EQUALITY" =>
    \A v, x \in DOMAIN vertices :
      x < v /\ vertices[x].marking = vertices[v].marking =>
        \E point \in Points(ClockVars(net, vertices[v].marking)) :
          /\ M!Satisfies(point, vertices[v].zone)
          /\ ~ M!Satisfies(point, vertices[x].zone)

THEOREM VerticesAddPoints == Spec => [](Roomy => EveryVertexAddsPoints)
<1>1. Init => VerticesAreCanonical
  BY InitCanonical
<1>2. IInv /\ VerticesAreCanonical /\ [Next]_vars => VerticesAreCanonical'
  BY NextKeepsCanonical
<1>3. IInv /\ VerticesAreCanonical => (Roomy => EveryVertexAddsPoints)
  <2> SUFFICES ASSUME IInv, mode # "EQUALITY", NEW N, NEW B, HasRoom(net, N, B),
                      NEW v \in DOMAIN vertices, NEW x \in DOMAIN vertices, x < v,
                      vertices[x].marking = vertices[v].marking,
                      IsCanonical(net, vertices[v]), IsCanonical(net, vertices[x]),
                      Fits(net, vertices[v], N, B), Fits(net, vertices[x], N, B)
               PROVE  \E point \in Points(ClockVars(net, vertices[v].marking)) :
                        /\ M!Satisfies(point, vertices[v].zone)
                        /\ ~ M!Satisfies(point, vertices[x].zone)
    BY DEF VerticesAreCanonical, Roomy, EveryVertexAddsPoints
  <2>1. ~ CheckInclusion(vertices[v], vertices[x])
    BY DEF IInv, Unmergeable, CanMergeInto
  <2>2. IsNet(net)
    BY GraphAssumption DEF IInv, BuildTypeOK
  <2> QED
    BY <2>1, <2>2, InclusionDecides
<1> QED
  BY <1>1, <1>2, <1>3, Invariance, PTL DEF Spec

-----------------------------------------------------------------------------
(* The windows that FiringEdge writes on an edge leaving the class.        *)
HasWindow(n, class, e) ==
  LET entry == class.zone
      elapsed == TimeElapse(n, class).zone
      ht == Execution(e.t)
      lower == Earliest(n, e.t)
      fire_min == IF lower < -elapsed[X0, ht] THEN -elapsed[X0, ht] ELSE lower
      fire_max == M!Smaller(elapsed[ht, X0], Latest(n, e.t))
      NonNegative(k) == IF k < 0 THEN 0 ELSE k
  IN  /\ e.firing_min = fire_min
      /\ e.firing_max = fire_max
      /\ e.dwell_min = NonNegative(fire_min - entry[ht, X0])
      /\ e.dwell_max = IF fire_max = INF THEN INF
                       ELSE NonNegative(fire_max + entry[X0, ht])

LEMMA FiringEdgeHasWindow ==
  ASSUME NEW class, NEW t, NEW v
  PROVE  LET e == FiringEdge(class, t, v)
         IN  e.src = u /\ e.t = t /\ e.dst = v /\ HasWindow(net, class, e)
BY DEF FiringEdge, HasWindow

-----------------------------------------------------------------------------
(* What an edge is: a transition that can leave its source, with the       *)
(* windows of the source, leading to a vertex that is its successor or     *)
(* that its successor was merged into.                                     *)
Leads(n, x, k, source, e, target) ==
  /\ e.t \in LeavingClass(<<n, x>>, source)
  /\ HasWindow(n, source, e)
  /\ LET next == NextClass(<<n, x>>, source, e.t)
     IN  next = target \/ CanMergeInto(next, target, k)

(* What vertices and edges are, beside the inductive invariant above.      *)
VerticesAreClasses == \A v \in DOMAIN vertices : IsZoneClass(net, vertices[v])

EdgesLead ==
  \A e \in edges :
    Leads(net, extrapolation, mode, vertices[e.src], e, vertices[e.dst])

EndsWhenEmpty ==
  pc = "done" /\ ~ truncated => frontier = <<>> /\ next_frontier = <<>>

(* The first vertex is the initial class, every other one the successor of *)
(* an earlier one.                                                         *)
VerticesAreReached ==
  LET system == <<net, extrapolation>>
  IN  /\ vertices[1] = FirstClass(system)
      /\ \A v \in DOMAIN vertices \ {1} :
           \E x \in DOMAIN vertices : \E t \in LeavingClass(system, vertices[x]) :
             x < v /\ vertices[v] = NextClass(system, vertices[x], t)

GraphInv ==
  /\ IInv
  /\ VerticesAreClasses /\ VerticesAreReached
  /\ EdgesLead /\ EndsWhenEmpty

LEMMA NormalClass ==
  ASSUME NEW n, IsNet(n), NEW x, NEW class, IsZoneClass(n, class)
  PROVE  /\ IsZoneClass(n, NormalIn(n, x, class))
         /\ NormalIn(n, x, class).marking = class.marking
         /\ \A v \in Points(ClockVars(n, class.marking)) :
              M!Satisfies(v, class.zone)
                => M!Satisfies(v, NormalIn(n, x, class).zone)
<1>1. CASE x
  BY <1>1, ExtrapolatedClass DEF NormalIn
<1>2. CASE ~ x
  BY <1>2 DEF NormalIn
<1> QED
  BY <1>1, <1>2

LEMMA NextIsClass ==
  ASSUME NEW n, IsNet(n), NEW x, NEW class, IsZoneClass(n, class),
         NEW t \in PriorityEnabled(n, class.marking)
  PROVE  IsZoneClass(n, NextClass(<<n, x>>, class, t))
<1>1. IsZoneClass(n, TimeElapse(n, class)) /\ TimeElapse(n, class).marking = class.marking
  BY ElapsedClass
<1>2. IsZoneClass(n, Successor(n, TimeElapse(n, class), t))
  BY <1>1, SuccessorIsClass
<1>3. NextClass(<<n, x>>, class, t) = NormalIn(n, x, Successor(n, TimeElapse(n, class), t))
  BY DEF NextClass
<1> QED
  BY <1>2, <1>3, NormalClass

LEMMA InitGraphInv == Init => GraphInv
<1> SUFFICES ASSUME Init PROVE GraphInv
  OBVIOUS
<1>1. /\ DOMAIN vertices = {1}
      /\ vertices[1] = NormalIn(net, extrapolation, InitialClass(net))
  BY DEF Init, Normalised
<1>2. IsNet(net)
  BY GraphAssumption DEF Init
<1>3. VerticesAreClasses
  BY ZenonT(60), <1>1, <1>2, InitialClassContains, NormalClass DEF VerticesAreClasses
<1>4. EdgesLead /\ EndsWhenEmpty
  BY DEF Init, EdgesLead, EndsWhenEmpty
<1>5. VerticesAreReached
  BY <1>1 DEF VerticesAreReached, FirstClass
<1> QED
  BY <1>3, <1>4, <1>5, InitIInv DEF GraphInv

(* What is discovered is a class, and its edge leads to it.                *)
LEMMA TriedEdge ==
  ASSUME GraphInv, Trying, CanFire(net, Elapsed, current),
         NEW v, NEW target, NewClass = target \/ CanMergeInto(NewClass, target, mode)
  PROVE  /\ u \in DOMAIN vertices
         /\ IsZoneClass(net, NewClass)
         /\ Leads(net, extrapolation, mode, vertices[u],
                  FiringEdge(vertices[u], current, v), target)
<1>1. /\ u \in DOMAIN vertices
      /\ current \in LeavingClass(<<net, extrapolation>>, vertices[u])
      /\ NewClass = NextClass(<<net, extrapolation>>, vertices[u], current)
  BY WhatIsTried DEF GraphInv, IInv
<1>2. IsNet(net) /\ IsZoneClass(net, vertices[u]) /\ IsClass(vertices[u])
  BY <1>1, GraphAssumption
     DEF GraphInv, IInv, BuildTypeOK, VerticesAreClasses
<1>3. current \in PriorityEnabled(net, vertices[u].marking)
  BY <1>1, <1>2, LeavingAreEnabled
<1>4. IsZoneClass(net, NewClass)
  BY <1>1, <1>2, <1>3, NextIsClass
<1> DEFINE e == FiringEdge(vertices[u], current, v)
<1>5. e.t = current /\ HasWindow(net, vertices[u], e)
  BY FiringEdgeHasWindow
<1> HIDE DEF e
<1>6. Leads(net, extrapolation, mode, vertices[u], e, target)
  BY <1>1, <1>5 DEF Leads
<1> QED
  BY <1>1, <1>4, <1>6 DEF e

LEMMA BuildGraphInv ==
  ASSUME GraphInv, Build
  PROVE  GraphInv'
<1>1. IInv'
  BY NextKeepsIInv DEF GraphInv, Next
<1>2. /\ UNCHANGED <<net, mode, extrapolation>>
      /\ BuildTypeOK
      /\ \A e \in edges : e.src \in DOMAIN vertices /\ e.dst \in DOMAIN vertices
  BY DEF Build, input, GraphInv, IInv, BuildTypeOK
<1>3. ASSUME UNCHANGED <<vertices, edges>> PROVE VerticesAreClasses' /\ EdgesLead'
  BY <1>2, <1>3 DEF GraphInv, VerticesAreClasses, EdgesLead
<1>3a. ASSUME UNCHANGED vertices PROVE VerticesAreReached'
  BY <1>2, <1>3a DEF GraphInv, VerticesAreReached
<1>4. ASSUME Merge PROVE VerticesAreClasses' /\ EdgesLead'
  <2> DEFINE v == FirstMatch(NewClass)
             edge == FiringEdge(vertices[u], current, v)
  <2>1. Matches(NewClass) # {} /\ Matches(NewClass) \subseteq Nat
    BY <1>2, <1>4, VertexNumbers DEF Merge, Matches
  <2>2. v \in DOMAIN vertices /\ CanMergeInto(NewClass, vertices[v], mode)
    BY <2>1, FirstMatchMatches DEF Matches
  <2>3. Trying /\ CanFire(net, Elapsed, current)
    BY <1>4 DEF Merge
  <2>4. Leads(net, extrapolation, mode, vertices[u], edge, vertices[v])
    BY <2>2, <2>3, TriedEdge
  <2>5. edge.src = u /\ edge.dst = v
    BY DEF FiringEdge
  <2>6. edges' = edges \cup {edge} /\ vertices' = vertices
    BY <1>4 DEF Merge
  <2> HIDE DEF edge, v
  <2> QED
    BY <1>2, <2>4, <2>5, <2>6 DEF GraphInv, VerticesAreClasses, EdgesLead
<1>5. ASSUME Discover PROVE VerticesAreClasses' /\ EdgesLead' /\ VerticesAreReached'
  <2> DEFINE v == Len(vertices) + 1
             edge == FiringEdge(vertices[u], current, v)
  <2>1. /\ DOMAIN vertices' = DOMAIN vertices \cup {v}
        /\ \A x \in DOMAIN vertices : vertices'[x] = vertices[x]
        /\ vertices'[v] = NewClass
    BY <1>2, <1>5, DiscoveredVertex
  <2>2. Trying /\ CanFire(net, Elapsed, current)
    BY <1>5 DEF Discover
  <2>3. /\ u \in DOMAIN vertices
        /\ IsZoneClass(net, NewClass)
        /\ Leads(net, extrapolation, mode, vertices[u], edge, NewClass)
    BY <2>2, TriedEdge
  <2>4. edge.src = u /\ edge.dst = v
    BY DEF FiringEdge
  <2>5. edges' = edges \cup {edge}
    BY <1>5 DEF Discover
  <2> HIDE DEF edge, v
  <2>6. VerticesAreClasses'
    BY <1>2, <2>1, <2>3 DEF GraphInv, VerticesAreClasses
  <2>7. EdgesLead'
    BY <1>2, <2>1, <2>3, <2>4, <2>5 DEF GraphInv, EdgesLead
  <2>8. VerticesAreReached'
    <3> DEFINE system == <<net, extrapolation>>
    <3>1. /\ current \in LeavingClass(system, vertices[u])
          /\ NewClass = NextClass(system, vertices[u], current)
      BY <1>2, <2>2, WhatIsTried
    <3>2. u < v /\ 1 \in DOMAIN vertices /\ 1 # v
      BY <1>2, <2>3, VertexNumbers DEF v
    <3>3. vertices'[1] = FirstClass(system)
      BY <2>1, <3>2 DEF GraphInv, VerticesAreReached
    <3>4. ASSUME NEW y \in DOMAIN vertices', y # 1
          PROVE  \E x \in DOMAIN vertices' : \E t \in LeavingClass(system, vertices'[x]) :
                   x < y /\ vertices'[y] = NextClass(system, vertices'[x], t)
      <4>1. CASE y = v
        BY <2>1, <2>3, <3>1, <3>2, <4>1
      <4>2. CASE y \in DOMAIN vertices
        <5>1. PICK x \in DOMAIN vertices : \E t \in LeavingClass(system, vertices[x]) :
                x < y /\ vertices[y] = NextClass(system, vertices[x], t)
          BY <3>4, <4>2 DEF GraphInv, VerticesAreReached
        <5> QED
          BY <2>1, <4>2, <5>1
      <4> QED
        BY <2>1, <3>4, <4>1, <4>2
    <3> QED
      BY <1>2, <3>3, <3>4 DEF VerticesAreReached
  <2> QED
    BY <2>6, <2>7, <2>8
<1>6. UNCHANGED <<vertices, edges>> \/ Merge \/ Discover
  <2>1. CASE StopAtLimit \/ BeginVertex \/ NextLevel \/ Finish \/ EndVertex
    BY <2>1 DEF StopAtLimit, BeginVertex, NextLevel, Finish, EndVertex
  <2>2. CASE SkipTransition \/ DropSuccessor
    BY <2>2 DEF SkipTransition, DropSuccessor
  <2> QED
    BY <2>1, <2>2 DEF Build, LoopStep, Expand
<1>7. EndsWhenEmpty'
  <2>1. pc # "done" /\ (pc = "level" => ~ truncated)
    BY DEF Build, LoopStep, Expand, Trying, StopAtLimit, BeginVertex,
           NextLevel, Finish, SkipTransition, Merge, DropSuccessor,
           Discover, EndVertex, GraphInv, IInv, BuildTypeOK
  <2>2. CASE Finish
    BY <2>2 DEF Finish, EndsWhenEmpty
  <2>3. CASE StopAtLimit
    BY <2>3 DEF StopAtLimit, EndsWhenEmpty
  <2>4. CASE EndVertex
    BY <2>4 DEF EndVertex, EndsWhenEmpty
  <2>5. CASE BeginVertex \/ NextLevel
    BY <2>5 DEF BeginVertex, NextLevel, EndsWhenEmpty
  <2>6. CASE Expand
    BY <2>6 DEF Expand, Trying, SkipTransition, Merge, DropSuccessor,
                Discover, EndsWhenEmpty
  <2> QED
    BY <2>2, <2>3, <2>4, <2>5, <2>6 DEF Build, LoopStep
<1>8. UNCHANGED vertices \/ Discover
  BY <1>6 DEF Merge
<1> QED
  BY <1>1, <1>3, <1>3a, <1>4, <1>5, <1>6, <1>7, <1>8 DEF GraphInv

LEMMA GraphInvStands == GraphInv /\ UNCHANGED vars => GraphInv'
<1> SUFFICES ASSUME GraphInv, UNCHANGED vars PROVE GraphInv'
  OBVIOUS
<1>1. IInv'
  BY NextKeepsIInv DEF GraphInv
<1>2. /\ UNCHANGED <<net, mode, extrapolation, vertices, edges, frontier,
                     next_frontier, truncated, pc>>
  BY DEF vars, input
<1>3. VerticesAreClasses'
  BY <1>2 DEF GraphInv, VerticesAreClasses
<1>4. EdgesLead'
  BY <1>2 DEF GraphInv, EdgesLead
<1>5. EndsWhenEmpty'
  BY <1>2 DEF GraphInv, EndsWhenEmpty
<1>6. VerticesAreReached'
  BY <1>2 DEF GraphInv, VerticesAreReached
<1> QED
  BY <1>1, <1>3, <1>4, <1>5, <1>6 DEF GraphInv

(* When build ends with a complete graph, every transition that can leave  *)
(* a vertex has an edge.                                                   *)
LEMMA CompleteGraphs ==
  ASSUME GraphInv, Complete, NEW v \in DOMAIN vertices,
         NEW t \in LeavingClass(<<net, extrapolation>>, vertices[v])
  PROVE  \E e \in edges : e.src = v /\ e.t = t
<1>1. frontier = <<>> /\ next_frontier = <<>>
  BY DEF GraphInv, EndsWhenEmpty, Complete
<1>2. DOMAIN frontier = {} /\ DOMAIN next_frontier = {}
  BY <1>1, EmptySeq
<1>3. ~ Waits(v) /\ ~ BeingTried(v, t)
  BY <1>2 DEF Waits, BeingTried, Complete
<1> QED
  BY <1>3 DEF GraphInv, IInv, NothingForgotten, Complete, HasEdge

-----------------------------------------------------------------------------
(* The dwell times on an edge are numbers, and those of a class that       *)
(* contains another reach at least as far in both directions.              *)
LEMMA DwellsAreTimes ==
  ASSUME NEW n, IsNet(n), NEW class, IsZoneClass(n, class), NEW e,
         e.t \in PriorityEnabled(n, class.marking), HasWindow(n, class, e)
  PROVE  e.dwell_min \in Nat /\ e.dwell_max \in Nat
<1> DEFINE X == ClockVars(n, class.marking)
           ht == Execution(e.t)
           elapsed == TimeElapse(n, class).zone
           waited == elapsed[<<X0, ht>>]
           reached == elapsed[<<ht, X0>>]
           most == class.zone[<<ht, X0>>]
           least == class.zone[<<X0, ht>>]
           lower == Earliest(n, e.t)
           upper == Latest(n, e.t)
           fire_min == IF lower < -waited THEN -waited ELSE lower
           fire_max == IF reached < upper THEN reached ELSE upper
<1>1. X0 \in X /\ ht \in X
  BY KindsOfClocks, SchedulerSelects
<1>2. elapsed \in Zones(X) /\ class.zone \in Zones(X)
  BY ElapsedClass DEF IsZoneClass
<1>3. waited \in Int /\ reached \in Int /\ most \in Int /\ least \in Int
  <2> HIDE DEF elapsed, X, ht
  <2> QED
    BY <1>1, <1>2, ZoneEntries
<1>4. lower \in Nat /\ upper \in Nat /\ INF \in Nat
  BY SchedulerSelects, IntervalBounds, INFAssumption
<1>5. /\ e.dwell_min = IF fire_min - most < 0 THEN 0 ELSE fire_min - most
      /\ e.dwell_max = IF fire_max = INF THEN INF
                       ELSE IF fire_max + least < 0 THEN 0 ELSE fire_max + least
  BY DEF HasWindow, M!Smaller
<1> HIDE DEF waited, reached, most, least, lower, upper
<1>6. fire_min \in Int /\ fire_max \in Int
  BY <1>3, <1>4
<1> HIDE DEF fire_min, fire_max
<1> QED
  BY <1>3, <1>4, <1>5, <1>6

LEMMA DwellsGrow ==
  ASSUME NEW n, IsNet(n), NEW a, IsCanonical(n, a),
         NEW N, NEW B, HasRoom(n, N, B), Fits(n, a, N, B),
         NEW x, IsZoneClass(n, x), CheckInclusion(a, x),
         NEW e, NEW f, e.t = f.t, e.t \in PriorityEnabled(n, a.marking),
         HasWindow(n, a, e), HasWindow(n, x, f)
  PROVE  f.dwell_min <= e.dwell_min /\ e.dwell_max <= f.dwell_max
<1> DEFINE X == ClockVars(n, a.marking)
           ht == Execution(e.t)
           ea == TimeElapse(n, a)
           ex == TimeElapse(n, x)
           wa == ea.zone[<<X0, ht>>]
           wx == ex.zone[<<X0, ht>>]
           ra == ea.zone[<<ht, X0>>]
           rx == ex.zone[<<ht, X0>>]
           ma == a.zone[<<ht, X0>>]
           mx == x.zone[<<ht, X0>>]
           la == a.zone[<<X0, ht>>]
           lx == x.zone[<<X0, ht>>]
           lower == Earliest(n, e.t)
           upper == Latest(n, e.t)
           mina == IF lower < -wa THEN -wa ELSE lower
           minx == IF lower < -wx THEN -wx ELSE lower
           maxa == IF ra < upper THEN ra ELSE upper
           maxx == IF rx < upper THEN rx ELSE upper
<1>1. /\ X0 \in X /\ ht \in X
      /\ IsZoneClass(n, a) /\ x.marking = a.marking
      /\ a.zone \in Zones(X) /\ x.zone \in Zones(X)
      /\ la <= 0
  BY KindsOfClocks, SchedulerSelects
     DEF IsCanonical, IsZoneClass, CheckInclusion, InTime
<1>2. /\ ea.zone \in Zones(X) /\ ex.zone \in Zones(X)
      /\ M!IncludedIn(ea.zone, ex.zone)
  BY <1>1, ElapsedClass, ElapseKeepsOrder DEF IsZoneClass, CheckInclusion
<1>3. Z!Below(X, a.zone, x.zone) /\ Z!Below(X, ea.zone, ex.zone)
  BY <1>1, <1>2, InclusionIsOrder DEF CheckInclusion
<1>4. /\ wa <= wx /\ ra <= rx /\ ma <= mx /\ la <= lx
      /\ wa \in Int /\ wx \in Int /\ ra \in Int /\ rx \in Int
      /\ ma \in Int /\ mx \in Int /\ la \in Int /\ lx \in Int
  <2> HIDE DEF ea, ex, X, ht
  <2> QED
    BY <1>1, <1>2, <1>3, ZoneEntries DEF Z!Below
<1>5. lower \in Nat /\ upper \in Nat /\ upper <= INF /\ INF \in Nat
  BY SchedulerSelects, IntervalBounds, INFAssumption
<1>6. /\ e.dwell_min = IF mina - ma < 0 THEN 0 ELSE mina - ma
      /\ e.dwell_max = IF maxa = INF THEN INF
                       ELSE IF maxa + la < 0 THEN 0 ELSE maxa + la
  BY DEF HasWindow, M!Smaller
<1>7. /\ f.dwell_min = IF minx - mx < 0 THEN 0 ELSE minx - mx
      /\ f.dwell_max = IF maxx = INF THEN INF
                       ELSE IF maxx + lx < 0 THEN 0 ELSE maxx + lx
  BY DEF HasWindow, M!Smaller
<1> HIDE DEF wa, wx, ra, rx, ma, mx, la, lx, lower, upper
<1>8. /\ mina \in Int /\ minx \in Int /\ minx <= mina
      /\ maxa \in Int /\ maxx \in Int /\ maxa <= maxx /\ maxx <= INF
  BY <1>4, <1>5
<1> HIDE DEF mina, minx, maxa, maxx
<1>9. f.dwell_min <= e.dwell_min
  BY <1>4, <1>6, <1>7, <1>8
<1>10. e.dwell_max <= f.dwell_max
  BY <1>1, <1>4, <1>5, <1>6, <1>7, <1>8
<1> QED
  BY <1>9, <1>10

(* A class leads to the same window whoever asks.                          *)
LEMMA SameWindow ==
  ASSUME NEW n, NEW class, NEW e, NEW f, e.t = f.t,
         HasWindow(n, class, e), HasWindow(n, class, f)
  PROVE  e.dwell_min = f.dwell_min /\ e.dwell_max = f.dwell_max
BY DEF HasWindow

(* What a graph is when build has ended with all of it.                    *)
IsFinished(n, x, k, V, E) ==
  LET system == <<n, x>>
      size == Len(V)
  IN  /\ size \in Nat \ {0} /\ DOMAIN V = 1 .. size
      /\ \A v \in DOMAIN V : IsZoneClass(n, V[v])
      /\ V[1] = FirstClass(system)
      /\ \A v \in DOMAIN V \ {1} :
           \E y \in DOMAIN V : \E t \in LeavingClass(system, V[y]) :
             y < v /\ V[v] = NextClass(system, V[y], t)
      /\ \A v, y \in DOMAIN V : y < v => ~ CanMergeInto(V[v], V[y], k)
      /\ \A e \in E : /\ e.src \in DOMAIN V /\ e.dst \in DOMAIN V
                      /\ Leads(n, x, k, V[e.src], e, V[e.dst])
      /\ \A v \in DOMAIN V : \A t \in LeavingClass(system, V[v]) :
           \E e \in E : e.src = v /\ e.t = t

THEOREM CompleteIsFinished ==
  ASSUME GraphInv, Complete
  PROVE  IsFinished(net, extrapolation, mode, vertices, edges)
<1>1. /\ BuildTypeOK /\ Unmergeable /\ VerticesAreClasses
      /\ VerticesAreReached /\ EdgesLead
  BY DEF GraphInv, IInv
<1>2. Len(vertices) \in Nat \ {0} /\ DOMAIN vertices = 1 .. Len(vertices)
  BY <1>1, VertexNumbers
<1>3. \A v \in DOMAIN vertices :
        \A t \in LeavingClass(<<net, extrapolation>>, vertices[v]) :
          \E e \in edges : e.src = v /\ e.t = t
  BY CompleteGraphs
<1> QED
  BY <1>1, <1>2, <1>3
     DEF IsFinished, BuildTypeOK, Unmergeable, VerticesAreClasses,
         VerticesAreReached, EdgesLead

-----------------------------------------------------------------------------
(* The functions between finite sets are finitely many: a function is told *)
(* by its graph, a part of a finite product.                               *)
LEMMA FiniteFunctions ==
  ASSUME NEW S, IsFiniteSet(S), NEW T, IsFiniteSet(T)
  PROVE  IsFiniteSet([S -> T])
<1> DEFINE Pairs(f) == {<<s, f[s]>> : s \in S}
           graph == [f \in [S -> T] |-> Pairs(f)]
<1>1. IsFiniteSet(SUBSET (S \X T))
  BY FS_Product, FS_SUBSET
<1>2. graph \in [[S -> T] -> SUBSET (S \X T)]
  OBVIOUS
<1>3. ASSUME NEW f \in [S -> T], NEW g \in [S -> T], Pairs(f) = Pairs(g)
      PROVE  f = g
  <2>1. \A s \in S : f[s] = g[s]
    <3> TAKE s \in S
    <3>1. <<s, f[s]>> \in Pairs(g)
      BY <1>3
    <3>2. PICK r \in S : <<s, f[s]>> = <<r, g[r]>>
      BY <3>1
    <3> QED
      BY <3>2
  <2> QED
    BY <2>1
<1>4. graph \in Injection([S -> T], SUBSET (S \X T))
  BY <1>2, <1>3 DEF Injection, IsInjective
<1> QED
  BY <1>1, <1>4, FS_Injection

(* All clock variables of a net, and the zones over some of them whose     *)
(* finite bounds stay within what extrapolation leaves.                    *)
AllClocks(n) ==
  {X0} \cup {Execution(t) : t \in n.transitions}
       \cup {Suspension(t) : t \in n.transitions}

AllBound(n) == WidenedBound(n, Cardinality(AllClocks(n)))

ZoneSpace(n) ==
  LET V == (-AllBound(n) .. AllBound(n)) \cup {INF}
  IN  UNION {[X \X X -> V] : X \in SUBSET AllClocks(n)}

LEMMA AllClocksAreFinite ==
  ASSUME NEW n, IsNet(n)
  PROVE  /\ IsFiniteSet(AllClocks(n)) /\ Cardinality(AllClocks(n)) \in Nat
         /\ \A m : /\ ClockVars(n, m) \in SUBSET AllClocks(n)
                   /\ Cardinality(ClockVars(n, m)) <= Cardinality(AllClocks(n))
<1> DEFINE T == n.transitions
           E == {Execution(t) : t \in T}
           U == {Suspension(t) : t \in T}
<1>1. IsFiniteSet(T)
  BY DEF IsNet
<1>2. [t \in T |-> Execution(t)] \in Surjection(T, E)
  BY DEF Surjection
<1>3. [t \in T |-> Suspension(t)] \in Surjection(T, U)
  BY DEF Surjection
<1>4. IsFiniteSet(E) /\ IsFiniteSet(U) /\ IsFiniteSet({X0})
  BY <1>1, <1>2, <1>3, FS_Surjection, FS_Singleton
<1>5. IsFiniteSet(AllClocks(n))
  BY <1>4, FS_Union DEF AllClocks
<1>6. ASSUME NEW m PROVE ClockVars(n, m) \in SUBSET AllClocks(n)
  <2>1. /\ StructEnabled(n, m) \in SUBSET n.transitions
        /\ Suspended(n, m) \in SUBSET n.transitions
    BY SchedulerSelects
  <2> QED
    BY <2>1 DEF ClockVars, ExecClocks, SuspClocks, AllClocks
<1> QED
  BY <1>5, <1>6, FS_Subset, FS_CardinalityType

LEMMA ZoneSpaceIsFinite ==
  ASSUME NEW n, IsNet(n), AllBound(n) \in Nat
  PROVE  IsFiniteSet(ZoneSpace(n))
<1> DEFINE A == AllClocks(n)
           L == AllBound(n)
           V == (-L .. L) \cup {INF}
           Over(X) == [X \X X -> V]
           Spaces == {Over(X) : X \in SUBSET A}
<1>1. IsFiniteSet(A) /\ IsFiniteSet(SUBSET A)
  BY AllClocksAreFinite, FS_SUBSET
<1>2. IsFiniteSet(V)
  <2>1. IsFiniteSet(-L .. L)
    BY FS_Interval, -L \in Int, L \in Int
  <2> QED
    BY <2>1, FS_Singleton, FS_Union
<1>3. ASSUME NEW X \in SUBSET A PROVE IsFiniteSet(Over(X))
  <2>1. IsFiniteSet(X)
    BY <1>1, FS_Subset
  <2>2. IsFiniteSet(X \X X)
    BY <2>1, FS_Product
  <2> QED
    BY <1>2, <2>2, FiniteFunctions
<1>4. [X \in SUBSET A |-> Over(X)] \in Surjection(SUBSET A, Spaces)
  BY DEF Surjection
<1>5. IsFiniteSet(Spaces)
  BY <1>1, <1>4, FS_Surjection
<1>6. IsFiniteSet(UNION Spaces)
  BY <1>3, <1>5, FS_UNION
<1> QED
  BY <1>6 DEF ZoneSpace

(* The sums the engine forms of the net's constants, over all its clock    *)
(* variables, stay away from the largest machine integer.                  *)
RoomForAll == HasRoom(net, Cardinality(AllClocks(net)), AllBound(net))

LEMMA VerticesAreInSpace ==
  ASSUME GraphInv, VerticesFit, extrapolation, RoomForAll, NEW v \in DOMAIN vertices
  PROVE  vertices[v].zone \in ZoneSpace(net)
<1> DEFINE X == ClockVars(net, vertices[v].marking)
           D == vertices[v].zone
           N == Cardinality(AllClocks(net))
           L == AllBound(net)
<1>1. IsNet(net)
  BY GraphAssumption DEF GraphInv, IInv, BuildTypeOK
<1>2. FewClocks(N)
  BY <1>1, AllClocksAreFinite DEF FewClocks, RoomForAll, AllBound
<1>3. Fits(net, vertices[v], N, L)
  BY <1>2 DEF VerticesFit, AllBound
<1>4. D \in Zones(X)
  BY DEF GraphInv, VerticesAreClasses, IsZoneClass
<1>5. L \in Nat
  BY DEF RoomForAll, HasRoom
<1>6. D = [p \in X \X X |-> D[p]] /\ \A p \in X \X X : D[p] \in Int
  <2>1. D \in [X \X X -> Z!Bounds]
    BY <1>4 DEF Zones, Z!Matrices
  <2>2. Z!Bounds \subseteq Int
    BY INFAssumption DEF Z!Bounds, Z!IntMin
  <2> QED
    BY <2>1, <2>2
<1>7. \A p \in X \X X : D[p] \in (-L .. L) \cup {INF}
  <2> TAKE p \in X \X X
  <2>1. PICK i \in X, j \in X : p = <<i, j>>
    OBVIOUS
  <2>2. D[<<i, j>>] = INF \/ (-L <= D[<<i, j>>] /\ D[<<i, j>>] <= L)
    BY <1>3 DEF Fits, Z!Within
  <2>3. D[<<i, j>>] \in Int
    BY <1>6
  <2> HIDE DEF D, L
  <2>4. D[<<i, j>>] \in (-L .. L) \cup {INF}
    BY <1>5, <2>2, <2>3
  <2> QED
    BY <2>1, <2>4
<1>8. D \in [X \X X -> (-L .. L) \cup {INF}]
  BY <1>6, <1>7
<1>9. X \in SUBSET AllClocks(net)
  BY <1>1, AllClocksAreFinite
<1> QED
  BY <1>8, <1>9 DEF ZoneSpace

LEMMA VerticesDiffer ==
  ASSUME GraphInv, NEW v \in DOMAIN vertices, NEW x \in DOMAIN vertices,
         vertices[v].marking = vertices[x].marking,
         vertices[v].zone = vertices[x].zone
  PROVE  v = x
<1>1. BuildTypeOK /\ Unmergeable /\ VerticesAreClasses
  BY DEF GraphInv, IInv
<1>2. v \in Nat /\ x \in Nat
  BY <1>1, VertexNumbers
<1>3. vertices[v] = vertices[x]
  BY <1>1 DEF BuildTypeOK, IsClass
<1>4. CanMergeInto(vertices[v], vertices[v], mode)
  BY <1>1, CoveringIsReflexive
     DEF VerticesAreClasses, CanMergeInto, CheckEquality
<1>5. ~ (x < v) /\ ~ (v < x)
  BY <1>1, <1>3, <1>4 DEF Unmergeable
<1> QED
  BY <1>2, <1>5

(* The markings that respect the capacities, as far as M0 does.            *)
MarkingSpace(n) ==
  {m \in [n.places -> Nat] :
     \A p \in n.places : m[p] <= n.M0[p] \/ m[p] <= n.capacity[p]}

LEMMA MarkingSpaceIsFinite ==
  ASSUME NEW n, IsNet(n)
  PROVE  IsFiniteSet(MarkingSpace(n))
<1> DEFINE Top(p) == n.M0[p] + n.capacity[p]
           Ranges == {0 .. Top(p) : p \in n.places}
           V == UNION Ranges
<1>1. \A p \in n.places : n.M0[p] \in Nat /\ n.capacity[p] \in Nat /\ Top(p) \in Nat
  BY DEF IsNet
<1>2. [p \in n.places |-> 0 .. Top(p)] \in Surjection(n.places, Ranges)
  BY DEF Surjection
<1>3. IsFiniteSet(n.places) /\ IsFiniteSet(Ranges)
  BY <1>2, FS_Surjection DEF IsNet
<1>4. \A R \in Ranges : IsFiniteSet(R)
  BY <1>1, FS_Interval
<1>5. IsFiniteSet([n.places -> V])
  BY <1>3, <1>4, FS_UNION, FiniteFunctions
<1>6. ASSUME NEW m \in MarkingSpace(n) PROVE m \in [n.places -> V]
  <2>1. m \in [n.places -> Nat]
    BY DEF MarkingSpace
  <2>2. \A p \in n.places : m[p] \in 0 .. Top(p)
    <3> TAKE p \in n.places
    <3>1. m[p] \in Nat /\ (m[p] <= n.M0[p] \/ m[p] <= n.capacity[p])
      BY DEF MarkingSpace
    <3> QED
      BY <1>1, <3>1
  <2>3. \A p \in n.places : m[p] \in V
    BY <2>2
  <2> HIDE DEF V
  <2> QED
    BY <2>1, <2>3
<1> QED
  BY <1>5, <1>6, FS_Subset

LEMMA FiringKeepsCapacities ==
  ASSUME NEW n, IsNet(n), \A p \in n.places : n.capacity[p] # INF,
         NEW m \in MarkingSpace(n), NEW t \in StructEnabled(n, m)
  PROVE  FireMarking(m, n, t) \in MarkingSpace(n)
<1> DEFINE next == FireMarking(m, n, t)
<1>1. \A p \in n.places :
        /\ next[p] \in Nat
        /\ next[p] <= n.M0[p] \/ next[p] <= n.capacity[p]
  <2> TAKE p \in n.places
  <2>1. /\ n.Pre[p][t] \in Nat /\ n.Post[t][p] \in Nat /\ n.capacity[p] \in Nat
        /\ n.M0[p] \in Nat /\ m[p] \in Nat /\ n.Pre[p][t] <= m[p]
        /\ n.capacity[p] # INF
        /\ m[p] <= n.M0[p] \/ m[p] <= n.capacity[p]
    BY DEF IsNet, StructEnabled, IsEnabled, MarkingSpace
  <2>2. next[p] = IF /\ n.Post[t][p] > 0
                     /\ n.capacity[p] # INF
                     /\ m[p] - n.Pre[p][t] + n.Post[t][p] > n.capacity[p]
                  THEN n.capacity[p]
                  ELSE m[p] - n.Pre[p][t] + n.Post[t][p]
    BY DEF FireMarking, Overflows, Produced
  <2> HIDE DEF next
  <2> QED
    BY <2>1, <2>2
<1>2. next = [p \in n.places |-> next[p]]
  BY DEF FireMarking
<1> HIDE DEF next
<1>3. next \in [n.places -> Nat]
  BY <1>1, <1>2
<1>4. next \in MarkingSpace(n)
  BY <1>1, <1>3 DEF MarkingSpace
<1> QED
  BY <1>4 DEF next

(* The marking of the next class is the marking the firing leads to.       *)
LEMMA NextMarking ==
  ASSUME NEW n, IsNet(n), NEW x, NEW class, IsZoneClass(n, class),
         NEW t \in LeavingClass(<<n, x>>, class)
  PROVE  /\ t \in StructEnabled(n, class.marking)
         /\ NextClass(<<n, x>>, class, t).marking = FireMarking(class.marking, n, t)
<1> DEFINE elapsed == TimeElapse(n, class)
           next == Successor(n, elapsed, t)
<1>1. IsZoneClass(n, elapsed) /\ elapsed.marking = class.marking
  BY ElapsedClass
<1>2. t \in PriorityEnabled(n, elapsed.marking)
  BY DEF LeavingClass, CanFire, IsFirable
<1>3. IsZoneClass(n, next)
  BY <1>1, <1>2, SuccessorIsClass
<1>4. next.marking = FireMarking(class.marking, n, t)
  BY <1>1 DEF Successor
<1>5. NextClass(<<n, x>>, class, t) = NormalIn(n, x, next)
  BY DEF NextClass
<1>6. NormalIn(n, x, next).marking = next.marking
  <2> HIDE DEF next
  <2> QED
    BY <1>3, NormalisedMarking
<1> QED
  BY <1>1, <1>2, <1>4, <1>5, <1>6, SchedulerSelects

LEMMA MarkingsRespectCapacities ==
  ASSUME GraphInv, \A p \in net.places : net.capacity[p] # INF,
         NEW v \in DOMAIN vertices
  PROVE  vertices[v].marking \in MarkingSpace(net)
<1> DEFINE Beyond == {y \in DOMAIN vertices : vertices[y].marking \notin MarkingSpace(net)}
<1> SUFFICES ASSUME Beyond # {} PROVE FALSE
  OBVIOUS
<1>1. BuildTypeOK /\ VerticesAreClasses /\ VerticesAreReached /\ IsNet(net)
  BY GraphAssumption DEF GraphInv, IInv, BuildTypeOK
<1>2. DOMAIN vertices \subseteq Nat /\ 1 \in DOMAIN vertices
  BY <1>1, VertexNumbers
<1>3. PICK y \in Beyond : \A z \in Beyond : y <= z
  BY <1>2, Z!LeastCount
<1>4. y # 1
  <2>1. vertices[1] = NormalIn(net, extrapolation, InitialClass(net))
    BY <1>1 DEF VerticesAreReached, FirstClass
  <2>2. IsZoneClass(net, InitialClass(net)) /\ InitialClass(net).marking = net.M0
    BY <1>1, InitialIsCanonical DEF IsCanonical
  <2>3. vertices[1].marking = net.M0
    BY <1>1, <2>1, <2>2, NormalisedMarking
  <2>4. net.M0 \in MarkingSpace(net)
    BY <1>1 DEF IsNet, MarkingSpace
  <2> QED
    BY <2>3, <2>4
<1>5. PICK x \in DOMAIN vertices :
        \E t \in LeavingClass(<<net, extrapolation>>, vertices[x]) :
          x < y /\ vertices[y] = NextClass(<<net, extrapolation>>, vertices[x], t)
  BY <1>1, <1>4 DEF VerticesAreReached
<1>6. PICK t \in LeavingClass(<<net, extrapolation>>, vertices[x]) :
        x < y /\ vertices[y] = NextClass(<<net, extrapolation>>, vertices[x], t)
  BY <1>5
<1>7. vertices[x].marking \in MarkingSpace(net)
  BY <1>2, <1>3, <1>6
<1>8. IsZoneClass(net, vertices[x])
  BY <1>1 DEF VerticesAreClasses
<1>9. /\ t \in StructEnabled(net, vertices[x].marking)
      /\ vertices[y].marking = FireMarking(vertices[x].marking, net, t)
  BY <1>1, <1>6, <1>8, NextMarking
<1>10. vertices[y].marking \in MarkingSpace(net)
  BY <1>1, <1>7, <1>9, FiringKeepsCapacities
<1> QED
  BY <1>3, <1>10

(* Each marking has at most as many vertices as there are such zones, and  *)
(* with finitely many markings the whole graph is finite: a limit above    *)
(* its size never truncates it.                                            *)
ZonesAreBounded ==
  \A m : Cardinality({v \in DOMAIN vertices : vertices[v].marking = m})
           <= Cardinality(ZoneSpace(net))

GraphIsBounded ==
  \A Ms : IsFiniteSet(Ms) /\ (\A v \in DOMAIN vertices : vertices[v].marking \in Ms) =>
    LET size == Cardinality(Ms) * Cardinality(ZoneSpace(net))
    IN  /\ Len(vertices) <= size
        /\ size < max_states => ~ truncated

(* If all places have a capacity, that is so for every graph of the net.   *)
GraphOfBoundedNet ==
  (\A p \in net.places : net.capacity[p] # INF) =>
    LET size == Cardinality(MarkingSpace(net)) * Cardinality(ZoneSpace(net))
    IN  /\ Len(vertices) <= size
        /\ size < max_states => ~ truncated

(* DBM::extrapolate "keeps the zone space finite" (ptpn_analysis.h:49) by  *)
(* a number that the net's constants give, whatever build does.            *)
THEOREM ExtrapolationKeepsFinite ==
  Spec => [](extrapolation /\ RoomForAll
            => ZonesAreBounded /\ GraphIsBounded /\ GraphOfBoundedNet)
<1>1. Init => GraphInv /\ VerticesAreCanonical /\ VerticesFit
  BY InitGraphInv, InitCanonical, InitFits
<1>2. /\ GraphInv /\ VerticesAreCanonical /\ VerticesFit /\ [Next]_vars
      => GraphInv' /\ VerticesAreCanonical' /\ VerticesFit'
  <2> SUFFICES ASSUME GraphInv, VerticesAreCanonical, VerticesFit, [Next]_vars
               PROVE  GraphInv' /\ VerticesAreCanonical' /\ VerticesFit'
    OBVIOUS
  <2>1. IInv
    BY DEF GraphInv
  <2>2. VerticesAreCanonical' /\ VerticesFit'
    BY <2>1, NextKeepsCanonical, NextFits
  <2>3. GraphInv'
    BY BuildGraphInv, GraphInvStands DEF Next, Returned
  <2> QED
    BY <2>2, <2>3
<1>3. GraphInv /\ VerticesFit
        => (extrapolation /\ RoomForAll
              => ZonesAreBounded /\ GraphIsBounded /\ GraphOfBoundedNet)
  <2> SUFFICES ASSUME GraphInv, VerticesFit, extrapolation, RoomForAll
               PROVE  ZonesAreBounded /\ GraphIsBounded /\ GraphOfBoundedNet
    OBVIOUS
  <2>1. /\ \A v \in DOMAIN vertices : vertices[v].zone \in ZoneSpace(net)
        /\ \A v, x \in DOMAIN vertices :
             vertices[v].marking = vertices[x].marking
             /\ vertices[v].zone = vertices[x].zone => v = x
    BY VerticesAreInSpace, VerticesDiffer
  <2>2. IsFiniteSet(ZoneSpace(net))
    BY GraphAssumption, ZoneSpaceIsFinite
       DEF GraphInv, IInv, BuildTypeOK, RoomForAll, HasRoom
  <2>3. ZonesAreBounded
    <3> SUFFICES ASSUME NEW m
                 PROVE  Cardinality({v \in DOMAIN vertices : vertices[v].marking = m})
                          <= Cardinality(ZoneSpace(net))
      BY DEF ZonesAreBounded
    <3> DEFINE At == {v \in DOMAIN vertices : vertices[v].marking = m}
               zones == [v \in At |-> vertices[v].zone]
    <3>1. zones \in Injection(At, ZoneSpace(net))
      BY <2>1 DEF Injection, IsInjective
    <3> QED
      BY <2>2, <3>1, FS_Injection
  <2>4. GraphIsBounded
    <3> SUFFICES ASSUME NEW Ms, IsFiniteSet(Ms),
                        \A v \in DOMAIN vertices : vertices[v].marking \in Ms
                 PROVE  LET size == Cardinality(Ms) * Cardinality(ZoneSpace(net))
                        IN  /\ Len(vertices) <= size
                            /\ size < max_states => ~ truncated
      BY DEF GraphIsBounded
    <3> DEFINE size == Cardinality(Ms) * Cardinality(ZoneSpace(net))
               classes == [v \in DOMAIN vertices |->
                             <<vertices[v].marking, vertices[v].zone>>]
    <3>1. classes \in Injection(DOMAIN vertices, Ms \X ZoneSpace(net))
      BY <2>1 DEF Injection, IsInjective
    <3>2. IsFiniteSet(Ms \X ZoneSpace(net)) /\ Cardinality(Ms \X ZoneSpace(net)) = size
      BY <2>2, FS_Product
    <3>3. Cardinality(DOMAIN vertices) <= size
      BY <3>1, <3>2, FS_Injection
    <3>4. /\ DOMAIN vertices = 1 .. Len(vertices) /\ Len(vertices) \in Nat \ {0}
          /\ max_states \in Nat
      BY VertexNumbers, GraphAssumption DEF GraphInv, IInv, BuildTypeOK
    <3>5. Cardinality(DOMAIN vertices) = Len(vertices)
      BY <3>4, FS_Interval
    <3>6. size \in Nat
      BY <3>2, FS_CardinalityType
    <3>7. truncated => max_states <= Len(vertices)
      BY <3>4 DEF GraphInv, IInv, LimitRespected, Full
    <3> HIDE DEF size
    <3>8. Len(vertices) <= size
      BY <3>3, <3>5
    <3>9. size < max_states => ~ truncated
      BY <3>4, <3>6, <3>7, <3>8
    <3> QED
      BY <3>8, <3>9 DEF size
  <2>5. GraphOfBoundedNet
    <3>1. IsFiniteSet(MarkingSpace(net))
      BY GraphAssumption, MarkingSpaceIsFinite DEF GraphInv, IInv, BuildTypeOK
    <3>2. (\A p \in net.places : net.capacity[p] # INF)
            => \A v \in DOMAIN vertices : vertices[v].marking \in MarkingSpace(net)
      BY MarkingsRespectCapacities
    <3> QED
      BY <2>4, <3>1, <3>2 DEF GraphIsBounded, GraphOfBoundedNet
  <2> QED
    BY <2>3, <2>4, <2>5
<1> QED
  BY <1>1, <1>2, <1>3, PTL DEF Spec

-----------------------------------------------------------------------------
(* A run of the net, seen at its firings: a marking and the values of its  *)
(* clocks, first with all clocks at zero; each step lets some time pass    *)
(* within the deadlines and fires a transition.                            *)
StateOf(m, v) == [marking |-> m, point |-> v]

RunStart(n) == StateOf(n.M0, [i \in ClockVars(n, n.M0) |-> 0])

RunStep(n, a, b) ==
  \E d \in Nat : \E t \in n.transitions :
    /\ CanStep(n, a.marking, a.point, d, t)
    /\ b = StateOf(FireMarking(a.marking, n, t), PointAfter(n, a.marking, a.point, d, t))

IsRun(n, k, r) ==
  /\ DOMAIN r = 0 .. k
  /\ r[0] = RunStart(n)
  /\ \A i \in 1 .. k : RunStep(n, r[i - 1], r[i])

IsReached(n, m, v) == \E k \in Nat : \E r : IsRun(n, k, r) /\ r[k] = StateOf(m, v)

LEMMA StartIsReached ==
  ASSUME NEW n
  PROVE  IsReached(n, n.M0, [i \in ClockVars(n, n.M0) |-> 0])
<1> DEFINE r == [i \in 0 .. 0 |-> RunStart(n)]
<1>1. r[0] = RunStart(n) /\ DOMAIN r = 0 .. 0
  OBVIOUS
<1> HIDE DEF r
<1>2. IsRun(n, 0, r)
  BY <1>1 DEF IsRun
<1>3. 0 \in Nat /\ r[0] = StateOf(n.M0, [i \in ClockVars(n, n.M0) |-> 0])
  BY <1>1 DEF RunStart
<1> QED
  BY <1>2, <1>3 DEF IsReached

LEMMA StepIsReached ==
  ASSUME NEW n, NEW m, NEW v, IsReached(n, m, v), NEW d \in Nat, NEW t \in n.transitions,
         CanStep(n, m, v, d, t)
  PROVE  IsReached(n, FireMarking(m, n, t), PointAfter(n, m, v, d, t))
<1>1. PICK k \in Nat : \E r : IsRun(n, k, r) /\ r[k] = StateOf(m, v)
  BY DEF IsReached
<1>2. PICK r : IsRun(n, k, r) /\ r[k] = StateOf(m, v)
  BY <1>1
<1> DEFINE last == StateOf(FireMarking(m, n, t), PointAfter(n, m, v, d, t))
           q == [i \in 0 .. k + 1 |-> IF i = k + 1 THEN last ELSE r[i]]
<1>3. RunStep(n, r[k], last)
  <2>1. r[k].marking = m /\ r[k].point = v
    BY <1>2 DEF StateOf
  <2> QED
    BY <2>1 DEF RunStep
<1> HIDE DEF last
<1>4. /\ DOMAIN q = 0 .. k + 1 /\ q[k + 1] = last
      /\ \A i \in 0 .. k : q[i] = r[i]
  OBVIOUS
<1> HIDE DEF q
<1>5. q[0] = RunStart(n)
  BY <1>2, <1>4 DEF IsRun
<1>6. ASSUME NEW i \in 1 .. k + 1
      PROVE  RunStep(n, q[i - 1], q[i])
  <2>1. CASE i = k + 1
    <3>1. i - 1 = k /\ k \in 0 .. k
      BY <2>1
    <3> QED
      BY <1>3, <1>4, <2>1, <3>1
  <2>2. CASE i \in 1 .. k
    <3>1. i - 1 \in 0 .. k /\ i \in 0 .. k
      BY <2>2
    <3> QED
      BY <1>2, <1>4, <2>2, <3>1 DEF IsRun
  <2> QED
    BY <2>1, <2>2
<1>7. IsRun(n, k + 1, q)
  BY <1>4, <1>5, <1>6 DEF IsRun
<1> QED
  BY <1>4, <1>7, k + 1 \in Nat DEF IsReached, last

(* A class is real when a run reaches each of its points, up to what       *)
(* extrapolation may change.                                               *)
ClassIsReal(n, x, class) ==
  \A w \in Points(ClockVars(n, class.marking)) :
    M!Satisfies(w, class.zone) =>
      \E v \in Points(ClockVars(n, class.marking)) :
        IsReached(n, class.marking, v) /\ Alike(n, x, v, w)

LEMMA FirstIsReal ==
  ASSUME NEW n, IsNet(n), NEW x \in BOOLEAN, NEW N, NEW B, HasRoom(n, N, B),
         Fits(n, FirstClass(<<n, x>>), N, B)
  PROVE  ClassIsReal(n, x, FirstClass(<<n, x>>))
<1> DEFINE class == InitialClass(n)
           X == ClockVars(n, n.M0)
           zeros == [i \in X |-> 0]
<1>1. /\ IsCanonical(n, class) /\ class.marking = n.M0
      /\ \A i \in X : 0 <= class.zone[<<X0, i>>] /\ class.zone[<<i, X0>>] <= 0
      /\ CanBeAdded(X, class.zone)
  BY InitialIsCanonical
<1>2. /\ X0 \in X /\ INF \in Nat \ {0} /\ Cardinality(X) \in Nat
      /\ \A i, j \in X : class.zone[<<i, j>>] \in Int
      /\ DOMAIN class.zone = X \X X
      /\ \A i \in X : class.zone[<<X0, i>>] <= 0
  <2>1. X0 \in X /\ INF \in Nat \ {0} /\ Cardinality(X) \in Nat
    BY KindsOfClocks, INFAssumption, ClocksAreCounted
  <2>2. class.zone \in Zones(X)
    BY <1>1 DEF IsCanonical, IsZoneClass
  <2>3. \A i \in X : class.zone[<<X0, i>>] <= 0
    BY <1>1 DEF IsCanonical, InTime
  <2> HIDE DEF class
  <2>4. (\A i, j \in X : class.zone[<<i, j>>] \in Int) /\ DOMAIN class.zone = X \X X
    BY <2>2, ZoneEntries
  <2> QED
    BY <2>1, <2>3, <2>4
<1>3. FirstClass(<<n, x>>) = (IF x THEN ExtrapolateClass(n, class) ELSE class)
  BY DEF FirstClass, NormalIn
<1> HIDE DEF class
<1>4. FirstClass(<<n, x>>).marking = n.M0
  <2>1. IsZoneClass(n, class)
    BY <1>1 DEF IsCanonical
  <2> QED
    BY <1>1, <1>3, <2>1, ExtrapolatedClass
<1> SUFFICES ASSUME NEW w \in Points(X), M!Satisfies(w, FirstClass(<<n, x>>).zone)
             PROVE  \E v \in Points(X) : IsReached(n, n.M0, v) /\ Alike(n, x, v, w)
  BY <1>4 DEF ClassIsReal
<1>5. Cardinality(X) <= N
  BY <1>4 DEF Fits
<1>6. \A i \in X : -(3 * ((N + 1) * B)) <= class.zone[<<X0, i>>]
  <2> DEFINE U == (N + 1) * B
  <2>1. 3 * U \in Nat
    BY <1>2, <1>5, RoomForSums
  <2> HIDE DEF U
  <2>2. ASSUME NEW i \in X
        PROVE  -(3 * U) <= class.zone[<<X0, i>>]
    <3> DEFINE V == 3 * U
               e == class.zone[<<X0, i>>]
    <3>1. V \in Nat /\ e \in Int /\ 0 <= e
      BY <1>1, <1>2, <2>1
    <3> HIDE DEF V, e
    <3>2. -V <= e
      BY <3>1
    <3> QED
      BY <3>2 DEF V, e
  <2> QED
    BY <2>2 DEF U
<1>7. PICK v \in Points(X) : M!Satisfies(v, class.zone) /\ Alike(n, x, v, w)
  BY <1>1, <1>3, <1>5, <1>6, WidenedPoint
<1>8. ASSUME NEW i \in X
      PROVE  v[i] = 0
  <2> DEFINE a == class.zone[<<i, X0>>]
             b == class.zone[<<X0, i>>]
  <2>1. a \in Int /\ b \in Int /\ a <= 0 /\ b <= 0
    BY <1>1, <1>2
  <2>2. a = INF \/ v[i] - v[X0] <= a
    BY <1>2, <1>7 DEF M!Satisfies
  <2>3. b = INF \/ v[X0] - v[i] <= b
    BY <1>2, <1>7 DEF M!Satisfies
  <2>4. v[i] \in Int /\ v[X0] = 0
    BY DEF Points
  <2> HIDE DEF a, b
  <2> QED
    BY <1>2, <2>1, <2>2, <2>3, <2>4
<1>9. v = zeros
  BY <1>8 DEF Points
<1> QED
  BY <1>7, <1>9, StartIsReached

LEMMA NextIsReal ==
  ASSUME NEW n, IsNet(n), NEW x \in BOOLEAN, NEW class, IsCanonical(n, class),
         ClassIsReal(n, x, class), StoppedAtOneValue(n, class),
         NEW N, NEW B, HasRoom(n, N, B), Fits(n, class, N, B),
         NEW t \in LeavingClass(<<n, x>>, class),
         Fits(n, NextClass(<<n, x>>, class, t), N, B)
  PROVE  ClassIsReal(n, x, NextClass(<<n, x>>, class, t))
<1> DEFINE m == class.marking
           next == NextClass(<<n, x>>, class, t)
           succ == Successor(n, TimeElapse(n, class), t)
           X == ClockVars(n, m)
           Y == ClockVars(n, FireMarking(m, n, t))
<1>1. next.marking = FireMarking(m, n, t)
  BY NextMarking DEF IsCanonical
<1>2. Cardinality(Y) <= N
  BY <1>1 DEF Fits
<1>3. t \in n.transitions /\ CanFire(n, TimeElapse(n, class), t)
  BY DEF LeavingClass
<1>4. next = (IF x THEN ExtrapolateClass(n, succ) ELSE succ)
  BY DEF NextClass, NormalIn
<1> HIDE DEF next
<1> SUFFICES ASSUME NEW w \in Points(Y), M!Satisfies(w, next.zone)
             PROVE  \E v \in Points(Y) : IsReached(n, FireMarking(m, n, t), v) /\ Alike(n, x, v, w)
  BY <1>1 DEF ClassIsReal, next
<1>5. PICK d \in Nat : \E v \in Points(X) :
        /\ M!Satisfies(v, class.zone)
        /\ CanStep(n, m, v, d, t)
        /\ Alike(n, x, PointAfter(n, m, v, d, t), w)
  BY <1>2, <1>3, <1>4, StepInventsNothing
<1>6. PICK v \in Points(X) :
        /\ M!Satisfies(v, class.zone)
        /\ CanStep(n, m, v, d, t)
        /\ Alike(n, x, PointAfter(n, m, v, d, t), w)
  BY <1>5
<1>7. PICK p \in Points(X) : IsReached(n, m, p) /\ Alike(n, x, p, v)
  BY <1>6 DEF ClassIsReal
<1>8. /\ CanStep(n, m, p, d, t)
      /\ Alike(n, x, PointAfter(n, m, p, d, t), PointAfter(n, m, v, d, t))
  BY <1>3, <1>6, <1>7, AlikeSteps
<1>9. t \in Nat
  BY <1>3 DEF IsNet
<1>10. PointAfter(n, m, p, d, t) \in Points(Y) /\ PointAfter(n, m, v, d, t) \in Points(Y)
  BY <1>9, PointsMoveOn
<1>11. Alike(n, x, PointAfter(n, m, p, d, t), w)
  BY <1>6, <1>8, <1>10, AlikeIsTransitive
<1>12. IsReached(n, FireMarking(m, n, t), PointAfter(n, m, p, d, t))
  BY <1>3, <1>7, <1>8, StepIsReached
<1> QED
  BY <1>10, <1>11, <1>12

(* A firing window is real when it is not empty and a run fires the        *)
(* transition at every value of it, to the marking m.                      *)
WindowIsReal(n, x, class, e, m) ==
  /\ e.firing_max = INF \/ e.firing_min <= e.firing_max
  /\ \A y \in Int :
       e.firing_min <= y /\ (e.firing_max = INF \/ y <= e.firing_max) =>
         \E d \in Nat : \E v \in Points(ClockVars(n, class.marking)) :
           LET value == Delayed(n, class.marking, v, d)[Execution(e.t)]
           IN  /\ IsReached(n, class.marking, v)
               /\ CanStep(n, class.marking, v, d, e.t)
               /\ \/ value = y
                  \/ x /\ PastEndpoints(n, Execution(e.t), value, y)
               /\ FireMarking(class.marking, n, e.t) = m

(* The window on an edge is the range of the clock in the elapsed zone,    *)
(* from the earliest firing time on.                                       *)
LEMMA WindowIsRange ==
  ASSUME NEW n, IsNet(n), NEW x, NEW class, IsCanonical(n, class),
         NEW N, NEW B, HasRoom(n, N, B), Fits(n, class, N, B),
         NEW e, e.t \in LeavingClass(<<n, x>>, class), HasWindow(n, class, e)
  PROVE  LET D == TimeElapse(n, class).zone
             ht == Execution(e.t)
         IN  /\ e.t \in PriorityEnabled(n, class.marking) /\ e.t \in n.transitions
             /\ D[<<X0, ht>>] \in Int
             /\ e.firing_min \in Int /\ e.firing_max \in Int
             /\ e.firing_max = D[<<ht, X0>>]
             /\ e.firing_max = INF \/ e.firing_min <= e.firing_max
             /\ Earliest(n, e.t) <= e.firing_min /\ -D[<<X0, ht>>] <= e.firing_min
<1> DEFINE m == class.marking
           X == ClockVars(n, m)
           E == TimeElapse(n, class)
           D == E.zone
           ht == Execution(e.t)
           waited == D[<<X0, ht>>]
           most == D[<<ht, X0>>]
           lower == Earliest(n, e.t)
           upper == Latest(n, e.t)
<1>1. IsCanonical(n, E) /\ E.marking = m
  BY ElapsedIsCanonical
<1>2. /\ e.t \in PriorityEnabled(n, m) /\ e.t \in StructEnabled(n, m)
      /\ e.t \in n.transitions /\ most >= lower
  BY <1>1, SchedulerSelects DEF LeavingClass, CanFire, IsFirable
<1>3. X0 \in X /\ ht \in X /\ INF \in Nat \ {0}
  BY <1>2, KindsOfClocks, INFAssumption
<1>4. D \in Zones(X) /\ ClosedForm(X, D) /\ InTime(n, m, D)
  BY <1>1 DEF IsCanonical, IsZoneClass
<1>5. /\ e.firing_min = IF lower < -waited THEN -waited ELSE lower
      /\ e.firing_max = IF most < upper THEN most ELSE upper
  BY DEF HasWindow, M!Smaller
<1>6. most <= upper
  BY <1>2, <1>4 DEF InTime
<1>7. lower \in Nat /\ upper \in Nat /\ (upper = INF \/ lower <= upper)
  BY <1>2, IntervalBounds
<1> HIDE DEF D, E, X, lower, upper
<1>8. waited \in Int /\ most \in Int /\ most <= INF
  BY <1>3, <1>4, ZoneEntries
<1>9. most = INF \/ -waited <= most
  <2>1. CASE waited = INF
    BY <1>3, <1>4, <1>8, <2>1 DEF InTime, X
  <2>2. CASE waited # INF /\ most # INF
    <3>1. D[<<ht, ht>>] <= most + waited
      BY <1>3, <1>4, <2>2 DEF ClosedForm, Z!ClosedOver
    <3>2. D[<<ht, ht>>] = 0
      BY <1>3, <1>4 DEF ClosedForm, Z!ZeroDiagonal
    <3> HIDE DEF waited, most
    <3> QED
      BY <1>8, <3>1, <3>2
  <2> QED
    BY <2>1, <2>2
<1> HIDE DEF waited, most
<1>10. e.firing_max = most
  BY <1>5, <1>6, <1>7, <1>8
<1>11. /\ e.firing_min \in Int /\ lower <= e.firing_min /\ -waited <= e.firing_min
  BY <1>5, <1>7, <1>8
<1>12. most = INF \/ e.firing_min <= most
  BY <1>2, <1>5, <1>7, <1>8, <1>9
<1> QED
  BY <1>2, <1>8, <1>10, <1>11, <1>12 DEF lower, waited, most, D, E

LEMMA WindowsAreReal ==
  ASSUME NEW n, IsNet(n), NEW x \in BOOLEAN, NEW class, IsCanonical(n, class),
         ClassIsReal(n, x, class), StoppedAtOneValue(n, class),
         NEW N, NEW B, HasRoom(n, N, B), Fits(n, class, N, B),
         NEW e, NEW k, NEW target, Leads(n, x, k, class, e, target)
  PROVE  WindowIsReal(n, x, class, e, target.marking)
<1> DEFINE m == class.marking
           X == ClockVars(n, m)
           ht == Execution(e.t)
           next == NextClass(<<n, x>>, class, e.t)
<1>1. e.t \in LeavingClass(<<n, x>>, class) /\ HasWindow(n, class, e)
  BY DEF Leads
<1> DEFINE D == TimeElapse(n, class).zone
<1>2. /\ e.t \in PriorityEnabled(n, m) /\ e.t \in n.transitions
      /\ D[<<X0, ht>>] \in Int
      /\ e.firing_min \in Int /\ e.firing_max \in Int
      /\ e.firing_max = D[<<ht, X0>>]
      /\ e.firing_max = INF \/ e.firing_min <= e.firing_max
      /\ Earliest(n, e.t) <= e.firing_min /\ -D[<<X0, ht>>] <= e.firing_min
  BY <1>1, WindowIsRange
<1>3. FireMarking(m, n, e.t) = target.marking
  <2>1. next.marking = FireMarking(m, n, e.t)
    BY <1>1, NextMarking DEF IsCanonical
  <2>2. next.marking = target.marking
    BY DEF Leads, CanMergeInto, CheckEquality, CheckInclusion
  <2> QED
    BY <2>1, <2>2
<1>4. Earliest(n, e.t) \in Nat /\ ht \in X /\ INF \in Nat
  BY <1>2, IntervalBounds, KindsOfClocks, SchedulerSelects, INFAssumption
<1>5. ASSUME NEW y \in Int, e.firing_min <= y, e.firing_max = INF \/ y <= e.firing_max
      PROVE  \E d \in Nat : \E v \in Points(X) :
               LET value == Delayed(n, m, v, d)[ht]
               IN  /\ IsReached(n, m, v)
                   /\ CanStep(n, m, v, d, e.t)
                   /\ \/ value = y
                      \/ x /\ PastEndpoints(n, ht, value, y)
                   /\ FireMarking(m, n, e.t) = target.marking
  <2>1. /\ Earliest(n, e.t) <= y /\ -D[<<X0, ht>>] <= y
        /\ D[<<ht, X0>>] = INF \/ y <= D[<<ht, X0>>]
    <3> DEFINE waited == D[<<X0, ht>>]
               lower == Earliest(n, e.t)
    <3>1. waited \in Int /\ lower \in Nat /\ lower <= e.firing_min /\ -waited <= e.firing_min
      BY <1>2, <1>4
    <3> HIDE DEF waited, lower
    <3>2. lower <= y /\ -waited <= y
      BY <1>2, <1>5, <3>1
    <3> QED
      BY <1>2, <1>5, <3>2 DEF waited, lower
  <2>2. PICK d \in Nat : \E v \in Points(X) :
          /\ M!Satisfies(v, class.zone)
          /\ CanStep(n, m, v, d, e.t)
          /\ Delayed(n, m, v, d)[ht] = y
    BY <1>2, <2>1, FiringTimesAreTaken
  <2>3. PICK v \in Points(X) :
          /\ M!Satisfies(v, class.zone)
          /\ CanStep(n, m, v, d, e.t)
          /\ Delayed(n, m, v, d)[ht] = y
    BY <2>2
  <2>4. PICK p \in Points(X) : IsReached(n, m, p) /\ Alike(n, x, p, v)
    BY <2>3 DEF ClassIsReal
  <2>5. CanStep(n, m, p, d, e.t)
    BY <1>2, <2>3, <2>4, AlikeSteps
  <2>6. Alike(n, x, Delayed(n, m, p, d), Delayed(n, m, v, d))
    BY <2>4, AlikeDelays
  <2>7. \/ Delayed(n, m, p, d)[ht] = y
        \/ x /\ PastEndpoints(n, ht, Delayed(n, m, p, d)[ht], y)
    <3>1. ht \in DOMAIN Delayed(n, m, v, d)
      BY <1>4 DEF Delayed
    <3> QED
      BY <2>3, <2>6, <3>1 DEF Alike
  <2> QED
    BY <1>3, <2>4, <2>5, <2>7
<1> QED
  BY <1>2, <1>5 DEF WindowIsReal

(* A clock that the scheduler stops has one value in each vertex.          *)
StoppedClocksAreKnown == \A v \in DOMAIN vertices : StoppedAtOneValue(net, vertices[v])

(* Every vertex holds only points of runs, its marking is that of a run,   *)
(* and every edge holds only firings of runs.                              *)
VerticesAreReal == \A v \in DOMAIN vertices : ClassIsReal(net, extrapolation, vertices[v])

MarkingsAreReal ==
  \A v \in DOMAIN vertices :
    \E point \in Points(ClockVars(net, vertices[v].marking)) :
      IsReached(net, vertices[v].marking, point)

EdgesAreReal ==
  \A e \in edges :
    WindowIsReal(net, extrapolation, vertices[e.src], e, vertices[e.dst].marking)

(* What is needed of build for that, whatever its program counter says.    *)
IsBuilt ==
  /\ net \in Nets /\ extrapolation \in BOOLEAN
  /\ DOMAIN vertices \in SUBSET Nat /\ 1 \in DOMAIN vertices
  /\ \A e \in edges : e.src \in DOMAIN vertices /\ e.dst \in DOMAIN vertices
  /\ VerticesAreReached /\ EdgesLead /\ VerticesAreCanonical

(* By the order of discovery: an unreal vertex would have an earlier one.  *)
LEMMA RealVertices ==
  ASSUME IsBuilt, StoppedClocksAreKnown, NEW N, NEW B, HasRoom(net, N, B),
         \A v \in DOMAIN vertices : Fits(net, vertices[v], N, B)
  PROVE  VerticesAreReal
<1> DEFINE system == <<net, extrapolation>>
           Unreal == {v \in DOMAIN vertices :
                        ~ ClassIsReal(net, extrapolation, vertices[v])}
<1> SUFFICES ASSUME Unreal # {} PROVE FALSE
  BY DEF VerticesAreReal
<1>1. /\ VerticesAreReached /\ IsNet(net) /\ extrapolation \in BOOLEAN
      /\ \A v \in DOMAIN vertices : IsCanonical(net, vertices[v])
      /\ DOMAIN vertices \in SUBSET Nat /\ 1 \in DOMAIN vertices
  BY GraphAssumption DEF IsBuilt, VerticesAreCanonical, Roomy
<1>2. PICK y \in Unreal : \A z \in Unreal : y <= z
  BY <1>1, Z!LeastCount
<1>3. y # 1
  <2>1. vertices[1] = FirstClass(system)
    BY <1>1 DEF VerticesAreReached
  <2> QED
    BY <1>1, <1>2, <2>1, FirstIsReal
<1>4. PICK x \in DOMAIN vertices : \E t \in LeavingClass(system, vertices[x]) :
        x < y /\ vertices[y] = NextClass(system, vertices[x], t)
  BY <1>1, <1>2, <1>3 DEF VerticesAreReached
<1>5. PICK t \in LeavingClass(system, vertices[x]) :
        x < y /\ vertices[y] = NextClass(system, vertices[x], t)
  BY <1>4
<1>6. ClassIsReal(net, extrapolation, vertices[x])
  BY <1>1, <1>2, <1>5
<1>7. ClassIsReal(net, extrapolation, vertices[y])
  <2>1. StoppedAtOneValue(net, vertices[x]) /\ IsCanonical(net, vertices[x])
    BY <1>1 DEF StoppedClocksAreKnown
  <2>2. Fits(net, vertices[x], N, B) /\ Fits(net, NextClass(system, vertices[x], t), N, B)
    BY <1>2, <1>5
  <2> QED
    BY <1>1, <1>5, <1>6, <2>1, <2>2, NextIsReal
<1> QED
  BY <1>2, <1>7

LEMMA BuiltIsReal ==
  ASSUME IsBuilt, Roomy, StoppedClocksAreKnown
  PROVE  VerticesAreReal /\ MarkingsAreReal /\ EdgesAreReal
<1>1. PICK N, B : /\ HasRoom(net, N, B)
                  /\ \A v \in DOMAIN vertices : Fits(net, vertices[v], N, B)
  BY DEF Roomy
<1>2. VerticesAreReal
  BY <1>1, RealVertices
<1>3. /\ IsNet(net) /\ EdgesLead /\ extrapolation \in BOOLEAN
      /\ \A v \in DOMAIN vertices : IsCanonical(net, vertices[v])
  BY <1>1, GraphAssumption DEF IsBuilt, VerticesAreCanonical, Roomy
<1>4. ASSUME NEW v \in DOMAIN vertices
      PROVE  \E point \in Points(ClockVars(net, vertices[v].marking)) :
               IsReached(net, vertices[v].marking, point)
  <2>1. PICK c \in Points(ClockVars(net, vertices[v].marking)) :
          M!Satisfies(c, vertices[v].zone)
    BY <1>1, <1>3, CanonicalPoint
  <2>2. ClassIsReal(net, extrapolation, vertices[v])
    BY <1>2 DEF VerticesAreReal
  <2> QED
    BY <2>1, <2>2 DEF ClassIsReal
<1>5. ASSUME NEW e \in edges
      PROVE  WindowIsReal(net, extrapolation, vertices[e.src], e, vertices[e.dst].marking)
  <2>1. /\ e.src \in DOMAIN vertices
        /\ Leads(net, extrapolation, mode, vertices[e.src], e, vertices[e.dst])
    BY <1>3 DEF IsBuilt, EdgesLead
  <2>2. /\ ClassIsReal(net, extrapolation, vertices[e.src])
        /\ StoppedAtOneValue(net, vertices[e.src])
        /\ IsCanonical(net, vertices[e.src]) /\ Fits(net, vertices[e.src], N, B)
    BY <1>1, <1>2, <1>3, <2>1 DEF VerticesAreReal, StoppedClocksAreKnown
  <2> QED
    BY <1>1, <1>3, <2>1, <2>2, WindowsAreReal
<1> QED
  BY <1>2, <1>4, <1>5 DEF MarkingsAreReal, EdgesAreReal

(* The invariants of build imply it.                                       *)
LEMMA BuildIsBuilt ==
  ASSUME GraphInv, VerticesAreCanonical, extrapolation \in BOOLEAN
  PROVE  IsBuilt
<1>1. BuildTypeOK /\ VerticesAreReached /\ EdgesLead
  BY DEF GraphInv, IInv
<1>2. DOMAIN vertices \subseteq Nat /\ 1 \in DOMAIN vertices
  BY <1>1, VertexNumbers
<1> QED
  BY <1>1, <1>2 DEF IsBuilt, BuildTypeOK

(* "EQUALITY keeps the graph exact": where stopped clocks have one value,  *)
(* there is nothing in the graph that no run does, in every mode.          *)
(* Extrapolation may only take a clock with no latest firing time past the *)
(* largest endpoint for another such value.                                *)
THEOREM GraphInventsNothing ==
  Spec => [](Roomy /\ StoppedClocksAreKnown
             => VerticesAreReal /\ MarkingsAreReal /\ EdgesAreReal)
<1> DEFINE SwitchOK == extrapolation \in BOOLEAN
<1>1. Init => GraphInv /\ VerticesAreCanonical /\ SwitchOK
  BY InitGraphInv, InitCanonical DEF Init
<1>2. /\ GraphInv /\ VerticesAreCanonical /\ SwitchOK /\ [Next]_vars
      => GraphInv' /\ VerticesAreCanonical' /\ SwitchOK'
  <2> SUFFICES ASSUME GraphInv, VerticesAreCanonical, SwitchOK, [Next]_vars
               PROVE  GraphInv' /\ VerticesAreCanonical' /\ SwitchOK'
    OBVIOUS
  <2>1. VerticesAreCanonical'
    BY NextKeepsCanonical DEF GraphInv
  <2>2. GraphInv'
    BY BuildGraphInv, GraphInvStands DEF Next, Returned
  <2>3. SwitchOK'
    BY DEF Next, Build, Returned, vars, input
  <2> QED
    BY <2>1, <2>2, <2>3
<1>3. GraphInv /\ VerticesAreCanonical /\ SwitchOK
        => (Roomy /\ StoppedClocksAreKnown
              => VerticesAreReal /\ MarkingsAreReal /\ EdgesAreReal)
  BY BuildIsBuilt, BuiltIsReal
<1> HIDE DEF SwitchOK
<1> QED
  BY <1>1, <1>2, <1>3, PTL DEF Spec
=============================================================================
