----------------------------- MODULE StateClass -----------------------------
(***************************************************************************)
(* State classes and the symbolic step of                                  *)
(* src/src/analysis/ptpn_analysis.cpp.  A class is a marking and a zone    *)
(* over the clock variables of that marking.  The code numbers the         *)
(* variables (build_layout); here a variable is its own index, so two      *)
(* classes have the same layout iff their zones have the same domain.      *)
(***************************************************************************)
EXTENDS Scheduling

X0 == <<"Zero", -1>>
Execution(t) == <<"Execution", t>>
Suspension(t) == <<"Suspension", t>>

M == INSTANCE DBM WITH Zero <- X0

-----------------------------------------------------------------------------
(* X = {x0} U {h_t : t in struct_enabled} U {w_t : t in suspended}         *)
ExecClocks(net, m) == {Execution(t) : t \in StructEnabled(net, m)}
SuspClocks(net, m) == {Suspension(t) : t \in Suspended(net, m)}
ClockVars(net, m) == {X0} \cup ExecClocks(net, m) \cup SuspClocks(net, m)

(* Clocks pinned to x0.                                                    *)
Pin(D, fresh) ==
  [p \in DOMAIN D |->
     IF p[1] # p[2] /\ \/ p[1] = X0 /\ p[2] \in fresh
                       \/ p[2] = X0 /\ p[1] \in fresh THEN 0 ELSE D[p]]

InitialClass(net) ==
  LET X == ClockVars(net, net.M0)
  IN  [marking |-> net.M0, zone |-> M!Minimize(X, Pin(M!NewDBM(X), X))]

RunningActive(net, m) ==          \* variant: suspension clocks stand still
  {Execution(t) : t \in PriorityEnabled(net, m)}

NoDeadline(net, m, i) == INF      \* variant: weak time semantics

(* Running clocks lose their upper bounds against stationary variables,    *)
(* then active execution clocks are capped at their latest firing time.    *)
Running(net, m) ==
  {Execution(t) : t \in PriorityEnabled(net, m)} \cup SuspClocks(net, m)

Deadline(net, m, i) ==
  IF i \in {Execution(t) : t \in PriorityEnabled(net, m)}
  THEN Latest(net, i[2]) ELSE INF

TimeElapse(net, class) ==
  LET X == ClockVars(net, class.marking)
      run == Running(net, class.marking)
      released == [p \in X \X X |->
                     IF p[1] \in run /\ p[2] \notin run THEN INF
                     ELSE class.zone[p]]
      capped == [p \in X \X X |->
                   IF p[2] = X0
                   THEN M!Smaller(released[p], Deadline(net, class.marking, p[1]))
                   ELSE released[p]]
  IN  [class EXCEPT !.zone = M!Minimize(X, capped)]

(* is_firable, on a time-elapsed class.                                    *)
IsFirable(net, elapsed, t) ==
  /\ t \in PriorityEnabled(net, elapsed.marking)
  /\ elapsed.zone[Execution(t), X0] >= Earliest(net, t)

(* Variant: the earliest firing time is forgotten.                         *)
WholeZone(net, elapsed, t) == [nonempty |-> TRUE, zone |-> elapsed.zone]

(* The part of a time-elapsed zone in which t may fire.                    *)
FiringDomain(net, elapsed, t) ==
  M!Tighten(ClockVars(net, elapsed.marking), elapsed.zone,
            X0, Execution(t), -Earliest(net, t))

(* Variant: the zone is not closed after the fresh clocks are pinned.      *)
UnclosedSuccessorZone(net, fired, source, m, t) ==
  LET X == ClockVars(net, m)
      surviving == {i \in X \cap ClockVars(net, source) : i[2] # t}
  IN  Pin([p \in X \X X |->
             IF p[1] \in surviving /\ p[2] \in surviving
             THEN fired[p] ELSE M!NewDBM(X)[p]], X \ surviving)

(* build_successor_zone: surviving clocks keep their joint constraints,    *)
(* every other variable of the successor is fresh and starts at zero.      *)
SuccessorZone(net, fired, source, m, t) ==
  LET X == ClockVars(net, m)
      surviving == {i \in X \cap ClockVars(net, source) : i[2] # t}
      carried == [p \in X \X X |->
                    IF p[1] \in surviving /\ p[2] \in surviving
                    THEN fired[p] ELSE M!NewDBM(X)[p]]
  IN  M!Minimize(X, Pin(carried, X \ surviving))

Successor(net, elapsed, t) ==
  LET m == FireMarking(elapsed.marking, net, t)
  IN  [marking |-> m,
       zone |-> SuccessorZone(net, FiringDomain(net, elapsed, t).zone,
                              elapsed.marking, m, t)]

(* fire returns false when the transition is not firable or the firing     *)
(* domain is empty.                                                        *)
CanFire(net, elapsed, t) ==
  IsFirable(net, elapsed, t) /\ FiringDomain(net, elapsed, t).nonempty

-----------------------------------------------------------------------------
(* Variant: earliest times are not among the constants.                    *)
LatestEndpoints(net) ==
  {0} \cup ({Latest(net, t) : t \in net.transitions} \ {INF})

(* set_extrapolation: the largest finite endpoint of any interval.         *)
FiniteEndpoints(net) ==
  {0} \cup {Earliest(net, t) : t \in net.transitions}
      \cup ({Latest(net, t) : t \in net.transitions} \ {INF})

ExtrapolationBound(net) ==
  CHOOSE k \in FiniteEndpoints(net) : \A e \in FiniteEndpoints(net) : e <= k

ExtrapolateClass(net, class) ==
  [class EXCEPT !.zone = M!Extrapolate(ClockVars(net, class.marking), @,
                                       ExtrapolationBound(net))]

(* Variant of inclusion: of markings only.                                 *)
CheckMarking(a, b) == a.marking = b.marking

(* canonicalization.cpp: equality of classes, or inclusion of zones over   *)
(* the same marking (both merging modes test inclusion only).              *)
CheckEquality(a, b) == a = b

CheckInclusion(a, b) ==
  /\ a.marking = b.marking
  /\ M!IncludedIn(a.zone, b.zone)

CanMergeInto(candidate, existing, mode) ==
  IF mode = "EQUALITY" THEN CheckEquality(candidate, existing)
                       ELSE CheckInclusion(candidate, existing)
=============================================================================
