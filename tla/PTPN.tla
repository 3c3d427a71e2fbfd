-------------------------------- MODULE PTPN --------------------------------
(***************************************************************************)
(* The priority timed Petri net of src/src/petri/petri.h as a value: a     *)
(* record with the matrices, intervals and attributes of class PTPN, and   *)
(* the two marking operations every analysis is built from.                *)
(*                                                                         *)
(* A net is passed as an argument, as the code passes `const PTPN& net`.   *)
(* Transitions are natural numbers because their order decides ties in     *)
(* the scheduler; places may be any values.                                *)
(***************************************************************************)
EXTENDS Integers, FiniteSets

CONSTANT INF    \* INT_MAX: "no bound" for a time, "no capacity" for a place

ASSUME INFAssumption == INF \in Nat \ {0}

-----------------------------------------------------------------------------
(* TimeInterval: endpoints are non-negative integers, latest may be INF.   *)

EffectiveEarliest(I) == IF I.left_open THEN I.earliest + 1 ELSE I.earliest

EffectiveLatest(I) ==
  IF I.latest = INF \/ ~ I.right_open THEN I.latest ELSE I.latest - 1

(* What the constructor of TimeInterval and is_valid accept.  The sum of   *)
(* effective_earliest stays within the machine integer: past INF it has    *)
(* no defined value.                                                       *)
IsInterval(I) ==
  /\ I.earliest \in Nat
  /\ I.latest \in 0 .. INF
  /\ I.left_open \in BOOLEAN
  /\ I.right_open \in BOOLEAN
  /\ I.earliest <= I.latest
  /\ EffectiveLatest(I) = INF \/ EffectiveEarliest(I) <= EffectiveLatest(I)
  /\ EffectiveEarliest(I) <= INF

-----------------------------------------------------------------------------
(* A well-formed net: what PTPNParser::validate accepts, or what the       *)
(* lowering builds through add_place, add_transition and set_*_arc.        *)
IsNet(net) ==
  /\ IsFiniteSet(net.places)
  /\ IsFiniteSet(net.transitions)
  /\ net.transitions \subseteq Nat
  /\ net.capacity \in [net.places -> Nat]
  /\ net.saturate \in [net.places -> BOOLEAN]
  /\ net.Pre \in [net.places -> [net.transitions -> Nat]]
  /\ net.Post \in [net.transitions -> [net.places -> Nat]]
  /\ \A t \in net.transitions : IsInterval(net.interval[t])
  /\ net.priority \in [net.transitions -> Int]
  /\ net.core \in [net.transitions -> Int]
  /\ net.suspendable \in [net.transitions -> BOOLEAN]
  /\ DOMAIN net.core_parallelism \subseteq Nat
  /\ net.core_parallelism \in [DOMAIN net.core_parallelism -> Int]
  /\ net.M0 \in [net.places -> Nat]

Earliest(net, t) == EffectiveEarliest(net.interval[t])
Latest(net, t) == EffectiveLatest(net.interval[t])

(* Variant: an enabling test that stops at the first satisfied input.      *)
IsEnabledByAny(M, net, t) ==
  \E p \in net.places : net.Pre[p][t] > 0 /\ M[p] >= net.Pre[p][t]

(* Enabling looks at the input places only: a full output place never      *)
(* disables its producer.                                                  *)
IsEnabled(M, net, t) == \A p \in net.places : M[p] >= net.Pre[p][t]

(* The marking PTPN::fire returns: the inputs are consumed, the outputs    *)
(* produced, and each produced-into place is clamped to its capacity.      *)
Produced(M, net, t, p) == M[p] - net.Pre[p][t] + net.Post[t][p]

Overflows(M, net, t, p) ==
  /\ net.Post[t][p] > 0
  /\ net.capacity[p] # INF
  /\ Produced(M, net, t, p) > net.capacity[p]

FireMarking(M, net, t) ==
  [p \in net.places |->
     IF Overflows(M, net, t, p) THEN net.capacity[p]
                                ELSE Produced(M, net, t, p)]

(* The places record_overflow is called for while t fires.                 *)
RecordedOverflow(M, net, t) ==
  {p \in net.places : ~ net.saturate[p] /\ Overflows(M, net, t, p)}
=============================================================================
