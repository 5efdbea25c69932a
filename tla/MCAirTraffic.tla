---------------------------- MODULE MCAirTraffic ----------------------------
(* Small instances of AirTraffic for TLC. *)
EXTENDS AirTraffic, TLC

CONSTANTS b1, b2, nudge, timed, halt

\* A move whose STOP falls inside its own train, a timed move with a STOP
\* window of its own, and an explicit STOP.
MCPlans ==
  nudge :> [action |-> 2, offset |-> 1, stop |-> 2] @@
  timed :> [action |-> 1, offset |-> 6, stop |-> 1] @@
  halt  :> [action |-> 1, offset |-> 0, stop |-> 0]

MCPlanOf == [c \in Command |-> MCPlans[c]]

AllUp == {Bridge}
AnyUp == SUBSET Bridge
AnyBoot == [Bridge -> {NoBoot, 1}]
OneBoot == {boots \in AnyBoot : Cardinality({b \in Bridge : boots[b] = 1}) = 1}

BridgeSymmetry == Permutations(Bridge)
=============================================================================
