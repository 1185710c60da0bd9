---------------------------- MODULE MCNodeRemoval ----------------------------
(***************************************************************************)
(* NodeRemoval for TLC, from initial states that represent the others: the *)
(* first of two members that may be exchanged owns slots if the other one  *)
(* does, and the node id is given unless the pod is gone (the step looks   *)
(* at it only then).                                                       *)
(***************************************************************************)
EXTENDS NodeRemoval

CONSTANTS First, Second

MCInit ==
    /\ Init
    /\ Second \in owners => First \in owners
    /\ byId \/ pod[Target] = "gone"

MCSpec == MCInit /\ [][Next]_vars /\ Fairness
=============================================================================
