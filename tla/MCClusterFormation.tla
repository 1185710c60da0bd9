-------------------------- MODULE MCClusterFormation --------------------------
(***************************************************************************)
(* ClusterFormation for TLC: the Go planner's plan for one shard with two  *)
(* replicas, and one that adds the slots before a replica is there.        *)
(***************************************************************************)
EXTENDS ClusterFormation

CONSTANTS a, r1, r2

Meet(n) == [action |-> "MeetNode", source |-> a, target |-> n]

Replicate(n) == [action |-> "ReplicateNode", master |-> a, replica |-> n]

Add == [action |-> "AddSlots", node |-> a, slots |-> Slots]

Verify == [action |-> "VerifyCluster"]

MCPlans ==
    {<<Meet(r1), Meet(r2), Replicate(r1), Replicate(r2), Add, Verify>>,
     <<Meet(r1), Add, Replicate(r1), Verify>>}

MCNodes == {a, r1, r2}

MCOrdinal == [n \in MCNodes |-> IF n = a THEN 0 ELSE IF n = r1 THEN 1 ELSE 2]
=============================================================================
