-------------------------- MODULE MCPlanValidator --------------------------
EXTENDS PlanValidator, TLC

PodSymmetry == Permutations(Pods)

\* A converged cluster before a scaling plan: every pod that exists is a
\* healthy member on the spec's image, every slot is owned, and every master
\* owns a slot and has one replica.
ConvergedStart ==
    /\ known = exists
    /\ exists = clusterMember
    /\ exists = ready
    /\ exists = onSpecImage
    /\ \A k \in exists :
         /\ role[k] = "master" => OwnsSlots(k) /\ Cardinality(ReplicasOf(k)) = 1
         /\ role[k] = "replica" => replicaOf[k] \in exists
    /\ \A s \in Slots : slotOwners[s] # NoKey

ScalingInit == Init /\ ConvergedStart

ScalingSpec == ScalingInit /\ [][Next]_vars
=============================================================================
