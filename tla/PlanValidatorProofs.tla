------------------------ MODULE PlanValidatorProofs ------------------------
(***************************************************************************)
(* Proofs about the validator VM, for any finite set of pods and ghosts    *)
(* and any set of slots.                                                   *)
(*                                                                         *)
(* The inductive invariant adds to the checked properties the two facts    *)
(* about readiness that verifyCluster relies on without checking: a ready  *)
(* node has a pod, and a node forgotten and met again is ready.            *)
(***************************************************************************)
EXTENDS PlanValidator, FiniteSetTheorems, TLAPS

ReadyHasPod == ready \subseteq exists

RejoinedIsReady == clusterMember \cap forgotten \subseteq ready

NodesInv ==
    /\ OwnerIndexExact
    /\ OwnersAreMemberMasters
    /\ ReadyHasPod
    /\ RejoinedIsReady

AcceptedPassesVerify ==
    phase = "accepted" => VerifyAccepts(expected.shards, expected.replicas)

IInv == TypeOK /\ NodesInv /\ AcceptedPassesVerify

-----------------------------------------------------------------------------
\* The simulator newPlanSimulator builds from any observation satisfies the
\* inductive invariant.
LEMMA InitIInv == Init => IInv
<1> SUFFICES ASSUME Init PROVE IInv
  OBVIOUS
<1> USE KeysAssumption
<1>1. PICK masterOf \in [clusterMember -> clusterMember \cup {NoKey}] :
        /\ ObservedRoles(clusterMember, masterOf)
        /\ ObservedSlots({k \in clusterMember : masterOf[k] = k})
  BY DEF Init, Observation
<1>2. PICK marked : slotOwners = ReadableOwner(observedOwner, marked)
  BY <1>1 DEF ObservedSlots
<1>3. clusterMember \subseteq Keys /\ exists \subseteq Keys
  BY DEF Init, Observation, Keys
<1>4. /\ observedOwner \in [Slots -> {k \in clusterMember : masterOf[k] = k} \cup {NoKey}]
      /\ slots = [k \in Keys |-> {s \in Slots : slotOwners[s] = k}]
  BY <1>1 DEF ObservedSlots
<1>5. slotOwners \in [Slots -> {k \in clusterMember : masterOf[k] = k} \cup {NoKey}]
  BY <1>2, <1>4 DEF ReadableOwner
<1>6. TypeOK
  <2>1. role \in [Keys -> {"", "master", "replica"}]
    BY <1>1 DEF ObservedRoles
  <2>2. replicaOf \in [Keys -> Keys \cup {NoKey}]
    BY <1>1, <1>3 DEF ObservedRoles
  <2>3. /\ slots \in [Keys -> SUBSET Slots]
        /\ slotOwners \in [Slots -> Keys \cup {NoKey}]
        /\ observedOwner \in [Slots -> Keys \cup {NoKey}]
    BY <1>3, <1>4, <1>5
  <2>4. expected \in [shards : Nat, replicas : Nat]
    BY DEF Init, Observation
  <2>5. QED
    BY <1>3, <2>1, <2>2, <2>3, <2>4 DEF Init, Observation, TypeOK
<1>7. OwnerIndexExact
  BY <1>4 DEF OwnerIndexExact
<1>8. OwnersAreMemberMasters
  <2> SUFFICES ASSUME NEW k \in Keys, slots[k] # {}
               PROVE  k \in clusterMember /\ role[k] = "master"
    BY DEF OwnersAreMemberMasters, OwnsSlots
  <2>1. PICK s \in Slots : slotOwners[s] = k
    BY <1>4
  <2>2. k \in clusterMember /\ masterOf[k] = k
    BY <1>5, <2>1
  <2>3. QED
    BY <1>1, <2>2 DEF ObservedRoles
<1>9. QED
  BY <1>6, <1>7, <1>8
  DEF Init, Observation, IInv, NodesInv, ReadyHasPod, RejoinedIsReady, AcceptedPassesVerify

-----------------------------------------------------------------------------
(***************************************************************************)
(* One lemma per step of a plan: it preserves the type and NodesInv.       *)
(***************************************************************************)
StepKeeps == (TypeOK /\ NodesInv /\ UNCHANGED planVars) => (TypeOK /\ NodesInv)'

\* The steps on pods alone (ensureNode, waitNodeReady, deleteNode) keep the
\* invariant: deleteNode drops readiness together with the pod.
LEMMA PodStepsKeep ==
  ASSUME NEW p \in Pods, EnsureNode(p) \/ WaitNodeReady(p) \/ DeleteNode(p)
  PROVE  StepKeeps
<1> SUFFICES ASSUME TypeOK, NodesInv, UNCHANGED planVars PROVE (TypeOK /\ NodesInv)'
  BY DEF StepKeeps
<1> USE DEF podVars, memberVars, roleVars, slotVars, planVars, Keys
<1>1. TypeOK'
  BY DEF TypeOK, EnsureNode, WaitNodeReady, DeleteNode
<1>2. UNCHANGED <<clusterMember, forgotten, role, slots, slotOwners>>
  BY DEF EnsureNode, WaitNodeReady, DeleteNode
<1>3. OwnerIndexExact' /\ OwnersAreMemberMasters'
  BY <1>2 DEF NodesInv, OwnerIndexExact, OwnersAreMemberMasters, OwnsSlots
<1>4. ReadyHasPod'
  BY DEF NodesInv, ReadyHasPod, EnsureNode, WaitNodeReady, DeleteNode
<1>5. RejoinedIsReady'
  BY <1>2 DEF NodesInv, RejoinedIsReady, EnsureNode, WaitNodeReady, DeleteNode
<1>6. QED
  BY <1>1, <1>3, <1>4, <1>5 DEF NodesInv

\* meetNode keeps the invariant: it admits only ready nodes, so a forgotten
\* node that rejoins is ready.
LEMMA MeetNodeKeeps ==
  ASSUME NEW p \in Pods, NEW q \in Pods, MeetNode(p, q)
  PROVE  StepKeeps
<1> SUFFICES ASSUME TypeOK, NodesInv, UNCHANGED planVars PROVE (TypeOK /\ NodesInv)'
  BY DEF StepKeeps
<1> USE DEF podVars, memberVars, roleVars, slotVars, planVars, Keys, MeetNode
<1>1. TypeOK'
  BY DEF TypeOK
<1>2. OwnerIndexExact'
  BY DEF NodesInv, OwnerIndexExact
<1>3. OwnersAreMemberMasters'
  BY DEF NodesInv, OwnersAreMemberMasters, OwnsSlots
<1>4. ReadyHasPod' /\ RejoinedIsReady'
  BY DEF NodesInv, ReadyHasPod, RejoinedIsReady
<1>5. QED
  BY <1>1, <1>2, <1>3, <1>4 DEF NodesInv

\* replicateNode keeps the invariant: it demotes only a node without slots.
LEMMA ReplicateNodeKeeps ==
  ASSUME NEW p \in Pods, NEW q \in Pods, ReplicateNode(p, q)
  PROVE  StepKeeps
<1> SUFFICES ASSUME TypeOK, NodesInv, UNCHANGED planVars PROVE (TypeOK /\ NodesInv)'
  BY DEF StepKeeps
<1> USE DEF podVars, memberVars, roleVars, slotVars, planVars, Keys, ReplicateNode
<1>1. TypeOK'
  BY DEF TypeOK
<1>2. OwnerIndexExact'
  BY DEF NodesInv, OwnerIndexExact
<1>3. OwnersAreMemberMasters'
  BY DEF NodesInv, OwnersAreMemberMasters, OwnsSlots, TypeOK
<1>4. ReadyHasPod' /\ RejoinedIsReady'
  BY DEF NodesInv, ReadyHasPod, RejoinedIsReady
<1>5. QED
  BY <1>1, <1>2, <1>3, <1>4 DEF NodesInv

\* addSlots keeps the invariant: it gives only unowned slots, and updates the
\* index and the slot set together.
LEMMA AddSlotsKeeps ==
  ASSUME NEW p \in Pods, NEW added \in SUBSET Slots, AddSlots(p, added)
  PROVE  StepKeeps
<1> SUFFICES ASSUME TypeOK, NodesInv, UNCHANGED planVars PROVE (TypeOK /\ NodesInv)'
  BY DEF StepKeeps
<1> USE DEF podVars, memberVars, roleVars, slotVars, planVars, Keys, AddSlots, Assign
<1>1. TypeOK'
  BY DEF TypeOK
<1>2. OwnerIndexExact'
  <2> SUFFICES ASSUME NEW k \in Keys, NEW s \in Slots
               PROVE  s \in slots'[k] <=> slotOwners'[s] = k
    BY DEF OwnerIndexExact
  <2>1. NoKey \notin Keys
    BY KeysAssumption DEF Keys
  <2>2. slots'[k] = IF k = p THEN slots[p] \cup added ELSE slots[k]
    BY DEF TypeOK
  <2>3. slotOwners'[s] = IF s \in added THEN p ELSE slotOwners[s]
    BY DEF TypeOK
  <2>4. s \in slots[k] <=> slotOwners[s] = k
    BY DEF NodesInv, OwnerIndexExact
  <2>5. QED
    BY <2>1, <2>2, <2>3, <2>4
<1>3. OwnersAreMemberMasters'
  BY DEF NodesInv, OwnersAreMemberMasters, OwnsSlots, TypeOK, ReadyMaster, ReadyMembers
<1>4. ReadyHasPod' /\ RejoinedIsReady'
  BY DEF NodesInv, ReadyHasPod, RejoinedIsReady
<1>5. QED
  BY <1>1, <1>2, <1>3, <1>4 DEF NodesInv

\* migrateSlots keeps the invariant: only slots the source owns change hands.
LEMMA MigrateSlotsKeeps ==
  ASSUME NEW p \in Pods, NEW q \in Pods, NEW listed \in SUBSET Slots,
         MigrateSlots(p, q, listed)
  PROVE  StepKeeps
<1> SUFFICES ASSUME TypeOK, NodesInv, UNCHANGED planVars PROVE (TypeOK /\ NodesInv)'
  BY DEF StepKeeps
<1> USE DEF podVars, memberVars, roleVars, slotVars, planVars, Keys, MigrateSlots, Transfer
<1> DEFINE moved == {s \in listed : slotOwners[s] = p}
<1>1. TypeOK'
  BY DEF TypeOK
<1>2. ASSUME NEW k \in Keys
      PROVE  /\ k = p => slots'[k] = slots[k] \ moved
             /\ k = q => slots'[k] = slots[k] \cup moved
             /\ k \notin {p, q} => slots'[k] = slots[k]
  BY DEF TypeOK
<1>3. ASSUME NEW s \in Slots
      PROVE  slotOwners'[s] = IF s \in moved THEN q ELSE slotOwners[s]
  OBVIOUS
<1>4. OwnerIndexExact'
  <2> SUFFICES ASSUME NEW k \in Keys, NEW s \in Slots
               PROVE  s \in slots'[k] <=> slotOwners'[s] = k
    BY DEF OwnerIndexExact
  <2>1. s \in slots[k] <=> slotOwners[s] = k
    BY DEF NodesInv, OwnerIndexExact
  <2>2. p # q
    OBVIOUS
  <2>3. s \in moved => slotOwners[s] = p
    OBVIOUS
  <2> HIDE DEF moved, MigrateSlots, Transfer
  <2>4. CASE k = p
    BY <1>2, <1>3, <2>1, <2>2, <2>3, <2>4
  <2>5. CASE k = q
    BY <1>2, <1>3, <2>1, <2>2, <2>3, <2>5
  <2>6. CASE k \notin {p, q}
    BY <1>2, <1>3, <2>1, <2>2, <2>3, <2>6
  <2>7. QED
    BY <2>4, <2>5, <2>6
<1>5. OwnersAreMemberMasters'
  <2> SUFFICES ASSUME NEW k \in Keys, slots'[k] # {}
               PROVE  k \in clusterMember /\ role[k] = "master"
    BY DEF OwnersAreMemberMasters, OwnsSlots
  <2>1. CASE k \in {p, q}
    BY <2>1 DEF ReadyMaster, ReadyMembers
  <2>2. CASE k \notin {p, q}
    BY <1>2, <2>2 DEF NodesInv, OwnersAreMemberMasters, OwnsSlots
  <2>3. QED
    BY <2>1, <2>2
<1>6. ReadyHasPod' /\ RejoinedIsReady'
  BY DEF NodesInv, ReadyHasPod, RejoinedIsReady
<1>7. QED
  BY <1>1, <1>4, <1>5, <1>6 DEF NodesInv

\* forgetNode keeps the invariant: a node that owns slots is never forgotten.
LEMMA ForgetNodeKeeps ==
  ASSUME NEW k \in Keys, NEW pod, ForgetNode(k, pod)
  PROVE  StepKeeps
<1> SUFFICES ASSUME TypeOK, NodesInv, UNCHANGED planVars PROVE (TypeOK /\ NodesInv)'
  BY DEF StepKeeps
<1> USE DEF podVars, memberVars, roleVars, slotVars, planVars, Keys, ForgetNode, Forget
<1>1. TypeOK'
  BY DEF TypeOK
<1>2. OwnerIndexExact'
  BY DEF NodesInv, OwnerIndexExact
<1>3. OwnersAreMemberMasters'
  BY DEF NodesInv, OwnersAreMemberMasters, OwnsSlots
<1>4. ReadyHasPod' /\ RejoinedIsReady'
  BY DEF NodesInv, ReadyHasPod, RejoinedIsReady
<1>5. QED
  BY <1>1, <1>2, <1>3, <1>4 DEF NodesInv

\* Every step other than VerifyCluster keeps the invariant.
LEMMA TopologyStepKeeps == TopologyStep => StepKeeps
BY PodStepsKeep, MeetNodeKeeps, ReplicateNodeKeeps, AddSlotsKeeps, MigrateSlotsKeeps,
   ForgetNodeKeeps DEF TopologyStep

-----------------------------------------------------------------------------
\* What checkInvariants tests follows from the invariant.
LEMMA NodesInvImpliesInvariantsHold ==
  ASSUME TypeOK, NodesInv PROVE InvariantsHold
BY DEF TypeOK, NodesInv, OwnerIndexExact, OwnersAreMemberMasters, InvariantsHold

\* A simulated step keeps the inductive invariant, whether or not
\* checkInvariants is called after it.
LEMMA SimulateKeeps == IInv /\ Simulate => IInv'
<1> SUFFICES ASSUME IInv, Simulate PROVE IInv'
  OBVIOUS
<1>1. (TypeOK /\ NodesInv)'
  BY TopologyStepKeeps DEF IInv, Simulate, StepKeeps
<1>2. phase' # "accepted"
  BY DEF Simulate, planVars
<1>3. QED
  BY <1>1, <1>2 DEF IInv, AcceptedPassesVerify

\* The final VerifyCluster keeps the inductive invariant.
LEMMA VerifyKeeps == IInv /\ Verify => IInv'
<1> SUFFICES ASSUME IInv, NEW shards \in 0..Cardinality(Keys),
                    NEW replicas \in 0..Cardinality(Keys),
                    VerifyCluster(shards, replicas)
             PROVE  IInv'
  BY DEF Verify
<1> USE DEF podVars, memberVars, roleVars, slotVars, VerifyCluster
<1>1. UNCHANGED <<podVars, ready, memberVars, roleVars, slotVars, forgetPods,
                  observedOwner>>
  OBVIOUS
<1>2. expected'.shards = shards /\ expected'.replicas = replicas
  OBVIOUS
<1>3. TypeOK'
  <2>1. Cardinality(Keys) \in Nat
    BY KeysAssumption, FS_CardinalityType
  <2>2. shards \in Nat /\ replicas \in Nat
    BY <2>1
  <2>3. QED
    BY <2>2 DEF IInv, TypeOK
<1>4. NodesInv'
  BY <1>1 DEF IInv, NodesInv, OwnerIndexExact, OwnersAreMemberMasters, OwnsSlots,
              ReadyHasPod, RejoinedIsReady
<1>5. VerifyAccepts(shards, replicas)'
  BY <1>1 DEF VerifyAccepts, PodsAsExpected, MastersAsExpected, LiveMasters, ReadyMaster,
              ReadyMembers, ReplicasOf, OwnsSlots, InvariantsHold
<1>6. QED
  BY <1>2, <1>3, <1>4, <1>5 DEF IInv, AcceptedPassesVerify

\* A stuttering step keeps the inductive invariant.
LEMMA StutterKeeps == IInv /\ UNCHANGED vars => IInv'
<1> SUFFICES ASSUME IInv, UNCHANGED vars PROVE IInv'
  OBVIOUS
<1> USE DEF vars, podVars, memberVars, roleVars, slotVars, planVars
<1>1. TypeOK'
  BY DEF IInv, TypeOK
<1>2. NodesInv'
  BY DEF IInv, NodesInv, OwnerIndexExact, OwnersAreMemberMasters, OwnsSlots,
         ReadyHasPod, RejoinedIsReady
<1>3. AcceptedPassesVerify'
  BY DEF IInv, AcceptedPassesVerify, VerifyAccepts, PodsAsExpected, MastersAsExpected,
         LiveMasters, ReadyMaster, ReadyMembers, ReplicasOf, OwnsSlots, InvariantsHold
<1>4. QED
  BY <1>1, <1>2, <1>3 DEF IInv

\* The inductive invariant holds of the validator that never calls
\* checkInvariants.
THEOREM UncheckedInductive == UncheckedSpec => []IInv
<1>1. IInv /\ [Simulate \/ Verify]_vars => IInv'
  BY SimulateKeeps, VerifyKeeps, StutterKeeps
<1>2. QED
  BY InitIInv, <1>1, PTL DEF UncheckedSpec

\* checkInvariants rejects nothing: it holds after every step the per-action
\* guards let through, even in the validator that never calls it.
THEOREM CheckInvariantsIsRedundant == UncheckedSpec => []InvariantsHold
<1>1. IInv => InvariantsHold
  BY NodesInvImpliesInvariantsHold DEF IInv
<1>2. QED
  BY <1>1, UncheckedInductive, PTL

\* The specification's behaviours are behaviours without the check.
THEOREM Inductive == Spec => []IInv
<1>1. [Next]_vars => [Simulate \/ Verify]_vars
  BY DEF Next
<1>2. QED
  BY <1>1, UncheckedInductive, PTL DEF Spec, UncheckedSpec

\* Every simulated node, slot and owner stays in its type.
THEOREM TypeCorrect == Spec => []TypeOK
<1>1. IInv => TypeOK
  BY DEF IInv
<1>2. QED
  BY <1>1, Inductive, PTL

\* The owner index and the per-node slot sets never disagree.
THEOREM IndexIsExact == Spec => []OwnerIndexExact
<1>1. IInv => OwnerIndexExact
  BY DEF IInv, NodesInv
<1>2. QED
  BY <1>1, Inductive, PTL

\* No accepted step forgets, deletes or demotes a known slot owner.
THEOREM OwnersStayMasters == Spec => []OwnersAreMemberMasters
<1>1. IInv => OwnersAreMemberMasters
  BY DEF IInv, NodesInv
<1>2. QED
  BY <1>1, Inductive, PTL

-----------------------------------------------------------------------------
\* What verifyCluster tests, together with the invariant, implies that the
\* cluster is whole: a slot owner is a member master, and a member that is not
\* forgotten, or was met again, is ready and has a pod.
LEMMA VerifiedIsWhole ==
  ASSUME TypeOK, NodesInv, NEW shards, NEW replicas, VerifyAccepts(shards, replicas)
  PROVE  /\ \A s \in Slots : \E k \in LiveMasters :
              slotOwners[s] = k /\ Cardinality(ReplicasOf(k)) = replicas
         /\ Cardinality({k \in Keys : OwnsSlots(k)}) = shards
         /\ exists \subseteq onSpecImage
<1>1. ASSUME NEW k \in Keys, OwnsSlots(k)
      PROVE  k \in LiveMasters
  <2>1. k \in clusterMember /\ role[k] = "master"
    BY <1>1 DEF NodesInv, OwnersAreMemberMasters
  <2>2. k \in exists \cap ready
    BY <2>1 DEF VerifyAccepts, NodesInv, ReadyHasPod, RejoinedIsReady
  <2>3. QED
    BY <2>1, <2>2 DEF LiveMasters, ReadyMaster, ReadyMembers
<1>2. ASSUME NEW k \in LiveMasters
      PROVE  k \in Keys /\ OwnsSlots(k) /\ Cardinality(ReplicasOf(k)) = replicas
  BY <1>2 DEF LiveMasters, VerifyAccepts, MastersAsExpected, TypeOK
<1>3. {k \in Keys : OwnsSlots(k)} = LiveMasters
  BY <1>1, <1>2
<1>4. ASSUME NEW s \in Slots
      PROVE  \E k \in LiveMasters :
               slotOwners[s] = k /\ Cardinality(ReplicasOf(k)) = replicas
  <2>1. slotOwners[s] \in Keys
    BY DEF VerifyAccepts, TypeOK
  <2>2. s \in slots[slotOwners[s]]
    BY <2>1 DEF NodesInv, OwnerIndexExact
  <2>3. slotOwners[s] \in LiveMasters
    BY <1>1, <2>1, <2>2 DEF OwnsSlots
  <2>4. QED
    BY <1>2, <2>3
<1>5. Cardinality(LiveMasters) = shards /\ exists \subseteq onSpecImage
  BY DEF VerifyAccepts, MastersAsExpected, PodsAsExpected
<1>6. QED
  BY <1>3, <1>4, <1>5

\* An accepted plan ends in a cluster where every slot is owned by an existing,
\* ready master with exactly the replicas the plan names.
THEOREM AcceptanceIsSound == Spec => []AcceptedClusterIsWhole
<1>1. IInv => AcceptedClusterIsWhole
  BY VerifiedIsWhole DEF IInv, AcceptedPassesVerify, AcceptedClusterIsWhole
<1>2. QED
  BY <1>1, Inductive, PTL

-----------------------------------------------------------------------------
\* A step that changes the owner of a slot gives it to a pod with a ready
\* replica, which still is one after the step.
LEMMA StepMovesToReplicated ==
  TypeOK /\ TopologyStep =>
    \A s \in Slots : slotOwners'[s] # slotOwners[s] =>
      \E k \in Pods : slotOwners'[s] = k /\ ReplicasOf(k) # {}
<1> SUFFICES ASSUME TypeOK, TopologyStep, NEW s \in Slots,
                    slotOwners'[s] # slotOwners[s]
             PROVE  \E k \in Pods : slotOwners'[s] = k /\ ReplicasOf(k) # {}
  OBVIOUS
<1>1. CASE \E p \in Pods, added \in SUBSET Slots : AddSlots(p, added)
  BY <1>1 DEF AddSlots, Assign
<1>2. CASE \E p, q \in Pods, listed \in SUBSET Slots : MigrateSlots(p, q, listed)
  BY <1>2 DEF MigrateSlots, Transfer
<1>3. CASE UNCHANGED slotOwners
  BY <1>3
<1>4. QED
  BY <1>1, <1>2, <1>3 DEF TopologyStep, EnsureNode, WaitNodeReady, DeleteNode, MeetNode,
                          ReplicateNode, ForgetNode, Forget, slotVars

\* A slot changes hands only to a master that has a ready replica.
THEOREM SlotsMoveSafely == Spec => SlotsMoveToReplicatedMasters
<1>1. TypeOK /\ [Next]_vars =>
        [\A s \in Slots : slotOwners'[s] # slotOwners[s] =>
            \E k \in Pods : slotOwners'[s] = k /\ ReplicasOf(k) # {}]_vars
  BY StepMovesToReplicated DEF Next, Simulate, Verify, VerifyCluster, slotVars
<1>2. QED
  BY <1>1, TypeCorrect, PTL DEF Spec, SlotsMoveToReplicatedMasters
=============================================================================
