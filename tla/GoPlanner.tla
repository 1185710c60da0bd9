----------------------------- MODULE GoPlanner -----------------------------
(***************************************************************************)
(* The deterministic planner (src/internal/planner/go_planner.go).  From   *)
(* one observation and the spec it builds a plan, which is kept only if    *)
(* the validator accepts it.  The initial states are the observations      *)
(* and specs, BuildPlan is the call of buildGoPlan, and the plan's steps   *)
(* are then run through PlanValidator.                                     *)
(*                                                                         *)
(* A pod is its ordinal: p stands for redis-<p>.  A plan that the planner  *)
(* does not build (nil) is the empty sequence.                             *)
(***************************************************************************)
EXTENDS PlanValidator, SlotAllocation, SequencesExt

CONSTANTS
    MaxShards,      \* bound: the most shards a spec asks for
    MaxReplicas     \* bound: the most replicas per shard a spec asks for

\* An open slot keeps every builder that moves slots from building (slotOwners
\* fails on it), and the others' plans from acceptance (a slot has no owner).
ASSUME PlannerAssumption ==
    /\ \E top \in 0..Cardinality(Pods) : Pods = 0..top
    /\ \E top \in 0..Cardinality(Slots) : Slots = 0..top
    /\ MaxShards \in 1..Cardinality(Slots)
    /\ MaxReplicas \in Nat \ {0}
    /\ OpenSlots = FALSE

VARIABLES
    spec,       \* spec.shards and spec.replicasPerShard
    nextPodOrdinal, \* of the status, raised above every observed pod's
    plan,       \* the steps of the plan buildGoPlan returned
    cursor      \* the step of the plan to simulate next; 0 before there is a plan

requestVars == <<spec, nextPodOrdinal>>
plannerVars == <<vars, requestVars, plan, cursor>>

-----------------------------------------------------------------------------
Ensure(p) == [action |-> "EnsureNode", pod |-> p]
Wait(p) == [action |-> "WaitNodeReady", pod |-> p]
Meet(source, target) == [action |-> "MeetNode", source |-> source, target |-> target]
Replicate(master, replica) ==
    [action |-> "ReplicateNode", master |-> master, replica |-> replica]
Add(p, added) == [action |-> "AddSlots", pod |-> p, slots |-> added]
Migrate(source, target, moved) ==
    [action |-> "MigrateSlots", source |-> source, target |-> target, slots |-> moved]
ForgetKey(k) == [action |-> "ForgetNode", key |-> k,
                 pod |-> IF k \in Pods THEN k ELSE NoKey]
Delete(p) == [action |-> "DeleteNode", pod |-> p]
VerifySpec == [action |-> "VerifyCluster"]

Each(Step(_), list) == [i \in DOMAIN list |-> Step(list[i])]

Joined(count, parts) ==
    LET joined[i \in 0..count] == IF i = 0 THEN <<>> ELSE joined[i - 1] \o parts[i]
    IN joined[count]

\* The steps that Steps gives for each member of list, one member after the other.
Chain(Steps(_), list) == Joined(Len(list), Each(Steps, list))

Ordinals(first, count) == [i \in 1..count |-> first + i - 1]

\* The members by ordinal: the order of the observed nodes.
InOrder(set) ==
    CHOOSE list \in [1..Cardinality(set) -> set] :
        \A i, j \in DOMAIN list : i < j => list[i] < list[j]

-----------------------------------------------------------------------------
(***************************************************************************)
(* topologyFromObserved: the healthy masters that own slots and their      *)
(* healthy replicas.                                                       *)
(***************************************************************************)
MasterSet == {k \in exists : ReadyMaster(k) /\ OwnsSlots(k)}

Masters == InOrder(MasterSet)

ReplicaList(m) == InOrder(ReplicasOf(m))

ReplicaCount(m) == Cardinality(ReplicasOf(m))

UniformReplicaCount == \A m, k \in MasterSet : ReplicaCount(m) = ReplicaCount(k)

\* shardScaleReady with the count the three callers compare it to.
ScaleReady == MasterSet # {} /\ \A m \in MasterSet : ReplicaCount(m) = spec.replicas

\* slotOwners returns an owner for each slot.
SlotsCovered == \A s \in Slots : slotOwners[s] \in MasterSet

TopologyImageDrift ==
    ~(MasterSet \cup UNION {ReplicasOf(m) : m \in MasterSet} \subseteq onSpecImage)

\* lost: the pods that exist, are unhealthy, and have a sign of it that
\* ObservedNodeForgettableGhost looks at (being deleted, a fail, handshake or
\* noaddr flag, a broken link), not only a pod that is not ready.
GhostNodes(lost) ==
    {k \in clusterMember : ~OwnsSlots(k) /\ (k \notin exists \/ k \in lost)}

HasAmbiguousNoSlotNode(lost) ==
    \E k \in clusterMember \ GhostNodes(lost) : ~OwnsSlots(k) /\ k \notin ready

-----------------------------------------------------------------------------
GroupSize == 1 + spec.replicas

\* The new master of the i-th group of pods, of which the first is first.
GroupMaster(first, i) == first + (i - 1) * GroupSize

Provision(pods) == Each(Ensure, pods) \o Each(Wait, pods)

MeetAll(seed, pods) == Each(LAMBDA p : Meet(seed, p), pods)

\* Every replica of count groups follows the master of its group.
ReplicateGroups(first, count) ==
    Chain(LAMBDA i : Each(LAMBDA r : Replicate(GroupMaster(first, i), r),
                          Ordinals(GroupMaster(first, i) + 1, spec.replicas)),
          Ordinals(1, count))

\* replicaProvisionSteps: the i-th new pod becomes a replica of masters[i].
ProvisionReplicas(masters) ==
    LET pods == Ordinals(nextPodOrdinal, Len(masters)) IN
    Provision(pods)
        \o [i \in DOMAIN masters |-> Meet(masters[i], pods[i])]
        \o [i \in DOMAIN masters |-> Replicate(masters[i], pods[i])]

\* Each master as often as it lacks a replica.
Missing ==
    LET Lacked(m) == {i \in 1..spec.replicas : i > ReplicaCount(m)} IN
    Chain(LAMBDA m : Each(LAMBDA i : m, Ordinals(1, Cardinality(Lacked(m)))), Masters)

RetirePod(p) == <<ForgetKey(p), Delete(p)>>

RetireShard(m) == Chain(RetirePod, <<m>> \o ReplicaList(m))

\* migrationSteps: one step per target and source, in slot order.
Migrations(targets) ==
    LET Count == Cardinality(Slots)
        Taken(i, s) == {x \in BalancedSlotRange(i - 1, Len(targets), Count) :
                          slotOwners[x] = slotOwners[s]}
        Move(i, s) == IF slotOwners[s] # targets[i] /\ \A x \in Taken(i, s) : s <= x
                      THEN <<Migrate(slotOwners[s], targets[i], Taken(i, s))>>
                      ELSE <<>>
    IN Chain(LAMBDA i : Chain(LAMBDA s : Move(i, s),
                              Ordinals(RangeStart(i - 1, Len(targets), Count),
                                       RangeSize(i - 1, Len(targets), Count))),
             Ordinals(1, Len(targets)))

\* A builder's steps become a plan unless there are none.
Verified(steps) == IF steps = <<>> THEN <<>> ELSE Append(steps, VerifySpec)

-----------------------------------------------------------------------------
\* The pods redis-0, redis-1, ... whatever was observed.
CreatePlan ==
    LET pods == Ordinals(0, spec.shards * GroupSize) IN
    Verified(Provision(pods)
        \o MeetAll(0, Tail(pods))
        \o ReplicateGroups(0, spec.shards)
        \o Each(LAMBDA i : Add(GroupMaster(0, i),
                               SlotRange(i - 1, spec.shards, Cardinality(Slots))),
                Ordinals(1, spec.shards)))

RepairPlan(lost) ==
    LET ghosts == InOrder(GhostNodes(lost) \cap Pods) \o SetToSeq(GhostNodes(lost) \cap Ghosts)
        ForgetGhost(k) == IF k \in Pods \ exists THEN RetirePod(k) ELSE <<ForgetKey(k)>>
    IN IF /\ Cardinality(MasterSet) = spec.shards
          /\ ~HasAmbiguousNoSlotNode(lost)
          /\ ghosts # <<>> \/ ~UniformReplicaCount
       THEN Verified(Chain(ForgetGhost, ghosts) \o ProvisionReplicas(Missing))
       ELSE <<>>

ReplaceShardFromFirst(i) ==
    LET first == GroupMaster(nextPodOrdinal, i)
        pods == Ordinals(first, GroupSize)
        old == Masters[i]
    IN Provision(pods)
        \o MeetAll(Masters[1], pods)
        \o ReplicateGroups(first, 1)
        \o <<Migrate(old, first, slots[old])>>
        \o Chain(RetirePod, ReplicaList(old))
        \o RetirePod(old)

ReplaceShardKeepingOld(i) ==
    LET first == GroupMaster(nextPodOrdinal, i)
        pods == Ordinals(first, GroupSize)
        seed == IF i = 1 THEN Masters[1] ELSE nextPodOrdinal
        old == Masters[i]
    IN Provision(pods)
        \o MeetAll(seed, pods)
        \o ReplicateGroups(first, 1)
        \o <<Migrate(old, first, slots[old])>>

\* The i-th master's group is replaced before the next one's.  New pods meet
\* the first master, and once it is replaced the one that took its slots.
ReplaceShard(i) ==
    LET first == GroupMaster(nextPodOrdinal, i)
        pods == Ordinals(first, GroupSize)
        seed == IF i = 1 THEN Masters[1] ELSE nextPodOrdinal
        old == Masters[i]
    IN Provision(pods)
        \o MeetAll(seed, pods)
        \o ReplicateGroups(first, 1)
        \o <<Migrate(old, first, slots[old])>>
        \o Chain(RetirePod, ReplicaList(old))
        \o RetirePod(old)

ImageDriftPlan ==
    IF /\ Cardinality(MasterSet) = spec.shards
       /\ ScaleReady
       /\ SlotsCovered
       /\ TopologyImageDrift
    THEN Verified(Chain(ReplaceShard, Ordinals(1, Len(Masters))))
    ELSE <<>>

SurplusOneTooMany(m) ==
    LET replicas == ReplicaList(m)
        count == ReplicaCount(m) - spec.replicas + 1
    IN Reverse(SubSeq(replicas, Len(replicas) - count + 1, Len(replicas)))

\* The replicas with the highest ordinals go.
Surplus(m) ==
    LET replicas == ReplicaList(m)
        count == ReplicaCount(m) - spec.replicas
    IN Reverse(SubSeq(replicas, Len(replicas) - count + 1, Len(replicas)))

ReplicaScaleInPlan ==
    IF /\ Cardinality(MasterSet) = spec.shards
       /\ \A m \in MasterSet : ReplicaCount(m) >= spec.replicas
    THEN Verified(Chain(LAMBDA m : Chain(RetirePod, Surplus(m)), Masters))
    ELSE <<>>

ShardScaleOutPlanAlways ==
    LET count == spec.shards - Cardinality(MasterSet)
        pods == Ordinals(nextPodOrdinal, count * GroupSize)
        newMasters == Each(LAMBDA i : GroupMaster(nextPodOrdinal, i), Ordinals(1, count))
        newReplicas == Chain(LAMBDA m : Ordinals(m + 1, spec.replicas), newMasters)
    IN IF ScaleReady /\ spec.shards >= Cardinality(MasterSet) /\ SlotsCovered
       THEN Verified(Provision(pods)
                \o MeetAll(Masters[1], newMasters)
                \o MeetAll(Masters[1], newReplicas)
                \o ReplicateGroups(nextPodOrdinal, count)
                \o Migrations(Masters \o newMasters))
       ELSE <<>>

ShardScaleOutPlan ==
    LET count == spec.shards - Cardinality(MasterSet)
        pods == Ordinals(nextPodOrdinal, count * GroupSize)
        newMasters == Each(LAMBDA i : GroupMaster(nextPodOrdinal, i), Ordinals(1, count))
        newReplicas == Chain(LAMBDA m : Ordinals(m + 1, spec.replicas), newMasters)
    IN IF ScaleReady /\ spec.shards > Cardinality(MasterSet) /\ SlotsCovered
       THEN Verified(Provision(pods)
                \o MeetAll(Masters[1], newMasters)
                \o MeetAll(Masters[1], newReplicas)
                \o ReplicateGroups(nextPodOrdinal, count)
                \o Migrations(Masters \o newMasters))
       ELSE <<>>

\* Every old shard goes, also those that could have stayed.
ShardScaleInPlan ==
    LET pods == Ordinals(nextPodOrdinal, spec.shards * GroupSize)
        newMasters == Each(LAMBDA i : GroupMaster(nextPodOrdinal, i), Ordinals(1, spec.shards))
    IN IF ScaleReady /\ spec.shards < Cardinality(MasterSet) /\ SlotsCovered
       THEN Verified(Provision(pods)
                \o MeetAll(Masters[1], pods)
                \o ReplicateGroups(nextPodOrdinal, spec.shards)
                \o Migrations(newMasters)
                \o Chain(RetireShard, Masters))
       ELSE <<>>

ReplicaScaleOutPlan ==
    IF Cardinality(MasterSet) = spec.shards /\ UniformReplicaCount
    THEN Verified(ProvisionReplicas(Missing))
    ELSE <<>>

OrElse(steps, others) == IF steps # <<>> THEN steps ELSE others

\* buildGoPlan: the first builder with a plan.
BuildGoPlan(lost) ==
    IF MasterSet = {}
    THEN CreatePlan
    ELSE OrElse(RepairPlan(lost), OrElse(ImageDriftPlan, OrElse(ReplicaScaleInPlan,
         OrElse(ShardScaleOutPlan, OrElse(ShardScaleInPlan, ReplicaScaleOutPlan)))))

-----------------------------------------------------------------------------
EnsuredPods(steps) ==
    {steps[i].pod : i \in {j \in DOMAIN steps : steps[j].action = "EnsureNode"}}

Request ==
    /\ spec \in [shards : 1..MaxShards, replicas : 1..MaxReplicas]
    /\ nextPodOrdinal \in {n \in 0..Cardinality(Pods) : \A p \in known \cap Pods : p < n}
    /\ plan = <<>>
    /\ cursor = 0

PlannerInit == Init /\ Request

\* The call of buildGoPlan.  Without a plan the fallback planner is asked.  The
\* bound on Pods cuts off plans that need more of them.
BuildPlan ==
    /\ cursor = 0
    /\ \E lost \in SUBSET ((exists \cap clusterMember) \ ready) : plan' = BuildGoPlan(lost)
    /\ EnsuredPods(plan') \subseteq Pods
    /\ cursor' = 1
    /\ UNCHANGED <<vars, requestVars>>

Perform(step) ==
    \/ step.action = "EnsureNode" /\ EnsureNode(step.pod)
    \/ step.action = "WaitNodeReady" /\ WaitNodeReady(step.pod)
    \/ step.action = "MeetNode" /\ MeetNode(step.source, step.target)
    \/ step.action = "ReplicateNode" /\ ReplicateNode(step.master, step.replica)
    \/ step.action = "AddSlots" /\ AddSlots(step.pod, step.slots)
    \/ step.action = "MigrateSlots" /\ MigrateSlots(step.source, step.target, step.slots)
    \/ step.action = "ForgetNode" /\ ForgetNode(step.key, step.pod)
    \/ step.action = "DeleteNode" /\ DeleteNode(step.pod)

\* A step that the simulator rejects has no successor: the plan is dropped and
\* the fallback planner is asked.
SimulateStep ==
    /\ phase = "simulating"
    /\ cursor \in DOMAIN plan
    /\ Perform(plan[cursor])
    /\ InvariantsHold'
    /\ cursor' = cursor + 1
    /\ UNCHANGED <<planVars, requestVars, plan>>

AcceptPlan ==
    /\ cursor \in DOMAIN plan
    /\ plan[cursor].action = "VerifyCluster"
    /\ VerifyCluster(spec.shards, spec.replicas)
    /\ UNCHANGED <<requestVars, plan, cursor>>

PlannerNext == BuildPlan \/ SimulateStep \/ AcceptPlan

PlannerSpec == PlannerInit /\ [][PlannerNext]_plannerVars /\ WF_plannerVars(PlannerNext)

-----------------------------------------------------------------------------
\* observedNodesMatchSpec (src/internal/controller/topology_status.go), on the
\* topology that the simulator ends with: the reconciler plans until it holds.
SlotOwners == {k \in exists \cap clusterMember : role[k] = "master" /\ OwnsSlots(k)}

BelongsToShard(k) ==
    k \in clusterMember /\ role[k] = "replica" /\ replicaOf[k] \in SlotOwners

ObservedNodesMatchSpec ==
    /\ exists \subseteq onSpecImage
    /\ SlotOwners \subseteq ready
    /\ Cardinality(SlotOwners) = spec.shards
    /\ \A s \in Slots : slotOwners[s] \in SlotOwners
    /\ \A k \in exists : BelongsToShard(k) => k \in ready
    /\ \A k \in exists \cup clusterMember : k \in SlotOwners \/ BelongsToShard(k)
    /\ \A m \in SlotOwners :
         Cardinality({k \in exists : BelongsToShard(k) /\ replicaOf[k] = m}) = spec.replicas

\* A cluster without leftovers: every pod is a healthy member on one image, a
\* master with slots or a replica of one, and every slot has an owner.
Intact ==
    /\ known = exists /\ exists = clusterMember /\ exists = ready
    /\ \A k \in exists : k \in MasterSet \/ \E m \in MasterSet : k \in ReplicasOf(m)
    /\ SlotsCovered

\* The changes the planner has a builder for, one at a time: none of the masters
\* lacks a replica or none has too many, on the spec's image; or a scaled number
\* of shards, or another image, with the right number of replicas everywhere.
OneChange ==
    \/ /\ exists \subseteq onSpecImage
       /\ Cardinality(MasterSet) = spec.shards
       /\ \/ \A m \in MasterSet : ReplicaCount(m) <= spec.replicas
          \/ \A m \in MasterSet : ReplicaCount(m) >= spec.replicas
    \/ exists \subseteq onSpecImage /\ ScaleReady
    \/ Cardinality(MasterSet) = spec.shards /\ ScaleReady

\* README.md:34-38 (create, scale out, scale in, upgrade): from an intact cluster
\* that does not match the spec, a single change gets a plan that the validator
\* accepts, and so does a new cluster; the fallback planner is not needed.
OneChangeIsAccepted ==
    known = {} \/ (Intact /\ OneChange /\ ~ObservedNodesMatchSpec)
        => <>(phase = "accepted")

Creates == \E i \in DOMAIN plan : plan[i].action = "AddSlots"

\* A plan that creates a cluster is accepted only if no slot had an owner: the
\* planner also builds it when no owner is healthy, over what is left of a cluster.
NothingIsCreatedTwice ==
    phase = "accepted" /\ Creates => \A s \in Slots : observedOwner[s] = NoKey

\* No step of the planner's takes a replica from a healthy slot owner that has no
\* more than the spec wants, and slots go only to masters with that number of
\* replicas: stronger than what the validator asks of a plan.  The pods of a plan
\* that creates a cluster may be remains of one; NothingIsCreatedTwice is for these.
RedundancyKept ==
    [][/\ \A m \in MasterSet :
            Creates \/ ~OwnsSlots(m)' \/ ReplicaCount(m)' >= ReplicaCount(m)
                \/ ReplicaCount(m)' >= spec.replicas
       /\ \A k \in Keys : slots'[k] \ slots[k] # {} => ReplicaCount(k) >= spec.replicas
      ]_plannerVars

\* README.md:142 ("a deterministic balanced allocation"): an accepted plan that
\* changed the number of slot owners leaves numbers of slots that differ by one at
\* most, although it moves them by ranges that two functions compute.
SlotsAreBalanced ==
    phase = "accepted" /\ Cardinality({observedOwner[s] : s \in Slots} \ {NoKey}) # spec.shards =>
        \A m, k \in SlotOwners : Cardinality(slots[m]) <= Cardinality(slots[k]) + 1

\* What the planner has no builder for and the validator does not object to: the
\* pod of a forgotten node, and a replica whose master owns no slots.
Leftover(p) ==
    \/ p \in exists \ clusterMember
    \/ p \in clusterMember /\ role[p] = "replica" /\ replicaOf[p] \notin SlotOwners

\* After an accepted plan the planner has nothing left to do, and the topology
\* matches the spec unless it has leftovers: the validator, the planner and the
\* reconciler agree on what a finished cluster is, but for these.
AcceptedPlansFinish ==
    phase = "accepted" =>
        /\ MasterSet # {} /\ BuildGoPlan({}) = <<>>
        /\ ObservedNodesMatchSpec <=> \A p \in Pods : ~Leftover(p)

\* buildImageDriftPlan (and every other plan that keeps the number of shards): at
\* no time does more than one shard exist twice, so an image change needs room for
\* one more group of pods and not for a second cluster.
OneShardReplacedAtATime ==
    Cardinality({observedOwner[s] : s \in Slots} \ {NoKey}) = spec.shards =>
        Cardinality({k \in exists : ReplicasOf(k) # {}}) <= spec.shards + 1
=============================================================================
