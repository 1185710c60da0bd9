--------------------------- MODULE PlanValidator ---------------------------
(***************************************************************************)
(* The validator VM (src/internal/validator): a plan proposed by an        *)
(* untrusted planner is run, step by step, against an abstract topology    *)
(* built from the observed nodes, and is accepted only if every step is.   *)
(*                                                                         *)
(* The planner is unconstrained: Next is every step the schema check lets  *)
(* through and the simulator accepts, so a behaviour is the accepted       *)
(* prefix of some plan.  A rejected step ends validation and changes       *)
(* nothing, so rejection is the absence of a transition.                   *)
(*                                                                         *)
(* A Boolean field of simulatedNode is the set of nodes that have it.      *)
(***************************************************************************)
EXTENDS Integers, FiniteSets

CONSTANTS
    Pods,       \* the redis-<N> pod names a plan or an observation may mention
    Ghosts,     \* node ids seen in CLUSTER NODES that map to no pod name
    Slots,      \* the hash slots (16384 of them in the program)
    NoKey,      \* the empty pod name / the absence of an owner
    OpenSlots   \* TRUE: the observed view may hold migrating/importing markers

Keys == Pods \cup Ghosts

ASSUME KeysAssumption ==
    /\ Pods \cap Ghosts = {}
    /\ NoKey \notin Keys
    /\ IsFiniteSet(Keys)
    /\ OpenSlots \in BOOLEAN

VARIABLES
    known,          \* the keys planSimulator.nodes has an entry for
    exists,         \* nodes with a pod
    ready,          \* nodes that are ready
    clusterMember,  \* nodes that are in the Redis cluster
    forgotten,      \* nodes a ForgetNode step removed
    onSpecImage,    \* nodes whose image is spec.image
    role,           \* "", "master" or "replica"
    replicaOf,      \* the master a replica follows
    slots,          \* simulatedNode.slots
    slotOwners,     \* planSimulator.slotOwners; NoKey stands for a missing entry
    forgetPods,     \* pods without an entry that an applied ForgetNode names
    observedOwner,  \* history: the owner of each slot in the view planned from
    phase,          \* "simulating", or "accepted" once the plan has passed
    expected        \* the shards and replicas the final VerifyCluster names

podVars == <<known, exists, onSpecImage>>
memberVars == <<clusterMember, forgotten>>
roleVars == <<role, replicaOf>>
slotVars == <<slots, slotOwners>>
planVars == <<observedOwner, phase, expected>>

vars == <<podVars, ready, memberVars, roleVars, slotVars, forgetPods, planVars>>

TypeOK ==
    /\ known \in SUBSET Keys
    /\ exists \in SUBSET Keys
    /\ ready \in SUBSET Keys
    /\ clusterMember \in SUBSET Keys
    /\ forgotten \in SUBSET Keys
    /\ onSpecImage \in SUBSET Keys
    /\ role \in [Keys -> {"", "master", "replica"}]
    /\ replicaOf \in [Keys -> Keys \cup {NoKey}]
    /\ slots \in [Keys -> SUBSET Slots]
    /\ slotOwners \in [Slots -> Keys \cup {NoKey}]
    /\ forgetPods \in SUBSET Pods
    /\ observedOwner \in [Slots -> Keys \cup {NoKey}]
    /\ phase \in {"simulating", "accepted"}
    /\ expected \in [shards : Nat, replicas : Nat]

-----------------------------------------------------------------------------
(***************************************************************************)
(* newPlanSimulator over one observation.  An observation is one node's    *)
(* CLUSTER NODES view joined with the managed pods: the view names one     *)
(* owner per slot, only masters own slots, and a node without a pod is     *)
(* never healthy.  masterOf[k] = k says that k is a master.                *)
(***************************************************************************)
\* Only the line of the node the view was read from can carry [slot->-id]
\* markers.  slotsSet fails on such a line and the node is taken to own nothing.
ReadableOwner(owner, marked) ==
    [s \in Slots |-> IF owner[s] = marked THEN NoKey ELSE owner[s]]

ObservedRoles(seen, masterOf) ==
    /\ role = [k \in Keys |->
         CASE k \notin seen -> ""
           [] k \in seen /\ masterOf[k] = k -> "master"
           [] OTHER -> "replica"]
    /\ replicaOf = [k \in Keys |->
         IF k \in seen /\ masterOf[k] # k THEN masterOf[k] ELSE NoKey]

ObservedSlots(masters) ==
    /\ observedOwner \in [Slots -> masters \cup {NoKey}]
    /\ \E marked \in (IF OpenSlots THEN masters ELSE {}) \cup {NoKey} :
         slotOwners = ReadableOwner(observedOwner, marked)
    /\ slots = [k \in Keys |-> {s \in Slots : slotOwners[s] = k}]

\* seen: the nodes in CLUSTER NODES.
Observation(seen, masterOf) ==
    /\ exists \in SUBSET Pods
    /\ clusterMember = seen
    /\ known = exists \cup seen
    /\ onSpecImage \in SUBSET exists
    /\ ready \in SUBSET (exists \cap seen)
    /\ ObservedRoles(seen, masterOf)
    /\ ObservedSlots({k \in seen : masterOf[k] = k})
    /\ forgotten = {}
    /\ forgetPods = {}
    /\ phase = "simulating"
    /\ expected = [shards |-> 0, replicas |-> 0]

Init ==
    \E seenPods \in SUBSET Pods :
        LET seen == seenPods \cup Ghosts IN
        \E masterOf \in [seen -> seen \cup {NoKey}] : Observation(seen, masterOf)

-----------------------------------------------------------------------------
ReadyMembers == ready \cap clusterMember

ReadyMaster(k) == k \in ReadyMembers /\ role[k] = "master"

\* The ready replicas of k whose pods exist.
ReplicasOf(k) ==
    {r \in exists \cap ReadyMembers : role[r] = "replica" /\ replicaOf[r] = k}

OwnsSlots(k) == slots[k] # {}

EnsureNode(p) ==
    /\ known' = known \cup {p}
    /\ exists' = exists \cup {p}
    /\ onSpecImage' = IF p \in exists THEN onSpecImage ELSE onSpecImage \cup {p}
    /\ UNCHANGED <<ready, memberVars, roleVars, slotVars, forgetPods>>

WaitNodeReady(p) ==
    /\ p \in exists
    /\ ready' = ready \cup {p}
    /\ UNCHANGED <<podVars, memberVars, roleVars, slotVars, forgetPods>>

MeetNode(source, target) ==
    /\ source # target
    /\ {source, target} \subseteq ready
    /\ clusterMember' = clusterMember \cup {source, target}
    /\ role' = [k \in Keys |->
         IF k \in {source, target} /\ role[k] = "" THEN "master" ELSE role[k]]
    /\ UNCHANGED <<podVars, ready, forgotten, replicaOf, slotVars, forgetPods>>

\* The code does not compare master with replica: both may be the same pod.
ReplicateNode(master, replica) ==
    /\ {master, replica} \subseteq ReadyMembers
    /\ role[master] # "replica"
    /\ ~OwnsSlots(replica)
    /\ role' = [role EXCEPT ![master] = "master", ![replica] = "replica"]
    /\ replicaOf' = [replicaOf EXCEPT ![replica] = master]
    /\ UNCHANGED <<podVars, ready, memberVars, slotVars, forgetPods>>

\* The slots of moved go to p in both maps.
Assign(p, moved) ==
    /\ slots' = [slots EXCEPT ![p] = @ \cup moved]
    /\ slotOwners' = [s \in Slots |-> IF s \in moved THEN p ELSE slotOwners[s]]
    /\ UNCHANGED <<podVars, ready, memberVars, roleVars, forgetPods>>

AddSlotsUnreplicated(p, added) ==
    /\ ReadyMaster(p)
    /\ \A s \in added : slotOwners[s] = NoKey
    /\ Assign(p, added)

AddSlotsOverwriting(p, added) ==
    /\ ReadyMaster(p)
    /\ ReplicasOf(p) # {}
    /\ Assign(p, added)

AddSlots(p, added) ==
    /\ ReadyMaster(p)
    /\ ReplicasOf(p) # {}
    /\ \A s \in added : slotOwners[s] = NoKey
    /\ Assign(p, added)

\* Slots the target already owns are skipped; any third owner is an error.
Transfer(source, target, listed) ==
    LET moved == {s \in listed : slotOwners[s] = source} IN
    /\ \A s \in listed : slotOwners[s] \in {source, target}
    /\ slots' = [slots EXCEPT ![source] = @ \ moved, ![target] = @ \cup moved]
    /\ slotOwners' = [s \in Slots |-> IF s \in moved THEN target ELSE slotOwners[s]]
    /\ UNCHANGED <<podVars, ready, memberVars, roleVars, forgetPods>>

MigrateSlots(source, target, listed) ==
    /\ source # target
    /\ ReadyMaster(source)
    /\ ReadyMaster(target)
    /\ ReplicasOf(target) # {}
    /\ Transfer(source, target, listed)

\* The entry of k leaves the cluster; its role and slots are not touched.
Forget(k) ==
    /\ clusterMember' = clusterMember \ {k}
    /\ forgotten' = forgotten \cup {k}
    /\ UNCHANGED <<podVars, ready, roleVars, slotVars>>

ForgetNodeOwningSlots(k, pod) ==
    /\ k \in clusterMember
    /\ forgetPods' = forgetPods \cup {p \in Pods \ known : p = pod}
    /\ Forget(k)

ForgetNodeEmptyPod(k, pod) ==
    /\ k \in clusterMember
    /\ ~OwnsSlots(k)
    /\ forgetPods' = forgetPods \cup {pod}
    /\ Forget(k)

\* k is what the step resolves to: the node lastKnownNodeId names, else pod.
\* DeleteNode looks back for the pod param only while the pod has no entry.
ForgetNode(k, pod) ==
    /\ k \in clusterMember
    /\ ~OwnsSlots(k)
    /\ forgetPods' = forgetPods \cup {p \in Pods \ known : p = pod}
    /\ Forget(k)

DeleteNode(p) ==
    /\ IF p \in known
       THEN /\ p \notin clusterMember
            /\ exists' = exists \ {p}
            /\ ready' = ready \ {p}
       ELSE p \in forgetPods /\ UNCHANGED <<exists, ready>>
    /\ UNCHANGED <<known, onSpecImage, memberVars, roleVars, slotVars, forgetPods>>

-----------------------------------------------------------------------------
\* checkInvariants, run after every step; it skips nodes without a pod and
\* nodes out of the cluster.
InvariantsHold ==
    \A k \in exists \cap clusterMember :
        /\ OwnsSlots(k) => role[k] = "master"
        /\ \A s \in slots[k] : slotOwners[s] = k

\* A step other than VerifyCluster, with the parameters validateStepSchema
\* admits: pod params are redis-<N> names, and EnsureNode names spec.image.
TopologyStep ==
    \/ \E p \in Pods :
         \/ EnsureNode(p)
         \/ WaitNodeReady(p)
         \/ DeleteNode(p)
         \/ \E added \in (SUBSET Slots) \ {{}} : AddSlots(p, added)
    \/ \E p, q \in Pods :
         \/ MeetNode(p, q)
         \/ ReplicateNode(p, q)
         \/ \E listed \in (SUBSET Slots) \ {{}} : MigrateSlots(p, q, listed)
    \/ \E k \in Keys, pod \in Pods \cup {NoKey} : ForgetNode(k, pod)

Simulate ==
    /\ phase = "simulating"
    /\ TopologyStep
    /\ UNCHANGED planVars

\* The masters VerifyCluster counts.
LiveMasters == {k \in exists : ReadyMaster(k)}

MastersAsExpected(shards, replicas) ==
    /\ \A k \in LiveMasters :
         OwnsSlots(k) /\ Cardinality(ReplicasOf(k)) = replicas
    /\ Cardinality(LiveMasters) = shards

PodsAsExpected ==
    exists \subseteq (clusterMember \cup forgotten) \cap onSpecImage

VerifyAcceptsDeadMembers(shards, replicas) ==
    /\ PodsAsExpected
    /\ MastersAsExpected(shards, replicas)
    /\ \A s \in Slots : slotOwners[s] # NoKey
    /\ InvariantsHold

VerifyAccepts(shards, replicas) ==
    /\ PodsAsExpected
    /\ MastersAsExpected(shards, replicas)
    /\ \A s \in Slots : slotOwners[s] # NoKey
    /\ clusterMember \ forgotten \subseteq exists \cap ready
    /\ InvariantsHold

\* VerifyCluster changes no simulated node, so only the one that ends the
\* plan is an action; isPlanValid requires the last step to be one.
VerifyCluster(shards, replicas) ==
    /\ phase = "simulating"
    /\ VerifyAccepts(shards, replicas)
    /\ phase' = "accepted"
    /\ expected' = [shards |-> shards, replicas |-> replicas]
    /\ UNCHANGED <<podVars, ready, memberVars, roleVars, slotVars, forgetPods,
                   observedOwner>>

Verify ==
    \E shards, replicas \in 0..Cardinality(Keys) : VerifyCluster(shards, replicas)

Next ==
    \/ Simulate /\ InvariantsHold'
    \/ Verify

Spec == Init /\ [][Next]_vars

\* The same plans run without the checkInvariants call after each step.
UncheckedSpec == Init /\ [][Simulate \/ Verify]_vars

-----------------------------------------------------------------------------
\* The index and the per-node slot sets always describe the same ownership,
\* also for the nodes checkInvariants skips (no pod, or forgotten): the two
\* maps are updated separately by addSlots, migrateSlots and addObservedNodes.
OwnerIndexExact ==
    \A k \in Keys, s \in Slots : s \in slots[k] <=> slotOwners[s] = k

\* A slot's owner is a cluster member and a master after every accepted step:
\* no step forgets, deletes or demotes a node the simulator knows to own slots.
OwnersAreMemberMasters ==
    \A k \in Keys : OwnsSlots(k) => k \in clusterMember /\ role[k] = "master"

\* What acceptance promises, slot by slot: every slot is owned by an existing,
\* ready member master with exactly the replicas the plan names, the plan's
\* number of masters own slots, and every existing pod runs the spec's image.
\* verifyCluster never states it: it skips the masters that are not ready or
\* have no pod, and lets forgotten members through the readiness check.
AcceptedClusterIsWhole ==
    phase = "accepted" =>
        /\ \A s \in Slots : \E k \in LiveMasters :
             /\ slotOwners[s] = k
             /\ Cardinality(ReplicasOf(k)) = expected.replicas
        /\ Cardinality({k \in Keys : OwnsSlots(k)}) = expected.shards
        /\ exists \subseteq onSpecImage

\* A slot that has an owner keeps one, and it changes hands only to a node
\* that has a ready replica at that moment (addSlots and migrateSlots).
SlotsMoveToReplicatedMasters ==
    [][\A s \in Slots : slotOwners'[s] # slotOwners[s] =>
          \E k \in Pods : slotOwners'[s] = k /\ ReplicasOf(k) # {}]_vars

-----------------------------------------------------------------------------
(***************************************************************************)
(* What the documentation says of the validator and the code does not do.  *)
(***************************************************************************)
\* README "Safety Model" (plans reaching a "master with zero replicas" are
\* rejected) and prompts/invariants.md line 1 ("not even transiently"): a step
\* never takes the last replica of a master that owns slots.
OwnersKeepReplicas ==
    [][\A k \in Keys : OwnsSlots(k) /\ ReplicasOf(k) # {} =>
          (ReplicasOf(k) # {})' \/ ~OwnsSlots(k)']_vars
=============================================================================
