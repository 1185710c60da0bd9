# Verification of llm-k8s-redis

The operator turns a `RedisCluster` object into a Redis Cluster.  A planner (a language
model or the deterministic Go planner) proposes a plan: a list of steps such as `EnsureNode`,
`MeetNode`, `MigrateSlots`, `VerifyCluster`.  A validator simulates the plan before it is
accepted; the reconciler stores it in the object's status and executes one step per
reconcile through an executor that talks to Kubernetes and to Redis.

This directory holds TLA+ modules of the validator, of the deterministic planner, of the
reconciler, of every step of the executor and of the object's life from its finalizer to its
deletion, TLC runs that check them on small instances and TLAPS proofs for all instances.

## Inventory

| Component (under `src/internal`) | State it keeps | Operations | What is hard about it | What makes it correct |
|---|---|---|---|---|
| Validator VM (`validator/`) | simulated nodes, `slotOwners`, set of forgotten pods | schema check; one simulation per step; `checkInvariants`; `verifyCluster` | two indexes of slot ownership kept by hand; long sequences of legal steps; what the observation does not show | an accepted plan ends in a whole cluster, no step on the way forgets or demotes an owner |
| Reconciler (`controller/`) | status: active plan, step states, `nextPodOrdinal`, conditions; reads them from an informer cache | `Reconcile`, `handleActivePlan`, `executeNextStep`, `reconcilePlan`, `finish` | the cache is stale, writes conflict or fail after they took effect, the process restarts between a step and its record, the spec is edited while the planner runs | steps run in order, a plan is stored only for the current spec, no wakeup is lost, names are not used twice, failed plans stay |
| Lifecycle (`controller/lifecycle.go`) | finalizer, namespace | `ensureNamespace`, `reconcileDelete`, `finish` | decides on a cached namespace and deletes by name | the object, its namespace and its pods go in the end, and a namespace that was there first stays |
| Observer (`action/topology_observer.go`, `observor/`) | none | reads `CLUSTER NODES` from every pod, chooses a view, joins it with the pods | views diverge; nodes without a pod | the planner starts from a view that some majority holds |
| Executor: EnsureNode, WaitNodeReady | pods, their metadata, `maxmemory` | create, adopt, delete, patch; `CONFIG SET` | the cached pod is old; each update is made from a copy; the container restarts | a made node is as the plan wants it; no pod that has joined is deleted |
| Executor: MeetNode, ReplicateNode, AddSlots | the tables of the Redis nodes | one check, a Redis command and a re-read each | the tables lag behind one another, handshakes end or time out between two commands | no owner of slots without a replica; the steps end |
| Executor: VerifyCluster | fingerprint, count and start time in the step's parameters | reads every pod's view, classifies, waits for two equal observations | the views are read one after the other; what is stored is lost with the status write | a verified cluster is whole in every observed view |
| Executor: MigrateSlots | slots, keys, migration markers | concurrent handshakes, repair, verification | it may be interrupted at any command and is then run again | one owner per slot, no key lost |
| Executor: ForgetNode, DeleteNode | the tables of the nodes, the pod | `CLUSTER FORGET` on each peer; the deletion after a safety check | one pod's view decides; gossip brings a node back | no owner of slots is removed, nor the last replica of one |
| Planners (`planner/`) | none | build a plan from spec and topology | the language model's output is untrusted; the Go planner's builders, the validator and the reconciler must agree on what a finished cluster is | the validator accepts what the Go planner builds, and after an accepted plan nothing is left to do |
| Redis parsing (`rediscluster/`), Redis client (`redis/`) | none | parse `CLUSTER NODES`; commands | open slots, nodes without address | |
| RAG (`rag/`) | vector store | similarity search | | no other code calls it |
| Manager (`cmd/manager`) | flags | start-up | | |

Interaction: the manager's single worker calls `Reconcile`; `Reconcile` calls the observer
and the planner (`reconcilePlan`) or the executor (`executeNextStep`) and ends with one
status update (`finish`); the planner's result goes through the validator before it is
written.  The status is the only memory between reconciles: what a step did and what the
status says of it may differ.

`PROJECT.json` lists every component with its status, and the hazards with the lines at
which they bite.

## Modules

### PlanValidator

One behaviour is one call of `Validate`: the initial states are what `newPlanSimulator` can
build from an observation, then each step of a plan is one action (`EnsureNode`,
`WaitNodeReady`, `MeetNode`, `ReplicateNode`, `AddSlots`, `MigrateSlots`, `ForgetNode`,
`DeleteNode`), and `Verify` is the final `verifyCluster`.  The plan is untrusted, so every
step with every parameter the schema admits is a successor; a step the simulator rejects has
no successor, since validation ends there with an error.

Each field of `simulatedNode` is a variable that maps a node key (a pod name, or a node id
for a node of no pod: `Ghosts`) to its value.  `checkInvariants` runs after each step and is a
conjunct of each step (`Simulate`).  The text of a slot list is a set of slots; an
open slot makes `ParseSlotSpec` fail for the whole line of its master, which
`ReadableOwner` models.

### GoPlanner, SlotAllocation

`GoPlanner` extends `PlanValidator`: an initial state is an observation together with a spec
and a `nextPodOrdinal`.  `BuildPlan` is the call of `buildGoPlan`; each plan builder
(`CreatePlan`, `RepairPlan`, `ImageDriftPlan`, `ReplicaScaleInPlan`, `ShardScaleOutPlan`,
`ShardScaleInPlan`, `ReplicaScaleOutPlan`) is an operator that gives a sequence of steps, empty
when the code returns nil, and `BuildGoPlan` takes the first that is not empty.  `SimulateStep`
and `AcceptPlan` then run the steps through the validator's actions.  A rejected step has no
successor, as the code then asks the fallback planner.  A pod is its ordinal.  `SlotAllocation`
holds the two functions that divide the slots.

`ObservedNodesMatchSpec` is the reconciler's own test of a finished cluster
(`observedNodesMatchSpec`).  `AcceptedPlansFinish` relates it to what the planner and the validator take for
one: the three differ only in `Leftover`s, a pod whose node was forgotten and a healthy replica of
a node without slots.  For these the validator accepts a plan, the planner builds no further one,
and the reconciler goes on asking the fallback planner.

Left out: `spec.replicasPerShard` 0, for which the Go planner builds nothing; a node of role
"unknown"; one pod name in two observed nodes; open slots, which keep every
plan that moves slots from being built and any other from being accepted.

### PlanExecution

The object on the API server (`server`), the versions on their way to the informer
(`undelivered`), the informer's copy (`cache`) and the worker's copy (`work`) are separate
variables.  `pc` is where the worker stands: `idle`, `execute` (about to call the driver),
`observe`, `planner` (the call that takes minutes), `write` (`finish`).  Every branch of
`handleActivePlan`, every outcome of `executeNextStep` and every return of `reconcilePlan`
is an action.  `current` abstracts the resource version: the copy was read from the version
the server still holds, so `Status().Update` is accepted.  An update that changes nothing makes no
new version and no event, which matters because two returns of the reconciler
rely on the event of their own write.

The environment edits the spec, delivers versions, moves the live topology (`Drift`), stops
the process anywhere (`Restart`) and fails a status write before or after it was stored
(`WriteError`).  What a step does to Redis is open: `world` is the set of generations whose
spec the live topology satisfies, and any step but the last may change it.  A plan may complete
although the topology does not match: `VerifyCluster` (verify_cluster.go:86-104) looks at roles, slots and
pods in Redis, while the reconciler's `observedNodesMatchSpec` (topology_status.go:29-31, 73-92) also looks at images
and at forgotten pods that still run.  Such a completion counts against `MaxFaults`.

Assumptions of this module: the object has its finalizer and its namespace and is not being deleted; one
worker (the deployment has one replica and the controller the default of one concurrent
reconcile); a restarted process lists the server's current version; of the conditions only
`Ready` is kept.  `status.observedNodes` and `status.topology` are not state.  They are read in two places, whose effect
stays: `planningWaitReason` (planning.go:97) compares the observation with the one before, and the model
waits or calls the planner as it likes (`WaitForStableCluster`, `CallPlanner`); `nextPodOrdinal` (pod_ordinal.go:14-23) is raised
above their pods, which come from plans or earlier observations, and these have raised it already.

### SlotMigration

The `MigrateSlots` step against the masters of the cluster.  `owner[n][s]` is master `n`'s own
view of who owns slot `s`; a master *claims* a slot when its own view names itself.
`view` is what the step read from the source before its first command, `task[s]` the next
command of the goroutine of slot `s`, and `peers[s]` the masters it still has to notify.  Each
command (`Importing`, `Migrating`, `GetKeys`, `MoveKeys`, `SourceGives`, `TargetTakes`,
`NotifyPeer`) is an action of its own, so the goroutines interleave freely.  A command may be
refused by Redis (`CommandRefused`), break with or without effect, which cancels the other
goroutines and may break their commands too (`CommandBroken`), or meet a transient error
(`CommandWaits`); the process may stop (`Crash`).  The reconciler runs a step again while
it is Running, and once more after a lost status write.  The repair of slots without owner,
the wait for `cluster_state` and the verification, which reads one view after the other, are
separate actions, because gossip and clients move between them.

The commands' own effect is Redis' and external: `SETSLOT IMPORTING` is refused to the owner,
`MIGRATING` to any other master, `NODE` to a master that would give away keys; the new owner
takes the highest epoch, and gossip (`Gossip`) reaches a master that knows no owner
or an older one, unless it imports the slot.  `cluster_state` fails while a slot has no owner
and `FullCoverage` holds, which is Redis' default and what `redisArgs` leaves unchanged.

Left out: reads, pings and the peer preflight that fail (Running, nothing changed), failovers,
a `MIGRATE` that copies keys without deleting them, and the status' topology refresh.  Peers and
verifiers are taken in any order and the slots of a run are any `PerReconcile` of
those that are left, where the code sorts them.  `Init` supposes that views only lag (no view
names a wrong owner) and, unless `FullCoverage` holds, that the source or the target knows
every owner: `ADDSLOTS` could otherwise add a slot that a third master owns.

### PlanStatus

What a reader of the status may rely on, without cache, copies, queue or failures: at most one
active plan, made for the spec it is stored under; steps that are recorded one at a time and in order,
as Completed only after the driver has said so; a failed plan that stays until the spec is
edited.  `PlanExecution` ends with the mapping: the spec is the server's generation, the
plan that of the server's object (`StatusOf`), `accepted` and `reported` are its counters.
`ImplementsPlanStatus` is the specification of `PlanStatus` under this mapping: most actions
of the reconciler are stutters, and the status write is one step of `PlanStatus` or none.

### ClusterFormation

`MeetNode`, `ReplicateNode`, `AddSlots` and `VerifyCluster`, run one after the other as the
reconciler does.  `link[n][m]` is how node `n`'s table holds `m` (not at all, in a handshake, known)
and `view[n][m]` the master and slots of `m` as `n` has heard them.  Each step is split where it sends a
command or reads again (`MeetNode`, `ClusterMeet`, `CheckMet`, ...), so that gossip, handshakes, failing pods and
a restart come between.  `temporary` says that the run knows the master by the id it has during the
handshake, which Redis forgets afterwards.  `AddBatch` is one `ADDSLOTS` command.  `VerifyCluster` lists the
ready pods, `ReadView` reads one table, and `JudgeViews` classifies (`Classify`) and waits
(`NotStable`): `noted` is the fingerprint and `started` the start time in the step's
parameters, which are stored only with the status write.  `late` says that two minutes
have passed since.  `classifyClusterView` looks at the entries in the order of `CLUSTER NODES`,
which has none, so `Classify` gives every result that some order gives.

`Plans` need not be careful: one of the run adds slots before it replicates.  Left out: failover and
slots that migrate (hence no open slots), nodes of no pod, the topology that is put into the
status, and pings, whose failure is that of the command after them.  A `CLUSTER NODES` that fails leaves the step
Running and is no step of the model.

### NodeRemoval

`ForgetNode` and `DeleteNode` of one `Target`.  `knows` is the set of nodes whose table holds the target,
`banned` those that refuse to hear of it for a minute after `CLUSTER FORGET`.  The seed is any
ready pod (`pickSeedPod` takes the first of a list without order), the target and a `Leftover` (a forgotten
pod that still exists and still knows the members) included; `seen` is the informer's copy of
the pods.  `ForgetNode` is the step up to the first command, `ForgetPeer` one command, in any order of the
peers, `CheckForgotten` the last read; `DeleteNode` is the safety check on another pod's view and
`DeletePod` the deletion that follows, whose call may fail with or without effect.  `halfway` starts from what a failed earlier removal leaves.

Left out: the membership of nodes other than the target, failover, moving slots.  `Strangers` are
ready pods that have never met the cluster; with them the promises fail (see Findings).

### ClusterObjects

The RedisCluster with its finalizer, its namespace, and one pod that a plan of `EnsureNode` and
`WaitNodeReady` makes; each has a copy in a cache of its own (`seenObject`, `seenNs`, `seenPod`).
`Reconcile` before the plan is `AddFinalizer`, `EnsureNamespace` and `ReconcileDelete`.
`EnsureNode` is split at its writes: `CreatePod`, `DeleteDrifted`, `AdoptPod` or
`KeepPod`, then `PatchMetadata` (made from the copy read at the start, so an adoption
before it makes it conflict), then `GetMaxmemory`, `SetMaxmemory` and `CheckMaxmemory` on the address of the
cached pod.  `redis` is the server in the pod, which forgets `CONFIG SET` when its container
restarts.  `joined` is the pod that later steps have met and `listed` whether `status.topology`
lists it, on which `canRecreateDriftedPod` decides.  Kubernetes collects the namespace
of a deleted owner and ends the pods of a dying one.  `PodIsDisturbed` is a fault: a container restart,
an eviction, or someone who edits the pod or makes one of its name.

Each call may fail, carried out or not (`CallFails`, `ReadOrWriteFails`), which fails the plan.

Assumption: nobody else makes a namespace of this name once it is ours.  What `OthersAreKept` says of namespaces rests on it, and
is no more than that a foreign namespace that was there first is left alone.  Of pods it says that
one that has joined the cluster is kept; one that replaces it under the same name has not joined and may be
deleted.  Left out: the text of the
drift test (the image stands for the spec), the parameters of the plan, and the topology's
node id that `WaitNodeReady` refreshes.

### The proof modules

`PlanValidatorProofs`, `GoPlannerProofs`, `PlanExecutionProofs`, `PlanStatusProofs`,
`SlotMigrationProofs`, `NodeRemovalProofs`, `ClusterObjectsProofs` and `ClusterFormationProofs` hold the
theorems and extend the models (see Proofs).

## Runs

| Run | Question | Instance |
|---|---|---|
| `validator` | does any plan break the simulator's own consistency, or is one accepted that does not end in a whole cluster? | 2 pods, 1 node of no pod, 2 slots, every observation, open slots |
| `go_planner` | is the plan for one change (create, shards or replicas up or down, image) accepted, are the slots balanced after it, is redundancy kept on the way, is one shard replaced at a time? | nothing, or an intact cluster of up to 4 pods with up to 2 masters; 9 pods, 5 slots, up to 3 shards and 2 replicas; fairness |
| `go_planner_damaged` | which plans are accepted from a damaged cluster, and what do they leave? | every observation of 3 pods and 1 node of no pod, 2 slots, up to 2 shards, 1 replica |
| `execution` | is the stored status a behaviour of `PlanStatus`, do steps run in order, are wakeups kept, is `nextPodOrdinal` above every used ordinal, is an outdated plan dropped, does the object settle? | 2 steps, 2 generations, 3 plans, 1 fault, fairness |
| `migration` | do two masters ever claim a slot, is a client redirected to a target that does not serve it, is a Completed step complete? | 4 masters, of which 3 verify, 2 slots, 2 faults, every lagging view, full coverage |
| `migration_ends` | does the step end, and what makes it fail? | 3 masters that agree, 2 slots of one or two sources, 2 faults, no full coverage, fairness |
| `formation` | does an owner of slots always have a replica, is a verified cluster whole in every view, why does a step fail, does the plan end? | 3 nodes, 2 slots, 2 plans, batches of 1, 1 fault, fairness |
| `node_removal` | is an owner or the last replica of one ever removed, why does the removal fail, does it end? | 3 members in every role, 1 leftover, every start of a half-done removal, 1 fault, fairness |
| `objects` | is a made node as the plan wants it, why does a step fail, are pods that have joined and a foreign namespace that was there first kept, does the deletion end? | 2 images, 2 faults, any namespace at the start, fairness |
| `validator_last_replica` | violation: a plan may take the last replica of a slot owner | 3 pods |
| `migration_interrupted` | violation: a fault between two commands leaves a slot unowned and the step Running for ever | 3 masters, 1 slot, 1 fault, fairness |
| `node_removal_stranger` | violation: with a seed that has never met the cluster the pod of a slot owner is deleted | 3 members, 1 such pod, no fault |

Bounds.  The simulator's guards look at one or two nodes and one slot at a time: two pods and
a node of no pod give a master, its replica and a third that owns slots or takes the
place of either, and two slots distinguish a slot that
moves from one that stays; the theorems hold for any number of both.  `GoPlanner`'s builders loop over the shards and treat each one alike but for the
first (the seed): two shards have a first and a last, three are the smallest number that divides five
slots unevenly, and `Pods` is large enough for every plan from such an observation (the image
change or the scale-in of two shards with replicas replaces all of them).  `Observed` bounds the
pods an observation mentions; at most one of them is not on the spec's image, since the builders only
ask whether there is one.  `SmallestOrdinal` fixes `nextPodOrdinal` just above the pods that
exist: a larger value only renames the new pods.  `PlanExecution` compares a step only with its neighbours and a
plan only with the next one, so two steps, three plans (one may fail, be outdated or be
replaced, and another follow) and two generations hold every case; one fault can fall between
any two steps, and the theorems remove these bounds for the safety properties.  `Int32Span`
stands for 2^31 and is chosen just above the ordinals of a run.  `SlotMigration`'s
goroutines share the `cancel`, the masters and the choice of peers, never a slot, so two slots
show what one does to another; a third master may own a slot, and a fourth is one that the
verification skips.  One batch of keys makes the step run twice.  `ClusterFormation`'s steps act on one
pair of nodes at a time; a third node brings gossip, a second replica, and a table that differs from two
that agree.  Two slots make two batches.  The two plans are the Go planner's for one shard, and one
that asks for slots too early; one fault may fall anywhere (a pod that fails, a handshake that times out, a lost
reply or status write, a restart).  `NodeRemoval`'s steps name one node; with two more members it may be a
replica, the last one, an owner or a master without slots, and a peer may be told while another
fails.  `First` and `Second` stand for the members that may be exchanged, and
`byId` matters only when the pod is gone.  In `ClusterObjects` two images are the old and the new
one, and two faults give an adoption and an interruption of it.  `CHECK_DEADLOCK FALSE`: a
validation ends, a plan is accepted or dropped, an object that is settled with all faults spent stays as it is,
and a step or plan that has ended is not run again.

Fairness.  `WorkerSpec` assumes that the worker takes keys and continues (controller-runtime
runs the queue for ever, and requeues are timers that fire) and that the informer receives
what the server stored.  `OutdatedPlansAreDropped` needs no more.  `EventuallySettled` has one
more hypothesis, `DriverAndPlannerEnd`, of three strong fairness conditions.  `ObservationEnds`
follows from the code: after `verifyStableTimeout` the wait for a stable view is over.
`StepEnds` and `AcceptPlan` are assumptions about the driver and the planner that the code
cannot guarantee (a step may stay Running, a planner may never have a valid plan).  `MaxFaults` is one more: faults come
to an end, and a plan that `VerifyCluster` completes although the topology does not match the spec is a
fault, since the reconciler answers it with another plan.  The property says that beside these nothing
prevents the object from settling: no lost wakeup, no lag, no conflict, no outdated plan.

`PlannerSpec`'s weak fairness says that `Validate`, a loop without waits, goes through the plan.

`SlotMigration`'s `Fairness` assumes that the reconciler runs a Running step again (every
Running outcome is requeued), that every goroutine goes on (each call has the timeout of its
connection) and that masters gossip.  Clients need not write.

`ClusterFormation` assumes that a Running step is run again and that what gossip, the kubelet and the failure
detection have still to do gets done; each of these comes to an end when faults have.  No single
node, pod or message is named in a condition of its own, and the clock need not run.

`NodeRemoval` assumes the same of the step, the kubelet, the failure marks and the informer.  Gossip and the
ban list need not move.  Its strong fairness per seed (`ForgetNode(s) \/ DeleteNode(s)`, for members other than the target) says that a list in random
order does not leave a ready member out for ever; a run whose seed is the target
cannot complete, so without it `RemovalEnds` is false.

`ClusterObjects` assumes that the work queue runs the object again (an error, a requeue and an event each put
it there), that Kubernetes collects and deletes, and that the informers catch up.  Pods need not start.

## Findings

Each violation run shows a disagreement between a document, a comment or a test of the
repository and its code.

* `validator_last_replica`: `checkInvariants` counts no replicas, though README.md and the
  planner's invariants say that a plan reaching a master with zero replicas is rejected.
* `migration_interrupted`: after `SETSLOT NODE` on the source and before the one on the target, a
  restart or a transient error leaves the slot unclaimed; the source's view then names the target,
  so later runs skip the slot and wait for a view that nothing changes.  `migration_ends` shows
  that faults keep the step from ending in no other way: it ends, or a slot stays without owner
  from some moment on (`<>[]Orphaned`) after a fault.
* `node_removal_stranger`: `ForgetNode` and `DeleteNode` trust the first ready pod of the list.  One that
  has not met the cluster yet (a plan makes its pods before it introduces them) knows no node: the first
  step reports "already forgotten", the second sees no member and no owner without replica, and deletes the
  pod of a slot owner.  README.md:168-170 calls the live state the source of truth.

### Behaviours worth knowing

The code does these things; a run or a proof above is stated around them.

* Validator.  A master with an open slot is simulated without slots, since `addObservedNodes` ignores the
  error of `slotsSet`, so a plan may forget it.  `replicateNode` never compares its two pods, though the planner's
  prompts say such a plan is rejected.
* Go planner.  When no healthy slot owner is left, `buildCreatePlan` starts at `redis-0` and never reads
  `nextPodOrdinal`, though README.md:140-141 says names are monotonic.  `int32(n+1)` wraps for
  `redis-2147483647` (see Proofs).  README.md:127-128 says that with `--disable-llm-planner` no plans
  are generated; the manager still uses the Go planner.
* `MigrateSlots`.  The repair of a slot without owner waits for a cluster state that, under Redis' default
  full coverage, fails because of the slot: it is never added.  When the slots of one run have two
  sources, neither source is a peer of the other's slots: a run that follows at once may ask the target to import a slot
  that it owns, and the plan fails.  `FailuresHaveCauses` states that, without a fault, nothing
  else makes the step fail.  Source and target may both lag behind a third master's claim, and `ADDSLOTS` would make a
  second one; the initial states exclude it.
* `MeetNode` counts a target in handshake as a member (meet_node.go:91, 111).  If the handshake times
  out, nobody meets the node again and `ReplicateNode` stays Running for ever; `CreationEnds` excuses
  exactly this (`expired`).
* `ReplicateNode` may read the master's temporary id and name it after the handshake has ended: the
  command is refused and the plan fails without any fault (replicate_node.go:125, `EndsHaveCauses`).
* `AddSlots` in a plan that has not replicated yet waits for ever (add_slots.go:100).
* `VerifyCluster` may complete a plan that the reconciler does not take for done, since it looks neither at images nor
  at forgotten pods that still run.  The reconciler then plans again, and nothing in the code says that this comes to an end.
* `VerifyCluster` has no timeout while it is Converging, but once two minutes have passed since the first observation
  that was stored, the next one that differs from it fails the plan (verify_cluster.go:190).  Two equal
  observations need not be consecutive, since an unhealthy one between them resets nothing.
* `ForgetNode` after a half-done removal may take a seed that has forgotten the node already, and reports
  it as forgotten; `DeleteNode` then finds it in another view and fails the plan.  Gossip may bring the
  target back between `DeleteNode`'s check and its deletion, and a forgotten pod that still exists may
  serve as seed, so that a repeated removal fails.
* `EnsureNode` may create the pod twice: its own status write wakes the reconciler, and the pod's informer may lag.
  `AlreadyExists` fails the plan (ensure_node.go:100), though README.md:24 calls steps idempotent.  When owner reference and labels are both
  missing, the second update is made from the copy before the first and conflicts (ensure_node.go:146).  A pod
  that starts while it is being deleted for its old image fails the plan.
* `CONFIG SET maxmemory` is lost when the container restarts, and `WaitNodeReady` does not look at it.
* A namespace that the cache does not show yet lets the finalizer go too early; the owner reference
  and the garbage collector remove it (`DeletionEnds`).  The namespace is deleted by name without a uid; that someone
  else takes the name just then is excluded by assumption.

## Proofs

`PlanValidatorProofs` proves for any finite set of pods and ghosts and any set of slots that the
simulator's state is well typed, that `slotOwners` and the nodes' slot sets agree, that no
accepted step forgets, deletes or demotes a known owner, that slots move only to a master with a
ready replica, and that acceptance means a whole cluster.  The inductive invariant adds two facts
the code relies on without checking: a ready node has a pod, and a node that was forgotten
and met again is ready.  Its last theorem shows that the `checkInvariants` call after
each step is implied by the guards of the steps: it never rejects anything.

`GoPlannerProofs` proves, for any numbers of pods, slots, shards and replicas and any observation, that the
planner's runs are runs of the validator (`PlannerRunsAreValidatorRuns`): whatever is proved of the plans the VM
accepts holds of the deterministic planner's.  The builders' loops join lists of steps (`Joined`), so the proof
follows them: a list of numbers, of pods, of one shard's steps, and by induction on the number of lists the plan
(`PlannerInv`: the plan is a list of steps whose slots are slots and whose new pods are pods).  The
guards of the VM do the rest: they admit only ready nodes, which have pods.  The induction is over a set of
naturals that the proof names (`NaturalInduction`), which the provers can instantiate.

`AcceptedPlansAreFinal` shows that each of the seven builders has nothing to do in an accepted cluster.  It adds that a
plan is accepted for the spec's numbers (`SpecAccepted`) and that a member is a master or a replica
(`MembersHaveRole`), without which the reconciler could meet a node that the validator takes for neither.  `CreatedOnce` follows the cursor
(`CreationInv`): a slot that had an owner keeps one, so an `AddSlots` that has passed had slots nobody owned; a plan for a
new cluster ends only after its last `AddSlots`, and `slotRange` of its shards covers every slot (`SlotRangesCover`).

`AllocationsAreBalanced` follows the slots through a plan of any length.  `AllocationInv` sorts the plans by what they do to the slots: one moves none
(`KeepsSlots`), or was built for a cluster that has the right number of slot owners already (`KeepsShards`, the image change), or there are as many parts of the slots
as shards, even in size (`EvenParts`), and a master for each such that every step gives slots to the master of their part (`Directs`) and every
slot is with that master or a step still ahead gives it (`Pending`).  Only that the last step is the `VerifyCluster` is needed to conclude that nothing is
pending in an accepted plan.  The accepted cluster has as many slot owners as parts, so no master has two of them
(`MastersDiffer`).  That the parts are even is division again, for `balancedSlotRange` (scaling) and for `slotRange` (creation).

`ShardsReplacedOneByOne` is for `IntactPlannerSpec`, the planner's runs from any cluster without leftovers (or from none), as in the run `go_planner`, but of any size: with
leftovers the observation itself may have too many replicated masters.  It holds in each state on the way through a plan, so its invariant `ShardsInv` is about order.
`JoinedOrder` says of every loop of a builder that an element of one turn
stands after all of the earlier turns; hence `ImageDriftPlanOrder`: where a plan makes a replica of the i-th new group, the `DeleteNode` steps of the
replicas of all masters before the i-th stand before it.  With "a deleted pod stays away" (`DeletedStayAway`: the plan's new pods have
other ordinals than the observed ones) every replica follows the old master it was observed with, or
the new master of a shard before which all are gone (`FollowsOldOrNew`), and if m is the last such shard, the replicated masters are among
new ones up to m and old ones from m on: one more than the spec's shards.  The other plans that keep the number of shards let replicas
follow observed slot owners only (`OwnersStay`).

`PlansKeepRedundancy` holds of any observation, damaged ones too, and of every step on the way; `RedundancyInv`
is its invariant.  What a step may do depends on the steps before it, so each builder's list is shown to be one of
`FitLists`, of which each step fits (`Fits`) the set of those before it: a node that is given slots is *backed* by then
(`Backed`: it has, of its observed replicas that never go and those that earlier steps made it, the number of
the spec), and a replica is forgotten only when its master is backed or one that is given no slots any more and has been drained (`Drained`:
earlier steps take every slot it was observed with).  Such lists can be put one after the other (`FitConcat`, `FitJoined`,
`FitsLater`), so each builder (`ShardScaleInFramed`, `ImageDriftFramed`, ...) has to be looked at only once.  While the plan runs, `Guarded` ties these lists to
the topology: a replica that an earlier step made, or that was observed and never goes, is there (`ReplicasStay`), there are no others
(`ReplicasKnown`), and a drained master has only slots that no step took yet, thus none (`FixedLose`).  It rests on the VM's guards (a `ReplicateNode`
finds both nodes ready, a `ForgetNode` takes no slots) and on the new pods' ordinals, by which no new replica is an observed one and each has
one master (`GroupsApart`).

The same module proves for any number of slots and masters that the ranges of
`balancedSlotRange` are disjoint and cover the slots: the run `go_planner` sees five slots, the
program has 16384.  Only a range's witness by division is needed, no induction.

`PlanExecutionProofs` proves, for any number of steps, plans, edits and faults, type
correctness, that wakeups are kept, that steps run in order, that stored plans are current
(`PlansAreCurrent`) and that failed plans stay (`FailuresAreKept`; the last two also follow from the
refinement, which the run `execution` checks).  A step runs on a copy of a version that the server held earlier, so an
invariant about `server` alone is not inductive.  `IInv` speaks of every version still in
use (`Lagging`: the server's, the cached one and those under way): the steps its plan calls
Completed have been reported and its plan counts as accepted.  To that it adds what the
worker's copy may differ in: only a copy that is about to be written holds a plan that is not
stored yet, this plan targets the copy's spec, and while the copy is current the server has no
plan (`NewPlanInv`); a write without a requeue either changes the object or leaves it settled
(`PhaseInv`); a current copy of an object whose plan has failed keeps it (`FailedKeptInv`).
`InformerInv`, that the informer ends at the server's version, is what turns an empty
queue into knowledge about the server.

A cache may show the worker a plan whose later steps have run already.  `StepsNeverRunBackwards` rests on an order of the
versions that the informer still delivers (`OrderInv`): each is beyond the one before, in the same plan with at
least the same steps completed, or without that plan for good.  The cached version and every later one are beyond the
step that ran last (`RanInv`), so what the worker runs next is that step again or a later one.

`OrdinalsAreFresh` adds `OrdinalsInv` (every version in use names only ordinals below its own
`nextPodOrdinal`, and no version has a larger one than the server) under the assumption
`OrdinalsFit`: every ordinal has a successor that is an int32.  Without the assumption the property
is false: set `Ordinals` to contain `Int32Span - 1` and TLC finds a step that ensures such a pod.

`SlotMigrationProofs` proves, for any masters, slots, keys and faults, type correctness and the
three properties of the run `migration`.  No property is inductive alone, because the step acts on
a view that it read before its first command.  `RedisInv` says what the commands keep of the
masters: while a master other than the target owns a slot, no view names another owner
(`OwnerAgreed`), so an old view is either right or names nobody; keys and MIGRATING marks are
only at the owner.  Per slot, `TaskInv` says what a goroutine may rely on
at each command (after `MIGRATING` was accepted the source owns the slot until this goroutine takes it
away; after `SourceGives` nobody does) and `ViewInv` what the step's old view still says.  One
lemma per Redis command (`GivingKeeps`, `TakingKeeps`, ...) proves `RedisInv`; `OnlySlot`
and `OthersKeep` say that a goroutine disturbs no other slot; the actions follow from these.
Under full coverage the proof shows more than the property: `AddMissing` can never run.

`MigrationsFailForCauses` starts from masters that agree (`AgreedInit`): a view that
lags at the start may name a wrong owner, and any step that believes it is refused.  `CauseInv` then follows what the
step's old view can be wrong about.  Where a master knows no owner, no other knows one but the target, so the repair is never refused (`BlankInv`,
`RepairInv`).  A view that names the source is right until the slot's own goroutine changes it, and what that goroutine
has opened stays open (`SourceInv`, `OpenInv`).  What is left is a view that names a third master although the target owns the slot
(`Misled`), and only its command is refused (`RefusalMisled`, `CommandMoves`).  A goroutine cancels the others only after
a fault or such a refusal (`CancelInv`).

`PlanStatusProofs` proves that `PlanExecution` implements `PlanStatus`: initial states map to the initial
state, and each step to a step or a stutter.  Only the status write changes what a reader sees, but what it
writes was decided several actions earlier, on a copy.  `CopyInv` closes the gap: as long as the copy is
current, the plan in it is the stored one, the stored one after exactly one step of `PlanStatus`
(`StepRecorded`, `PlanSuperseded`), none, or a new one where none is stored (`PlanAdded`).  It
rests on the invariants of `PlanExecutionProofs`.

`NodeRemovalProofs` proves, for any members, leftovers, roles and faults, type correctness, that a slot owner
stays in every table and keeps its pod, and that a pod is deleted only while every owner has another
replica.  `OwnersInv` says that the removal of an owner never gets further than its first check, in whichever view: a
pod that has met the cluster knows all owners.  This is the hypothesis `NoStrangers`, and
`node_removal_stranger` shows that it cannot be dropped.  `RemovalsFailForCauses` says why a removal fails: while
none of the causes has come up (`Calm`), the members either all know the node, or those that were told refuse
to hear of it, or none knows it (`CalmInv`), so that no seed the list may put first shows a half-done removal.

`ClusterObjectsProofs` proves, for any number of images and faults, type correctness, that a plan leaves a
configured node (`NodesAreConfigured`), and that pods that have joined and a foreign namespace are kept
(`KeptApart`).  All decisions are made on cached copies, so the invariant says what a copy, however old, still tells of
the object: a deletion and a change of the image are not taken back (`ObjectInv`), a copy that
shows a namespace of ours means that the namespace is not foreign now (`ForeignInv`), a pod that has been met was in the cache with an
IP, and no copy loses it again (`JoinedInv`), pod and copy with the same uid have the same image (`ImageInv`),
and of a pod that only the controller has touched every copy has its uid and metadata
(`UntouchedInv`).  `EnsuredInv` is what holds between the two steps of the plan.  `StepsFailForCauses` adds that without a fault
nobody else touches the pod (`FaultlessInv`) and that then what a step has found stays: the namespace once it was seen or made
(`NamespaceInv`), the pod that was met (`MetInv`), the server that answered and its setting (`AnswersInv`).

`ClusterFormationProofs` proves, for any nodes, slots, plans and faults, type correctness and
`ReplicasBeforeSlots`.  `AddSlots` reads in the master's own table that it has a replica, which may be old
news.  `HeardInv` says that what a node has heard of another's master is true and that the replica
knows this master (a node says nothing of a master it is still shaking hands with); such a replica is not
lost, because only a handshake times out (`Supported`, `SupportStays`).  `AddInv` keeps the
replica between the read and the batches, `SlotsInv` after them.  The hypothesis `OneMaster` says that no plan
gives a node two masters (`FollowsInv`): the validator accepts such a plan, the executor follows it, and the
first master may then be left without a replica.

`VerifiedClustersAreWhole` needs more of the plan (`CarefulPlans`): it names as many owners as `VerifyCluster`
expects, each gets that number of replicas, no replica gets slots, and the verification comes last.  Without this the property is
false: a plan that makes two clusters may have each verified on its own.  The views are read one after the other, but a table
only says what was true, and roles and slots, once given, stay (`MastersInv`, `HeardSlotsInv`): what a view says of
an owner is at most what the owner holds, and what that holds is at most what the plan gives it (`OwnSlotsInv`,
`ToAddInv`).  A view in which the slots are covered and every owner has its replicas leaves no room between the two, so every view that
converged says what is (`ViewsAgree`).  `PlansEndForCauses` shows that without a fault no table can look degraded: all pods are ready,
and the earlier steps have left every replica with its master (`CalmInv`).

Assumptions of the proofs: the named `ASSUME`s of the modules; for `OrdinalsAreFresh`
the hypothesis `OrdinalsFit`; for `NodeRemovalProofs` the hypothesis `NoStrangers`; for
`ClusterFormationProofs` the hypotheses `OneMaster`, which both plans of the run satisfy, and `CarefulPlans`, which the Go planner's plan
there does (the other one gives its owner a replica less and never gets to its verification); for
`MigrationsFailForCauses` the initial states of `AgreedSpec`, which are those of the run.

Only model-checked: the liveness properties, for TLAPS has no ENABLED and no fairness.  Every invariant and every
safety property of the runs is a theorem.

## Not modelled, and why

* The RAG retriever (floating-point search that no other code calls), prompts, HTTP and
  flags (I/O and wording).
* Which of several diverging `CLUSTER NODES` views the observer prefers for the status (`VerifyCluster`
  accepts none of them), and the seeds an observation takes from a topology in the status.
* `planningInstabilityReason`: a choice in `PlanExecution`; the conditions and events of the status.
* The fallback of the Go planner, the language model: any plan, which is `PlanValidator`.
* The typed reading of step parameters and the errors of malformed ones, which the validator's schema
  check excludes; the executor's demand for a preceding `EnsureNode` or `WaitNodeReady`
  (wait_node_ready.go:31), which it does not.
* A composition of all modules: each step of the executor is modelled with the parts of the reconciler that
  matter to it (it is run again, its status write may be lost, the process may stop), and
  `PlanExecution` with every outcome a step may have.

## Plan

1. *Done*: `PlanValidator`, `GoPlanner`, `SlotAllocation`, `PlanExecution`, `SlotMigration`, their runs and
   proofs.
2. *Done*: `PlanStatus`, the refinement and its proof; `NodeRemoval`, `ClusterObjects` and
   `ClusterFormation` with proofs.
3. *Done*: proofs of `FailuresHaveCauses` in three modules, of `VerifiedViewsAgree`, `EndsHaveCauses` and
   `NoStepRunsBackwards`.
4. *Done*: proofs that a Go plan is a plan of `PlanValidator`, of `AcceptedPlansFinish`, `NothingIsCreatedTwice`, `SlotsAreBalanced`,
   `OneShardReplacedAtATime` and `RedundancyKept`.
5. Left: a composition of `PlanValidator` with the executor's preconditions.
