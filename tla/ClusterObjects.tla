---------------------------- MODULE ClusterObjects ----------------------------
(***************************************************************************)
(* The Kubernetes objects of one RedisCluster: the object with its         *)
(* finalizer, its namespace, and a pod that a plan makes with EnsureNode   *)
(* and WaitNodeReady (src/internal/controller/lifecycle.go and             *)
(* rediscluster_controller.go, src/internal/action/ensure_node.go and      *)
(* wait_node_ready.go).                                                    *)
(*                                                                         *)
(* The controller reads each kind of object from an informer of its own,   *)
(* which lags behind the API server; it writes to the API server and to    *)
(* Redis.  An update of a copy that is not the latest is a conflict.  One  *)
(* worker runs, and its commands interleave with everything else.          *)
(*                                                                         *)
(* The plan is stored as PlanExecution describes; here it is the latest.   *)
(* Nobody else makes a namespace of this name once it is ours.             *)
(***************************************************************************)
EXTENDS Naturals, Sequences

CONSTANTS
    NoPod,
    MaxImages,   \* bound on the images the user asks for, one after the other
    MaxFaults    \* bound on faults: see Fault

Images == 1 .. MaxImages

\* A pending pod has no IP, and dying is its deletionTimestamp.
Pods(uids) ==
    [uid : uids, image : Images, owner : {"none", "cluster", "other"},
     labelled : BOOLEAN, phase : {"pending", "running", "ready"}, dying : BOOLEAN]

ASSUME ClusterObjectsAssumption ==
    /\ MaxImages \in Nat \ {0}
    /\ MaxFaults \in Nat
    /\ NoPod \notin Pods(Nat)

VARIABLES
    object, seenObject, \* the RedisCluster, and the copy in the cache
    ns, seenNs,         \* "labelled" and "owned" namespaces are managed
    pod, seenPod,
    redis,              \* the server in the pod; it forgets CONFIG SET when restarted
    made,               \* the uid of the latest pod
    joined,             \* the uid of the pod that later steps have met
    listed,             \* the pod is in status.topology
    plan,
    pc,                 \* where a run of a step stands
    mine,               \* the copy of the pod that the run has read
    disturbed,          \* someone has restarted, removed or edited the pod
    faults

objectVars == <<object, seenObject>>
nsVars == <<ns, seenNs>>
redisVars == <<redis, joined>>
podVars == <<pod, seenPod, made>>
runVars == <<pc, mine>>
vars == <<objectVars, nsVars, podVars, redisVars, listed, plan, runVars,
          disturbed, faults>>

Objects == [state : {"new", "guarded", "deleting", "gone"}, image : Images]

Namespaces == {"none", "foreign", "labelled", "owned", "dying"}

PodObjects == Pods(1 .. made)

Steps == <<"EnsureNode", "WaitNodeReady">>

TypeOK ==
    /\ {object, seenObject} \subseteq Objects
    /\ {ns, seenNs} \subseteq Namespaces
    /\ {pod, seenPod, mine} \subseteq PodObjects \cup {NoPod}
    /\ redis \in {"down", "plain", "configured"}
    /\ pod = NoPod => redis = "down"
    /\ made \in Nat
    /\ joined \in 0 .. made
    /\ listed \in BOOLEAN
    /\ plan \in [image : Images, cur : DOMAIN Steps,
                 status : {"Running", "Completed", "Failed"}]
    /\ pc \in {"idle", "replan", "step", "labels", "config", "set", "check"}
    /\ disturbed \in BOOLEAN
    /\ faults \in 0 .. MaxFaults

NewPlan(image) == [image |-> image, cur |-> 1, status |-> "Running"]

Init ==
    /\ object = [state |-> "new", image |-> 1]
    /\ seenObject = object
    /\ ns \in {"none", "foreign", "labelled"}
    /\ seenNs = ns
    /\ pod = NoPod
    /\ seenPod = NoPod
    /\ redis = "down"
    /\ made = 0
    /\ joined = 0
    /\ listed = FALSE
    /\ plan = NewPlan(1)
    /\ pc = "idle"
    /\ mine = NoPod
    /\ disturbed = FALSE
    /\ faults = 0

Fault == faults < MaxFaults /\ faults' = faults + 1

EndRun == pc' = "idle" /\ mine' = NoPod

RecordPastTheEnd(outcome) ==
    plan' = IF outcome = "Completed"
            THEN [plan EXCEPT !.cur = @ + 1]
            ELSE [plan EXCEPT !.status = outcome]

Record(outcome) ==
    plan' = IF outcome = "Completed" /\ plan.cur < Len(Steps)
            THEN [plan EXCEPT !.cur = @ + 1]
            ELSE [plan EXCEPT !.status = outcome]

\* The step is over; the status write that says so may be lost.
Report(outcome) ==
    /\ EndRun
    /\ \/ Record(outcome) /\ UNCHANGED faults
       \/ Fault /\ UNCHANGED plan

\* The step runs again later.
Running == EndRun /\ UNCHANGED <<plan, faults>>

\* A call returns an error, for its reply is lost or it was not carried out.
CallFails == Fault /\ EndRun /\ Record("Failed")

\* A command has been carried out; its reply may be lost.
GoOn(next) ==
    \/ pc' = next /\ UNCHANGED <<mine, plan, faults>>
    \/ CallFails

-----------------------------------------------------------------------------
(***************************************************************************)
(* Reconcile, reconcileDelete and the namespace.                           *)
(***************************************************************************)

\* Update fails if the cached object is not the latest.
AddFinalizer ==
    /\ pc = "idle"
    /\ seenObject.state = "new"
    /\ object = seenObject
    /\ object' = [object EXCEPT !.state = "guarded"]
    /\ UNCHANGED <<seenObject, nsVars, podVars, redisVars, listed, plan, runVars,
                   disturbed, faults>>

ManagedNamespaceByName(n) == n # "none"

ManagedNamespace(n) == n \in {"labelled", "owned", "dying"}

CreatedWithoutOwner(n) == IF n = "none" THEN "labelled" ELSE n

\* Create, which fails if the namespace exists.
Created(n) == IF n = "none" THEN "owned" ELSE n

\* handleActivePlan: a plan that has ended is kept.
PlanPoint ==
    IF plan.image # seenObject.image THEN "replan"
    ELSE IF plan.status = "Running" THEN "step" ELSE "idle"

\* Reconcile up to the plan: after an error of ensureNamespace it runs again later.
EnsureNamespace ==
    /\ pc = "idle"
    /\ seenObject.state = "guarded"
    /\ IF seenNs = "none"
       THEN /\ ns' = Created(ns)
            /\ pc' = IF ns = "none" THEN PlanPoint ELSE "idle"
       ELSE /\ ManagedNamespace(seenNs)
            /\ pc' = PlanPoint
            /\ UNCHANGED ns
    /\ UNCHANGED <<objectVars, seenNs, podVars, redisVars, listed, plan, mine,
                   disturbed, faults>>

\* removeFinalizer; an Update fails if the cached object is not the latest.
RemoveFinalizer ==
    object' = IF object = seenObject THEN [object EXCEPT !.state = "gone"] ELSE object

\* The namespace is deleted by its name.
ReconcileDelete ==
    /\ pc = "idle"
    /\ seenObject.state = "deleting"
    /\ IF ManagedNamespace(seenNs)
       THEN /\ UNCHANGED object
            /\ ns' = IF seenNs = "dying" \/ ns = "none" THEN ns ELSE "dying"
       ELSE RemoveFinalizer /\ UNCHANGED ns
    /\ UNCHANGED <<seenObject, seenNs, podVars, redisVars, listed, plan, runVars,
                   disturbed, faults>>

\* A plan for an older spec is dropped, and one for the new follows.
Replan ==
    /\ pc = "replan"
    /\ EndRun
    /\ plan' = NewPlan(seenObject.image)
    /\ UNCHANGED <<objectVars, nsVars, podVars, redisVars, listed, disturbed, faults>>

At(action, point) == pc = point /\ Steps[plan.cur] = action

-----------------------------------------------------------------------------
(***************************************************************************)
(* EnsureNode.                                                             *)
(***************************************************************************)

Reaches(copy) == pod # NoPod /\ pod.uid = copy.uid /\ redis # "down"

DesiredPod ==
    [uid |-> made + 1, image |-> plan.image, owner |-> "cluster", labelled |-> TRUE,
     phase |-> "pending", dying |-> FALSE]

\* Create fails if the pod exists or the namespace takes no more pods.
CreatePod ==
    /\ seenPod = NoPod
    /\ IF pod = NoPod /\ ns \notin {"none", "dying"}
       THEN pod' = DesiredPod /\ made' = made + 1 /\ (Running \/ CallFails)
       ELSE Report("Failed") /\ UNCHANGED <<pod, made>>

PodSpecDriftBeforeStart(copy) == copy.image # plan.image /\ copy.phase = "pending"

PodSpecDrift(copy) == copy.image # plan.image

CanRecreateListed(copy) ==
    /\ ~listed
    /\ copy.owner = "cluster" \/ copy.labelled

CanRecreateDriftedPod(copy) ==
    /\ copy.phase = "pending"
    /\ ~listed
    /\ copy.owner = "cluster" \/ copy.labelled

DeleteDriftedOnce ==
    /\ seenPod # NoPod
    /\ PodSpecDrift(seenPod)
    /\ IF CanRecreateDriftedPod(seenPod) /\ pod # NoPod
       THEN pod' = [pod EXCEPT !.dying = TRUE] /\ (Running \/ CallFails)
       ELSE Report("Failed") /\ UNCHANGED pod
    /\ UNCHANGED made

\* The pod is deleted by its name; when there is none it runs again as well.
DeleteDrifted ==
    /\ seenPod # NoPod
    /\ PodSpecDrift(seenPod)
    /\ IF CanRecreateDriftedPod(seenPod)
       THEN /\ pod' = IF pod = NoPod THEN pod ELSE [pod EXCEPT !.dying = TRUE]
            /\ Running \/ CallFails
       ELSE Report("Failed") /\ UNCHANGED pod
    /\ UNCHANGED made

\* A pod of another controller cannot be adopted.
AdoptPod ==
    /\ seenPod # NoPod
    /\ ~PodSpecDrift(seenPod)
    /\ seenPod.owner # "cluster"
    /\ IF seenPod.owner = "none" /\ pod = seenPod
       THEN /\ pod' = [pod EXCEPT !.owner = "cluster"]
            /\ \/ /\ pc' = "labels" /\ mine' = seenPod
                  /\ UNCHANGED <<plan, faults>>
               \/ CallFails
       ELSE Report("Failed") /\ UNCHANGED pod
    /\ UNCHANGED made

KeepPod ==
    /\ seenPod # NoPod
    /\ ~PodSpecDrift(seenPod)
    /\ seenPod.owner = "cluster"
    /\ pc' = "labels"
    /\ mine' = seenPod
    /\ UNCHANGED <<pod, made, plan, faults>>

\* The first read or write of the step fails without effect.
ReadOrWriteFails == CallFails /\ UNCHANGED <<pod, made>>

EnsureNode ==
    /\ At("EnsureNode", "step")
    /\ CreatePod \/ DeleteDrifted \/ AdoptPod \/ KeepPod \/ ReadOrWriteFails
    /\ UNCHANGED <<objectVars, nsVars, seenPod, redisVars, listed, disturbed>>

\* The second update is made from the copy that was read before the first.
PatchMetadata ==
    /\ At("EnsureNode", "labels")
    /\ IF mine.labelled THEN GoOn("config") /\ UNCHANGED pod
       ELSE IF pod = mine
       THEN pod' = [pod EXCEPT !.labelled = TRUE] /\ GoOn("config")
       ELSE Report("Failed") /\ UNCHANGED pod
    /\ UNCHANGED <<objectVars, nsVars, seenPod, made, redisVars, listed, disturbed>>

\* ensureMaxmemory: PING and CONFIG GET.
GetMaxmemory ==
    /\ At("EnsureNode", "config")
    /\ IF mine.phase = "pending" \/ ~Reaches(mine) THEN Running
       ELSE IF redis = "configured" THEN Report("Completed")
       ELSE GoOn("set")
    /\ UNCHANGED <<objectVars, nsVars, podVars, redisVars, listed, disturbed>>

SetMaxmemory ==
    /\ At("EnsureNode", "set")
    /\ IF Reaches(mine)
       THEN redis' = "configured" /\ GoOn("check")
       ELSE Report("Failed") /\ UNCHANGED redis
    /\ UNCHANGED <<objectVars, nsVars, podVars, joined, listed, disturbed>>

CheckMaxmemory ==
    /\ At("EnsureNode", "check")
    /\ IF ~Reaches(mine) THEN Running
       ELSE Report(IF redis = "configured" THEN "Completed" ELSE "Failed")
    /\ UNCHANGED <<objectVars, nsVars, podVars, redisVars, listed, disturbed>>

\* WaitNodeReady, which writes nothing but its outcome and the topology's node id.
WaitNodeReady ==
    /\ At("WaitNodeReady", "step")
    /\ IF seenPod = NoPod THEN Report("Failed")
       ELSE IF seenPod.phase = "ready" /\ Reaches(seenPod) THEN Report("Completed")
       ELSE Running
    /\ UNCHANGED <<objectVars, nsVars, podVars, redisVars, listed, disturbed>>

-----------------------------------------------------------------------------
(***************************************************************************)
(* The user, the API server, the kubelet, the informers and the process.   *)
(***************************************************************************)

\* Without a finalizer the object is gone at once.
UserDeletes ==
    /\ object.state \in {"new", "guarded"}
    /\ object' = [object EXCEPT !.state = IF @ = "new" THEN "gone" ELSE "deleting"]
    /\ UNCHANGED <<seenObject, nsVars, podVars, redisVars, listed, plan, runVars,
                   disturbed, faults>>

UserEdits ==
    /\ object.state \in {"new", "guarded"}
    /\ object.image < MaxImages
    /\ object' = [object EXCEPT !.image = @ + 1]
    /\ UNCHANGED <<seenObject, nsVars, podVars, redisVars, listed, plan, runVars,
                   disturbed, faults>>

ForeignNamespaceLeaves ==
    /\ ns = "foreign"
    /\ ns' = "none"
    /\ UNCHANGED <<objectVars, seenNs, podVars, redisVars, listed, plan, runVars,
                   disturbed, faults>>

\* The namespace is the object's dependent.
GarbageCollect ==
    /\ object.state = "gone"
    /\ ns = "owned"
    /\ ns' = "dying"
    /\ UNCHANGED <<objectVars, seenNs, podVars, redisVars, listed, plan, runVars,
                   disturbed, faults>>

\* The pods go first.
NamespaceDies ==
    /\ ns = "dying"
    /\ IF pod # NoPod
       THEN pod' = NoPod /\ redis' = "down" /\ UNCHANGED ns
       ELSE ns' = "none" /\ UNCHANGED <<pod, redis>>
    /\ UNCHANGED <<objectVars, seenNs, seenPod, made, joined, listed, plan, runVars,
                   disturbed, faults>>

PodIsRemoved ==
    /\ pod # NoPod
    /\ pod.dying
    /\ pod' = NoPod
    /\ redis' = "down"
    /\ UNCHANGED <<objectVars, nsVars, seenPod, made, joined, listed, plan, runVars,
                   disturbed, faults>>

\* The pod gets its IP, Redis starts in it, and readiness follows Redis.
PodRuns ==
    /\ pod # NoPod
    /\ \/ /\ pod.phase = "pending"
          /\ pod' = [pod EXCEPT !.phase = "running"]
          /\ UNCHANGED redis
       \/ /\ pod.phase # "pending" /\ redis = "down"
          /\ redis' = "plain"
          /\ UNCHANGED pod
       \/ /\ pod.phase = "running" /\ redis # "down"
          /\ pod' = [pod EXCEPT !.phase = "ready"]
          /\ UNCHANGED redis
       \/ /\ pod.phase = "ready" /\ redis = "down"
          /\ pod' = [pod EXCEPT !.phase = "running"]
          /\ UNCHANGED redis
    /\ UNCHANGED <<objectVars, nsVars, seenPod, made, joined, listed, plan, runVars,
                   disturbed, faults>>

\* The container restarts, the pod is evicted, or someone takes its metadata away
\* or makes a pod of this name.
PodIsDisturbed ==
    /\ Fault
    /\ disturbed' = TRUE
    /\ \/ /\ redis # "down"
          /\ redis' = "down"
          /\ UNCHANGED <<pod, made>>
       \/ /\ pod # NoPod
          /\ \/ pod' = [pod EXCEPT !.dying = TRUE]
             \/ \E labelled \in BOOLEAN :
                   pod' = [pod EXCEPT !.owner = "none", !.labelled = labelled]
             \/ pod' = [pod EXCEPT !.labelled = FALSE]
          /\ UNCHANGED <<redis, made>>
       \/ /\ pod = NoPod /\ ns \in {"labelled", "owned"}
          /\ made' = made + 1
          /\ \E image \in Images, owner \in {"none", "other"} :
               pod' = [uid |-> made + 1, image |-> image, owner |-> owner,
                       labelled |-> FALSE, phase |-> "pending", dying |-> FALSE]
          /\ UNCHANGED redis
    /\ UNCHANGED <<objectVars, nsVars, seenPod, joined, listed, plan, runVars>>

\* MeetNode, in the steps that follow.
Join ==
    /\ pc = "idle"
    /\ plan.status = "Completed"
    /\ seenPod # NoPod
    /\ seenPod.phase # "pending"
    /\ Reaches(seenPod)
    /\ joined' = pod.uid
    /\ UNCHANGED <<objectVars, nsVars, podVars, redis, listed, plan, runVars,
                   disturbed, faults>>

\* rebuildTopology lists the ready pods that have joined.
RebuildTopology ==
    /\ pc = "idle"
    /\ listed' = (seenPod # NoPod /\ seenPod.phase = "ready" /\ seenPod.uid = joined)
    /\ UNCHANGED <<objectVars, nsVars, podVars, redisVars, plan, runVars,
                   disturbed, faults>>

Informers ==
    /\ \/ seenObject' = object /\ UNCHANGED <<seenNs, seenPod>>
       \/ seenNs' = ns /\ UNCHANGED <<seenObject, seenPod>>
       \/ seenPod' = pod /\ UNCHANGED <<seenObject, seenNs>>
    /\ UNCHANGED <<object, ns, pod, made, redisVars, listed, plan, runVars,
                   disturbed, faults>>

Restart ==
    /\ pc # "idle"
    /\ Fault
    /\ EndRun
    /\ UNCHANGED <<objectVars, nsVars, podVars, redisVars, listed, plan, disturbed>>

Run ==
    \/ AddFinalizer \/ EnsureNamespace \/ ReconcileDelete \/ Replan
    \/ EnsureNode \/ PatchMetadata \/ GetMaxmemory \/ SetMaxmemory \/ CheckMaxmemory
    \/ WaitNodeReady

Kubernetes == GarbageCollect \/ NamespaceDies \/ PodIsRemoved

Next ==
    \/ Run
    \/ Kubernetes
    \/ Informers
    \/ PodRuns
    \/ UserDeletes \/ UserEdits \/ ForeignNamespaceLeaves
    \/ PodIsDisturbed
    \/ Join \/ RebuildTopology
    \/ Restart

Spec == Init /\ [][Next]_vars

\* The work queue runs again what has failed, asks for a requeue or has seen an
\* event; the informers catch up, and Kubernetes collects and deletes.
Fairness ==
    /\ WF_vars(Run)
    /\ WF_vars(Kubernetes)
    /\ WF_vars(Informers)

FairSpec == Spec /\ Fairness

-----------------------------------------------------------------------------
(***************************************************************************)
(* What the controller promises of the objects.                            *)
(***************************************************************************)

\* A plan that has made the node leaves it as the plan wants it, of the plan's
\* image, with its metadata and its memory limit, though a status write or a reply
\* was lost and the caches lag.  Only someone else's hands on the pod are excused:
\* the limit is not kept when the container restarts, and WaitNodeReady does not
\* look at it (ensureNode, ensureMaxmemory, waitNodeReady).
ReadyNodesAreConfigured ==
    plan.status = "Completed" /\ object.state = "guarded" /\ ~disturbed =>
        /\ pod # NoPod
        /\ pod.image = plan.image
        /\ pod.owner = "cluster" /\ pod.labelled /\ ~pod.dying
        /\ redis = "configured"

\* Without a fault a step fails for one of three reasons only: the object is being
\* deleted; the cache does not show yet the pod that an earlier run of the step has
\* made, so that it is made again; or a pod of the old image has started, be it
\* while it was being deleted for that image (createPod, reconcileExistingPod, waitNodeReady).
FailuresHaveCauses ==
    [][plan.status = "Running" /\ plan'.status = "Failed" /\ faults' = 0 =>
         \/ object.state # "guarded"
         \/ pod # NoPod /\ seenPod = NoPod
         \/ /\ seenPod # NoPod
            /\ seenPod.image # plan.image
            /\ seenPod.phase # "pending"]_vars

\* The controller never deletes a pod that has joined the cluster, whatever image
\* is asked for and whether or not the topology in the status lists it yet, nor a
\* namespace that had the name before the controller made one, though it decides by
\* cached copies and deletes by name (canRecreateDriftedPod, reconcileDelete).  A pod
\* that replaces a deleted one under its name has not joined and may be deleted.
OthersAreKept ==
    [][/\ ns = "foreign" => ns' # "dying"
       /\ pod # NoPod /\ pod.uid = joined /\ ~pod.dying /\ pod' # NoPod /\ pod'.dying =>
            disturbed' /\ faults' # faults]_vars

\* When the user deletes the RedisCluster, it goes in the end, and so do its
\* namespace and pod, though a namespace that the cache does not show yet lets the
\* finalizer go too early (reconcileDelete, ensureNamespace's owner reference).
DeletionEnds ==
    object.state = "deleting" ~>
        object.state = "gone" /\ ns \in {"none", "foreign"} /\ pod = NoPod
=============================================================================
