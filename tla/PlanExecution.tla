---------------------------- MODULE PlanExecution ----------------------------
(***************************************************************************)
(* The reconciler (src/internal/controller): one worker that reads the     *)
(* RedisCluster object from an informer cache, advances the plan stored in *)
(* its status by one step, and writes the status back under optimistic     *)
(* concurrency.  The object on the API server, the cache that lags behind  *)
(* it, the work queue and the worker's private copy are separate, so that  *)
(* a step runs before its result is recorded, on a copy that may be old.   *)
(*                                                                         *)
(* The object is live: it has its finalizer and its namespace and is not   *)
(* being deleted.  Which step does what to Redis is left open here.        *)
(***************************************************************************)
EXTENDS Integers, Sequences

CONSTANTS
    NumSteps,       \* steps in a plan; the last one is VerifyCluster
    Ordinals,       \* the N of the redis-<N> names that EnsureNode steps use
    Int32Span,      \* 2^31: NextPodOrdinal is an int32
    NoPlan,         \* a nil status.activePlan
    MaxGeneration,  \* bound on spec edits
    MaxPlans,       \* bound on accepted plans
    MaxFaults       \* bound on restarts, API errors, repairs, drifts, and plans
                    \* that complete although the topology does not match

Steps == 1..NumSteps
Generations == 1..MaxGeneration

StepStates == {"Pending", "Running", "Completed", "Failed"}
PlanStates == {"Running", "Completed", "Failed", "Superseded"}

Plans == [id : 1..MaxPlans, target : Generations, pods : SUBSET Ordinals,
          steps : [Steps -> StepStates], status : PlanStates]

\* A version of the object.  ready is the generation for which the condition
\* Ready is True, and 0 when it is not.
Versions == [gen : Generations, plan : Plans \cup {NoPlan}, next : Nat,
             ready : {0} \cup Generations]

ASSUME PlanExecutionAssumption ==
    /\ NumSteps \in Nat \ {0}
    /\ Ordinals \subseteq Nat
    /\ Int32Span \in Nat \ {0}
    /\ NoPlan \notin Plans
    /\ MaxGeneration \in Nat \ {0}
    /\ MaxPlans \in Nat
    /\ MaxFaults \in Nat

VARIABLES
    server,       \* the object on the API server
    undelivered,  \* the versions the informer has not received, oldest first
    cache,        \* the version in the informer's cache
    queued,       \* the object's key is in the work queue, or due to be
    pc,           \* what the worker does next
    work,         \* the worker's copy of the object
    current,      \* the worker's copy was read from the server's version
    requeue,      \* the result the worker will return asks for a requeue
    world,        \* the generations whose spec the live Redis topology matches
    accepted,     \* history: how many plans the status has held
    ran,          \* history: the plan id and index of the last step executed
    reported,     \* history: the steps the driver reported Completed
    ensured,      \* history: the ordinals of the pods that executed plans ensure
    faults        \* history: how many faults have happened

apiVars == <<server, undelivered, cache>>
workerVars == <<pc, work, current, requeue>>
historyVars == <<accepted, ran, reported, ensured, faults>>

vars == <<apiVars, queued, workerVars, world, historyVars>>

TypeOK ==
    /\ server \in Versions
    /\ undelivered \in Seq(Versions)
    /\ cache \in Versions
    /\ queued \in BOOLEAN
    /\ pc \in {"idle", "execute", "observe", "planner", "write"}
    /\ work \in Versions
    /\ current \in BOOLEAN
    /\ requeue \in BOOLEAN
    /\ world \in SUBSET Generations
    /\ accepted \in 0..MaxPlans
    /\ ran \in (0..MaxPlans) \X (0..NumSteps)
    /\ reported \in SUBSET ((1..MaxPlans) \X Steps)
    /\ ensured \in SUBSET Ordinals
    /\ faults \in 0..MaxFaults

-----------------------------------------------------------------------------
(***************************************************************************)
(* What the status says: planState, nextPendingStep and the ordinals.      *)
(***************************************************************************)
Superseded(plan) == plan.status = "Superseded"

Failed(plan) ==
    ~Superseded(plan) /\ \E i \in Steps : plan.steps[i] = "Failed"

Completed(plan) ==
    ~Superseded(plan) /\ \A i \in Steps : plan.steps[i] = "Completed"

Running(plan) == ~Superseded(plan) /\ ~Failed(plan) /\ ~Completed(plan)

\* i is the step nextPendingStep returns; no such step stands for -1.
NextPending(plan, i) ==
    /\ \A j \in 1..(i - 1) : plan.steps[j] = "Completed"
    /\ plan.steps[i] \notin {"Completed", "Failed"}

\* The conversion int32(n) of a non-negative int.
Int32(n) ==
    IF n < Int32Span THEN n
    ELSE ((n + Int32Span) % (2 * Int32Span)) - Int32Span

Highest(S) == {p \in S : \A q \in S : q <= p}

\* The candidate takes the place of next only if it is larger.
Raise(next, candidates) ==
    IF \E n \in candidates : n > next
    THEN CHOOSE n \in candidates : n > next ELSE next

\* bumpNextPodOrdinal and bumpNextPodOrdinalFromObserved convert the successor
\* of the highest ordinal.
Bump(next, pods) == Raise(next, {Int32(p + 1) : p \in Highest(pods)})

\* advanceNextPodOrdinalFromPlan takes the highest of the converted successors.
AdvanceToOrdinal(next, pods) == Raise(next, Highest({Int32(p) : p \in pods}))

Advance(next, pods) == Raise(next, Highest({Int32(p + 1) : p \in pods}))

-----------------------------------------------------------------------------
\* The object as the user created it.
NewObject == [gen |-> 1, plan |-> NoPlan, next |-> 0, ready |-> 0]

Init ==
    /\ server = NewObject
    /\ undelivered = <<>>
    /\ cache = server
    /\ queued = TRUE
    /\ pc = "idle"
    /\ work = NewObject
    /\ current = FALSE
    /\ requeue = FALSE
    /\ world = {}
    /\ accepted = 0
    /\ ran = <<0, 0>>
    /\ reported = {}
    /\ ensured = {}
    /\ faults = 0

\* The API server stores version: every reader of an older one is now stale.
Publish(version) ==
    /\ server' = version
    /\ undelivered' = Append(undelivered, version)
    /\ UNCHANGED cache

\* The worker's copy and result are gone.
Idle ==
    /\ pc' = "idle"
    /\ work' = NewObject
    /\ current' = FALSE
    /\ requeue' = FALSE

Fault == faults < MaxFaults /\ faults' = faults + 1

\* The user changes the spec.
EditSpec ==
    /\ server.gen < MaxGeneration
    /\ Publish([server EXCEPT !.gen = @ + 1])
    /\ current' = FALSE
    /\ UNCHANGED <<queued, pc, work, requeue, world, historyVars>>

Deliver ==
    /\ undelivered # <<>>
    /\ cache' = Head(undelivered)
    /\ undelivered' = Tail(undelivered)
    /\ queued' = TRUE
    /\ UNCHANGED <<server, workerVars, world, historyVars>>

\* The live topology changes by itself, and a managed pod with it: the pod's
\* event enqueues its owner.
Drift ==
    /\ Fault
    /\ world' \in SUBSET Generations
    /\ queued' = TRUE
    /\ UNCHANGED <<apiVars, workerVars, accepted, ran, reported, ensured>>

\* The process stops anywhere; the new one lists the objects and enqueues them.
Restart ==
    /\ Fault
    /\ cache' = server
    /\ undelivered' = <<>>
    /\ queued' = TRUE
    /\ Idle
    /\ UNCHANGED <<server, world, accepted, ran, reported, ensured>>

-----------------------------------------------------------------------------
(***************************************************************************)
(* Reconcile: the read and the branches of handleActivePlan.               *)
(***************************************************************************)
\* bumpNextPodOrdinal on the copy just read.
Loaded ==
    IF cache.plan = NoPlan THEN cache
    ELSE [cache EXCEPT !.next = Bump(@, cache.plan.pods)]

Take ==
    /\ pc = "idle"
    /\ queued
    /\ queued' = FALSE
    /\ current' = (undelivered = <<>>)
    /\ UNCHANGED <<apiVars, world, historyVars>>

\* The reconcile ends with finish, on this copy and with this result.
Finish(version, again) ==
    /\ pc' = "write"
    /\ work' = version
    /\ requeue' = again

HasPlan == cache.plan # NoPlan

TargetsAnySpec == HasPlan

TargetsCurrentSpec == HasPlan /\ cache.plan.target = cache.gen

StartPlanning ==
    /\ Take
    /\ ~HasPlan
    /\ pc' = "observe"
    /\ work' = Loaded
    /\ UNCHANGED requeue

ClearOutdatedPlan ==
    /\ Take
    /\ HasPlan
    /\ ~TargetsCurrentSpec
    /\ Finish([Loaded EXCEPT !.plan = NoPlan, !.ready = 0], TRUE)

StartStep ==
    /\ Take
    /\ TargetsCurrentSpec
    /\ Running(cache.plan)
    /\ pc' = "execute"
    /\ work' = Loaded
    /\ UNCHANGED requeue

ClearFinishedPlan ==
    /\ Take
    /\ TargetsCurrentSpec
    /\ Completed(cache.plan) \/ Superseded(cache.plan)
    /\ Finish([Loaded EXCEPT !.plan = NoPlan], TRUE)

RetainFailedPlanCleared ==
    /\ Take
    /\ TargetsCurrentSpec
    /\ Failed(cache.plan)
    /\ Finish([Loaded EXCEPT !.plan = NoPlan, !.ready = 0], TRUE)

RetainFailedPlan ==
    /\ Take
    /\ TargetsCurrentSpec
    /\ Failed(cache.plan)
    /\ Finish([Loaded EXCEPT !.plan.status = "Failed", !.ready = 0], FALSE)

-----------------------------------------------------------------------------
(***************************************************************************)
(* executeNextStep: the driver call, then the outcome on the copy.         *)
(***************************************************************************)
StepResult(i, state) == [work.plan EXCEPT !.steps[i] = state]

\* VerifyCluster only observes; any other step may change the topology, and a
\* failing or unfinished one too.
TopologyMayChange(i) ==
    /\ world' \in SUBSET Generations
    /\ i = NumSteps => world' = world

\* VerifyCluster reads neither the images nor the pods that have left the
\* cluster, so it may complete a plan whose topology does not match the spec.
StepCompleted(i) ==
    LET plan == StepResult(i, "Completed") IN
    /\ TopologyMayChange(i)
    /\ reported' = reported \cup {<<plan.id, i>>}
    /\ Finish([work EXCEPT !.plan =
                 IF Completed(plan)
                 THEN [plan EXCEPT !.status = "Completed"] ELSE plan], TRUE)
    /\ IF i = NumSteps /\ work.gen \notin world THEN Fault ELSE UNCHANGED faults

StepRunningForgotten(i) ==
    /\ TopologyMayChange(i)
    /\ Finish([work EXCEPT !.plan = StepResult(i, "Running")], FALSE)
    /\ UNCHANGED <<reported, faults>>

StepRunningRecordedAsDone(i) ==
    /\ TopologyMayChange(i)
    /\ Finish([work EXCEPT !.plan = StepResult(i, "Completed")], TRUE)
    /\ UNCHANGED <<reported, faults>>

StepRunning(i) ==
    /\ TopologyMayChange(i)
    /\ Finish([work EXCEPT !.plan = StepResult(i, "Running")], TRUE)
    /\ UNCHANGED <<reported, faults>>

StepFailed(i) ==
    /\ TopologyMayChange(i)
    /\ Finish([work EXCEPT
                 !.plan = [StepResult(i, "Failed") EXCEPT !.status = "Failed"],
                 !.ready = 0], FALSE)
    /\ UNCHANGED <<reported, faults>>

StepSupersedesItself(i) ==
    /\ i = NumSteps
    /\ Fault
    /\ Finish([work EXCEPT !.plan = StepResult(i, "Superseded"), !.ready = 0], TRUE)
    /\ UNCHANGED <<world, reported>>

\* VerifyCluster found the topology in need of repair: plan again.
StepSupersedes(i) ==
    /\ i = NumSteps
    /\ Fault
    /\ Finish([work EXCEPT
                 !.plan = [StepResult(i, "Running") EXCEPT !.status = "Superseded"],
                 !.ready = 0], TRUE)
    /\ UNCHANGED <<world, reported>>

ExecuteStep ==
    /\ pc = "execute"
    /\ \E i \in Steps :
         /\ NextPending(work.plan, i)
         /\ ran' = <<work.plan.id, i>>
         /\ ensured' = ensured \cup work.plan.pods
         /\ \/ StepCompleted(i)
            \/ StepRunning(i)
            \/ StepFailed(i)
            \/ StepSupersedes(i)
    /\ UNCHANGED <<apiVars, queued, current, accepted>>

-----------------------------------------------------------------------------
(***************************************************************************)
(* reconcilePlan: observe, compare, wait, ask the planner, validate.       *)
(***************************************************************************)
\* bumpNextPodOrdinalFromObserved: the pods observed are some of the pods that
\* plans ensured.
ObservationFails ==
    /\ pc = "observe"
    /\ Finish(work, TRUE)
    /\ UNCHANGED <<apiVars, queued, current, world, historyVars>>

TopologyMatches ==
    /\ pc = "observe"
    /\ work.gen \in world
    /\ \E pods \in SUBSET ensured :
         Finish([work EXCEPT !.next = Bump(@, pods), !.ready = work.gen], FALSE)
    /\ UNCHANGED <<apiVars, queued, current, world, historyVars>>

\* The view is not stable, and not for long enough to plan a repair.
WaitForStableCluster ==
    /\ pc = "observe"
    /\ work.gen \notin world
    /\ \E pods \in SUBSET ensured :
         Finish([work EXCEPT !.next = Bump(@, pods), !.ready = 0], TRUE)
    /\ UNCHANGED <<apiVars, queued, current, world, historyVars>>

CallPlanner ==
    /\ pc = "observe"
    /\ work.gen \notin world
    /\ pc' = "planner"
    /\ \E pods \in SUBSET ensured : work' = [work EXCEPT !.next = Bump(@, pods)]
    /\ UNCHANGED <<apiVars, queued, current, requeue, world, historyVars>>

\* The planner fails, has no plan, or its plan is rejected.
PlannerFails ==
    /\ pc = "planner"
    /\ Finish(work, TRUE)
    /\ UNCHANGED <<apiVars, queued, current, world, historyVars>>

NewPlan(pods) ==
    [id |-> accepted + 1, target |-> work.gen, pods |-> pods,
     steps |-> [i \in Steps |-> "Pending"], status |-> "Running"]

AcceptPlan ==
    /\ pc = "planner"
    /\ accepted < MaxPlans
    /\ \E pods \in SUBSET Ordinals :
         Finish([work EXCEPT !.next = Advance(@, pods), !.plan = NewPlan(pods)],
                FALSE)
    /\ UNCHANGED <<apiVars, queued, current, world, historyVars>>

-----------------------------------------------------------------------------
(***************************************************************************)
(* finish: Status().Update.  An update that changes nothing makes no new   *)
(* version and no event.                                                   *)
(***************************************************************************)
NewPlanStored == work.plan # NoPlan /\ work.plan.id = accepted + 1

Store ==
    /\ IF work = server THEN UNCHANGED apiVars ELSE Publish(work)
    /\ accepted' = IF NewPlanStored THEN accepted + 1 ELSE accepted

FinishWrite(again) ==
    /\ Idle
    /\ queued' = (queued \/ again)
    /\ UNCHANGED <<world, ran, reported, ensured>>

WriteUnchecked ==
    /\ pc = "write"
    /\ FinishWrite(requeue)
    /\ Publish([work EXCEPT !.gen = server.gen])
    /\ accepted' = IF NewPlanStored THEN accepted + 1 ELSE accepted
    /\ UNCHANGED faults

Write ==
    /\ pc = "write"
    /\ current
    /\ FinishWrite(requeue)
    /\ Store
    /\ UNCHANGED faults

\* The copy is stale: the update is refused and the reconcile runs again.
WriteConflict ==
    /\ pc = "write"
    /\ ~current
    /\ FinishWrite(TRUE)
    /\ UNCHANGED <<apiVars, accepted, faults>>

\* The update fails otherwise, before or after it was stored.
WriteError ==
    /\ pc = "write"
    /\ Fault
    /\ FinishWrite(TRUE)
    /\ \/ UNCHANGED <<apiVars, accepted>>
       \/ current /\ Store

Reconcile ==
    \/ StartPlanning \/ ClearOutdatedPlan \/ StartStep
    \/ ClearFinishedPlan \/ RetainFailedPlan
    \/ ExecuteStep
    \/ ObservationFails \/ TopologyMatches \/ WaitForStableCluster \/ CallPlanner
    \/ PlannerFails \/ AcceptPlan
    \/ Write \/ WriteConflict

Environment == EditSpec \/ Deliver \/ Drift \/ Restart \/ WriteError

Next == Reconcile \/ Environment

Spec == Init /\ [][Next]_vars

\* A step that the driver ends, with success or for good.
StepEnds ==
    /\ pc = "execute"
    /\ ExecuteStep
    /\ \E i \in Steps :
         /\ work'.plan.steps[i] # work.plan.steps[i]
         /\ work'.plan.steps[i] \in {"Completed", "Failed"}

\* The observation gets through, and the wait for a stable cluster is over:
\* planning starts after verifyStableTimeout at the latest.
ObservationEnds == TopologyMatches \/ CallPlanner

\* The worker keeps taking the key and the informer keeps receiving.
WorkerSpec == Spec /\ WF_vars(Reconcile) /\ WF_vars(Deliver)

\* And no step runs for ever, no observation and no planner fails for ever.
DriverAndPlannerEnd ==
    SF_vars(StepEnds) /\ SF_vars(ObservationEnds) /\ SF_vars(AcceptPlan)

-----------------------------------------------------------------------------
\* A step runs only after the driver reported every earlier step of its plan
\* Completed, however stale the copy that executeNextStep works on.
StepsRunInOrder ==
    [][ran' # ran => \A j \in 1..(ran'[2] - 1) : <<ran'[1], j>> \in reported]_vars

\* A lagging cache, a conflict or a restart can repeat the last step but never
\* an earlier one, nor a step of a plan that another plan has followed.
NoStepRunsBackwards ==
    [][ran' # ran =>
          \/ ran'[1] > ran[1]
          \/ ran'[1] = ran[1] /\ ran'[2] >= ran[2]]_vars

\* A plan made while the spec was edited, or while another plan was stored, is
\* never stored: it targets the spec of the object it is stored in, and that
\* object had no plan.
StoredPlansAreCurrent ==
    [][accepted' # accepted =>
          /\ server.plan = NoPlan
          /\ server'.plan.target = server'.gen]_vars

\* A failed plan stays in the status until the user edits the spec: no retry,
\* no replanning and no restart removes it.
FailedPlansStay ==
    [][server.plan # NoPlan /\ Failed(server.plan)
         /\ server.plan.target = server.gen /\ server'.gen = server.gen
       => server'.plan # NoPlan /\ Failed(server'.plan)]_vars

\* Nothing is left to do: Ready for the spec, or a plan for it has failed.
Settled(version) ==
    \/ version.plan = NoPlan /\ version.ready = version.gen
    \/ /\ version.plan # NoPlan
       /\ version.plan.target = version.gen
       /\ Failed(version.plan)

\* No wakeup is lost: several returns of Reconcile ask for no requeue and rely
\* on the event of their own status update, which an update without effect
\* does not make.
NoLostWakeup ==
    pc = "idle" /\ ~queued /\ undelivered = <<>> => Settled(server)

\* The next ordinal is above every ordinal that an executed plan names, so a
\* planner that starts from it gives no pod a name used before.
EnsuredBelowNext == \A p \in ensured : p < server.next

\* A plan for an older spec is dropped, whatever the driver does.
OutdatedPlansAreDropped ==
    (server.plan # NoPlan /\ server.plan.target # server.gen)
        ~> (server.plan = NoPlan \/ server.plan.target = server.gen)

\* Once edits and faults stop, the object settles and stays settled, if the
\* driver and the planner come to an end.  A plan that VerifyCluster completes
\* although the topology does not match the spec is one of these faults: the
\* reconciler plans again after it, so without end they keep it from settling.
EventuallySettled == DriverAndPlannerEnd => <>[]Settled(server)

-----------------------------------------------------------------------------
(***************************************************************************)
(* The status that the API server holds implements PlanStatus.             *)
(***************************************************************************)

\* What PlanStatus sees of a plan: not the names of its pods.
StatusOf(plan) ==
    IF plan = NoPlan THEN {}
    ELSE {[id |-> plan.id, target |-> plan.target, steps |-> plan.steps,
           status |-> IF Superseded(plan) THEN "Superseded" ELSE "Active"]}

Status == INSTANCE PlanStatus WITH spec <- server.gen, active <- StatusOf(server.plan)

\* Whoever reads the status sees plans come and go and their steps advance as in
\* PlanStatus, although the worker reads an old object from its cache, works on a
\* copy, is interrupted, and its updates are refused or lost (handleActivePlan,
\* executeNextStep, reconcilePlan, finish).
ImplementsPlanStatus == Status!Spec
=============================================================================
