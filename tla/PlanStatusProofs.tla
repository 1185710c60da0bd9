--------------------------- MODULE PlanStatusProofs ---------------------------
(***************************************************************************)
(* The reconciler implements PlanStatus, for any number of steps, plans,   *)
(* edits and faults.                                                       *)
(*                                                                         *)
(* Only the status write changes what readers see, so that one write must  *)
(* be one step of PlanStatus.  CopyInv says why it is: as long as the      *)
(* worker's copy is current, it is one such step ahead of the server.      *)
(*                                                                         *)
(* The same promise orders the versions that the worker may still read, so *)
(* that no stale copy takes it back to a step it has gone past.            *)
(***************************************************************************)
EXTENDS PlanExecutionProofs

\* A copy of the stored plan, perhaps with its status rewritten.
SamePlan == StatusOf(work.plan) = StatusOf(server.plan) /\ ~NewPlanStored

PlanAdded ==
    /\ server.plan = NoPlan
    /\ NewPlanStored
    /\ StatusOf(work.plan) =
         {[id |-> accepted + 1, target |-> server.gen,
           steps |-> [i \in Steps |-> "Pending"], status |-> "Active"]}

StepRecorded(i, state) ==
    /\ server.plan # NoPlan /\ work.plan # NoPlan /\ ~NewPlanStored
    /\ server.plan.target = server.gen
    /\ Running(server.plan)
    /\ NextPending(server.plan, i)
    /\ state = "Completed" => <<server.plan.id, i>> \in reported
    /\ StatusOf(work.plan) =
         {[id |-> server.plan.id, target |-> server.plan.target,
           steps |-> [server.plan.steps EXCEPT ![i] = state],
           status |-> "Active"]}

PlanSuperseded ==
    /\ server.plan # NoPlan /\ work.plan # NoPlan /\ ~NewPlanStored
    /\ server.plan.target = server.gen
    /\ Running(server.plan)
    /\ NextPending(server.plan, NumSteps)
    /\ StatusOf(work.plan) =
         {[id |-> server.plan.id, target |-> server.plan.target,
           steps |-> [server.plan.steps EXCEPT ![NumSteps] = "Running"],
           status |-> "Superseded"]}

PlanCleared ==
    /\ server.plan # NoPlan /\ work.plan = NoPlan
    /\ \/ server.plan.target # server.gen
       \/ Completed(server.plan)
       \/ Superseded(server.plan)

OneStepAhead ==
    \/ SamePlan
    \/ PlanAdded
    \/ \E i \in Steps, state \in {"Running", "Completed", "Failed"} :
         StepRecorded(i, state)
    \/ PlanSuperseded
    \/ PlanCleared

CopyInv ==
    current =>
        /\ work.gen = server.gen
        /\ pc = "execute" => work.plan = server.plan
        /\ pc = "write" => OneStepAhead

-----------------------------------------------------------------------------
\* What becomes of a plan's record when it is superseded.
LEMMA StatusEdited ==
    ASSUME NEW id, NEW target, NEW steps, NEW old, NEW new
    PROVE  [[id |-> id, target |-> target, steps |-> steps, status |-> old]
              EXCEPT !.status = new] =
           [id |-> id, target |-> target, steps |-> steps, status |-> new]
  OBVIOUS

\* A stored plan is no new one.
LEMMA StoredPlanIsOld ==
    ASSUME IInv, server.plan # NoPlan
    PROVE  /\ server.plan \in Plans
           /\ server.plan.id \in Nat /\ server.plan.id <= accepted
           /\ server.plan.id # accepted + 1
<1>1. server \in Versions /\ accepted \in Nat
  BY DEF IInv, TypeOK
<1>2. server.plan \in Plans /\ server.plan.id \in Nat
  BY <1>1 DEF Versions, Plans
<1>3. server.plan.id <= accepted
  BY DEF IInv, LaggingInv, Lagging, Recorded
<1>4. QED
  BY <1>1, <1>2, <1>3

\* Nothing that the copy's promise speaks of changes.
LEMMA CopyUnchanged ==
    ASSUME CopyInv, UNCHANGED <<server, work, current, pc, accepted, reported>>
    PROVE  CopyInv'
<1>1. /\ StatusOf(work.plan)' = StatusOf(work.plan)
      /\ StatusOf(server.plan)' = StatusOf(server.plan)
      /\ NewPlanStored' = NewPlanStored
  BY DEF StatusOf, Superseded, NewPlanStored
<1>2. SamePlan' = SamePlan /\ PlanAdded' = PlanAdded
  BY <1>1 DEF SamePlan, PlanAdded
<1>3. Running(server.plan)' = Running(server.plan)
  BY DEF Running, Superseded, Completed, Failed
<1>4. \A i \in Steps, state \in {"Running", "Completed", "Failed"} :
        StepRecorded(i, state)' = StepRecorded(i, state)
  BY <1>1, <1>3 DEF StepRecorded, NextPending
<1>5. PlanSuperseded' = PlanSuperseded /\ PlanCleared' = PlanCleared
  BY <1>1, <1>3 DEF PlanSuperseded, PlanCleared, NextPending, Completed, Superseded
<1>6. OneStepAhead' = OneStepAhead
  BY <1>2, <1>4, <1>5 DEF OneStepAhead
<1>7. QED
  BY <1>6 DEF CopyInv

\* A copy that the worker has given up promises nothing.
LEMMA NoCopy ==
    ASSUME current' = FALSE
    PROVE  CopyInv'
  BY DEF CopyInv

\* The read: the copy is the server's plan, or that plan cleared.
LEMMA TakeCopies ==
    ASSUME IInv, CopyInv,
           StartPlanning \/ ClearOutdatedPlan \/ StartStep
             \/ ClearFinishedPlan \/ RetainFailedPlan
    PROVE  CopyInv'
<1> USE PlanExecutionAssumption
<1>1. Take
  BY DEF StartPlanning, ClearOutdatedPlan, StartStep, ClearFinishedPlan, RetainFailedPlan
<1>2. server' = server /\ accepted' = accepted /\ reported' = reported
  BY <1>1 DEF Take, apiVars, historyVars
<1>3. SUFFICES ASSUME current'
               PROVE  /\ work'.gen = server.gen
                      /\ pc' = "execute" => work'.plan = server.plan
                      /\ pc' = "write" => OneStepAhead'
  BY <1>2 DEF CopyInv
<1>4. cache = server
  BY <1>1, <1>3 DEF IInv, InformerInv, Take
<1>5. /\ Loaded \in Versions
      /\ Loaded.plan = server.plan
      /\ Loaded.gen = server.gen
  BY <1>4, LoadedType DEF IInv
<1>6. CASE StartPlanning \/ StartStep
  BY <1>5, <1>6 DEF StartPlanning, StartStep
<1>7. CASE ClearOutdatedPlan \/ ClearFinishedPlan
  <2>1. /\ pc' = "write" /\ HasPlan
        /\ work' \in {[Loaded EXCEPT !.plan = NoPlan, !.ready = 0],
                      [Loaded EXCEPT !.plan = NoPlan]}
    BY <1>7 DEF ClearOutdatedPlan, ClearFinishedPlan, Finish, TargetsCurrentSpec
  <2>2. work'.plan = NoPlan /\ work'.gen = server.gen
    BY <1>5, <2>1 DEF Versions
  <2>3. /\ server.plan # NoPlan
        /\ \/ server.plan.target # server.gen
           \/ Completed(server.plan)
           \/ Superseded(server.plan)
    BY <1>4, <1>7
       DEF ClearOutdatedPlan, ClearFinishedPlan, TargetsCurrentSpec, HasPlan
  <2>4. PlanCleared'
    BY <1>2, <2>2, <2>3 DEF PlanCleared, Completed, Superseded
  <2>5. QED
    BY <2>1, <2>2, <2>4 DEF OneStepAhead
<1>8. CASE RetainFailedPlan
  <2>1. /\ pc' = "write" /\ HasPlan /\ Failed(cache.plan)
        /\ work' = [Loaded EXCEPT !.plan.status = "Failed", !.ready = 0]
    BY <1>8 DEF RetainFailedPlan, Finish, TargetsCurrentSpec
  <2>2. Loaded.plan \in Plans /\ server.plan # NoPlan
    BY <1>4, <1>5, <2>1 DEF HasPlan, Versions
  <2>3. work'.plan = [server.plan EXCEPT !.status = "Failed"] /\ work'.gen = server.gen
    BY <1>5, <2>1, <2>2 DEF Versions
  <2>4. /\ work'.plan \in Plans
        /\ work'.plan.id = server.plan.id
        /\ work'.plan.target = server.plan.target
        /\ work'.plan.steps = server.plan.steps
        /\ work'.plan.status = "Failed"
    BY <1>5, <2>2, <2>3 DEF Plans, PlanStates
  <2>5. Superseded(work'.plan) = Superseded(server.plan)
    BY <1>4, <2>1, <2>4 DEF Failed, Superseded
  <2>6. StatusOf(work'.plan) = StatusOf(server.plan)
    BY <2>2, <2>4, <2>5 DEF StatusOf
  <2>7. work'.plan.id # accepted + 1
    BY <2>2, <2>4, StoredPlanIsOld
  <2>8. SamePlan'
    BY <1>2, <2>6, <2>7 DEF SamePlan, NewPlanStored, StatusOf, Superseded
  <2>9. QED
    BY <2>1, <2>3, <2>8 DEF OneStepAhead
<1>9. QED
  BY <1>6, <1>7, <1>8

\* The driver's outcome is one step's outcome.
LEMMA ExecuteStepCopies ==
    ASSUME IInv, CopyInv, ExecuteStep
    PROVE  CopyInv'
<1> USE PlanExecutionAssumption
<1>1. PICK i \in Steps :
        /\ NextPending(work.plan, i)
        /\ StepCompleted(i) \/ StepRunning(i) \/ StepFailed(i) \/ StepSupersedes(i)
  BY DEF ExecuteStep
<1>2. pc = "execute" /\ UNCHANGED <<apiVars, queued, current, accepted>>
  BY DEF ExecuteStep
<1>3. server' = server
  BY <1>2 DEF apiVars
<1>4. SUFFICES ASSUME current
               PROVE  /\ work'.gen = server.gen
                      /\ pc' = "execute" => work'.plan = server.plan
                      /\ pc' = "write" => OneStepAhead'
  BY <1>2, <1>3 DEF CopyInv
<1>5. /\ work.plan = server.plan /\ work.gen = server.gen
      /\ work \in Versions /\ work.plan # NoPlan /\ work.plan.target = work.gen
      /\ Running(work.plan)
  BY <1>2, <1>4 DEF CopyInv, IInv, PhaseInv, TypeOK
<1>6. server.plan \in Plans /\ server.plan.id # accepted + 1
  BY <1>5, StoredPlanIsOld
<1>7. pc' = "write"
  BY <1>1 DEF StepCompleted, StepRunning, StepFailed, StepSupersedes, Finish
<1>8. ASSUME NEW state \in StepStates, NEW status \in PlanStates,
             work'.plan = [[server.plan EXCEPT !.steps[i] = state] EXCEPT !.status = status]
      PROVE  /\ work'.plan # NoPlan /\ work'.plan.id # accepted + 1
             /\ StatusOf(work'.plan) =
                  {[id |-> server.plan.id, target |-> server.plan.target,
                    steps |-> [server.plan.steps EXCEPT ![i] = state],
                    status |-> IF status = "Superseded" THEN "Superseded" ELSE "Active"]}
  <2>1. work'.plan \in Plans
    <3>1. [[server.plan EXCEPT !.steps[i] = state] EXCEPT !.status = status] \in Plans
      BY <1>6, StepResultType
    <3>2. QED
      BY <1>8, <3>1
  <2>2. /\ work'.plan.id = server.plan.id
        /\ work'.plan.target = server.plan.target
        /\ work'.plan.steps = [server.plan.steps EXCEPT ![i] = state]
        /\ work'.plan.status = status
    BY <1>6, <1>8 DEF Plans
  <2>3. work'.plan # NoPlan
    BY <2>1
  <2>4. QED
    BY <1>6, <2>2, <2>3 DEF StatusOf, Superseded
<1>9. ASSUME NEW state \in {"Running", "Completed", "Failed"}, NEW status \in PlanStates,
             status # "Superseded", work'.gen = server.gen,
             work'.plan = [[server.plan EXCEPT !.steps[i] = state] EXCEPT !.status = status],
             state = "Completed" => <<server.plan.id, i>> \in reported'
      PROVE  work'.gen = server.gen /\ OneStepAhead'
  <2>1. state \in StepStates
    BY DEF StepStates
  <2>2. StepRecorded(i, state)'
    <3>1. /\ work'.plan # NoPlan /\ work'.plan.id # accepted + 1
          /\ StatusOf(work'.plan) =
               {[id |-> server.plan.id, target |-> server.plan.target,
                 steps |-> [server.plan.steps EXCEPT ![i] = state],
                 status |-> "Active"]}
      BY <1>8, <1>9, <2>1
    <3>2. QED
      BY <1>1, <1>2, <1>3, <1>5, <1>9, <3>1
         DEF StepRecorded, NewPlanStored, Running, Superseded, Failed, Completed,
             NextPending, StatusOf
  <2>3. QED
    BY <1>9, <2>2 DEF OneStepAhead
<1>10. server.plan.status \in PlanStates /\ server.plan.status # "Superseded"
  BY <1>5, <1>6 DEF Plans, Running, Superseded
<1>11. \A state \in StepStates :
         StepResult(i, state) =
           [[server.plan EXCEPT !.steps[i] = state] EXCEPT !.status = server.plan.status]
  BY <1>5, <1>6 DEF StepResult, Plans
<1>12. CASE StepCompleted(i)
  <2>1. /\ reported' = reported \cup {<<server.plan.id, i>>}
        /\ work' = [work EXCEPT !.plan =
                      IF Completed(StepResult(i, "Completed"))
                      THEN [StepResult(i, "Completed") EXCEPT !.status = "Completed"]
                      ELSE StepResult(i, "Completed")]
    BY <1>5, <1>6, <1>12 DEF StepCompleted, Finish, StepResult, Plans
  <2>2. /\ work'.gen = server.gen
        /\ \/ work'.plan = [StepResult(i, "Completed") EXCEPT !.status = "Completed"]
           \/ work'.plan = StepResult(i, "Completed")
    BY <1>5, <2>1 DEF Versions
  <2>3. StepResult(i, "Completed") = [server.plan EXCEPT !.steps[i] = "Completed"]
    BY <1>5 DEF StepResult
  <2>4. PICK status \in PlanStates \ {"Superseded"} :
          work'.plan = [[server.plan EXCEPT !.steps[i] = "Completed"] EXCEPT !.status = status]
    BY <1>10, <1>11, <2>2, <2>3 DEF PlanStates, StepStates
  <2>5. QED
    BY <1>7, <1>9, <2>1, <2>2, <2>4
<1>13. CASE StepRunning(i)
  <2>1. work' = [work EXCEPT !.plan = StepResult(i, "Running")]
    BY <1>13 DEF StepRunning, Finish
  <2>2. work'.gen = server.gen /\ work'.plan = StepResult(i, "Running")
    BY <1>5, <2>1 DEF Versions
  <2>3. "Running" \in StepStates
    BY DEF StepStates
  <2>4. QED
    BY <1>7, <1>9, <1>10, <1>11, <2>2, <2>3
<1>14. CASE StepFailed(i)
  <2>1. work' = [work EXCEPT
                   !.plan = [StepResult(i, "Failed") EXCEPT !.status = "Failed"],
                   !.ready = 0]
    BY <1>14 DEF StepFailed, Finish
  <2>2. /\ work'.gen = server.gen
        /\ work'.plan = [StepResult(i, "Failed") EXCEPT !.status = "Failed"]
    BY <1>5, <2>1 DEF Versions
  <2>3. StepResult(i, "Failed") = [server.plan EXCEPT !.steps[i] = "Failed"]
    BY <1>5 DEF StepResult
  <2>4. "Failed" \in PlanStates
    BY DEF PlanStates
  <2>5. QED
    BY <1>7, <1>9, <2>2, <2>3, <2>4
<1>15. CASE StepSupersedes(i)
  <2>1. /\ i = NumSteps
        /\ work' = [work EXCEPT
                      !.plan = [StepResult(i, "Running") EXCEPT !.status = "Superseded"],
                      !.ready = 0]
    BY <1>15 DEF StepSupersedes, Finish
  <2>2. /\ work'.gen = server.gen
        /\ work'.plan = [StepResult(i, "Running") EXCEPT !.status = "Superseded"]
    BY <1>5, <2>1 DEF Versions
  <2>3. StepResult(i, "Running") = [server.plan EXCEPT !.steps[i] = "Running"]
    BY <1>5 DEF StepResult
  <2>4. /\ work'.plan # NoPlan /\ work'.plan.id # accepted + 1
        /\ StatusOf(work'.plan) =
             {[id |-> server.plan.id, target |-> server.plan.target,
               steps |-> [server.plan.steps EXCEPT ![NumSteps] = "Running"],
               status |-> "Superseded"]}
    BY <1>8, <2>1, <2>2, <2>3 DEF StepStates, PlanStates
  <2>5. PlanSuperseded'
    BY <1>1, <1>2, <1>3, <1>5, <2>1, <2>4
       DEF PlanSuperseded, NewPlanStored, Running, Superseded, Failed, Completed,
           NextPending, StatusOf
  <2>6. QED
    BY <1>7, <2>2, <2>5 DEF OneStepAhead
<1>16. QED
  BY <1>1, <1>12, <1>13, <1>14, <1>15

\* Planning leaves the copy without a plan or gives it a new one.
LEMMA PlanningCopies ==
    ASSUME IInv, CopyInv,
           ObservationFails \/ TopologyMatches \/ WaitForStableCluster \/ CallPlanner
             \/ PlannerFails \/ AcceptPlan
    PROVE  CopyInv'
<1> USE PlanExecutionAssumption
<1>1. /\ pc \in {"observe", "planner"}
      /\ UNCHANGED <<apiVars, queued, current, world, historyVars>>
  BY DEF ObservationFails, TopologyMatches, WaitForStableCluster, CallPlanner,
     PlannerFails, AcceptPlan
<1>2. server' = server /\ accepted' = accepted /\ reported' = reported
  BY <1>1 DEF apiVars, historyVars
<1>3. SUFFICES ASSUME current
               PROVE  /\ work'.gen = server.gen
                      /\ pc' = "execute" => work'.plan = server.plan
                      /\ pc' = "write" => OneStepAhead'
  BY <1>1, <1>2 DEF CopyInv
<1>4. /\ work \in Versions /\ work.plan = NoPlan /\ server.plan = NoPlan
      /\ work.gen = server.gen
  BY <1>1, <1>3 DEF IInv, TypeOK, PhaseInv, CopyInv
<1>5. CASE ~AcceptPlan
  <2>1. /\ pc' # "execute"
        /\ \/ work' = work
           \/ \E next \in {Bump(work.next, pods) : pods \in SUBSET ensured} :
                \/ work' = [work EXCEPT !.next = next, !.ready = work.gen]
                \/ work' = [work EXCEPT !.next = next, !.ready = 0]
                \/ work' = [work EXCEPT !.next = next]
    BY <1>5 DEF ObservationFails, TopologyMatches, WaitForStableCluster, CallPlanner,
       PlannerFails, Finish
  <2>2. work'.plan = NoPlan /\ work'.gen = server.gen
    BY <1>4, <2>1 DEF Versions
  <2>3. SamePlan'
    BY <1>2, <1>4, <2>2 DEF SamePlan, NewPlanStored, StatusOf
  <2>4. QED
    BY <2>1, <2>2, <2>3 DEF OneStepAhead
<1>6. CASE AcceptPlan
  <2>1. PICK pods \in SUBSET Ordinals :
          Finish([work EXCEPT !.next = Advance(@, pods), !.plan = NewPlan(pods)], FALSE)
    BY <1>6 DEF AcceptPlan
  <2>2. work'.plan = NewPlan(pods) /\ work'.gen = server.gen /\ pc' = "write"
    BY <1>4, <2>1 DEF Finish, Versions
  <2>3. NewPlan(pods) # NoPlan
    <3>1. accepted + 1 \in 1..MaxPlans
      <4>1. accepted < MaxPlans
        BY <1>6 DEF AcceptPlan
      <4>2. QED
        BY <4>1 DEF IInv, TypeOK
    <3>2. NewPlan(pods) \in Plans
      BY <1>4, <3>1 DEF NewPlan, Plans, StepStates, PlanStates, Versions
    <3>3. QED
      BY <3>2
  <2>4. PlanAdded'
    <3>1. StatusOf(work'.plan) =
            {[id |-> accepted + 1, target |-> server.gen,
              steps |-> [i \in Steps |-> "Pending"], status |-> "Active"]}
      <4>1. ~Superseded(work'.plan)
        BY <2>2 DEF NewPlan, Superseded
      <4>2. StatusOf(work'.plan) =
              {[id |-> work'.plan.id, target |-> work'.plan.target,
                steps |-> work'.plan.steps, status |-> "Active"]}
        BY <2>2, <2>3, <4>1 DEF StatusOf
      <4>3. /\ work'.plan.id = accepted + 1 /\ work'.plan.target = server.gen
            /\ work'.plan.steps = [i \in Steps |-> "Pending"]
        BY <1>4, <2>2 DEF NewPlan
      <4>4. QED
        BY <4>2, <4>3
    <3>2. work'.plan # NoPlan /\ work'.plan.id = accepted + 1
      BY <2>2, <2>3 DEF NewPlan
    <3>3. QED
      BY <1>2, <1>4, <3>1, <3>2 DEF PlanAdded, NewPlanStored, StatusOf, Superseded
  <2>5. QED
    BY <2>2, <2>4 DEF OneStepAhead
<1>7. QED
  BY <1>5, <1>6

\* The copy is never more than one step of PlanStatus ahead.
LEMMA NextCopyInv == IInv /\ CopyInv /\ [Next]_vars => CopyInv'
<1> SUFFICES ASSUME IInv, CopyInv, [Next]_vars PROVE CopyInv'
  OBVIOUS
<1>1. CASE Reconcile
  BY <1>1, TakeCopies, ExecuteStepCopies, PlanningCopies, NoCopy
     DEF Reconcile, Write, WriteConflict, FinishWrite, Idle
<1>2. CASE EditSpec \/ Restart \/ WriteError
  BY <1>2, NoCopy DEF EditSpec, Restart, WriteError, FinishWrite, Idle
<1>3. CASE Deliver \/ Drift \/ UNCHANGED vars
  BY <1>3, CopyUnchanged
     DEF Deliver, Drift, vars, apiVars, workerVars, historyVars
<1>4. QED
  BY <1>1, <1>2, <1>3 DEF Next, Environment

-----------------------------------------------------------------------------
\* The write of a copy that is one step ahead is that step.
LEMMA WriteIsOneStep ==
    ASSUME IInv, CopyInv, pc = "write", current, Store, reported' = reported
    PROVE  [Status!Next]_(Status!vars)
<1>1. server' = work /\ work.gen = server.gen /\ OneStepAhead
  BY StoreFacts DEF CopyInv
<1>2. accepted' = IF NewPlanStored THEN accepted + 1 ELSE accepted
  BY DEF Store
<1>3. CASE SamePlan
  BY <1>1, <1>2, <1>3 DEF SamePlan, Status!vars
<1>4. CASE PlanAdded
  <2>1. StatusOf(server.plan) = {}
    BY <1>4 DEF PlanAdded, StatusOf
  <2>2. Status!AcceptPlan
    BY <1>1, <1>2, <1>4, <2>1 DEF PlanAdded, Status!AcceptPlan, Status!Steps, Steps
  <2>3. QED
    BY <2>2 DEF Status!Next
<1>5. CASE \E i \in Steps, state \in {"Running", "Completed", "Failed"} :
             StepRecorded(i, state)
  <2>1. PICK i \in Steps, state \in {"Running", "Completed", "Failed"} :
          StepRecorded(i, state)
    BY <1>5
  <2>2. Status!RecordStep(i, state)
    <3> DEFINE plan == [id |-> server.plan.id, target |-> server.plan.target,
                        steps |-> server.plan.steps, status |-> "Active"]
    <3>1. /\ StatusOf(server.plan) = {plan}
          /\ Status!Running(plan) /\ Status!NextPending(plan, i)
      BY <2>1 DEF StepRecorded, StatusOf, Running, Superseded, Failed, Completed,
         NextPending, Status!Running, Status!NextPending, Status!Steps, Steps
    <3>2. StatusOf(server'.plan) = {[plan EXCEPT !.steps[i] = state]}
      <4>1. StatusOf(server'.plan) =
              {[id |-> server.plan.id, target |-> server.plan.target,
                steps |-> [server.plan.steps EXCEPT ![i] = state],
                status |-> "Active"]}
        BY <1>1, <2>1 DEF StepRecorded
      <4>2. [plan EXCEPT !.steps[i] = state] =
              [id |-> server.plan.id, target |-> server.plan.target,
               steps |-> [server.plan.steps EXCEPT ![i] = state],
               status |-> "Active"]
        OBVIOUS
      <4>3. QED
        BY <4>1, <4>2
    <3>3. /\ plan.target = server.gen
          /\ state = "Completed" => <<plan.id, i>> \in reported
      BY <2>1 DEF StepRecorded
    <3>4. accepted' = accepted /\ server'.gen = server.gen
      BY <1>1, <1>2, <2>1 DEF StepRecorded
    <3>5. QED
      BY <3>1, <3>2, <3>3, <3>4 DEF Status!RecordStep
  <2>3. QED
    BY <2>2 DEF Status!Next, Status!Steps, Steps
<1>6. CASE PlanSuperseded
  <2> DEFINE plan == [id |-> server.plan.id, target |-> server.plan.target,
                      steps |-> server.plan.steps, status |-> "Active"]
  <2>1. /\ StatusOf(server.plan) = {plan}
        /\ Status!Running(plan) /\ Status!NextPending(plan, NumSteps)
    BY <1>6 DEF PlanSuperseded, StatusOf, Running, Superseded, Failed, Completed,
       NextPending, Status!Running, Status!NextPending, Status!Steps, Steps
  <2>2. StatusOf(server'.plan) =
          {[plan EXCEPT !.steps[NumSteps] = "Running", !.status = "Superseded"]}
    <3>1. StatusOf(server'.plan) =
            {[id |-> server.plan.id, target |-> server.plan.target,
              steps |-> [server.plan.steps EXCEPT ![NumSteps] = "Running"],
              status |-> "Superseded"]}
      BY <1>1, <1>6 DEF PlanSuperseded
    <3>2. [plan EXCEPT !.steps[NumSteps] = "Running", !.status = "Superseded"] =
            [id |-> server.plan.id, target |-> server.plan.target,
             steps |-> [server.plan.steps EXCEPT ![NumSteps] = "Running"],
             status |-> "Superseded"]
      <4> DEFINE recorded == [plan EXCEPT !.steps[NumSteps] = "Running"]
                 steps == [server.plan.steps EXCEPT ![NumSteps] = "Running"]
      <4>1. recorded = [id |-> server.plan.id, target |-> server.plan.target,
                        steps |-> steps, status |-> "Active"]
        OBVIOUS
      <4>2. [recorded EXCEPT !.status = "Superseded"] =
              [plan EXCEPT !.steps[NumSteps] = "Running", !.status = "Superseded"]
        OBVIOUS
      <4> HIDE DEF recorded, steps
      <4>3. [recorded EXCEPT !.status = "Superseded"] =
              [id |-> server.plan.id, target |-> server.plan.target,
               steps |-> steps, status |-> "Superseded"]
        BY <4>1, StatusEdited
      <4>4. QED
        BY <4>2, <4>3 DEF steps
    <3>3. QED
      BY <3>1, <3>2
  <2>3. Status!SupersedePlan
    BY <1>1, <1>2, <1>6, <2>1, <2>2 DEF PlanSuperseded, Status!SupersedePlan
  <2>4. QED
    BY <2>3 DEF Status!Next
<1>7. CASE PlanCleared
  <2> DEFINE plan == [id |-> server.plan.id, target |-> server.plan.target,
                      steps |-> server.plan.steps,
                      status |-> IF Superseded(server.plan) THEN "Superseded" ELSE "Active"]
  <2>1. StatusOf(server.plan) = {plan} /\ StatusOf(server'.plan) = {}
    BY <1>1, <1>7 DEF PlanCleared, StatusOf
  <2>2. plan.target # server.gen \/ Status!Over(plan)
    BY <1>7 DEF PlanCleared, Completed, Status!Over, Status!Steps, Steps
  <2>3. accepted' = accepted
    BY <1>2, <1>7 DEF PlanCleared, NewPlanStored
  <2>4. Status!ClearPlan
    BY <1>1, <2>1, <2>2, <2>3 DEF Status!ClearPlan
  <2>5. QED
    BY <2>4 DEF Status!Next
<1>8. QED
  BY <1>1, <1>3, <1>4, <1>5, <1>6, <1>7 DEF OneStepAhead

\* Every step of the reconciler and its environment is a step of PlanStatus, or
\* one that readers do not see.
LEMMA StepRefines == IInv /\ CopyInv /\ [Next]_vars => [Status!Next]_(Status!vars)
<1> SUFFICES ASSUME IInv, CopyInv, [Next]_vars PROVE [Status!Next]_(Status!vars)
  OBVIOUS
<1>1. CASE server' # server \/ accepted' # accepted
  <2>1. CASE EditSpec
    <3>1. server' = [server EXCEPT !.gen = @ + 1] /\ server \in Versions
      BY <2>1 DEF EditSpec, Publish, IInv, TypeOK
    <3>2. server'.plan = server.plan /\ server'.gen = server.gen + 1
      BY <3>1 DEF Versions
    <3>3. Status!EditSpec
      BY <2>1, <3>2 DEF EditSpec, historyVars, Status!EditSpec
    <3>4. QED
      BY <3>3 DEF Status!Next
  <2>2. QED
    BY <1>1, <2>1, OnlyWritesChangeTheServer, WriteIsOneStep
<1>2. CASE server' = server /\ accepted' = accepted /\ reported' # reported
  <2>1. ExecuteStep
    BY <1>2 DEF Next, Reconcile, Environment, vars, historyVars,
       StartPlanning, ClearOutdatedPlan, StartStep, ClearFinishedPlan,
       RetainFailedPlan, Take, ObservationFails, TopologyMatches,
       WaitForStableCluster, CallPlanner, PlannerFails, AcceptPlan, Write,
       WriteConflict, WriteError, FinishWrite, EditSpec, Deliver, Drift, Restart
  <2>2. PICK i \in Steps :
          NextPending(work.plan, i)
            /\ (StepCompleted(i) \/ StepRunning(i) \/ StepFailed(i) \/ StepSupersedes(i))
    BY <2>1 DEF ExecuteStep
  <2>3. /\ work \in Versions /\ work.plan # NoPlan
        /\ CompletedReported(work.plan, reported)
        /\ work.plan.id <= accepted + 1 /\ work.plan.id # accepted + 1
    BY <2>1 DEF ExecuteStep, IInv, TypeOK, PhaseInv, NewPlanInv, NewPlanStored
  <2>4. work.plan \in Plans /\ work.plan.id \in 1..accepted
    <3>1. work.plan \in Plans /\ accepted \in Nat
      BY <2>3 DEF Versions, IInv, TypeOK
    <3>2. work.plan.id \in Nat \ {0}
      BY <3>1, PlanExecutionAssumption DEF Plans
    <3>3. QED
      BY <2>3, <3>1, <3>2
  <2>5. reported' = reported \cup {<<work.plan.id, i>>}
    BY <1>2, <2>2, <2>4
       DEF StepCompleted, StepRunning, StepFailed, StepSupersedes, StepResult, Plans
  <2>6. \A j \in 1..(i - 1) : <<work.plan.id, j>> \in reported
    BY <2>2, <2>3, PlanExecutionAssumption DEF NextPending, CompletedReported, Steps
  <2>7. Status!StepCompletes(work.plan.id, i)
    BY <1>2, <2>5, <2>6 DEF Status!StepCompletes
  <2>8. QED
    BY <2>4, <2>7 DEF Status!Next, Status!Steps, Steps
<1>3. CASE server' = server /\ accepted' = accepted /\ reported' = reported
  BY <1>3 DEF Status!vars
<1>4. QED
  BY <1>1, <1>2, <1>3

\* The status on the API server behaves as PlanStatus says, though the worker
\* reads an old object, works on a copy of it and may lose every write.
THEOREM StatusIsImplemented == Spec => ImplementsPlanStatus
<1>1. Init => Status!Init
  BY DEF Init, NewObject, StatusOf, Status!Init
<1>2. Init => CopyInv
  BY DEF Init, CopyInv
<1>3. Spec => []CopyInv
  BY <1>2, NextCopyInv, InvariantHolds, PTL DEF Spec
<1>4. QED
  BY <1>1, <1>3, StepRefines, InvariantHolds, PTL
     DEF Spec, ImplementsPlanStatus, Status!Spec

-----------------------------------------------------------------------------
(***************************************************************************)
(* No step runs backwards.  What the worker may still read is ordered: a   *)
(* version that comes later has every completed step of the earlier one's  *)
(* plan, a later plan, or none.                                            *)
(***************************************************************************)

\* v holds no plan, a later one than id, or that one with these steps completed.
Beyond(id, done, v) ==
    v.plan # NoPlan =>
        \/ v.plan.id > id
        \/ v.plan.id = id /\ \A i \in done : v.plan.steps[i] = "Completed"

Done(plan) == {i \in Steps : plan.steps[i] = "Completed"}

Later(v, w) == v.plan # NoPlan => Beyond(v.plan.id, Done(v.plan), w)

OrderInv ==
    /\ \A i \in 1..Len(undelivered) : Later(cache, undelivered[i])
    /\ \A i, j \in 1..Len(undelivered) : i < j => Later(undelivered[i], undelivered[j])
    /\ pc = "execute" => \A v \in Lagging : Later(work, v)

RanInv ==
    /\ ran[1] <= accepted
    /\ \A v \in Lagging : Beyond(ran[1], 1..(ran[2] - 1), v)
    /\ pc = "execute" => Beyond(ran[1], 1..(ran[2] - 1), work)

LEMMA LaterItself == ASSUME NEW v PROVE Later(v, v)
BY DEF Later, Beyond, Done

LEMMA LaggingTypes ==
    ASSUME IInv, NEW v \in Lagging
    PROVE  /\ v \in Versions
           /\ v.plan # NoPlan => v.plan \in Plans /\ v.plan.id \in Nat /\ v.plan.id <= accepted
<1>1. v \in Versions
  BY DEF Lagging, IInv, TypeOK
<1>2. v.plan # NoPlan => v.plan.id <= accepted
  BY DEF IInv, LaggingInv, Recorded
<1> QED
  BY <1>1, <1>2 DEF Versions, Plans

\* The server's version is the last.
LEMMA ServerIsLast == ASSUME IInv, OrderInv, NEW v \in Lagging PROVE Later(v, server)
<1>1. undelivered \in Seq(Versions) /\ Len(undelivered) \in Nat
  BY LenProperties DEF IInv, TypeOK
<1>2. CASE undelivered = <<>>
  <2>1. Len(undelivered) = 0
    BY <1>2
  <2> QED
    BY <1>2, <2>1, LaterItself DEF Lagging, IInv, InformerInv
<1>3. CASE undelivered # <<>>
  <2>1. Len(undelivered) \in 1..Len(undelivered) /\ undelivered[Len(undelivered)] = server
    BY <1>1, <1>3, EmptySeq DEF IInv, InformerInv
  <2>2. CASE v = server
    BY <2>2, LaterItself
  <2>3. CASE v = cache
    BY <2>1, <2>3 DEF OrderInv
  <2>4. CASE \E i \in 1..Len(undelivered) : v = undelivered[i]
    <3>1. PICK i \in 1..Len(undelivered) : v = undelivered[i]
      BY <2>4
    <3>2. i < Len(undelivered) \/ i = Len(undelivered)
      BY <1>1, <3>1
    <3> QED
      BY <2>1, <3>1, <3>2, LaterItself DEF OrderInv
  <2> QED
    BY <2>2, <2>3, <2>4 DEF Lagging
<1> QED
  BY <1>2, <1>3

Follows(v) ==
    \A id \in Nat : \A done \in SUBSET Steps :
        id <= accepted /\ Beyond(id, done, server) => Beyond(id, done, v)

\* A version that goes beyond the server's goes beyond all others.
LEMMA FollowsAll ==
    ASSUME IInv, OrderInv, NEW v, Follows(v), NEW w \in Lagging PROVE Later(w, v)
<1>1. Later(w, server)
  BY ServerIsLast
<1>2. w.plan # NoPlan => w.plan.id \in Nat /\ w.plan.id <= accepted
  BY LaggingTypes
<1>3. Done(w.plan) \in SUBSET Steps
  BY DEF Done
<1> QED
  BY <1>1, <1>2, <1>3 DEF Later, Follows

\* The plan that readers see is the plan.
LEMMA StatusShowsPlan ==
    ASSUME NEW plan, NEW seen, plan # NoPlan, StatusOf(plan) = {seen}
    PROVE  plan.id = seen.id /\ plan.steps = seen.steps
<1>1. PICK st : StatusOf(plan) = {[id |-> plan.id, target |-> plan.target,
                                   steps |-> plan.steps, status |-> st]}
  BY DEF StatusOf
<1>2. [id |-> plan.id, target |-> plan.target, steps |-> plan.steps, status |-> st] = seen
  BY <1>1
<1> QED
  BY <1>2

\* What the write stores: the status is one step of PlanStatus further.
LEMMA CopyFollows ==
    ASSUME IInv, CopyInv, pc = "write", current PROVE Follows(work)
<1> SUFFICES ASSUME NEW id \in Nat, NEW done \in SUBSET Steps, id <= accepted,
                    Beyond(id, done, server), work.plan # NoPlan
             PROVE  \/ work.plan.id > id
                    \/ work.plan.id = id /\ \A i \in done : work.plan.steps[i] = "Completed"
  BY DEF Follows, Beyond
<1>1. OneStepAhead
  BY DEF CopyInv
<1>2. server.plan # NoPlan => server.plan \in Plans
  BY StoredPlanIsOld
<1>3. accepted \in Nat
  BY DEF IInv, TypeOK
<1>4. CASE SamePlan
  <2>1. StatusOf(work.plan) = StatusOf(server.plan)
    BY <1>4 DEF SamePlan
  <2>2. server.plan # NoPlan
    BY <2>1 DEF StatusOf
  <2>3. PICK seen : StatusOf(server.plan) = {seen}
    BY <2>2 DEF StatusOf
  <2>4. work.plan.id = server.plan.id /\ work.plan.steps = server.plan.steps
    BY <2>1, <2>2, <2>3, StatusShowsPlan
  <2> QED
    BY <2>2, <2>4 DEF Beyond
<1>5. CASE PlanAdded
  BY <1>3, <1>5 DEF PlanAdded, NewPlanStored
<1>6. ASSUME NEW i \in Steps, NEW state, NEW status,
             server.plan # NoPlan, NextPending(server.plan, i),
             StatusOf(work.plan) =
               {[id |-> server.plan.id, target |-> server.plan.target,
                 steps |-> [server.plan.steps EXCEPT ![i] = state], status |-> status]}
      PROVE  \/ work.plan.id > id
             \/ work.plan.id = id /\ \A j \in done : work.plan.steps[j] = "Completed"
  <2> DEFINE seen == [id |-> server.plan.id, target |-> server.plan.target,
                      steps |-> [server.plan.steps EXCEPT ![i] = state], status |-> status]
  <2>1. /\ work.plan.id = server.plan.id
        /\ work.plan.steps = [server.plan.steps EXCEPT ![i] = state]
    <3>1. StatusOf(work.plan) = {seen}
      BY <1>6
    <3>2. seen.id = server.plan.id /\ seen.steps = [server.plan.steps EXCEPT ![i] = state]
      OBVIOUS
    <3> HIDE DEF seen
    <3>3. work.plan.id = seen.id /\ work.plan.steps = seen.steps
      BY <3>1, StatusShowsPlan
    <3> QED
      BY <3>2, <3>3
  <2>2. server.plan.steps \in [Steps -> StepStates] /\ server.plan.steps[i] # "Completed"
    BY <1>2, <1>6 DEF Plans, NextPending
  <2>3. \A j \in Steps : server.plan.steps[j] = "Completed" =>
             work.plan.steps[j] = "Completed"
    BY <2>1, <2>2
  <2> QED
    BY <1>6, <2>1, <2>3 DEF Beyond
<1>7. CASE \E i \in Steps, state \in {"Running", "Completed", "Failed"} :
             StepRecorded(i, state)
  BY <1>6, <1>7 DEF StepRecorded
<1>8. CASE PlanSuperseded
  <2>1. NumSteps \in Steps
    BY PlanExecutionAssumption DEF Steps
  <2> QED
    BY <1>6, <1>8, <2>1 DEF PlanSuperseded
<1>9. CASE PlanCleared
  BY <1>9 DEF PlanCleared
<1> QED
  BY <1>1, <1>4, <1>5, <1>7, <1>8, <1>9 DEF OneStepAhead

LEMMA PublishOrder ==
    ASSUME IInv, OrderInv, RanInv, NEW v \in Versions, Publish(v), Follows(v),
           pc' = "execute" => pc = "execute" /\ work' = work,
           ran' = ran, accepted' \in Nat, accepted' >= accepted
    PROVE  OrderInv' /\ RanInv'
<1>1. undelivered \in Seq(Versions) /\ undelivered' = Append(undelivered, v)
        /\ cache' = cache /\ server' = v
  BY DEF IInv, TypeOK, Publish
<1>2. /\ Len(undelivered') = Len(undelivered) + 1
      /\ undelivered'[Len(undelivered) + 1] = v
      /\ \A i \in 1..Len(undelivered) : undelivered'[i] = undelivered[i]
      /\ Len(undelivered) \in Nat
  BY <1>1, AppendProperties, LenProperties
<1>3. Lagging' \subseteq Lagging \cup {v}
  BY PublishLagging DEF IInv
<1>4. \A w \in Lagging : Later(w, v)
  BY FollowsAll
<1>5. \A i \in 1..Len(undelivered) : undelivered[i] \in Lagging
  BY DEF Lagging
<1>6. cache \in Lagging /\ server \in Lagging
  BY DEF Lagging
<1>7. \A i \in 1..Len(undelivered') : Later(cache, undelivered'[i])
  BY <1>2, <1>4, <1>6 DEF OrderInv
<1>8. ASSUME NEW i \in 1..Len(undelivered'), NEW j \in 1..Len(undelivered'), i < j
      PROVE  Later(undelivered'[i], undelivered'[j])
  <2>1. i \in 1..Len(undelivered)
    BY <1>2, <1>8
  <2>2. CASE j \in 1..Len(undelivered)
    BY <1>2, <1>8, <2>1, <2>2 DEF OrderInv
  <2>3. CASE j = Len(undelivered) + 1
    BY <1>2, <1>4, <1>5, <2>1, <2>3
  <2> QED
    BY <1>2, <2>2, <2>3
<1>9. ran \in Nat \X (0..NumSteps) /\ accepted \in Nat
  BY DEF IInv, TypeOK
<1>10. Beyond(ran[1], 1..(ran[2] - 1), v)
  <2>1. 1..(ran[2] - 1) \in SUBSET Steps
    BY <1>9, PlanExecutionAssumption DEF Steps
  <2> QED
    BY <1>6, <1>9, <2>1 DEF RanInv, Follows
<1>11. ASSUME pc' = "execute" PROVE Later(work, v)
  <2>1. pc = "execute" /\ Later(work, server)
    BY <1>6, <1>11 DEF OrderInv
  <2>2. work.plan # NoPlan => work.plan.id \in Nat /\ work.plan.id <= accepted
    <3>1. work.plan # NoPlan => work.plan \in Plans /\ work.plan.id \in Nat
      BY DEF IInv, TypeOK, Versions, Plans
    <3> QED
      BY <1>9, <2>1, <3>1 DEF IInv, NewPlanInv, NewPlanStored
  <2>3. Done(work.plan) \in SUBSET Steps
    BY DEF Done
  <2> QED
    BY <2>1, <2>2, <2>3 DEF Later, Follows
<1>12. OrderInv'
  <2>1. ASSUME pc' = "execute" PROVE \A w \in Lagging' : Later(work', w)
    BY <1>3, <1>11, <2>1 DEF OrderInv
  <2> QED
    BY <1>1, <1>7, <1>8, <2>1 DEF OrderInv, Later, Beyond, Done
<1>13. RanInv'
  <2>1. \A w \in Lagging' : Beyond(ran[1], 1..(ran[2] - 1), w)
    BY <1>3, <1>10 DEF RanInv
  <2>2. pc' = "execute" => Beyond(ran[1], 1..(ran[2] - 1), work')
    BY DEF RanInv
  <2>3. ran'[1] <= accepted'
    BY <1>9 DEF RanInv
  <2> QED
    BY <2>1, <2>2, <2>3 DEF RanInv, Beyond
<1> QED
  BY <1>12, <1>13

\* A step that leaves the object, the informer and the last executed step alone,
\* and starts or ends no execution.
LEMMA OrderUnchanged ==
    ASSUME OrderInv, RanInv, UNCHANGED <<apiVars, accepted, ran>>,
           pc' = "execute" => pc = "execute" /\ work' = work
    PROVE  OrderInv' /\ RanInv'
<1>1. Lagging' = Lagging
  BY DEF apiVars, Lagging
<1>2. OrderInv'
  BY <1>1 DEF OrderInv, apiVars, Later, Beyond, Done
<1>3. RanInv'
  BY <1>1 DEF RanInv, Beyond
<1> QED
  BY <1>2, <1>3

\* The informer receives the oldest version it lacks.
LEMMA DeliverOrder ==
    ASSUME IInv, OrderInv, RanInv, Deliver PROVE OrderInv' /\ RanInv'
<1>1. undelivered \in Seq(Versions) /\ undelivered # <<>>
  BY DEF Deliver, IInv, TypeOK
<1>2. /\ cache' = undelivered[1] /\ undelivered' = Tail(undelivered)
      /\ Len(undelivered') = Len(undelivered) - 1
      /\ \A i \in 1..Len(undelivered') : undelivered'[i] = undelivered[i + 1]
  BY <1>1, HeadTailProperties DEF Deliver, Head
<1>3. Len(undelivered) \in Nat \ {0}
  BY <1>1, LenProperties, EmptySeq
<1>4. Lagging' \subseteq Lagging
  BY DeliverLagging DEF IInv
<1>5. UNCHANGED <<pc, work, accepted, ran>>
  BY DEF Deliver, workerVars, historyVars
<1>6. \A i \in 1..Len(undelivered') :
        i + 1 \in 1..Len(undelivered) /\ 1 < i + 1 /\ 1 \in 1..Len(undelivered)
  BY <1>2, <1>3
<1>7. \A i \in 1..Len(undelivered') : Later(cache', undelivered'[i])
  BY <1>2, <1>6 DEF OrderInv
<1>8. \A i, j \in 1..Len(undelivered') : i < j => Later(undelivered'[i], undelivered'[j])
  BY <1>2, <1>3, <1>6 DEF OrderInv
<1>9. OrderInv'
  BY <1>4, <1>5, <1>7, <1>8 DEF OrderInv, Later, Beyond, Done
<1>10. RanInv'
  BY <1>4, <1>5 DEF RanInv, Beyond
<1> QED
  BY <1>9, <1>10

\* The informer of a new process starts from the server's version.
LEMMA RestartOrder ==
    ASSUME IInv, OrderInv, RanInv, Restart PROVE OrderInv' /\ RanInv'
<1>1. /\ cache' = server /\ undelivered' = <<>> /\ server' = server
      /\ pc' = "idle" /\ accepted' = accepted /\ ran' = ran
  BY DEF Restart, Idle
<1>2. Len(undelivered') = 0
  BY <1>1, EmptySeq
<1>3. Lagging' \subseteq Lagging
  BY <1>1, <1>2 DEF Lagging
<1>4. OrderInv'
  BY <1>1, <1>2 DEF OrderInv
<1>5. RanInv'
  BY <1>1, <1>3 DEF RanInv, Beyond
<1> QED
  BY <1>4, <1>5

\* The cache's version is the first.
LEMMA CacheIsFirst == ASSUME IInv, OrderInv, NEW v \in Lagging PROVE Later(cache, v)
<1>1. CASE undelivered = <<>>
  BY <1>1, EmptySeq, LaterItself DEF IInv, InformerInv, Lagging
<1>2. CASE undelivered # <<>>
  <2>1. undelivered \in Seq(Versions) /\ Len(undelivered) \in Nat \ {0}
    BY <1>2, LenProperties, EmptySeq DEF IInv, TypeOK
  <2>2. Len(undelivered) \in 1..Len(undelivered) /\ server = undelivered[Len(undelivered)]
    BY <1>2, <2>1 DEF IInv, InformerInv
  <2> QED
    BY <2>2, LaterItself DEF Lagging, OrderInv
<1> QED
  BY <1>1, <1>2

\* The worker starts on what the cache holds.
LEMMA StartStepOrder ==
    ASSUME IInv, OrderInv, RanInv, StartStep PROVE OrderInv' /\ RanInv'
<1>1. UNCHANGED <<apiVars, accepted, ran>> /\ work' = Loaded
  BY DEF StartStep, Take, historyVars
<1>2. work'.plan = cache.plan
  BY <1>1, LoadedType DEF IInv
<1>3. Lagging' = Lagging /\ cache \in Lagging
  BY <1>1 DEF apiVars, Lagging
<1>4. ASSUME NEW v \in Lagging PROVE Later(cache, v)
  BY <1>4, CacheIsFirst
<1>5. OrderInv'
  BY <1>1, <1>2, <1>3, <1>4 DEF OrderInv, apiVars, Later, Beyond, Done
<1>6. RanInv'
  BY <1>1, <1>2, <1>3 DEF RanInv, Beyond
<1> QED
  BY <1>5, <1>6

\* The step that runs now has its predecessors behind it in every version.
LEMMA ExecuteStepOrder ==
    ASSUME IInv, OrderInv, RanInv, ExecuteStep PROVE OrderInv' /\ RanInv'
<1>1. PICK i \in Steps : NextPending(work.plan, i) /\ ran' = <<work.plan.id, i>>
  BY DEF ExecuteStep
<1>2. pc = "execute" /\ UNCHANGED <<apiVars, accepted>>
  BY DEF ExecuteStep
<1>3. pc' = "write"
  BY DEF ExecuteStep, StepCompleted, StepRunning, StepFailed, StepSupersedes, Finish
<1>4. Lagging' = Lagging
  BY <1>2 DEF apiVars, Lagging
<1>5. OrderInv'
  BY <1>2, <1>3 DEF OrderInv, apiVars, Later, Beyond, Done
<1>6. i \in Nat /\ i <= NumSteps
  BY PlanExecutionAssumption DEF Steps
<1>7. \A j \in 1..(i - 1) : j \in Done(work.plan)
  BY <1>1, <1>6, PlanExecutionAssumption DEF NextPending, Done, Steps
<1>8. work.plan # NoPlan /\ work.plan \in Plans /\ work.plan.id \in Nat
  BY <1>2 DEF IInv, PhaseInv, TypeOK, Versions, Plans
<1>9. work.plan.id <= accepted
  BY <1>2, <1>8 DEF IInv, TypeOK, NewPlanInv, NewPlanStored
<1>10. ASSUME NEW v \in Lagging PROVE Beyond(work.plan.id, 1..(i - 1), v)
  <2>1. Beyond(work.plan.id, Done(work.plan), v)
    BY <1>2, <1>8 DEF OrderInv, Later
  <2> QED
    BY <1>7, <2>1 DEF Beyond
<1>11. ran'[1] = work.plan.id /\ ran'[2] = i
  BY <1>1
<1>12. RanInv'
  BY <1>2, <1>3, <1>4, <1>9, <1>10, <1>11 DEF RanInv, Beyond
<1> QED
  BY <1>5, <1>12

\* A version that is stored follows the others: the copy's plan is one step of
\* PlanStatus further.
LEMMA WriteOrder ==
    ASSUME IInv, CopyInv, OrderInv, RanInv, Write \/ WriteConflict \/ WriteError
    PROVE  OrderInv' /\ RanInv'
<1>1. pc = "write" /\ pc' = "idle" /\ ran' = ran
  BY DEF Write, WriteConflict, WriteError, FinishWrite, Idle
<1>2. CASE UNCHANGED <<apiVars, accepted>>
  BY <1>1, <1>2, OrderUnchanged
<1>3. CASE current /\ Store
  <2>1. accepted \in Nat /\ accepted' \in {accepted, accepted + 1}
    BY <1>3 DEF Store, IInv, TypeOK
  <2>2. accepted' \in Nat /\ accepted' >= accepted
    BY <2>1
  <2>3. CASE work = server
    <3>1. UNCHANGED apiVars
      BY <1>3, <2>3 DEF Store
    <3>2. Lagging' = Lagging
      BY <3>1 DEF apiVars, Lagging
    <3>3. OrderInv'
      BY <1>1, <3>1 DEF OrderInv, apiVars, Later, Beyond, Done
    <3>4. ran[1] \in Nat
      BY DEF IInv, TypeOK
    <3>5. RanInv'
      BY <1>1, <2>1, <2>2, <3>2, <3>4 DEF RanInv, Beyond
    <3> QED
      BY <3>3, <3>5
  <2>4. CASE work # server
    <3>1. Publish(work) /\ work \in Versions
      BY <1>3, <2>4 DEF Store, IInv, TypeOK
    <3>2. Follows(work)
      BY <1>1, <1>3, CopyFollows
    <3> QED
      BY <1>1, <2>2, <3>1, <3>2, PublishOrder
  <2> QED
    BY <2>3, <2>4
<1> QED
  BY <1>2, <1>3 DEF Write, WriteConflict, WriteError

\* The edited object has the plan it had.
LEMMA EditSpecOrder ==
    ASSUME IInv, OrderInv, RanInv, EditSpec PROVE OrderInv' /\ RanInv'
<1> DEFINE edited == [server EXCEPT !.gen = @ + 1]
<1>1. Publish(edited) /\ UNCHANGED <<pc, work, historyVars>>
  BY DEF EditSpec
<1>2. edited \in Versions /\ edited.plan = server.plan
  <2>1. server \in Versions /\ server.gen < MaxGeneration
    BY DEF EditSpec, IInv, TypeOK
  <2> QED
    BY <2>1, PlanExecutionAssumption DEF Versions, Generations
<1> HIDE DEF edited
<1>3. Follows(edited)
  BY <1>2 DEF Follows, Beyond
<1>4. ran' = ran /\ accepted' = accepted /\ accepted \in Nat
  BY <1>1 DEF historyVars, IInv, TypeOK
<1> QED
  BY <1>1, <1>2, <1>3, <1>4, PublishOrder

LEMMA NextOrderInv ==
    IInv /\ CopyInv /\ OrderInv /\ RanInv /\ [Next]_vars => OrderInv' /\ RanInv'
<1> SUFFICES ASSUME IInv, CopyInv, OrderInv, RanInv, [Next]_vars
             PROVE  OrderInv' /\ RanInv'
  OBVIOUS
<1>1. CASE StartPlanning \/ ClearOutdatedPlan \/ ClearFinishedPlan \/ RetainFailedPlan
  <2>1. pc' # "execute" /\ UNCHANGED <<apiVars, accepted, ran>>
    BY <1>1 DEF StartPlanning, ClearOutdatedPlan, ClearFinishedPlan, RetainFailedPlan,
       Take, Finish, historyVars
  <2> QED
    BY <2>1, OrderUnchanged
<1>2. CASE ObservationFails \/ TopologyMatches \/ WaitForStableCluster \/ CallPlanner
             \/ PlannerFails \/ AcceptPlan
  <2>1. pc' # "execute" /\ UNCHANGED <<apiVars, accepted, ran>>
    BY <1>2 DEF ObservationFails, TopologyMatches, WaitForStableCluster, CallPlanner,
       PlannerFails, AcceptPlan, Finish, historyVars
  <2> QED
    BY <2>1, OrderUnchanged
<1>3. CASE Drift \/ UNCHANGED vars
  BY <1>3, OrderUnchanged DEF Drift, vars, workerVars, historyVars
<1> QED
  BY <1>1, <1>2, <1>3, StartStepOrder, ExecuteStepOrder, WriteOrder, EditSpecOrder,
     DeliverOrder, RestartOrder DEF Next, Reconcile, Environment

\* A lagging cache, a conflict or a restart can repeat the last step but never an
\* earlier one (the write after executeNextStep is lost, refused, or still unread).
THEOREM StepsNeverRunBackwards == Spec => NoStepRunsBackwards
<1>1. Init => CopyInv /\ OrderInv /\ RanInv
  <2> SUFFICES ASSUME Init PROVE CopyInv /\ OrderInv /\ RanInv
    OBVIOUS
  <2>1. CopyInv
    BY DEF Init, CopyInv
  <2>2. Len(undelivered) = 0
    BY EmptySeq DEF Init
  <2>3. \A v \in Lagging : v.plan = NoPlan
    BY <2>2 DEF Init, Lagging, NewObject
  <2> QED
    BY <2>1, <2>2, <2>3 DEF Init, OrderInv, RanInv, Beyond
<1>2. IInv /\ CopyInv /\ OrderInv /\ RanInv /\ [Next]_vars =>
        (CopyInv /\ OrderInv /\ RanInv)'
  BY NextCopyInv, NextOrderInv
<1>3. IInv /\ RanInv /\ [Next]_vars =>
        (ran' # ran => \/ ran'[1] > ran[1]
                       \/ ran'[1] = ran[1] /\ ran'[2] >= ran[2])
  <2> SUFFICES ASSUME IInv, RanInv, [Next]_vars, ran' # ran
               PROVE  \/ ran'[1] > ran[1]
                      \/ ran'[1] = ran[1] /\ ran'[2] >= ran[2]
    OBVIOUS
  <2>1. ExecuteStep
    BY OnlyExecuteStepRuns
  <2>2. PICK i \in Steps : NextPending(work.plan, i) /\ ran' = <<work.plan.id, i>>
    BY <2>1 DEF ExecuteStep
  <2>3. /\ work.plan # NoPlan
        /\ Beyond(ran[1], 1..(ran[2] - 1), work)
    BY <2>1 DEF ExecuteStep, IInv, PhaseInv, RanInv
  <2>4. i \in Nat /\ ran[2] \in Nat /\ ran[1] \in Nat
    BY PlanExecutionAssumption DEF Steps, IInv, TypeOK
  <2>5. CASE work.plan.id > ran[1]
    BY <2>2, <2>5
  <2>6. CASE work.plan.id = ran[1] /\
             \A j \in 1..(ran[2] - 1) : work.plan.steps[j] = "Completed"
    <3>1. i >= ran[2]
      <4> SUFFICES ASSUME i < ran[2] PROVE FALSE
        BY <2>4
      <4>1. i \in 1..(ran[2] - 1)
        BY <2>4, PlanExecutionAssumption DEF Steps
      <4> QED
        BY <2>2, <2>6, <4>1 DEF NextPending
    <3> QED
      BY <2>2, <2>6, <3>1
  <2> QED
    BY <2>3, <2>5, <2>6 DEF Beyond
<1> QED
  BY <1>1, <1>2, <1>3, InvariantHolds, PTL DEF Spec, NoStepRunsBackwards
=============================================================================
