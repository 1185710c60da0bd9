------------------------- MODULE PlanExecutionProofs -------------------------
(***************************************************************************)
(* Proofs about the reconciler, for any number of steps, plans, edits and  *)
(* faults.                                                                 *)
(*                                                                         *)
(* A step runs on the worker's copy, which comes from the cache, which     *)
(* holds a version that the server held before.  The inductive invariant   *)
(* therefore speaks of every version that is still in use, and of what the *)
(* worker's copy is allowed to differ in while it is current.              *)
(***************************************************************************)
EXTENDS PlanExecution, SequenceTheorems, WellFoundedInduction, TLAPS

\* The versions of the object that the worker may still read.
Lagging ==
    {server, cache} \cup {undelivered[i] : i \in 1..Len(undelivered)}

\* The informer ends at the server's version.
InformerInv ==
    IF undelivered = <<>> THEN cache = server
    ELSE undelivered[Len(undelivered)] = server

CompletedReported(plan, done) ==
    \A i \in Steps : plan.steps[i] = "Completed" => <<plan.id, i>> \in done

\* A stored plan counts as accepted, and the steps it has completed were
\* reported.
Recorded(v, count, done) ==
    v.plan # NoPlan => v.plan.id <= count /\ CompletedReported(v.plan, done)

LaggingInv == \A v \in Lagging : Recorded(v, accepted, reported)

\* The worker's copy may hold a plan that is not stored yet.
NewPlanInv ==
    work.plan # NoPlan =>
        /\ CompletedReported(work.plan, reported)
        /\ work.plan.id <= accepted + 1
        /\ NewPlanStored =>
              /\ pc = "write"
              /\ work.plan.target = work.gen
              /\ current => server.plan = NoPlan

PhaseInv ==
    /\ pc \in {"observe", "planner"} =>
          work.plan = NoPlan /\ (current => server.plan = NoPlan)
    /\ pc = "execute" =>
          /\ work.plan # NoPlan
          /\ work.plan.target = work.gen
          /\ Running(work.plan)
    /\ pc = "write" /\ ~requeue =>
          \/ Settled(work)
          \/ current => server.plan = NoPlan /\ work.plan # NoPlan
    /\ pc = "idle" => ~current /\ work.plan = NoPlan

FailedForSpec(v) ==
    v.plan # NoPlan /\ Failed(v.plan) /\ v.plan.target = v.gen

FailedKeptInv ==
    current /\ FailedForSpec(server) =>
        pc = "write" /\ work.plan # NoPlan /\ Failed(work.plan)

IInv ==
    /\ TypeOK
    /\ InformerInv
    /\ LaggingInv
    /\ NewPlanInv
    /\ PhaseInv
    /\ FailedKeptInv
    /\ NoLostWakeup

-----------------------------------------------------------------------------
\* int32(n) is an integer, and n itself below the range's end.
LEMMA Int32Type ==
    \A n \in Nat : Int32(n) \in Int /\ (n < Int32Span => Int32(n) = n)
  BY PlanExecutionAssumption DEF Int32

\* The assignment under the comparison never lowers nextPodOrdinal.
LEMMA RaiseGrows ==
    ASSUME NEW next \in Nat, NEW S \in SUBSET Int
    PROVE  Raise(next, S) \in Nat /\ Raise(next, S) >= next
<1>1. CASE \E n \in S : n > next
  <2>1. Raise(next, S) \in S /\ Raise(next, S) > next
    BY <1>1, Zenon DEF Raise
  <2>2. Raise(next, S) \in Int
    BY <2>1
  <2>3. QED
    BY <2>1, <2>2
<1>2. CASE ~\E n \in S : n > next
  BY <1>2 DEF Raise
<1>3. QED
  BY <1>1, <1>2

\* bumpNextPodOrdinal and its variants never lower nextPodOrdinal.
LEMMA BumpGrows ==
    ASSUME NEW next \in Nat, NEW pods \in SUBSET Ordinals
    PROVE  Bump(next, pods) \in Nat /\ Bump(next, pods) >= next
<1>1. \A p \in Highest(pods) : p + 1 \in Nat
  BY PlanExecutionAssumption DEF Highest
<1>2. {Int32(p + 1) : p \in Highest(pods)} \in SUBSET Int
  BY <1>1, Int32Type
<1>3. QED
  BY <1>2, RaiseGrows DEF Bump

\* advanceNextPodOrdinalFromPlan never lowers nextPodOrdinal.
LEMMA AdvanceGrows ==
    ASSUME NEW next \in Nat, NEW pods \in SUBSET Ordinals
    PROVE  Advance(next, pods) \in Nat /\ Advance(next, pods) >= next
<1>1. \A p \in pods : p + 1 \in Nat
  BY PlanExecutionAssumption
<1>2. Highest({Int32(p + 1) : p \in pods}) \in SUBSET Int
  BY <1>1, Int32Type DEF Highest
<1>3. QED
  BY <1>2, RaiseGrows DEF Advance

\* Recording a step's outcome yields a plan again.
LEMMA StepResultType ==
    ASSUME NEW plan \in Plans, NEW i \in Steps, NEW state \in StepStates,
           NEW status \in PlanStates
    PROVE  /\ [plan EXCEPT !.steps[i] = state] \in Plans
           /\ [[plan EXCEPT !.steps[i] = state] EXCEPT !.status = status] \in Plans
  BY DEF Plans

\* A plan is what it is with its own status.
LEMMA OwnStatus ==
    ASSUME NEW plan \in Plans
    PROVE  plan = [plan EXCEPT !.status = plan.status]
  BY DEF Plans

\* The copy that Reconcile reads from the cache is a version of the object.
LEMMA LoadedType ==
    ASSUME TypeOK
    PROVE  /\ Loaded \in Versions
           /\ Loaded.plan = cache.plan
           /\ Loaded.gen = cache.gen
           /\ Loaded.next >= cache.next
<1>1. CASE cache.plan = NoPlan
  BY <1>1 DEF Loaded, TypeOK, Versions
<1>2. CASE cache.plan # NoPlan
  <2>1. cache.next \in Nat /\ cache.plan.pods \in SUBSET Ordinals
    BY <1>2 DEF TypeOK, Versions, Plans
  <2>2. Bump(cache.next, cache.plan.pods) \in Nat
    BY <2>1, BumpGrows
  <2>3. Bump(cache.next, cache.plan.pods) >= cache.next
    BY <2>1, BumpGrows
  <2>4. QED
    BY <1>2, <2>2, <2>3 DEF Loaded, TypeOK, Versions
<1>3. QED
  BY <1>1, <1>2

-----------------------------------------------------------------------------
\* A stored version becomes the last one the informer will receive.
LEMMA PublishLagging ==
    ASSUME TypeOK, NEW v \in Versions, Publish(v)
    PROVE  /\ undelivered' \in Seq(Versions)
           /\ undelivered' # <<>>
           /\ InformerInv'
           /\ Lagging' \subseteq Lagging \cup {v}
<1>1. undelivered \in Seq(Versions) /\ undelivered' = Append(undelivered, v)
  BY DEF TypeOK, Publish
<1>2. /\ undelivered' \in Seq(Versions)
      /\ Len(undelivered') = Len(undelivered) + 1
      /\ undelivered'[Len(undelivered) + 1] = v
      /\ \A i \in 1..Len(undelivered) : undelivered'[i] = undelivered[i]
  BY <1>1, AppendProperties
<1>3. Len(undelivered) \in Nat /\ undelivered' # <<>>
  BY <1>1, <1>2, LenProperties, EmptySeq
<1>4. \A i \in 1..Len(undelivered') :
         undelivered'[i] = v \/ \E j \in 1..Len(undelivered) : undelivered'[i] = undelivered[j]
  BY <1>2, <1>3
<1>5. QED
  BY <1>2, <1>3, <1>4 DEF Publish, InformerInv, Lagging

\* A received version was one of those in use.
LEMMA DeliverLagging ==
    ASSUME TypeOK, InformerInv, Deliver
    PROVE  /\ undelivered' \in Seq(Versions)
           /\ cache' \in Versions
           /\ InformerInv'
           /\ Lagging' \subseteq Lagging
<1>1. undelivered \in Seq(Versions) /\ undelivered # <<>>
  BY DEF TypeOK, Deliver
<1>2. /\ Head(undelivered) \in Versions
      /\ Tail(undelivered) \in Seq(Versions)
      /\ Len(Tail(undelivered)) = Len(undelivered) - 1
      /\ \A i \in 1..Len(Tail(undelivered)) : Tail(undelivered)[i] = undelivered[i + 1]
  BY <1>1, HeadTailProperties
<1>3. Len(undelivered) \in Nat \ {0} /\ Head(undelivered) = undelivered[1]
  BY <1>1, LenProperties, EmptySeq DEF Head
<1>4. Lagging' \subseteq Lagging
  BY <1>2, <1>3 DEF Deliver, Lagging
<1>5. InformerInv'
  <2>1. CASE undelivered' = <<>>
    <3>1. Len(undelivered) - 1 = 0
      BY <1>2, <2>1, EmptySeq DEF Deliver
    <3>2. Len(undelivered) = 1
      BY <1>3, <3>1
    <3>3. cache' = server'
      BY <1>1, <1>3, <3>2 DEF Deliver, InformerInv
    <3>4. QED
      BY <2>1, <3>3 DEF InformerInv
  <2>2. CASE undelivered' # <<>>
    <3>1. Len(undelivered') \in Nat \ {0}
      BY <1>2, <2>2, LenProperties, EmptySeq DEF Deliver
    <3>2. undelivered'[Len(undelivered')] = undelivered[Len(undelivered)]
      BY <1>2, <1>3, <3>1 DEF Deliver
    <3>3. QED
      BY <1>1, <2>2, <3>2 DEF Deliver, InformerInv
  <2>3. QED
    BY <2>1, <2>2
<1>6. QED
  BY <1>1, <1>2, <1>4, <1>5 DEF Deliver

\* While the API server's object and the informer are untouched, what is known
\* of the versions in use stays true.
LEMMA ApiUnchanged ==
    ASSUME IInv, UNCHANGED <<apiVars, accepted>>, reported \subseteq reported'
    PROVE  InformerInv' /\ LaggingInv'
<1>1. Lagging' = Lagging
  BY DEF apiVars, Lagging
<1>2. QED
  BY <1>1 DEF IInv, apiVars, InformerInv, LaggingInv, Recorded, CompletedReported

-----------------------------------------------------------------------------
\* The initial state satisfies the inductive invariant.
LEMMA InitIInv == Init => IInv
<1> SUFFICES ASSUME Init PROVE IInv
  OBVIOUS
<1> USE PlanExecutionAssumption
<1>1. NewObject \in Versions /\ NewObject.plan = NoPlan
  BY DEF NewObject, Versions, Generations
<1>2. <<>> \in Seq(Versions) /\ Len(<<>>) = 0
  BY EmptySeq
<1>3. TypeOK
  <2>1. <<0, 0>> \in (0..MaxPlans) \X (0..NumSteps) /\ 0 \in 0..MaxFaults
    OBVIOUS
  <2>2. queued \in BOOLEAN /\ current \in BOOLEAN /\ requeue \in BOOLEAN
    BY Zenon DEF Init
  <2>3. QED
    BY <1>1, <1>2, <2>1, <2>2 DEF Init, TypeOK
<1>4. Lagging = {NewObject}
  BY <1>2 DEF Init, Lagging
<1>5. QED
  BY <1>1, <1>3, <1>4 DEF Init, IInv, InformerInv, LaggingInv, Recorded, NewPlanInv,
     PhaseInv, FailedKeptInv, FailedForSpec, NoLostWakeup

-----------------------------------------------------------------------------
\* Reconcile reads the cache and enters one of its branches.
LEMMA TakePreserves ==
    ASSUME IInv,
           StartPlanning \/ ClearOutdatedPlan \/ StartStep
             \/ ClearFinishedPlan \/ RetainFailedPlan
    PROVE  IInv'
<1> USE PlanExecutionAssumption
<1>1. Take
  BY DEF StartPlanning, ClearOutdatedPlan, StartStep, ClearFinishedPlan, RetainFailedPlan
<1>2. InformerInv' /\ LaggingInv'
  BY <1>1, ApiUnchanged DEF Take, historyVars
<1>3. /\ Loaded \in Versions
      /\ Loaded.plan = cache.plan
      /\ Loaded.gen = cache.gen
  BY LoadedType DEF IInv
<1>4. cache \in Versions /\ Recorded(cache, accepted, reported)
  BY DEF IInv, TypeOK, LaggingInv, Lagging
<1>5. current' => cache = server
  BY <1>1 DEF IInv, InformerInv, Take
<1>6. \/ pc' = "observe" /\ work' = Loaded /\ ~HasPlan /\ requeue' = requeue
      \/ /\ pc' = "execute" /\ work' = Loaded /\ requeue' = requeue
         /\ TargetsCurrentSpec /\ Running(cache.plan)
      \/ /\ pc' = "write" /\ requeue' = TRUE /\ HasPlan
         /\ work' \in {[Loaded EXCEPT !.plan = NoPlan, !.ready = 0],
                       [Loaded EXCEPT !.plan = NoPlan]}
         /\ ~(TargetsCurrentSpec /\ Failed(cache.plan))
      \/ /\ pc' = "write" /\ requeue' = FALSE
         /\ work' = [Loaded EXCEPT !.plan.status = "Failed", !.ready = 0]
         /\ TargetsCurrentSpec /\ Failed(cache.plan)
  BY DEF StartPlanning, ClearOutdatedPlan, StartStep, ClearFinishedPlan,
     RetainFailedPlan, Finish, HasPlan, TargetsCurrentSpec, Completed, Failed, Superseded
<1>7. /\ work' \in Versions
      /\ work'.gen = cache.gen
      /\ work'.plan # NoPlan =>
            /\ cache.plan \in Plans
            /\ work'.plan \in Plans
            /\ work'.plan.id = cache.plan.id
            /\ work'.plan.target = cache.plan.target
            /\ work'.plan.steps = cache.plan.steps
            /\ work'.plan.status \in {cache.plan.status, "Failed"}
  <2>1. CASE work' = Loaded
    BY <1>3, <1>4, <2>1 DEF Versions
  <2>2. CASE work' = [Loaded EXCEPT !.plan = NoPlan, !.ready = 0]
    BY <1>3, <2>2 DEF Versions
  <2>3. CASE work' = [Loaded EXCEPT !.plan = NoPlan]
    BY <1>3, <2>3 DEF Versions
  <2>4. CASE work' = [Loaded EXCEPT !.plan.status = "Failed", !.ready = 0] /\ HasPlan
    <3>1. Loaded.plan \in Plans
      BY <1>3, <1>4, <2>4 DEF HasPlan, Versions
    <3>2. [Loaded.plan EXCEPT !.status = "Failed"] \in Plans
      BY <3>1 DEF Plans, PlanStates
    <3>3. work'.plan = [Loaded.plan EXCEPT !.status = "Failed"] /\ work'.gen = Loaded.gen
      BY <1>3, <3>1, <2>4 DEF Versions
    <3>4. work' \in Versions
      BY <1>3, <3>2, <2>4 DEF Versions
    <3>5. QED
      BY <1>3, <3>1, <3>2, <3>3, <3>4 DEF Plans
  <2>5. QED
    BY <1>6, <2>1, <2>2, <2>3, <2>4 DEF TargetsCurrentSpec
<1>8. TypeOK'
  <2>1. queued' \in BOOLEAN /\ current' \in BOOLEAN
    BY <1>1, Zenon DEF Take
  <2>2. requeue' \in BOOLEAN /\ pc' \in {"idle", "execute", "observe", "planner", "write"}
    BY <1>6 DEF IInv, TypeOK
  <2>3. QED
    BY <1>1, <1>7, <2>1, <2>2 DEF IInv, TypeOK, Take, apiVars, historyVars
<1>9. NewPlanInv'
  <2>1. accepted \in Nat /\ accepted' = accepted /\ reported' = reported
    BY <1>1 DEF IInv, TypeOK, Take, historyVars
  <2>2. work'.plan # NoPlan =>
           work'.plan.id <= accepted /\ work'.plan.id \in Int /\ CompletedReported(work'.plan, reported)
    BY <1>4, <1>7, PlanExecutionAssumption DEF Recorded, CompletedReported, Plans
  <2>3. QED
    BY <2>1, <2>2 DEF NewPlanInv, NewPlanStored, CompletedReported
<1>10. Failed(cache.plan) /\ work'.plan # NoPlan => Failed(work'.plan)
  BY <1>7 DEF Failed, Superseded
<1>11. FailedForSpec(cache) =>
         pc' = "write" /\ work'.plan # NoPlan /\ Failed(work'.plan)
  <2> SUFFICES ASSUME FailedForSpec(cache)
               PROVE  pc' = "write" /\ work'.plan # NoPlan /\ Failed(work'.plan)
    OBVIOUS
  <2>1. HasPlan /\ TargetsCurrentSpec /\ ~Running(cache.plan)
    BY DEF FailedForSpec, HasPlan, TargetsCurrentSpec, Running
  <2>2. Failed(cache.plan)
    BY DEF FailedForSpec
  <2>3. /\ pc' = "write"
        /\ work' = [Loaded EXCEPT !.plan.status = "Failed", !.ready = 0]
    BY <1>6, <2>1, <2>2
  <2>4. Loaded.plan \in Plans
    BY <1>3, <1>4, <2>1 DEF HasPlan, Versions
  <2>5. work'.plan \in Plans
    BY <1>3, <2>3, <2>4 DEF Versions, Plans, PlanStates
  <2>6. QED
    BY <1>10, <2>2, <2>3, <2>5
<1>12. FailedKeptInv'
  BY <1>1, <1>5, <1>11 DEF FailedKeptInv, FailedForSpec, Take, apiVars
<1>13. PhaseInv'
  <2>1. CASE pc' = "observe" /\ work' = Loaded /\ ~HasPlan
    <3>1. work'.plan = NoPlan /\ cache.plan = NoPlan
      BY <1>3, <2>1 DEF HasPlan
    <3>2. current' => server'.plan = NoPlan
      BY <1>1, <1>5, <3>1 DEF Take, apiVars
    <3>3. QED
      BY <2>1, <3>1, <3>2 DEF PhaseInv
  <2>2. CASE pc' = "execute" /\ work' = Loaded /\ TargetsCurrentSpec /\ Running(cache.plan)
    BY <1>3, <2>2 DEF PhaseInv, TargetsCurrentSpec, HasPlan
  <2>3. CASE pc' = "write" /\ requeue' = TRUE
    BY <2>3 DEF PhaseInv
  <2>4. CASE /\ pc' = "write"
             /\ work' = [Loaded EXCEPT !.plan.status = "Failed", !.ready = 0]
             /\ TargetsCurrentSpec /\ Failed(cache.plan)
    <3>1. Loaded.plan \in Plans
      BY <1>3, <1>4, <2>4 DEF HasPlan, TargetsCurrentSpec, Versions
    <3>2. work'.plan \in Plans
      BY <1>3, <2>4, <3>1 DEF Versions, Plans, PlanStates
    <3>3. Settled(work')
      BY <1>7, <1>10, <2>4, <3>2 DEF Settled, TargetsCurrentSpec
    <3>4. Settled(work)'
      BY <3>3 DEF Settled, Failed, Superseded
    <3>5. QED
      BY <2>4, <3>4 DEF PhaseInv
  <2>5. QED
    BY <1>6, <2>1, <2>2, <2>3, <2>4
<1>14. NoLostWakeup'
  BY <1>6 DEF NoLostWakeup
<1>15. QED
  BY <1>2, <1>8, <1>9, <1>12, <1>13, <1>14 DEF IInv

-----------------------------------------------------------------------------
\* The driver runs the next step and the outcome is recorded on the copy.
LEMMA ExecuteStepPreserves ==
    ASSUME IInv, ExecuteStep
    PROVE  IInv'
<1> USE PlanExecutionAssumption
<1>1. PICK i \in Steps :
        /\ NextPending(work.plan, i)
        /\ ran' = <<work.plan.id, i>>
        /\ ensured' = ensured \cup work.plan.pods
        /\ StepCompleted(i) \/ StepRunning(i) \/ StepFailed(i) \/ StepSupersedes(i)
  BY DEF ExecuteStep
<1>2. /\ pc = "execute"
      /\ UNCHANGED <<apiVars, queued, current, accepted>>
  BY DEF ExecuteStep
<1>3. /\ work \in Versions /\ work.plan \in Plans
      /\ work.plan.target = work.gen /\ Running(work.plan)
      /\ CompletedReported(work.plan, reported)
      /\ work.plan.id <= accepted /\ work.plan.id \in Int
  <2>1. work \in Versions /\ work.plan # NoPlan /\ work.plan.target = work.gen
        /\ Running(work.plan)
    BY <1>2 DEF IInv, TypeOK, PhaseInv
  <2>2. work.plan \in Plans
    BY <2>1 DEF Versions
  <2>3. accepted \in Nat /\ work.plan.id \in Int
    BY <2>2 DEF IInv, TypeOK, Plans
  <2>4. work.plan.id <= accepted + 1 /\ work.plan.id # accepted + 1
        /\ CompletedReported(work.plan, reported)
    BY <1>2, <2>1 DEF IInv, NewPlanInv, NewPlanStored
  <2>5. QED
    BY <2>1, <2>2, <2>3, <2>4
<1>4. \A state \in StepStates, status \in PlanStates :
        /\ StepResult(i, state) \in Plans
        /\ [StepResult(i, state) EXCEPT !.status = status] \in Plans
        /\ StepResult(i, state).id = work.plan.id
        /\ StepResult(i, state).target = work.plan.target
        /\ StepResult(i, state).pods = work.plan.pods
        /\ StepResult(i, state).status = work.plan.status
        /\ StepResult(i, state).steps = [work.plan.steps EXCEPT ![i] = state]
        /\ [StepResult(i, state) EXCEPT !.status = status].id = work.plan.id
        /\ [StepResult(i, state) EXCEPT !.status = status].target = work.plan.target
        /\ [StepResult(i, state) EXCEPT !.status = status].status = status
        /\ [StepResult(i, state) EXCEPT !.status = status].steps
              = [work.plan.steps EXCEPT ![i] = state]
  BY <1>3, StepResultType DEF StepResult, Plans
<1>own. \A state \in StepStates :
          StepResult(i, state) = [StepResult(i, state) EXCEPT !.status = work.plan.status]
  <2> SUFFICES ASSUME NEW state \in StepStates
               PROVE  StepResult(i, state)
                        = [StepResult(i, state) EXCEPT !.status = work.plan.status]
    OBVIOUS
  <2>1. "Running" \in PlanStates
    BY DEF PlanStates
  <2>2. StepResult(i, state) \in Plans /\ StepResult(i, state).status = work.plan.status
    BY <1>4, <2>1
  <2>3. QED
    BY <2>2, OwnStatus
<1>5. PICK state \in StepStates, status \in PlanStates :
        /\ work'.plan = [StepResult(i, state) EXCEPT !.status = status]
        /\ work' \in Versions /\ work'.gen = work.gen
        /\ state = "Completed" => reported' = reported \cup {<<work.plan.id, i>>}
        /\ state # "Completed" => reported' = reported
        /\ requeue' = TRUE \/ (state = "Failed" /\ status = "Failed")
  <2>1. CASE StepCompleted(i)
    <3>1. PICK status \in {work.plan.status, "Completed"} :
            /\ work' = [work EXCEPT !.plan = [StepResult(i, "Completed") EXCEPT !.status = status]]
      <4>1. StepResult(i, "Completed")
              = [StepResult(i, "Completed") EXCEPT !.status = work.plan.status]
        BY <1>own DEF StepStates
      <4>2. QED
        BY <2>1, <4>1 DEF StepCompleted, Finish
    <3>2. status \in PlanStates
      BY <1>3 DEF Plans, PlanStates
    <3>3. [StepResult(i, "Completed") EXCEPT !.status = status] \in Plans
      BY <1>4, <3>2 DEF StepStates
    <3>4. reported' = reported \cup {<<work.plan.id, i>>} /\ requeue' = TRUE
      BY <1>4, <2>1, <3>2 DEF StepCompleted, Finish, StepStates
    <3>5. QED
      BY <1>3, <3>1, <3>2, <3>3, <3>4 DEF Versions, StepStates
  <2>2. CASE StepRunning(i)
    <3>1. StepResult(i, "Running")
            = [StepResult(i, "Running") EXCEPT !.status = work.plan.status]
      BY <1>own DEF StepStates
    <3>2. /\ work' = [work EXCEPT !.plan = StepResult(i, "Running")]
          /\ requeue' = TRUE /\ reported' = reported
      BY <2>2 DEF StepRunning, Finish
    <3>3. work.plan.status \in PlanStates /\ StepResult(i, "Running") \in Plans
      BY <1>3, <1>4 DEF Plans, StepStates
    <3>4. QED
      BY <1>3, <3>1, <3>2, <3>3 DEF Versions, StepStates
  <2>3. CASE StepFailed(i)
    <3>1. /\ work' = [work EXCEPT !.plan = [StepResult(i, "Failed") EXCEPT !.status = "Failed"],
                                  !.ready = 0]
          /\ reported' = reported
      BY <2>3 DEF StepFailed, Finish
    <3>2. [StepResult(i, "Failed") EXCEPT !.status = "Failed"] \in Plans
      BY <1>4 DEF StepStates, PlanStates
    <3>3. QED
      BY <1>3, <3>1, <3>2 DEF Versions, StepStates, PlanStates
  <2>4. CASE StepSupersedes(i)
    <3>1. /\ work' = [work EXCEPT !.plan = [StepResult(i, "Running") EXCEPT !.status = "Superseded"],
                                  !.ready = 0]
          /\ reported' = reported /\ requeue' = TRUE
      BY <2>4 DEF StepSupersedes, Finish
    <3>2. [StepResult(i, "Running") EXCEPT !.status = "Superseded"] \in Plans
      BY <1>4 DEF StepStates, PlanStates
    <3>3. QED
      BY <1>3, <3>1, <3>2 DEF Versions, StepStates, PlanStates
  <2>5. QED
    BY <1>1, <2>1, <2>2, <2>3, <2>4
<1>6. /\ pc' = "write" /\ requeue' \in BOOLEAN
      /\ world' \in SUBSET Generations /\ faults' \in 0..MaxFaults
  <2>1. world' \in SUBSET Generations
    BY <1>1 DEF IInv, TypeOK, StepCompleted, StepRunning, StepFailed, StepSupersedes,
       TopologyMayChange
  <2>2. faults' \in 0..MaxFaults
    <3>1. faults' = faults \/ (faults < MaxFaults /\ faults' = faults + 1)
      BY <1>1 DEF StepCompleted, StepRunning, StepFailed, StepSupersedes, Fault
    <3>2. QED
      BY <3>1 DEF IInv, TypeOK
  <2>3. pc' = "write" /\ requeue' \in BOOLEAN
    BY <1>1, Zenon DEF StepCompleted, StepRunning, StepFailed, StepSupersedes, Finish
  <2>4. QED
    BY <2>1, <2>2, <2>3
<1>7. TypeOK'
  <2>1. ran' \in (0..MaxPlans) \X (0..NumSteps)
    BY <1>1, <1>3 DEF Plans, Steps
  <2>2. reported' \in SUBSET ((1..MaxPlans) \X Steps)
    BY <1>3, <1>5 DEF IInv, TypeOK, Plans
  <2>3. ensured' \in SUBSET Ordinals
    BY <1>1, <1>3 DEF IInv, TypeOK, Plans
  <2>4. QED
    BY <1>2, <1>5, <1>6, <2>1, <2>2, <2>3 DEF IInv, TypeOK, apiVars
<1>8. InformerInv' /\ LaggingInv'
  BY <1>2, <1>5, ApiUnchanged
<1>9. /\ work'.plan \in Plans /\ work'.plan.id = work.plan.id
      /\ work'.plan.target = work.plan.target /\ work'.plan.status = status
      /\ work'.plan.steps = [work.plan.steps EXCEPT ![i] = state]
  BY <1>4, <1>5
<1>10. CompletedReported(work'.plan, reported')
  <2> SUFFICES ASSUME NEW j \in Steps, work'.plan.steps[j] = "Completed"
               PROVE  <<work.plan.id, j>> \in reported'
    BY <1>9 DEF CompletedReported
  <2>1. CASE j = i
    BY <1>3, <1>5, <1>9, <2>1 DEF Plans
  <2>2. CASE j # i
    BY <1>3, <1>5, <1>9, <2>2 DEF Plans, CompletedReported
  <2>3. QED
    BY <2>1, <2>2
<1>11. NewPlanInv'
  <2>1. accepted \in Nat /\ work'.plan.id # accepted' + 1 /\ work'.plan.id <= accepted' + 1
    BY <1>2, <1>3, <1>9 DEF IInv, TypeOK
  <2>2. QED
    BY <1>10, <2>1 DEF NewPlanInv, NewPlanStored, CompletedReported
<1>12. FailedKeptInv'
  BY <1>2 DEF IInv, FailedKeptInv, FailedForSpec, apiVars
<1>13. PhaseInv'
  <2>1. CASE requeue' = TRUE
    BY <1>6, <2>1 DEF PhaseInv
  <2>2. CASE state = "Failed" /\ status = "Failed"
    <3>1. Failed(work'.plan)
      BY <1>3, <1>9, <2>2 DEF Failed, Superseded, Plans
    <3>2. Settled(work')
      BY <1>3, <1>5, <1>9, <3>1 DEF Settled
    <3>3. Settled(work)'
      BY <3>2 DEF Settled, Failed, Superseded
    <3>4. QED
      BY <1>6, <3>3 DEF PhaseInv
  <2>3. QED
    BY <1>5, <2>1, <2>2
<1>14. NoLostWakeup'
  BY <1>6 DEF NoLostWakeup
<1>15. QED
  BY <1>7, <1>8, <1>11, <1>12, <1>13, <1>14 DEF IInv

-----------------------------------------------------------------------------
\* What reconcilePlan reads off the observation raises nextPodOrdinal at most.
LEMMA ObservedType ==
    ASSUME TypeOK, NEW pods \in SUBSET ensured
    PROVE  Bump(work.next, pods) \in Nat /\ Bump(work.next, pods) >= work.next
<1>1. work.next \in Nat /\ pods \in SUBSET Ordinals
  BY DEF TypeOK, Versions
<1>2. QED
  BY <1>1, BumpGrows

\* reconcilePlan observes, waits, asks the planner or records a new plan.
LEMMA PlanningPreserves ==
    ASSUME IInv,
           ObservationFails \/ TopologyMatches \/ WaitForStableCluster \/ CallPlanner
             \/ PlannerFails \/ AcceptPlan
    PROVE  IInv'
<1> USE PlanExecutionAssumption
<1>1. /\ pc \in {"observe", "planner"}
      /\ UNCHANGED <<apiVars, queued, current, world, historyVars>>
  BY DEF ObservationFails, TopologyMatches, WaitForStableCluster, CallPlanner,
     PlannerFails, AcceptPlan
<1>2. /\ work \in Versions /\ work.plan = NoPlan /\ current => server.plan = NoPlan
  BY <1>1 DEF IInv, TypeOK, PhaseInv
<1>3. /\ work \in Versions /\ work.plan = NoPlan
      /\ work.next \in Nat /\ work.gen \in Generations
  BY <1>1 DEF IInv, TypeOK, PhaseInv, Versions
<1>4. /\ work' \in Versions /\ work'.gen = work.gen
      /\ \/ /\ work'.plan = NoPlan
            /\ pc' \in {"write", "planner"}
            /\ requeue' = TRUE \/ work'.ready = work.gen \/ pc' = "planner"
            /\ requeue' \in BOOLEAN
         \/ /\ work'.plan \in Plans /\ work'.plan.id = accepted + 1
            /\ work'.plan.target = work.gen
            /\ work'.plan.steps = [i \in Steps |-> "Pending"]
            /\ pc' = "write" /\ requeue' = FALSE
  <2>1. CASE ObservationFails \/ PlannerFails
    BY <1>3, <2>1 DEF ObservationFails, PlannerFails, Finish
  <2>2. CASE TopologyMatches
    <3>1. PICK pods \in SUBSET ensured :
            Finish([work EXCEPT !.next = Bump(@, pods), !.ready = work.gen], FALSE)
      BY <2>2 DEF TopologyMatches
    <3>2. Bump(work.next, pods) \in Nat
      BY ObservedType DEF IInv
    <3>3. QED
      BY <1>3, <3>1, <3>2 DEF Finish, Versions
  <2>3. CASE WaitForStableCluster
    <3>1. PICK pods \in SUBSET ensured :
            Finish([work EXCEPT !.next = Bump(@, pods), !.ready = 0], TRUE)
      BY <2>3 DEF WaitForStableCluster
    <3>2. Bump(work.next, pods) \in Nat
      BY ObservedType DEF IInv
    <3>3. QED
      BY <1>3, <3>1, <3>2 DEF Finish, Versions
  <2>4. CASE CallPlanner
    <3>1. PICK pods \in SUBSET ensured : work' = [work EXCEPT !.next = Bump(@, pods)]
      BY <2>4 DEF CallPlanner
    <3>2. Bump(work.next, pods) \in Nat
      BY ObservedType DEF IInv
    <3>3. pc' = "planner" /\ requeue' \in BOOLEAN
      BY <2>4 DEF CallPlanner, IInv, TypeOK
    <3>4. QED
      BY <1>3, <3>1, <3>2, <3>3 DEF Versions
  <2>5. CASE AcceptPlan
    <3>1. PICK pods \in SUBSET Ordinals :
            Finish([work EXCEPT !.next = Advance(@, pods), !.plan = NewPlan(pods)], FALSE)
      BY <2>5 DEF AcceptPlan
    <3>2. Advance(work.next, pods) \in Nat
      BY <1>3, AdvanceGrows
    <3>3. accepted + 1 \in 1..MaxPlans
      <4>1. accepted < MaxPlans
        BY <2>5 DEF AcceptPlan
      <4>2. QED
        BY <4>1 DEF IInv, TypeOK
    <3>4. NewPlan(pods) \in Plans
      BY <1>3, <3>3 DEF NewPlan, Plans, StepStates, PlanStates
    <3>5. /\ work' \in Versions /\ work'.gen = work.gen /\ work'.plan = NewPlan(pods)
          /\ pc' = "write" /\ requeue' = FALSE
      BY <1>3, <3>1, <3>2, <3>4 DEF Finish, Versions
    <3>6. QED
      BY <3>4, <3>5 DEF NewPlan
  <2>6. QED
    BY <2>1, <2>2, <2>3, <2>4, <2>5
<1>5. TypeOK'
  <2>1. requeue' \in BOOLEAN
    BY <1>4, Zenon
  <2>2. QED
    BY <1>1, <1>4, <2>1 DEF IInv, TypeOK, apiVars, historyVars
<1>6. InformerInv' /\ LaggingInv'
  BY <1>1, ApiUnchanged DEF historyVars
<1>7. accepted \in Nat /\ accepted' = accepted /\ server' = server /\ current' = current
  BY <1>1 DEF IInv, TypeOK, historyVars, apiVars
<1>8. current' => server'.plan = NoPlan
  BY <1>1, <1>7 DEF IInv, PhaseInv
<1>9. CASE work'.plan = NoPlan
  <2>1. pc' \in {"write", "planner"} /\ (requeue' = TRUE \/ work'.ready = work'.gen \/ pc' = "planner")
    BY <1>4, <1>9
  <2>2. NewPlanInv'
    BY <1>9 DEF NewPlanInv
  <2>3. PhaseInv'
    BY <1>8, <1>9, <2>1 DEF PhaseInv, Settled
  <2>4. FailedKeptInv' /\ NoLostWakeup'
    BY <1>8, <2>1 DEF FailedKeptInv, FailedForSpec, NoLostWakeup
  <2>5. QED
    BY <1>5, <1>6, <2>2, <2>3, <2>4 DEF IInv
<1>10. CASE work'.plan # NoPlan
  <2>1. /\ work'.plan \in Plans /\ work'.plan.id = accepted + 1
        /\ work'.plan.target = work'.gen
        /\ work'.plan.steps = [i \in Steps |-> "Pending"]
        /\ pc' = "write"
    BY <1>4, <1>10
  <2>2. NewPlanInv'
    BY <1>7, <1>8, <2>1 DEF NewPlanInv, CompletedReported
  <2>3. PhaseInv'
    BY <1>8, <1>10, <2>1 DEF PhaseInv
  <2>4. FailedKeptInv' /\ NoLostWakeup'
    BY <1>8, <2>1 DEF FailedKeptInv, FailedForSpec, NoLostWakeup
  <2>5. QED
    BY <1>5, <1>6, <2>2, <2>3, <2>4 DEF IInv
<1>11. QED
  BY <1>9, <1>10

-----------------------------------------------------------------------------
\* The worker's copy becomes the stored object: a plan it adds is recorded.
LEMMA StoreFacts ==
    ASSUME IInv, pc = "write", current, Store, reported' = reported
    PROVE  /\ server' = work
           /\ undelivered' \in Seq(Versions) /\ cache' \in Versions
           /\ undelivered' = <<>> => work = server
           /\ accepted' \in 0..MaxPlans
           /\ InformerInv' /\ LaggingInv'
<1> USE PlanExecutionAssumption
<1>1. work \in Versions /\ accepted \in 0..MaxPlans /\ accepted \in Nat
  BY DEF IInv, TypeOK
<1>2. /\ server' = work /\ cache' \in Versions
      /\ undelivered' \in Seq(Versions)
      /\ undelivered' = <<>> => work = server
      /\ InformerInv'
      /\ Lagging' \subseteq Lagging \cup {work}
  <2>1. CASE work = server
    <3>1. server' = server /\ cache' = cache /\ undelivered' = undelivered
      BY <2>1 DEF Store, apiVars
    <3>2. QED
      BY <2>1, <3>1 DEF IInv, TypeOK, InformerInv, Lagging
  <2>2. CASE work # server
    <3>1. Publish(work)
      BY <2>2 DEF Store
    <3>2. QED
      BY <1>1, <3>1, PublishLagging DEF IInv, TypeOK, Publish
  <2>3. QED
    BY <2>1, <2>2
<1>3. work.plan # NoPlan => work.plan \in Plans /\ work.plan.id \in 1..MaxPlans
  BY <1>1 DEF Versions, Plans
<1>4. accepted' \in 0..MaxPlans /\ accepted' >= accepted
  BY <1>1, <1>3 DEF Store, NewPlanStored
<1>5. Recorded(work, accepted', reported)
  <2> SUFFICES ASSUME work.plan # NoPlan
               PROVE  work.plan.id <= accepted' /\ CompletedReported(work.plan, reported)
    BY DEF Recorded
  <2>1. work.plan.id <= accepted + 1 /\ CompletedReported(work.plan, reported)
    BY DEF IInv, NewPlanInv
  <2>2. CASE work.plan.id = accepted + 1
    BY <1>1, <2>1, <2>2 DEF Store, NewPlanStored
  <2>3. CASE work.plan.id # accepted + 1
    BY <1>1, <1>3, <1>4, <2>1, <2>3
  <2>4. QED
    BY <2>2, <2>3
<1>6. ASSUME NEW v \in Lagging PROVE Recorded(v, accepted', reported)
  <2>1. v \in Versions
    BY DEF Lagging, IInv, TypeOK
  <2>2. v.plan # NoPlan => v.plan.id \in Int
    BY <2>1 DEF Versions, Plans
  <2>3. Recorded(v, accepted, reported)
    BY DEF IInv, LaggingInv
  <2>4. QED
    BY <1>1, <1>4, <2>2, <2>3 DEF Recorded
<1>7. LaggingInv'
  BY <1>2, <1>5, <1>6 DEF LaggingInv, Recorded, CompletedReported
<1>8. QED
  BY <1>2, <1>4, <1>7

\* finish writes the status, is refused, or fails before or after the write.
LEMMA WritePreserves ==
    ASSUME IInv, Write \/ WriteConflict \/ WriteError
    PROVE  IInv'
<1> USE PlanExecutionAssumption
<1>1. /\ pc = "write" /\ Idle
      /\ UNCHANGED <<world, ran, reported, ensured>>
      /\ queued' \in BOOLEAN
      /\ faults' = faults \/ Fault
  BY Zenon DEF Write, WriteConflict, WriteError, FinishWrite
<1>2. /\ pc' = "idle" /\ work' = NewObject /\ current' = FALSE /\ requeue' = FALSE
  BY <1>1 DEF Idle
<1>3. NewObject \in Versions /\ NewObject.plan = NoPlan
  BY DEF NewObject, Versions, Generations
<1>4. /\ server' \in Versions /\ undelivered' \in Seq(Versions) /\ cache' \in Versions
      /\ accepted' \in 0..MaxPlans
      /\ InformerInv' /\ LaggingInv'
  <2>1. CASE current /\ Store
    <3>1. server' = work /\ work \in Versions
      BY <1>1, <2>1, StoreFacts DEF IInv, TypeOK
    <3>2. QED
      BY <1>1, <2>1, <3>1, StoreFacts
  <2>2. CASE UNCHANGED <<apiVars, accepted>>
    <3>1. InformerInv' /\ LaggingInv'
      BY <1>1, <2>2, ApiUnchanged
    <3>2. QED
      BY <2>2, <3>1 DEF IInv, TypeOK, apiVars
  <2>3. QED
    BY <2>1, <2>2 DEF Write, WriteConflict, WriteError
<1>5. TypeOK'
  <2>1. faults' \in 0..MaxFaults
    BY <1>1 DEF Fault, IInv, TypeOK
  <2>2. current' \in BOOLEAN /\ requeue' \in BOOLEAN
    BY <1>2, Zenon
  <2>3. pc' \in {"idle", "execute", "observe", "planner", "write"}
    BY <1>2
  <2>4. QED
    BY <1>1, <1>2, <1>3, <1>4, <2>1, <2>2, <2>3 DEF IInv, TypeOK
<1>6. NewPlanInv' /\ PhaseInv' /\ FailedKeptInv'
  BY <1>2, <1>3 DEF NewPlanInv, PhaseInv, FailedKeptInv
<1>7. NoLostWakeup'
  <2> SUFFICES ASSUME ~queued', undelivered' = <<>> PROVE Settled(server')
    BY DEF NoLostWakeup, Settled, Failed, Superseded
  <2>1. current /\ Store /\ ~requeue
    BY Zenon DEF Write, WriteConflict, WriteError, FinishWrite
  <2>2. server' = work /\ work = server
    BY <1>1, <2>1, StoreFacts
  <2>3. Settled(work)
    BY <1>1, <2>1, <2>2 DEF IInv, PhaseInv
  <2>4. QED
    BY <2>2, <2>3
<1>8. QED
  BY <1>4, <1>5, <1>6, <1>7 DEF IInv

-----------------------------------------------------------------------------
\* The user, the informer, the pods and the process act between the worker's
\* steps.
LEMMA EnvironmentPreserves ==
    ASSUME IInv, EditSpec \/ Deliver \/ Drift \/ Restart
    PROVE  IInv'
<1> USE PlanExecutionAssumption
<1>1. accepted' = accepted /\ reported' = reported
  BY DEF EditSpec, Deliver, Drift, Restart, historyVars
<1>2. ASSUME Lagging' \subseteq Lagging PROVE LaggingInv'
  BY <1>1, <1>2 DEF IInv, LaggingInv, Recorded, CompletedReported
<1>3. ASSUME EditSpec PROVE IInv'
  <2> DEFINE edited == [server EXCEPT !.gen = @ + 1]
  <2>1. /\ Publish(edited) /\ current' = FALSE
        /\ UNCHANGED <<queued, pc, work, requeue, world, historyVars>>
    BY <1>3 DEF EditSpec
  <2>2. edited \in Versions /\ edited.plan = server.plan
    <3>1. server \in Versions /\ server.gen < MaxGeneration
      BY <1>3 DEF EditSpec, IInv, TypeOK
    <3>2. server.gen + 1 \in Generations
      BY <3>1 DEF Versions, Generations
    <3>3. QED
      BY <3>1, <3>2 DEF Versions
  <2>3. /\ undelivered' \in Seq(Versions) /\ undelivered' # <<>> /\ InformerInv'
        /\ Lagging' \subseteq Lagging \cup {edited}
    BY <2>1, <2>2, PublishLagging DEF IInv
  <2>4. LaggingInv'
    BY <1>1, <2>2, <2>3 DEF IInv, LaggingInv, Lagging, Recorded, CompletedReported
  <2>5. TypeOK'
    <3>1. current' \in BOOLEAN
      BY <2>1, Zenon
    <3>2. QED
      BY <2>1, <2>2, <2>3, <3>1 DEF IInv, TypeOK, Publish, historyVars
  <2>6. NewPlanInv' /\ PhaseInv'
    BY <1>1, <2>1, <2>2
       DEF IInv, NewPlanInv, NewPlanStored, PhaseInv, CompletedReported, Settled,
           Running, Completed, Failed, Superseded
  <2>7. FailedKeptInv' /\ NoLostWakeup'
    BY <2>1, <2>3 DEF FailedKeptInv, NoLostWakeup
  <2>8. QED
    BY <2>3, <2>4, <2>5, <2>6, <2>7 DEF IInv
<1>4. ASSUME Deliver PROVE IInv'
  <2>1. /\ undelivered' \in Seq(Versions) /\ cache' \in Versions /\ InformerInv'
        /\ Lagging' \subseteq Lagging
    BY <1>4, DeliverLagging DEF IInv
  <2>2. queued' = TRUE /\ UNCHANGED <<server, workerVars, world, historyVars>>
    BY <1>4 DEF Deliver
  <2>3. TypeOK'
    <3>1. queued' \in BOOLEAN
      BY <2>2, Zenon
    <3>2. QED
      BY <2>1, <2>2, <3>1 DEF IInv, TypeOK, workerVars, historyVars
  <2>4. NewPlanInv' /\ PhaseInv' /\ FailedKeptInv' /\ NoLostWakeup'
    BY <1>1, <2>2
       DEF IInv, NewPlanInv, NewPlanStored, PhaseInv, FailedKeptInv, NoLostWakeup,
           FailedForSpec, CompletedReported, Settled, Running, Completed, Failed,
           Superseded, workerVars
  <2>5. QED
    BY <1>2, <2>1, <2>3, <2>4 DEF IInv
<1>5. ASSUME Drift PROVE IInv'
  <2>1. /\ Fault /\ world' \in SUBSET Generations /\ queued' = TRUE
        /\ UNCHANGED <<apiVars, workerVars, accepted, ran, reported, ensured>>
    BY <1>5 DEF Drift
  <2>2. InformerInv' /\ LaggingInv'
    BY <2>1, ApiUnchanged
  <2>3. TypeOK'
    <3>1. queued' \in BOOLEAN
      BY <2>1, Zenon
    <3>2. faults' \in 0..MaxFaults
      BY <2>1 DEF Fault, IInv, TypeOK
    <3>3. QED
      BY <2>1, <3>1, <3>2 DEF IInv, TypeOK, apiVars, workerVars
  <2>4. NewPlanInv' /\ PhaseInv' /\ FailedKeptInv' /\ NoLostWakeup'
    BY <2>1
       DEF IInv, NewPlanInv, NewPlanStored, PhaseInv, FailedKeptInv, NoLostWakeup,
           FailedForSpec, CompletedReported, Settled, Running, Completed, Failed,
           Superseded, workerVars, apiVars
  <2>5. QED
    BY <2>2, <2>3, <2>4 DEF IInv
<1>6. ASSUME Restart PROVE IInv'
  <2>1. /\ Fault /\ cache' = server /\ server' = server /\ undelivered' = <<>>
        /\ queued' = TRUE /\ pc' = "idle" /\ work' = NewObject /\ current' = FALSE
        /\ requeue' = FALSE
        /\ UNCHANGED <<world, accepted, ran, reported, ensured>>
    BY <1>6 DEF Restart, Idle
  <2>2. <<>> \in Seq(Versions) /\ Len(<<>>) = 0
    BY EmptySeq
  <2>3. InformerInv' /\ Lagging' \subseteq Lagging
    BY <2>1, <2>2 DEF InformerInv, Lagging
  <2>4. NewObject \in Versions /\ NewObject.plan = NoPlan
    BY DEF NewObject, Versions, Generations
  <2>5. TypeOK'
    <3>1. queued' \in BOOLEAN /\ current' \in BOOLEAN /\ requeue' \in BOOLEAN
      BY <2>1, Zenon
    <3>2. faults' \in 0..MaxFaults
      BY <2>1 DEF Fault, IInv, TypeOK
    <3>3. pc' \in {"idle", "execute", "observe", "planner", "write"}
      BY <2>1
    <3>4. QED
      BY <2>1, <2>2, <2>4, <3>1, <3>2, <3>3 DEF IInv, TypeOK
  <2>6. NewPlanInv' /\ PhaseInv' /\ FailedKeptInv' /\ NoLostWakeup'
    BY <2>1, <2>4 DEF NewPlanInv, PhaseInv, FailedKeptInv, NoLostWakeup
  <2>7. QED
    BY <1>2, <2>3, <2>5, <2>6 DEF IInv
<1>7. QED
  BY <1>3, <1>4, <1>5, <1>6

\* The inductive invariant is inductive.
LEMMA NextIInv == IInv /\ [Next]_vars => IInv'
<1> SUFFICES ASSUME IInv, [Next]_vars PROVE IInv'
  OBVIOUS
<1>1. CASE Reconcile
  <2>1. CASE StartPlanning \/ ClearOutdatedPlan \/ StartStep
               \/ ClearFinishedPlan \/ RetainFailedPlan
    BY <2>1, TakePreserves
  <2>2. CASE ExecuteStep
    BY <2>2, ExecuteStepPreserves
  <2>3. CASE ObservationFails \/ TopologyMatches \/ WaitForStableCluster
               \/ CallPlanner \/ PlannerFails \/ AcceptPlan
    BY <2>3, PlanningPreserves
  <2>4. CASE Write \/ WriteConflict
    BY <2>4, WritePreserves
  <2>5. QED
    BY <1>1, <2>1, <2>2, <2>3, <2>4 DEF Reconcile
<1>2. CASE Environment
  BY <1>2, EnvironmentPreserves, WritePreserves DEF Environment
<1>3. CASE UNCHANGED vars
  <2>1. InformerInv' /\ LaggingInv'
    BY <1>3, ApiUnchanged DEF vars, historyVars
  <2>2. TypeOK'
    BY <1>3 DEF IInv, TypeOK, vars, apiVars, workerVars, historyVars
  <2>3. NewPlanInv' /\ PhaseInv' /\ FailedKeptInv' /\ NoLostWakeup'
    BY <1>3
       DEF IInv, NewPlanInv, NewPlanStored, PhaseInv, FailedKeptInv, NoLostWakeup,
           FailedForSpec, CompletedReported, Settled, Running, Completed, Failed,
           Superseded, vars, workerVars, apiVars, historyVars
  <2>4. QED
    BY <2>1, <2>2, <2>3 DEF IInv
<1>4. QED
  BY <1>1, <1>2, <1>3 DEF Next

-----------------------------------------------------------------------------
\* The inductive invariant holds in every reachable state.
THEOREM InvariantHolds == Spec => []IInv
  BY InitIInv, NextIInv, PTL DEF Spec

\* The reconciler's state stays in its type: counters within their bounds,
\* plans and versions well formed.
THEOREM TypeCorrect == Spec => []TypeOK
<1>1. IInv => TypeOK
  BY DEF IInv
<1>2. QED
  BY <1>1, InvariantHolds, PTL

\* A wakeup is never lost: whenever the worker is idle with an empty queue and
\* an informer that has caught up, the object is settled.
THEOREM WakeupsAreKept == Spec => []NoLostWakeup
<1>1. IInv => NoLostWakeup
  BY DEF IInv
<1>2. QED
  BY <1>1, InvariantHolds, PTL

-----------------------------------------------------------------------------
\* Only ExecuteStep runs a step.
LEMMA OnlyExecuteStepRuns ==
    ASSUME [Next]_vars, ran' # ran
    PROVE  ExecuteStep
  BY DEF Next, Reconcile, Environment, vars, historyVars,
     StartPlanning, ClearOutdatedPlan, StartStep, ClearFinishedPlan, RetainFailedPlan,
     Take, ObservationFails, TopologyMatches, WaitForStableCluster, CallPlanner,
     PlannerFails, AcceptPlan, Write, WriteConflict, WriteError, FinishWrite,
     EditSpec, Deliver, Drift, Restart

\* Only a status write stores a new version of the object, and the user's edit.
LEMMA OnlyWritesChangeTheServer ==
    ASSUME [Next]_vars, server' # server \/ accepted' # accepted
    PROVE  \/ pc = "write" /\ current /\ Store /\ reported' = reported
           \/ EditSpec
  BY DEF Next, Reconcile, Environment, vars, historyVars, apiVars,
     StartPlanning, ClearOutdatedPlan, StartStep, ClearFinishedPlan, RetainFailedPlan,
     Take, ExecuteStep, ObservationFails, TopologyMatches, WaitForStableCluster,
     CallPlanner, PlannerFails, AcceptPlan, Write, WriteConflict, WriteError,
     FinishWrite, EditSpec, Deliver, Drift, Restart

\* executeNextStep runs a step only after the driver has reported every earlier
\* step of the plan Completed, however stale the copy it works on.
THEOREM StepsAreOrdered == Spec => StepsRunInOrder
<1> DEFINE Ordered ==
      ran' # ran => \A j \in 1..(ran'[2] - 1) : <<ran'[1], j>> \in reported
<1>1. IInv /\ [Next]_vars => Ordered
  <2> SUFFICES ASSUME IInv, [Next]_vars, ran' # ran,
                      NEW j \in 1..(ran'[2] - 1)
               PROVE  <<ran'[1], j>> \in reported
    OBVIOUS
  <2>1. ExecuteStep
    BY OnlyExecuteStepRuns
  <2>2. PICK i \in Steps : NextPending(work.plan, i) /\ ran' = <<work.plan.id, i>>
    BY <2>1 DEF ExecuteStep
  <2>3. j \in 1..(i - 1) /\ j \in Steps
    BY <2>2, PlanExecutionAssumption DEF Steps
  <2>4. work.plan.steps[j] = "Completed"
    BY <2>2, <2>3 DEF NextPending
  <2>5. CompletedReported(work.plan, reported)
    BY <2>1 DEF IInv, PhaseInv, NewPlanInv, ExecuteStep
  <2>6. QED
    BY <2>2, <2>3, <2>4, <2>5 DEF CompletedReported
<1>2. IInv /\ [Next]_vars => [Ordered]_vars
  BY <1>1
<1>3. QED
  BY <1>2, InvariantHolds, PTL DEF Spec, StepsRunInOrder

\* A plan is stored only for the spec of the object it is stored in, which had
\* no plan: reconcilePlan worked minutes on its copy, but Status().Update
\* refuses a copy that is no longer current.
THEOREM PlansAreCurrent == Spec => StoredPlansAreCurrent
<1> DEFINE StoredCurrent ==
      accepted' # accepted => server.plan = NoPlan /\ server'.plan.target = server'.gen
<1>1. IInv /\ [Next]_vars => StoredCurrent
  <2> SUFFICES ASSUME IInv, [Next]_vars, accepted' # accepted
               PROVE  server.plan = NoPlan /\ server'.plan.target = server'.gen
    OBVIOUS
  <2>1. pc = "write" /\ current /\ Store /\ reported' = reported
    BY OnlyWritesChangeTheServer DEF EditSpec, historyVars
  <2>2. NewPlanStored
    BY <2>1 DEF Store
  <2>3. work.plan.target = work.gen /\ server.plan = NoPlan
    BY <2>1, <2>2 DEF IInv, NewPlanInv, NewPlanStored
  <2>4. server' = work
    BY <2>1, StoreFacts
  <2>5. QED
    BY <2>3, <2>4
<1>2. IInv /\ [Next]_vars => [StoredCurrent]_vars
  BY <1>1
<1>3. QED
  BY <1>2, InvariantHolds, PTL DEF Spec, StoredPlansAreCurrent

\* A failed plan stays in the status until the spec is edited: RetainFailedPlan
\* is the only branch a current copy of it can reach.
THEOREM FailuresAreKept == Spec => FailedPlansStay
<1> DEFINE Kept ==
      server.plan # NoPlan /\ Failed(server.plan)
          /\ server.plan.target = server.gen /\ server'.gen = server.gen
        => server'.plan # NoPlan /\ Failed(server'.plan)
<1>1. IInv /\ [Next]_vars => Kept
  <2> SUFFICES ASSUME IInv, [Next]_vars, server.plan # NoPlan, Failed(server.plan),
                      server.plan.target = server.gen, server'.gen = server.gen
               PROVE  server'.plan # NoPlan /\ Failed(server'.plan)
    OBVIOUS
  <2>1. CASE server' = server
    BY <2>1
  <2>2. CASE server' # server
    <3>1. CASE EditSpec
      <4>1. server' = [server EXCEPT !.gen = @ + 1] /\ server \in Versions
        BY <3>1 DEF EditSpec, Publish, IInv, TypeOK
      <4>2. server'.plan = server.plan
        BY <4>1 DEF Versions
      <4>3. QED
        BY <4>2
    <3>2. CASE pc = "write" /\ current /\ Store /\ reported' = reported
      <4>1. work.plan # NoPlan /\ Failed(work.plan)
        BY <3>2 DEF IInv, FailedKeptInv, FailedForSpec
      <4>2. server' = work
        BY <3>2, StoreFacts
      <4>3. QED
        BY <4>1, <4>2
    <3>3. QED
      BY <2>2, <3>1, <3>2, OnlyWritesChangeTheServer
  <2>3. QED
    BY <2>1, <2>2
<1>2. IInv /\ [Next]_vars => [Kept]_vars
  BY <1>1
<1>3. QED
  BY <1>2, InvariantHolds, PTL DEF Spec, FailedPlansStay

-----------------------------------------------------------------------------
(***************************************************************************)
(* nextPodOrdinal, as long as the successor of every ordinal is an int32.  *)
(***************************************************************************)
OrdinalsFit == \A p \in Ordinals : p + 1 < Int32Span

PodsBelow(plan, next) == plan # NoPlan => \A p \in plan.pods : p < next

OrdinalsInv ==
    /\ \A v \in Lagging : PodsBelow(v.plan, v.next) /\ v.next <= server.next
    /\ PodsBelow(work.plan, work.next)
    /\ current => work.next >= server.next
    /\ pc = "execute" => PodsBelow(work.plan, server.next)
    /\ EnsuredBelowNext

BelowOn == {r \in Nat \X Nat : r[1] < r[2]}

\* A nonempty set of naturals has a least element.
LEMMA LeastExists ==
    ASSUME NEW T \in SUBSET Nat, T # {}
    PROVE  \E x \in T : \A y \in T : x <= y
<1>1. IsWellFoundedOn(BelowOn, Nat)
  <2>1. OpToRel(<, Nat) = BelowOn
    BY Zenon DEF OpToRel, BelowOn
  <2>2. QED
    BY <2>1, NatLessThanWellFounded
<1>2. PICK x \in T : \A y \in T : ~(<<y, x>> \in BelowOn)
  BY <1>1, WFMin
<1>3. \A y \in T : y \in Nat /\ x \in Nat
  OBVIOUS
<1>4. \A y \in Nat : <<y, x>> \in BelowOn <=> y < x
  BY <1>3 DEF BelowOn
<1>5. ASSUME NEW y \in T PROVE x <= y
  <2>1. x \in Nat /\ y \in Nat
    BY <1>3
  <2>2. ~(y < x)
    BY <1>2, <1>4, <2>1
  <2>3. QED
    BY <2>1, <2>2
<1>6. QED
  BY <1>5

\* A nonempty set of naturals below a bound has a highest element.
LEMMA HighestExists ==
    ASSUME NEW S \in SUBSET Nat, S # {}, NEW bound \in Nat, \A p \in S : p <= bound
    PROVE  \E p \in Highest(S) : TRUE
<1> DEFINE T == {bound - p : p \in S}
<1>1. T \in SUBSET Nat /\ T # {}
  <2>1. \A p \in S : bound - p \in Nat
    OBVIOUS
  <2>2. QED
    BY <2>1
<1>2. PICK x \in T : \A y \in T : x <= y
  BY <1>1, LeastExists
<1>3. PICK p \in S : x = bound - p
  OBVIOUS
<1>4. ASSUME NEW q \in S PROVE q <= p
  <2>1. bound - p <= bound - q
    BY <1>2, <1>3
  <2>2. p \in Int /\ q \in Int
    OBVIOUS
  <2>3. QED
    BY <2>1, <2>2
<1>5. QED
  BY <1>4 DEF Highest

\* bumpNextPodOrdinal lifts nextPodOrdinal above every ordinal it is given.
LEMMA BumpCovers ==
    ASSUME OrdinalsFit, NEW next \in Nat, NEW pods \in SUBSET Ordinals
    PROVE  \A p \in pods : p < Bump(next, pods)
<1> USE PlanExecutionAssumption
<1> SUFFICES ASSUME NEW p \in pods PROVE p < Bump(next, pods)
  OBVIOUS
<1>1. pods \in SUBSET Nat /\ \A q \in pods : q <= Int32Span
  BY DEF OrdinalsFit
<1>2. PICK h \in Highest(pods) : TRUE
  BY <1>1, HighestExists
<1>3. h \in pods /\ h \in Nat /\ p \in Nat /\ p <= h
  BY <1>1, <1>2 DEF Highest
<1>4. Highest(pods) = {h}
  <2>1. ASSUME NEW q \in Highest(pods) PROVE q = h
    <3>1. q \in Nat /\ q <= h /\ h <= q
      BY <1>1, <1>2, <1>3 DEF Highest
    <3>2. QED
      BY <1>3, <3>1
  <2>2. QED
    BY <1>2, <2>1
<1>5. Int32(h + 1) = h + 1
  BY <1>3, Int32Type DEF OrdinalsFit
<1>6. Bump(next, pods) = Raise(next, {h + 1})
  <2>1. {Int32(q + 1) : q \in Highest(pods)} = {h + 1}
    BY <1>4, <1>5
  <2>2. QED
    BY <2>1 DEF Bump
<1>7. Raise(next, {h + 1}) >= h + 1 /\ Raise(next, {h + 1}) \in Nat
  <2>1. CASE h + 1 > next
    <3>1. Raise(next, {h + 1}) = h + 1
      BY <1>3, <2>1 DEF Raise
    <3>2. QED
      BY <1>3, <3>1
  <2>2. CASE ~(h + 1 > next)
    <3>1. Raise(next, {h + 1}) = next
      BY <1>3, <2>2 DEF Raise
    <3>2. QED
      BY <1>3, <2>2, <3>1
  <2>3. QED
    BY <2>1, <2>2
<1>8. QED
  BY <1>3, <1>6, <1>7

\* So does advanceNextPodOrdinalFromPlan for the ordinals of an accepted plan.
LEMMA AdvanceCovers ==
    ASSUME OrdinalsFit, NEW next \in Nat, NEW pods \in SUBSET Ordinals
    PROVE  \A p \in pods : p < Advance(next, pods)
<1> USE PlanExecutionAssumption
<1> SUFFICES ASSUME NEW p \in pods PROVE p < Advance(next, pods)
  OBVIOUS
<1> DEFINE S == {Int32(q + 1) : q \in pods}
<1>1. \A q \in pods : q \in Nat /\ q + 1 \in Nat /\ q + 1 <= Int32Span /\ Int32(q + 1) = q + 1
  BY Int32Type DEF OrdinalsFit
<1>2. S \in SUBSET Nat /\ S # {} /\ \A n \in S : n <= Int32Span
  BY <1>1
<1>3. PICK h \in Highest(S) : TRUE
  BY <1>2, HighestExists
<1>4. h \in Nat /\ p + 1 <= h
  BY <1>1, <1>2, <1>3 DEF Highest
<1>5. Highest(S) = {h}
  <2>1. ASSUME NEW q \in Highest(S) PROVE q = h
    <3>1. q \in Nat /\ q <= h /\ h <= q
      BY <1>2, <1>3, <2>1 DEF Highest
    <3>2. QED
      BY <1>4, <3>1
  <2>2. QED
    BY <1>3, <2>1
<1>6. Advance(next, pods) = Raise(next, {h})
  BY <1>5 DEF Advance
<1>7. Raise(next, {h}) >= h /\ Raise(next, {h}) \in Nat
  <2>1. CASE h > next
    <3>1. Raise(next, {h}) = h
      BY <1>4, <2>1 DEF Raise
    <3>2. QED
      BY <1>4, <3>1
  <2>2. CASE ~(h > next)
    <3>1. Raise(next, {h}) = next
      BY <1>4, <2>2 DEF Raise
    <3>2. QED
      BY <1>4, <2>2, <3>1
  <2>3. QED
    BY <2>1, <2>2
<1>8. QED
  BY <1>1, <1>4, <1>6, <1>7

\* A bump reaches every ordinal of the copy's own plan, and never goes back.
LEMMA OrdinalsStep ==
    ASSUME OrdinalsFit, IInv, IInv', OrdinalsInv, [Next]_vars
    PROVE  OrdinalsInv'
<1> USE PlanExecutionAssumption
<1>1. /\ work \in Versions /\ server \in Versions /\ cache \in Versions
      /\ work.next \in Nat /\ server.next \in Nat /\ cache.next \in Nat
      /\ work.plan # NoPlan => work.plan.pods \in SUBSET Ordinals
      /\ cache.plan # NoPlan => cache.plan.pods \in SUBSET Ordinals
      /\ ensured \in SUBSET Ordinals
      /\ \A v \in Lagging : v \in Versions /\ v.next \in Nat
  <2>1. /\ work \in Versions /\ server \in Versions /\ cache \in Versions
        /\ undelivered \in Seq(Versions) /\ ensured \in SUBSET Ordinals
    BY DEF IInv, TypeOK
  <2>2. \A v \in Versions :
           v.next \in Nat /\ (v.plan # NoPlan => v.plan.pods \in SUBSET Ordinals)
    BY DEF Versions, Plans
  <2>3. \A i \in 1..Len(undelivered) : undelivered[i] \in Versions
    BY <2>1, ElementOfSeq
  <2>4. \A v \in Lagging : v \in Versions
    BY <2>1, <2>3 DEF Lagging
  <2>5. QED
    BY <2>1, <2>2, <2>4
<1>2. NewObject.plan = NoPlan
  BY DEF NewObject
<1>3. CASE StartPlanning \/ ClearOutdatedPlan \/ StartStep
             \/ ClearFinishedPlan \/ RetainFailedPlan
  <2>1. Take
    BY <1>3 DEF StartPlanning, ClearOutdatedPlan, StartStep, ClearFinishedPlan, RetainFailedPlan
  <2>2. /\ UNCHANGED <<server, Lagging, ensured>>
        /\ current' => cache = server
    BY <2>1 DEF Take, apiVars, historyVars, Lagging, IInv, InformerInv
  <2>3. /\ Loaded \in Versions /\ Loaded.plan = cache.plan /\ Loaded.next >= cache.next
        /\ Loaded.next \in Nat
    BY LoadedType DEF IInv, Versions
  <2>4. PodsBelow(cache.plan, Loaded.next)
    <3>1. CASE cache.plan = NoPlan
      BY <3>1 DEF PodsBelow
    <3>2. CASE cache.plan # NoPlan
      <4>1. Loaded.next = Bump(cache.next, cache.plan.pods)
        BY <1>1, <3>2 DEF Loaded, Versions
      <4>2. QED
        BY <1>1, <3>2, <4>1, BumpCovers DEF PodsBelow
    <3>3. QED
      BY <3>1, <3>2
  <2>5. PodsBelow(cache.plan, server.next)
    <3>1. PodsBelow(cache.plan, cache.next) /\ cache.next <= server.next
      BY DEF OrdinalsInv, Lagging
    <3>2. cache.plan # NoPlan => \A p \in cache.plan.pods : p \in Nat
      BY <1>1
    <3>3. QED
      BY <1>1, <3>1, <3>2 DEF PodsBelow
  <2>6. /\ work'.next = Loaded.next
        /\ \/ work'.plan = NoPlan
           \/ /\ cache.plan # NoPlan /\ work'.plan.pods = cache.plan.pods
              /\ pc' = "execute" => work' = Loaded
    <3>1. CASE work' = Loaded
      BY <2>3, <3>1
    <3>2. CASE /\ pc' = "write"
               /\ work' \in {[Loaded EXCEPT !.plan = NoPlan, !.ready = 0],
                             [Loaded EXCEPT !.plan = NoPlan]}
      BY <2>3, <3>2 DEF Versions
    <3>3. CASE /\ pc' = "write" /\ HasPlan
               /\ work' = [Loaded EXCEPT !.plan.status = "Failed", !.ready = 0]
      <4>1. Loaded.plan \in Plans
        BY <1>1, <2>3, <3>3 DEF HasPlan, Versions
      <4>2. work'.next = Loaded.next /\ work'.plan.pods = Loaded.plan.pods
        BY <2>3, <3>3, <4>1 DEF Versions, Plans
      <4>3. QED
        BY <2>3, <3>3, <4>2 DEF HasPlan
    <3>4. QED
      BY <1>3, <3>1, <3>2, <3>3
         DEF StartPlanning, ClearOutdatedPlan, StartStep, ClearFinishedPlan,
             RetainFailedPlan, Finish, TargetsCurrentSpec
  <2>7. PodsBelow(work'.plan, work'.next) /\ PodsBelow(work'.plan, server.next)
    BY <2>4, <2>5, <2>6 DEF PodsBelow
  <2>8. current' => work'.next >= server'.next
    BY <1>1, <2>2, <2>3, <2>6
  <2>9. QED
    BY <2>2, <2>7, <2>8 DEF OrdinalsInv, EnsuredBelowNext, PodsBelow
<1>4. CASE ExecuteStep
  <2>1. PICK i \in Steps :
          /\ ensured' = ensured \cup work.plan.pods
          /\ StepCompleted(i) \/ StepRunning(i) \/ StepFailed(i) \/ StepSupersedes(i)
    BY <1>4 DEF ExecuteStep
  <2>2. /\ pc = "execute" /\ pc' = "write" /\ current' = current
        /\ UNCHANGED <<server, Lagging>>
        /\ work.plan \in Plans
    <3>1. pc = "execute" /\ work.plan # NoPlan /\ pc' = "write"
      BY <1>4, <2>1 DEF ExecuteStep, IInv, PhaseInv, StepCompleted, StepRunning,
         StepFailed, StepSupersedes, Finish
    <3>2. QED
      BY <1>1, <1>4, <3>1 DEF ExecuteStep, apiVars, Lagging, Versions
  <2>3. work'.next = work.next /\ work'.plan.pods = work.plan.pods
    <3>1. \A state \in StepStates, status \in PlanStates :
            /\ StepResult(i, state).pods = work.plan.pods
            /\ [StepResult(i, state) EXCEPT !.status = status].pods = work.plan.pods
      BY <2>2 DEF StepResult, Plans
    <3>2. PICK state \in StepStates, status \in PlanStates :
            /\ work'.plan \in {StepResult(i, state), [StepResult(i, state) EXCEPT !.status = status]}
            /\ work'.next = work.next
      <4>1. CASE StepCompleted(i)
        BY <1>1, <4>1 DEF StepCompleted, Finish, Versions, StepStates, PlanStates
      <4>2. CASE StepRunning(i)
        BY <1>1, <4>2 DEF StepRunning, Finish, Versions, StepStates, PlanStates
      <4>3. CASE StepFailed(i)
        BY <1>1, <4>3 DEF StepFailed, Finish, Versions, StepStates, PlanStates
      <4>4. CASE StepSupersedes(i)
        BY <1>1, <4>4 DEF StepSupersedes, Finish, Versions, StepStates, PlanStates
      <4>5. QED
        BY <2>1, <4>1, <4>2, <4>3, <4>4
    <3>3. QED
      BY <3>1, <3>2
  <2>4. EnsuredBelowNext'
    BY <1>1, <2>1, <2>2 DEF OrdinalsInv, EnsuredBelowNext, PodsBelow, Plans
  <2>5. PodsBelow(work'.plan, work'.next)
    BY <1>1, <2>2, <2>3 DEF OrdinalsInv, PodsBelow
  <2>6. QED
    BY <2>2, <2>3, <2>4, <2>5 DEF OrdinalsInv, PodsBelow
<1>5. CASE ObservationFails \/ TopologyMatches \/ WaitForStableCluster
             \/ CallPlanner \/ PlannerFails \/ AcceptPlan
  <2>1. /\ UNCHANGED <<server, Lagging, ensured, current>>
        /\ pc' # "execute" /\ work.plan = NoPlan
    BY <1>5 DEF ObservationFails, TopologyMatches, WaitForStableCluster, CallPlanner,
       PlannerFails, AcceptPlan, Finish, apiVars, historyVars, Lagging, IInv, PhaseInv
  <2>2. work'.next >= work.next /\ work'.next \in Nat /\ PodsBelow(work'.plan, work'.next)
    <3>1. CASE ObservationFails \/ PlannerFails
      BY <1>1, <2>1, <3>1 DEF ObservationFails, PlannerFails, Finish, PodsBelow
    <3>2. CASE TopologyMatches
      <4>1. PICK pods \in SUBSET ensured :
              Finish([work EXCEPT !.next = Bump(@, pods), !.ready = work.gen], FALSE)
        BY <3>2 DEF TopologyMatches
      <4>2. Bump(work.next, pods) \in Nat /\ Bump(work.next, pods) >= work.next
        BY ObservedType DEF IInv
      <4>3. work'.next = Bump(work.next, pods) /\ work'.plan = NoPlan
        BY <1>1, <2>1, <4>1 DEF Finish, Versions
      <4>4. QED
        BY <4>2, <4>3 DEF PodsBelow
    <3>3. CASE WaitForStableCluster
      <4>1. PICK pods \in SUBSET ensured :
              Finish([work EXCEPT !.next = Bump(@, pods), !.ready = 0], TRUE)
        BY <3>3 DEF WaitForStableCluster
      <4>2. Bump(work.next, pods) \in Nat /\ Bump(work.next, pods) >= work.next
        BY ObservedType DEF IInv
      <4>3. work'.next = Bump(work.next, pods) /\ work'.plan = NoPlan
        BY <1>1, <2>1, <4>1 DEF Finish, Versions
      <4>4. QED
        BY <4>2, <4>3 DEF PodsBelow
    <3>4. CASE CallPlanner
      <4>1. PICK pods \in SUBSET ensured : work' = [work EXCEPT !.next = Bump(@, pods)]
        BY <3>4 DEF CallPlanner
      <4>2. Bump(work.next, pods) \in Nat /\ Bump(work.next, pods) >= work.next
        BY ObservedType DEF IInv
      <4>3. work'.next = Bump(work.next, pods) /\ work'.plan = NoPlan
        BY <1>1, <2>1, <4>1 DEF Versions
      <4>4. QED
        BY <4>2, <4>3 DEF PodsBelow
    <3>5. CASE AcceptPlan
      <4>1. PICK pods \in SUBSET Ordinals :
              Finish([work EXCEPT !.next = Advance(@, pods), !.plan = NewPlan(pods)], FALSE)
        BY <3>5 DEF AcceptPlan
      <4>2. /\ Advance(work.next, pods) \in Nat /\ Advance(work.next, pods) >= work.next
            /\ \A p \in pods : p < Advance(work.next, pods)
        BY <1>1, AdvanceGrows, AdvanceCovers
      <4>3. work'.next = Advance(work.next, pods) /\ work'.plan.pods = pods
        BY <1>1, <4>1 DEF Finish, Versions, NewPlan
      <4>4. QED
        BY <4>2, <4>3 DEF PodsBelow
    <3>6. QED
      BY <1>5, <3>1, <3>2, <3>3, <3>4, <3>5
  <2>3. current' => work'.next >= server'.next
    BY <1>1, <2>1, <2>2 DEF OrdinalsInv
  <2>4. QED
    BY <2>1, <2>2, <2>3 DEF OrdinalsInv, EnsuredBelowNext
<1>6. ASSUME Lagging' \subseteq Lagging \cup {server'},
             server'.next >= server.next, server'.next \in Nat,
             PodsBelow(server'.plan, server'.next), ensured' = ensured
      PROVE  /\ \A v \in Lagging' : PodsBelow(v.plan, v.next) /\ v.next <= server'.next
             /\ EnsuredBelowNext'
  <2>1. ASSUME NEW v \in Lagging' PROVE PodsBelow(v.plan, v.next) /\ v.next <= server'.next
    <3>1. CASE v = server'
      BY <1>6, <3>1
    <3>2. CASE v \in Lagging
      BY <1>1, <1>6, <3>2 DEF OrdinalsInv
    <3>3. QED
      BY <1>6, <3>1, <3>2
  <2>2. EnsuredBelowNext'
    BY <1>1, <1>6 DEF OrdinalsInv, EnsuredBelowNext
  <2>3. QED
    BY <2>1, <2>2
<1>7. CASE Write \/ WriteConflict \/ WriteError
  <2>1. /\ pc = "write" /\ pc' = "idle" /\ work' = NewObject /\ current' = FALSE
        /\ ensured' = ensured /\ reported' = reported
        /\ UNCHANGED apiVars \/ (current /\ Store)
    BY <1>7, Zenon DEF Write, WriteConflict, WriteError, FinishWrite, Idle
  <2>2. /\ \A v \in Lagging' : PodsBelow(v.plan, v.next) /\ v.next <= server'.next
        /\ EnsuredBelowNext'
    <3>1. CASE UNCHANGED apiVars
      BY <2>1, <3>1 DEF apiVars, Lagging, OrdinalsInv, EnsuredBelowNext
    <3>2. CASE current /\ Store
      <4>1. server' = work /\ Lagging' \subseteq Lagging \cup {server'}
        <5>1. CASE work = server
          BY <3>2, <5>1 DEF Store, apiVars, Lagging
        <5>2. CASE work # server
          <6>1. Publish(work)
            BY <3>2, <5>2 DEF Store
          <6>2. QED
            BY <1>1, <6>1, PublishLagging DEF IInv, Publish
        <5>3. QED
          BY <5>1, <5>2
      <4>2. work.next >= server.next /\ PodsBelow(work.plan, work.next)
        BY <3>2 DEF OrdinalsInv
      <4>3. QED
        BY <1>1, <1>6, <2>1, <4>1, <4>2
    <3>3. QED
      BY <2>1, <3>1, <3>2
  <2>3. QED
    BY <1>2, <2>1, <2>2 DEF OrdinalsInv, PodsBelow
<1>8. CASE EditSpec
  <2> DEFINE edited == [server EXCEPT !.gen = @ + 1]
  <2>1. /\ Publish(edited) /\ current' = FALSE
        /\ UNCHANGED <<pc, work, ensured>>
    BY <1>8 DEF EditSpec, historyVars
  <2>2. /\ edited.plan = server.plan /\ edited.next = server.next
        /\ server' = edited /\ edited \in Versions
    BY <1>1, <2>1 DEF Publish, Versions, IInv, TypeOK
  <2>3. Lagging' \subseteq Lagging \cup {server'}
    BY <2>1, <2>2, PublishLagging DEF IInv
  <2>4. PodsBelow(server.plan, server.next)
    BY DEF OrdinalsInv, Lagging
  <2>5. QED
    BY <1>1, <1>6, <2>1, <2>2, <2>3, <2>4 DEF OrdinalsInv, PodsBelow
<1>9. CASE Deliver
  <2>1. /\ UNCHANGED <<server, pc, work, current, ensured>>
        /\ Lagging' \subseteq Lagging
    BY <1>9, DeliverLagging DEF Deliver, workerVars, historyVars, IInv
  <2>2. QED
    BY <2>1 DEF OrdinalsInv, EnsuredBelowNext, PodsBelow
<1>10. CASE Drift \/ UNCHANGED vars
  BY <1>10 DEF Drift, vars, apiVars, workerVars, historyVars, Lagging, OrdinalsInv,
     EnsuredBelowNext, PodsBelow
<1>11. CASE Restart
  <2>1. /\ cache' = server /\ server' = server /\ undelivered' = <<>>
        /\ pc' = "idle" /\ work' = NewObject /\ current' = FALSE /\ ensured' = ensured
    BY <1>11 DEF Restart, Idle
  <2>2. Lagging' \subseteq Lagging
    BY <2>1, EmptySeq DEF Lagging
  <2>3. QED
    BY <1>2, <2>1, <2>2 DEF OrdinalsInv, EnsuredBelowNext, PodsBelow
<1>12. QED
  BY <1>3, <1>4, <1>5, <1>7, <1>8, <1>9, <1>10, <1>11 DEF Next, Reconcile, Environment

\* As long as no ordinal reaches the last int32, the next ordinal is above
\* every ordinal an executed plan names: the planner is never handed the name
\* of a pod that existed.
THEOREM OrdinalsAreFresh == OrdinalsFit /\ Spec => []EnsuredBelowNext
<1>1. Init => OrdinalsInv
  <2> SUFFICES ASSUME Init PROVE OrdinalsInv
    OBVIOUS
  <2>1. Lagging = {NewObject}
    BY EmptySeq DEF Init, Lagging
  <2>2. NewObject.plan = NoPlan /\ NewObject.next = 0
    BY DEF NewObject
  <2>3. QED
    BY <2>1, <2>2 DEF Init, OrdinalsInv, EnsuredBelowNext, PodsBelow
<1>2. OrdinalsFit /\ IInv /\ IInv' /\ OrdinalsInv /\ [Next]_vars => OrdinalsInv'
  BY OrdinalsStep
<1>3. OrdinalsInv => EnsuredBelowNext
  BY DEF OrdinalsInv
<1>4. ASSUME OrdinalsFit PROVE Spec => []EnsuredBelowNext
  <2>1. IInv /\ IInv' /\ OrdinalsInv /\ [Next]_vars => OrdinalsInv'
    BY <1>2, <1>4
  <2>2. QED
    BY <1>1, <1>3, <2>1, InvariantHolds, PTL DEF Spec
<1>5. QED
  BY <1>4
=============================================================================
