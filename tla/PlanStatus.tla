------------------------------ MODULE PlanStatus ------------------------------
(***************************************************************************)
(* What the status of a RedisCluster promises to its readers: there is at  *)
(* most one active plan; it was made for the spec it is stored under; its  *)
(* steps are recorded one at a time, in order, and as completed only after *)
(* the driver has said so; a failed plan stays until the spec changes.     *)
(*                                                                         *)
(* There is no cache, no copy, no queue and no failure here: PlanExecution *)
(* implements this with all of them.                                       *)
(***************************************************************************)
EXTENDS Naturals

CONSTANT NumSteps

VARIABLES
    spec,      \* the generation of the spec
    active,    \* status.activePlan: no plan or one
    accepted,  \* the number of plans that have been stored
    reported   \* the steps that the driver reported Completed, by plan

vars == <<spec, active, accepted, reported>>

Steps == 1 .. NumSteps

\* nextPendingStep returns i.
NextPending(plan, i) ==
    /\ \A j \in 1 .. (i - 1) : plan.steps[j] = "Completed"
    /\ plan.steps[i] \notin {"Completed", "Failed"}

Running(plan) ==
    /\ plan.status = "Active"
    /\ \A i \in Steps : plan.steps[i] # "Failed"
    /\ \E i \in Steps : plan.steps[i] # "Completed"

Over(plan) == plan.status = "Superseded" \/ \A i \in Steps : plan.steps[i] = "Completed"

Init ==
    /\ spec = 1
    /\ active = {}
    /\ accepted = 0
    /\ reported = {}

EditSpec ==
    /\ spec' = spec + 1
    /\ UNCHANGED <<active, accepted, reported>>

AcceptPlan ==
    /\ active = {}
    /\ accepted' = accepted + 1
    /\ active' = {[id |-> accepted + 1, target |-> spec,
                   steps |-> [i \in Steps |-> "Pending"], status |-> "Active"]}
    /\ UNCHANGED <<spec, reported>>

\* Of any plan that was ever stored: the driver may still work on an old one.
StepCompletes(id, i) ==
    /\ \A j \in 1 .. (i - 1) : <<id, j>> \in reported
    /\ reported' = reported \cup {<<id, i>>}
    /\ UNCHANGED <<spec, active, accepted>>

RecordStep(i, state) ==
    /\ \E plan \in active :
         /\ plan.target = spec
         /\ Running(plan)
         /\ NextPending(plan, i)
         /\ state = "Completed" => <<plan.id, i>> \in reported
         /\ active' = {[plan EXCEPT !.steps[i] = state]}
    /\ UNCHANGED <<spec, accepted, reported>>

\* The last step asks for a new plan.
SupersedePlan ==
    /\ \E plan \in active :
         /\ plan.target = spec
         /\ Running(plan)
         /\ NextPending(plan, NumSteps)
         /\ active' = {[plan EXCEPT !.steps[NumSteps] = "Running", !.status = "Superseded"]}
    /\ UNCHANGED <<spec, accepted, reported>>

ClearPlan ==
    /\ \E plan \in active : plan.target # spec \/ Over(plan)
    /\ active' = {}
    /\ UNCHANGED <<spec, accepted, reported>>

Next ==
    \/ EditSpec
    \/ AcceptPlan
    \/ \E id \in 1 .. accepted, i \in Steps : StepCompletes(id, i)
    \/ \E i \in Steps, state \in {"Running", "Completed", "Failed"} : RecordStep(i, state)
    \/ SupersedePlan
    \/ ClearPlan

Spec == Init /\ [][Next]_vars
=============================================================================
