---------------------------- MODULE SlotMigration ----------------------------
(***************************************************************************)
(* The MigrateSlots step (src/internal/action/migrate_slots.go): it moves  *)
(* slots to the target master with one goroutine per slot.  Every master   *)
(* has its own view of who owns a slot, the commands of the handshake go   *)
(* to different masters, and the step may stop between any two of them: an *)
(* error of one slot cancels the others, and the process may stop.  The    *)
(* reconciler then runs the step again.                                    *)
(*                                                                         *)
(* Every master is managed, healthy and known to the others.  The tests of *)
(* readiness that come before the first command return Running and change  *)
(* nothing, which is a step that does not happen.                          *)
(***************************************************************************)
EXTENDS Integers, FiniteSets

CONSTANTS
    Slots,         \* the slots of the step
    Source,        \* the master named by sourcePod
    Target,        \* the master named by targetPod
    Others,        \* the other masters
    NoNode,        \* no master
    FullCoverage,  \* Redis' cluster-require-full-coverage
    PerReconcile,  \* migrateSlotsPerReconcile
    MaxKeys,       \* bound on the batches of keys in a slot
    MaxFaults      \* bound on crashes, failed commands and repeated steps

Masters == {Source, Target} \cup Others

ASSUME SlotMigrationAssumption ==
    /\ Source # Target
    /\ Others \cap {Source, Target} = {}
    /\ NoNode \notin Masters
    /\ FullCoverage \in BOOLEAN
    /\ PerReconcile \in Nat \ {0}
    /\ MaxKeys \in Nat
    /\ MaxFaults \in Nat

VARIABLES
    owner,      \* owner[n][s]: the master that n believes to own s
    importing,  \* the master that Target imports the slot from
    migrating,  \* the slots that a master is migrating to Target
    keys,       \* keys[n][s]: the batches of keys of s that n holds
    newest,     \* Target's configuration epoch is the highest
    pc,         \* what the step does next
    view,       \* owner in migrateSlots: read from Source, then amended
    toAdd,      \* the slots that the repair adds to Target
    task,       \* what the goroutine of a slot does next
    peers,      \* the masters a goroutine has still to notify
    cancelled,  \* a goroutine has failed and cancelled the others
    unverified, \* the masters whose view the verification has still to read
    result,     \* the last outcome of the step
    faults

redisVars == <<owner, importing, migrating, keys, newest>>
goVars == <<task, peers, cancelled>>
stepVars == <<pc, view, toAdd, goVars, unverified, result>>
vars == <<redisVars, stepVars, faults>>

Tasks == {"none", "importing", "migrating", "reading", "moving", "source",
          "target", "peers", "done", "moved", "waiting", "failed"}

Ended == {"none", "done", "moved", "waiting", "failed"}

TypeOK ==
    /\ owner \in [Masters -> [Slots -> Masters \cup {NoNode}]]
    /\ importing \in [Slots -> Masters \cup {NoNode}]
    /\ migrating \in [Masters -> SUBSET Slots]
    /\ keys \in [Masters -> [Slots -> 0..MaxKeys]]
    /\ newest \in BOOLEAN
    /\ pc \in {"idle", "repair", "add", "start", "migrate", "verify"}
    /\ view \in [Slots -> Masters \cup {NoNode}]
    /\ toAdd \in SUBSET Slots
    /\ task \in [Slots -> Tasks]
    /\ peers \in [Slots -> SUBSET Masters]
    /\ cancelled \in BOOLEAN
    /\ unverified \in SUBSET Masters
    /\ result \in {"None", "Running", "Completed", "Failed"}
    /\ faults \in 0..MaxFaults

-----------------------------------------------------------------------------
(***************************************************************************)
(* Redis: the commands, and the gossip between masters.                    *)
(***************************************************************************)
Claims(n, s) == owner[n][s] = n

SetSlotImporting(s, from) ==
    /\ ~Claims(Target, s)
    /\ importing' = [importing EXCEPT ![s] = from]
    /\ UNCHANGED <<owner, migrating, keys, newest>>

SetSlotMigrating(n, s) ==
    /\ Claims(n, s)
    /\ migrating' = [migrating EXCEPT ![n] = @ \cup {s}]
    /\ UNCHANGED <<owner, importing, keys, newest>>

\* A master does not give a slot away while it holds keys of it.  The new
\* owner of a slot it was importing takes the highest epoch.
SetSlotNode(n, s) ==
    /\ n # Target /\ Claims(n, s) => keys[n][s] = 0
    /\ owner' = [owner EXCEPT ![n][s] = Target]
    /\ migrating' = [migrating EXCEPT ![n] = @ \ {s}]
    /\ IF n = Target
       THEN /\ importing' = [importing EXCEPT ![s] = NoNode]
            /\ newest' = (newest \/ importing[s] # NoNode)
       ELSE UNCHANGED <<importing, newest>>
    /\ UNCHANGED keys

MigrateKeysCopied(n, s) ==
    /\ importing[s] # NoNode \/ Claims(Target, s)
    /\ keys' = [keys EXCEPT ![Target][s] = @ + 1]
    /\ UNCHANGED <<owner, importing, migrating, newest>>

MigrateKeys(n, s) ==
    /\ importing[s] # NoNode \/ Claims(Target, s)
    /\ keys' = [keys EXCEPT ![n][s] = @ - 1, ![Target][s] = @ + 1]
    /\ UNCHANGED <<owner, importing, migrating, newest>>

ClusterAddSlots(added) ==
    /\ \A s \in added : owner[Target][s] = NoNode
    /\ owner' = [owner EXCEPT ![Target] =
                   [s \in Slots |-> IF s \in added THEN Target ELSE @[s]]]
    /\ importing' = [s \in Slots |-> IF s \in added THEN NoNode ELSE importing[s]]
    /\ UNCHANGED <<migrating, keys, newest>>

\* cluster_state:ok in CLUSTER INFO of n.
ClusterStateOK(n) ==
    FullCoverage => \A s \in Slots : owner[n][s] # NoNode

\* m learns from n that n owns s, unless m imports s or knows a newer claim.
Gossip(n, m, s) ==
    /\ n # m
    /\ Claims(n, s)
    /\ owner[m][s] # n
    /\ owner[m][s] = NoNode \/ (n = Target /\ newest)
    /\ m = Target => importing[s] = NoNode
    /\ owner' = [owner EXCEPT ![m][s] = n]
    /\ migrating' = [migrating EXCEPT ![m] = @ \ {s}]
    /\ UNCHANGED <<importing, keys, newest, stepVars, faults>>

\* A client stores keys.  A slot that is migrating takes none: the client is
\* sent to the target.
ClientWrite(n, s) ==
    /\ Claims(n, s)
    /\ s \notin migrating[n]
    /\ \A m \in Masters : keys[m][s] = 0
    /\ MaxKeys > 0
    /\ keys' = [keys EXCEPT ![n][s] = 1]
    /\ UNCHANGED <<owner, importing, migrating, newest, stepVars, faults>>

-----------------------------------------------------------------------------
\* A slot has one owner or none, and the views that lag behind show no owner.
\* Where slots without owner do not stop the cluster, the source or the target
\* knows every owner: ADDSLOTS could else add a slot that has one.
Init ==
    /\ \E claimant \in [Slots -> Masters \cup {NoNode}] :
         /\ owner \in [Masters -> [Slots -> Masters \cup {NoNode}]]
         /\ \A n \in Masters, s \in Slots :
              \/ owner[n][s] = claimant[s]
              \/ owner[n][s] = NoNode /\ n # claimant[s]
         /\ \/ FullCoverage
            \/ \A s \in Slots : claimant[s] \in {owner[Source][s], owner[Target][s]}
         /\ keys \in [Masters -> [Slots -> 0..MaxKeys]]
         /\ \A n \in Masters, s \in Slots : keys[n][s] > 0 => n = claimant[s]
    /\ importing = [s \in Slots |-> NoNode]
    /\ migrating = [n \in Masters |-> {}]
    /\ newest = FALSE
    /\ pc = "idle"
    /\ view = [s \in Slots |-> NoNode]
    /\ toAdd = {}
    /\ task = [s \in Slots |-> "none"]
    /\ peers = [s \in Slots |-> {}]
    /\ cancelled = FALSE
    /\ unverified = {}
    /\ result = "None"
    /\ faults = 0

Fault == faults < MaxFaults /\ faults' = faults + 1

\* migrateSlots returns, and its locals are gone.
Return(outcome) ==
    /\ pc' = "idle"
    /\ result' = outcome
    /\ view' = [s \in Slots |-> NoNode]
    /\ toAdd' = {}
    /\ task' = [s \in Slots |-> "none"]
    /\ peers' = [s \in Slots |-> {}]
    /\ cancelled' = FALSE
    /\ unverified' = {}

-----------------------------------------------------------------------------
(***************************************************************************)
(* The views of source and target, and the repair of slots without owner.  *)
(***************************************************************************)
Missing == {s \in Slots : view[s] = NoNode}

\* The reconciler runs the step while it is Running.  A stale cache or a
\* restart before the status write runs a step that has already ended.
ReadSource ==
    /\ pc = "idle"
    /\ IF result \in {"None", "Running"} THEN UNCHANGED faults ELSE Fault
    /\ view' = owner[Source]
    /\ pc' = IF \E s \in Slots : owner[Source][s] = NoNode THEN "repair" ELSE "start"
    /\ UNCHANGED <<redisVars, toAdd, goVars, unverified, result>>

\* Slots that the target owns count as moved; those that nobody owns are added.
ReadTarget ==
    /\ pc = "repair"
    /\ \A s \in Missing : owner[Target][s] \in {NoNode, Target}
    /\ toAdd' = {s \in Missing : owner[Target][s] = NoNode}
    /\ view' = [s \in Slots |-> IF s \in Missing THEN Target ELSE view[s]]
    /\ pc' = IF toAdd' = {} THEN "start" ELSE "add"
    /\ UNCHANGED <<redisVars, goVars, unverified, result, faults>>

\* The target knows an owner that the source does not know.
RefuseRepair ==
    /\ pc = "repair"
    /\ \E s \in Missing :
         /\ owner[Target][s] \notin {NoNode, Target}
         /\ Return(IF owner[Target][s] = Source THEN "Running" ELSE "Failed")
    /\ UNCHANGED <<redisVars, faults>>

AddMissing ==
    /\ pc = "add"
    /\ ClusterStateOK(Target)
    /\ ClusterAddSlots(toAdd)
    /\ pc' = "start"
    /\ toAdd' = {}
    /\ UNCHANGED <<view, goVars, unverified, result, faults>>

AddMissingFails ==
    /\ pc = "add"
    /\ IF ClusterStateOK(Target)
       THEN /\ \E s \in toAdd : owner[Target][s] # NoNode
            /\ Return("Failed")
       ELSE Return("Running")
    /\ UNCHANGED <<redisVars, faults>>

-----------------------------------------------------------------------------
(***************************************************************************)
(* One goroutine per slot.  Slots of the same run may have different       *)
(* sources; no source of the run is notified as a peer of another slot.    *)
(***************************************************************************)
OpenOfSource == {s \in Slots : view[s] = Source}

Open == {s \in Slots : view[s] # Target}

\* sourceClients and extraNodeClients
Sources(todo) == {view[s] : s \in todo}
Peers(todo) == Masters \ ({Target} \cup Sources(todo))

\* chosen has limit members of the set, or all of them if they are fewer.
AtMost(chosen, limit, set) ==
    \/ Cardinality(chosen) = limit
    \/ chosen = set /\ Cardinality(chosen) < limit

\* The masters that verify: source, target, then others, three at most.
VerifiersSourceOnly == {{Source}}

Verifiers == {c \in SUBSET Masters : {Source, Target} \subseteq c /\ AtMost(c, 3, Masters)}

StartGoroutinesMigrating ==
    /\ pc = "start"
    /\ \A n \in Masters : ClusterStateOK(n)
    /\ Open # {}
    /\ \E todo \in SUBSET Open :
         /\ AtMost(todo, PerReconcile, Open)
         /\ task' = [s \in Slots |-> IF s \in todo THEN "migrating" ELSE "none"]
         /\ peers' = [s \in Slots |-> IF s \in todo THEN Peers(todo) ELSE {}]
    /\ pc' = "migrate"
    /\ UNCHANGED <<redisVars, view, toAdd, cancelled, unverified, result, faults>>

StartGoroutines ==
    /\ pc = "start"
    /\ \A n \in Masters : ClusterStateOK(n)
    /\ Open # {}
    /\ \E todo \in SUBSET Open :
         /\ AtMost(todo, PerReconcile, Open)
         /\ task' = [s \in Slots |-> IF s \in todo THEN "importing" ELSE "none"]
         /\ peers' = [s \in Slots |-> IF s \in todo THEN Peers(todo) ELSE {}]
    /\ pc' = "migrate"
    /\ UNCHANGED <<redisVars, view, toAdd, cancelled, unverified, result, faults>>

NothingToMigrate ==
    /\ pc = "start"
    /\ \A n \in Masters : ClusterStateOK(n)
    /\ Open = {}
    /\ pc' = "verify"
    /\ unverified' \in Verifiers
    /\ UNCHANGED <<redisVars, view, toAdd, goVars, result, faults>>

WaitForClusterState ==
    /\ pc = "start"
    /\ \E n \in Masters : ~ClusterStateOK(n)
    /\ Return("Running")
    /\ UNCHANGED <<redisVars, faults>>

\* The goroutine of s is at a command and nothing has cancelled it.
At(s, command) == pc = "migrate" /\ task[s] = command /\ ~cancelled

Goto(s, command) ==
    /\ task' = [task EXCEPT ![s] = command]
    /\ UNCHANGED <<pc, view, toAdd, peers, cancelled, unverified, result, faults>>

Importing(s) ==
    /\ At(s, "importing")
    /\ SetSlotImporting(s, view[s])
    /\ Goto(s, "migrating")

Migrating(s) ==
    /\ At(s, "migrating")
    /\ SetSlotMigrating(view[s], s)
    /\ Goto(s, "reading")

\* A batch of keys ends the goroutine; the next run looks for more.
GetKeysTargetFirst(s) ==
    /\ At(s, "reading")
    /\ Goto(s, IF keys[view[s]][s] > 0 THEN "moving" ELSE "target")
    /\ UNCHANGED redisVars

GetKeysForgotten(s) ==
    /\ At(s, "reading")
    /\ Goto(s, "source")
    /\ UNCHANGED redisVars

GetKeys(s) ==
    /\ At(s, "reading")
    /\ Goto(s, IF keys[view[s]][s] > 0 THEN "moving" ELSE "source")
    /\ UNCHANGED redisVars

MoveKeys(s) ==
    /\ At(s, "moving")
    /\ MigrateKeys(view[s], s)
    /\ Goto(s, "moved")

SourceGives(s) ==
    /\ At(s, "source")
    /\ SetSlotNode(view[s], s)
    /\ Goto(s, "target")

TargetTakes(s) ==
    /\ At(s, "target")
    /\ SetSlotNode(Target, s)
    /\ Goto(s, IF peers[s] = {} THEN "done" ELSE "peers")

NotifyPeer(s) ==
    /\ At(s, "peers")
    /\ \E n \in peers[s] :
         /\ SetSlotNode(n, s)
         /\ peers' = [peers EXCEPT ![s] = @ \ {n}]
         /\ task' = [task EXCEPT ![s] = IF peers[s] = {n} THEN "done" ELSE "peers"]
    /\ UNCHANGED <<pc, view, toAdd, cancelled, unverified, result, faults>>

\* The command that the goroutine of s has sent.
Command(s) ==
    \/ task[s] = "importing" /\ SetSlotImporting(s, view[s])
    \/ task[s] = "migrating" /\ SetSlotMigrating(view[s], s)
    \/ task[s] = "moving" /\ MigrateKeys(view[s], s)
    \/ task[s] = "source" /\ SetSlotNode(view[s], s)
    \/ task[s] = "target" /\ SetSlotNode(Target, s)
    \/ task[s] = "peers" /\ \E n \in peers[s] : SetSlotNode(n, s)

\* Redis refuses the command with an error that is not transient.
Refused(s) ==
    \/ task[s] = "importing" /\ Claims(Target, s)
    \/ task[s] = "migrating" /\ ~Claims(view[s], s)
    \/ task[s] = "moving" /\ importing[s] = NoNode /\ ~Claims(Target, s)
    \/ task[s] = "source" /\ Claims(view[s], s) /\ keys[view[s]][s] > 0

Fail(s) ==
    /\ task' = [task EXCEPT ![s] = "failed"]
    /\ cancelled' = TRUE
    /\ UNCHANGED <<pc, view, toAdd, peers, unverified, result>>

CommandRefused(s) ==
    /\ pc = "migrate"
    /\ ~cancelled
    /\ Refused(s)
    /\ Fail(s)
    /\ UNCHANGED <<redisVars, faults>>

\* The answer is an error of the connection or of the cancelled context; the
\* command may have taken effect.
CommandBroken(s) ==
    /\ pc = "migrate"
    /\ task[s] \notin Ended
    /\ IF cancelled THEN UNCHANGED faults ELSE Fault
    /\ Command(s) \/ UNCHANGED redisVars
    /\ Fail(s)

\* transientRedisPropagationError: the slot waits for the next run.
CommandWaits(s) ==
    /\ pc = "migrate"
    /\ task[s] \notin Ended \cup {"reading"}
    /\ ~cancelled
    /\ Fault
    /\ task' = [task EXCEPT ![s] = "waiting"]
    /\ UNCHANGED <<redisVars, pc, view, toAdd, peers, cancelled, unverified, result>>

SlotFails(s) == CommandRefused(s) \/ CommandBroken(s) \/ CommandWaits(s)

\* wg.Wait, and what the goroutines report.
GoroutinesEnd ==
    /\ pc = "migrate"
    /\ \A s \in Slots : task[s] \in Ended
    /\ \E s \in Slots : task[s] \in {"failed", "waiting", "moved"}
    /\ Return(IF \E s \in Slots : task[s] = "failed" THEN "Failed" ELSE "Running")
    /\ UNCHANGED <<redisVars, faults>>

StartVerification ==
    /\ pc = "migrate"
    /\ \A s \in Slots : task[s] \in {"none", "done"}
    /\ pc' = "verify"
    /\ unverified' \in Verifiers
    /\ UNCHANGED <<redisVars, view, toAdd, goVars, result, faults>>

-----------------------------------------------------------------------------
(***************************************************************************)
(* The verification reads one view after the other.                        *)
(***************************************************************************)
ViewIsTarget(n) == \A s \in Slots : owner[n][s] = Target

VerifyView ==
    /\ pc = "verify"
    /\ \E n \in unverified :
         /\ ViewIsTarget(n)
         /\ unverified' = unverified \ {n}
    /\ UNCHANGED <<redisVars, pc, view, toAdd, goVars, result, faults>>

ViewNotReady ==
    /\ pc = "verify"
    /\ \E n \in unverified : ~ViewIsTarget(n)
    /\ Return("Running")
    /\ UNCHANGED <<redisVars, faults>>

Complete ==
    /\ pc = "verify"
    /\ unverified = {}
    /\ Return("Completed")
    /\ UNCHANGED <<redisVars, faults>>

\* The process stops before the outcome is stored.
Crash ==
    /\ pc # "idle"
    /\ Fault
    /\ Return(result)
    /\ UNCHANGED redisVars

-----------------------------------------------------------------------------
Repair == ReadTarget \/ RefuseRepair \/ AddMissing \/ AddMissingFails
Start == StartGoroutines \/ NothingToMigrate \/ WaitForClusterState
MigrateSlot(s) ==
    \/ Importing(s) \/ Migrating(s) \/ GetKeys(s) \/ MoveKeys(s)
    \/ SourceGives(s) \/ TargetTakes(s) \/ NotifyPeer(s) \/ SlotFails(s)
Verify == VerifyView \/ ViewNotReady \/ Complete

MigrateSlots ==
    \/ ReadSource \/ Repair \/ Start \/ GoroutinesEnd \/ StartVerification
    \/ Verify
    \/ \E s \in Slots : MigrateSlot(s)

Redis ==
    \/ \E n, m \in Masters, s \in Slots : Gossip(n, m, s)
    \/ \E n \in Masters, s \in Slots : ClientWrite(n, s)

Next == MigrateSlots \/ Redis \/ Crash

Spec == Init /\ [][Next]_vars

\* The masters agree at the start.
AgreedInit == Init /\ \A n \in Masters : owner[n] = owner[Source]
AgreedSpec == AgreedInit /\ [][Next]_vars

\* The reconciler runs a step that is Running again, a goroutine sends its next
\* command, and the masters gossip for ever.  Clients need not write.
Fairness ==
    /\ WF_vars(MigrateSlots)
    /\ \A s \in Slots : WF_vars(MigrateSlot(s))
    /\ \A n, m \in Masters, s \in Slots : WF_vars(Gossip(n, m, s))

-----------------------------------------------------------------------------
(***************************************************************************)
(* What the step promises.                                                 *)
(***************************************************************************)

\* No two masters claim a slot at the same time, whatever command of whatever
\* goroutine was lost (migrateSlot, migrateSlots' repair).
OneClaimant ==
    \A s \in Slots, n, m \in Masters : Claims(n, s) /\ Claims(m, s) => n = m

\* A master sends clients of a migrating slot to Target only while Target
\* serves them: it imports the slot from that master, or it owns the slot
\* (the order of migrateSlot's first two commands, in every repetition).
RedirectsServed ==
    \A n \in Masters : \A s \in migrating[n] :
        importing[s] = n \/ Claims(Target, s)

\* A step that reports Completed has given every slot to Target, and no other
\* master holds a key of one, whatever earlier runs of it left behind
\* (verifyMigratedSlots).
CompletedMeansMoved ==
    result = "Completed" =>
        \A s \in Slots :
            /\ Claims(Target, s)
            /\ \A n \in Masters \ {Target} : keys[n][s] = 0

\* When the masters agreed at the start, a step that fails has met a fault, or
\* its stale view names, for a slot that Target has already, another owner than
\* Source: a run whose slots have two sources does not notify Source of the
\* slots of the other one (sourceClients and extraNodeClients, migrateSlot).
FailuresHaveCauses ==
    [][result' = "Failed" =>
         \/ result = "Failed"
         \/ faults > 0
         \/ \E s \in Slots :
              task[s] = "failed" /\ Claims(Target, s) /\ view[s] \notin {Source, Target}]_vars

\* The source has given the slot away and the target has not taken it.
Orphaned ==
    \E s \in Slots :
        /\ \A n \in Masters : ~Claims(n, s)
        /\ \E n \in Masters \ {Target} : owner[n][s] = Target

\* The step ends, unless a fault between the two last SETSLOT NODE commands of
\* a slot has orphaned it for good (migrateSlots, run again while it is
\* Running).  A slot that is merely between the two commands excuses nothing.
MigrationEnds ==
    \/ <>(result \in {"Completed", "Failed"})
    \/ <>[](Orphaned /\ faults > 0)

\* The step ends after a fault between any two of its commands: a repeated run
\* finishes what the interrupted one has left (migrateSlots).
InterruptedMigrationEnds == <>(result \in {"Completed", "Failed"})
=============================================================================
