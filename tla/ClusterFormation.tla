--------------------------- MODULE ClusterFormation ---------------------------
(***************************************************************************)
(* The steps that make a Redis Cluster of ready pods: MeetNode,            *)
(* ReplicateNode, AddSlots and the final VerifyCluster                     *)
(* (src/internal/action/meet_node.go, replicate_node.go, add_slots.go,     *)
(* verify_cluster.go), one after the other as the reconciler runs them.    *)
(*                                                                         *)
(* Each node has its own table of the others.  MEET enters a node at once  *)
(* under a temporary id ("handshake"); the id is known after the           *)
(* handshake, and roles and slots when the node is heard.  The steps read  *)
(* one node's table, VerifyCluster those of all ready pods.                *)
(*                                                                         *)
(* The nodes start empty, no slot migrates and no replica is promoted, so  *)
(* AddSlots never finds a slot that is migrating.  Redis is external.      *)
(***************************************************************************)
EXTENDS Naturals, Sequences, FiniteSets

CONSTANTS
    Nodes,            \* the ready pods that earlier steps ensured
    Ordinal,          \* Ordinal[n]: the number in the name of n's pod
    NoNode,           \* a master has no master
    Slots,
    Plans,            \* the plans, which need not come from a careful planner
    Shards,           \* expectedShards
    ReplicasPerShard, \* expectedReplicasPerShard
    BatchSize,        \* addSlotsBatchSize
    MaxFaults         \* bound on faults: see Fault

PlanSteps ==
    [action : {"MeetNode"}, source : Nodes, target : Nodes]
      \cup [action : {"ReplicateNode"}, master : Nodes, replica : Nodes]
      \cup [action : {"AddSlots"}, node : Nodes, slots : SUBSET Slots]
      \cup [action : {"VerifyCluster"}]

\* A step names two different pods, and no slot is added twice in a plan
\* (precedingAddSlotsOverlap).
ASSUME ClusterFormationAssumption ==
    /\ IsFiniteSet(Nodes)
    /\ NoNode \notin Nodes
    /\ Ordinal \in [Nodes -> Nat]
    /\ \A n, m \in Nodes : Ordinal[n] = Ordinal[m] => n = m
    /\ Plans \subseteq Seq(PlanSteps)
    /\ \A plan \in Plans :
         /\ plan # <<>>
         /\ \A i \in DOMAIN plan :
              /\ plan[i].action = "MeetNode" => plan[i].source # plan[i].target
              /\ plan[i].action = "ReplicateNode" => plan[i].master # plan[i].replica
         /\ \A i, j \in DOMAIN plan :
              plan[i].action = "AddSlots" /\ plan[j].action = "AddSlots" /\ i # j
                => plan[i].slots \cap plan[j].slots = {}
    /\ Shards \in Nat /\ ReplicasPerShard \in Nat
    /\ BatchSize \in Nat \ {0}
    /\ MaxFaults \in Nat

VARIABLES
    plan,      \* the active plan
    cur,       \* the index of its current step
    status,    \* of the plan
    link,      \* link[n][m]: how n's table holds m
    view,      \* view[n][m]: the master and the slots of m, as n knows them
    pod,       \* "unready": Redis works, but the pod serves no one as a seed
    flagged,   \* the nodes that are marked as failing
    pc,        \* where a run of a step stands
    temporary, \* the run knows the master by the id it has in a handshake
    toAdd,     \* the slots that the run has still to add
    listed,    \* the ready pods whose tables the run of VerifyCluster reads
    views,     \* the tables it has read
    started,   \* verifyStartedAt has been stored
    late,      \* verifyStableTimeout has passed since then
    noted,     \* the stored fingerprint of an observation
    expired,   \* a handshake has timed out
    faults

planVars == <<plan, cur, status>>
redisVars == <<link, view>>
podVars == <<pod, flagged>>
runVars == <<pc, temporary, toAdd, listed, views>>
verifyVars == <<started, noted>>
timeVars == <<late, expired>>
vars == <<planVars, redisVars, podVars, runVars, verifyVars, timeVars, faults>>

Claims == [follows : Nodes \cup {NoNode}, slots : SUBSET Slots]

Seen == [follows : Nodes \cup {NoNode}, slots : SUBSET Slots,
         link : {"none", "handshake", "known"}, connected : BOOLEAN, fails : BOOLEAN]

\* Some nodes' tables.
IsViews(read) ==
    /\ DOMAIN read \subseteq Nodes
    /\ \A n \in DOMAIN read :
         DOMAIN read[n] \subseteq Nodes /\ read[n] \in [DOMAIN read[n] -> Seen]

TypeOK ==
    /\ plan \in Plans
    /\ cur \in DOMAIN plan
    /\ status \in {"Running", "Completed", "Failed", "Superseded"}
    /\ link \in [Nodes -> [Nodes -> {"none", "handshake", "known"}]]
    /\ view \in [Nodes -> [Nodes -> Claims]]
    /\ pod \in [Nodes -> {"ready", "unready", "down"}]
    /\ flagged \subseteq Nodes
    /\ pc \in {"idle", "meet", "met", "replicate", "replicated", "add", "added", "observe"}
    /\ temporary \in BOOLEAN
    /\ toAdd \subseteq Slots
    /\ started \in BOOLEAN /\ late \in BOOLEAN /\ expired \in BOOLEAN
    /\ listed \subseteq Nodes
    /\ IsViews(views)
    /\ IsViews(noted)
    /\ faults \in 0 .. MaxFaults

Fresh == [follows |-> NoNode, slots |-> {}]

Nothing == [n \in {} |-> {}]

Init ==
    /\ plan \in Plans
    /\ cur = 1
    /\ status = "Running"
    /\ link = [n \in Nodes |-> [m \in Nodes |-> IF n = m THEN "known" ELSE "none"]]
    /\ view = [n \in Nodes |-> [m \in Nodes |-> Fresh]]
    /\ pod = [n \in Nodes |-> "ready"]
    /\ flagged = {}
    /\ pc = "idle"
    /\ temporary = FALSE
    /\ toAdd = {}
    /\ listed = {}
    /\ views = Nothing
    /\ started = FALSE
    /\ late = FALSE
    /\ noted = Nothing
    /\ expired = FALSE
    /\ faults = 0

Answers(n) == pod[n] # "down"

Fault == faults < MaxFaults /\ faults' = faults + 1

EndRun ==
    /\ pc' = "idle"
    /\ temporary' = FALSE
    /\ toAdd' = {}
    /\ listed' = {}
    /\ views' = Nothing

RecordPastTheEnd(outcome) ==
    /\ UNCHANGED plan
    /\ IF outcome = "Completed"
       THEN cur' = cur + 1 /\ UNCHANGED status
       ELSE status' = outcome /\ UNCHANGED cur

Record(outcome) ==
    /\ UNCHANGED plan
    /\ IF outcome = "Completed" /\ cur < Len(plan)
       THEN cur' = cur + 1 /\ UNCHANGED status
       ELSE status' = outcome /\ UNCHANGED cur

\* The step is over; the status write that says so may be lost.
Report(outcome) ==
    /\ EndRun
    /\ \/ Record(outcome) /\ UNCHANGED faults
       \/ Fault /\ UNCHANGED planVars

\* The step runs again later.
Running == EndRun /\ UNCHANGED <<planVars, faults>>

\* The run goes on to its next command, unless the reply to this one is lost.
GoOn(next, left) ==
    \/ /\ pc' = next /\ toAdd' = left
       /\ UNCHANGED <<temporary, listed, views, planVars, faults>>
    \/ Fault /\ EndRun /\ Record("Failed")

Step == plan[cur]

At(action, point) ==
    status = "Running" /\ pc = point /\ Step.action = action

VisibleToOthers(n, m) == n # m /\ link[n][m] # "none"

\* Is m in the CLUSTER NODES of n?  A node learns its own address from the first
\* node it knows.
Visible(n, m) ==
    IF n = m THEN \E p \in Nodes \ {n} : link[n][p] = "known"
             ELSE link[n][m] # "none"

-----------------------------------------------------------------------------
(***************************************************************************)
(* MeetNode.                                                               *)
(***************************************************************************)

\* A target in handshake is taken for a member (clusterNodesContainsIP).
MeetNode ==
    /\ At("MeetNode", "idle")
    /\ Answers(Step.source)
    /\ IF Visible(Step.source, Step.target)
       THEN Report("Completed")
       ELSE GoOn("meet", {})
    /\ UNCHANGED <<redisVars, podVars, verifyVars, timeVars>>

ClusterMeet ==
    /\ At("MeetNode", "meet")
    /\ IF Answers(Step.source)
       THEN /\ link' = [link EXCEPT ![Step.source][Step.target] =
                            IF @ = "none" THEN "handshake" ELSE @]
            /\ GoOn("met", {})
       ELSE Report("Failed") /\ UNCHANGED link
    /\ UNCHANGED <<view, podVars, verifyVars, timeVars>>

CheckMet ==
    /\ At("MeetNode", "met")
    /\ IF Answers(Step.source) /\ Visible(Step.source, Step.target)
       THEN Report("Completed")
       ELSE Running
    /\ UNCHANGED <<redisVars, podVars, verifyVars, timeVars>>

-----------------------------------------------------------------------------
(***************************************************************************)
(* ReplicateNode, which reads the replica's own table.                     *)
(***************************************************************************)

IsReplica(n, m) == view[n][m].follows # NoNode

Follows(r, m) == view[r][r].follows = m

\* The master's id is temporary while the replica shakes hands with it.
ReplicateNode ==
    /\ At("ReplicateNode", "idle")
    /\ LET m == Step.master
           r == Step.replica
       IN /\ Answers(r)
          /\ Visible(r, m)
          /\ IF IsReplica(r, m)
             THEN Report("Failed")
             ELSE /\ Visible(r, r)
                  /\ \/ Follows(r, m) /\ Report("Completed")
                     \/ ~Follows(r, m) /\ view[r][r].slots # {} /\ Report("Failed")
                     \/ /\ ~Follows(r, m) /\ view[r][r].slots = {}
                        /\ pc' = "replicate"
                        /\ temporary' = (link[r][m] = "handshake")
                        /\ UNCHANGED <<toAdd, listed, views, planVars, faults>>
    /\ UNCHANGED <<redisVars, podVars, verifyVars, timeVars>>

IdHolds(r, m) == link[r][m] = IF temporary THEN "handshake" ELSE "known"

\* Redis knows the master by the id the run has read, and may follow it.
ClusterReplicate ==
    /\ At("ReplicateNode", "replicate")
    /\ LET m == Step.master
           r == Step.replica
       IN IF Answers(r) /\ IdHolds(r, m) /\ ~IsReplica(r, m)
          THEN /\ view' = [view EXCEPT ![r][r].follows = m]
               /\ GoOn("replicated", {})
          ELSE Report("Failed") /\ UNCHANGED view
    /\ UNCHANGED <<link, podVars, verifyVars, timeVars>>

CheckReplicated ==
    /\ At("ReplicateNode", "replicated")
    /\ LET m == Step.master
           r == Step.replica
       IN IF Answers(r) /\ Follows(r, m) /\ IdHolds(r, m)
          THEN Report("Completed")
          ELSE Running
    /\ UNCHANGED <<redisVars, podVars, verifyVars, timeVars>>

-----------------------------------------------------------------------------
(***************************************************************************)
(* AddSlots, which reads the master's own table.                           *)
(***************************************************************************)

MasterHasHealthyReplicaAlways(n) == TRUE

MasterHasHealthyReplica(n) ==
    \E r \in Nodes \ (flagged \cup {n}) :
        link[n][r] = "known" /\ Answers(r) /\ view[n][r].follows = n

OwnedByOther(n, s) == \E m \in Nodes \ {n} : s \in view[n][m].slots

AddSlots ==
    /\ At("AddSlots", "idle")
    /\ LET n == Step.node
           missing == Step.slots \ view[n][n].slots
       IN /\ Answers(n)
          /\ Visible(n, n)
          /\ IF IsReplica(n, n) THEN Report("Failed")
             ELSE /\ MasterHasHealthyReplica(n)
                  /\ IF \E s \in missing : OwnedByOther(n, s) THEN Report("Failed")
                     ELSE IF missing = {} THEN Report("Completed")
                     ELSE GoOn("add", missing)
    /\ UNCHANGED <<redisVars, podVars, verifyVars, timeVars>>

\* Redis adds all slots of the batch or none.
AddBatch(batch) ==
    /\ At("AddSlots", "add")
    /\ batch \subseteq toAdd
    /\ Cardinality(batch) = BatchSize \/ (batch = toAdd /\ Cardinality(batch) < BatchSize)
    /\ LET n == Step.node
       IN IF Answers(n) /\ \A s \in batch : ~OwnedByOther(n, s)
          THEN /\ view' = [view EXCEPT ![n][n].slots = @ \cup batch]
               /\ GoOn(IF batch = toAdd THEN "added" ELSE "add", toAdd \ batch)
          ELSE Report("Failed") /\ UNCHANGED view
    /\ UNCHANGED <<link, podVars, verifyVars, timeVars>>

CheckAdded ==
    /\ At("AddSlots", "added")
    /\ IF Answers(Step.node) /\ Step.slots \subseteq view[Step.node][Step.node].slots
       THEN Report("Completed")
       ELSE Running
    /\ UNCHANGED <<redisVars, podVars, verifyVars, timeVars>>

-----------------------------------------------------------------------------
(***************************************************************************)
(* VerifyCluster.                                                          *)
(***************************************************************************)

\* The CLUSTER NODES of n.
Entries(n) ==
    [m \in {n} \cup {p \in Nodes : Visible(n, p)} |->
        [follows |-> view[n][m].follows, slots |-> view[n][m].slots,
         link |-> link[n][m], connected |-> Answers(m), fails |-> m \in flagged]]

SlotsCovered(entries) == UNION {entries[m].slots : m \in DOMAIN entries} = Slots

\* cluster_state of the first seed; Redis also wants the owners alive.
StateOK(entries) ==
    /\ SlotsCovered(entries)
    /\ \A m \in DOMAIN entries : entries[m].slots # {} => ~entries[m].fails

ViewsDifferNever(read, entries) == FALSE

ViewsDiffer(read, entries) == \E n \in DOMAIN read : read[n] # entries

Handshaking(entries) ==
    \E m \in DOMAIN entries : entries[m].link = "handshake"

Disconnected(entries) ==
    \E m \in DOMAIN entries : ~entries[m].fails /\ ~entries[m].connected

FailedNode(entries) == \E m \in DOMAIN entries : entries[m].fails

Healthy(entry) == entry.link = "known" /\ entry.connected /\ ~entry.fails

HealthyMasters(entries) ==
    {m \in DOMAIN entries : Healthy(entries[m]) /\ entries[m].follows = NoNode}

SlotOwningMasters(entries) == {m \in HealthyMasters(entries) : entries[m].slots # {}}

HealthyReplicasOf(entries, master) ==
    {m \in DOMAIN entries : Healthy(entries[m]) /\ entries[m].follows = master}

ShapeMatches(entries) ==
    /\ SlotsCovered(entries)
    /\ Cardinality(SlotOwningMasters(entries)) = Shards
    /\ \A m \in SlotOwningMasters(entries) :
         Cardinality(HealthyReplicasOf(entries, m)) = ReplicasPerShard

\* What classifyClusterView may return for the view that all share.  Its entries
\* have no fixed order, and the first one that is not in order decides.
Classify(entries) ==
    LET waits == Handshaking(entries) \/ Disconnected(entries)
    IN IF waits \/ FailedNode(entries)
       THEN (IF waits THEN {"Converging"} ELSE {})
              \cup (IF FailedNode(entries) THEN {"NeedsRepair"} ELSE {})
       ELSE IF SlotsCovered(entries)
                 /\ HealthyMasters(entries) # SlotOwningMasters(entries)
       THEN {"Converging"}
       ELSE IF ShapeMatches(entries) THEN {"Converged"} ELSE {"NeedsRepair"}

NotStableTimesOutEarly(obs) ==
    \/ late /\ started' = TRUE /\ noted' = obs /\ Running
    \/ ~late /\ Report("Failed") /\ UNCHANGED verifyVars

\* waitForStableCluster: what is stored stays stored only with the outcome.
NotStable(obs) ==
    \/ late /\ Report("Failed") /\ UNCHANGED verifyVars
    \/ /\ ~late
       /\ \/ started' = TRUE /\ noted' = obs /\ Running
          \/ Fault /\ EndRun /\ UNCHANGED <<planVars, verifyVars>>

\* pickObservationSeedPod, while the status holds no topology.
IsFirst(n, pods) == n \in pods /\ \A m \in pods : Ordinal[n] <= Ordinal[m]

\* The ready pods are listed, the first of them is asked for its state, and then
\* one after the other for their tables.  A pod may be listed as ready and not
\* answer.
VerifyCluster ==
    /\ At("VerifyCluster", "idle")
    /\ \E down \in SUBSET {n \in Nodes : pod[n] = "down"} :
         LET pods == {n \in Nodes : pod[n] = "ready"} \cup down
             ok == \E n \in pods : IsFirst(n, pods) /\ Answers(n) /\ StateOK(Entries(n))
         IN IF ok
            THEN /\ pc' = "observe"
                 /\ listed' = pods
                 /\ views' = Nothing
                 /\ UNCHANGED <<temporary, toAdd, verifyVars, planVars, faults>>
            ELSE NotStable(noted)
    /\ UNCHANGED <<redisVars, podVars, timeVars>>

\* collectClusterViews: the table of a pod that does not answer is left out.  When
\* two tables differ the run is over: those that it still reads change nothing.
ReadView(n) ==
    /\ At("VerifyCluster", "observe")
    /\ IsFirst(n, listed)
    /\ IF Answers(n) /\ ViewsDiffer(views, Entries(n))
       THEN Running
       ELSE /\ listed' = listed \ {n}
            /\ views' = IF Answers(n)
                        THEN [p \in DOMAIN views \cup {n} |->
                                 IF p = n THEN Entries(n) ELSE views[p]]
                        ELSE views
            /\ UNCHANGED <<pc, temporary, toAdd, planVars, faults>>
    /\ UNCHANGED <<redisVars, podVars, verifyVars, timeVars>>

\* The topology that rebuildTopology puts into the status is left out.
JudgeViews ==
    /\ At("VerifyCluster", "observe")
    /\ listed = {}
    /\ \/ DOMAIN views = {} /\ NotStable(noted)
       \/ \E best \in DOMAIN views, state \in {"NeedsRepair", "Converged", "Converging"} :
            /\ state \in Classify(views[best])
            /\ IF state = "Converging" THEN Running /\ UNCHANGED verifyVars
               ELSE IF noted = views
               THEN /\ Report(IF state = "Converged" THEN "Completed" ELSE "Superseded")
                    /\ UNCHANGED verifyVars
               ELSE NotStable(views)
    /\ UNCHANGED <<redisVars, podVars, timeVars>>

-----------------------------------------------------------------------------
(***************************************************************************)
(* Redis, the kubelet, the clock and the process.                          *)
(***************************************************************************)

\* n meets a node that has met it, or of which a node it knows has told.
Contact(n, m) ==
    /\ link[n][m] = "none"
    /\ Answers(n) /\ Answers(m)
    /\ \/ link[m][n] = "handshake"
       \/ \E p \in Nodes \ {n} :
            link[n][p] = "known" /\ link[p][m] = "known" /\ Answers(p)
    /\ link' = [link EXCEPT ![n][m] = "handshake"]
    /\ UNCHANGED <<planVars, view, podVars, runVars, verifyVars, timeVars, faults>>

\* The answer of a node that has been met, and has entered n in turn.
HandshakeEnds(n, m) ==
    /\ link[n][m] = "handshake"
    /\ link[m][n] # "none"
    /\ Answers(n) /\ Answers(m)
    /\ link' = [link EXCEPT ![n][m] = "known"]
    /\ UNCHANGED <<planVars, view, podVars, runVars, verifyVars, timeVars, faults>>

\* The node is forgotten again, and with it that it is n's master.
HandshakeExpires(n, m) ==
    /\ link[n][m] = "handshake"
    /\ Fault
    /\ expired' = TRUE
    /\ link' = [link EXCEPT ![n][m] = "none"]
    /\ view' = [view EXCEPT ![n][n].follows = IF @ = m THEN NoNode ELSE @]
    /\ UNCHANGED <<planVars, podVars, runVars, verifyVars, late>>

\* What m says of itself; n makes nothing of a temporary id.
Said(m) ==
    [view[m][m] EXCEPT !.follows =
        IF @ # NoNode /\ link[m][@] = "known" THEN @ ELSE NoNode]

Hear(n, m) ==
    /\ n # m
    /\ link[n][m] = "known"
    /\ Answers(n) /\ Answers(m)
    /\ view[n][m] # Said(m)
    /\ view' = [view EXCEPT ![n][m] = Said(m)]
    /\ UNCHANGED <<planVars, link, podVars, runVars, verifyVars, timeVars, faults>>

PodFails(n) ==
    /\ Fault
    /\ pod[n] = "ready"
    /\ \E state \in {"unready", "down"} : pod' = [pod EXCEPT ![n] = state]
    /\ UNCHANGED <<planVars, redisVars, flagged, runVars, verifyVars, timeVars>>

PodRecovers(n) ==
    /\ pod[n] # "ready"
    /\ pod' = [pod EXCEPT ![n] = "ready"]
    /\ UNCHANGED <<planVars, redisVars, flagged, runVars, verifyVars, timeVars, faults>>

\* The nodes mark one that does not answer, and clear the mark.
FlagsFollow(n) ==
    /\ n \in flagged <=> Answers(n)
    /\ flagged' = IF n \in flagged THEN flagged \ {n} ELSE flagged \cup {n}
    /\ UNCHANGED <<planVars, redisVars, pod, runVars, verifyVars, timeVars, faults>>

TimePasses ==
    /\ started /\ ~late
    /\ late' = TRUE
    /\ UNCHANGED <<planVars, redisVars, podVars, runVars, verifyVars, expired, faults>>

\* The process stops, and the next one runs the step again.
Restart ==
    /\ pc # "idle"
    /\ Fault
    /\ EndRun
    /\ UNCHANGED <<planVars, redisVars, podVars, verifyVars, timeVars>>

Run ==
    \/ MeetNode \/ ClusterMeet \/ CheckMet
    \/ ReplicateNode \/ ClusterReplicate \/ CheckReplicated
    \/ AddSlots \/ (\E batch \in SUBSET Slots : AddBatch(batch)) \/ CheckAdded
    \/ VerifyCluster \/ (\E n \in Nodes : ReadView(n)) \/ JudgeViews

Settling ==
    \/ \E n, m \in Nodes : Contact(n, m) \/ HandshakeEnds(n, m) \/ Hear(n, m)
    \/ \E n \in Nodes : PodRecovers(n) \/ FlagsFollow(n)

Next ==
    \/ Run
    \/ Settling
    \/ \E n, m \in Nodes : HandshakeExpires(n, m)
    \/ \E n \in Nodes : PodFails(n)
    \/ TimePasses
    \/ Restart

Spec == Init /\ [][Next]_vars

\* The reconciler runs a Running step again; nodes gossip, pods come back and the
\* failure marks follow, each of which has an end when faults have.
Fairness == WF_vars(Run) /\ WF_vars(Settling)

FairSpec == Spec /\ Fairness

-----------------------------------------------------------------------------
(***************************************************************************)
(* What the steps promise.                                                 *)
(***************************************************************************)

\* A node that owns slots has a replica, in whatever order an unsafe plan adds
\* slots and replicates, and though the step knows of replicas only by gossip
\* (addSlots waits for a healthy replica before it adds anything).
ReplicasBeforeSlots ==
    \A m \in Nodes : view[m][m].slots # {} =>
        \E r \in Nodes \ {m} : Follows(r, m)

\* A verified cluster is whole, and every pod that was observed knows it as it
\* is: no client is redirected to the wrong node.  A pod that fails between the
\* two observations, or is left out of both, does not change this
\* (classifyClusterView, waitForStableCluster).
VerifiedViewsAgree ==
    status = "Completed" /\ Step.action = "VerifyCluster" =>
        /\ \A n, m \in DOMAIN noted : link[n][m] = "known" /\ view[n][m] = view[m][m]
        /\ LET owners == {m \in Nodes : view[m][m].slots # {}}
           IN /\ UNION {view[m][m].slots : m \in owners} = Slots
              /\ Cardinality(owners) = Shards
              /\ \A m \in owners :
                   Cardinality({r \in Nodes : Follows(r, m)}) = ReplicasPerShard

\* Nothing but a fault makes VerifyCluster give up the plan, and nothing but a
\* fault or the timeout makes a step fail, however late gossip is.  There is one
\* exception: a handshake may end between ReplicateNode's read of the master's
\* temporary id and the command that names this id, and Redis does not know the
\* id any more (replicateNode, classifyClusterView).
EndsHaveCauses ==
    faults = 0 =>
        /\ status # "Superseded"
        /\ status = "Failed" => late \/ Step.action = "ReplicateNode"

\* A plan ends if no handshake times out: MeetNode takes a target in handshake
\* for a member, so that nobody meets it again when it is dropped.  A plan that
\* adds slots before it replicates waits for ever (addSlots).
CreationEnds ==
    (\A i \in DOMAIN plan : plan[i].action = "AddSlots" =>
        \E j \in 1 .. (i - 1) :
            plan[j].action = "ReplicateNode" /\ plan[j].master = plan[i].node)
      => <>(status # "Running" \/ expired)
=============================================================================
