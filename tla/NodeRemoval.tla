----------------------------- MODULE NodeRemoval -----------------------------
(***************************************************************************)
(* The steps ForgetNode and DeleteNode (src/internal/action/forget_node.go *)
(* and delete_node.go) that take one node out of the cluster and then      *)
(* delete its pod.  Each step trusts the CLUSTER NODES of one ready pod,   *)
(* its seed, and the informer's list of pods, whose order is random:       *)
(* pickSeedPod may take any ready pod, the node to be forgotten included.  *)
(*                                                                         *)
(* Only the place of Target in the nodes' tables changes, since no other   *)
(* node is met or forgotten meanwhile; nodes are not promoted and no slot  *)
(* moves.  Redis, the kubelet and the informer are external.               *)
(***************************************************************************)
EXTENDS Naturals

CONSTANTS
    Members,    \* the nodes that have met, Target among them
    Target,     \* the node (and pod) that the two steps name
    Leftovers,  \* pods that the cluster forgot and that still know its members
    Strangers,  \* ready pods that have never met the cluster
    NoNode,     \* a master has no master
    MaxFaults   \* bound on failing pods and calls, slow runs, lost status writes

Nodes == Members \cup Leftovers \cup Strangers

ASSUME NodeRemovalAssumption ==
    /\ Target \in Members
    /\ Members \cap (Leftovers \cup Strangers) = {}
    /\ Leftovers \cap Strangers = {}
    /\ NoNode \notin Nodes
    /\ MaxFaults \in Nat

VARIABLES
    master,    \* master[n]: the master that n replicates, or NoNode
    owners,    \* the masters that own slots
    byId,      \* ForgetNode carries lastKnownNodeId
    halfway,   \* an earlier plan failed after some members had forgotten Target
    pod,       \* the pod of each node: an unready pod may still answer
    stopping,  \* the deletion of Target's pod has been requested
    seen,      \* the informer's copy of the pods
    knows,     \* the nodes whose table holds Target
    banned,    \* the nodes that refuse to learn about Target from gossip
    flagged,   \* the members that the cluster has marked as failing
    status,    \* the step to run, or how the last one ended
    pc,        \* where a run of a step stands
    seed,      \* the pod whose view this run trusts
    peers,     \* the pods that this run has still to tell to forget Target
    faults

planVars == <<master, owners, byId, halfway>>
clusterVars == <<pod, stopping, seen, knows, banned, flagged>>
stepVars == <<status, pc, seed, peers>>
vars == <<planVars, clusterVars, stepVars, faults>>

TypeOK ==
    /\ master \in [Members -> Members \cup {NoNode}]
    /\ owners \subseteq Members
    /\ byId \in BOOLEAN
    /\ halfway \in BOOLEAN
    /\ pod \in [Nodes -> {"ready", "unready", "dead", "gone"}]
    /\ stopping \in BOOLEAN
    /\ seen \in [Nodes -> {"ready", "unready", "gone"}]
    /\ knows \subseteq Nodes
    /\ banned \subseteq Nodes
    /\ flagged \subseteq Nodes
    /\ status \in {"forget", "delete", "Completed", "Failed"}
    /\ pc \in {"idle", "forgetting", "deleting"}
    /\ seed \in Nodes
    /\ peers \subseteq Nodes
    /\ faults \in 0 .. MaxFaults

\* The nodes in n's CLUSTER NODES.
View(n) ==
    (IF n \in Strangers THEN {n} ELSE {n} \cup (Members \ {Target}))
        \cup {m \in {Target} : n \in knows}

Answers(n) == pod[n] \in {"ready", "unready"}

\* What the informer stores of a pod.
Seen(state) == IF state = "dead" THEN "unready" ELSE state

\* A slot owner has never been forgotten by anyone.
Init ==
    /\ master \in [Members -> Members \cup {NoNode}]
    /\ \A n \in Members : master[n] # NoNode => master[n] # n /\ master[master[n]] = NoNode
    /\ owners \in SUBSET {n \in Members : master[n] = NoNode}
    /\ owners # {}
    /\ byId \in BOOLEAN
    /\ halfway \in BOOLEAN
    /\ pod \in [Nodes -> {"ready", "dead", "gone"}]
    /\ \A n \in Nodes \ {Target} :
         pod[n] = "ready" \/ (n \in Leftovers /\ pod[n] = "gone")
    /\ seen = [n \in Nodes |-> Seen(pod[n])]
    /\ stopping = FALSE
    /\ halfway => Target \notin owners
    /\ \E K \in SUBSET Members :
         /\ IF halfway THEN Target \in K /\ K # Members ELSE K = Members
         /\ knows = K \cup Leftovers
    /\ banned = {}
    /\ flagged = {n \in {Target} : ~Answers(Target)}
    /\ status = "forget"
    /\ pc = "idle"
    /\ seed = Target
    /\ peers = {}
    /\ faults = 0

EndRunWithoutSeed == pc' = "idle" /\ seed' = NoNode /\ peers' = {}

EndRun == pc' = "idle" /\ seed' = Target /\ peers' = {}

\* The status write that records an outcome may be lost: the step runs again.
Report(outcome) ==
    /\ EndRun
    /\ \/ status' = outcome /\ UNCHANGED faults
       \/ faults < MaxFaults /\ faults' = faults + 1 /\ UNCHANGED status

-----------------------------------------------------------------------------
(***************************************************************************)
(* ForgetNode.                                                             *)
(***************************************************************************)

\* pickSeedPod: the list has a random order.
ReadyPods == {n \in Nodes : seen[n] = "ready"}

\* forgetPeers: ready pods whose node the seed sees healthy.
ForgetPeers(s) == (ReadyPods \cap View(s)) \ (flagged \cup {Target})

\* forgetTargetNodeID: without a node id the pod has to exist.
Unidentified == ~byId /\ seen[Target] = "gone"

OwnsSlotsUnchecked(s) == FALSE

OwnsSlots(s) == Target \in View(s) /\ Target \in owners

\* Up to the first CLUSTER FORGET.  A seed that does not answer, or a view with
\* no peer in it, leaves the step Running.
ForgetNode(s) ==
    /\ status = "forget"
    /\ pc = "idle"
    /\ s \in ReadyPods
    /\ Answers(s)
    /\ \/ Unidentified /\ Report("Failed")
       \/ ~Unidentified /\ Target \notin View(s) /\ Report("delete")
       \/ ~Unidentified /\ OwnsSlots(s) /\ Report("Failed")
       \/ /\ ~Unidentified
          /\ Target \in View(s)
          /\ ~OwnsSlots(s)
          /\ ForgetPeers(s) # {}
          /\ pc' = "forgetting"
          /\ seed' = s
          /\ peers' = ForgetPeers(s)
          /\ UNCHANGED <<status, faults>>
    /\ UNCHANGED <<planVars, clusterVars>>

\* CLUSTER FORGET: refused by a replica of the node, and an error the step
\* tolerates where the node is unknown.
Forget(p) ==
    /\ knows' = knows \ {p}
    /\ banned' = IF p \in knows THEN banned \cup {p} ELSE banned

Replicates(p) == p \in Members /\ master[p] = Target

ForgetPeer(p) ==
    /\ pc = "forgetting"
    /\ p \in peers
    /\ IF Answers(p) /\ ~(Replicates(p) /\ p \in knows)
       THEN /\ Forget(p)
            /\ peers' = peers \ {p}
            /\ UNCHANGED <<status, pc, seed, faults>>
       ELSE /\ Report("Failed")
            /\ UNCHANGED <<knows, banned>>
    /\ UNCHANGED <<planVars, pod, stopping, seen, flagged>>

\* The seed's second CLUSTER NODES.
CheckForgotten ==
    /\ pc = "forgetting"
    /\ peers = {}
    /\ IF Answers(seed) /\ Target \notin View(seed)
       THEN Report("delete")
       ELSE EndRun /\ UNCHANGED <<status, faults>>
    /\ UNCHANGED <<planVars, clusterVars>>

-----------------------------------------------------------------------------
(***************************************************************************)
(* DeleteNode.                                                             *)
(***************************************************************************)

OtherReadyPodsAny == ReadyPods

\* pickSeedPodExcept
OtherReadyPods == ReadyPods \ {Target}

HealthyReplicasOfAny(s, o) ==
    {n \in (View(s) \cap Members) \ flagged : master[n] # NoNode}

HealthyReplicasOf(s, o) ==
    {n \in (View(s) \cap Members) \ flagged : master[n] = o}

UnreplicatedOwner(s) ==
    \E o \in owners \cap View(s) : HealthyReplicasOf(s, o) = {}

PodAlreadyDeletedStillRunning ==
    /\ status = "delete"
    /\ pc = "idle"
    /\ seen[Target] = "gone"
    /\ EndRun
    /\ UNCHANGED <<planVars, clusterVars, status, faults>>

\* The pod is absent from the informer's copy.
PodAlreadyDeleted ==
    /\ status = "delete"
    /\ pc = "idle"
    /\ seen[Target] = "gone"
    /\ Report("Completed")
    /\ UNCHANGED <<planVars, clusterVars>>

\* The checks on the view of one other ready pod.
DeleteNode(s) ==
    /\ status = "delete"
    /\ pc = "idle"
    /\ seen[Target] # "gone"
    /\ s \in OtherReadyPods
    /\ Answers(s)
    /\ IF Target \in View(s) \/ UnreplicatedOwner(s)
       THEN Report("Failed")
       ELSE pc' = "deleting" /\ UNCHANGED <<status, seed, peers, faults>>
    /\ UNCHANGED <<planVars, clusterVars>>

\* The API server accepts the deletion of a pod that is stopping already.  A call
\* that returns another error fails the plan, whether it took effect or not.
DeletePod ==
    /\ pc = "deleting"
    /\ \/ pod[Target] = "gone" /\ Report("Completed") /\ UNCHANGED stopping
       \/ pod[Target] # "gone" /\ EndRun /\ stopping' = TRUE /\ UNCHANGED <<status, faults>>
       \/ /\ faults < MaxFaults
          /\ faults' = faults + 1
          /\ EndRun
          /\ status' = "Failed"
          /\ stopping' \in {stopping, TRUE}
    /\ UNCHANGED <<planVars, pod, seen, knows, banned, flagged>>

RunGoesOn ==
    \/ \E p \in Nodes : ForgetPeer(p)
    \/ CheckForgotten
    \/ PodAlreadyDeleted
    \/ DeletePod

Step ==
    \/ \E s \in Nodes : ForgetNode(s) \/ DeleteNode(s)
    \/ RunGoesOn

-----------------------------------------------------------------------------
(***************************************************************************)
(* Redis, the kubelet, the informer and the process.                       *)
(***************************************************************************)

\* n hears of Target from p, whose messages it accepts because it knows p, and
\* shakes hands with Target.
Gossip(n, p) ==
    /\ p \in View(n) /\ p \in knows
    /\ n \notin knows \cup banned
    /\ Answers(n) /\ Answers(p) /\ Answers(Target)
    /\ knows' = knows \cup {n}
    /\ UNCHANGED <<planVars, pod, stopping, seen, banned, flagged, stepVars, faults>>

\* A forgotten node is banned for a minute.  A run of the step is shorter than
\* that, unless commands hang.
BanExpires(n) ==
    /\ n \in banned
    /\ banned' = banned \ {n}
    /\ \/ pc # "forgetting" /\ UNCHANGED faults
       \/ pc = "forgetting" /\ faults < MaxFaults /\ faults' = faults + 1
    /\ UNCHANGED <<planVars, pod, stopping, seen, knows, flagged, stepVars>>

PodFails(n) ==
    /\ faults < MaxFaults
    /\ faults' = faults + 1
    /\ pod[n] = "ready"
    /\ \E state \in {"unready", "dead"} : pod' = [pod EXCEPT ![n] = state]
    /\ UNCHANGED <<planVars, stopping, seen, knows, banned, flagged, stepVars>>

PodRecovers(n) ==
    /\ pod[n] \in {"unready", "dead"}
    /\ pod' = [pod EXCEPT ![n] = "ready"]
    /\ UNCHANGED <<planVars, stopping, seen, knows, banned, flagged, stepVars, faults>>

PodStops ==
    /\ stopping
    /\ pod[Target] # "gone"
    /\ pod' = [pod EXCEPT ![Target] = "gone"]
    /\ UNCHANGED <<planVars, stopping, seen, knows, banned, flagged, stepVars, faults>>

\* The masters mark a member that does not answer, and clear the mark.
FlagsFollow(n) ==
    /\ n \in Members
    /\ n \in flagged <=> Answers(n)
    /\ flagged' = IF n \in flagged THEN flagged \ {n} ELSE flagged \cup {n}
    /\ UNCHANGED <<planVars, pod, stopping, seen, knows, banned, stepVars, faults>>

Informer(n) ==
    /\ seen[n] # Seen(pod[n])
    /\ seen' = [seen EXCEPT ![n] = Seen(pod[n])]
    /\ UNCHANGED <<planVars, pod, stopping, knows, banned, flagged, stepVars, faults>>

\* The process stops; the next one lists the pods and runs the step again.
Restart ==
    /\ faults < MaxFaults
    /\ faults' = faults + 1
    /\ EndRun
    /\ seen' = [n \in Nodes |-> Seen(pod[n])]
    /\ UNCHANGED <<planVars, pod, stopping, knows, banned, flagged, status>>

Environment ==
    \/ \E n, p \in Nodes : Gossip(n, p)
    \/ \E n \in Nodes : BanExpires(n) \/ PodFails(n) \/ PodRecovers(n)
                           \/ FlagsFollow(n) \/ Informer(n)
    \/ PodStops
    \/ Restart

Next == Step \/ Environment

Spec == Init /\ [][Next]_vars

\* A Running step runs again, and the random order of the list does not leave
\* out a ready member for ever (nothing is asked of Target and of leftovers); the
\* rest of a run is a loop.  The kubelet ends and restarts pods, the informer and
\* the failure marks follow.
Fairness ==
    /\ \A s \in Members \ {Target} : SF_vars(ForgetNode(s) \/ DeleteNode(s))
    /\ WF_vars(RunGoesOn)
    /\ WF_vars(PodStops \/ \E n \in Nodes : PodRecovers(n))
    /\ WF_vars(\E n \in Nodes : FlagsFollow(n))
    /\ WF_vars(\E n \in Nodes : Informer(n))

FairSpec == Spec /\ Fairness

-----------------------------------------------------------------------------
(***************************************************************************)
(* What the removal promises.                                              *)
(***************************************************************************)

\* A node that owns slots stays in every member's table and keeps its pod, from
\* whichever seed the two steps look (forgetNode's and deleteNode's checks).
SlotOwnersStay ==
    Target \in owners => Members \subseteq knows /\ ~stopping

\* A pod is deleted only while every slot owner has a replica that is not the
\* deleted pod: forgetting the last replica is possible, deleting its pod is
\* not (deleteNode's replica check on a view without Target).
LastReplicaStays ==
    stopping =>
        \A o \in owners : \E n \in Members \ {Target} : master[n] = o

\* Without a fault, a step fails only for a reason that the plan started with:
\* the node owns slots, has replicas, is the last replica of an owner, or is
\* named by a pod that is gone; an owner had no replica; an earlier removal
\* stopped half way, which a repeated ForgetNode does not finish when its seed
\* has forgotten the node; or a forgotten pod is still there and serves as seed
\* (forgetNode, deleteNode).
FailuresHaveCauses ==
    status = "Failed" =>
        \/ faults > 0
        \/ Target \in owners
        \/ \E n \in Members : master[n] = Target
        \/ \E o \in owners : {n \in Members \ {Target} : master[n] = o} = {}
        \/ ~byId /\ seen[Target] = "gone"
        \/ halfway
        \/ \E n \in Leftovers : pod[n] # "gone"

\* The two steps end, though a run whose seed is Target cannot complete and
\* though gossip may bring Target back (forgetNode, deleteNode, run again while
\* they are Running).
RemovalEnds == <>(status \in {"Completed", "Failed"})
=============================================================================
