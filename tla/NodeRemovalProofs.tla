-------------------------- MODULE NodeRemovalProofs --------------------------
(***************************************************************************)
(* What NodeRemoval promises, for any members, leftovers and faults.  Every *)
(* pod must have met the cluster (NoStrangers): the run                     *)
(* node_removal_stranger shows that the promises fail otherwise.            *)
(***************************************************************************)
EXTENDS NodeRemoval, TLAPS

NoStrangers == Strangers = {}

\* A slot owner is refused before anything is done to it.
OwnersInv ==
    Target \in owners =>
        /\ Members \cup Leftovers \subseteq knows
        /\ status \in {"forget", "Failed"}
        /\ pc = "idle"
        /\ ~stopping

Replicated == \A o \in owners : \E n \in Members \ {Target} : master[n] = o

Others == Members \ {Target}

\* Nothing has happened that may make a step fail, but for a name that leads to no node.
Calm ==
    /\ faults = 0
    /\ Target \notin owners
    /\ \A n \in Members : master[n] # Target
    /\ Replicated
    /\ ~halfway
    /\ \A n \in Leftovers : pod[n] = "gone"

\* Where the removal stands while all is calm: before it everybody knows the node,
\* after it nobody does, and in between those that are done refuse to hear of it.
CalmInv ==
    Calm =>
        /\ \A n \in Others : pod[n] = "ready" /\ seen[n] = "ready" /\ n \notin flagged
        /\ \A n \in Leftovers : seen[n] = "gone"
        /\ status = "forget" /\ pc = "idle" => Others \subseteq knows \/ Others \cap knows = {}
        /\ pc = "forgetting" =>
             \/ peers \subseteq knows /\ Others \ peers \subseteq banned \ knows
             \/ Others \cap knows = {}
        /\ pc = "forgetting" => peers \subseteq Others
        /\ status = "delete" => Others \cap knows = {}
        /\ status = "Failed" => ~byId /\ seen[Target] = "gone"

\* A step is in its own part of the plan, and a deleted pod does not come back.
PhaseInv ==
    /\ pc = "forgetting" => status = "forget"
    /\ pc = "deleting" => status = "delete"
    /\ seen[Target] = "gone" => pod[Target] = "gone"

IInv ==
    /\ TypeOK
    /\ OwnersInv
    /\ pc = "deleting" \/ stopping => Replicated

LEMMA InitIInv == ASSUME NoStrangers, Init PROVE IInv
<1> USE NodeRemovalAssumption DEF Init, NoStrangers, Nodes, Seen, Answers
<1>1. TypeOK
  <2>1. seen \in [Nodes -> {"ready", "unready", "gone"}]
    OBVIOUS
  <2>2. knows \subseteq Nodes
    OBVIOUS
  <2>3. flagged \subseteq Nodes /\ seed \in Nodes
    OBVIOUS
  <2>4. faults \in 0 .. MaxFaults
    OBVIOUS
  <2>5. pod \in [Nodes -> {"ready", "unready", "dead", "gone"}]
    OBVIOUS
  <2> QED
    BY <2>1, <2>2, <2>3, <2>4, <2>5 DEF TypeOK
<1>2. OwnersInv
  BY DEF OwnersInv
<1> QED
  BY <1>1, <1>2 DEF IInv

\* The reports keep the types and end the run.
LEMMA ReportFacts ==
    ASSUME TypeOK, NEW outcome \in {"forget", "delete", "Completed", "Failed"},
           Report(outcome)
    PROVE  /\ pc' = "idle"
           /\ seed' \in Nodes
           /\ peers' = {}
           /\ status' \in {outcome, status}
           /\ faults' \in 0 .. MaxFaults
BY NodeRemovalAssumption DEF Report, EndRun, TypeOK, Nodes

LEMMA ForgetNodeKeeps ==
    ASSUME NoStrangers, IInv, NEW s \in Nodes, ForgetNode(s) PROVE IInv'
<1> USE DEF IInv, planVars, clusterVars
<1>1. TypeOK'
  <2>1. CASE Report("Failed")
    BY <2>1, ReportFacts DEF ForgetNode, TypeOK
  <2>2. CASE Report("delete")
    BY <2>2, ReportFacts DEF ForgetNode, TypeOK
  <2>3. CASE /\ pc' = "forgetting"
             /\ seed' = s
             /\ peers' = ForgetPeers(s)
             /\ UNCHANGED <<status, faults>>
    BY <2>3 DEF ForgetNode, TypeOK, ForgetPeers, ReadyPods
  <2> QED
    BY <2>1, <2>2, <2>3 DEF ForgetNode
<1>2. OwnersInv'
  <2> SUFFICES ASSUME Target \in owners PROVE OwnersInv'
    BY DEF OwnersInv, ForgetNode
  <2>1. Target \in View(s)
    BY DEF OwnersInv, View, Nodes, NoStrangers
  <2>2. Report("Failed")
    BY <2>1 DEF ForgetNode, OwnsSlots
  <2> QED
    BY <2>2, ReportFacts DEF OwnersInv, ForgetNode
<1>3. (pc = "deleting" \/ stopping => Replicated)'
  BY ReportFacts DEF ForgetNode, Replicated
<1> QED
  BY <1>1, <1>2, <1>3

LEMMA ForgetPeerKeeps ==
    ASSUME IInv, NEW p \in Nodes, ForgetPeer(p) PROVE IInv'
<1> USE DEF IInv, planVars
<1>1. CASE Forget(p) /\ peers' = peers \ {p} /\ UNCHANGED <<status, pc, seed, faults>>
  BY <1>1 DEF ForgetPeer, Forget, TypeOK, OwnersInv, Replicated
<1>2. CASE Report("Failed") /\ UNCHANGED <<knows, banned>>
  BY <1>2, ReportFacts DEF ForgetPeer, TypeOK, OwnersInv, Replicated
<1> QED
  BY <1>1, <1>2 DEF ForgetPeer

LEMMA CheckForgottenKeeps == ASSUME IInv, CheckForgotten PROVE IInv'
<1> USE DEF IInv, planVars, clusterVars
<1>1. CASE Report("delete")
  BY <1>1, ReportFacts DEF CheckForgotten, TypeOK, OwnersInv, Replicated
<1>2. CASE EndRun /\ UNCHANGED <<status, faults>>
  BY <1>2, NodeRemovalAssumption DEF CheckForgotten, EndRun, TypeOK, OwnersInv, Replicated, Nodes
<1> QED
  BY <1>1, <1>2 DEF CheckForgotten

LEMMA DeleteNodeKeeps ==
    ASSUME NoStrangers, IInv, NEW s \in Nodes, DeleteNode(s) PROVE IInv'
<1> USE DEF IInv, planVars, clusterVars
<1>1. CASE Report("Failed")
  BY <1>1, ReportFacts DEF DeleteNode, TypeOK, OwnersInv, Replicated
<1>2. CASE /\ ~(Target \in View(s) \/ UnreplicatedOwner(s))
           /\ pc' = "deleting"
           /\ UNCHANGED <<status, seed, peers, faults>>
  <2>1. Target \notin owners
    BY DEF DeleteNode, OwnersInv
  <2>2. Replicated
    <3> SUFFICES ASSUME NEW o \in owners
                 PROVE  \E n \in Members \ {Target} : master[n] = o
      BY DEF Replicated
    <3>1. o \in View(s)
      BY <2>1 DEF View, NoStrangers, TypeOK
    <3>2. PICK n \in HealthyReplicasOf(s, o) : TRUE
      BY <1>2, <3>1 DEF UnreplicatedOwner
    <3>3. n # Target
      BY <1>2, <3>2 DEF HealthyReplicasOf
    <3> QED
      BY <3>2, <3>3 DEF HealthyReplicasOf
  <2>3. TypeOK'
    BY <1>2 DEF DeleteNode, TypeOK
  <2> QED
    BY <1>2, <2>1, <2>2, <2>3 DEF DeleteNode, OwnersInv, Replicated
<1> QED
  BY <1>1, <1>2 DEF DeleteNode

LEMMA DeletePodKeeps == ASSUME IInv, DeletePod PROVE IInv'
<1> USE DEF IInv, planVars
<1>1. Target \notin owners /\ Replicated
  BY DEF DeletePod, OwnersInv
<1>2. CASE Report("Completed") /\ UNCHANGED stopping
  BY <1>1, <1>2, ReportFacts DEF DeletePod, TypeOK, OwnersInv, Replicated
<1>3. CASE EndRun /\ stopping' = TRUE /\ UNCHANGED <<status, faults>>
  BY <1>1, <1>3, NodeRemovalAssumption DEF DeletePod, EndRun, TypeOK, OwnersInv, Replicated, Nodes
<1>4. CASE /\ faults < MaxFaults /\ faults' = faults + 1 /\ EndRun
           /\ status' = "Failed" /\ stopping' \in {stopping, TRUE}
  <2>1. status' = "Failed" /\ pc' = "idle" /\ seed' = Target /\ peers' = {}
    BY <1>4 DEF EndRun
  <2>2. /\ faults' \in 0 .. MaxFaults
        /\ stopping' \in BOOLEAN
    <3>1. faults' \in 0 .. MaxFaults
      <4> HIDE DEF IInv
      <4>1. faults \in 0 .. MaxFaults
        BY DEF IInv, TypeOK
      <4> QED
        BY <1>4, <4>1, NodeRemovalAssumption
    <3>2. stopping' \in BOOLEAN
      BY <1>4 DEF TypeOK
    <3> QED
      BY <3>1, <3>2
  <2>3. UNCHANGED <<planVars, pod, seen, knows, banned, flagged>>
    BY DEF DeletePod
  <2>4. TypeOK'
    BY <2>1, <2>2, <2>3, NodeRemovalAssumption DEF TypeOK, Nodes
  <2> QED
    BY <1>1, <2>1, <2>3, <2>4 DEF OwnersInv, Replicated
<1> QED
  BY <1>2, <1>3, <1>4 DEF DeletePod

LEMMA PodAlreadyDeletedKeeps == ASSUME IInv, PodAlreadyDeleted PROVE IInv'
BY ReportFacts
DEF IInv, PodAlreadyDeleted, TypeOK, OwnersInv, Replicated, planVars, clusterVars

LEMMA EnvironmentKeeps == ASSUME IInv, Environment PROVE IInv'
<1> USE DEF IInv, planVars, stepVars
<1>1. ASSUME NEW n \in Nodes, NEW p \in Nodes, Gossip(n, p) PROVE IInv'
  BY <1>1 DEF Gossip, TypeOK, OwnersInv, Replicated
<1>2. ASSUME NEW n \in Nodes, BanExpires(n) PROVE IInv'
  BY <1>2, NodeRemovalAssumption DEF BanExpires, TypeOK, OwnersInv, Replicated
<1>3. ASSUME NEW n \in Nodes, PodFails(n) PROVE IInv'
  BY <1>3, NodeRemovalAssumption DEF PodFails, TypeOK, OwnersInv, Replicated
<1>4. ASSUME NEW n \in Nodes, PodRecovers(n) PROVE IInv'
  BY <1>4 DEF PodRecovers, TypeOK, OwnersInv, Replicated
<1>5. ASSUME NEW n \in Nodes, FlagsFollow(n) PROVE IInv'
  BY <1>5 DEF FlagsFollow, TypeOK, OwnersInv, Replicated
<1>6. ASSUME NEW n \in Nodes, Informer(n) PROVE IInv'
  BY <1>6 DEF Informer, Seen, TypeOK, OwnersInv, Replicated
<1>7. CASE PodStops
  BY <1>7 DEF PodStops, TypeOK, OwnersInv, Replicated
<1>8. CASE Restart
  BY <1>8, NodeRemovalAssumption
  DEF Restart, EndRun, Seen, TypeOK, OwnersInv, Replicated, Nodes
<1> QED
  BY <1>1, <1>2, <1>3, <1>4, <1>5, <1>6, <1>7, <1>8 DEF Environment

LEMMA NextKeeps == ASSUME NoStrangers, IInv, [Next]_vars PROVE IInv'
<1>1. CASE Environment
  BY <1>1, EnvironmentKeeps
<1>2. CASE Step
  BY <1>2, ForgetNodeKeeps, DeleteNodeKeeps, ForgetPeerKeeps, CheckForgottenKeeps,
     PodAlreadyDeletedKeeps, DeletePodKeeps DEF Step, RunGoesOn
<1>3. CASE UNCHANGED vars
  BY <1>3 DEF vars, planVars, clusterVars, stepVars, IInv, TypeOK, OwnersInv, Replicated
<1> QED
  BY <1>1, <1>2, <1>3 DEF Next

LEMMA Inductive == ASSUME NoStrangers PROVE Spec => []IInv
<1>1. NoStrangers
  OBVIOUS
<1>2. Init => IInv
  BY <1>1, InitIInv
<1>3. IInv /\ [Next]_vars => IInv'
  BY <1>1, NextKeeps
<1> QED
  BY <1>2, <1>3, PTL DEF Spec

\* The variables of NodeRemoval keep their types.
THEOREM TypeCorrect == ASSUME NoStrangers PROVE Spec => []TypeOK
<1>1. IInv => TypeOK
  BY DEF IInv
<1> QED
  BY <1>1, Inductive, PTL

\* ForgetNode and DeleteNode leave a slot owner in every table and keep its
\* pod, whichever pods serve as seeds (the promise SlotOwnersStay).
THEOREM OwnersStay == ASSUME NoStrangers PROVE Spec => []SlotOwnersStay
<1>1. IInv => SlotOwnersStay
  BY DEF IInv, OwnersInv, SlotOwnersStay
<1> QED
  BY <1>1, Inductive, PTL

\* No pod is deleted while some slot owner has no other replica (the promise
\* LastReplicaStays).
THEOREM LastReplicasStay == ASSUME NoStrangers PROVE Spec => []LastReplicaStays
<1>1. IInv => LastReplicaStays
  BY DEF IInv, Replicated, LastReplicaStays
<1> QED
  BY <1>1, Inductive, PTL

-----------------------------------------------------------------------------
(***************************************************************************)
(* Why a step fails.                                                       *)
(***************************************************************************)
LEMMA InitCalm == ASSUME NoStrangers, Init PROVE PhaseInv /\ CalmInv
<1> USE NodeRemovalAssumption DEF Init, NoStrangers, Nodes, Seen
<1>1. PhaseInv
  BY DEF PhaseInv
<1>2. \A n \in Members : n # Target => pod[n] = "ready" /\ seen[n] = "ready" /\ n \notin flagged
  OBVIOUS
<1>3. (\A n \in Leftovers : pod[n] = "gone") => \A n \in Leftovers : seen[n] = "gone"
  OBVIOUS
<1>4. ~halfway => Others \subseteq knows
  BY DEF Others
<1> QED
  BY <1>1, <1>2, <1>3, <1>4 DEF CalmInv, Calm, Others

\* Without a fault an outcome is recorded.
LEMMA ReportCalm ==
    ASSUME TypeOK, NEW outcome, Report(outcome), faults' = 0
    PROVE  faults = 0 /\ status' = outcome /\ pc' = "idle" /\ peers' = {}
BY NodeRemovalAssumption DEF TypeOK, Report, EndRun

LEMMA ForgetNodeCalm ==
    ASSUME NoStrangers, TypeOK, PhaseInv, CalmInv, NEW s \in Nodes, ForgetNode(s)
    PROVE  PhaseInv' /\ CalmInv'
<1> USE DEF planVars, clusterVars
<1>1. PhaseInv'
  BY ReportFacts DEF ForgetNode, PhaseInv, Report, EndRun
<1> SUFFICES ASSUME Calm' PROVE CalmInv'
  BY <1>1 DEF CalmInv
<1>2. Calm
  <2>1. faults = 0
    BY ReportCalm DEF ForgetNode, Calm
  <2> QED
    BY <2>1 DEF Calm, ForgetNode, Replicated
<1>3. s \in Members /\ Others \subseteq View(s)
  BY <1>2 DEF CalmInv, ForgetNode, ReadyPods, Nodes, NoStrangers, View, Others
<1>4. CASE Unidentified /\ Report("Failed")
  <2>1. ~byId /\ seen[Target] = "gone"
    BY <1>4 DEF Unidentified
  <2> QED
    BY <1>2, <1>4, <2>1, ReportCalm DEF CalmInv, Calm, ForgetNode
<1>5. CASE Target \notin View(s) /\ Report("delete")
  <2>1. s \in Others /\ s \notin knows
    BY <1>3, <1>5, NodeRemovalAssumption DEF View, Others
  <2>2. Others \cap knows = {}
    BY <1>2, <2>1 DEF CalmInv, ForgetNode
  <2> QED
    BY <1>2, <1>5, <2>2, ReportCalm DEF CalmInv, Calm, ForgetNode
<1>6. CASE /\ pc' = "forgetting"
           /\ peers' = ForgetPeers(s)
           /\ UNCHANGED <<status, faults>>
  <2>1. ForgetPeers(s) = Others
    <3>1. \A n \in Others : n \in ForgetPeers(s)
      BY <1>2, <1>3 DEF CalmInv, ForgetPeers, ReadyPods, TypeOK, Others, Nodes
    <3>2. ForgetPeers(s) \subseteq Others
      BY <1>3, NodeRemovalAssumption DEF ForgetPeers, View, Others
    <3> QED
      BY <3>1, <3>2
  <2>2. Others \subseteq knows \/ Others \cap knows = {}
    BY <1>2 DEF CalmInv, ForgetNode
  <2> QED
    BY <1>2, <1>6, <2>1, <2>2 DEF CalmInv, ForgetNode
<1>7. ~OwnsSlots(s)
  BY <1>2 DEF OwnsSlots, Calm
<1> QED
  BY <1>4, <1>5, <1>6, <1>7 DEF ForgetNode

LEMMA ForgetPeerCalm ==
    ASSUME TypeOK, PhaseInv, CalmInv, NEW p \in Nodes, ForgetPeer(p)
    PROVE  PhaseInv' /\ CalmInv'
<1> USE DEF planVars
<1>1. PhaseInv'
  BY ReportFacts DEF ForgetPeer, PhaseInv, Report, EndRun
<1> SUFFICES ASSUME Calm' PROVE CalmInv'
  BY <1>1 DEF CalmInv
<1>2. Calm
  <2>1. faults = 0
    BY ReportCalm DEF ForgetPeer, Calm
  <2> QED
    BY <2>1 DEF Calm, ForgetPeer, Replicated
<1>3. p \in Others /\ pod[p] = "ready"
  BY <1>2 DEF CalmInv, ForgetPeer
<1>4. Answers(p) /\ ~Replicates(p)
  BY <1>2, <1>3 DEF Answers, Replicates, Calm
<1>5. Forget(p) /\ peers' = peers \ {p} /\ UNCHANGED <<status, pc, seed, faults>>
  BY <1>4 DEF ForgetPeer
<1>6. \/ peers' \subseteq knows' /\ Others \ peers' \subseteq banned' \ knows'
      \/ Others \cap knows' = {}
  BY <1>2, <1>3, <1>5 DEF CalmInv, Forget, ForgetPeer
<1>7. status = "forget" /\ pc = "forgetting"
  BY DEF ForgetPeer, PhaseInv
<1> QED
  BY <1>2, <1>5, <1>6, <1>7 DEF CalmInv, ForgetPeer

LEMMA CheckForgottenCalm ==
    ASSUME TypeOK, PhaseInv, CalmInv, CheckForgotten
    PROVE  PhaseInv' /\ CalmInv'
<1> USE DEF planVars, clusterVars
<1>1. PhaseInv'
  BY ReportFacts DEF CheckForgotten, PhaseInv, Report, EndRun
<1> SUFFICES ASSUME Calm' PROVE CalmInv'
  BY <1>1 DEF CalmInv
<1>2. Calm
  <2>1. faults = 0
    BY ReportCalm DEF CheckForgotten, Calm
  <2> QED
    BY <2>1 DEF Calm, CheckForgotten, Replicated
<1>3. Others \cap knows = {} /\ status = "forget"
  BY <1>2 DEF CalmInv, CheckForgotten, PhaseInv
<1>4. pc' = "idle" /\ status' \in {"forget", "delete"}
  BY <1>3, ReportCalm DEF CheckForgotten, EndRun, Calm
<1> QED
  BY <1>2, <1>3, <1>4 DEF CalmInv, CheckForgotten

\* The pod that serves as seed has forgotten the node, and sees every replica.
LEMMA DeleteNodeCalm ==
    ASSUME NoStrangers, TypeOK, PhaseInv, CalmInv, NEW s \in Nodes, DeleteNode(s)
    PROVE  PhaseInv' /\ CalmInv'
<1> USE DEF planVars, clusterVars
<1>1. PhaseInv'
  BY ReportFacts DEF DeleteNode, PhaseInv, Report, EndRun
<1> SUFFICES ASSUME Calm' PROVE CalmInv'
  BY <1>1 DEF CalmInv
<1>2. Calm
  <2>1. faults = 0
    BY ReportCalm DEF DeleteNode, Calm
  <2> QED
    BY <2>1 DEF Calm, DeleteNode, Replicated
<1>3. s \in Others
  BY <1>2
  DEF CalmInv, DeleteNode, OtherReadyPods, ReadyPods, Nodes, NoStrangers, Others
<1>4. Others \subseteq View(s) /\ Target \notin View(s)
  BY <1>2, <1>3, NodeRemovalAssumption
  DEF CalmInv, DeleteNode, View, Others, NoStrangers, TypeOK
<1>5. ~UnreplicatedOwner(s)
  <2> SUFFICES ASSUME NEW o \in owners PROVE HealthyReplicasOf(s, o) # {}
    BY DEF UnreplicatedOwner
  <2>1. PICK n \in Others : master[n] = o
    BY <1>2 DEF Calm, Replicated, Others
  <2>2. n \in View(s) \cap Members /\ n \notin flagged
    BY <1>2, <1>4 DEF CalmInv, Others
  <2> QED
    BY <2>1, <2>2 DEF HealthyReplicasOf
<1>6. pc' = "deleting" /\ UNCHANGED <<status, seed, peers, faults>> /\ status = "delete"
  BY <1>4, <1>5 DEF DeleteNode
<1> QED
  BY <1>2, <1>6 DEF CalmInv, DeleteNode

LEMMA PodIsDeletedCalm ==
    ASSUME TypeOK, PhaseInv, CalmInv, PodAlreadyDeleted \/ DeletePod
    PROVE  PhaseInv' /\ CalmInv'
<1> USE DEF planVars, clusterVars
<1>1. PhaseInv'
  BY ReportFacts DEF PodAlreadyDeleted, DeletePod, PhaseInv, Report, EndRun
<1> SUFFICES ASSUME Calm' PROVE CalmInv'
  BY <1>1 DEF CalmInv
<1>2. Calm
  <2>1. ~(faults < MaxFaults /\ faults' = faults + 1)
    BY DEF Calm, TypeOK
  <2>2. faults = 0
    BY <2>1, ReportCalm DEF PodAlreadyDeleted, DeletePod, Calm
  <2> QED
    BY <2>2 DEF Calm, PodAlreadyDeleted, DeletePod, Replicated
<1>3. status = "delete" /\ pc' = "idle" /\ status' \in {"delete", "Completed"}
  <2>1. ~(faults < MaxFaults /\ faults' = faults + 1)
    BY DEF Calm, TypeOK
  <2> QED
    BY <2>1, ReportCalm DEF PodAlreadyDeleted, DeletePod, PhaseInv, EndRun, Calm
<1> QED
  BY <1>2, <1>3 DEF CalmInv, PodAlreadyDeleted, DeletePod

\* Nobody who answers can tell a node that has forgotten.
LEMMA GossipCalm ==
    ASSUME NoStrangers, TypeOK, PhaseInv, CalmInv, NEW n \in Nodes, NEW p \in Nodes,
           Gossip(n, p)
    PROVE  PhaseInv' /\ CalmInv'
<1> USE DEF planVars, stepVars
<1>1. PhaseInv'
  BY DEF Gossip, PhaseInv
<1> SUFFICES ASSUME Calm' PROVE CalmInv'
  BY <1>1 DEF CalmInv
<1>2. Calm
  BY DEF Calm, Gossip, Replicated
<1>3. Others \cap knows = {} => n \notin Others
  <2> SUFFICES ASSUME Others \cap knows = {}, n \in Others PROVE FALSE
    OBVIOUS
  <2>1. p \in Leftovers \/ p = Target
    BY DEF Gossip, Nodes, NoStrangers, Others
  <2>2. p \notin Leftovers
    BY <1>2 DEF Gossip, Answers, Calm
  <2>3. Target \notin View(n)
    BY NodeRemovalAssumption DEF Gossip, View, NoStrangers, Others
  <2> QED
    BY <2>1, <2>2, <2>3 DEF Gossip
<1>4. Others \cap knows = {} => Others \cap knows' = {}
  BY <1>3 DEF Gossip
<1>5. Others \subseteq knows => Others \subseteq knows'
  BY DEF Gossip
<1>6. peers \subseteq knows /\ Others \ peers \subseteq banned \ knows =>
        peers \subseteq knows' /\ Others \ peers \subseteq banned \ knows'
  BY DEF Gossip
<1> QED
  BY <1>2, <1>4, <1>5, <1>6 DEF CalmInv, Gossip

LEMMA BanExpiresCalm ==
    ASSUME TypeOK, PhaseInv, CalmInv, NEW n \in Nodes, BanExpires(n)
    PROVE  PhaseInv' /\ CalmInv'
<1> USE DEF planVars, stepVars
<1>1. PhaseInv'
  BY DEF BanExpires, PhaseInv
<1> SUFFICES ASSUME Calm' PROVE CalmInv'
  BY <1>1 DEF CalmInv
<1>2. faults = 0 /\ pc # "forgetting"
  BY NodeRemovalAssumption DEF BanExpires, Calm, TypeOK
<1>3. Calm
  BY <1>2 DEF Calm, BanExpires, Replicated
<1> QED
  BY <1>2, <1>3 DEF CalmInv, BanExpires

\* Only the node's own pod may stop without a fault.
LEMMA PodsCalm ==
    ASSUME TypeOK, PhaseInv, CalmInv, NEW n \in Nodes,
           PodFails(n) \/ PodRecovers(n) \/ FlagsFollow(n) \/ Informer(n)
    PROVE  PhaseInv' /\ CalmInv'
<1> USE DEF planVars, stepVars
<1>1. PhaseInv'
  BY NodeRemovalAssumption
  DEF PodFails, PodRecovers, FlagsFollow, Informer, PhaseInv, TypeOK, Seen, Nodes
<1> SUFFICES ASSUME Calm' PROVE CalmInv'
  BY <1>1 DEF CalmInv
<1>2. faults = 0 /\ ~PodFails(n)
  BY NodeRemovalAssumption
  DEF PodFails, PodRecovers, FlagsFollow, Informer, Calm, TypeOK
<1>3. CASE PodRecovers(n)
  <2>1. Calm
    BY <1>2, <1>3 DEF Calm, PodRecovers, Replicated, TypeOK, Nodes
  <2>2. \A m \in Others : pod'[m] = "ready"
    BY <1>3, <2>1 DEF PodRecovers, CalmInv, TypeOK, Others, Nodes
  <2> QED
    BY <1>3, <2>1, <2>2 DEF CalmInv, PodRecovers
<1>4. CASE FlagsFollow(n)
  <2>1. Calm
    BY <1>2, <1>4 DEF Calm, FlagsFollow, Replicated
  <2>2. \A m \in Others : m \notin flagged'
    BY <1>4, <2>1 DEF FlagsFollow, CalmInv, Answers
  <2> QED
    BY <1>4, <2>1, <2>2 DEF CalmInv, FlagsFollow
<1>5. CASE Informer(n)
  <2>1. Calm
    BY <1>2, <1>5 DEF Calm, Informer, Replicated
  <2>2. \A m \in Others : seen'[m] = "ready"
    BY <1>5, <2>1 DEF Informer, CalmInv, TypeOK, Others, Nodes, Seen
  <2>3. \A m \in Leftovers : seen'[m] = "gone"
    BY <1>5, <2>1 DEF Informer, Calm, CalmInv, TypeOK, Nodes, Seen
  <2>4. seen[Target] = "gone" => seen'[Target] = "gone"
    BY <1>5, NodeRemovalAssumption DEF Informer, PhaseInv, TypeOK, Nodes, Seen
  <2> QED
    BY <1>5, <2>1, <2>2, <2>3, <2>4 DEF CalmInv, Informer
<1> QED
  BY <1>2, <1>3, <1>4, <1>5

LEMMA PodStopsCalm ==
    ASSUME TypeOK, PhaseInv, CalmInv, PodStops PROVE PhaseInv' /\ CalmInv'
<1> USE DEF planVars, stepVars
<1>1. \A n \in Nodes : n # Target => pod'[n] = pod[n]
  BY DEF PodStops, TypeOK
<1>2. pod'[Target] = "gone"
  BY NodeRemovalAssumption DEF PodStops, TypeOK, Nodes
<1>3. PhaseInv'
  BY <1>2 DEF PodStops, PhaseInv
<1>4. Calm' => Calm
  BY <1>1, NodeRemovalAssumption DEF Calm, PodStops, Replicated, Nodes
<1> QED
  BY <1>1, <1>3, <1>4 DEF CalmInv, PodStops, Others, Nodes

LEMMA RestartCalm ==
    ASSUME TypeOK, PhaseInv, CalmInv, Restart PROVE PhaseInv' /\ CalmInv'
<1>1. faults' # 0
  BY NodeRemovalAssumption DEF Restart, TypeOK
<1>2. PhaseInv'
  BY NodeRemovalAssumption DEF Restart, EndRun, PhaseInv, TypeOK, Nodes, Seen
<1> QED
  BY <1>1, <1>2 DEF CalmInv, Calm

LEMMA NextCalm ==
    ASSUME NoStrangers, TypeOK, PhaseInv, CalmInv, [Next]_vars PROVE PhaseInv' /\ CalmInv'
<1>1. CASE Environment
  BY <1>1, GossipCalm, BanExpiresCalm, PodsCalm, PodStopsCalm, RestartCalm DEF Environment
<1>2. CASE Step
  BY <1>2, ForgetNodeCalm, DeleteNodeCalm, ForgetPeerCalm, CheckForgottenCalm,
     PodIsDeletedCalm DEF Step, RunGoesOn
<1>3. CASE UNCHANGED vars
  BY <1>3 DEF vars, planVars, clusterVars, stepVars, PhaseInv, CalmInv, Calm, Replicated
<1> QED
  BY <1>1, <1>2, <1>3 DEF Next

\* A removal fails only for a reason that was there when the plan started, however
\* the seeds are chosen and whatever gossip does (the promise FailuresHaveCauses).
THEOREM RemovalsFailForCauses == ASSUME NoStrangers PROVE Spec => []FailuresHaveCauses
<1>1. NoStrangers
  OBVIOUS
<1>2. Init => PhaseInv /\ CalmInv
  BY <1>1, InitCalm
<1>3. TypeOK /\ PhaseInv /\ CalmInv /\ [Next]_vars => (PhaseInv /\ CalmInv)'
  BY <1>1, NextCalm
<1>4. Spec => []TypeOK
  BY <1>1, TypeCorrect
<1>5. TypeOK /\ CalmInv => FailuresHaveCauses
  <2> SUFFICES ASSUME TypeOK, CalmInv, status = "Failed", faults = 0
               PROVE  ~Calm \/ (~byId /\ seen[Target] = "gone")
    BY NodeRemovalAssumption DEF FailuresHaveCauses, Calm, Replicated, TypeOK
  <2> QED
    BY DEF CalmInv
<1> QED
  BY <1>2, <1>3, <1>4, <1>5, PTL DEF Spec
=============================================================================
