------------------------ MODULE ClusterFormationProofs ------------------------
(***************************************************************************)
(* Proofs about the steps that make a cluster, for any nodes, slots, plans *)
(* and faults.                                                             *)
(*                                                                         *)
(* AddSlots knows the replicas of a master by gossip.  The invariant says  *)
(* what gossip tells of a replica, and that it stays true: the replica     *)
(* knew its master when it was heard, and what is known is not dropped.    *)
(* ViewsInv says the same of the tables that VerifyCluster has read, and   *)
(* CalmInv what is so as long as there is no fault.                        *)
(***************************************************************************)
EXTENDS ClusterFormation, FiniteSetTheorems, TLAPS

\* No plan gives a node two masters.  Validator and executor accept one that does,
\* and then an owner may lose its replica.
OneMaster ==
    \A p \in Plans : \A i, j \in DOMAIN p :
        /\ p[i].action = "ReplicateNode"
        /\ p[j].action = "ReplicateNode"
        /\ p[i].replica = p[j].replica
        => p[i].master = p[j].master

PlannedReplicas(p, m) ==
    {r \in Nodes : \E i \in DOMAIN p :
        p[i].action = "ReplicateNode" /\ p[i].replica = r /\ p[i].master = m}

PlannedOwners(p) ==
    {m \in Nodes : \E i \in DOMAIN p :
        p[i].action = "AddSlots" /\ p[i].node = m /\ p[i].slots # {}}

\* What buildCreatePlan makes for every cluster: a replica has one master and gets
\* no slots, each owner has its replicas and all is verified at the end.
CarefulPlans ==
    /\ OneMaster
    /\ \A p \in Plans :
         /\ \A m \in PlannedOwners(p) : Cardinality(PlannedReplicas(p, m)) = ReplicasPerShard
         /\ Cardinality(PlannedOwners(p)) = Shards
         /\ \A i, j \in DOMAIN p :
              p[i].action = "ReplicateNode" /\ p[j].action = "AddSlots"
                => p[i].replica # p[j].node
         /\ \A i \in DOMAIN p : p[i].action = "VerifyCluster" => i = Len(p)

\* The replica will keep to m: a handshake does not time out after its end.
Supported(m) == \E r \in Nodes \ {m} : Follows(r, m) /\ link[r][m] = "known"

FollowsInv ==
    \A r \in Nodes : view[r][r].follows # NoNode =>
        \E i \in DOMAIN plan :
            /\ plan[i].action = "ReplicateNode"
            /\ plan[i].replica = r
            /\ plan[i].master = view[r][r].follows

HeardInv ==
    \A n, r \in Nodes : n # r /\ view[n][r].follows # NoNode =>
        /\ view[r][r].follows = view[n][r].follows
        /\ link[r][view[n][r].follows] = "known"

SlotsInv == \A m \in Nodes : view[m][m].slots # {} => Supported(m)

AddInv == pc = "add" => Step.action = "AddSlots" /\ Supported(Step.node)

IInv ==
    /\ TypeOK
    /\ FollowsInv
    /\ HeardInv
    /\ SlotsInv
    /\ AddInv

\* What n's table said when it was read is still true of it.
Observed(n, read) ==
    /\ n \in DOMAIN read
    /\ \A m \in DOMAIN read :
         /\ read[m].link \in {"handshake", "known"}
         /\ read[m].link = "known" => link[n][m] = "known"
         /\ m # n => /\ read[m].slots \subseteq view[n][m].slots
                     /\ read[m].follows # NoNode => view[n][m].follows = read[m].follows
    /\ view[n][n].slots = read[n].slots
    /\ view[n][n].follows \in {read[n].follows, NoNode}
    /\ read[n].follows # NoNode =>
         /\ read[n].follows \in DOMAIN read
         /\ read[read[n].follows].link = "known" =>
              view[n][n].follows = read[n].follows

Agreed(read) ==
    /\ \A n \in DOMAIN read : Observed(n, read[n])
    /\ \A n, m \in DOMAIN read : read[n] = read[m]

OwnLinksInv == \A n \in Nodes : link[n][n] = "known"

MastersInv ==
    \A r \in Nodes : view[r][r].follows # NoNode => link[r][view[r][r].follows] # "none"

HeardSlotsInv == \A n, m \in Nodes : view[n][m].slots \subseteq view[m][m].slots

OwnSlotsInv ==
    \A m \in Nodes : \A s \in view[m][m].slots :
        \E i \in DOMAIN plan :
            plan[i].action = "AddSlots" /\ plan[i].node = m /\ s \in plan[i].slots

ToAddInv == pc = "add" => toAdd \subseteq Step.slots

ObserveInv == pc = "observe" => Step.action = "VerifyCluster" /\ Agreed(views)

VerifiedInv ==
    status = "Completed" /\ Step.action = "VerifyCluster" =>
        /\ Agreed(noted)
        /\ DOMAIN noted # {}
        /\ \A n \in DOMAIN noted : "Converged" \in Classify(noted[n])

ViewsInv ==
    /\ OwnLinksInv
    /\ MastersInv
    /\ HeardSlotsInv
    /\ OwnSlotsInv
    /\ ToAddInv
    /\ ObserveInv
    /\ VerifiedInv

\* The steps before the current one have given the replicas their masters.
ReplicatedInv ==
    \A i \in 1 .. (cur - 1) :
        plan[i].action = "ReplicateNode" => Follows(plan[i].replica, plan[i].master)

\* Without a fault, VerifyCluster reads the tables of all nodes, which own all slots.
CalmObserveInv ==
    pc = "observe" =>
        /\ listed \cup DOMAIN views = Nodes
        /\ \A s \in Slots : \E m \in Nodes : s \in view[m][m].slots
        /\ \A n \in DOMAIN views : \A m \in DOMAIN views[n] :
             views[n][m].connected /\ ~views[n][m].fails

CalmInv ==
    faults = 0 =>
        /\ \A n \in Nodes : pod[n] = "ready"
        /\ flagged = {}
        /\ ReplicatedInv
        /\ CalmObserveInv
        /\ status # "Superseded"
        /\ status = "Failed" => late \/ Step.action = "ReplicateNode"

-----------------------------------------------------------------------------
(***************************************************************************)
(* Types.                                                                  *)
(***************************************************************************)
RunTypes ==
    /\ plan \in Plans
    /\ cur \in DOMAIN plan
    /\ status \in {"Running", "Completed", "Failed", "Superseded"}
    /\ pc \in {"idle", "meet", "met", "replicate", "replicated", "add", "added", "observe"}
    /\ temporary \in BOOLEAN
    /\ toAdd \subseteq Slots
    /\ listed \subseteq Nodes
    /\ IsViews(views)
    /\ faults \in 0 .. MaxFaults

RedisTypes ==
    /\ link \in [Nodes -> [Nodes -> {"none", "handshake", "known"}]]
    /\ view \in [Nodes -> [Nodes -> Claims]]

PodTypes ==
    /\ pod \in [Nodes -> {"ready", "unready", "down"}]
    /\ flagged \subseteq Nodes

VerifyTypes ==
    /\ started \in BOOLEAN /\ late \in BOOLEAN /\ expired \in BOOLEAN
    /\ IsViews(noted)

LEMMA TypeParts == TypeOK <=> RunTypes /\ RedisTypes /\ PodTypes /\ VerifyTypes
BY DEF TypeOK, RunTypes, RedisTypes, PodTypes, VerifyTypes

LEMMA PlanTypes ==
    ASSUME NEW p \in Plans
    PROVE  /\ Len(p) \in Nat \ {0}
           /\ DOMAIN p = 1 .. Len(p)
           /\ \A i \in DOMAIN p : p[i] \in PlanSteps
BY ClusterFormationAssumption

LEMMA StepTypes ==
    ASSUME RunTypes
    PROVE  /\ Step.action = "MeetNode" => Step.source \in Nodes /\ Step.target \in Nodes
           /\ Step.action = "ReplicateNode" =>
                Step.master \in Nodes /\ Step.replica \in Nodes /\ Step.master # Step.replica
           /\ Step.action = "AddSlots" => Step.node \in Nodes /\ Step.slots \subseteq Slots
<1>1. Step \in PlanSteps
  BY PlanTypes DEF RunTypes, Step
<1>2. Step.action = "ReplicateNode" => Step.master # Step.replica
  BY ClusterFormationAssumption DEF RunTypes, Step
<1> QED
  BY <1>1, <1>2 DEF PlanSteps

LEMMA NothingIsViews == IsViews(Nothing)
BY DEF IsViews, Nothing

\* How a run ends or goes on.
LEMMA EndRunTypes ==
    ASSUME EndRun
    PROVE  /\ pc' = "idle" /\ temporary' \in BOOLEAN /\ toAdd' \subseteq Slots
           /\ listed' \subseteq Nodes /\ IsViews(views')
BY NothingIsViews DEF EndRun

LEMMA RecordTypes ==
    ASSUME RunTypes, NEW outcome \in {"Completed", "Failed", "Superseded"},
           Record(outcome)
    PROVE  /\ plan' = plan
           /\ cur' \in DOMAIN plan
           /\ status' \in {"Running", "Completed", "Failed", "Superseded"}
BY PlanTypes DEF RunTypes, Record

LEMMA FaultTypes ==
    ASSUME RunTypes, Fault \/ UNCHANGED faults PROVE faults' \in 0 .. MaxFaults
BY ClusterFormationAssumption DEF RunTypes, Fault

LEMMA ReportKeeps ==
    ASSUME RunTypes, NEW outcome \in {"Completed", "Failed", "Superseded"},
           Report(outcome)
    PROVE  RunTypes' /\ plan' = plan /\ pc' = "idle"
BY EndRunTypes, RecordTypes, FaultTypes DEF Report, RunTypes, planVars

LEMMA RunningKeeps ==
    ASSUME RunTypes, Running PROVE RunTypes' /\ plan' = plan /\ pc' = "idle"
BY EndRunTypes DEF Running, RunTypes, planVars

LEMMA GoOnKeeps ==
    ASSUME RunTypes, NEW left \in SUBSET Slots,
           NEW next \in {"meet", "met", "replicated", "add", "added"}, GoOn(next, left)
    PROVE  /\ RunTypes' /\ plan' = plan
           /\ pc' = "idle" \/ (pc' = next /\ cur' = cur)
<1>1. CASE UNCHANGED <<temporary, listed, views, planVars, faults>>
              /\ pc' = next /\ toAdd' = left
  BY <1>1 DEF RunTypes, planVars
<1>2. CASE Fault /\ EndRun /\ Record("Failed")
  BY <1>2, EndRunTypes, RecordTypes, FaultTypes DEF RunTypes
<1> QED
  BY <1>1, <1>2 DEF GoOn

-----------------------------------------------------------------------------
(***************************************************************************)
(* How one entry of a table changes.                                       *)
(***************************************************************************)
LEMMA FollowsChanges ==
    ASSUME RedisTypes, NEW r \in Nodes, NEW m \in Nodes \cup {NoNode},
           view' = [view EXCEPT ![r][r].follows = m]
    PROVE  /\ view' \in [Nodes -> [Nodes -> Claims]]
           /\ (view[r][r])' = [follows |-> m, slots |-> view[r][r].slots]
           /\ \A i, j \in Nodes : i # r \/ j # r => (view[i][j])' = view[i][j]
<1> DEFINE c == [follows |-> m, slots |-> view[r][r].slots]
<1>1. r \in Nodes /\ view \in [Nodes -> [Nodes -> Claims]] /\ view[r][r] \in Claims
  BY DEF RedisTypes
<1>2. c \in Claims /\ [view[r][r] EXCEPT !.follows = m] = c
  BY <1>1 DEF Claims
<1>3. view' = [view EXCEPT ![r] = [view[r] EXCEPT ![r] = c]]
  BY <1>2
<1> HIDE DEF c
<1>4. /\ view' \in [Nodes -> [Nodes -> Claims]]
      /\ view'[r][r] = c
      /\ \A i, j \in Nodes : i # r \/ j # r => view'[i][j] = view[i][j]
  BY ONLY <1>1, <1>2, <1>3
<1> QED
  BY <1>4 DEF c

LEMMA SlotsChange ==
    ASSUME RedisTypes, NEW n \in Nodes, NEW batch \in SUBSET Slots,
           view' = [view EXCEPT ![n][n].slots = @ \cup batch]
    PROVE  /\ view' \in [Nodes -> [Nodes -> Claims]]
           /\ (view[n][n])' = [follows |-> view[n][n].follows,
                              slots |-> view[n][n].slots \cup batch]
           /\ \A i, j \in Nodes : i # n \/ j # n => (view[i][j])' = view[i][j]
<1> DEFINE q == view[n][n].slots \cup batch
           c == [follows |-> view[n][n].follows, slots |-> q]
<1>1. n \in Nodes /\ view \in [Nodes -> [Nodes -> Claims]] /\ view[n][n] \in Claims
  BY DEF RedisTypes
<1>2. q \in SUBSET Slots
  BY <1>1 DEF Claims
<1>3. view' = [view EXCEPT ![n][n].slots = q]
  OBVIOUS
<1> HIDE DEF q
<1>4. c \in Claims /\ [view[n][n] EXCEPT !.slots = q] = c
  BY <1>1, <1>2 DEF Claims
<1>5. view' = [view EXCEPT ![n] = [view[n] EXCEPT ![n] = c]]
  BY <1>3, <1>4
<1> HIDE DEF c
<1>6. /\ view' \in [Nodes -> [Nodes -> Claims]]
      /\ view'[n][n] = c
      /\ \A i, j \in Nodes : i # n \/ j # n => view'[i][j] = view[i][j]
  BY ONLY <1>1, <1>4, <1>5
<1> QED
  BY <1>6 DEF c, q

ViewBecomes(n, m, c) == view' = [view EXCEPT ![n][m] = c]

LEMMA ViewChanges ==
    ASSUME RedisTypes, NEW n \in Nodes, NEW m \in Nodes, NEW c \in Claims,
           ViewBecomes(n, m, c)
    PROVE  /\ view' \in [Nodes -> [Nodes -> Claims]]
           /\ (view[n][m])' = c
           /\ \A i, j \in Nodes : i # n \/ j # m => (view[i][j])' = view[i][j]
<1>1. view \in [Nodes -> [Nodes -> Claims]]
  BY DEF RedisTypes
<1>2. view' = [view EXCEPT ![n] = [view[n] EXCEPT ![m] = c]]
  BY DEF ViewBecomes
<1>3. /\ view' \in [Nodes -> [Nodes -> Claims]]
      /\ view'[n][m] = c
      /\ \A i, j \in Nodes : i # n \/ j # m => view'[i][j] = view[i][j]
  BY <1>1, <1>2
<1> QED
  BY <1>3

LinkStates == {"none", "handshake", "known"}

LinkBecomes(n, m, e) == link' = [link EXCEPT ![n][m] = e]

LEMMA LinkChanges ==
    ASSUME RedisTypes, NEW n \in Nodes, NEW m \in Nodes,
           NEW e \in LinkStates, LinkBecomes(n, m, e)
    PROVE  /\ link' \in [Nodes -> [Nodes -> LinkStates]]
           /\ (link[n][m])' = e
           /\ \A i, j \in Nodes : i # n \/ j # m => (link[i][j])' = link[i][j]
<1>1. link \in [Nodes -> [Nodes -> LinkStates]]
  BY DEF RedisTypes, LinkStates
<1>2. link' = [link EXCEPT ![n] = [link[n] EXCEPT ![m] = e]]
  BY DEF LinkBecomes
<1>3. /\ link' \in [Nodes -> [Nodes -> LinkStates]]
      /\ link'[n][m] = e
      /\ \A i, j \in Nodes : i # n \/ j # m => link'[i][j] = link[i][j]
  BY <1>1, <1>2
<1> QED
  BY <1>3

-----------------------------------------------------------------------------
(***************************************************************************)
(* What every step of the model keeps of the nodes' tables.                *)
(***************************************************************************)
LinksStay == \A n, m \in Nodes : link[n][m] = "known" => (link[n][m])' = "known"

FollowersStay ==
    \A r \in Nodes :
        view[r][r].follows # NoNode /\ link[r][view[r][r].follows] = "known" =>
            (view[r][r].follows)' = view[r][r].follows

\* Only Hear changes what a node knows of another.
OthersStay ==
    \A n, r \in Nodes : n # r => (view[n][r])' = view[n][r]

SlotsStay == \A n \in Nodes : (view[n][n].slots)' = view[n][n].slots

LEMMA RedisUnchanged ==
    ASSUME UNCHANGED redisVars
    PROVE  LinksStay /\ FollowersStay /\ OthersStay /\ SlotsStay
BY DEF redisVars, LinksStay, FollowersStay, OthersStay, SlotsStay

LEMMA SupportStays ==
    ASSUME LinksStay, FollowersStay, NEW m \in Nodes, Supported(m)
    PROVE  Supported(m)'
<1>1. PICK r \in Nodes \ {m} : Follows(r, m) /\ link[r][m] = "known"
  BY DEF Supported
<1>2. m # NoNode
  BY ClusterFormationAssumption
<1>3. Follows(r, m)' /\ (link[r][m])' = "known"
  BY <1>1, <1>2 DEF Follows, LinksStay, FollowersStay
<1> QED
  BY <1>3 DEF Supported, Follows

LEMMA HeardStays ==
    ASSUME RedisTypes, HeardInv, LinksStay, FollowersStay, OthersStay PROVE HeardInv'
<1> SUFFICES ASSUME NEW n \in Nodes, NEW r \in Nodes, n # r,
                    (view[n][r].follows)' # NoNode
             PROVE  /\ (view[r][r].follows)' = (view[n][r].follows)'
                    /\ (link[r][view[n][r].follows])' = "known"
  BY DEF HeardInv
<1>1. (view[n][r].follows)' = view[n][r].follows /\ view[n][r].follows \in Nodes
  BY DEF OthersStay, RedisTypes, Claims
<1>2. view[r][r].follows = view[n][r].follows /\ link[r][view[n][r].follows] = "known"
  BY <1>1, ClusterFormationAssumption DEF HeardInv
<1>3. (view[r][r].follows)' = view[r][r].follows
  BY <1>1, <1>2 DEF FollowersStay
<1>4. (link[r][view[n][r].follows])' = "known"
  BY <1>1, <1>2 DEF LinksStay
<1> QED
  BY <1>1, <1>2, <1>3, <1>4

LEMMA SlotsInvStays ==
    ASSUME SlotsInv, LinksStay, FollowersStay, SlotsStay PROVE SlotsInv'
<1> SUFFICES ASSUME NEW m \in Nodes, (view[m][m].slots)' # {} PROVE Supported(m)'
  BY DEF SlotsInv
<1>1. Supported(m)
  BY DEF SlotsInv, SlotsStay
<1> QED
  BY <1>1, SupportStays

LEMMA AddInvStays ==
    ASSUME RunTypes, AddInv, LinksStay, FollowersStay, plan' = plan,
           pc' = "add" => pc = "add" /\ cur' = cur
    PROVE  AddInv'
<1> SUFFICES ASSUME pc' = "add" PROVE (Step.action = "AddSlots" /\ Supported(Step.node))'
  BY DEF AddInv
<1>1. Step' = Step /\ Step.action = "AddSlots" /\ Supported(Step.node)
  BY DEF AddInv, Step
<1>2. Step.node \in Nodes
  BY <1>1, StepTypes
<1>3. Supported(Step.node)'
  BY <1>1, <1>2, SupportStays
<1> QED
  BY <1>1, <1>3

LEMMA FollowsInvStays ==
    ASSUME FollowsInv, plan' = plan,
           \A r \in Nodes : (view[r][r].follows)' \in {view[r][r].follows, NoNode}
    PROVE  FollowsInv'
BY DEF FollowsInv

\* A step that leaves the tables alone.
LEMMA QuietStep ==
    ASSUME IInv, UNCHANGED redisVars, plan' = plan, RunTypes', PodTypes', VerifyTypes',
           pc' = "add" => pc = "add" /\ cur' = cur
    PROVE  IInv'
<1>1. RunTypes /\ RedisTypes
  BY TypeParts DEF IInv
<1>2. LinksStay /\ FollowersStay /\ OthersStay /\ SlotsStay
  BY RedisUnchanged
<1>3. TypeOK'
  <2>1. RedisTypes'
    BY <1>1 DEF RedisTypes, redisVars
  <2> QED
    BY <2>1 DEF TypeOK, RunTypes, RedisTypes, PodTypes, VerifyTypes
<1>4. FollowsInv'
  BY FollowsInvStays DEF IInv, redisVars
<1>5. HeardInv'
  BY <1>1, <1>2, HeardStays DEF IInv
<1>6. SlotsInv'
  BY <1>2, SlotsInvStays DEF IInv
<1>7. AddInv'
  BY <1>1, <1>2, AddInvStays DEF IInv
<1> QED
  BY <1>3, <1>4, <1>5, <1>6, <1>7 DEF IInv

-----------------------------------------------------------------------------
(***************************************************************************)
(* The steps.                                                              *)
(***************************************************************************)
LEMMA MeetNodeKeeps == ASSUME IInv, MeetNode PROVE IInv'
<1>1. RunTypes /\ PodTypes /\ VerifyTypes
  BY TypeParts DEF IInv
<1>2. RunTypes' /\ plan' = plan /\ pc' # "add"
  BY <1>1, ReportKeeps, GoOnKeeps DEF MeetNode
<1>3. PodTypes' /\ VerifyTypes'
  BY <1>1 DEF MeetNode, PodTypes, VerifyTypes, podVars, verifyVars, timeVars
<1> QED
  BY <1>2, <1>3, QuietStep DEF MeetNode

LEMMA CheckMetKeeps == ASSUME IInv, CheckMet PROVE IInv'
<1>1. RunTypes /\ PodTypes /\ VerifyTypes
  BY TypeParts DEF IInv
<1>2. RunTypes' /\ plan' = plan /\ pc' # "add"
  BY <1>1, ReportKeeps, RunningKeeps DEF CheckMet
<1>3. PodTypes' /\ VerifyTypes'
  BY <1>1 DEF CheckMet, PodTypes, VerifyTypes, podVars, verifyVars, timeVars
<1> QED
  BY <1>2, <1>3, QuietStep DEF CheckMet

LEMMA ClusterMeetKeeps == ASSUME IInv, ClusterMeet PROVE IInv'
<1>1. RunTypes /\ RedisTypes /\ PodTypes /\ VerifyTypes
  BY TypeParts DEF IInv
<1>2. Step.source \in Nodes /\ Step.target \in Nodes
  BY <1>1, StepTypes DEF ClusterMeet, At
<1>3. RunTypes' /\ plan' = plan /\ pc' # "add"
  BY <1>1, ReportKeeps, GoOnKeeps DEF ClusterMeet
<1>4. PodTypes' /\ VerifyTypes'
  BY <1>1 DEF ClusterMeet, PodTypes, VerifyTypes, podVars, verifyVars, timeVars
<1>5. RedisTypes' /\ LinksStay /\ view' = view
  <2>1. CASE UNCHANGED link
    BY <1>1, <2>1 DEF ClusterMeet, RedisTypes, LinksStay
  <2>2. CASE link' = [link EXCEPT ![Step.source][Step.target] =
                          IF @ = "none" THEN "handshake" ELSE @]
    <3>1. PICK n \in Nodes, m \in Nodes : n = Step.source /\ m = Step.target
      BY <1>2
    <3>2. PICK e \in LinkStates :
             e = IF link[n][m] = "none" THEN "handshake" ELSE link[n][m]
      BY <1>1 DEF RedisTypes, LinkStates
    <3>3. LinkBecomes(n, m, e)
      BY <2>2, <3>1, <3>2 DEF LinkBecomes
    <3>4. /\ link' \in [Nodes -> [Nodes -> LinkStates]]
          /\ (link[n][m])' = e
          /\ \A i, j \in Nodes : i # n \/ j # m => (link[i][j])' = link[i][j]
      BY <1>1, <3>3, LinkChanges
    <3>5. view' = view
      BY DEF ClusterMeet
    <3>6. LinksStay
      BY <3>2, <3>4 DEF LinksStay
    <3> QED
      BY <1>1, <3>4, <3>5, <3>6 DEF RedisTypes, LinkStates
  <2> QED
    BY <2>1, <2>2 DEF ClusterMeet
<1>6. FollowersStay /\ OthersStay /\ SlotsStay
  BY <1>5 DEF FollowersStay, OthersStay, SlotsStay
<1>7. TypeOK'
  BY <1>3, <1>4, <1>5 DEF TypeOK, RunTypes, RedisTypes, PodTypes, VerifyTypes
<1>8. FollowsInv'
  BY <1>3, <1>5, FollowsInvStays DEF IInv
<1>9. HeardInv' /\ SlotsInv' /\ AddInv'
  BY <1>1, <1>3, <1>5, <1>6, HeardStays, SlotsInvStays, AddInvStays DEF IInv
<1> QED
  BY <1>7, <1>8, <1>9 DEF IInv

LEMMA ReplicateNodeKeeps == ASSUME IInv, ReplicateNode PROVE IInv'
<1>1. RunTypes /\ PodTypes /\ VerifyTypes
  BY TypeParts DEF IInv
<1>2. RunTypes' /\ plan' = plan /\ pc' # "add"
  <2>1. CASE \E outcome \in {"Completed", "Failed"} : Report(outcome)
    BY <1>1, <2>1, ReportKeeps
  <2>2. CASE /\ pc' = "replicate" /\ temporary' \in BOOLEAN
             /\ UNCHANGED <<toAdd, listed, views, planVars, faults>>
    BY <1>1, <2>2 DEF RunTypes, planVars
  <2> QED
    BY <2>1, <2>2 DEF ReplicateNode
<1>3. PodTypes' /\ VerifyTypes'
  BY <1>1 DEF ReplicateNode, PodTypes, VerifyTypes, podVars, verifyVars, timeVars
<1> QED
  BY <1>2, <1>3, QuietStep DEF ReplicateNode

LEMMA CheckReplicatedKeeps == ASSUME IInv, CheckReplicated PROVE IInv'
<1>1. RunTypes /\ PodTypes /\ VerifyTypes
  BY TypeParts DEF IInv
<1>2. RunTypes' /\ plan' = plan /\ pc' # "add"
  BY <1>1, ReportKeeps, RunningKeeps DEF CheckReplicated
<1>3. PodTypes' /\ VerifyTypes'
  BY <1>1 DEF CheckReplicated, PodTypes, VerifyTypes, podVars, verifyVars, timeVars
<1> QED
  BY <1>2, <1>3, QuietStep DEF CheckReplicated

\* The replica keeps its master, since no other step of the plan gives it one.
LEMMA ClusterReplicateKeeps == ASSUME OneMaster, IInv, ClusterReplicate PROVE IInv'
<1>1. RunTypes /\ RedisTypes /\ PodTypes /\ VerifyTypes
  BY TypeParts DEF IInv
<1>2. Step.action = "ReplicateNode" /\ Step.master \in Nodes /\ Step.replica \in Nodes
  BY <1>1, StepTypes DEF ClusterReplicate, At
<1>3. RunTypes' /\ plan' = plan /\ pc' # "add"
  BY <1>1, ReportKeeps, GoOnKeeps DEF ClusterReplicate
<1>4. PodTypes' /\ VerifyTypes'
  BY <1>1 DEF ClusterReplicate, PodTypes, VerifyTypes, podVars, verifyVars, timeVars
<1>5. CASE UNCHANGED view
  BY <1>3, <1>4, <1>5, QuietStep DEF ClusterReplicate, redisVars
<1>6. CASE view' = [view EXCEPT ![Step.replica][Step.replica].follows = Step.master]
  <2>1. PICK r \in Nodes, m \in Nodes : r = Step.replica /\ m = Step.master
    BY <1>2
  <2>2. /\ view' \in [Nodes -> [Nodes -> Claims]]
        /\ (view[r][r])' = [follows |-> m, slots |-> view[r][r].slots]
        /\ \A i, j \in Nodes : i # r \/ j # r => (view[i][j])' = view[i][j]
    <3>1. view' = [view EXCEPT ![r][r].follows = m]
      BY <1>6, <2>1
    <3> QED
      BY ONLY <1>1, <3>1, FollowsChanges, Zenon
  <2>3. link' = link /\ RedisTypes'
    BY <1>1, <2>2 DEF ClusterReplicate, RedisTypes
  <2>4. \E i \in DOMAIN plan : /\ plan[i].action = "ReplicateNode"
                              /\ plan[i].replica = r
                              /\ plan[i].master = m
    BY <1>1, <1>2, <2>1 DEF RunTypes, Step
  <2>5. view[r][r].follows \in {NoNode, m}
    BY <1>1, <2>4 DEF IInv, FollowsInv, OneMaster, RunTypes
  <2>6. LinksStay /\ FollowersStay
    BY <2>2, <2>3, <2>5 DEF LinksStay, FollowersStay
  <2>7. OthersStay /\ SlotsStay
    BY <2>2 DEF OthersStay, SlotsStay
  <2>8. FollowsInv'
    BY <1>3, <2>2, <2>4 DEF IInv, FollowsInv
  <2>9. HeardInv' /\ SlotsInv' /\ AddInv'
    BY <1>1, <1>3, <2>6, <2>7, HeardStays, SlotsInvStays, AddInvStays DEF IInv
  <2>10. TypeOK'
    BY <1>3, <1>4, <2>3 DEF TypeOK, RunTypes, RedisTypes, PodTypes, VerifyTypes
  <2> QED
    BY <2>8, <2>9, <2>10 DEF IInv
<1> QED
  BY <1>5, <1>6 DEF ClusterReplicate

\* What the node has heard of a replica is true of it.
LEMMA HealthyReplicaSupports ==
    ASSUME HeardInv, NEW n \in Nodes, MasterHasHealthyReplica(n) PROVE Supported(n)
<1>1. n # NoNode
  BY ClusterFormationAssumption
<1> QED
  BY <1>1 DEF MasterHasHealthyReplica, Supported, Follows, HeardInv

LEMMA AddSlotsKeeps == ASSUME IInv, AddSlots PROVE IInv'
<1>1. RunTypes /\ RedisTypes /\ PodTypes /\ VerifyTypes
  BY TypeParts DEF IInv
<1>2. Step.action = "AddSlots" /\ Step.node \in Nodes /\ Step.slots \subseteq Slots
  BY <1>1, StepTypes DEF AddSlots, At
<1>3. PodTypes' /\ VerifyTypes'
  BY <1>1 DEF AddSlots, PodTypes, VerifyTypes, podVars, verifyVars, timeVars
<1>4. UNCHANGED redisVars
  BY DEF AddSlots
<1>5. CASE \E outcome \in {"Completed", "Failed"} : Report(outcome)
  <2>1. RunTypes' /\ plan' = plan /\ pc' = "idle"
    BY <1>1, <1>5, ReportKeeps
  <2> QED
    BY <1>3, <1>4, <2>1, QuietStep
<1>6. CASE /\ MasterHasHealthyReplica(Step.node)
           /\ GoOn("add", Step.slots \ view[Step.node][Step.node].slots)
  <2>1. RunTypes' /\ plan' = plan /\ (pc' = "idle" \/ (pc' = "add" /\ cur' = cur))
    BY <1>1, <1>2, <1>6, GoOnKeeps
  <2>2. Supported(Step.node)
    BY <1>2, <1>6, HealthyReplicaSupports DEF IInv
  <2>3. LinksStay /\ FollowersStay /\ OthersStay /\ SlotsStay
    BY <1>4, RedisUnchanged
  <2>4. Supported(Step.node) /\ Step' = Step => Supported(Step.node)'
    BY <1>2, <2>3, SupportStays
  <2>5. AddInv'
    <3>1. pc' = "add" => Step' = Step
      BY <2>1 DEF Step
    <3> QED
      BY <1>2, <2>1, <2>2, <2>4, <3>1 DEF AddInv
  <2>6. FollowsInv' /\ HeardInv' /\ SlotsInv'
    BY <1>1, <1>4, <2>1, <2>3, FollowsInvStays, HeardStays, SlotsInvStays
    DEF IInv, redisVars
  <2>7. TypeOK'
    BY <1>1, <1>3, <1>4, <2>1
    DEF TypeOK, RunTypes, RedisTypes, PodTypes, VerifyTypes, redisVars
  <2> QED
    BY <2>5, <2>6, <2>7 DEF IInv
<1> QED
  BY <1>5, <1>6 DEF AddSlots

\* A step of which the tables keep what the others rest on.
LEMMA TablesStep ==
    ASSUME IInv, RunTypes', RedisTypes', PodTypes', VerifyTypes', plan' = plan,
           LinksStay, FollowersStay, FollowsInv', HeardInv', SlotsInv',
           pc' = "add" => pc = "add" /\ cur' = cur
    PROVE  IInv'
<1>1. RunTypes
  BY TypeParts DEF IInv
<1>2. AddInv'
  BY <1>1, AddInvStays DEF IInv
<1>3. TypeOK'
  BY DEF TypeOK, RunTypes, RedisTypes, PodTypes, VerifyTypes
<1> QED
  BY <1>2, <1>3 DEF IInv

\* The node has had a replica since the run read its table.
LEMMA AddBatchKeeps ==
    ASSUME IInv, NEW batch \in SUBSET Slots, AddBatch(batch) PROVE IInv'
<1>1. RunTypes /\ RedisTypes /\ PodTypes /\ VerifyTypes
  BY TypeParts DEF IInv
<1>2. Step.node \in Nodes /\ pc = "add"
  BY <1>1, StepTypes DEF AddBatch, At
<1>3. toAdd \ batch \in SUBSET Slots
  BY <1>1 DEF RunTypes
<1>4. PodTypes' /\ VerifyTypes'
  BY <1>1 DEF AddBatch, PodTypes, VerifyTypes, podVars, verifyVars, timeVars
<1>5. CASE Report("Failed") /\ UNCHANGED view
  <2>1. RunTypes' /\ plan' = plan /\ pc' = "idle"
    BY <1>1, <1>5, ReportKeeps
  <2> QED
    BY <1>4, <1>5, <2>1, QuietStep DEF AddBatch, redisVars
<1>6. CASE /\ view' = [view EXCEPT ![Step.node][Step.node].slots = @ \cup batch]
           /\ GoOn(IF batch = toAdd THEN "added" ELSE "add", toAdd \ batch)
  <2>1. RunTypes' /\ plan' = plan /\ (pc' = "add" => cur' = cur)
    BY <1>1, <1>3, <1>6, GoOnKeeps
  <2>2. PICK n \in Nodes : n = Step.node
    BY <1>2
  <2>3. /\ view' \in [Nodes -> [Nodes -> Claims]]
        /\ (view[n][n])' = [follows |-> view[n][n].follows,
                           slots |-> view[n][n].slots \cup batch]
        /\ \A i, j \in Nodes : i # n \/ j # n => (view[i][j])' = view[i][j]
    <3>1. view' = [view EXCEPT ![n][n].slots = @ \cup batch]
      BY <1>6, <2>2
    <3> QED
      BY ONLY <1>1, <3>1, SlotsChange, Zenon
  <2>4. link' = link /\ RedisTypes'
    BY <1>1, <2>3 DEF AddBatch, RedisTypes
  <2>5. LinksStay /\ FollowersStay /\ OthersStay
    BY <2>3, <2>4 DEF LinksStay, FollowersStay, OthersStay
  <2>6. FollowsInv'
    BY <2>1, <2>3, FollowsInvStays DEF IInv
  <2>7. HeardInv'
    BY <1>1, <2>5, HeardStays DEF IInv
  <2>8. SlotsInv'
    <3> SUFFICES ASSUME NEW m \in Nodes, (view[m][m].slots)' # {} PROVE Supported(m)'
      BY DEF SlotsInv
    <3>1. Supported(m)
      BY <1>2, <2>2, <2>3 DEF IInv, SlotsInv, AddInv
    <3> QED
      BY <2>5, <3>1, SupportStays
  <2> QED
    BY <1>2, <1>4, <2>1, <2>4, <2>5, <2>6, <2>7, <2>8, TablesStep
<1> QED
  BY <1>5, <1>6 DEF AddBatch

LEMMA CheckAddedKeeps == ASSUME IInv, CheckAdded PROVE IInv'
<1>1. RunTypes /\ PodTypes /\ VerifyTypes
  BY TypeParts DEF IInv
<1>2. RunTypes' /\ plan' = plan /\ pc' # "add"
  BY <1>1, ReportKeeps, RunningKeeps DEF CheckAdded
<1>3. PodTypes' /\ VerifyTypes'
  BY <1>1 DEF CheckAdded, PodTypes, VerifyTypes, podVars, verifyVars, timeVars
<1> QED
  BY <1>2, <1>3, QuietStep DEF CheckAdded

\* What an observation is made of.
LEMMA EntriesTypes ==
    ASSUME RedisTypes, NEW n \in Nodes
    PROVE  DOMAIN Entries(n) \subseteq Nodes /\ Entries(n) \in [DOMAIN Entries(n) -> Seen]
<1>1. ASSUME NEW m \in Nodes
      PROVE  [follows |-> view[n][m].follows, slots |-> view[n][m].slots,
              link |-> link[n][m], connected |-> Answers(m), fails |-> m \in flagged] \in Seen
  <2>1. view[n][m] \in Claims /\ link[n][m] \in {"none", "handshake", "known"}
    BY DEF RedisTypes
  <2>2. Answers(m) \in BOOLEAN /\ (m \in flagged) \in BOOLEAN
    BY DEF Answers
  <2> QED
    BY <2>1, <2>2 DEF Seen, Claims
<1> QED
  BY <1>1 DEF Entries

LEMMA NotStableKeeps ==
    ASSUME RunTypes, VerifyTypes, NEW obs, IsViews(obs), NotStable(obs),
           UNCHANGED timeVars
    PROVE  RunTypes' /\ VerifyTypes' /\ plan' = plan /\ pc' = "idle"
<1>1. CASE Report("Failed") /\ UNCHANGED verifyVars
  BY <1>1, ReportKeeps DEF VerifyTypes, verifyVars, timeVars
<1>2. CASE started' = TRUE /\ noted' = obs /\ Running
  BY <1>2, RunningKeeps DEF VerifyTypes, timeVars, IsViews
<1>3. CASE Fault /\ EndRun /\ UNCHANGED <<planVars, verifyVars>>
  BY <1>3, EndRunTypes, FaultTypes DEF RunTypes, VerifyTypes, planVars, verifyVars, timeVars
<1> QED
  BY <1>1, <1>2, <1>3 DEF NotStable

LEMMA VerifyClusterKeeps == ASSUME IInv, VerifyCluster PROVE IInv'
<1>1. RunTypes /\ PodTypes /\ VerifyTypes
  BY TypeParts DEF IInv
<1>2. RunTypes' /\ VerifyTypes' /\ plan' = plan /\ pc' # "add"
  <2>1. CASE NotStable(noted)
    BY <1>1, <2>1, NotStableKeeps DEF VerifyCluster, VerifyTypes
  <2>2. CASE /\ pc' = "observe"
             /\ listed' \subseteq Nodes
             /\ views' = Nothing
             /\ UNCHANGED <<temporary, toAdd, verifyVars, planVars, faults>>
    BY <1>1, <2>2, NothingIsViews
    DEF VerifyCluster, RunTypes, VerifyTypes, planVars, verifyVars, timeVars
  <2> QED
    BY <2>1, <2>2 DEF VerifyCluster
<1>3. PodTypes'
  BY <1>1 DEF VerifyCluster, PodTypes, podVars
<1> QED
  BY <1>2, <1>3, QuietStep DEF VerifyCluster

LEMMA ReadViewKeeps == ASSUME IInv, NEW n \in Nodes, ReadView(n) PROVE IInv'
<1>1. RunTypes /\ RedisTypes /\ PodTypes /\ VerifyTypes
  BY TypeParts DEF IInv
<1>2. RunTypes' /\ plan' = plan /\ pc' # "add"
  <2>1. CASE Running
    BY <1>1, <2>1, RunningKeeps
  <2>2. CASE /\ listed' = listed \ {n}
             /\ views' = IF Answers(n)
                         THEN [p \in DOMAIN views \cup {n} |->
                                  IF p = n THEN Entries(n) ELSE views[p]]
                         ELSE views
             /\ UNCHANGED <<pc, temporary, toAdd, planVars, faults>>
    <3>1. IsViews(views) /\ listed' \subseteq Nodes
      BY <1>1, <2>2 DEF RunTypes
    <3>2. IsViews(views')
      BY <1>1, <2>2, <3>1, EntriesTypes DEF IsViews
    <3>3. pc' # "add"
      BY <2>2 DEF ReadView, At
    <3> QED
      BY <1>1, <2>2, <3>1, <3>2, <3>3 DEF RunTypes, planVars
  <2> QED
    BY <2>1, <2>2 DEF ReadView
<1>3. PodTypes' /\ VerifyTypes'
  BY <1>1 DEF ReadView, PodTypes, VerifyTypes, podVars, verifyVars, timeVars
<1> QED
  BY <1>2, <1>3, QuietStep DEF ReadView

LEMMA JudgeViewsKeeps == ASSUME IInv, JudgeViews PROVE IInv'
<1>1. RunTypes /\ PodTypes /\ VerifyTypes
  BY TypeParts DEF IInv
<1>2. RunTypes' /\ VerifyTypes' /\ plan' = plan /\ pc' = "idle"
  <2>1. CASE NotStable(noted) \/ NotStable(views)
    BY <1>1, <2>1, NotStableKeeps DEF JudgeViews, RunTypes, VerifyTypes
  <2>2. CASE /\ UNCHANGED verifyVars
             /\ \/ Running
                \/ \E outcome \in {"Completed", "Superseded"} : Report(outcome)
    <3>1. RunTypes' /\ plan' = plan /\ pc' = "idle"
      BY <1>1, <2>2, ReportKeeps, RunningKeeps
    <3> QED
      BY <1>1, <2>2, <3>1 DEF JudgeViews, VerifyTypes, verifyVars, timeVars
  <2> QED
    BY <2>1, <2>2 DEF JudgeViews
<1>3. PodTypes'
  BY <1>1 DEF JudgeViews, PodTypes, podVars
<1> QED
  BY <1>2, <1>3, QuietStep DEF JudgeViews

-----------------------------------------------------------------------------
(***************************************************************************)
(* Redis, the kubelet, the clock and the process.                          *)
(***************************************************************************)

\* A step of the environment that leaves the run and the tables alone.
LEMMA IdleStep ==
    ASSUME IInv, UNCHANGED <<planVars, redisVars, runVars>>,
           PodTypes', VerifyTypes', faults' \in 0 .. MaxFaults
    PROVE  IInv'
<1>1. RunTypes
  BY TypeParts DEF IInv
<1>2. RunTypes' /\ plan' = plan /\ cur' = cur /\ pc' = pc
  BY <1>1 DEF RunTypes, planVars, runVars
<1> QED
  BY <1>2, QuietStep

LEMMA LinkStep ==
    ASSUME IInv, NEW n \in Nodes, NEW m \in Nodes, NEW e \in LinkStates,
           LinkBecomes(n, m, e), link[n][m] # "known",
           UNCHANGED <<planVars, view, podVars, runVars, verifyVars, timeVars, faults>>
    PROVE  IInv'
<1>1. RunTypes /\ RedisTypes /\ PodTypes /\ VerifyTypes
  BY TypeParts DEF IInv
<1>2. /\ link' \in [Nodes -> [Nodes -> LinkStates]]
      /\ (link[n][m])' = e
      /\ \A i, j \in Nodes : i # n \/ j # m => (link[i][j])' = link[i][j]
  BY <1>1, LinkChanges
<1>3. RunTypes' /\ PodTypes' /\ VerifyTypes' /\ plan' = plan /\ cur' = cur /\ pc' = pc
  BY <1>1 DEF RunTypes, PodTypes, VerifyTypes, planVars, podVars, runVars, verifyVars,
              timeVars
<1>4. RedisTypes'
  BY <1>1, <1>2 DEF RedisTypes, LinkStates
<1>5. LinksStay /\ FollowersStay /\ OthersStay /\ SlotsStay
  BY <1>2 DEF LinksStay, FollowersStay, OthersStay, SlotsStay
<1>6. FollowsInv'
  BY <1>3, FollowsInvStays DEF IInv
<1>7. HeardInv' /\ SlotsInv'
  BY <1>1, <1>5, HeardStays, SlotsInvStays DEF IInv
<1> QED
  BY <1>3, <1>4, <1>5, <1>6, <1>7, TablesStep

LEMMA ContactKeeps ==
    ASSUME IInv, NEW n \in Nodes, NEW m \in Nodes, Contact(n, m) PROVE IInv'
<1>1. LinkBecomes(n, m, "handshake") /\ "handshake" \in LinkStates
  BY DEF Contact, LinkBecomes, LinkStates
<1> QED
  BY <1>1, LinkStep DEF Contact

LEMMA HandshakeEndsKeeps ==
    ASSUME IInv, NEW n \in Nodes, NEW m \in Nodes, HandshakeEnds(n, m) PROVE IInv'
<1>1. LinkBecomes(n, m, "known") /\ "known" \in LinkStates
  BY DEF HandshakeEnds, LinkBecomes, LinkStates
<1> QED
  BY <1>1, LinkStep DEF HandshakeEnds

\* The master that is dropped was in handshake, so nobody counts on the replica.
LEMMA HandshakeExpiresKeeps ==
    ASSUME IInv, NEW n \in Nodes, NEW m \in Nodes, HandshakeExpires(n, m) PROVE IInv'
<1>1. RunTypes /\ RedisTypes /\ PodTypes /\ VerifyTypes
  BY TypeParts DEF IInv
<1>2. RunTypes' /\ PodTypes' /\ VerifyTypes' /\ plan' = plan /\ cur' = cur /\ pc' = pc
  BY <1>1, FaultTypes
  DEF HandshakeExpires, RunTypes, PodTypes, VerifyTypes, planVars, podVars, runVars,
      verifyVars
<1>3. LinkBecomes(n, m, "none") /\ "none" \in LinkStates
  BY DEF HandshakeExpires, LinkBecomes, LinkStates
<1>4. /\ link' \in [Nodes -> [Nodes -> LinkStates]]
      /\ (link[n][m])' = "none"
      /\ \A i, j \in Nodes : i # n \/ j # m => (link[i][j])' = link[i][j]
  BY <1>1, <1>3, LinkChanges
<1>5. PICK f \in Nodes \cup {NoNode} :
         f = IF view[n][n].follows = m THEN NoNode ELSE view[n][n].follows
  BY <1>1 DEF RedisTypes, Claims
<1>6. /\ view' \in [Nodes -> [Nodes -> Claims]]
      /\ (view[n][n])' = [follows |-> f, slots |-> view[n][n].slots]
      /\ \A i, j \in Nodes : i # n \/ j # n => (view[i][j])' = view[i][j]
  <2>1. view' = [view EXCEPT ![n][n].follows = f]
    BY <1>5 DEF HandshakeExpires
  <2> QED
    BY ONLY <1>1, <2>1, FollowsChanges, Zenon
<1>7. RedisTypes'
  BY <1>4, <1>6 DEF RedisTypes, LinkStates
<1>8. LinksStay /\ FollowersStay /\ OthersStay /\ SlotsStay
  <2>1. link[n][m] = "handshake"
    BY DEF HandshakeExpires
  <2>2. LinksStay
    BY <1>4, <2>1 DEF LinksStay
  <2>3. FollowersStay
    BY <1>5, <1>6, <2>1 DEF FollowersStay
  <2> QED
    BY <1>6, <2>2, <2>3 DEF OthersStay, SlotsStay
<1>9. FollowsInv'
  BY <1>2, <1>5, <1>6, FollowsInvStays DEF IInv
<1>10. HeardInv' /\ SlotsInv'
  BY <1>1, <1>8, HeardStays, SlotsInvStays DEF IInv
<1> QED
  BY <1>2, <1>7, <1>8, <1>9, <1>10, TablesStep

LEMMA SaidTypes ==
    ASSUME RedisTypes, NEW m \in Nodes
    PROVE  /\ Said(m) \in Claims
           /\ Said(m).follows # NoNode =>
                Said(m).follows = view[m][m].follows /\ link[m][Said(m).follows] = "known"
<1>1. view[m][m] \in Claims
  BY DEF RedisTypes
<1> QED
  BY <1>1 DEF Said, Claims

\* What is heard of a node is true of it, and stays true.
LEMMA HearKeeps ==
    ASSUME IInv, NEW n \in Nodes, NEW m \in Nodes, Hear(n, m) PROVE IInv'
<1>1. RunTypes /\ RedisTypes /\ PodTypes /\ VerifyTypes
  BY TypeParts DEF IInv
<1>2. RunTypes' /\ PodTypes' /\ VerifyTypes' /\ plan' = plan /\ cur' = cur /\ pc' = pc
  BY <1>1
  DEF Hear, RunTypes, PodTypes, VerifyTypes, planVars, podVars, runVars, verifyVars,
      timeVars
<1>3. PICK said \in Claims : said = Said(m)
  BY <1>1, SaidTypes
<1>4. /\ view' \in [Nodes -> [Nodes -> Claims]]
      /\ (view[n][m])' = said
      /\ \A i, j \in Nodes : i # n \/ j # m => (view[i][j])' = view[i][j]
  <2>1. ViewBecomes(n, m, said)
    BY <1>3 DEF Hear, ViewBecomes
  <2> QED
    BY <1>1, <2>1, ViewChanges
<1>5. n # m /\ link' = link
  BY DEF Hear
<1>6. RedisTypes'
  BY <1>1, <1>4, <1>5 DEF RedisTypes
<1>7. LinksStay /\ FollowersStay /\ SlotsStay
  BY <1>4, <1>5 DEF LinksStay, FollowersStay, SlotsStay
<1>8. FollowsInv'
  BY <1>2, <1>4, <1>5, FollowsInvStays DEF IInv
<1>9. HeardInv'
  <2> SUFFICES ASSUME NEW i \in Nodes, NEW j \in Nodes, i # j,
                      (view[i][j].follows)' # NoNode
               PROVE  /\ (view[j][j].follows)' = (view[i][j].follows)'
                      /\ (link[j][view[i][j].follows])' = "known"
    BY DEF HeardInv
  <2>1. CASE i = n /\ j = m
    <3>1. /\ said.follows # NoNode =>
               said.follows = view[m][m].follows /\ link[m][said.follows] = "known"
      BY <1>1, <1>3, SaidTypes
    <3> QED
      BY <1>4, <1>5, <2>1, <3>1
  <2>2. CASE i # n \/ j # m
    <3>1. (view[i][j])' = view[i][j] /\ (view[j][j])' = view[j][j]
      BY <1>4, <1>5, <2>2
    <3> QED
      BY <1>5, <3>1 DEF IInv, HeardInv
  <2> QED
    BY <2>1, <2>2
<1>10. SlotsInv'
  BY <1>7, SlotsInvStays DEF IInv
<1> QED
  BY <1>2, <1>6, <1>7, <1>8, <1>9, <1>10, TablesStep

LEMMA PodsKeep ==
    ASSUME IInv, NEW n \in Nodes, PodFails(n) \/ PodRecovers(n) \/ FlagsFollow(n)
    PROVE  IInv'
<1>1. RunTypes /\ PodTypes /\ VerifyTypes
  BY TypeParts DEF IInv
<1>2. CASE PodFails(n)
  <2>1. PodTypes'
    BY <1>1, <1>2 DEF PodFails, PodTypes
  <2>2. VerifyTypes' /\ faults' \in 0 .. MaxFaults
    BY <1>1, <1>2, FaultTypes DEF PodFails, VerifyTypes, verifyVars, timeVars
  <2> QED
    BY <1>2, <2>1, <2>2, IdleStep DEF PodFails
<1>3. CASE PodRecovers(n) \/ FlagsFollow(n)
  <2>1. PodTypes'
    BY <1>1, <1>3 DEF PodRecovers, FlagsFollow, PodTypes
  <2>2. VerifyTypes' /\ faults' \in 0 .. MaxFaults
    BY <1>1, <1>3
    DEF PodRecovers, FlagsFollow, RunTypes, VerifyTypes, verifyVars, timeVars
  <2> QED
    BY <1>3, <2>1, <2>2, IdleStep DEF PodRecovers, FlagsFollow
<1> QED
  BY <1>2, <1>3

LEMMA TimePassesKeeps == ASSUME IInv, TimePasses PROVE IInv'
<1>1. RunTypes /\ PodTypes /\ VerifyTypes
  BY TypeParts DEF IInv
<1>2. PodTypes' /\ VerifyTypes' /\ faults' \in 0 .. MaxFaults
  BY <1>1
  DEF TimePasses, RunTypes, PodTypes, VerifyTypes, podVars, verifyVars
<1> QED
  BY <1>2, IdleStep DEF TimePasses

LEMMA RestartKeeps == ASSUME IInv, Restart PROVE IInv'
<1>1. RunTypes /\ PodTypes /\ VerifyTypes
  BY TypeParts DEF IInv
<1>2. RunTypes' /\ plan' = plan /\ pc' = "idle"
  BY <1>1, EndRunTypes, FaultTypes DEF Restart, RunTypes, planVars
<1>3. PodTypes' /\ VerifyTypes'
  BY <1>1 DEF Restart, PodTypes, VerifyTypes, podVars, verifyVars, timeVars
<1> QED
  BY <1>2, <1>3, QuietStep DEF Restart

-----------------------------------------------------------------------------
(***************************************************************************)
(* The invariant.                                                          *)
(***************************************************************************)
LEMMA InitIInv == Init => IInv
<1> SUFFICES ASSUME Init PROVE IInv
  OBVIOUS
<1>1. RunTypes
  <2>1. plan \in Plans /\ cur \in DOMAIN plan
    BY PlanTypes DEF Init
  <2>2. faults \in 0 .. MaxFaults
    BY ClusterFormationAssumption DEF Init
  <2>3. IsViews(views)
    BY NothingIsViews DEF Init
  <2> QED
    BY <2>1, <2>2, <2>3 DEF Init, RunTypes
<1>2. \A n, m \in Nodes : view[n][m] = Fresh
  BY DEF Init
<1>3. RedisTypes
  <2>1. Fresh \in Claims
    BY DEF Fresh, Claims
  <2> QED
    BY <2>1 DEF Init, RedisTypes
<1>4. PodTypes /\ VerifyTypes
  BY NothingIsViews DEF Init, PodTypes, VerifyTypes
<1>5. FollowsInv /\ HeardInv /\ SlotsInv
  BY <1>2 DEF FollowsInv, HeardInv, SlotsInv, Fresh
<1>6. AddInv
  BY DEF Init, AddInv
<1> QED
  BY <1>1, <1>3, <1>4, <1>5, <1>6, TypeParts DEF IInv

LEMMA NextKeeps == ASSUME OneMaster, IInv, Next PROVE IInv'
<1>1. CASE MeetNode \/ ClusterMeet \/ CheckMet
  BY <1>1, MeetNodeKeeps, ClusterMeetKeeps, CheckMetKeeps
<1>2. CASE ReplicateNode \/ ClusterReplicate \/ CheckReplicated
  BY <1>2, ReplicateNodeKeeps, ClusterReplicateKeeps, CheckReplicatedKeeps
<1>3. CASE AddSlots \/ (\E batch \in SUBSET Slots : AddBatch(batch)) \/ CheckAdded
  BY <1>3, AddSlotsKeeps, AddBatchKeeps, CheckAddedKeeps
<1>4. CASE VerifyCluster \/ (\E n \in Nodes : ReadView(n)) \/ JudgeViews
  BY <1>4, VerifyClusterKeeps, ReadViewKeeps, JudgeViewsKeeps
<1>5. CASE Settling
  BY <1>5, ContactKeeps, HandshakeEndsKeeps, HearKeeps, PodsKeep DEF Settling
<1>6. CASE \E n, m \in Nodes : HandshakeExpires(n, m)
  BY <1>6, HandshakeExpiresKeeps
<1>7. CASE (\E n \in Nodes : PodFails(n)) \/ TimePasses \/ Restart
  BY <1>7, PodsKeep, TimePassesKeeps, RestartKeeps
<1> QED
  BY <1>1, <1>2, <1>3, <1>4, <1>5, <1>6, <1>7 DEF Next, Run

LEMMA StutterKeeps == ASSUME IInv, UNCHANGED vars PROVE IInv'
<1>1. RunTypes /\ PodTypes /\ VerifyTypes
  BY TypeParts DEF IInv
<1>2. PodTypes' /\ VerifyTypes' /\ faults' \in 0 .. MaxFaults
  BY <1>1 DEF vars, RunTypes, PodTypes, VerifyTypes, podVars, verifyVars, timeVars
<1> QED
  BY <1>2, IdleStep DEF vars

\* The strengthened invariant, for plans that give no node two masters.
THEOREM FormationInvariant == ASSUME OneMaster PROVE Spec => []IInv
<1>1. IInv /\ [Next]_vars => IInv'
  BY NextKeeps, StutterKeeps
<1> QED
  BY <1>1, InitIInv, PTL DEF Spec

\* The steps that make a cluster keep the model's types (meet_node.go,
\* replicate_node.go, add_slots.go, verify_cluster.go).
THEOREM FormationTypes == ASSUME OneMaster PROVE Spec => []TypeOK
<1>1. IInv => TypeOK
  BY DEF IInv
<1> QED
  BY <1>1, FormationInvariant, PTL

\* A node that owns slots has a replica, whatever the order of the plan's steps,
\* the delay of gossip, lost replies, restarts and handshakes that time out: the
\* replica that addSlots has seen in the master's table cannot lose its master.
THEOREM OwnersHaveReplicas == ASSUME OneMaster PROVE Spec => []ReplicasBeforeSlots
<1>1. IInv => ReplicasBeforeSlots
  BY DEF IInv, SlotsInv, Supported, ReplicasBeforeSlots
<1> QED
  BY <1>1, FormationInvariant, PTL

-----------------------------------------------------------------------------
(***************************************************************************)
(* What VerifyCluster has read stays true.                                 *)
(***************************************************************************)
HeardStay ==
    \A n, m \in Nodes : n # m =>
        /\ view[n][m].slots \subseteq (view[n][m].slots)'
        /\ view[n][m].follows # NoNode => (view[n][m].follows)' = view[n][m].follows

MastersStayOrGo == \A n \in Nodes : (view[n][n].follows)' \in {view[n][n].follows, NoNode}

TablesStay == LinksStay /\ FollowersStay /\ SlotsStay /\ HeardStay /\ MastersStayOrGo

LEMMA SameTables == ASSUME UNCHANGED redisVars PROVE TablesStay
BY DEF redisVars, TablesStay, LinksStay, FollowersStay, SlotsStay, HeardStay, MastersStayOrGo

LEMMA ObservedStays ==
    ASSUME TablesStay, NEW n \in Nodes, NEW read, DOMAIN read \subseteq Nodes,
           Observed(n, read)
    PROVE  Observed(n, read)'
<1>1. \A m \in DOMAIN read :
         /\ read[m].link = "known" => (link[n][m])' = "known"
         /\ m # n => /\ read[m].slots \subseteq (view[n][m].slots)'
                     /\ read[m].follows # NoNode =>
                          (view[n][m].follows)' = read[m].follows
  BY DEF Observed, TablesStay, LinksStay, HeardStay
<1>2. (view[n][n].slots)' = read[n].slots
  BY DEF Observed, TablesStay, SlotsStay
<1>3. (view[n][n].follows)' \in {read[n].follows, NoNode}
  BY DEF Observed, TablesStay, MastersStayOrGo
<1>4. read[n].follows # NoNode /\ read[read[n].follows].link = "known" =>
         (view[n][n].follows)' = read[n].follows
  BY DEF Observed, TablesStay, FollowersStay
<1> QED
  BY <1>1, <1>2, <1>3, <1>4 DEF Observed

LEMMA AgreedStays ==
    ASSUME TablesStay, NEW read, IsViews(read), Agreed(read) PROVE Agreed(read)'
<1>1. \A n \in DOMAIN read : Observed(n, read[n])'
  BY ObservedStays DEF Agreed, IsViews
<1> QED
  BY <1>1 DEF Agreed

LEMMA ObserveStays ==
    ASSUME IInv, ObserveInv, TablesStay, plan' = plan, cur' = cur, pc' = pc, views' = views
    PROVE  ObserveInv'
<1> SUFFICES ASSUME pc' = "observe" PROVE (Step.action = "VerifyCluster" /\ Agreed(views))'
  BY DEF ObserveInv
<1>1. PICK read : read = views
  OBVIOUS
<1>2. IsViews(read) /\ Agreed(read) /\ Step.action = "VerifyCluster" /\ Step' = Step
  BY <1>1 DEF ObserveInv, IInv, TypeOK, Step
<1>3. Agreed(read)'
  BY <1>2, AgreedStays
<1> QED
  BY <1>1, <1>2, <1>3

LEMMA VerifiedStays ==
    ASSUME IInv, VerifiedInv, TablesStay, plan' = plan, cur' = cur, status' = status,
           noted' = noted
    PROVE  VerifiedInv'
<1> SUFFICES ASSUME status = "Completed", Step.action = "VerifyCluster"
             PROVE  VerifiedInv'
  BY DEF VerifiedInv, Step
<1>1. PICK read : read = noted
  OBVIOUS
<1>2. IsViews(read) /\ Agreed(read) /\ DOMAIN read # {}
        /\ \A n \in DOMAIN read : "Converged" \in Classify(read[n])
  BY <1>1 DEF VerifiedInv, IInv, TypeOK
<1>3. Agreed(read)'
  BY <1>2, AgreedStays
<1>4. (\A n \in DOMAIN read : "Converged" \in Classify(read[n]))'
  BY <1>2 DEF Classify, Handshaking, Disconnected, FailedNode, SlotsCovered,
              HealthyMasters, SlotOwningMasters, ShapeMatches, HealthyReplicasOf, Healthy
<1> QED
  BY <1>1, <1>2, <1>3, <1>4 DEF VerifiedInv

-----------------------------------------------------------------------------
(***************************************************************************)
(* How a run of another step than VerifyCluster ends.                      *)
(***************************************************************************)
LEMMA ReportEnds ==
    ASSUME status = "Running", NEW outcome, Report(outcome)
    PROVE  /\ plan' = plan /\ pc' = "idle"
           /\ status' = "Running" \/ (status' = outcome /\ cur' = cur)
BY DEF Report, EndRun, Record, planVars

LEMMA RunningEnds ==
    ASSUME Running PROVE plan' = plan /\ cur' = cur /\ status' = status /\ pc' = "idle"
BY DEF Running, EndRun, planVars

LEMMA GoOnEnds ==
    ASSUME status = "Running", NEW next, NEW left, GoOn(next, left)
    PROVE  /\ plan' = plan /\ status' \in {"Running", "Failed"}
           /\ \/ pc' = "idle"
              \/ pc' = next /\ toAdd' = left /\ cur' = cur
BY DEF GoOn, EndRun, Record, planVars

LEMMA SameRedisKeeps ==
    ASSUME ViewsInv, UNCHANGED redisVars, plan' = plan
    PROVE  OwnLinksInv' /\ MastersInv' /\ HeardSlotsInv' /\ OwnSlotsInv'
BY DEF ViewsInv, redisVars, OwnLinksInv, MastersInv, HeardSlotsInv, OwnSlotsInv

\* The step is not VerifyCluster, or it has not completed.
LEMMA OtherStep ==
    ASSUME OwnLinksInv', MastersInv', HeardSlotsInv', OwnSlotsInv', ToAddInv',
           pc' # "observe", plan' = plan,
           status' # "Completed" \/ (cur' = cur /\ Step.action # "VerifyCluster")
    PROVE  ViewsInv'
BY DEF ViewsInv, ObserveInv, VerifiedInv, Step

LEMMA EnvironmentStep ==
    ASSUME IInv, ViewsInv, TablesStay, UNCHANGED <<planVars, runVars, noted>>,
           OwnLinksInv', MastersInv', HeardSlotsInv', OwnSlotsInv'
    PROVE  ViewsInv'
<1>1. plan' = plan /\ cur' = cur /\ status' = status /\ pc' = pc /\ toAdd' = toAdd
        /\ views' = views /\ noted' = noted
  BY DEF planVars, runVars
<1>2. ToAddInv'
  BY <1>1 DEF ViewsInv, ToAddInv, Step
<1>3. ObserveInv' /\ VerifiedInv'
  BY <1>1, ObserveStays, VerifiedStays DEF ViewsInv
<1> QED
  BY <1>2, <1>3 DEF ViewsInv

-----------------------------------------------------------------------------
(***************************************************************************)
(* The steps and what VerifyCluster reads.                                 *)
(***************************************************************************)
LEMMA MeetNodeViews == ASSUME IInv, ViewsInv, MeetNode PROVE ViewsInv'
<1>1. /\ plan' = plan /\ pc' \in {"idle", "meet"}
      /\ status' # "Completed" \/ (cur' = cur /\ Step.action # "VerifyCluster")
  BY ReportEnds, GoOnEnds DEF MeetNode, At
<1>2. ToAddInv'
  BY <1>1 DEF ToAddInv
<1> QED
  BY <1>1, <1>2, SameRedisKeeps, OtherStep DEF MeetNode

LEMMA CheckMetViews == ASSUME IInv, ViewsInv, CheckMet PROVE ViewsInv'
<1>1. /\ plan' = plan /\ pc' = "idle"
      /\ status' # "Completed" \/ (cur' = cur /\ Step.action # "VerifyCluster")
  BY ReportEnds, RunningEnds DEF CheckMet, At
<1>2. ToAddInv'
  BY <1>1 DEF ToAddInv
<1> QED
  BY <1>1, <1>2, SameRedisKeeps, OtherStep DEF CheckMet

\* No node is dropped from a table.
LEMMA LinkRises ==
    ASSUME ViewsInv, RedisTypes, NEW n \in Nodes, NEW m \in Nodes, NEW e \in LinkStates,
           LinkBecomes(n, m, e), e = "known" \/ (e = "handshake" /\ link[n][m] # "known"),
           view' = view, plan' = plan
    PROVE  OwnLinksInv' /\ MastersInv' /\ HeardSlotsInv' /\ OwnSlotsInv' /\ TablesStay
<1>1. /\ (link[n][m])' = e
      /\ \A i, j \in Nodes : i # n \/ j # m => (link[i][j])' = link[i][j]
  BY LinkChanges
<1>2. LinksStay /\ OwnLinksInv'
  BY <1>1 DEF LinksStay, ViewsInv, OwnLinksInv
<1>3. FollowersStay /\ SlotsStay /\ HeardStay /\ MastersStayOrGo
  BY DEF FollowersStay, SlotsStay, HeardStay, MastersStayOrGo
<1>4. \A i, j \in Nodes : link[i][j] # "none" => (link[i][j])' # "none"
  BY <1>1
<1>5. MastersInv'
  <2> SUFFICES ASSUME NEW r \in Nodes, view[r][r].follows # NoNode
               PROVE  (link[r][view[r][r].follows])' # "none"
    BY DEF MastersInv
  <2>1. view[r][r].follows \in Nodes /\ link[r][view[r][r].follows] # "none"
    BY DEF RedisTypes, Claims, ViewsInv, MastersInv
  <2> QED
    BY <1>4, <2>1
<1>6. HeardSlotsInv' /\ OwnSlotsInv'
  BY DEF ViewsInv, HeardSlotsInv, OwnSlotsInv
<1> QED
  BY <1>2, <1>3, <1>5, <1>6 DEF TablesStay

LEMMA ClusterMeetViews == ASSUME IInv, ViewsInv, ClusterMeet PROVE ViewsInv'
<1>1. RunTypes /\ RedisTypes
  BY TypeParts DEF IInv
<1>2. Step.source \in Nodes /\ Step.target \in Nodes
  BY <1>1, StepTypes DEF ClusterMeet, At
<1>3. plan' = plan /\ pc' \in {"idle", "met"} /\ status' # "Completed" /\ view' = view
  BY ReportEnds, GoOnEnds DEF ClusterMeet, At
<1>4. OwnLinksInv' /\ MastersInv' /\ HeardSlotsInv' /\ OwnSlotsInv'
  <2>1. CASE UNCHANGED link
    BY <1>3, <2>1, SameRedisKeeps DEF redisVars
  <2>2. CASE link' = [link EXCEPT ![Step.source][Step.target] =
                          IF @ = "none" THEN "handshake" ELSE @]
    <3>1. PICK n \in Nodes, m \in Nodes : n = Step.source /\ m = Step.target
      BY <1>2
    <3>2. CASE link[n][m] = "none"
      <4>1. LinkBecomes(n, m, "handshake") /\ "handshake" \in LinkStates
        BY <2>2, <3>1, <3>2 DEF LinkBecomes, LinkStates
      <4> QED
        BY <1>1, <1>3, <3>2, <4>1, LinkRises
    <3>3. CASE link[n][m] # "none"
      <4>1. PICK e \in LinkStates : e = link[n][m]
        BY <1>1 DEF RedisTypes, LinkStates
      <4>2. LinkBecomes(n, m, e)
        BY <2>2, <3>1, <3>3, <4>1 DEF LinkBecomes
      <4>3. e = "known" \/ (e = "handshake" /\ link[n][m] # "known")
        BY <3>3, <4>1 DEF LinkStates
      <4> QED
        BY <1>1, <1>3, <4>2, <4>3, LinkRises
    <3> QED
      BY <3>2, <3>3
  <2> QED
    BY <2>1, <2>2 DEF ClusterMeet
<1>5. ToAddInv'
  BY <1>3 DEF ToAddInv
<1> QED
  BY <1>3, <1>4, <1>5, OtherStep

LEMMA ReplicateNodeViews == ASSUME IInv, ViewsInv, ReplicateNode PROVE ViewsInv'
<1>1. /\ plan' = plan /\ pc' \in {"idle", "replicate"}
      /\ status' # "Completed" \/ (cur' = cur /\ Step.action # "VerifyCluster")
  BY ReportEnds DEF ReplicateNode, At, planVars
<1>2. ToAddInv'
  BY <1>1 DEF ToAddInv
<1> QED
  BY <1>1, <1>2, SameRedisKeeps, OtherStep DEF ReplicateNode

LEMMA CheckReplicatedViews == ASSUME IInv, ViewsInv, CheckReplicated PROVE ViewsInv'
<1>1. /\ plan' = plan /\ pc' = "idle"
      /\ status' # "Completed" \/ (cur' = cur /\ Step.action # "VerifyCluster")
  BY ReportEnds, RunningEnds DEF CheckReplicated, At
<1>2. ToAddInv'
  BY <1>1 DEF ToAddInv
<1> QED
  BY <1>1, <1>2, SameRedisKeeps, OtherStep DEF CheckReplicated

\* The command names a node that is in the replica's table.
LEMMA ClusterReplicateViews == ASSUME IInv, ViewsInv, ClusterReplicate PROVE ViewsInv'
<1>1. RunTypes /\ RedisTypes
  BY TypeParts DEF IInv
<1>2. Step.master \in Nodes /\ Step.replica \in Nodes
  BY <1>1, StepTypes DEF ClusterReplicate, At
<1>3. plan' = plan /\ pc' \in {"idle", "replicated"} /\ status' # "Completed" /\ link' = link
  BY ReportEnds, GoOnEnds DEF ClusterReplicate, At
<1>4. OwnLinksInv' /\ MastersInv' /\ HeardSlotsInv' /\ OwnSlotsInv'
  <2>1. CASE UNCHANGED view
    BY <1>3, <2>1, SameRedisKeeps DEF redisVars
  <2>2. CASE /\ IdHolds(Step.replica, Step.master)
             /\ view' = [view EXCEPT ![Step.replica][Step.replica].follows = Step.master]
    <3>1. PICK r \in Nodes, m \in Nodes : r = Step.replica /\ m = Step.master
      BY <1>2
    <3>2. /\ (view[r][r])' = [follows |-> m, slots |-> view[r][r].slots]
          /\ \A i, j \in Nodes : i # r \/ j # r => (view[i][j])' = view[i][j]
      <4>1. view' = [view EXCEPT ![r][r].follows = m]
        BY <2>2, <3>1
      <4> QED
        BY ONLY <1>1, <4>1, FollowsChanges, Zenon
    <3>3. link[r][m] # "none"
      BY <2>2, <3>1 DEF IdHolds
    <3>4. MastersInv'
      BY <1>3, <3>2, <3>3 DEF ViewsInv, MastersInv
    <3>5. \A i, j \in Nodes : (view[i][j].slots)' = view[i][j].slots
      BY <3>2
    <3>6. OwnLinksInv' /\ HeardSlotsInv' /\ OwnSlotsInv'
      BY <1>3, <3>5 DEF ViewsInv, OwnLinksInv, HeardSlotsInv, OwnSlotsInv
    <3> QED
      BY <3>4, <3>6
  <2> QED
    BY <2>1, <2>2 DEF ClusterReplicate
<1>5. ToAddInv'
  BY <1>3 DEF ToAddInv
<1> QED
  BY <1>3, <1>4, <1>5, OtherStep

LEMMA AddSlotsViews == ASSUME IInv, ViewsInv, AddSlots PROVE ViewsInv'
<1>1. PICK missing : missing = Step.slots \ view[Step.node][Step.node].slots
  OBVIOUS
<1>2. \/ \E outcome \in {"Completed", "Failed"} : Report(outcome)
      \/ GoOn("add", missing)
  BY <1>1 DEF AddSlots
<1>3. /\ plan' = plan /\ pc' # "observe"
      /\ status' # "Completed" \/ (cur' = cur /\ Step.action # "VerifyCluster")
  BY <1>2, ReportEnds, GoOnEnds DEF AddSlots, At
<1>4. pc' = "add" => toAdd' = missing /\ cur' = cur
  BY <1>2, ReportEnds, GoOnEnds DEF AddSlots, At
<1>5. ToAddInv'
  BY <1>1, <1>3, <1>4 DEF ToAddInv, Step
<1> QED
  BY <1>3, <1>5, SameRedisKeeps, OtherStep DEF AddSlots

LEMMA AddBatchViews ==
    ASSUME IInv, ViewsInv, NEW batch \in SUBSET Slots, AddBatch(batch) PROVE ViewsInv'
<1>1. RunTypes /\ RedisTypes
  BY TypeParts DEF IInv
<1>2. /\ Step.action = "AddSlots" /\ Step.node \in Nodes /\ batch \subseteq Step.slots
      /\ toAdd \subseteq Step.slots /\ cur \in DOMAIN plan
  BY <1>1, StepTypes DEF AddBatch, At, ViewsInv, ToAddInv, RunTypes
<1>3. /\ plan' = plan /\ pc' # "observe" /\ status' # "Completed" /\ link' = link
      /\ pc' = "add" => toAdd' \subseteq toAdd /\ cur' = cur
  <2>1. CASE Report("Failed")
    BY <2>1, ReportEnds DEF AddBatch, At
  <2>2. CASE GoOn(IF batch = toAdd THEN "added" ELSE "add", toAdd \ batch)
    BY <2>2, GoOnEnds DEF AddBatch, At
  <2> QED
    BY <2>1, <2>2 DEF AddBatch
<1>4. ToAddInv'
  BY <1>2, <1>3 DEF ToAddInv, Step
<1>5. OwnLinksInv' /\ MastersInv' /\ HeardSlotsInv' /\ OwnSlotsInv'
  <2>1. CASE UNCHANGED view
    BY <1>3, <2>1, SameRedisKeeps DEF redisVars
  <2>2. CASE view' = [view EXCEPT ![Step.node][Step.node].slots = @ \cup batch]
    <3>1. PICK n \in Nodes : n = Step.node
      BY <1>2
    <3>2. /\ (view[n][n])' = [follows |-> view[n][n].follows,
                             slots |-> view[n][n].slots \cup batch]
          /\ \A i, j \in Nodes : i # n \/ j # n => (view[i][j])' = view[i][j]
      <4>1. view' = [view EXCEPT ![n][n].slots = @ \cup batch]
        BY <2>2, <3>1
      <4> QED
        BY ONLY <1>1, <4>1, SlotsChange, Zenon
    <3>3. OwnLinksInv' /\ MastersInv'
      BY <1>3, <3>2 DEF ViewsInv, OwnLinksInv, MastersInv
    <3>4. HeardSlotsInv'
      BY <3>2 DEF ViewsInv, HeardSlotsInv
    <3>5. OwnSlotsInv'
      BY <1>2, <1>3, <3>1, <3>2 DEF ViewsInv, OwnSlotsInv, Step
    <3> QED
      BY <3>3, <3>4, <3>5
  <2> QED
    BY <2>1, <2>2 DEF AddBatch
<1> QED
  BY <1>3, <1>4, <1>5, OtherStep

LEMMA CheckAddedViews == ASSUME IInv, ViewsInv, CheckAdded PROVE ViewsInv'
<1>1. /\ plan' = plan /\ pc' = "idle"
      /\ status' # "Completed" \/ (cur' = cur /\ Step.action # "VerifyCluster")
  BY ReportEnds, RunningEnds DEF CheckAdded, At
<1>2. ToAddInv'
  BY <1>1 DEF ToAddInv
<1> QED
  BY <1>1, <1>2, SameRedisKeeps, OtherStep DEF CheckAdded

LEMMA EntriesObserved ==
    ASSUME RedisTypes, ViewsInv, NEW n \in Nodes, NEW read, read = Entries(n)
    PROVE  Observed(n, read)
<1>1. /\ DOMAIN read = {n} \cup {p \in Nodes : Visible(n, p)}
      /\ \A m \in DOMAIN read : /\ read[m].link = link[n][m]
                                /\ read[m].slots = view[n][m].slots
                                /\ read[m].follows = view[n][m].follows
  BY DEF Entries
<1>2. \A m \in DOMAIN read : link[n][m] \in {"handshake", "known"}
  BY <1>1 DEF ViewsInv, OwnLinksInv, Visible, RedisTypes
<1>3. read[n].follows # NoNode => read[n].follows \in DOMAIN read
  <2> SUFFICES ASSUME read[n].follows # NoNode PROVE read[n].follows \in DOMAIN read
    OBVIOUS
  <2>1. read[n].follows \in Nodes /\ link[n][read[n].follows] # "none"
    BY <1>1 DEF RedisTypes, Claims, ViewsInv, MastersInv
  <2> QED
    BY <1>1, <2>1 DEF Visible
<1> QED
  BY <1>1, <1>2, <1>3 DEF Observed

LEMMA NotStableEnds ==
    ASSUME status = "Running", NEW obs, NotStable(obs)
    PROVE  plan' = plan /\ pc' = "idle" /\ status' # "Completed"
BY ReportEnds, RunningEnds DEF NotStable, EndRun, planVars

LEMMA VerifyClusterViews == ASSUME IInv, ViewsInv, VerifyCluster PROVE ViewsInv'
<1>1. CASE NotStable(noted)
  <2>1. plan' = plan /\ pc' = "idle" /\ status' # "Completed"
    BY <1>1, NotStableEnds DEF VerifyCluster, At
  <2>2. ToAddInv'
    BY <2>1 DEF ToAddInv
  <2> QED
    BY <2>1, <2>2, SameRedisKeeps, OtherStep DEF VerifyCluster
<1>2. CASE pc' = "observe" /\ views' = Nothing /\ UNCHANGED planVars
  <2>1. plan' = plan /\ status' = "Running" /\ Step' = Step /\ Step.action = "VerifyCluster"
    BY <1>2 DEF VerifyCluster, At, planVars, Step
  <2>2. ToAddInv' /\ VerifiedInv'
    BY <1>2, <2>1 DEF ToAddInv, VerifiedInv
  <2>3. ObserveInv'
    BY <1>2, <2>1 DEF ObserveInv, Agreed, Nothing
  <2> QED
    BY <2>1, <2>2, <2>3, SameRedisKeeps DEF VerifyCluster, ViewsInv
<1> QED
  BY <1>1, <1>2 DEF VerifyCluster

LEMMA ReadViewViews ==
    ASSUME IInv, ViewsInv, NEW n \in Nodes, ReadView(n) PROVE ViewsInv'
<1>1. RunTypes /\ RedisTypes
  BY TypeParts DEF IInv
<1>2. CASE Running
  <2>1. plan' = plan /\ pc' = "idle" /\ status' # "Completed"
    BY <1>2, RunningEnds DEF ReadView, At
  <2>2. ToAddInv'
    BY <2>1 DEF ToAddInv
  <2> QED
    BY <2>1, <2>2, SameRedisKeeps, OtherStep DEF ReadView
<1>3. CASE /\ Answers(n) => ~ViewsDiffer(views, Entries(n))
           /\ views' = IF Answers(n)
                       THEN [p \in DOMAIN views \cup {n} |->
                                IF p = n THEN Entries(n) ELSE views[p]]
                       ELSE views
           /\ UNCHANGED <<pc, planVars>>
  <2>1. /\ plan' = plan /\ status' = "Running" /\ pc' = "observe"
        /\ Step' = Step /\ Step.action = "VerifyCluster"
    BY <1>3 DEF ReadView, At, planVars, Step
  <2>2. ToAddInv' /\ VerifiedInv'
    BY <2>1 DEF ToAddInv, VerifiedInv
  <2>3. Agreed(views) /\ IsViews(views)
    BY <1>1 DEF ViewsInv, ObserveInv, ReadView, At, RunTypes
  <2>4. TablesStay
    BY SameTables DEF ReadView
  <2>5. PICK read : read = views'
    OBVIOUS
  <2>6. Agreed(read) /\ IsViews(read)
    <3>1. CASE ~Answers(n)
      BY <1>3, <2>3, <2>5, <3>1
    <3>2. CASE Answers(n)
      <4>1. PICK e : e = Entries(n)
        OBVIOUS
      <4>2. read = [p \in DOMAIN views \cup {n} |-> IF p = n THEN e ELSE views[p]]
        BY <1>3, <2>5, <3>2, <4>1
      <4>3. \A p \in DOMAIN views : views[p] = e
        BY <1>3, <3>2, <4>1 DEF ViewsDiffer
      <4>4. \A p \in DOMAIN read : read[p] = e
        BY <4>2, <4>3
      <4>5. Observed(n, e) /\ DOMAIN e \subseteq Nodes /\ e \in [DOMAIN e -> Seen]
        BY <1>1, <4>1, EntriesObserved, EntriesTypes
      <4>6. \A p \in DOMAIN views : Observed(p, e)
        BY <2>3, <4>3 DEF Agreed
      <4>7. DOMAIN read \subseteq Nodes
        BY <2>3, <4>2 DEF IsViews
      <4>8. \A p \in DOMAIN read : Observed(p, read[p])
        BY <4>2, <4>4, <4>5, <4>6
      <4> QED
        BY <4>4, <4>5, <4>7, <4>8 DEF Agreed, IsViews
    <3> QED
      BY <3>1, <3>2
  <2>7. Agreed(read)'
    BY <2>4, <2>6, AgreedStays
  <2>8. ObserveInv'
    BY <2>1, <2>5, <2>7 DEF ObserveInv
  <2> QED
    BY <2>1, <2>2, <2>8, SameRedisKeeps DEF ReadView, ViewsInv
<1> QED
  BY <1>2, <1>3 DEF ReadView

LEMMA JudgeViewsViews == ASSUME IInv, ViewsInv, JudgeViews PROVE ViewsInv'
<1>1. RunTypes /\ RedisTypes
  BY TypeParts DEF IInv
<1>2. status = "Running" /\ pc = "observe" /\ Step.action = "VerifyCluster"
  BY DEF JudgeViews, At
<1>3. /\ plan' = plan /\ pc' = "idle"
      /\ status' = "Completed" =>
           /\ cur' = cur /\ noted' = noted /\ noted = views
           /\ \E best \in DOMAIN views : "Converged" \in Classify(views[best])
  <2>1. CASE NotStable(noted) \/ NotStable(views) \/ Running
    BY <1>2, <2>1, NotStableEnds, RunningEnds
  <2>2. CASE /\ UNCHANGED verifyVars /\ noted = views
             /\ \E best \in DOMAIN views, state \in {"NeedsRepair", "Converged"} :
                  /\ state \in Classify(views[best])
                  /\ Report(IF state = "Converged" THEN "Completed" ELSE "Superseded")
    BY <1>2, <2>2, ReportEnds DEF verifyVars
  <2> QED
    BY <2>1, <2>2 DEF JudgeViews
<1>4. ToAddInv' /\ ObserveInv'
  BY <1>3 DEF ToAddInv, ObserveInv
<1>5. VerifiedInv'
  <2> SUFFICES ASSUME status' = "Completed"
               PROVE  (/\ Agreed(noted)
                       /\ DOMAIN noted # {}
                       /\ \A n \in DOMAIN noted : "Converged" \in Classify(noted[n]))'
    BY DEF VerifiedInv
  <2>1. PICK read : read = views
    OBVIOUS
  <2>2. PICK best \in DOMAIN read : "Converged" \in Classify(read[best])
    BY <1>3, <2>1
  <2>3. Agreed(read) /\ IsViews(read)
    BY <1>1, <1>2, <2>1 DEF ViewsInv, ObserveInv, RunTypes
  <2>4. \A n \in DOMAIN read : "Converged" \in Classify(read[n])
    BY <2>2, <2>3 DEF Agreed
  <2>5. (\A n \in DOMAIN read : "Converged" \in Classify(read[n]))'
    BY <2>4 DEF Classify, Handshaking, Disconnected, FailedNode, SlotsCovered,
                HealthyMasters, SlotOwningMasters, ShapeMatches, HealthyReplicasOf, Healthy
  <2>6. Agreed(read)'
    BY <2>3, SameTables, AgreedStays DEF JudgeViews
  <2>7. noted' = read
    BY <1>3, <2>1
  <2> QED
    BY <2>2, <2>5, <2>6, <2>7
<1> QED
  BY <1>3, <1>4, <1>5, SameRedisKeeps DEF JudgeViews, ViewsInv

-----------------------------------------------------------------------------
(***************************************************************************)
(* The environment and what VerifyCluster reads.                           *)
(***************************************************************************)
LEMMA LinksViews ==
    ASSUME IInv, ViewsInv, NEW n \in Nodes, NEW m \in Nodes,
           Contact(n, m) \/ HandshakeEnds(n, m)
    PROVE  ViewsInv'
<1>1. RedisTypes
  BY TypeParts DEF IInv
<1>2. PICK e \in {"handshake", "known"} : LinkBecomes(n, m, e)
  BY DEF Contact, HandshakeEnds, LinkBecomes
<1>3. e \in LinkStates /\ link[n][m] # "known"
  BY DEF Contact, HandshakeEnds, LinkStates
<1>4. view' = view /\ plan' = plan
  BY DEF Contact, HandshakeEnds, planVars
<1>5. OwnLinksInv' /\ MastersInv' /\ HeardSlotsInv' /\ OwnSlotsInv' /\ TablesStay
  BY <1>1, <1>2, <1>3, <1>4, LinkRises
<1>6. UNCHANGED <<planVars, runVars, noted>>
  BY DEF Contact, HandshakeEnds, verifyVars
<1> QED
  BY <1>5, <1>6, EnvironmentStep

\* The node that is dropped was in handshake: no table has shown it as known.
LEMMA HandshakeExpiresViews ==
    ASSUME IInv, ViewsInv, NEW n \in Nodes, NEW m \in Nodes, HandshakeExpires(n, m)
    PROVE  ViewsInv'
<1>1. RedisTypes
  BY TypeParts DEF IInv
<1>2. LinkBecomes(n, m, "none") /\ "none" \in LinkStates /\ link[n][m] = "handshake"
  BY DEF HandshakeExpires, LinkBecomes, LinkStates
<1>3. /\ (link[n][m])' = "none"
      /\ \A i, j \in Nodes : i # n \/ j # m => (link[i][j])' = link[i][j]
  BY <1>1, <1>2, LinkChanges
<1>4. PICK f \in Nodes \cup {NoNode} :
         f = IF view[n][n].follows = m THEN NoNode ELSE view[n][n].follows
  BY <1>1 DEF RedisTypes, Claims
<1>5. /\ (view[n][n])' = [follows |-> f, slots |-> view[n][n].slots]
      /\ \A i, j \in Nodes : i # n \/ j # n => (view[i][j])' = view[i][j]
  <2>1. view' = [view EXCEPT ![n][n].follows = f]
    BY <1>4 DEF HandshakeExpires
  <2> QED
    BY ONLY <1>1, <2>1, FollowsChanges, Zenon
<1>6. LinksStay /\ OwnLinksInv'
  BY <1>2, <1>3 DEF LinksStay, ViewsInv, OwnLinksInv
<1>7. FollowersStay /\ MastersStayOrGo
  BY <1>2, <1>4, <1>5 DEF FollowersStay, MastersStayOrGo
<1>8. \A i, j \in Nodes : (view[i][j].slots)' = view[i][j].slots
  BY <1>5
<1>9. SlotsStay /\ HeardStay
  BY <1>5, <1>8 DEF SlotsStay, HeardStay
<1>10. MastersInv'
  <2> SUFFICES ASSUME NEW r \in Nodes, (view[r][r].follows)' # NoNode
               PROVE  (link[r][view[r][r].follows])' # "none"
    BY DEF MastersInv
  <2>1. /\ (view[r][r].follows)' = view[r][r].follows
        /\ r # n \/ view[r][r].follows # m
    BY <1>4, <1>5
  <2>2. view[r][r].follows \in Nodes /\ link[r][view[r][r].follows] # "none"
    BY <1>1, <2>1 DEF RedisTypes, Claims, ViewsInv, MastersInv
  <2> QED
    BY <1>3, <2>1, <2>2
<1>11. HeardSlotsInv' /\ OwnSlotsInv'
  BY <1>8 DEF ViewsInv, HeardSlotsInv, OwnSlotsInv, HandshakeExpires, planVars
<1>12. UNCHANGED <<planVars, runVars, noted>>
  BY DEF HandshakeExpires, verifyVars
<1> QED
  BY <1>6, <1>7, <1>9, <1>10, <1>11, <1>12, EnvironmentStep DEF TablesStay

\* A node that has heard of another once only hears more.
LEMMA HearViews ==
    ASSUME IInv, ViewsInv, NEW n \in Nodes, NEW m \in Nodes, Hear(n, m) PROVE ViewsInv'
<1>1. RedisTypes
  BY TypeParts DEF IInv
<1>2. PICK said \in Claims : said = Said(m)
  BY <1>1, SaidTypes
<1>3. /\ (view[n][m])' = said
      /\ \A i, j \in Nodes : i # n \/ j # m => (view[i][j])' = view[i][j]
  <2>1. ViewBecomes(n, m, said)
    BY <1>2 DEF Hear, ViewBecomes
  <2> QED
    BY <1>1, <2>1, ViewChanges
<1>4. n # m /\ link' = link
  BY DEF Hear
<1>5. /\ said.slots = view[m][m].slots
      /\ view[n][m].follows # NoNode => said.follows = view[n][m].follows
  <2>1. view[m][m] \in Claims
    BY <1>1 DEF RedisTypes
  <2> QED
    BY <1>2, <1>4, <2>1 DEF Said, Claims, IInv, HeardInv
<1>6. TablesStay
  <2>1. LinksStay /\ FollowersStay /\ SlotsStay /\ MastersStayOrGo
    BY <1>3, <1>4 DEF LinksStay, FollowersStay, SlotsStay, MastersStayOrGo
  <2>2. HeardStay
    BY <1>3, <1>5 DEF HeardStay, ViewsInv, HeardSlotsInv
  <2> QED
    BY <2>1, <2>2 DEF TablesStay
<1>7. OwnLinksInv' /\ MastersInv' /\ OwnSlotsInv'
  BY <1>3, <1>4 DEF ViewsInv, OwnLinksInv, MastersInv, OwnSlotsInv, Hear, planVars
<1>8. HeardSlotsInv'
  BY <1>3, <1>4, <1>5 DEF ViewsInv, HeardSlotsInv
<1>9. UNCHANGED <<planVars, runVars, noted>>
  BY DEF Hear, verifyVars
<1> QED
  BY <1>6, <1>7, <1>8, <1>9, EnvironmentStep

LEMMA RestViews ==
    ASSUME IInv, ViewsInv,
           \/ \E n \in Nodes : PodFails(n) \/ PodRecovers(n) \/ FlagsFollow(n)
           \/ TimePasses
           \/ UNCHANGED vars
    PROVE  ViewsInv'
<1>1. UNCHANGED <<redisVars, planVars, runVars, noted>>
  BY DEF PodFails, PodRecovers, FlagsFollow, TimePasses, vars, verifyVars
<1>2. plan' = plan
  BY <1>1 DEF planVars
<1> QED
  BY <1>1, <1>2, SameTables, SameRedisKeeps, EnvironmentStep

LEMMA RestartViews == ASSUME IInv, ViewsInv, Restart PROVE ViewsInv'
<1>1. UNCHANGED <<redisVars, planVars, noted>> /\ pc' = "idle"
  BY DEF Restart, EndRun, verifyVars
<1>2. plan' = plan /\ cur' = cur /\ status' = status /\ noted' = noted
  BY <1>1 DEF planVars
<1>3. ToAddInv' /\ ObserveInv'
  BY <1>1 DEF ToAddInv, ObserveInv
<1>4. VerifiedInv'
  BY <1>1, <1>2, SameTables, VerifiedStays DEF ViewsInv
<1> QED
  BY <1>1, <1>2, <1>3, <1>4, SameRedisKeeps DEF ViewsInv

LEMMA NextViews == ASSUME IInv, ViewsInv, [Next]_vars PROVE ViewsInv'
<1>1. CASE MeetNode \/ ClusterMeet \/ CheckMet
  BY <1>1, MeetNodeViews, ClusterMeetViews, CheckMetViews
<1>2. CASE ReplicateNode \/ ClusterReplicate \/ CheckReplicated
  BY <1>2, ReplicateNodeViews, ClusterReplicateViews, CheckReplicatedViews
<1>3. CASE AddSlots \/ (\E batch \in SUBSET Slots : AddBatch(batch)) \/ CheckAdded
  BY <1>3, AddSlotsViews, AddBatchViews, CheckAddedViews
<1>4. CASE VerifyCluster \/ (\E n \in Nodes : ReadView(n)) \/ JudgeViews
  BY <1>4, VerifyClusterViews, ReadViewViews, JudgeViewsViews
<1>5. CASE Settling
  BY <1>5, LinksViews, HearViews, RestViews DEF Settling
<1>6. CASE \E n, m \in Nodes : HandshakeExpires(n, m)
  BY <1>6, HandshakeExpiresViews
<1>7. CASE (\E n \in Nodes : PodFails(n)) \/ TimePasses \/ Restart \/ UNCHANGED vars
  BY <1>7, RestViews, RestartViews
<1> QED
  BY <1>1, <1>2, <1>3, <1>4, <1>5, <1>6, <1>7 DEF Next, Run

LEMMA InitViews == ASSUME Init PROVE ViewsInv
<1>1. \A n, m \in Nodes : view[n][m] = Fresh
  BY DEF Init
<1>2. MastersInv /\ HeardSlotsInv /\ OwnSlotsInv
  BY <1>1 DEF MastersInv, HeardSlotsInv, OwnSlotsInv, Fresh
<1>3. OwnLinksInv /\ ToAddInv /\ ObserveInv /\ VerifiedInv
  BY DEF Init, OwnLinksInv, ToAddInv, ObserveInv, VerifiedInv
<1> QED
  BY <1>2, <1>3 DEF ViewsInv

-----------------------------------------------------------------------------
(***************************************************************************)
(* What agreeing views without a handshake say is so.                      *)
(***************************************************************************)
LEMMA OneOwner ==
    ASSUME IInv, ViewsInv, NEW m \in Nodes, NEW k \in Nodes,
           NEW s \in view[m][m].slots, s \in view[k][k].slots
    PROVE  m = k
<1>1. PICK i \in DOMAIN plan :
         plan[i].action = "AddSlots" /\ plan[i].node = m /\ s \in plan[i].slots
  BY DEF ViewsInv, OwnSlotsInv
<1>2. PICK j \in DOMAIN plan :
         plan[j].action = "AddSlots" /\ plan[j].node = k /\ s \in plan[j].slots
  BY DEF ViewsInv, OwnSlotsInv
<1>3. i = j
  BY <1>1, <1>2, ClusterFormationAssumption DEF IInv, TypeOK
<1> QED
  BY <1>1, <1>2, <1>3

\* An owner follows no one.
LEMMA OwnersAreMasters ==
    ASSUME CarefulPlans, IInv, ViewsInv, NEW m \in Nodes, view[m][m].slots # {}
    PROVE  view[m][m].follows = NoNode /\ m \in PlannedOwners(plan)
<1>1. PICK s : s \in view[m][m].slots
  OBVIOUS
<1>2. PICK i \in DOMAIN plan :
         plan[i].action = "AddSlots" /\ plan[i].node = m /\ s \in plan[i].slots
  BY <1>1 DEF ViewsInv, OwnSlotsInv
<1>3. view[m][m].follows = NoNode
  <2> SUFFICES ASSUME view[m][m].follows # NoNode PROVE FALSE
    OBVIOUS
  <2>1. PICK j \in DOMAIN plan : plan[j].action = "ReplicateNode" /\ plan[j].replica = m
    BY DEF IInv, FollowsInv
  <2> QED
    BY <1>2, <2>1 DEF CarefulPlans, IInv, TypeOK
<1> QED
  BY <1>2, <1>3 DEF PlannedOwners

LEMMA AgreedIsTrue ==
    ASSUME IInv, ViewsInv, NEW read, IsViews(read), Agreed(read),
           NEW e, \A n \in DOMAIN read : read[n] = e,
           DOMAIN read # {}, ~Handshaking(e)
    PROVE  /\ DOMAIN read \subseteq DOMAIN e /\ DOMAIN e \subseteq Nodes
           /\ \A n, m \in DOMAIN read : link[n][m] = "known" /\ view[n][m] = view[m][m]
           /\ \A m \in DOMAIN read : e[m].slots = view[m][m].slots
                                     /\ e[m].follows = view[m][m].follows
           /\ \A m \in DOMAIN e :
                /\ e[m].link = "known"
                /\ e[m].slots \subseteq view[m][m].slots
                /\ e[m].follows # NoNode => view[m][m].follows = e[m].follows
<1>1. RedisTypes /\ HeardInv /\ HeardSlotsInv /\ OwnLinksInv
  BY TypeParts DEF IInv, ViewsInv
<1>2. \A n \in DOMAIN read : n \in Nodes /\ Observed(n, e)
  BY DEF Agreed, IsViews
<1>3. DOMAIN read \subseteq DOMAIN e
  BY <1>2 DEF Observed
<1>4. PICK p : p \in DOMAIN read
  OBVIOUS
<1>5. DOMAIN e \subseteq Nodes /\ e \in [DOMAIN e -> Seen]
  BY <1>4 DEF IsViews
<1>6. \A m \in DOMAIN e : e[m].link = "known"
  BY <1>2, <1>4 DEF Handshaking, Observed
<1>7. \A n \in DOMAIN read : \A m \in DOMAIN e :
         /\ link[n][m] = "known"
         /\ m # n => /\ e[m].slots \subseteq view[n][m].slots
                     /\ e[m].follows # NoNode => view[n][m].follows = e[m].follows
  BY <1>2, <1>6 DEF Observed
<1>8. \A n \in DOMAIN read :
         e[n].slots = view[n][n].slots /\ e[n].follows = view[n][n].follows
  <2> SUFFICES ASSUME NEW n \in DOMAIN read
               PROVE  e[n].slots = view[n][n].slots /\ e[n].follows = view[n][n].follows
    OBVIOUS
  <2>1. Observed(n, e)
    BY <1>2
  <2>2. CASE e[n].follows = NoNode
    BY <2>1, <2>2 DEF Observed
  <2>3. CASE e[n].follows # NoNode
    BY <1>6, <2>1, <2>3 DEF Observed
  <2> QED
    BY <2>2, <2>3
<1>9. \A m \in DOMAIN e :
         /\ e[m].slots \subseteq view[m][m].slots
         /\ e[m].follows # NoNode => view[m][m].follows = e[m].follows
  <2> SUFFICES ASSUME NEW m \in DOMAIN e
               PROVE  /\ e[m].slots \subseteq view[m][m].slots
                      /\ e[m].follows # NoNode => view[m][m].follows = e[m].follows
    OBVIOUS
  <2>1. CASE m = p
    BY <1>4, <1>8, <2>1
  <2>2. CASE m # p
    <3>1. p \in Nodes /\ m \in Nodes
      BY <1>2, <1>4, <1>5
    <3>2. /\ e[m].slots \subseteq view[p][m].slots
          /\ e[m].follows # NoNode => view[p][m].follows = e[m].follows
      BY <1>4, <1>7, <2>2
    <3>3. view[p][m].slots \subseteq view[m][m].slots
      BY <1>1, <3>1 DEF HeardSlotsInv
    <3>4. view[p][m].follows # NoNode => view[m][m].follows = view[p][m].follows
      BY <1>1, <2>2, <3>1 DEF HeardInv
    <3> QED
      BY <3>2, <3>3, <3>4
  <2> QED
    BY <2>1, <2>2
<1>10. \A n, m \in DOMAIN read : view[n][m] = view[m][m]
  <2> SUFFICES ASSUME NEW n \in DOMAIN read, NEW m \in DOMAIN read, n # m
               PROVE  view[n][m] = view[m][m]
    OBVIOUS
  <2>1. n \in Nodes /\ m \in Nodes /\ m \in DOMAIN e
    BY <1>2, <1>3
  <2>2. view[n][m] \in Claims /\ view[m][m] \in Claims
    BY <1>1, <2>1 DEF RedisTypes
  <2>3. view[n][m].slots = view[m][m].slots
    BY <1>1, <1>7, <1>8, <2>1, Zenon DEF HeardSlotsInv
  <2>4. view[n][m].follows = view[m][m].follows
    BY <1>1, <1>7, <1>8, <2>1 DEF HeardInv
  <2> QED
    BY <2>2, <2>3, <2>4 DEF Claims
<1> QED
  BY <1>3, <1>5, <1>6, <1>7, <1>8, <1>9, <1>10

LEMMA ConvergedMeans ==
    ASSUME NEW e, "Converged" \in Classify(e)
    PROVE  /\ ~Handshaking(e) /\ ~Disconnected(e) /\ ~FailedNode(e)
           /\ SlotsCovered(e) /\ ShapeMatches(e)
BY DEF Classify, ShapeMatches

\* Who is seen to own slots and who does.
LEMMA OwnersAreSeen ==
    ASSUME CarefulPlans, IInv, ViewsInv, NEW e, DOMAIN e \subseteq Nodes,
           ~Disconnected(e), ~FailedNode(e), SlotsCovered(e),
           \A m \in DOMAIN e :
                /\ e[m].link = "known"
                /\ e[m].slots \subseteq view[m][m].slots
                /\ e[m].follows # NoNode => view[m][m].follows = e[m].follows
    PROVE  /\ {m \in Nodes : view[m][m].slots # {}} = SlotOwningMasters(e)
           /\ UNION {view[m][m].slots : m \in SlotOwningMasters(e)} = Slots
<1>1. \A m \in DOMAIN e : Healthy(e[m])
  BY DEF Healthy, Disconnected, FailedNode
<1>2. \A m \in Nodes : view[m][m].slots \subseteq Slots
  BY DEF IInv, TypeOK, Claims
<1>3. ASSUME NEW m \in Nodes, view[m][m].slots # {} PROVE m \in SlotOwningMasters(e)
  <2>1. PICK s : s \in view[m][m].slots
    BY <1>3
  <2>2. PICK k \in DOMAIN e : s \in e[k].slots
    BY <1>2, <2>1 DEF SlotsCovered
  <2>3. k = m
    BY <2>1, <2>2, OneOwner
  <2>4. e[m].follows = NoNode
    BY <1>3, <2>2, <2>3, OwnersAreMasters
  <2> QED
    BY <1>1, <2>2, <2>3, <2>4 DEF SlotOwningMasters, HealthyMasters
<1>4. ASSUME NEW m \in SlotOwningMasters(e) PROVE m \in Nodes /\ view[m][m].slots # {}
  BY <1>4 DEF SlotOwningMasters, HealthyMasters
<1>5. ASSUME NEW s \in Slots PROVE \E m \in SlotOwningMasters(e) : s \in view[m][m].slots
  <2>1. PICK k \in DOMAIN e : s \in e[k].slots
    BY DEF SlotsCovered
  <2> QED
    BY <1>3, <2>1
<1>6. UNION {view[m][m].slots : m \in SlotOwningMasters(e)} = Slots
  BY <1>2, <1>4, <1>5
<1> QED
  BY <1>3, <1>4, <1>6

LEMMA ReplicasAreSeen ==
    ASSUME CarefulPlans, IInv, ViewsInv, NEW e, DOMAIN e \subseteq Nodes,
           NEW m \in Nodes, view[m][m].slots # {},
           \A r \in DOMAIN e : e[r].follows # NoNode => view[r][r].follows = e[r].follows,
           Cardinality(HealthyReplicasOf(e, m)) = ReplicasPerShard
    PROVE  Cardinality({r \in Nodes : Follows(r, m)}) = ReplicasPerShard
<1> DEFINE seen == HealthyReplicasOf(e, m)
           real == {r \in Nodes : Follows(r, m)}
           planned == PlannedReplicas(plan, m)
<1>1. m # NoNode
  BY ClusterFormationAssumption
<1>2. seen \subseteq real
  BY <1>1 DEF HealthyReplicasOf, Follows
<1>3. real \subseteq planned
  BY <1>1 DEF Follows, PlannedReplicas, IInv, FollowsInv
<1>4. Cardinality(planned) = ReplicasPerShard
  BY OwnersAreMasters DEF CarefulPlans, IInv, TypeOK
<1>5. planned \subseteq Nodes
  BY DEF PlannedReplicas
<1> HIDE DEF seen, real, planned
<1>6. IsFiniteSet(planned)
  BY <1>5, FS_Subset, ClusterFormationAssumption
<1>7. Cardinality(seen) = Cardinality(planned)
  BY <1>4 DEF seen
<1>8. seen = planned
  BY <1>2, <1>3, <1>6, <1>7, FS_Subset
<1>9. real = planned
  BY <1>2, <1>3, <1>8
<1> QED
  BY <1>4, <1>9 DEF real

LEMMA ViewsAgree == ASSUME CarefulPlans, IInv, ViewsInv PROVE VerifiedViewsAgree
<1> SUFFICES ASSUME status = "Completed", Step.action = "VerifyCluster"
             PROVE  /\ \A n, m \in DOMAIN noted :
                          link[n][m] = "known" /\ view[n][m] = view[m][m]
                    /\ LET owners == {m \in Nodes : view[m][m].slots # {}}
                       IN /\ UNION {view[m][m].slots : m \in owners} = Slots
                          /\ Cardinality(owners) = Shards
                          /\ \A m \in owners :
                               Cardinality({r \in Nodes : Follows(r, m)}) = ReplicasPerShard
  BY DEF VerifiedViewsAgree
<1>1. PICK read : read = noted
  OBVIOUS
<1>2. IsViews(read) /\ Agreed(read) /\ DOMAIN read # {}
  BY <1>1 DEF ViewsInv, VerifiedInv, IInv, TypeOK
<1>3. PICK p \in DOMAIN read : "Converged" \in Classify(read[p])
  BY <1>1, <1>2 DEF ViewsInv, VerifiedInv
<1>4. PICK e : e = read[p]
  OBVIOUS
<1>5. \A n \in DOMAIN read : read[n] = e
  BY <1>2, <1>4 DEF Agreed
<1>6. /\ ~Handshaking(e) /\ ~Disconnected(e) /\ ~FailedNode(e)
      /\ SlotsCovered(e) /\ ShapeMatches(e)
  BY <1>3, <1>4, ConvergedMeans
<1>7. /\ DOMAIN e \subseteq Nodes
      /\ \A n, m \in DOMAIN read : link[n][m] = "known" /\ view[n][m] = view[m][m]
      /\ \A m \in DOMAIN e :
           /\ e[m].link = "known"
           /\ e[m].slots \subseteq view[m][m].slots
           /\ e[m].follows # NoNode => view[m][m].follows = e[m].follows
  BY <1>2, <1>5, <1>6, AgreedIsTrue
<1>8. /\ {m \in Nodes : view[m][m].slots # {}} = SlotOwningMasters(e)
      /\ UNION {view[m][m].slots : m \in SlotOwningMasters(e)} = Slots
  BY <1>6, <1>7, OwnersAreSeen
<1>9. ASSUME NEW m \in Nodes, view[m][m].slots # {}
      PROVE  Cardinality({r \in Nodes : Follows(r, m)}) = ReplicasPerShard
  <2>1. m \in SlotOwningMasters(e)
    BY <1>8, <1>9
  <2>2. Cardinality(HealthyReplicasOf(e, m)) = ReplicasPerShard
    BY <1>6, <2>1 DEF ShapeMatches
  <2> QED
    BY <1>7, <1>9, <2>2, ReplicasAreSeen
<1>10. Cardinality(SlotOwningMasters(e)) = Shards
  BY <1>6 DEF ShapeMatches
<1> QED
  BY <1>1, <1>7, <1>8, <1>9, <1>10

LEMMA ViewsInvariant == ASSUME CarefulPlans PROVE Spec => [](IInv /\ ViewsInv)
<1>1. OneMaster
  BY DEF CarefulPlans
<1>2. IInv /\ [Next]_vars => IInv'
  BY <1>1, NextKeeps, StutterKeeps
<1>3. IInv /\ ViewsInv /\ [Next]_vars => ViewsInv'
  BY NextViews
<1> QED
  BY <1>2, <1>3, InitIInv, InitViews, PTL DEF Spec

\* A verified cluster is whole and every observed pod knows it as it is, whatever
\* fails, is lost or restarts on the way (verifyCluster, classifyClusterView): a
\* table only says what was true and stays true, so the slots and replicas that the
\* agreeing tables show are squeezed between the plan and the nodes' own tables.
THEOREM VerifiedClustersAreWhole ==
    ASSUME CarefulPlans PROVE Spec => []VerifiedViewsAgree
<1>1. IInv /\ ViewsInv => VerifiedViewsAgree
  BY ViewsAgree
<1> QED
  BY <1>1, ViewsInvariant, PTL

-----------------------------------------------------------------------------
(***************************************************************************)
(* A plan without faults.                                                  *)
(***************************************************************************)
LEMMA CalmReport ==
    ASSUME IInv, faults' = 0, NEW outcome, Report(outcome)
    PROVE  faults = 0 /\ Record(outcome) /\ EndRun
BY DEF Report, Fault, IInv, TypeOK

LEMMA CalmGoOn ==
    ASSUME IInv, faults' = 0, NEW next, NEW left, GoOn(next, left)
    PROVE  faults = 0 /\ pc' = next /\ UNCHANGED planVars
BY DEF GoOn, Fault, IInv, TypeOK

\* No node loses its master.
FollowsStay ==
    \A r \in Nodes :
        view[r][r].follows # NoNode => (view[r][r].follows)' = view[r][r].follows

LEMMA ReplicatedStays ==
    ASSUME RunTypes, ReplicatedInv, FollowsStay, plan' = plan, cur' = cur
    PROVE  ReplicatedInv'
<1> SUFFICES ASSUME NEW i \in 1 .. (cur - 1), plan[i].action = "ReplicateNode"
             PROVE  (Follows(plan[i].replica, plan[i].master))'
  BY DEF ReplicatedInv
<1>1. i \in DOMAIN plan /\ plan[i] \in PlanSteps
  BY PlanTypes DEF RunTypes
<1>2. PICK r \in Nodes, m \in Nodes : r = plan[i].replica /\ m = plan[i].master
  BY <1>1 DEF PlanSteps
<1>3. Follows(r, m) /\ m # NoNode
  BY <1>2, ClusterFormationAssumption DEF ReplicatedInv
<1>4. Follows(r, m)'
  BY <1>3 DEF FollowsStay, Follows
<1> QED
  BY <1>2, <1>4 DEF Follows

\* The current step is recorded: if it is a ReplicateNode, the replica follows.
LEMMA ReplicatedGrows ==
    ASSUME RunTypes, ReplicatedInv, FollowsStay, NEW outcome, Record(outcome),
           Step.action = "ReplicateNode" /\ outcome = "Completed" =>
                Follows(Step.replica, Step.master)
    PROVE  ReplicatedInv'
<1>1. plan' = plan
  BY DEF Record
<1>2. CASE cur' = cur
  BY <1>1, <1>2, ReplicatedStays
<1>3. CASE cur' = cur + 1 /\ outcome = "Completed"
  <2> SUFFICES ASSUME NEW i \in 1 .. (cur' - 1), plan[i].action = "ReplicateNode"
               PROVE  (Follows(plan[i].replica, plan[i].master))'
    BY <1>1 DEF ReplicatedInv
  <2>1. cur \in Nat /\ cur \in DOMAIN plan /\ i \in 1 .. cur
    BY <1>3, PlanTypes DEF RunTypes
  <2>2. i \in DOMAIN plan /\ plan[i] \in PlanSteps
    BY <2>1, PlanTypes DEF RunTypes
  <2>3. PICK r \in Nodes, m \in Nodes : r = plan[i].replica /\ m = plan[i].master
    BY <2>2 DEF PlanSteps
  <2>4. Follows(r, m) /\ m # NoNode
    <3>1. CASE i = cur
      BY <1>3, <2>3, <3>1, ClusterFormationAssumption DEF Step
    <3>2. CASE i # cur
      BY <2>1, <2>3, <3>2, ClusterFormationAssumption DEF ReplicatedInv
    <3> QED
      BY <3>1, <3>2
  <2>5. Follows(r, m)'
    BY <2>4 DEF FollowsStay, Follows
  <2> QED
    BY <1>1, <2>3, <2>5 DEF Follows
<1> QED
  BY <1>2, <1>3 DEF Record

\* A step other than VerifyCluster that ends well, goes on, or fails for a cause.
LEMMA OtherStepCalm ==
    ASSUME IInv, CalmInv, faults = 0, status = "Running", UNCHANGED <<podVars, timeVars>>,
           plan' = plan, pc' # "observe", ReplicatedInv',
           \/ status' \in {"Running", "Completed"}
           \/ status' = "Failed" /\ cur' = cur /\ (late \/ Step.action = "ReplicateNode")
    PROVE  CalmInv'
<1>1. (\A n \in Nodes : pod[n] = "ready")' /\ flagged' = {}
  BY DEF CalmInv, podVars
<1>2. CalmObserveInv' /\ status' # "Superseded"
  BY DEF CalmObserveInv
<1>3. status' = "Failed" => (late \/ Step.action = "ReplicateNode")'
  BY DEF timeVars, Step
<1> QED
  BY <1>1, <1>2, <1>3 DEF CalmInv

LEMMA EnvironmentCalm ==
    ASSUME IInv, CalmInv, faults' = faults, UNCHANGED <<planVars, podVars, runVars>>,
           late => late', FollowsStay, SlotsStay
    PROVE  CalmInv'
<1> SUFFICES ASSUME faults = 0 PROVE CalmInv'
  BY DEF CalmInv
<1>1. plan' = plan /\ cur' = cur /\ status' = status /\ Step' = Step /\ RunTypes
        /\ pc' = pc /\ listed' = listed /\ views' = views /\ pod' = pod /\ flagged' = flagged
  BY TypeParts DEF planVars, runVars, podVars, Step, IInv
<1>2. ReplicatedInv'
  BY <1>1, ReplicatedStays DEF CalmInv
<1>3. CalmObserveInv'
  <2>1. CASE pc = "observe"
    <3>1. \A s \in Slots : \E m \in Nodes : s \in (view[m][m].slots)'
      BY <2>1 DEF CalmInv, CalmObserveInv, SlotsStay
    <3> QED
      BY <1>1, <2>1, <3>1 DEF CalmInv, CalmObserveInv
  <2>2. CASE pc # "observe"
    BY <1>1, <2>2 DEF CalmObserveInv
  <2> QED
    BY <2>1, <2>2
<1> QED
  BY <1>1, <1>2, <1>3 DEF CalmInv

LEMMA SameFollows == ASSUME view' = view PROVE FollowsStay /\ SlotsStay
BY DEF FollowsStay, SlotsStay

-----------------------------------------------------------------------------
(***************************************************************************)
(* The steps without faults.                                               *)
(***************************************************************************)
LEMMA CalmParts ==
    ASSUME CalmInv, faults = 0
    PROVE  /\ \A n \in Nodes : Answers(n)
           /\ ReplicatedInv
BY DEF CalmInv, Answers

\* A run of MeetNode or AddSlots that does not fail.
LEMMA CalmRun ==
    ASSUME IInv, CalmInv, faults' = 0, status = "Running", UNCHANGED <<podVars, timeVars>>,
           FollowsStay,
           \/ Step.action # "ReplicateNode" /\ Report("Completed")
           \/ Running
           \/ \E next \in {"meet", "met", "replicated", "add", "added"}, left \in SUBSET Slots :
                GoOn(next, left)
    PROVE  CalmInv'
<1>1. RunTypes
  BY TypeParts DEF IInv
<1>2. faults = 0
  BY CalmReport, CalmGoOn DEF Running
<1>3. ReplicatedInv
  BY <1>2, CalmParts
<1>4. CASE Step.action # "ReplicateNode" /\ Report("Completed")
  <2>1. Record("Completed") /\ plan' = plan /\ pc' = "idle"
    BY <1>4, CalmReport, ReportEnds
  <2>2. ReplicatedInv'
    BY <1>1, <1>3, <1>4, <2>1, ReplicatedGrows
  <2>3. status' \in {"Running", "Completed"}
    BY <2>1 DEF Record
  <2> QED
    BY <1>2, <2>1, <2>2, <2>3, OtherStepCalm
<1>5. CASE Running
  <2>1. plan' = plan /\ cur' = cur /\ status' = "Running" /\ pc' = "idle"
    BY <1>5, RunningEnds
  <2> QED
    BY <1>1, <1>2, <1>3, <2>1, ReplicatedStays, OtherStepCalm
<1>6. CASE \E next \in {"meet", "met", "replicated", "add", "added"}, left \in SUBSET Slots :
               GoOn(next, left)
  <2>1. plan' = plan /\ cur' = cur /\ status' = "Running" /\ pc' # "observe"
    BY <1>6, CalmGoOn DEF planVars
  <2> QED
    BY <1>1, <1>2, <1>3, <2>1, ReplicatedStays, OtherStepCalm
<1> QED
  BY <1>4, <1>5, <1>6

LEMMA MeetNodeCalm == ASSUME IInv, CalmInv, faults' = 0, MeetNode PROVE CalmInv'
<1>1. status = "Running" /\ Step.action = "MeetNode" /\ FollowsStay
        /\ UNCHANGED <<podVars, timeVars>>
  BY SameFollows DEF MeetNode, At, redisVars
<1>2. Report("Completed") \/ GoOn("meet", {})
  BY DEF MeetNode
<1> QED
  BY <1>1, <1>2, CalmRun

LEMMA ClusterMeetCalm == ASSUME IInv, CalmInv, faults' = 0, ClusterMeet PROVE CalmInv'
<1>1. status = "Running" /\ Step.action = "MeetNode" /\ FollowsStay
        /\ UNCHANGED <<podVars, timeVars>> /\ RunTypes
  BY SameFollows, TypeParts DEF ClusterMeet, At, IInv
<1>2. faults = 0
  BY CalmReport, CalmGoOn DEF ClusterMeet
<1>3. Answers(Step.source)
  BY <1>1, <1>2, CalmParts, StepTypes
<1>4. GoOn("met", {})
  BY <1>3 DEF ClusterMeet
<1> QED
  BY <1>1, <1>4, CalmRun

LEMMA CheckMetCalm == ASSUME IInv, CalmInv, faults' = 0, CheckMet PROVE CalmInv'
<1>1. status = "Running" /\ Step.action = "MeetNode" /\ FollowsStay
        /\ UNCHANGED <<podVars, timeVars>>
  BY SameFollows DEF CheckMet, At, redisVars
<1>2. Report("Completed") \/ Running
  BY DEF CheckMet
<1> QED
  BY <1>1, <1>2, CalmRun

\* A run of ReplicateNode that ends: only with the replica in place it completes.
LEMMA ReplicateCalm ==
    ASSUME IInv, CalmInv, faults' = 0, status = "Running", Step.action = "ReplicateNode",
           UNCHANGED <<podVars, timeVars, view>>,
           \/ Follows(Step.replica, Step.master) /\ Report("Completed")
           \/ Report("Failed")
    PROVE  CalmInv'
<1>1. RunTypes /\ FollowsStay
  BY TypeParts, SameFollows DEF IInv
<1>2. PICK outcome \in {"Completed", "Failed"} :
         /\ Report(outcome)
         /\ outcome = "Completed" => Follows(Step.replica, Step.master)
  OBVIOUS
<1>3. faults = 0 /\ Record(outcome) /\ plan' = plan /\ pc' = "idle"
  BY <1>2, CalmReport, ReportEnds
<1>4. ReplicatedInv'
  BY <1>1, <1>2, <1>3, CalmParts, ReplicatedGrows
<1>5. status' \in {"Running", "Completed"} \/ (status' = "Failed" /\ cur' = cur)
  BY <1>3 DEF Record
<1> QED
  BY <1>3, <1>4, <1>5, OtherStepCalm

LEMMA ReplicateNodeCalm == ASSUME IInv, CalmInv, faults' = 0, ReplicateNode PROVE CalmInv'
<1>1. status = "Running" /\ Step.action = "ReplicateNode" /\ FollowsStay
        /\ UNCHANGED <<podVars, timeVars, view>> /\ RunTypes
  BY SameFollows, TypeParts DEF ReplicateNode, At, redisVars, IInv
<1>2. CASE Report("Failed") \/ (Follows(Step.replica, Step.master) /\ Report("Completed"))
  BY <1>1, <1>2, ReplicateCalm
<1>3. CASE pc' = "replicate" /\ UNCHANGED <<planVars, faults>>
  <2>1. plan' = plan /\ cur' = cur /\ status' = "Running" /\ faults = 0
    BY <1>1, <1>3 DEF planVars
  <2> QED
    BY <1>1, <1>3, <2>1, CalmParts, ReplicatedStays, OtherStepCalm
<1> QED
  BY <1>2, <1>3 DEF ReplicateNode

LEMMA CheckReplicatedCalm ==
    ASSUME IInv, CalmInv, faults' = 0, CheckReplicated PROVE CalmInv'
<1>1. status = "Running" /\ Step.action = "ReplicateNode" /\ FollowsStay
        /\ UNCHANGED <<podVars, timeVars, view>>
  BY SameFollows DEF CheckReplicated, At, redisVars
<1>2. CASE Follows(Step.replica, Step.master) /\ Report("Completed")
  BY <1>1, <1>2, ReplicateCalm
<1>3. CASE Running
  BY <1>1, <1>3, CalmRun
<1> QED
  BY <1>2, <1>3 DEF CheckReplicated

LEMMA ClusterReplicateCalm ==
    ASSUME CarefulPlans, IInv, CalmInv, faults' = 0, ClusterReplicate PROVE CalmInv'
<1>1. status = "Running" /\ Step.action = "ReplicateNode" /\ UNCHANGED <<podVars, timeVars>>
        /\ RunTypes /\ RedisTypes
  BY TypeParts DEF ClusterReplicate, At, IInv
<1>2. CASE Report("Failed") /\ UNCHANGED view
  BY <1>1, <1>2, ReplicateCalm
<1>3. CASE /\ view' = [view EXCEPT ![Step.replica][Step.replica].follows = Step.master]
           /\ GoOn("replicated", {})
  <2>1. PICK r \in Nodes, m \in Nodes : r = Step.replica /\ m = Step.master
    BY <1>1, StepTypes
  <2>2. /\ (view[r][r])' = [follows |-> m, slots |-> view[r][r].slots]
        /\ \A i, j \in Nodes : i # r \/ j # r => (view[i][j])' = view[i][j]
    <3>1. view' = [view EXCEPT ![r][r].follows = m]
      BY <1>3, <2>1
    <3> QED
      BY ONLY <1>1, <3>1, FollowsChanges, Zenon
  <2>3. view[r][r].follows \in {NoNode, m}
    BY <1>1, <2>1 DEF IInv, FollowsInv, CarefulPlans, OneMaster, RunTypes, Step
  <2>4. FollowsStay
    BY <2>2, <2>3 DEF FollowsStay
  <2> QED
    BY <1>1, <1>3, <2>4, CalmRun
<1> QED
  BY <1>2, <1>3 DEF ClusterReplicate

\* No other step of the plan has made the node a replica or given its slots away.
LEMMA AddSlotsIsFree ==
    ASSUME CarefulPlans, IInv, ViewsInv, Step.action = "AddSlots"
    PROVE  /\ ~IsReplica(Step.node, Step.node)
           /\ \A s \in Step.slots : ~OwnedByOther(Step.node, s)
<1>1. RunTypes /\ RedisTypes /\ cur \in DOMAIN plan /\ plan \in Plans
  BY TypeParts DEF IInv, TypeOK
<1>2. Step.node \in Nodes
  BY <1>1, StepTypes
<1>3. ~IsReplica(Step.node, Step.node)
  <2> SUFFICES ASSUME view[Step.node][Step.node].follows # NoNode PROVE FALSE
    BY DEF IsReplica
  <2>1. PICK j \in DOMAIN plan :
           plan[j].action = "ReplicateNode" /\ plan[j].replica = Step.node
    BY <1>2 DEF IInv, FollowsInv
  <2> QED
    BY <1>1, <2>1 DEF CarefulPlans, Step
<1>4. ASSUME NEW s \in Step.slots, NEW m \in Nodes \ {Step.node},
             s \in view[Step.node][m].slots
      PROVE  FALSE
  <2>1. s \in view[m][m].slots
    BY <1>2, <1>4 DEF ViewsInv, HeardSlotsInv
  <2>2. PICK i \in DOMAIN plan :
           plan[i].action = "AddSlots" /\ plan[i].node = m /\ s \in plan[i].slots
    BY <2>1 DEF ViewsInv, OwnSlotsInv
  <2>3. i = cur
    BY <1>1, <1>4, <2>2, ClusterFormationAssumption DEF Step
  <2> QED
    BY <2>2, <2>3 DEF Step
<1> QED
  BY <1>3, <1>4 DEF OwnedByOther

LEMMA AddSlotsCalm ==
    ASSUME CarefulPlans, IInv, ViewsInv, CalmInv, faults' = 0, AddSlots PROVE CalmInv'
<1>1. status = "Running" /\ Step.action = "AddSlots" /\ FollowsStay
        /\ UNCHANGED <<podVars, timeVars>> /\ RunTypes
  BY SameFollows, TypeParts DEF AddSlots, At, redisVars, IInv
<1>2. PICK missing \in SUBSET Slots : missing = Step.slots \ view[Step.node][Step.node].slots
  BY <1>1, StepTypes
<1>3. Report("Completed") \/ GoOn("add", missing)
  BY <1>1, <1>2, AddSlotsIsFree DEF AddSlots
<1> QED
  BY <1>1, <1>3, CalmRun

LEMMA AddBatchCalm ==
    ASSUME CarefulPlans, IInv, ViewsInv, CalmInv, faults' = 0,
           NEW batch \in SUBSET Slots, AddBatch(batch)
    PROVE  CalmInv'
<1>1. status = "Running" /\ Step.action = "AddSlots" /\ RunTypes /\ RedisTypes
        /\ UNCHANGED <<podVars, timeVars>>
  BY TypeParts DEF AddBatch, At, IInv
<1>2. PICK n \in Nodes : n = Step.node
  BY <1>1, StepTypes
<1>3. faults = 0
  BY CalmReport, CalmGoOn DEF AddBatch
<1>4. Answers(Step.node) /\ \A s \in batch : ~OwnedByOther(Step.node, s)
  BY <1>1, <1>2, <1>3, CalmParts, AddSlotsIsFree DEF AddBatch, At, ViewsInv, ToAddInv
<1>5. /\ view' = [view EXCEPT ![n][n].slots = @ \cup batch]
      /\ GoOn(IF batch = toAdd THEN "added" ELSE "add", toAdd \ batch)
  BY <1>2, <1>4 DEF AddBatch
<1>6. /\ (view[n][n])' = [follows |-> view[n][n].follows,
                         slots |-> view[n][n].slots \cup batch]
      /\ \A i, j \in Nodes : i # n \/ j # n => (view[i][j])' = view[i][j]
  BY ONLY <1>1, <1>5, SlotsChange, Zenon
<1>7. FollowsStay
  BY <1>6 DEF FollowsStay
<1>8. \E next \in {"meet", "met", "replicated", "add", "added"}, left \in SUBSET Slots :
         GoOn(next, left)
  <2>1. toAdd \ batch \in SUBSET Slots
    BY <1>1 DEF RunTypes
  <2> QED
    BY <1>5, <2>1
<1> QED
  BY <1>1, <1>7, <1>8, CalmRun

LEMMA CheckAddedCalm == ASSUME IInv, CalmInv, faults' = 0, CheckAdded PROVE CalmInv'
<1>1. status = "Running" /\ Step.action = "AddSlots" /\ FollowsStay
        /\ UNCHANGED <<podVars, timeVars>>
  BY SameFollows DEF CheckAdded, At, redisVars
<1>2. Report("Completed") \/ Running
  BY DEF CheckAdded
<1> QED
  BY <1>1, <1>2, CalmRun

LEMMA NotStableCalm ==
    ASSUME IInv, CalmInv, faults' = 0, status = "Running", Step.action = "VerifyCluster",
           UNCHANGED <<podVars, timeVars, view>>, NEW obs, NotStable(obs)
    PROVE  CalmInv'
<1>1. RunTypes /\ FollowsStay
  BY TypeParts, SameFollows DEF IInv
<1>2. CASE late /\ Report("Failed")
  <2>1. faults = 0 /\ Record("Failed") /\ plan' = plan /\ pc' = "idle"
    BY <1>2, CalmReport, ReportEnds
  <2>2. ReplicatedInv'
    BY <1>1, <2>1, CalmParts, ReplicatedGrows
  <2>3. status' = "Failed" /\ cur' = cur
    BY <2>1 DEF Record
  <2> QED
    BY <1>2, <2>1, <2>2, <2>3, OtherStepCalm
<1>3. CASE Running
  BY <1>1, <1>3, CalmRun
<1>4. CASE Fault
  BY <1>4 DEF Fault, IInv, TypeOK
<1> QED
  BY <1>2, <1>3, <1>4 DEF NotStable

\* What one table shows as covered is covered.
LEMMA CoveredIsOwned ==
    ASSUME IInv, ViewsInv, NEW n \in Nodes, SlotsCovered(Entries(n))
    PROVE  \A s \in Slots : \E m \in Nodes : s \in view[m][m].slots
<1> SUFFICES ASSUME NEW s \in Slots PROVE \E m \in Nodes : s \in view[m][m].slots
  OBVIOUS
<1>1. PICK e : e = Entries(n)
  OBVIOUS
<1>2. PICK m \in DOMAIN e : s \in e[m].slots
  BY <1>1 DEF SlotsCovered
<1>3. m \in Nodes /\ e[m].slots = view[n][m].slots
  BY <1>1 DEF Entries
<1> QED
  BY <1>2, <1>3 DEF ViewsInv, HeardSlotsInv

LEMMA VerifyClusterCalm ==
    ASSUME IInv, ViewsInv, CalmInv, faults' = 0, VerifyCluster PROVE CalmInv'
<1>1. status = "Running" /\ Step.action = "VerifyCluster" /\ RunTypes /\ FollowsStay
        /\ UNCHANGED <<podVars, timeVars, view>>
  BY TypeParts, SameFollows DEF VerifyCluster, At, redisVars, IInv
<1>2. CASE NotStable(noted)
  BY <1>1, <1>2, NotStableCalm
<1>3. CASE \E down \in SUBSET {n \in Nodes : pod[n] = "down"} :
             LET pods == {n \in Nodes : pod[n] = "ready"} \cup down
             IN /\ \E n \in pods : StateOK(Entries(n))
                /\ pc' = "observe" /\ listed' = pods /\ views' = Nothing
                /\ UNCHANGED <<planVars, faults>>
  <2>1. faults = 0 /\ plan' = plan /\ cur' = cur /\ status' = "Running"
    BY <1>1, <1>3 DEF planVars
  <2>2. (\A n \in Nodes : pod[n] = "ready") /\ flagged = {} /\ ReplicatedInv
    BY <2>1 DEF CalmInv
  <2>3. /\ listed' = Nodes /\ pc' = "observe" /\ views' = Nothing
        /\ \E n \in Nodes : StateOK(Entries(n))
    BY <1>3, <2>2
  <2>4. \A s \in Slots : \E m \in Nodes : s \in view[m][m].slots
    BY <2>3, CoveredIsOwned DEF StateOK
  <2>5. CalmObserveInv'
    BY <1>1, <2>3, <2>4 DEF CalmObserveInv, Nothing
  <2>6. ReplicatedInv'
    BY <1>1, <2>1, <2>2, ReplicatedStays
  <2> QED
    BY <1>1, <2>1, <2>2, <2>5, <2>6 DEF CalmInv, podVars
<1> QED
  BY <1>2, <1>3 DEF VerifyCluster

LEMMA ReadViewCalm ==
    ASSUME IInv, CalmInv, faults' = 0, NEW n \in Nodes, ReadView(n) PROVE CalmInv'
<1>1. status = "Running" /\ Step.action = "VerifyCluster" /\ RunTypes /\ FollowsStay
        /\ UNCHANGED <<podVars, timeVars, view>> /\ pc = "observe"
  BY TypeParts, SameFollows DEF ReadView, At, redisVars, IInv
<1>2. CASE Running
  BY <1>1, <1>2, CalmRun
<1>3. CASE /\ listed' = listed \ {n}
           /\ views' = IF Answers(n)
                       THEN [p \in DOMAIN views \cup {n} |->
                                IF p = n THEN Entries(n) ELSE views[p]]
                       ELSE views
           /\ UNCHANGED <<pc, planVars, faults>>
  <2>1. faults = 0 /\ plan' = plan /\ cur' = cur /\ status' = "Running" /\ pc' = "observe"
    BY <1>1, <1>3 DEF planVars
  <2>2. /\ \A m \in Nodes : pod[m] = "ready" /\ Answers(m)
        /\ flagged = {} /\ ReplicatedInv /\ CalmObserveInv
    BY <2>1 DEF CalmInv, Answers
  <2>3. PICK e : e = Entries(n)
    OBVIOUS
  <2>4. \A m \in DOMAIN e : e[m].connected /\ ~e[m].fails
    <3>1. \A m \in DOMAIN e :
             m \in Nodes /\ e[m].connected = Answers(m) /\ e[m].fails = (m \in flagged)
      BY <2>3 DEF Entries
    <3> QED
      BY <2>2, <3>1, Zenon
  <2>5. views' = [p \in DOMAIN views \cup {n} |-> IF p = n THEN e ELSE views[p]]
    BY <1>3, <2>2, <2>3
  <2>6. \A p \in DOMAIN views' : \A m \in DOMAIN views'[p] :
           views'[p][m].connected /\ ~views'[p][m].fails
    BY <1>1, <2>2, <2>4, <2>5 DEF CalmObserveInv
  <2>7. CalmObserveInv'
    <3>1. listed' \cup DOMAIN views' = Nodes
      BY <1>1, <1>3, <2>2, <2>5 DEF CalmObserveInv
    <3> QED
      BY <1>1, <2>2, <2>6, <3>1 DEF CalmObserveInv
  <2>8. ReplicatedInv'
    BY <1>1, <2>1, <2>2, ReplicatedStays
  <2> QED
    BY <1>1, <2>1, <2>2, <2>7, <2>8 DEF CalmInv, podVars
<1> QED
  BY <1>2, <1>3 DEF ReadView

\* The planned owners own their slots once all slots are owned.
LEMMA OwnersAsPlanned ==
    ASSUME CarefulPlans, IInv, ViewsInv,
           \A s \in Slots : \E m \in Nodes : s \in view[m][m].slots
    PROVE  {m \in Nodes : view[m][m].slots # {}} = PlannedOwners(plan)
<1>1. ASSUME NEW m \in PlannedOwners(plan) PROVE view[m][m].slots # {}
  <2>1. PICK i \in DOMAIN plan :
           plan[i].action = "AddSlots" /\ plan[i].node = m /\ plan[i].slots # {}
    BY DEF PlannedOwners
  <2>2. PICK s \in plan[i].slots : TRUE
    BY <2>1
  <2>3. s \in Slots
    BY <2>1, PlanTypes DEF IInv, TypeOK, PlanSteps
  <2>4. PICK k \in Nodes : s \in view[k][k].slots
    BY <2>3
  <2>5. PICK j \in DOMAIN plan :
           plan[j].action = "AddSlots" /\ plan[j].node = k /\ s \in plan[j].slots
    BY <2>4 DEF ViewsInv, OwnSlotsInv
  <2>6. i = j
    BY <2>1, <2>2, <2>5, ClusterFormationAssumption DEF IInv, TypeOK
  <2> QED
    BY <2>1, <2>4, <2>5, <2>6
<1> QED
  BY <1>1, OwnersAreMasters DEF PlannedOwners

\* The views of all nodes, which agree, show the cluster that was planned.
LEMMA NothingToRepair ==
    ASSUME CarefulPlans, IInv, ViewsInv, CalmInv, faults = 0, pc = "observe", listed = {},
           NEW best \in DOMAIN views
    PROVE  "NeedsRepair" \notin Classify(views[best])
<1>1. PICK read : read = views
  OBVIOUS
<1>2. PICK e : e = read[best]
  OBVIOUS
<1> SUFFICES ASSUME "NeedsRepair" \in Classify(e) PROVE FALSE
  BY <1>1, <1>2
<1>3. IsViews(read) /\ Agreed(read) /\ DOMAIN read # {} /\ Step.action = "VerifyCluster"
  BY <1>1 DEF IInv, TypeOK, ViewsInv, ObserveInv
<1>4. \A n \in DOMAIN read : read[n] = e
  BY <1>1, <1>2, <1>3 DEF Agreed
<1>5. /\ DOMAIN read = Nodes
      /\ \A s \in Slots : \E m \in Nodes : s \in view[m][m].slots
      /\ \A m \in DOMAIN e : e[m].connected /\ ~e[m].fails
      /\ ReplicatedInv
  BY <1>1, <1>2 DEF CalmInv, CalmObserveInv
<1>6. ~Disconnected(e) /\ ~FailedNode(e)
  BY <1>5 DEF Disconnected, FailedNode
<1>7. ~Handshaking(e) /\ ~ShapeMatches(e)
  BY <1>6 DEF Classify
<1>8. /\ DOMAIN e = Nodes
      /\ \A m \in Nodes : e[m].slots = view[m][m].slots /\ e[m].follows = view[m][m].follows
      /\ \A m \in Nodes : e[m].link = "known"
  <2>1. /\ DOMAIN read \subseteq DOMAIN e /\ DOMAIN e \subseteq Nodes
        /\ \A m \in DOMAIN read : e[m].slots = view[m][m].slots
                                  /\ e[m].follows = view[m][m].follows
        /\ \A m \in DOMAIN e : e[m].link = "known"
    BY <1>3, <1>4, <1>7, AgreedIsTrue
  <2> QED
    BY <1>5, <2>1
<1>9. \A m \in Nodes : Healthy(e[m])
  BY <1>5, <1>8 DEF Healthy
<1>10. SlotsCovered(e)
  <2>1. \A m \in Nodes : e[m].slots \subseteq Slots
    BY <1>8 DEF IInv, TypeOK, Claims
  <2> QED
    BY <1>5, <1>8, <2>1 DEF SlotsCovered
<1>11. SlotOwningMasters(e) = PlannedOwners(plan)
  <2>1. {m \in Nodes : view[m][m].slots # {}} = SlotOwningMasters(e)
    BY <1>6, <1>8, <1>10, OwnersAreSeen
  <2> QED
    BY <1>5, <2>1, OwnersAsPlanned
<1>12. plan \in Plans /\ cur \in DOMAIN plan /\ DOMAIN plan = 1 .. Len(plan)
         /\ Len(plan) \in Nat
  BY PlanTypes DEF IInv, TypeOK
<1>13. cur = Len(plan)
  BY <1>3, <1>12 DEF CarefulPlans, Step
<1>14. ASSUME NEW m \in Nodes PROVE HealthyReplicasOf(e, m) = PlannedReplicas(plan, m)
  <2>1. ASSUME NEW r \in Nodes, e[r].follows = m PROVE r \in PlannedReplicas(plan, m)
    BY <1>8, <2>1, ClusterFormationAssumption DEF IInv, FollowsInv, PlannedReplicas
  <2>2. ASSUME NEW r \in PlannedReplicas(plan, m) PROVE r \in Nodes /\ e[r].follows = m
    <3>1. PICK i \in DOMAIN plan :
             plan[i].action = "ReplicateNode" /\ plan[i].replica = r /\ plan[i].master = m
      BY DEF PlannedReplicas
    <3>2. i \in 1 .. (cur - 1)
      BY <1>3, <1>12, <1>13, <3>1 DEF Step
    <3>3. Follows(r, m) /\ r \in Nodes
      BY <1>5, <3>1, <3>2 DEF ReplicatedInv, PlannedReplicas
    <3> QED
      BY <1>8, <3>3 DEF Follows
  <2> QED
    BY <1>8, <1>9, <2>1, <2>2 DEF HealthyReplicasOf
<1>15. ShapeMatches(e)
  BY <1>10, <1>11, <1>12, <1>14 DEF ShapeMatches, CarefulPlans, PlannedOwners
<1> QED
  BY <1>7, <1>15

LEMMA JudgeViewsCalm ==
    ASSUME CarefulPlans, IInv, ViewsInv, CalmInv, faults' = 0, JudgeViews PROVE CalmInv'
<1>1. status = "Running" /\ Step.action = "VerifyCluster" /\ RunTypes /\ FollowsStay
        /\ UNCHANGED <<podVars, timeVars, view>> /\ pc = "observe" /\ listed = {}
  BY TypeParts, SameFollows DEF JudgeViews, At, redisVars, IInv
<1>2. CASE NotStable(noted) \/ NotStable(views)
  BY <1>1, <1>2, NotStableCalm
<1>3. CASE Running \/ Report("Completed")
  BY <1>1, <1>3, CalmRun
<1>4. CASE /\ Report("Superseded")
           /\ \E best \in DOMAIN views : "NeedsRepair" \in Classify(views[best])
  BY <1>1, <1>4, CalmReport, NothingToRepair
<1> QED
  BY <1>2, <1>3, <1>4 DEF JudgeViews

LEMMA EnvironmentStepsCalm ==
    ASSUME IInv, CalmInv, faults' = 0,
           \/ Settling
           \/ TimePasses
           \/ UNCHANGED vars
    PROVE  CalmInv'
<1>1. RedisTypes /\ faults = 0
  BY TypeParts
  DEF IInv, Settling, Contact, HandshakeEnds, Hear, PodRecovers, FlagsFollow, TimePasses, vars
<1>2. (\A n \in Nodes : pod[n] = "ready" /\ Answers(n)) /\ flagged = {}
  BY <1>1 DEF CalmInv, Answers
<1>3. ASSUME NEW n \in Nodes, NEW m \in Nodes, Hear(n, m) PROVE CalmInv'
  <2>1. PICK said \in Claims : said = Said(m)
    BY <1>1, SaidTypes
  <2>2. \A i, j \in Nodes : i # n \/ j # m => (view[i][j])' = view[i][j]
    <3>1. ViewBecomes(n, m, said)
      BY <1>3, <2>1 DEF Hear, ViewBecomes
    <3> QED
      BY <1>1, <3>1, ViewChanges
  <2>3. FollowsStay /\ SlotsStay
    BY <1>3, <2>2 DEF FollowsStay, SlotsStay, Hear
  <2> QED
    BY <1>3, <2>3, EnvironmentCalm DEF Hear, timeVars
<1>4. CASE \E n, m \in Nodes : Contact(n, m) \/ HandshakeEnds(n, m)
  BY <1>4, SameFollows, EnvironmentCalm DEF Contact, HandshakeEnds, timeVars
<1>5. CASE \E n \in Nodes : PodRecovers(n) \/ FlagsFollow(n)
  BY <1>2, <1>5 DEF PodRecovers, FlagsFollow
<1>6. CASE TimePasses \/ UNCHANGED vars
  <2>1. UNCHANGED <<planVars, redisVars, podVars, runVars, faults>> /\ (late => late')
    BY <1>6 DEF TimePasses, vars, timeVars
  <2> QED
    BY <2>1, SameFollows, EnvironmentCalm DEF redisVars
<1> QED
  BY <1>3, <1>4, <1>5, <1>6 DEF Settling

LEMMA NextCalm ==
    ASSUME CarefulPlans, IInv, ViewsInv, CalmInv, [Next]_vars PROVE CalmInv'
<1> SUFFICES ASSUME faults' = 0 PROVE CalmInv'
  BY DEF CalmInv
<1>1. CASE MeetNode \/ ClusterMeet \/ CheckMet
  BY <1>1, MeetNodeCalm, ClusterMeetCalm, CheckMetCalm
<1>2. CASE ReplicateNode \/ ClusterReplicate \/ CheckReplicated
  BY <1>2, ReplicateNodeCalm, ClusterReplicateCalm, CheckReplicatedCalm
<1>3. CASE AddSlots \/ (\E batch \in SUBSET Slots : AddBatch(batch)) \/ CheckAdded
  BY <1>3, AddSlotsCalm, AddBatchCalm, CheckAddedCalm
<1>4. CASE VerifyCluster \/ (\E n \in Nodes : ReadView(n)) \/ JudgeViews
  BY <1>4, VerifyClusterCalm, ReadViewCalm, JudgeViewsCalm
<1>5. CASE Settling \/ TimePasses \/ UNCHANGED vars
  BY <1>5, EnvironmentStepsCalm
<1>6. CASE (\E n, m \in Nodes : HandshakeExpires(n, m)) \/ (\E n \in Nodes : PodFails(n))
             \/ Restart
  BY <1>6 DEF HandshakeExpires, PodFails, Restart, Fault, IInv, TypeOK
<1> QED
  BY <1>1, <1>2, <1>3, <1>4, <1>5, <1>6 DEF Next, Run

LEMMA InitCalm == ASSUME Init PROVE CalmInv
BY DEF Init, CalmInv, ReplicatedInv, CalmObserveInv

\* Without a fault, a careful plan is never given up by VerifyCluster, and no step
\* but ReplicateNode fails before the timeout (executeNextStep, classifyClusterView,
\* waitForStableCluster): every view is complete when all of them agree.
THEOREM PlansEndForCauses ==
    ASSUME CarefulPlans PROVE Spec => []EndsHaveCauses
<1>1. IInv /\ ViewsInv /\ CalmInv /\ [Next]_vars => CalmInv'
  BY NextCalm
<1>2. CalmInv => EndsHaveCauses
  BY DEF CalmInv, EndsHaveCauses
<1> QED
  BY <1>1, <1>2, InitCalm, ViewsInvariant, PTL DEF Spec
=============================================================================
