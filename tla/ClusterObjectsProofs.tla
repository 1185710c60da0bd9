------------------------- MODULE ClusterObjectsProofs -------------------------
(***************************************************************************)
(* Proofs about the objects of a RedisCluster, for any number of images    *)
(* and faults.                                                             *)
(*                                                                         *)
(* The controller decides by cached copies.  The inductive invariant says  *)
(* what a copy, however old, still tells of the object itself.             *)
(***************************************************************************)
EXTENDS ClusterObjects, TLAPS

\* The user does not take a deletion or an image back.
ObjectInv ==
    /\ seenObject.state \in {"deleting", "gone"} => object.state \in {"deleting", "gone"}
    /\ ns = "dying" => object.state \in {"deleting", "gone"}
    /\ seenObject.image <= object.image
    /\ plan.image <= seenObject.image

ForeignInv == ns = "foreign" => seenNs = "foreign"

RedisInv == redis # "down" => pod # NoPod /\ pod.phase # "pending"

\* A pod that was met has an IP, and the cache has shown it.
JoinedInv ==
    pod # NoPod /\ pod.uid = joined =>
        /\ pod.phase # "pending"
        /\ seenPod # NoPod
        /\ seenPod.phase # "pending"

\* The image of a pod does not change.
ImageInv ==
    \A copy \in {seenPod, mine} :
        copy # NoPod /\ pod # NoPod /\ copy.uid = pod.uid => copy.image = pod.image

RunInv ==
    /\ pc \in {"labels", "config", "set", "check"} =>
          mine # NoPod /\ mine.image = plan.image
    /\ plan.status = "Completed" => plan.cur = 2

\* Pods that only the controller has touched, and their copies.
UntouchedInv ==
    ~disturbed =>
        /\ \A copy \in {pod, seenPod, mine} :
             copy # NoPod => copy.owner = "cluster" /\ copy.labelled = TRUE
        /\ pod # NoPod /\ seenPod # NoPod => seenPod.uid = pod.uid
        /\ pod # NoPod => pod.image <= plan.image
        /\ pod # NoPod /\ pod.dying = TRUE => pod.image # plan.image

\* EnsureNode has done its work.
EnsuredInv ==
    plan.cur = 2 /\ object.state \in {"new", "guarded"} /\ ~disturbed =>
        /\ pod # NoPod
        /\ pod.image = plan.image
        /\ redis = "configured"

IInv ==
    /\ TypeOK
    /\ ObjectInv
    /\ ForeignInv
    /\ RedisInv
    /\ JoinedInv
    /\ ImageInv
    /\ RunInv
    /\ UntouchedInv
    /\ EnsuredInv

-----------------------------------------------------------------------------
(***************************************************************************)
(* Types.                                                                  *)
(***************************************************************************)

\* A pod is a record of six fields, and a change of one field leaves the others.
LEMMA PodFields ==
    ASSUME NEW p \in PodObjects
    PROVE /\ p.uid \in 1 .. made
          /\ p.image \in Images
          /\ p.owner \in {"none", "cluster", "other"}
          /\ p.labelled \in BOOLEAN
          /\ p.phase \in {"pending", "running", "ready"}
          /\ p.dying \in BOOLEAN
BY DEF PodObjects, Pods

LEMMA OwnerChanges ==
    ASSUME NEW p \in PodObjects, NEW v \in {"none", "cluster", "other"}
    PROVE LET q == [p EXCEPT !.owner = v]
          IN  /\ q \in PodObjects
              /\ q.owner = v
              /\ q.uid = p.uid /\ q.image = p.image /\ q.phase = p.phase
              /\ q.labelled = p.labelled /\ q.dying = p.dying
BY DEF PodObjects, Pods

LEMMA LabelChanges ==
    ASSUME NEW p \in PodObjects, NEW v \in BOOLEAN
    PROVE LET q == [p EXCEPT !.labelled = v]
          IN  /\ q \in PodObjects
              /\ q.labelled = v
              /\ q.uid = p.uid /\ q.image = p.image /\ q.phase = p.phase
              /\ q.owner = p.owner /\ q.dying = p.dying
BY DEF PodObjects, Pods

LEMMA DyingChanges ==
    ASSUME NEW p \in PodObjects, NEW v \in BOOLEAN
    PROVE LET q == [p EXCEPT !.dying = v]
          IN  /\ q \in PodObjects
              /\ q.dying = v
              /\ q.uid = p.uid /\ q.image = p.image /\ q.phase = p.phase
              /\ q.owner = p.owner /\ q.labelled = p.labelled
BY DEF PodObjects, Pods

LEMMA PodIsOwned ==
    ASSUME NEW p \in PodObjects
    PROVE LET q == [p EXCEPT !.owner = "cluster"]
          IN  /\ q \in PodObjects
              /\ q.owner = "cluster"
              /\ q.uid = p.uid /\ q.image = p.image /\ q.phase = p.phase
              /\ q.labelled = p.labelled /\ q.dying = p.dying
BY OwnerChanges

LEMMA PodStarts ==
    ASSUME NEW p \in PodObjects, NEW v \in {"running", "ready"}
    PROVE LET q == [p EXCEPT !.phase = v]
          IN  /\ q \in PodObjects
              /\ q.phase = v
              /\ q.uid = p.uid /\ q.image = p.image /\ q.owner = p.owner
              /\ q.labelled = p.labelled /\ q.dying = p.dying
BY DEF PodObjects, Pods

LEMMA PodDies ==
    ASSUME NEW p \in PodObjects
    PROVE LET q == [p EXCEPT !.dying = TRUE]
          IN  /\ q \in PodObjects
              /\ q.dying = TRUE
              /\ q.uid = p.uid /\ q.image = p.image /\ q.phase = p.phase
              /\ q.owner = p.owner /\ q.labelled = p.labelled
<1>1. TRUE \in BOOLEAN
  OBVIOUS
<1>2. QED
  BY ONLY <1>1, DyingChanges, Zenon

LEMMA LabelIsPut ==
    ASSUME NEW p \in PodObjects
    PROVE LET q == [p EXCEPT !.labelled = TRUE]
          IN  /\ q \in PodObjects
              /\ q.labelled = TRUE
              /\ q.uid = p.uid /\ q.image = p.image /\ q.phase = p.phase
              /\ q.owner = p.owner /\ q.dying = p.dying
<1>1. TRUE \in BOOLEAN
  OBVIOUS
<1>2. QED
  BY ONLY <1>1, LabelChanges, Zenon

LEMMA LabelIsTaken ==
    ASSUME NEW p \in PodObjects
    PROVE LET q == [p EXCEPT !.labelled = FALSE]
          IN  /\ q \in PodObjects
              /\ q.uid = p.uid /\ q.image = p.image /\ q.phase = p.phase
<1>1. FALSE \in BOOLEAN
  OBVIOUS
<1>2. QED
  BY ONLY <1>1, LabelChanges, Zenon

LEMMA OwnerAndLabelChange ==
    ASSUME NEW p \in PodObjects, NEW w \in BOOLEAN
    PROVE LET q == [p EXCEPT !.owner = "none", !.labelled = w]
          IN  /\ q \in PodObjects
              /\ q.uid = p.uid /\ q.image = p.image /\ q.phase = p.phase
              /\ q.dying = p.dying
BY DEF PodObjects, Pods

LEMMA PodIsDesired ==
    ASSUME made \in Nat, plan.image \in Images
    PROVE /\ DesiredPod \in Pods(1 .. made + 1)
          /\ DesiredPod.uid = made + 1 /\ DesiredPod.image = plan.image
          /\ DesiredPod.owner = "cluster" /\ DesiredPod.phase = "pending"
          /\ DesiredPod.labelled = TRUE /\ DesiredPod.dying = FALSE
<1>1. made + 1 \in 1 .. made + 1
  OBVIOUS
<1>2. QED
  BY <1>1, Zenon DEF DesiredPod, Pods

LEMMA StrangePod ==
    ASSUME NEW m \in Nat \ {0}, NEW image \in Images, NEW owner \in {"none", "other"}
    PROVE LET q == [uid |-> m, image |-> image, owner |-> owner, labelled |-> FALSE,
                    phase |-> "pending", dying |-> FALSE]
          IN  q \in Pods(1 .. m) /\ q.uid = m
<1>1. m \in 1 .. m
  OBVIOUS
<1>2. QED
  BY <1>1, Zenon DEF Pods

\* What is a pod remains one when more have been made.
LEMMA PodsRemain ==
    ASSUME NEW m \in Nat, NEW n \in Nat, m <= n
    PROVE Pods(1 .. m) \subseteq Pods(1 .. n)
<1>1. 1 .. m \subseteq 1 .. n
  OBVIOUS
<1>2. QED
  BY <1>1 DEF Pods

LEMMA NoPodIsNone == ASSUME NEW m \in Nat PROVE NoPod \notin Pods(1 .. m)
<1>1. 1 .. m \subseteq Nat
  OBVIOUS
<1>2. QED
  BY <1>1, ClusterObjectsAssumption DEF Pods

\* Recording an outcome yields a plan of this type.
LEMMA RecordTyped ==
    ASSUME TypeOK, NEW outcome \in {"Running", "Completed", "Failed"}, Record(outcome)
    PROVE /\ plan' \in [image : Images, cur : DOMAIN Steps,
                        status : {"Running", "Completed", "Failed"}]
          /\ plan'.image = plan.image
BY DEF TypeOK, Record, Steps

LEMMA InitTyped == Init => TypeOK
<1> SUFFICES ASSUME Init PROVE TypeOK
  OBVIOUS
<1>1. {object, seenObject} \subseteq Objects
  BY ClusterObjectsAssumption DEF Init, Objects, Images
<1>2. {pod, seenPod, mine} \subseteq PodObjects \cup {NoPod}
  BY DEF Init
<1>3. plan \in [image : Images, cur : DOMAIN Steps,
                status : {"Running", "Completed", "Failed"}]
  BY ClusterObjectsAssumption DEF Init, Images, NewPlan, Steps
<1>4. {ns, seenNs} \subseteq Namespaces
  BY DEF Init, Namespaces
<1>5. made \in Nat /\ joined \in 0 .. made /\ faults \in 0 .. MaxFaults
  BY ClusterObjectsAssumption DEF Init
<1>6. listed \in BOOLEAN /\ disturbed \in BOOLEAN
  BY DEF Init
<1>7. QED
  BY <1>1, <1>2, <1>3, <1>4, <1>5, <1>6 DEF Init, TypeOK

\* What a step may do to the pod: leave it, remove it, make it, or change it so
\* that it keeps its uid and its image and does not become pending again.
PodStep ==
    \/ pod' = pod /\ made' = made
    \/ /\ pod # NoPod /\ pod' = NoPod /\ redis' = "down" /\ made' = made
       /\ NamespaceDies \/ PodIsRemoved
    \/ /\ pod = NoPod /\ made' = made + 1 /\ redis' = redis
       /\ pod' \in Pods(1 .. made') /\ pod'.uid = made'
    \/ /\ pod # NoPod /\ made' = made /\ redis' = redis
       /\ pod' \in Pods(1 .. made)
       /\ pod'.uid = pod.uid /\ pod'.image = pod.image
       /\ pod.phase # "pending" => pod'.phase # "pending"

LEMMA PodMoves == ASSUME TypeOK, RunInv, [Next]_vars PROVE PodStep
<1> USE DEF TypeOK
<1>0. /\ pod # NoPod => pod \in PodObjects
      /\ made \in Nat /\ made + 1 \in Nat \ {0}
  OBVIOUS
<1>1. CASE EnsureNode
  <2>1. CASE CreatePod /\ pod' = DesiredPod /\ made' = made + 1 /\ pod = NoPod
    <3>1. plan.image \in Images
      OBVIOUS
    <3>2. pod' \in Pods(1 .. made') /\ pod'.uid = made'
      BY <2>1, <3>1, <1>0, PodIsDesired
    <3>3. QED
      BY <2>1, <1>1, <3>2 DEF PodStep, EnsureNode, redisVars
  <2>2. CASE CreatePod /\ UNCHANGED <<pod, made>>
    BY <2>2 DEF PodStep
  <2>3. CASE DeleteDrifted
    <3>1. made' = made /\ redis' = redis
      BY <1>1, <2>3 DEF EnsureNode, DeleteDrifted, redisVars
    <3>2. \/ pod' = pod
          \/ pod # NoPod /\ pod' = [pod EXCEPT !.dying = TRUE]
      BY <2>3 DEF DeleteDrifted
    <3>3. CASE pod # NoPod /\ pod' = [pod EXCEPT !.dying = TRUE]
      <4>1. /\ pod' \in Pods(1 .. made) /\ pod'.uid = pod.uid /\ pod'.image = pod.image
            /\ pod'.phase = pod.phase
        BY <1>0, <3>3, PodDies DEF PodObjects
      <4>2. QED
        BY <3>1, <3>3, <4>1 DEF PodStep
    <3>4. CASE pod' = pod
      BY <3>1, <3>4 DEF PodStep
    <3>5. QED
      BY ONLY <3>2, <3>3, <3>4
  <2>4. CASE AdoptPod
    <3>1. made' = made /\ redis' = redis
      BY <1>1, <2>4 DEF EnsureNode, AdoptPod, redisVars
    <3>2. \/ pod' = pod
          \/ pod # NoPod /\ pod' = [pod EXCEPT !.owner = "cluster"]
      BY <2>4 DEF AdoptPod
    <3>3. CASE pod # NoPod /\ pod' = [pod EXCEPT !.owner = "cluster"]
      <4>1. /\ pod' \in Pods(1 .. made) /\ pod'.uid = pod.uid /\ pod'.image = pod.image
            /\ pod'.phase = pod.phase
        BY <1>0, <3>3, PodIsOwned DEF PodObjects
      <4>2. QED
        BY <3>1, <3>3, <4>1 DEF PodStep
    <3>4. CASE pod' = pod
      BY <3>1, <3>4 DEF PodStep
    <3>5. QED
      BY ONLY <3>2, <3>3, <3>4
  <2>5. CASE KeepPod
    BY <2>5 DEF PodStep, KeepPod
  <2>6. CASE ReadOrWriteFails
    BY <2>6 DEF PodStep, ReadOrWriteFails
  <2>7. QED
    BY <1>1, <2>1, <2>2, <2>3, <2>4, <2>5, <2>6 DEF EnsureNode, CreatePod
<1>2. CASE PatchMetadata
  <2>1. CASE mine.labelled \/ pod # mine
    BY <1>2, <2>1 DEF PatchMetadata, PodStep
  <2>2. CASE ~mine.labelled /\ pod = mine
    <3>1. pod # NoPod
      BY <1>2, <2>2 DEF PatchMetadata, RunInv, At
    <3>2. QED
      BY <1>0, <1>2, <2>2, <3>1, LabelIsPut DEF PatchMetadata, PodStep, redisVars, PodObjects
  <2>3. QED
    BY <2>1, <2>2
<1>3. CASE PodRuns
  <2>1. CASE pod' = pod /\ made' = made
    BY <2>1 DEF PodStep
  <2>2. ASSUME NEW v \in {"running", "ready"}, pod # NoPod, pod' = [pod EXCEPT !.phase = v],
               UNCHANGED <<redis, made>>
        PROVE PodStep
    <3>1. /\ pod' \in PodObjects /\ pod'.phase # "pending"
          /\ pod'.uid = pod.uid /\ pod'.image = pod.image
      BY <1>0, <2>2, PodStarts
    <3>2. QED
      BY <2>2, <3>1 DEF PodStep, PodObjects
  <2>3. QED
    BY <1>3, <2>1, <2>2 DEF PodRuns
<1>4. CASE PodIsDisturbed
  <2>1. CASE UNCHANGED <<pod, made>>
    BY <2>1 DEF PodStep
  <2>2. CASE pod' = [pod EXCEPT !.dying = TRUE] /\ pod # NoPod /\ UNCHANGED <<redis, made>>
    BY <1>0, <2>2, PodDies DEF PodStep, PodObjects
  <2>3. CASE pod' = [pod EXCEPT !.labelled = FALSE] /\ pod # NoPod /\ UNCHANGED <<redis, made>>
    BY <1>0, <2>3, LabelIsTaken DEF PodStep, PodObjects
  <2>4. CASE /\ pod # NoPod /\ UNCHANGED <<redis, made>>
             /\ \E labelled \in BOOLEAN :
                   pod' = [pod EXCEPT !.owner = "none", !.labelled = labelled]
    <3>1. PICK labelled \in BOOLEAN : pod' = [pod EXCEPT !.owner = "none", !.labelled = labelled]
      BY <2>4
    <3> DEFINE q == [pod EXCEPT !.owner = "none", !.labelled = labelled]
    <3>2. pod \in PodObjects
      BY <1>0, <2>4
    <3>3. q \in PodObjects /\ q.uid = pod.uid /\ q.image = pod.image /\ q.phase = pod.phase
      BY ONLY <3>2, labelled \in BOOLEAN, OwnerAndLabelChange, Zenon
    <3> HIDE DEF q
    <3>4. pod' = q
      BY <3>1 DEF q
    <3>5. QED
      BY <2>4, <3>3, <3>4 DEF PodStep, PodObjects
  <2>5. CASE /\ pod = NoPod /\ made' = made + 1 /\ UNCHANGED redis
             /\ \E image \in Images, owner \in {"none", "other"} :
                  pod' = [uid |-> made + 1, image |-> image, owner |-> owner,
                          labelled |-> FALSE, phase |-> "pending", dying |-> FALSE]
    <3>1. PICK image \in Images, owner \in {"none", "other"} :
               pod' = [uid |-> made + 1, image |-> image, owner |-> owner,
                       labelled |-> FALSE, phase |-> "pending", dying |-> FALSE]
      BY <2>5
    <3> DEFINE q == [uid |-> made + 1, image |-> image, owner |-> owner,
                     labelled |-> FALSE, phase |-> "pending", dying |-> FALSE]
    <3>2. q \in Pods(1 .. made + 1) /\ q.uid = made + 1
      BY <1>0, StrangePod, Zenon
    <3> HIDE DEF q
    <3>3. pod' = q
      BY <3>1 DEF q
    <3>4. QED
      BY <2>5, <3>2, <3>3 DEF PodStep
  <2>6. QED
    BY <1>4, <2>1, <2>2, <2>3, <2>4, <2>5 DEF PodIsDisturbed
<1>5. CASE NamespaceDies \/ PodIsRemoved
  <2>1. \/ pod' = pod /\ made' = made
        \/ pod # NoPod /\ pod' = NoPod /\ redis' = "down" /\ made' = made
    BY <1>5 DEF NamespaceDies, PodIsRemoved
  <2>2. QED
    BY <1>5, <2>1 DEF PodStep
<1>6. CASE UNCHANGED <<pod, made>>
  BY <1>6 DEF PodStep
<1>7. QED
  BY <1>1, <1>2, <1>3, <1>4, <1>5, <1>6
  DEF Next, Run, Kubernetes, vars, podVars, AddFinalizer, EnsureNamespace, ReconcileDelete,
      Replan, GetMaxmemory, SetMaxmemory, CheckMaxmemory, WaitNodeReady, GarbageCollect,
      Informers, UserDeletes, UserEdits, ForeignNamespaceLeaves, Join, RebuildTopology,
      Restart

\* A run reads the cached pod once; the informer takes the pod as it is.
LEMMA CopiesMove ==
    ASSUME TypeOK, [Next]_vars
    PROVE /\ mine' \in {mine, NoPod, seenPod}
          /\ seenPod' = seenPod \/ (seenPod' = pod /\ UNCHANGED <<pod, made, mine>>)
<1> USE DEF Report, Running, GoOn, CallFails, EndRun, podVars, runVars
<1>1. CASE EnsureNode
  BY <1>1 DEF EnsureNode, CreatePod, DeleteDrifted, AdoptPod, KeepPod, ReadOrWriteFails
<1>2. CASE PatchMetadata \/ GetMaxmemory \/ SetMaxmemory \/ CheckMaxmemory \/ WaitNodeReady
  BY <1>2 DEF PatchMetadata, GetMaxmemory, SetMaxmemory, CheckMaxmemory, WaitNodeReady
<1>3. CASE Informers
  BY <1>3 DEF Informers
<1>4. CASE UNCHANGED <<seenPod, mine>> \/ (UNCHANGED seenPod /\ mine' = NoPod)
  BY <1>4
<1>5. QED
  BY <1>1, <1>2, <1>3, <1>4
  DEF Next, Run, Kubernetes, vars, AddFinalizer, EnsureNamespace, ReconcileDelete, Replan,
      GarbageCollect, NamespaceDies, PodIsRemoved, PodRuns, UserDeletes, UserEdits,
      ForeignNamespaceLeaves, PodIsDisturbed, Join, RebuildTopology, Restart

LEMMA PodsTyped ==
    ASSUME TypeOK, RunInv, [Next]_vars
    PROVE /\ {pod', seenPod', mine'} \subseteq Pods(1 .. made') \cup {NoPod}
          /\ made' \in Nat /\ made <= made'
          /\ pod' = NoPod => (redis' = "down" \/ (pod = NoPod /\ made' = made))
<1>1. made' \in Nat /\ made <= made'
  BY PodMoves DEF PodStep, TypeOK
<1>2. Pods(1 .. made) \subseteq Pods(1 .. made')
  BY <1>1, PodsRemain DEF TypeOK
<1>3. {pod, seenPod, mine} \subseteq Pods(1 .. made') \cup {NoPod}
  BY <1>2 DEF TypeOK, PodObjects
<1>4. pod' \in Pods(1 .. made') \cup {NoPod}
  BY <1>3, PodMoves DEF PodStep
<1>5. {seenPod', mine'} \subseteq Pods(1 .. made') \cup {NoPod}
  BY <1>3, CopiesMove
<1>6. pod' = NoPod => (redis' = "down" \/ (pod = NoPod /\ made' = made))
  BY <1>1, PodMoves, NoPodIsNone DEF PodStep, TypeOK
<1>7. QED
  BY <1>1, <1>4, <1>5, <1>6

\* The rest of the state.
RestTyped ==
    /\ {object, seenObject} \subseteq Objects
    /\ {ns, seenNs} \subseteq Namespaces
    /\ redis \in {"down", "plain", "configured"}
    /\ listed \in BOOLEAN
    /\ plan \in [image : Images, cur : DOMAIN Steps,
                 status : {"Running", "Completed", "Failed"}]
    /\ pc \in {"idle", "replan", "step", "labels", "config", "set", "check"}
    /\ disturbed \in BOOLEAN
    /\ faults \in 0 .. MaxFaults

LEMMA NextRestTyped ==
    ASSUME TypeOK, RunInv, [Next]_vars PROVE RestTyped'
<1> USE ClusterObjectsAssumption
    DEF TypeOK, RestTyped, Objects, Namespaces, Record, Report, Running, GoOn, CallFails,
        EndRun, Fault, objectVars, nsVars, podVars, redisVars, runVars, At
<1>1. CASE EnsureNode
  <2>1. UNCHANGED <<object, seenObject, ns, seenNs, redis, listed, disturbed>>
    BY <1>1 DEF EnsureNode
  <2>2. CASE CreatePod
    BY <2>1, <2>2 DEF CreatePod, Steps
  <2>3. CASE DeleteDrifted
    BY <2>1, <2>3 DEF DeleteDrifted, Steps
  <2>4. CASE AdoptPod
    BY <2>1, <2>4 DEF AdoptPod, Steps
  <2>5. CASE KeepPod
    BY <2>1, <2>5 DEF KeepPod, Steps
  <2>6. CASE ReadOrWriteFails
    BY <2>1, <2>6 DEF ReadOrWriteFails, Steps
  <2>7. QED
    BY <1>1, <2>2, <2>3, <2>4, <2>5, <2>6 DEF EnsureNode
<1>2. CASE AddFinalizer
  BY <1>2 DEF AddFinalizer
<1>3. CASE EnsureNamespace
  BY <1>3 DEF EnsureNamespace, Created, PlanPoint
<1>4. CASE ReconcileDelete
  BY <1>4 DEF ReconcileDelete, RemoveFinalizer
<1>5. CASE Replan
  BY <1>5 DEF Replan, NewPlan, Steps
<1>6. CASE PatchMetadata
  BY <1>6 DEF PatchMetadata, Steps
<1>7. CASE GetMaxmemory
  BY <1>7 DEF GetMaxmemory, Steps
<1>8. CASE SetMaxmemory
  BY <1>8 DEF SetMaxmemory, Steps
<1>9. CASE CheckMaxmemory
  BY <1>9 DEF CheckMaxmemory, Steps
<1>10. CASE WaitNodeReady
  BY <1>10 DEF WaitNodeReady, Steps
<1>11. CASE GarbageCollect
  BY <1>11 DEF GarbageCollect
<1>12. CASE NamespaceDies
  BY <1>12 DEF NamespaceDies
<1>13. CASE PodIsRemoved
  BY <1>13 DEF PodIsRemoved
<1>14. CASE Informers
  BY <1>14 DEF Informers
<1>15. CASE PodRuns
  BY <1>15 DEF PodRuns
<1>16. CASE UserDeletes
  BY <1>16 DEF UserDeletes
<1>17. CASE UserEdits
  BY <1>17 DEF UserEdits, Images
<1>18. CASE ForeignNamespaceLeaves
  BY <1>18 DEF ForeignNamespaceLeaves
<1>19. CASE PodIsDisturbed
  <2>1. UNCHANGED <<object, seenObject, ns, seenNs, listed, plan, pc>> /\ disturbed' \in BOOLEAN
    BY <1>19 DEF PodIsDisturbed
  <2>2. faults' \in 0 .. MaxFaults
    <3>1. faults < MaxFaults /\ faults' = faults + 1 /\ faults \in 0 .. MaxFaults
      BY <1>19 DEF PodIsDisturbed
    <3>2. QED
      BY ONLY <3>1, ClusterObjectsAssumption
  <2>3. redis' \in {redis, "down"}
    BY <1>19 DEF PodIsDisturbed
  <2>4. QED
    BY <2>1, <2>2, <2>3
<1>20. CASE Join
  BY <1>20 DEF Join
<1>21. CASE RebuildTopology
  BY <1>21 DEF RebuildTopology
<1>22. CASE Restart
  BY <1>22 DEF Restart
<1>23. CASE UNCHANGED vars
  BY <1>23 DEF vars
<1>q. QED
  BY <1>1, <1>2, <1>3, <1>4, <1>5, <1>6, <1>7, <1>8, <1>9, <1>10, <1>11, <1>12,
     <1>13, <1>14, <1>15, <1>16, <1>17, <1>18, <1>19, <1>20, <1>21, <1>22, <1>23
  DEF Next, Run, Kubernetes

\* Only a pod that has an IP has a server.
LEMMA RedisMoves ==
    ASSUME TypeOK, [Next]_vars
    PROVE /\ \/ redis' \in {redis, "down"}
             \/ UNCHANGED pod /\ redis # "down"
             \/ UNCHANGED pod /\ pod # NoPod /\ pod.phase # "pending"
          /\ redis' # "down" /\ redis = "down" => PodRuns /\ pod' # NoPod
<1>1. CASE SetMaxmemory
  BY <1>1 DEF SetMaxmemory, Reaches, podVars
<1>2. CASE PodRuns
  <2>1. CASE redis' = redis
    BY <2>1
  <2>2. CASE redis' # redis
    BY <1>2, <2>2 DEF PodRuns
  <2>3. QED
    BY <2>1, <2>2
<1>3. CASE redis' \in {redis, "down"}
  BY <1>3
<1>4. QED
  BY <1>1, <1>2, <1>3
  DEF Next, Run, Kubernetes, vars, redisVars, AddFinalizer, EnsureNamespace, ReconcileDelete,
      Replan, EnsureNode, PatchMetadata, GetMaxmemory, CheckMaxmemory, WaitNodeReady,
      GarbageCollect, NamespaceDies, PodIsRemoved, Informers, UserDeletes, UserEdits,
      ForeignNamespaceLeaves, PodIsDisturbed, Join, RebuildTopology, Restart

LEMMA JoinedMoves ==
    ASSUME TypeOK, [Next]_vars
    PROVE joined' = joined \/ Join
BY DEF Next, Run, Kubernetes, vars, redisVars, AddFinalizer, EnsureNamespace, ReconcileDelete,
       Replan, EnsureNode, PatchMetadata, GetMaxmemory, SetMaxmemory, CheckMaxmemory,
       WaitNodeReady, GarbageCollect, NamespaceDies, PodIsRemoved, Informers, PodRuns,
       UserDeletes, UserEdits, ForeignNamespaceLeaves, PodIsDisturbed, RebuildTopology,
       Restart

LEMMA NextTyped == ASSUME TypeOK, RunInv, [Next]_vars PROVE TypeOK'
<1>1. RestTyped'
  BY NextRestTyped
<1>2. {pod', seenPod', mine'} \subseteq Pods(1 .. made') \cup {NoPod} /\ made' \in Nat
  BY PodsTyped
<1>3. pod' = NoPod => redis' = "down"
  <2>1. CASE redis' = "down"
    BY <2>1
  <2>2. CASE redis' # "down"
    <3>1. pod' = NoPod => pod = NoPod /\ made' = made
      BY <2>2, PodsTyped
    <3>2. pod = NoPod => redis = "down"
      BY DEF TypeOK
    <3>3. redis' # "down" /\ redis = "down" => PodRuns /\ pod' # NoPod
      BY RedisMoves
    <3>4. QED
      BY <2>2, <3>1, <3>2, <3>3
  <2>3. QED
    BY <2>1, <2>2
<1>4. joined' \in 0 .. made'
  <2>1. joined' \in 0 .. made
    BY JoinedMoves, PodFields DEF TypeOK, Join, Reaches
  <2>2. made' \in Nat /\ made <= made'
    BY PodsTyped
  <2>3. QED
    BY <2>1, <2>2 DEF TypeOK
<1>5. QED
  BY <1>1, <1>2, <1>3, <1>4 DEF TypeOK, RestTyped, PodObjects

-----------------------------------------------------------------------------
(***************************************************************************)
(* The strengthening, part by part.                                        *)
(***************************************************************************)

LEMMA InitInv == Init => IInv
<1> SUFFICES ASSUME Init PROVE IInv
  OBVIOUS
<1>1. TypeOK
  BY InitTyped
<1>2. ObjectInv
  BY <1>1 DEF Init, ObjectInv, NewPlan
<1>3. ForeignInv /\ RedisInv /\ JoinedInv /\ ImageInv /\ RunInv
  BY DEF Init, ForeignInv, RedisInv, JoinedInv, ImageInv, RunInv, NewPlan
<1>4. UntouchedInv /\ EnsuredInv
  BY DEF Init, UntouchedInv, EnsuredInv, NewPlan
<1>5. QED
  BY <1>1, <1>2, <1>3, <1>4 DEF IInv

\* Only Replan changes the image that a plan asks for.
LEMMA PlanMoves ==
    ASSUME TypeOK, [Next]_vars
    PROVE plan'.image = plan.image \/ Replan
<1> USE DEF Report, Running, GoOn, CallFails
<1>1. CASE \E outcome \in {"Running", "Completed", "Failed"} : Record(outcome)
  BY <1>1, RecordTyped
<1>2. CASE UNCHANGED plan
  BY <1>2
<1>3. CASE EnsureNode
  BY <1>1, <1>2, <1>3 DEF EnsureNode, CreatePod, DeleteDrifted, AdoptPod, KeepPod, ReadOrWriteFails
<1>4. CASE PatchMetadata \/ GetMaxmemory \/ SetMaxmemory \/ CheckMaxmemory \/ WaitNodeReady
  BY <1>1, <1>2, <1>4
  DEF PatchMetadata, GetMaxmemory, SetMaxmemory, CheckMaxmemory, WaitNodeReady
<1>5. QED
  BY <1>1, <1>2, <1>3, <1>4
  DEF Next, Run, Kubernetes, vars, AddFinalizer, EnsureNamespace, ReconcileDelete,
      GarbageCollect, NamespaceDies, PodIsRemoved, Informers, PodRuns, UserDeletes, UserEdits,
      ForeignNamespaceLeaves, PodIsDisturbed, Join, RebuildTopology, Restart

LEMMA ObjectKept == ASSUME IInv, [Next]_vars PROVE ObjectInv'
<1> USE DEF IInv, TypeOK, Objects, Images, objectVars, nsVars
<1>1. CASE AddFinalizer
  BY <1>1 DEF AddFinalizer, ObjectInv
<1>2. CASE ReconcileDelete
  BY <1>2 DEF ReconcileDelete, ManagedNamespace, RemoveFinalizer, ObjectInv
<1>3. CASE UserDeletes
  BY <1>3 DEF UserDeletes, ObjectInv
<1>4. CASE UserEdits
  BY <1>4 DEF UserEdits, ObjectInv
<1>5. CASE Informers
  BY <1>5 DEF Informers, ObjectInv
<1>6. CASE Replan
  BY <1>6 DEF Replan, NewPlan, ObjectInv
<1>7. CASE GarbageCollect
  BY <1>7 DEF GarbageCollect, ObjectInv
<1>8. CASE EnsureNamespace
  BY <1>8 DEF EnsureNamespace, Created, ObjectInv
<1>9. CASE NamespaceDies \/ ForeignNamespaceLeaves
  BY <1>9 DEF NamespaceDies, ForeignNamespaceLeaves, ObjectInv
<1>10. CASE UNCHANGED <<object, seenObject, ns>> /\ plan'.image = plan.image
  BY <1>10 DEF ObjectInv
<1>11. QED
  BY <1>1, <1>2, <1>3, <1>4, <1>5, <1>6, <1>7, <1>8, <1>9, <1>10, PlanMoves
  DEF Next, Run, Kubernetes, vars, EnsureNode, PatchMetadata, GetMaxmemory, SetMaxmemory,
      CheckMaxmemory, WaitNodeReady, PodIsRemoved, PodRuns, PodIsDisturbed, Join,
      RebuildTopology, Restart

LEMMA ForeignKept == ASSUME IInv, [Next]_vars PROVE ForeignInv'
<1> USE DEF IInv, ForeignInv
<1>1. CASE EnsureNamespace
  BY <1>1 DEF EnsureNamespace, Created
<1>2. CASE ReconcileDelete
  BY <1>2 DEF ReconcileDelete
<1>3. CASE Informers
  BY <1>3 DEF Informers
<1>4. CASE UNCHANGED seenNs /\ (ns' = ns \/ ns' # "foreign")
  BY <1>4
<1>5. QED
  BY <1>1, <1>2, <1>3, <1>4
  DEF Next, Run, Kubernetes, vars, nsVars, AddFinalizer, Replan, EnsureNode, PatchMetadata,
      GetMaxmemory, SetMaxmemory, CheckMaxmemory, WaitNodeReady, GarbageCollect,
      NamespaceDies, PodIsRemoved, PodRuns, UserDeletes, UserEdits, ForeignNamespaceLeaves,
      PodIsDisturbed, Join, RebuildTopology, Restart

LEMMA RedisKept == ASSUME IInv, [Next]_vars PROVE RedisInv'
<1> USE DEF IInv
<1>1. PodStep
  BY PodMoves
<1>2. /\ \/ redis' \in {redis, "down"}
         \/ UNCHANGED pod /\ redis # "down"
         \/ UNCHANGED pod /\ pod # NoPod /\ pod.phase # "pending"
  BY RedisMoves
<1>3. pod = NoPod => redis = "down"
  BY DEF TypeOK
<1>4. \A m \in Nat : NoPod \notin Pods(1 .. m)
  BY NoPodIsNone
<1>5. made \in Nat /\ made' \in Nat
  BY PodsTyped DEF TypeOK
<1>6. QED
  BY <1>1, <1>2, <1>3, <1>4, <1>5 DEF RedisInv, PodStep

LEMMA JoinedKept == ASSUME IInv, [Next]_vars PROVE JoinedInv'
<1> USE DEF IInv
<1>1. CASE Join
  BY <1>1 DEF Join, Reaches, RedisInv, JoinedInv, podVars
<1>2. CASE joined' = joined
  <2>1. PodStep
    BY PodMoves
  <2>2. joined \in 0 .. made /\ made \in Nat
    BY DEF TypeOK
  <2>3. seenPod' = seenPod \/ (seenPod' = pod /\ UNCHANGED <<pod, made, mine>>)
    BY CopiesMove
  <2>4. QED
    BY <1>2, <2>1, <2>2, <2>3 DEF JoinedInv, PodStep
<1>3. QED
  BY <1>1, <1>2, JoinedMoves

LEMMA ImageKept == ASSUME IInv, [Next]_vars PROVE ImageInv'
<1> USE DEF IInv
<1>1. PodStep
  BY PodMoves
<1>2. /\ mine' \in {mine, NoPod, seenPod}
      /\ seenPod' = seenPod \/ (seenPod' = pod /\ UNCHANGED <<pod, made, mine>>)
  BY CopiesMove
<1>3. \A copy \in {seenPod, mine} : copy # NoPod => copy.uid \in 1 .. made
  BY PodFields DEF TypeOK
<1>4. made \in Nat
  BY DEF TypeOK
<1>5. QED
  BY <1>1, <1>2, <1>3, <1>4 DEF ImageInv, PodStep

\* A run that has read the pod goes on with the pod that the plan wants.
LEMMA RunKept == ASSUME IInv, [Next]_vars PROVE RunInv'
<1> USE DEF IInv, RunInv, At, Steps, runVars
<1>1. CASE EnsureNode
  <2>1. plan.cur = 1
    BY <1>1 DEF EnsureNode, TypeOK
  <2>2. CASE CreatePod
    BY <2>1, <2>2 DEF CreatePod, CallFails, Report, Running, EndRun, Record, TypeOK
  <2>3. CASE DeleteDrifted
    BY <2>1, <2>3 DEF DeleteDrifted, CallFails, Report, Running, EndRun, Record, TypeOK
  <2>4. CASE AdoptPod
    BY <2>1, <2>4 DEF AdoptPod, CallFails, PodSpecDrift, Report, EndRun, Record, TypeOK
  <2>5. CASE KeepPod
    BY <2>1, <2>5 DEF KeepPod, PodSpecDrift
  <2>6. CASE ReadOrWriteFails
    BY <2>1, <2>6 DEF ReadOrWriteFails, CallFails, EndRun, Record, TypeOK
  <2>7. QED
    BY <1>1, <2>2, <2>3, <2>4, <2>5, <2>6 DEF EnsureNode
<1>2. CASE PatchMetadata
  BY <1>2 DEF PatchMetadata, GoOn, CallFails, Report, EndRun, Record, TypeOK
<1>3. CASE GetMaxmemory
  BY <1>3 DEF GetMaxmemory, GoOn, CallFails, Running, Report, EndRun, Record, TypeOK
<1>4. CASE SetMaxmemory
  BY <1>4 DEF SetMaxmemory, GoOn, CallFails, Report, EndRun, Record, TypeOK
<1>5. CASE CheckMaxmemory
  BY <1>5 DEF CheckMaxmemory, Running, Report, EndRun, Record, TypeOK
<1>6. CASE WaitNodeReady
  BY <1>6 DEF WaitNodeReady, Running, Report, EndRun, Record, TypeOK
<1>7. CASE EnsureNamespace
  BY <1>7 DEF EnsureNamespace, PlanPoint
<1>8. CASE Replan
  BY <1>8 DEF Replan, EndRun, NewPlan
<1>9. CASE Restart
  BY <1>9 DEF Restart, EndRun
<1>10. CASE UNCHANGED <<pc, mine, plan>>
  BY <1>10
<1>11. QED
  BY <1>1, <1>2, <1>3, <1>4, <1>5, <1>6, <1>7, <1>8, <1>9, <1>10
  DEF Next, Run, Kubernetes, vars, AddFinalizer, ReconcileDelete, GarbageCollect,
      NamespaceDies, PodIsRemoved, Informers, PodRuns, UserDeletes, UserEdits,
      ForeignNamespaceLeaves, PodIsDisturbed, Join, RebuildTopology

\* What a step that nobody is disturbed by may do to the pod.
UntouchedStep ==
    \/ pod' = pod
    \/ pod' = NoPod
    \/ /\ pod = NoPod /\ seenPod = NoPod
       /\ pod'.image = plan.image /\ pod'.dying = FALSE
       /\ pod'.owner = "cluster" /\ pod'.labelled = TRUE
    \/ /\ pod # NoPod /\ pod'.uid = pod.uid /\ pod'.image = pod.image
       /\ pod'.owner \in {pod.owner, "cluster"} /\ pod'.labelled = pod.labelled
       /\ \/ pod'.dying = pod.dying
          \/ seenPod # NoPod /\ seenPod.image # plan.image

LEMMA UntouchedMoves ==
    ASSUME IInv, [Next]_vars, ~disturbed'
    PROVE UntouchedStep /\ ~disturbed
<1> USE DEF IInv, UntouchedStep
<1>0. /\ ~disturbed
      /\ pod # NoPod => pod \in PodObjects
      /\ made \in Nat
  <2>1. ~disturbed
    BY Zenon DEF Next, Run, Kubernetes, vars, AddFinalizer, EnsureNamespace, ReconcileDelete,
       Replan, EnsureNode, PatchMetadata, GetMaxmemory, SetMaxmemory, CheckMaxmemory,
       WaitNodeReady, GarbageCollect, NamespaceDies, PodIsRemoved, Informers, PodRuns,
       UserDeletes, UserEdits, ForeignNamespaceLeaves, PodIsDisturbed, Join,
       RebuildTopology, Restart
  <2>2. QED
    BY <2>1 DEF TypeOK
<1>1. CASE EnsureNode /\ CreatePod
  <2>1. plan.image \in Images
    BY DEF TypeOK
  <2>2. QED
    BY <1>0, <1>1, <2>1, PodIsDesired DEF CreatePod
<1>2. CASE EnsureNode /\ DeleteDrifted
  <2>1. seenPod # NoPod /\ seenPod.image # plan.image
    BY <1>2 DEF DeleteDrifted, PodSpecDrift
  <2>2. CASE pod' = pod
    BY <1>0, <2>2
  <2>3. CASE pod # NoPod /\ pod' = [pod EXCEPT !.dying = TRUE]
    <3>1. /\ pod'.uid = pod.uid /\ pod'.image = pod.image /\ pod'.owner = pod.owner
          /\ pod'.labelled = pod.labelled
      BY <1>0, <2>3, PodDies, Zenon
    <3>2. QED
      BY <1>0, <2>1, <2>3, <3>1
  <2>4. QED
    BY <1>2, <2>2, <2>3 DEF DeleteDrifted
<1>3. CASE EnsureNode /\ AdoptPod
  <2>1. CASE pod' = pod
    BY <1>0, <2>1
  <2>2. CASE pod # NoPod /\ pod' = [pod EXCEPT !.owner = "cluster"]
    <3>1. /\ pod'.uid = pod.uid /\ pod'.image = pod.image /\ pod'.owner = "cluster"
          /\ pod'.labelled = pod.labelled /\ pod'.dying = pod.dying
      BY <1>0, <2>2, PodIsOwned, Zenon
    <3>2. QED
      BY <1>0, <2>2, <3>1
  <2>3. QED
    BY <1>3, <2>1, <2>2 DEF AdoptPod
<1>4. CASE EnsureNode /\ (KeepPod \/ ReadOrWriteFails)
  BY <1>0, <1>4 DEF KeepPod, ReadOrWriteFails
<1>5. CASE PatchMetadata
  <2>1. mine # NoPod
    BY <1>5 DEF PatchMetadata, At, RunInv
  <2>2. mine.labelled
    BY <1>0, <2>1, Zenon DEF UntouchedInv
  <2>3. pod' = pod
    BY <1>5, <2>2, Zenon DEF PatchMetadata
  <2>4. QED
    BY <1>0, <2>3
<1>6. CASE PodRuns
  <2>1. CASE pod' = pod
    BY <1>0, <2>1
  <2>2. ASSUME NEW v \in {"running", "ready"}, pod # NoPod, pod' = [pod EXCEPT !.phase = v]
        PROVE UntouchedStep
    <3>1. /\ pod'.uid = pod.uid /\ pod'.image = pod.image /\ pod'.owner = pod.owner
          /\ pod'.labelled = pod.labelled /\ pod'.dying = pod.dying
      BY <1>0, <2>2, PodStarts, Zenon
    <3>2. QED
      BY <2>2, <3>1
  <2>3. QED
    BY <1>0, <1>6, <2>1, <2>2 DEF PodRuns
<1>7. ~PodIsDisturbed
  BY Zenon DEF PodIsDisturbed
<1>8. CASE NamespaceDies \/ PodIsRemoved
  BY <1>0, <1>8 DEF NamespaceDies, PodIsRemoved
<1>9. CASE UNCHANGED pod
  BY <1>0, <1>9
<1>10. QED
  BY <1>0, <1>1, <1>2, <1>3, <1>4, <1>5, <1>6, <1>7, <1>8, <1>9
  DEF Next, Run, Kubernetes, vars, podVars, AddFinalizer, EnsureNamespace, ReconcileDelete,
      Replan, EnsureNode, GetMaxmemory, SetMaxmemory, CheckMaxmemory, WaitNodeReady,
      GarbageCollect, Informers, UserDeletes, UserEdits, ForeignNamespaceLeaves, Join,
      RebuildTopology, Restart

LEMMA ImagesGrow ==
    ASSUME IInv, [Next]_vars
    PROVE /\ plan.image \in Nat /\ plan'.image \in Nat
          /\ \/ plan'.image = plan.image
             \/ plan'.image >= plan.image /\ UNCHANGED pod
          /\ pod # NoPod => pod.image \in Nat
<1> USE DEF IInv
<1>1. plan.image \in Nat /\ seenObject.image \in Nat
  BY DEF TypeOK, Images, Objects
<1>2. pod # NoPod => pod.image \in Nat
  BY PodFields DEF TypeOK, Images
<1>3. CASE Replan
  BY <1>1, <1>2, <1>3 DEF Replan, NewPlan, ObjectInv, podVars
<1>4. CASE plan'.image = plan.image
  BY <1>1, <1>2, <1>4
<1>5. QED
  BY <1>3, <1>4, PlanMoves

LEMMA UntouchedKept == ASSUME IInv, [Next]_vars PROVE UntouchedInv'
<1> SUFFICES ASSUME ~disturbed' PROVE UntouchedInv'
  BY Zenon DEF UntouchedInv
<1> USE DEF IInv
<1>1. UntouchedStep /\ ~disturbed
  BY UntouchedMoves
<1>2. /\ mine' \in {mine, NoPod, seenPod}
      /\ seenPod' = seenPod \/ (seenPod' = pod /\ UNCHANGED <<pod, made, mine>>)
  BY CopiesMove
<1>3. /\ \A copy \in {pod, seenPod, mine} :
           copy # NoPod => copy.owner = "cluster" /\ copy.labelled = TRUE
      /\ pod # NoPod /\ seenPod # NoPod => seenPod.uid = pod.uid
      /\ pod # NoPod => pod.image <= plan.image
      /\ pod # NoPod /\ pod.dying = TRUE => pod.image # plan.image
  BY <1>1, Zenon DEF UntouchedInv
<1>4. \A copy \in {pod', seenPod', mine'} :
        copy # NoPod => copy.owner = "cluster" /\ copy.labelled = TRUE
  <2>1. pod' # NoPod => pod'.owner = "cluster" /\ pod'.labelled = TRUE
    BY <1>1, <1>3 DEF UntouchedStep
  <2>2. QED
    BY <1>2, <1>3, <2>1
<1>5. pod' # NoPod /\ seenPod' # NoPod => seenPod'.uid = pod'.uid
  BY <1>1, <1>2, <1>3 DEF UntouchedStep
<1>6. pod' # NoPod => pod'.image <= plan'.image
  BY <1>1, <1>3, ImagesGrow DEF UntouchedStep
<1>7. pod' # NoPod /\ pod'.dying = TRUE => pod'.image # plan'.image
  <2>1. CASE plan'.image = plan.image
    <3>1. pod # NoPod /\ seenPod # NoPod => seenPod.image = pod.image
      BY <1>3 DEF ImageInv
    <3>2. QED
      BY <1>1, <1>3, <2>1, <3>1 DEF UntouchedStep
  <2>2. CASE plan'.image >= plan.image /\ plan'.image # plan.image /\ UNCHANGED pod
    BY <1>3, <2>2, ImagesGrow
  <2>3. QED
    BY <2>1, <2>2, ImagesGrow
<1>8. QED
  BY <1>4, <1>5, <1>6, <1>7, Zenon DEF UntouchedInv

\* A step ends EnsureNode only when the server of the pod it has read is configured.
LEMMA EnsuredKept == ASSUME IInv, [Next]_vars PROVE EnsuredInv'
<1> SUFFICES ASSUME plan'.cur = 2, object'.state \in {"new", "guarded"}, ~disturbed'
             PROVE pod' # NoPod /\ pod'.image = plan'.image /\ redis' = "configured"
  BY Zenon DEF EnsuredInv
<1> USE DEF IInv
<1>1. UntouchedStep /\ ~disturbed
  BY UntouchedMoves
<1>2. object.state \in {"new", "guarded"}
  BY DEF Next, Run, Kubernetes, vars, objectVars, AddFinalizer, EnsureNamespace,
       ReconcileDelete, RemoveFinalizer, Replan, EnsureNode, PatchMetadata, GetMaxmemory,
       SetMaxmemory, CheckMaxmemory, WaitNodeReady, GarbageCollect, NamespaceDies,
       PodIsRemoved, Informers, PodRuns, UserDeletes, UserEdits, ForeignNamespaceLeaves,
       PodIsDisturbed, Join, RebuildTopology, Restart, TypeOK, Objects
<1>3. CASE plan.cur = 2
  <2>1. pod # NoPod /\ pod.image = plan.image /\ redis = "configured"
    BY <1>1, <1>2, <1>3 DEF EnsuredInv
  <2>2. ~(pod.dying = TRUE)
    BY <1>1, <2>1, Zenon DEF UntouchedInv
  <2>3. ~NamespaceDies
    BY <1>2 DEF NamespaceDies, ObjectInv
  <2>4. ~PodIsRemoved
    BY <2>2, Zenon DEF PodIsRemoved
  <2>5. ~Replan
    BY DEF Replan, NewPlan
  <2>6. plan'.image = plan.image
    BY <2>5, PlanMoves
  <2>7. ~EnsureNode /\ ~PatchMetadata /\ ~GetMaxmemory /\ ~SetMaxmemory /\ ~CheckMaxmemory
    BY <1>3 DEF EnsureNode, PatchMetadata, GetMaxmemory, SetMaxmemory, CheckMaxmemory, At, Steps
  <2>8. CASE PodRuns
    <3>1. redis' = redis
      BY <2>1, <2>8 DEF PodRuns
    <3>2. pod' # NoPod /\ pod'.image = pod.image
      <4>1. NoPod \notin Pods(1 .. made)
        BY NoPodIsNone DEF TypeOK
      <4>2. PodStep
        BY PodMoves
      <4>3. QED
        BY <2>1, <3>1, <4>1, <4>2 DEF PodStep
    <3>3. QED
      BY <2>1, <2>6, <3>1, <3>2
  <2>9. CASE UNCHANGED <<pod, redis>>
    BY <2>1, <2>6, <2>9
  <2>10. ~PodIsDisturbed
    BY Zenon DEF PodIsDisturbed
  <2>11. QED
    BY <2>3, <2>4, <2>5, <2>7, <2>8, <2>9, <2>10
    DEF Next, Run, Kubernetes, vars, podVars, redisVars, AddFinalizer, EnsureNamespace,
        ReconcileDelete, WaitNodeReady, GarbageCollect, Informers, UserDeletes, UserEdits,
        ForeignNamespaceLeaves, Join, RebuildTopology, Restart
<1>4. CASE plan.cur = 1
  <2>1. plan' # plan /\ ~Replan
    BY <1>4 DEF Replan, NewPlan
  <2>2. EnsureNode \/ PatchMetadata \/ SetMaxmemory => FALSE
    BY <1>4 DEF EnsureNode, CreatePod, DeleteDrifted, AdoptPod, KeepPod,
         ReadOrWriteFails, CallFails, PatchMetadata, SetMaxmemory, Report, Running, GoOn, Record, TypeOK
  <2>3. ~WaitNodeReady
    BY <1>4 DEF WaitNodeReady, At, Steps
  <2>4. GetMaxmemory \/ CheckMaxmemory
    BY <2>1, <2>2, <2>3
    DEF Next, Run, Kubernetes, vars, AddFinalizer, EnsureNamespace, ReconcileDelete,
        GarbageCollect, NamespaceDies, PodIsRemoved, Informers, PodRuns, UserDeletes,
        UserEdits, ForeignNamespaceLeaves, PodIsDisturbed, Join, RebuildTopology, Restart
  <2>5. Reaches(mine) /\ redis = "configured" /\ UNCHANGED <<pod, redis>>
    <3>1. CASE GetMaxmemory
      BY <1>4, <2>1, <3>1 DEF GetMaxmemory, Running, GoOn, CallFails, Record, podVars,
         redisVars, TypeOK
    <3>2. CASE CheckMaxmemory
      BY <1>4, <2>1, <3>2 DEF CheckMaxmemory, Running, Report, Record, podVars, redisVars, TypeOK
    <3>3. QED
      BY <2>4, <3>1, <3>2
  <2>6. mine # NoPod /\ mine.image = plan.image
    BY <2>4 DEF GetMaxmemory, CheckMaxmemory, At, RunInv
  <2>7. pod # NoPod /\ pod.image = plan.image
    BY <2>5, <2>6 DEF Reaches, ImageInv
  <2>8. QED
    BY <2>1, <2>5, <2>7, PlanMoves
<1>5. QED
  BY <1>3, <1>4 DEF TypeOK, Steps

LEMMA NextInv == ASSUME IInv, [Next]_vars PROVE IInv'
BY NextTyped, ObjectKept, ForeignKept, RedisKept, JoinedKept, ImageKept, RunKept,
   UntouchedKept, EnsuredKept
DEF IInv

LEMMA Inductive == Spec => []IInv
<1>1. IInv /\ UNCHANGED vars => IInv'
  BY NextInv
<1>2. QED
  BY InitInv, NextInv, PTL DEF Spec

-----------------------------------------------------------------------------
(***************************************************************************)
(* Why a step can fail.  CauseInv holds what the steps rely on as long as  *)
(* the user does not delete the object and nobody touches the pod.         *)
(***************************************************************************)

\* The object has not been deleted.
Live == object.state \in {"new", "guarded"}

\* Nobody touches the pod without a fault.
FaultlessInv == faults = 0 => ~disturbed

\* The namespace of a live object stays, once the cache has shown it or it is made.
NamespaceInv ==
    Live /\ (pc # "idle" \/ ManagedNamespace(seenNs)) => ns \in {"labelled", "owned"}

\* A pod that was met stays.
MetInv ==
    Live /\ ~disturbed =>
        /\ joined # 0 => pod # NoPod /\ pod.uid = joined /\ ~pod.dying
        /\ listed => joined # 0

\* So does a server that answered.
AnswersInv ==
    Live /\ ~disturbed =>
        /\ pc \in {"set", "check"} => Reaches(mine)
        /\ pc = "check" => redis = "configured"

CauseInv == FaultlessInv /\ NamespaceInv /\ MetInv /\ AnswersInv

LEMMA InitCauseInv == Init => CauseInv
<1> SUFFICES ASSUME Init PROVE CauseInv
  OBVIOUS
<1>1. FaultlessInv
  BY Zenon DEF Init, FaultlessInv
<1>2. NamespaceInv
  BY DEF Init, NamespaceInv, ManagedNamespace
<1>3. MetInv
  BY Zenon DEF Init, MetInv
<1>4. AnswersInv
  BY DEF Init, AnswersInv
<1>5. QED
  BY <1>1, <1>2, <1>3, <1>4 DEF CauseInv

\* A deleted object does not come back.
LEMMA LiveMoves == ASSUME TypeOK, [Next]_vars, Live' PROVE Live
BY DEF Live, Next, Run, Kubernetes, vars, objectVars, AddFinalizer, EnsureNamespace,
       ReconcileDelete, RemoveFinalizer, Replan, EnsureNode, PatchMetadata, GetMaxmemory,
       SetMaxmemory, CheckMaxmemory, WaitNodeReady, GarbageCollect, NamespaceDies,
       PodIsRemoved, Informers, PodRuns, UserDeletes, UserEdits, ForeignNamespaceLeaves,
       PodIsDisturbed, Join, RebuildTopology, Restart, TypeOK, Objects

LEMMA FaultsGrow ==
    ASSUME TypeOK, [Next]_vars
    PROVE /\ faults \in Nat
          /\ faults' = faults \/ faults' = faults + 1
          /\ faults' = faults => disturbed' = disturbed
<1> USE DEF Report, Running, GoOn, CallFails, Fault
<1>1. faults \in Nat
  BY ClusterObjectsAssumption DEF TypeOK
<1>2. CASE EnsureNode
  BY <1>1, <1>2 DEF EnsureNode, CreatePod, DeleteDrifted, AdoptPod, KeepPod, ReadOrWriteFails
<1>3. CASE PatchMetadata \/ GetMaxmemory \/ SetMaxmemory \/ CheckMaxmemory \/ WaitNodeReady
  BY <1>1, <1>3
  DEF PatchMetadata, GetMaxmemory, SetMaxmemory, CheckMaxmemory, WaitNodeReady
<1>4. CASE PodIsDisturbed
  <2>1. faults' = faults + 1
    BY <1>4, Zenon DEF PodIsDisturbed
  <2>2. faults' # faults
    BY <1>1, <2>1
  <2>3. QED
    BY <1>1, <2>1, <2>2
<1>5. CASE UNCHANGED disturbed /\ (UNCHANGED faults \/ Fault)
  BY <1>1, <1>5
<1>6. QED
  BY <1>1, <1>2, <1>3, <1>4, <1>5
  DEF Next, Run, Kubernetes, vars, AddFinalizer, EnsureNamespace, ReconcileDelete, Replan,
      GarbageCollect, NamespaceDies, PodIsRemoved, Informers, PodRuns, UserDeletes, UserEdits,
      ForeignNamespaceLeaves, Join, RebuildTopology, Restart

LEMMA FaultlessKept == ASSUME IInv, FaultlessInv, [Next]_vars PROVE FaultlessInv'
<1>1. /\ faults \in Nat
      /\ faults' = faults \/ faults' = faults + 1
      /\ faults' = faults => disturbed' = disturbed
  BY FaultsGrow DEF IInv
<1>2. faults' = 0 => faults = 0 /\ faults' = faults
  BY <1>1
<1>3. QED
  BY <1>1, <1>2, Zenon DEF FaultlessInv

LEMMA NamespaceKept == ASSUME IInv, NamespaceInv, [Next]_vars PROVE NamespaceInv'
<1> SUFFICES ASSUME Live', pc' # "idle" \/ ManagedNamespace(seenNs')
             PROVE ns' \in {"labelled", "owned"}
  BY DEF NamespaceInv, ManagedNamespace
<1>1. Live /\ ns # "dying"
  BY LiveMoves DEF IInv, ObjectInv, Live
<1>2. CASE EnsureNamespace
  BY <1>1, <1>2 DEF EnsureNamespace, Created, ManagedNamespace, NamespaceInv
<1>3. CASE ForeignNamespaceLeaves
  BY <1>1, <1>3 DEF ForeignNamespaceLeaves, NamespaceInv, nsVars, runVars
<1>4. CASE Informers
  BY <1>1, <1>4 DEF Informers, NamespaceInv, ManagedNamespace, runVars
<1>5. ~ReconcileDelete /\ ~NamespaceDies /\ ~GarbageCollect
  BY <1>1 DEF ReconcileDelete, NamespaceDies, GarbageCollect, IInv, ObjectInv, Live
<1>6. CASE UNCHANGED <<ns, seenNs>> /\ (pc = "idle" => pc' = "idle")
  BY <1>1, <1>6 DEF NamespaceInv
<1>7. CASE EnsureNode \/ PatchMetadata \/ GetMaxmemory \/ SetMaxmemory \/ CheckMaxmemory
             \/ WaitNodeReady
  BY <1>6, <1>7 DEF EnsureNode, PatchMetadata, GetMaxmemory, SetMaxmemory, CheckMaxmemory,
     WaitNodeReady, At, nsVars
<1>8. QED
  BY <1>2, <1>3, <1>4, <1>5, <1>6, <1>7
  DEF Next, Run, Kubernetes, vars, nsVars, runVars, AddFinalizer, Replan, EndRun,
      PodIsRemoved, PodRuns, UserDeletes, UserEdits, PodIsDisturbed, Join, RebuildTopology,
      Restart

\* A pod that nobody deletes stays, and so does its server, as long as nobody
\* touches them.
LEMMA PodStays ==
    ASSUME IInv, [Next]_vars, Live', ~disturbed', pod # NoPod, ~pod.dying
    PROVE /\ pod' # NoPod /\ pod'.uid = pod.uid
          /\ redis # "down" => redis' = redis \/ SetMaxmemory
          /\ pod'.dying => EnsureNode /\ DeleteDrifted
<1> USE DEF IInv
<1>1. UntouchedStep /\ ~disturbed /\ Live
  BY UntouchedMoves, LiveMoves
<1>2. ~NamespaceDies /\ ~PodIsDisturbed /\ ~PodIsRemoved
  BY <1>1, Zenon DEF NamespaceDies, PodIsDisturbed, PodIsRemoved, ObjectInv, Live
<1>3. pod' # NoPod /\ pod'.uid = pod.uid
  <2>1. NoPod \notin Pods(1 .. made)
    BY NoPodIsNone DEF TypeOK
  <2>2. PodStep
    BY PodMoves
  <2>3. QED
    BY <1>2, <2>1, <2>2 DEF PodStep
<1>4. redis # "down" => redis' = redis \/ SetMaxmemory
  <2>1. CASE PodRuns
    BY <2>1 DEF PodRuns
  <2>2. QED
    BY <1>2, <2>1
    DEF Next, Run, Kubernetes, vars, redisVars, AddFinalizer, EnsureNamespace,
        ReconcileDelete, Replan, EnsureNode, PatchMetadata, GetMaxmemory, CheckMaxmemory,
        WaitNodeReady, GarbageCollect, Informers, UserDeletes, UserEdits,
        ForeignNamespaceLeaves, Join, RebuildTopology, Restart
<1>5. pod'.dying => EnsureNode /\ DeleteDrifted
  <2> SUFFICES ASSUME pod'.dying PROVE EnsureNode /\ DeleteDrifted
    OBVIOUS
  <2>1. pod \in PodObjects
    BY DEF TypeOK
  <2>2. pod' # pod
    OBVIOUS
  <2>3. CASE EnsureNode
    <3>1. ~CreatePod /\ ~KeepPod /\ ~ReadOrWriteFails
      BY <2>2 DEF CreatePod, KeepPod, ReadOrWriteFails
    <3>2. ~AdoptPod
      <4>1. [pod EXCEPT !.owner = "cluster"].dying = pod.dying
        BY <2>1, PodIsOwned
      <4>2. QED
        BY <2>2, <4>1 DEF AdoptPod
    <3>3. QED
      BY <2>3, <3>1, <3>2 DEF EnsureNode
  <2>4. ~PatchMetadata
    BY <2>1, <2>2, LabelIsPut DEF PatchMetadata
  <2>5. ~PodRuns
    BY <2>1, <2>2, PodStarts DEF PodRuns
  <2>6. QED
    BY <1>2, <2>2, <2>3, <2>4, <2>5
    DEF Next, Run, Kubernetes, vars, podVars, AddFinalizer, EnsureNamespace, ReconcileDelete,
        Replan, GetMaxmemory, SetMaxmemory, CheckMaxmemory, WaitNodeReady, GarbageCollect,
        Informers, UserDeletes, UserEdits, ForeignNamespaceLeaves, Join, RebuildTopology,
        Restart
<1>6. QED
  BY <1>3, <1>4, <1>5

\* EnsureNode and WaitNodeReady give no pod up that later steps have met.
LEMMA MetKept == ASSUME IInv, MetInv, [Next]_vars PROVE MetInv'
<1> SUFFICES ASSUME Live', ~disturbed'
             PROVE  /\ joined' # 0 => pod' # NoPod /\ pod'.uid = joined' /\ ~pod'.dying
                    /\ listed' => joined' # 0
  BY Zenon DEF MetInv
<1> USE DEF IInv
<1>1. Live /\ ~disturbed
  BY UntouchedMoves, LiveMoves
<1>2. /\ joined # 0 => pod # NoPod /\ pod.uid = joined /\ ~pod.dying
      /\ listed => joined # 0
  BY <1>1, Zenon DEF MetInv
<1>3. CASE Join
  <2>1. /\ plan.status = "Completed" /\ seenPod # NoPod /\ Reaches(seenPod)
        /\ joined' = pod.uid /\ UNCHANGED <<pod, listed>>
    BY <1>3 DEF Join, podVars
  <2>2. pod # NoPod /\ pod.image = plan.image
    BY <1>1, <2>1 DEF RunInv, EnsuredInv, Live, Reaches
  <2>3. ~(pod.dying = TRUE)
    BY <1>1, <2>2, Zenon DEF UntouchedInv
  <2>4. pod.dying \in BOOLEAN /\ pod.uid \in 1 .. made
    BY <2>2, PodFields DEF TypeOK
  <2>5. pod.uid # 0
    BY <2>4 DEF TypeOK
  <2>6. ~pod.dying
    BY <2>3, <2>4
  <2>7. QED
    BY ONLY <2>1, <2>2, <2>5, <2>6
<1>4. CASE joined' = joined
  <2>1. ASSUME joined # 0 PROVE pod' # NoPod /\ pod'.uid = joined /\ ~pod'.dying
    <3>1. pod # NoPod /\ pod.uid = joined /\ ~pod.dying
      BY <1>2, <2>1
    <3>2. ~DeleteDrifted \/ pod' = pod
      BY <3>1 DEF DeleteDrifted, CanRecreateDriftedPod, JoinedInv
    <3>3. QED
      BY <3>1, <3>2, PodStays
  <2>2. listed' => joined # 0
    <3>1. CASE RebuildTopology
      <4>1. listed' => seenPod # NoPod /\ seenPod.uid = joined
        BY <3>1 DEF RebuildTopology
      <4>2. seenPod # NoPod => seenPod.uid \in 1 .. made
        BY PodFields DEF TypeOK
      <4>3. QED
        BY <4>1, <4>2 DEF TypeOK
    <3>2. CASE listed' = listed
      BY <1>2, <3>2
    <3>3. QED
      BY <3>1, <3>2
      DEF Next, Run, Kubernetes, vars, AddFinalizer, EnsureNamespace, ReconcileDelete,
          Replan, EnsureNode, PatchMetadata, GetMaxmemory, SetMaxmemory, CheckMaxmemory,
          WaitNodeReady, GarbageCollect, NamespaceDies, PodIsRemoved, Informers, PodRuns,
          UserDeletes, UserEdits, ForeignNamespaceLeaves, PodIsDisturbed, Join, Restart
  <2>3. QED
    BY <1>4, <2>1, <2>2
<1>5. QED
  BY <1>3, <1>4, JoinedMoves

\* A server that answered PING answers CONFIG SET, and keeps what it was set to.
LEMMA AnswersKept == ASSUME IInv, AnswersInv, [Next]_vars PROVE AnswersInv'
<1> SUFFICES ASSUME Live', ~disturbed', pc' \in {"set", "check"}
             PROVE  Reaches(mine)' /\ (pc' = "check" => redis' = "configured")
  BY Zenon DEF AnswersInv
<1> USE DEF IInv
<1>1. Live /\ ~disturbed
  BY UntouchedMoves, LiveMoves
<1>2. mine' = mine /\ (GetMaxmemory \/ SetMaxmemory \/ (pc' = pc /\ ~GetMaxmemory /\ ~SetMaxmemory))
  <2>1. CASE EnsureNode
    BY <2>1 DEF EnsureNode, CreatePod, DeleteDrifted, AdoptPod, KeepPod,
       ReadOrWriteFails, CallFails, Report, Running, EndRun
  <2>2. CASE PatchMetadata \/ CheckMaxmemory \/ WaitNodeReady
    BY <2>2 DEF PatchMetadata, CheckMaxmemory, WaitNodeReady, GoOn, CallFails, Report,
       Running, EndRun
  <2>3. CASE GetMaxmemory \/ SetMaxmemory
    BY <2>3 DEF GetMaxmemory, SetMaxmemory, GoOn, CallFails, Report, Running, EndRun
  <2>4. CASE EnsureNamespace
    BY <2>4 DEF EnsureNamespace, PlanPoint
  <2>5. CASE UNCHANGED <<pc, mine>>
    BY <2>5
  <2>6. QED
    BY <2>1, <2>2, <2>3, <2>4, <2>5
    DEF Next, Run, Kubernetes, vars, runVars, AddFinalizer, ReconcileDelete, Replan, EndRun,
        GarbageCollect, NamespaceDies, PodIsRemoved, Informers, PodRuns, UserDeletes,
        UserEdits, ForeignNamespaceLeaves, PodIsDisturbed, Join, RebuildTopology, Restart
<1>3. CASE GetMaxmemory
  BY <1>2, <1>3 DEF GetMaxmemory, Reaches, GoOn, CallFails, Report, Running, EndRun, podVars,
     redisVars
<1>4. CASE SetMaxmemory
  BY <1>2, <1>4 DEF SetMaxmemory, Reaches, GoOn, CallFails, Report, Running, EndRun, podVars
<1>5. CASE pc' = pc /\ ~SetMaxmemory
  <2>1. Reaches(mine) /\ (pc = "check" => redis = "configured")
    BY <1>1, <1>5 DEF AnswersInv
  <2>2. pod # NoPod /\ pod.uid = mine.uid /\ redis # "down" /\ pod.image = plan.image
    BY <1>5, <2>1 DEF Reaches, RunInv, ImageInv
  <2>3. ~(pod.dying = TRUE) /\ pod.dying \in BOOLEAN
    BY <1>1, <2>2, PodFields, Zenon DEF UntouchedInv, TypeOK
  <2>4. ~pod.dying
    BY <2>3
  <2>5. pod' # NoPod /\ pod'.uid = pod.uid /\ redis' = redis
    BY <1>5, <2>2, <2>4, PodStays
  <2>6. QED
    BY <1>2, <1>5, <2>1, <2>2, <2>5 DEF Reaches
<1>6. QED
  BY <1>2, <1>3, <1>4, <1>5

LEMMA NextCauseInv == ASSUME IInv, CauseInv, [Next]_vars PROVE CauseInv'
BY FaultlessKept, NamespaceKept, MetKept, AnswersKept DEF CauseInv

-----------------------------------------------------------------------------
(***************************************************************************)
(* What the runs check, for every value of the constants.                  *)
(***************************************************************************)

\* Every variable keeps its type: a plan ends with its last step, and no copy is of a
\* pod that nobody has made (executeNextStep, createPod).
THEOREM TypeCorrect == Spec => []TypeOK
BY Inductive, PTL DEF IInv

\* A plan that has made its node leaves it of the image, with the metadata and with the
\* memory limit it wants, as long as only the controller touches the pod (ensureNode).
THEOREM NodesAreConfigured == Spec => []ReadyNodesAreConfigured
<1>1. IInv => ReadyNodesAreConfigured
  <2> SUFFICES ASSUME IInv, plan.status = "Completed", object.state = "guarded", ~disturbed
               PROVE /\ pod # NoPod
                     /\ pod.image = plan.image
                     /\ pod.owner = "cluster" /\ pod.labelled /\ ~pod.dying
                     /\ redis = "configured"
    BY Zenon DEF ReadyNodesAreConfigured
  <2> USE DEF IInv
  <2>1. plan.cur = 2
    BY DEF RunInv
  <2>2. pod # NoPod /\ pod.image = plan.image /\ redis = "configured"
    BY <2>1 DEF EnsuredInv
  <2>3. /\ pod.owner = "cluster" /\ pod.labelled = TRUE
        /\ pod.dying = TRUE => pod.image # plan.image
    BY <2>2, Zenon DEF UntouchedInv
  <2>4. pod.dying \in BOOLEAN
    BY <2>2, PodFields DEF TypeOK
  <2>5. QED
    BY <2>2, <2>3, <2>4
<1>2. QED
  BY <1>1, Inductive, PTL

\* The controller deletes neither a pod that has joined the cluster nor a namespace of
\* somebody else (canRecreateDriftedPod, reconcileDelete).
THEOREM KeptApart == Spec => OthersAreKept
<1> DEFINE Kept ==
      /\ ns = "foreign" => ns' # "dying"
      /\ pod # NoPod /\ pod.uid = joined /\ ~pod.dying /\ pod' # NoPod /\ pod'.dying =>
           disturbed' /\ faults' # faults
<1>1. ASSUME IInv, [Next]_vars PROVE Kept
  <2> USE <1>1 DEF IInv
  <2>1. ns = "foreign" => ns' # "dying"
    BY DEF Next, Run, Kubernetes, vars, nsVars, AddFinalizer, EnsureNamespace, Created,
         ReconcileDelete, ManagedNamespace, ForeignInv, Replan, EnsureNode, PatchMetadata,
         GetMaxmemory, SetMaxmemory, CheckMaxmemory, WaitNodeReady, GarbageCollect,
         NamespaceDies, PodIsRemoved, Informers, PodRuns, UserDeletes, UserEdits,
         ForeignNamespaceLeaves, PodIsDisturbed, Join, RebuildTopology, Restart
  <2>2. SUFFICES ASSUME pod # NoPod, pod.uid = joined, ~pod.dying, pod' # NoPod, pod'.dying
                 PROVE disturbed' /\ faults' # faults
    BY <2>1
  <2>3. pod \in PodObjects
    BY <2>2 DEF TypeOK
  <2>4. pod' # pod
    BY <2>2
  <2>5. CASE EnsureNode
    <3>1. ~CreatePod /\ ~KeepPod /\ ~ReadOrWriteFails
      BY <2>2, <2>4, <2>5 DEF CreatePod, KeepPod, ReadOrWriteFails, JoinedInv
    <3>2. ~DeleteDrifted
      BY <2>2, <2>4 DEF DeleteDrifted, CanRecreateDriftedPod, JoinedInv
    <3>3. ~AdoptPod
      BY <2>2, <2>3, <2>4, PodIsOwned DEF AdoptPod
    <3>4. QED
      BY <2>5, <3>1, <3>2, <3>3 DEF EnsureNode
  <2>6. CASE PatchMetadata
    BY <2>2, <2>3, <2>4, <2>6, LabelIsPut DEF PatchMetadata
  <2>7. CASE PodRuns
    BY <2>2, <2>3, <2>4, <2>7, PodStarts DEF PodRuns
  <2>8. CASE PodIsDisturbed
    <3>1. faults \in Nat
      BY ClusterObjectsAssumption DEF TypeOK
    <3>2. faults' = faults + 1 /\ disturbed'
      BY <2>8, Zenon DEF PodIsDisturbed, Fault
    <3>3. QED
      BY <3>1, <3>2
  <2>9. ~NamespaceDies /\ ~PodIsRemoved
    BY <2>2, <2>4 DEF NamespaceDies, PodIsRemoved
  <2>10. QED
    BY <2>4, <2>5, <2>6, <2>7, <2>8, <2>9
    DEF Next, Run, Kubernetes, vars, podVars, AddFinalizer, EnsureNamespace, ReconcileDelete,
        Replan, GetMaxmemory, SetMaxmemory, CheckMaxmemory, WaitNodeReady, GarbageCollect,
        Informers, UserDeletes, UserEdits, ForeignNamespaceLeaves, Join, RebuildTopology,
        Restart
<1>2. IInv /\ [Next]_vars => [Kept]_vars
  BY <1>1
<1>3. QED
  BY <1>2, Inductive, PTL DEF Spec, OthersAreKept

\* A step fails only for a reason: the object is being deleted, the cache does not show
\* the pod yet, or a pod of the old image has started (createPod, reconcileExistingPod,
\* ensureMaxmemory, waitNodeReady).
THEOREM StepsFailForCauses == Spec => FailuresHaveCauses
<1> DEFINE Caused ==
      plan.status = "Running" /\ plan'.status = "Failed" /\ faults' = 0 =>
         \/ object.state # "guarded"
         \/ pod # NoPod /\ seenPod = NoPod
         \/ /\ seenPod # NoPod
            /\ seenPod.image # plan.image
            /\ seenPod.phase # "pending"
<1>1. ASSUME IInv, CauseInv, [Next]_vars PROVE Caused
  <2> SUFFICES ASSUME plan.status = "Running", plan'.status = "Failed", faults' = 0,
                      object.state = "guarded", pod # NoPod => seenPod # NoPod
               PROVE  /\ seenPod # NoPod
                      /\ seenPod.image # plan.image
                      /\ seenPod.phase # "pending"
    OBVIOUS
  <2> USE <1>1 DEF IInv, CauseInv
  <2>1. faults = 0 /\ faults' = faults
    BY FaultsGrow
  <2>2. ~Fault /\ ~CallFails /\ ~ReadOrWriteFails
    BY <2>1 DEF Fault, CallFails, ReadOrWriteFails
  <2>3. ~disturbed /\ Live
    BY <2>1, Zenon DEF FaultlessInv, Live
  <2>4. plan' # plan /\ ~Replan
    BY DEF Replan, NewPlan
  <2>5. EnsureNode \/ PatchMetadata \/ GetMaxmemory \/ SetMaxmemory \/ CheckMaxmemory
           \/ WaitNodeReady
    BY <2>4
    DEF Next, Run, Kubernetes, vars, AddFinalizer, EnsureNamespace, ReconcileDelete,
        GarbageCollect, NamespaceDies, PodIsRemoved, Informers, PodRuns, UserDeletes,
        UserEdits, ForeignNamespaceLeaves, PodIsDisturbed, Join, RebuildTopology, Restart
  <2>6. ASSUME Record("Completed") PROVE FALSE
    BY <2>6 DEF Record, TypeOK
  <2>7. CASE EnsureNode
    <3>1. pc # "idle"
      BY <2>7 DEF EnsureNode, At
    <3>2. CASE CreatePod
      <4>1. seenPod = NoPod /\ pod = NoPod
        BY <3>2 DEF CreatePod
      <4>2. ns \notin {"none", "dying"}
        BY <2>3, <3>1 DEF NamespaceInv
      <4>3. plan' = plan
        BY <2>2, <3>2, <4>1, <4>2 DEF CreatePod, Running
      <4>4. QED
        BY <2>4, <4>3
    <3>3. CASE DeleteDrifted
      <4>1. seenPod # NoPod /\ seenPod.image # plan.image
        BY <3>3 DEF DeleteDrifted, PodSpecDrift
      <4>2. seenPod.owner = "cluster"
        BY <2>3, <4>1, Zenon DEF UntouchedInv
      <4>3. ~CanRecreateDriftedPod(seenPod)
        BY <2>2, <2>4, <3>3 DEF DeleteDrifted, Running
      <4>4. CASE listed
        <5>1. pod # NoPod /\ pod.uid = joined
          BY <2>3, <4>4, Zenon DEF MetInv
        <5>2. QED
          BY <4>1, <5>1 DEF JoinedInv
      <4>5. CASE ~listed
        BY <4>1, <4>2, <4>3, <4>5 DEF CanRecreateDriftedPod
      <4>6. QED
        BY <4>4, <4>5
    <3>4. CASE AdoptPod
      <4>1. seenPod # NoPod /\ seenPod.owner # "cluster"
        BY <3>4 DEF AdoptPod
      <4>2. QED
        BY <2>3, <4>1, Zenon DEF UntouchedInv
    <3>5. CASE KeepPod
      BY <2>4, <3>5 DEF KeepPod
    <3>6. QED
      BY <2>2, <2>7, <3>2, <3>3, <3>4, <3>5 DEF EnsureNode
  <2>8. CASE PatchMetadata
    <3>1. mine # NoPod
      BY <2>8 DEF PatchMetadata, At, RunInv
    <3>2. mine.labelled
      BY <2>3, <3>1, Zenon DEF UntouchedInv
    <3>3. GoOn("config")
      BY <2>8, <3>2, Zenon DEF PatchMetadata
    <3>4. QED
      BY <2>2, <2>4, <3>3 DEF GoOn
  <2>9. CASE GetMaxmemory
    BY <2>2, <2>4, <2>6, <2>9 DEF GetMaxmemory, Running, Report, GoOn
  <2>10. CASE SetMaxmemory
    <3>1. Reaches(mine)
      BY <2>3, <2>10, Zenon DEF SetMaxmemory, At, AnswersInv
    <3>2. QED
      BY <2>2, <2>4, <2>10, <3>1 DEF SetMaxmemory, GoOn
  <2>11. CASE CheckMaxmemory
    <3>1. redis = "configured"
      BY <2>3, <2>11, Zenon DEF CheckMaxmemory, At, AnswersInv
    <3>2. QED
      BY <2>2, <2>4, <2>6, <2>11, <3>1 DEF CheckMaxmemory, Running, Report
  <2>12. CASE WaitNodeReady
    <3>1. plan.cur = 2
      BY <2>12 DEF WaitNodeReady, At, Steps, TypeOK
    <3>2. pod # NoPod
      BY <2>3, <3>1, Zenon DEF EnsuredInv, Live
    <3>3. QED
      BY <2>2, <2>4, <2>6, <2>12, <3>2 DEF WaitNodeReady, Running, Report
  <2>13. QED
    BY <2>5, <2>7, <2>8, <2>9, <2>10, <2>11, <2>12
<1>2. IInv /\ CauseInv /\ [Next]_vars => [Caused]_vars
  BY <1>1
<1>3. IInv /\ CauseInv /\ [Next]_vars => CauseInv'
  BY NextCauseInv
<1>4. QED
  BY <1>2, <1>3, InitCauseInv, Inductive, PTL DEF Spec, FailuresHaveCauses
===============================================================================
