---------------------------- MODULE MCGoPlanner ----------------------------
EXTENDS GoPlanner

CONSTANTS
    Observed    \* bound: the pods an observation mentions; a plan makes the others

\* At most two healthy masters that own slots and healthy replicas of theirs, or
\* nothing; every slot has an owner; at most one pod is not on the spec's image.
IntactObservation ==
    \E pods \in {0..n : n \in Observed} \cup {{}} : \E masters \in {m \in SUBSET pods : Cardinality(m) <= 2} :
    \E follows \in [pods \ masters -> masters] :
        /\ exists = pods
        /\ ready = pods
        /\ onSpecImage \in {pods, pods \ {0}}
        /\ observedOwner \in [Slots -> IF pods = {} THEN {NoKey} ELSE masters]
        /\ \A m \in masters : \E s \in Slots : observedOwner[s] = m
        /\ Observation(pods, [k \in pods |-> IF k \in masters THEN k ELSE follows[k]])

\* Any observation of few pods and nodes of no pod, of which at most one is not on
\* the spec's image.
DamagedObservation ==
    \E seen \in SUBSET (Observed \cup Ghosts) :
        \E masterOf \in [seen -> seen \cup {NoKey}] :
            /\ exists \in SUBSET Observed
            /\ onSpecImage \in {exists, exists \ {0}}
            /\ Observation(seen, masterOf)

\* Larger values of nextPodOrdinal only rename the pods of a plan that uses it.
SmallestOrdinal == nextPodOrdinal = 0 \/ nextPodOrdinal - 1 \in known

IntactInit == IntactObservation /\ Request /\ SmallestOrdinal

DamagedInit == DamagedObservation /\ Request /\ SmallestOrdinal

IntactSpec == IntactInit /\ [][PlannerNext]_plannerVars /\ WF_plannerVars(PlannerNext)

DamagedSpec == DamagedInit /\ [][PlannerNext]_plannerVars /\ WF_plannerVars(PlannerNext)
=============================================================================
