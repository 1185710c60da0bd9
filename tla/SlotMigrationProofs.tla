------------------------ MODULE SlotMigrationProofs ------------------------
(***************************************************************************)
(* Theorems about SlotMigration, for any masters, slots, keys and faults.  *)
(*                                                                         *)
(* Only two commands change who claims a slot: the source's SETSLOT NODE   *)
(* takes the claim away, the target's SETSLOT NODE (or ADDSLOTS) makes     *)
(* one.  RedisInv says what every command keeps of the masters' state;     *)
(* TaskInv and ViewInv say what the step knows of a slot at each command,  *)
(* although its view of the owner is old.                                  *)
(***************************************************************************)
EXTENDS SlotMigration, TLAPS

RedisType ==
    /\ owner \in [Masters -> [Slots -> Masters \cup {NoNode}]]
    /\ importing \in [Slots -> Masters \cup {NoNode}]
    /\ migrating \in [Masters -> SUBSET Slots]
    /\ keys \in [Masters -> [Slots -> 0..MaxKeys]]
    /\ newest \in BOOLEAN

StepType ==
    /\ pc \in {"idle", "repair", "add", "start", "migrate", "verify"}
    /\ view \in [Slots -> Masters \cup {NoNode}]
    /\ toAdd \in SUBSET Slots
    /\ task \in [Slots -> Tasks]
    /\ peers \in [Slots -> SUBSET Masters]
    /\ cancelled \in BOOLEAN
    /\ unverified \in SUBSET Masters
    /\ result \in {"None", "Running", "Completed", "Failed"}
    /\ faults \in 0..MaxFaults

\* While a master other than Target owns s, no view names another owner.
OwnerAgreed ==
    \A s \in Slots, n \in Masters \ {Target} : Claims(n, s) =>
        \A m \in Masters : owner[m][s] \in {NoNode, n}

OwnerKnown ==
    ~FullCoverage => \A s \in Slots, n \in Masters :
        Claims(n, s) => owner[Source][s] = n \/ owner[Target][s] = n

MigratingOwned == \A n \in Masters : \A s \in migrating[n] : Claims(n, s)

KeysOwned ==
    \A n \in Masters \ {Target}, s \in Slots : keys[n][s] > 0 => Claims(n, s)

KeysBounded ==
    \A n \in Masters \ {Target}, s \in Slots : keys[n][s] + keys[Target][s] <= MaxKeys

RedisInv ==
    /\ RedisType
    /\ OneClaimant
    /\ OwnerAgreed
    /\ OwnerKnown
    /\ MigratingOwned
    /\ RedirectsServed
    /\ KeysOwned
    /\ KeysBounded

Unclaimed(s) == \A n \in Masters : ~Claims(n, s)

\* What the goroutine of s relies on at its commands.
TaskInv(s) ==
    /\ task[s] # "none" => pc \in {"migrate", "verify"}
    /\ task[s] \notin {"none", "done"} => pc = "migrate"
    /\ task[s] # "none" => view[s] \in Masters \ {Target}
    /\ Target \notin peers[s]
    /\ task[s] = "migrating" => importing[s] = view[s] \/ Claims(Target, s)
    /\ task[s] \in {"reading", "moving", "source"} => Claims(view[s], s)
    /\ task[s] = "moving" => keys[view[s]][s] > 0
    /\ task[s] = "target" => Unclaimed(s)
    /\ task[s] = "peers" => Claims(Target, s)

\* What the view of the step, read once, still says of s.
ViewInv(s) ==
    /\ \A n \in Masters \ {Target} : Claims(n, s) => view[s] \in {NoNode, Target, n}
    /\ pc \in {"add", "start"} => view[s] # NoNode
    /\ pc = "repair" /\ ~FullCoverage /\ view[s] = NoNode =>
         \A n \in Masters : Claims(n, s) => owner[Target][s] = n
    /\ pc = "add" /\ ~FullCoverage /\ s \in toAdd => Unclaimed(s)
    /\ pc = "verify" /\ Target \notin unverified => Claims(Target, s)
    /\ result = "Completed" => Claims(Target, s)

IInv ==
    /\ RedisInv
    /\ StepType
    /\ pc = "add" => toAdd # {}
    /\ \A s \in Slots : TaskInv(s) /\ ViewInv(s)

-----------------------------------------------------------------------------
(***************************************************************************)
(* What each command of Redis keeps.                                       *)
(***************************************************************************)
LEMMA ImportingKeeps ==
  ASSUME RedisInv, NEW s \in Slots, NEW from \in Masters \ {Target},
         \A n \in Masters \ {Target} : Claims(n, s) => from = n,
         SetSlotImporting(s, from)
  PROVE  RedisInv'
<1> USE SlotMigrationAssumption DEF RedisInv, SetSlotImporting, Masters
<1>1. RedisType'  BY DEF RedisType
<1>2. OneClaimant' /\ OwnerAgreed' /\ OwnerKnown' /\ MigratingOwned'
  BY DEF OneClaimant, OwnerAgreed, OwnerKnown, MigratingOwned, Claims
<1>3. KeysOwned' /\ KeysBounded'  BY DEF KeysOwned, KeysBounded, Claims
<1>4. RedirectsServed'
  BY DEF RedirectsServed, MigratingOwned, Claims, RedisType
<1> QED  BY <1>1, <1>2, <1>3, <1>4

LEMMA MigratingKeeps ==
  ASSUME RedisInv, NEW s \in Slots, NEW n \in Masters \ {Target},
         importing[s] = n \/ Claims(Target, s), SetSlotMigrating(n, s)
  PROVE  RedisInv'
<1> USE SlotMigrationAssumption DEF RedisInv, SetSlotMigrating, Masters
<1>1. RedisType'  BY DEF RedisType
<1>2. OneClaimant' /\ OwnerAgreed' /\ OwnerKnown'
  BY DEF OneClaimant, OwnerAgreed, OwnerKnown, Claims
<1>3. KeysOwned' /\ KeysBounded'  BY DEF KeysOwned, KeysBounded, Claims
<1>4. MigratingOwned' /\ RedirectsServed'
  BY DEF RedirectsServed, MigratingOwned, Claims, RedisType
<1> QED  BY <1>1, <1>2, <1>3, <1>4

LEMMA KeysKeep ==
  ASSUME RedisInv, NEW s \in Slots, NEW n \in Masters \ {Target},
         Claims(n, s), keys[n][s] > 0, MigrateKeys(n, s)
  PROVE  RedisInv'
<1> USE SlotMigrationAssumption DEF RedisInv, MigrateKeys, Masters
<1>1. keys[n][s] \in 0..MaxKeys /\ keys[Target][s] \in 0..MaxKeys
      /\ keys[n][s] + keys[Target][s] <= MaxKeys
  BY DEF RedisType, KeysBounded
<1>2. \A m \in Masters, t \in Slots :
        keys'[m][t] = IF t # s THEN keys[m][t]
                      ELSE IF m = n THEN keys[n][s] - 1
                      ELSE IF m = Target THEN keys[Target][s] + 1
                      ELSE keys[m][t]
  BY DEF RedisType
<1>0. \A m \in Masters, t \in Slots : keys[m][t] \in Nat /\ keys[m][t] <= MaxKeys
  BY DEF RedisType
<1>3. RedisType'
  <2>1. \A m \in Masters, t \in Slots : keys'[m][t] \in 0..MaxKeys
    <3> HIDE DEF RedisInv, MigrateKeys, Masters
    <3>1. MaxKeys \in Nat  BY SlotMigrationAssumption
    <3>2. TAKE m \in Masters, t \in Slots
    <3>3. CASE t # s  BY <3>3, <3>1, <1>0, <1>2
    <3>4. CASE t = s /\ m = n  BY <3>1, <3>4, <1>0, <1>1, <1>2
    <3>5. CASE t = s /\ m = Target /\ m # n
      BY <3>1, <3>5, <1>0, <1>1, <1>2
    <3>6. CASE t = s /\ m \notin {n, Target}  BY <3>1, <3>6, <1>0, <1>2
    <3> QED  BY <3>3, <3>4, <3>5, <3>6
  <2>2. /\ keys' = [m \in Masters |-> keys'[m]]
        /\ \A m \in Masters : keys'[m] = [t \in Slots |-> keys'[m][t]]
    BY DEF RedisType
  <2>3. \A m \in Masters : keys'[m] \in [Slots -> 0..MaxKeys]  BY <2>1, <2>2
  <2>4. keys' \in [Masters -> [Slots -> 0..MaxKeys]]  BY <2>2, <2>3
  <2> QED  BY <2>4 DEF RedisType
<1>4. OneClaimant' /\ OwnerAgreed' /\ OwnerKnown' /\ MigratingOwned' /\ RedirectsServed'
  BY DEF OneClaimant, OwnerAgreed, OwnerKnown, MigratingOwned, RedirectsServed, Claims
<1>5. KeysOwned'  BY <1>1, <1>2 DEF KeysOwned, Claims
<1>6. \A m \in Masters \ {Target, n} : keys[m][s] = 0
  BY DEF KeysOwned, OneClaimant, RedisType
<1>7. KeysBounded'
  <2> SUFFICES ASSUME NEW m \in Masters \ {Target}, NEW t \in Slots
               PROVE  keys'[m][t] + keys'[Target][t] <= MaxKeys
    BY DEF KeysBounded
  <2>1. CASE t # s
    <3>1. keys'[m][t] = keys[m][t] /\ keys'[Target][t] = keys[Target][t]
      BY <2>1, <1>2
    <3> QED  BY <3>1 DEF KeysBounded
  <2>2. CASE t = s /\ m = n
    <3>1. keys'[m][t] = keys[n][s] - 1 /\ keys'[Target][t] = keys[Target][s] + 1
      BY <2>2, <1>2
    <3> QED  BY <3>1, <1>0, <1>1
  <2>3. CASE t = s /\ m # n
    <3>1. keys'[m][t] = 0 /\ keys'[Target][t] = keys[Target][s] + 1
      <4> HIDE DEF RedisInv, MigrateKeys, Masters
      <4>1. Target \in Masters /\ n # Target  BY DEF Masters
      <4> QED  BY <4>1, <2>3, <1>2, <1>6
    <3> QED  BY <3>1, <1>0, <1>1, MaxKeys \in Nat
  <2> QED  BY <2>1, <2>2, <2>3
<1> QED  BY <1>3, <1>4, <1>5, <1>7

\* SETSLOT NODE on the owner takes the claim away.
LEMMA GivingKeeps ==
  ASSUME RedisInv, NEW s \in Slots, NEW n \in Masters \ {Target},
         Claims(n, s), SetSlotNode(n, s)
  PROVE  RedisInv' /\ Unclaimed(s)'
<1> USE SlotMigrationAssumption DEF RedisInv, SetSlotNode, Masters
<1>1. RedisType'  BY DEF RedisType
<1>2. \A m \in Masters, t \in Slots :
        owner'[m][t] = IF m = n /\ t = s THEN Target ELSE owner[m][t]
  BY DEF RedisType
<1>3. keys[n][s] = 0  BY n # Target
<1>4. Unclaimed(s)'  BY <1>2 DEF Unclaimed, Claims, OneClaimant
<1>5. OneClaimant' /\ OwnerAgreed' /\ OwnerKnown'
  BY <1>2, <1>4 DEF OneClaimant, OwnerAgreed, OwnerKnown, Claims, Unclaimed
<1>6. MigratingOwned' /\ RedirectsServed'
  BY <1>2 DEF MigratingOwned, RedirectsServed, Claims, RedisType
<1>7. KeysOwned' /\ KeysBounded'
  BY <1>2, <1>3 DEF KeysOwned, KeysBounded, Claims
<1> QED  BY <1>1, <1>4, <1>5, <1>6, <1>7

\* SETSLOT NODE on Target makes the claim.
LEMMA TakingKeeps ==
  ASSUME RedisInv, NEW s \in Slots, Unclaimed(s), SetSlotNode(Target, s)
  PROVE  RedisInv' /\ Claims(Target, s)'
<1> USE SlotMigrationAssumption DEF RedisInv, SetSlotNode, Masters
<1>1. RedisType'  BY DEF RedisType
<1>2. \A m \in Masters, t \in Slots :
        owner'[m][t] = IF m = Target /\ t = s THEN Target ELSE owner[m][t]
  BY DEF RedisType
<1>3. Claims(Target, s)'  BY <1>2 DEF Claims
<1>4. OneClaimant' /\ OwnerAgreed' /\ OwnerKnown'
  BY <1>2 DEF OneClaimant, OwnerAgreed, OwnerKnown, Claims, Unclaimed
<1>5. MigratingOwned' /\ RedirectsServed'
  BY <1>2, <1>3 DEF MigratingOwned, RedirectsServed, Claims, RedisType, Unclaimed
<1>6. KeysOwned' /\ KeysBounded'
  BY <1>2 DEF KeysOwned, KeysBounded, Claims
<1> QED  BY <1>1, <1>3, <1>4, <1>5, <1>6

\* SETSLOT NODE on another master only updates its view.
LEMMA NotifyingKeeps ==
  ASSUME RedisInv, NEW s \in Slots, NEW n \in Masters \ {Target},
         Claims(Target, s), SetSlotNode(n, s)
  PROVE  RedisInv'
<1> USE SlotMigrationAssumption DEF RedisInv, SetSlotNode, Masters
<1>1. RedisType'  BY DEF RedisType
<1>2. \A m \in Masters, t \in Slots :
        owner'[m][t] = IF m = n /\ t = s THEN Target ELSE owner[m][t]
  BY DEF RedisType
<1>3. ~Claims(n, s)  BY DEF OneClaimant
<1>4. OneClaimant' /\ OwnerAgreed' /\ OwnerKnown'
  BY <1>2, <1>3 DEF OneClaimant, OwnerAgreed, OwnerKnown, Claims
<1>5. MigratingOwned' /\ RedirectsServed'
  BY <1>2, <1>3 DEF MigratingOwned, RedirectsServed, Claims, RedisType
<1>6. KeysOwned' /\ KeysBounded'
  BY <1>2, <1>3 DEF KeysOwned, KeysBounded, Claims
<1> QED  BY <1>1, <1>4, <1>5, <1>6

LEMMA AddingKeeps ==
  ASSUME RedisInv, NEW added \in SUBSET Slots,
         \A s \in added : Unclaimed(s), ClusterAddSlots(added)
  PROVE  /\ RedisInv'
         /\ \A s \in Slots, n \in Masters : Claims(n, s)' <=>
              (Claims(n, s) \/ (n = Target /\ s \in added))
<1> USE SlotMigrationAssumption DEF RedisInv, ClusterAddSlots, Masters
<1>1. RedisType'  BY DEF RedisType
<1>2. \A m \in Masters, t \in Slots :
        owner'[m][t] = IF m = Target /\ t \in added THEN Target ELSE owner[m][t]
  BY DEF RedisType
<1>3. \A s \in Slots, n \in Masters : Claims(n, s)' <=>
        (Claims(n, s) \/ (n = Target /\ s \in added))
  BY <1>2 DEF Claims
<1>4. OneClaimant' /\ OwnerAgreed' /\ OwnerKnown'
  BY <1>2, <1>3 DEF OneClaimant, OwnerAgreed, OwnerKnown, Claims, Unclaimed
<1>5. MigratingOwned' /\ RedirectsServed'
  BY <1>2, <1>3 DEF MigratingOwned, RedirectsServed, Claims, RedisType, Unclaimed
<1>6. KeysOwned' /\ KeysBounded'
  BY <1>2 DEF KeysOwned, KeysBounded, Claims
<1> QED  BY <1>1, <1>3, <1>4, <1>5, <1>6

LEMMA GossipKeeps ==
  ASSUME RedisInv, NEW s \in Slots, NEW n \in Masters, NEW m \in Masters,
         Gossip(n, m, s)
  PROVE  /\ RedisInv'
         /\ \A t \in Slots, k \in Masters : Claims(k, t)' <=> Claims(k, t)
         /\ \A k \in Masters, t \in Slots :
              owner'[k][t] = IF k = m /\ t = s THEN n ELSE owner[k][t]
<1> USE SlotMigrationAssumption DEF RedisInv, Gossip, Masters
<1>1. RedisType'  BY DEF RedisType
<1>2. \A k \in Masters, t \in Slots :
        owner'[k][t] = IF k = m /\ t = s THEN n ELSE owner[k][t]
  BY DEF RedisType
<1>3. ~Claims(m, s)  BY DEF OneClaimant
<1>4. \A t \in Slots, k \in Masters : Claims(k, t)' <=> Claims(k, t)
  BY <1>2, <1>3 DEF Claims
<1>5. OneClaimant'  BY <1>4 DEF OneClaimant
<1>6. OwnerAgreed' /\ OwnerKnown'
  BY <1>2, <1>3 DEF OneClaimant, OwnerAgreed, OwnerKnown, Claims
<1>7. MigratingOwned' /\ RedirectsServed'
  BY <1>2, <1>3 DEF MigratingOwned, RedirectsServed, Claims, RedisType
<1>8. KeysOwned' /\ KeysBounded'
  BY <1>2, <1>3 DEF KeysOwned, KeysBounded, Claims
<1> QED  BY <1>1, <1>2, <1>4, <1>5, <1>6, <1>7, <1>8

LEMMA ClientKeeps ==
  ASSUME RedisInv, NEW s \in Slots, NEW n \in Masters, ClientWrite(n, s)
  PROVE  RedisInv'
<1> USE SlotMigrationAssumption DEF RedisInv, ClientWrite, Masters
<1>1. RedisType'
  <2>1. keys' \in [Masters -> [Slots -> 0..MaxKeys]]
    BY MaxKeys \in Nat DEF RedisType
  <2> QED  BY <2>1 DEF RedisType
<1>2. OneClaimant' /\ OwnerAgreed' /\ OwnerKnown' /\ MigratingOwned' /\ RedirectsServed'
  BY DEF OneClaimant, OwnerAgreed, OwnerKnown, MigratingOwned, RedirectsServed, Claims
<1>3. \A m \in Masters, t \in Slots :
        keys'[m][t] = IF m = n /\ t = s THEN 1 ELSE keys[m][t]
  BY DEF RedisType
<1>4. KeysOwned'  BY <1>3 DEF KeysOwned, Claims
<1>5. KeysBounded'  BY <1>3, MaxKeys \in Nat DEF KeysBounded
<1> QED  BY <1>1, <1>2, <1>4, <1>5

LEMMA IdleKeeps ==
  ASSUME RedisInv, UNCHANGED redisVars
  PROVE  RedisInv'
BY DEF RedisInv, redisVars, RedisType, OneClaimant, OwnerAgreed, OwnerKnown,
       MigratingOwned, RedirectsServed, KeysOwned, KeysBounded, Claims

-----------------------------------------------------------------------------
(***************************************************************************)
(* A goroutine's command changes its own slot only, makes no claim but     *)
(* Target's, and takes none from Target.                                   *)
(***************************************************************************)
OnlySlot(s) ==
    /\ \A t \in Slots \ {s}, n \in Masters :
         owner'[n][t] = owner[n][t] /\ keys'[n][t] = keys[n][t]
    /\ \A t \in Slots \ {s} : importing'[t] = importing[t]
    /\ \A n \in Masters \ {Target} : Claims(n, s)' => Claims(n, s)
    /\ Claims(Target, s) => Claims(Target, s)'

LEMMA SetSlotNodeTouches ==
  ASSUME RedisInv, NEW s \in Slots, NEW n \in Masters, SetSlotNode(n, s)
  PROVE  OnlySlot(s)
<1>1. Target \in Masters  BY DEF Masters
<1>2. \A m \in Masters, t \in Slots :
        owner'[m][t] = IF m = n /\ t = s THEN Target ELSE owner[m][t]
  BY DEF SetSlotNode, RedisInv, RedisType
<1>3. \A t \in Slots \ {s} : importing'[t] = importing[t]
  BY DEF SetSlotNode, RedisInv, RedisType
<1>4. keys' = keys  BY DEF SetSlotNode
<1> QED  BY <1>1, <1>2, <1>3, <1>4 DEF OnlySlot, Claims

LEMMA CommandKeeps ==
  ASSUME IInv, NEW s \in Slots, Command(s)
  PROVE  RedisInv' /\ OnlySlot(s)
<1>0. RedisInv /\ TaskInv(s) /\ ViewInv(s)  BY DEF IInv
<1>1. CASE task[s] = "importing" /\ SetSlotImporting(s, view[s])
  <2>1. view[s] \in Masters \ {Target}  BY <1>0, <1>1 DEF TaskInv
  <2>2. \A n \in Masters \ {Target} : Claims(n, s) => view[s] = n
    BY <1>0, <2>1, SlotMigrationAssumption DEF ViewInv
  <2>3. RedisInv'  BY <1>0, <1>1, <2>1, <2>2, ImportingKeeps
  <2>4. OnlySlot(s)
    BY <1>0, <1>1 DEF OnlySlot, SetSlotImporting, RedisInv, RedisType, Claims
  <2> QED  BY <2>3, <2>4
<1>2. CASE task[s] = "migrating" /\ SetSlotMigrating(view[s], s)
  <2>1. view[s] \in Masters \ {Target} /\ (importing[s] = view[s] \/ Claims(Target, s))
    BY <1>0, <1>2 DEF TaskInv
  <2>2. RedisInv'  BY <1>0, <1>2, <2>1, MigratingKeeps
  <2>3. OnlySlot(s)  BY <1>2 DEF OnlySlot, SetSlotMigrating, Claims
  <2> QED  BY <2>2, <2>3
<1>3. CASE task[s] = "moving" /\ MigrateKeys(view[s], s)
  <2>1. /\ view[s] \in Masters \ {Target}
        /\ Claims(view[s], s)
        /\ keys[view[s]][s] > 0
    BY <1>0, <1>3 DEF TaskInv
  <2>2. RedisInv'  BY <1>0, <1>3, <2>1, KeysKeep
  <2>3. OnlySlot(s)
    BY <1>0, <1>3, <2>1 DEF OnlySlot, MigrateKeys, RedisInv, RedisType, Claims
  <2> QED  BY <2>2, <2>3
<1>4. CASE task[s] = "source" /\ SetSlotNode(view[s], s)
  <2>1. view[s] \in Masters \ {Target} /\ Claims(view[s], s)
    BY <1>0, <1>4 DEF TaskInv
  <2> QED  BY <1>0, <1>4, <2>1, GivingKeeps, SetSlotNodeTouches
<1>5. CASE task[s] = "target" /\ SetSlotNode(Target, s)
  <2>1. Unclaimed(s) /\ Target \in Masters  BY <1>0, <1>5 DEF TaskInv, Masters
  <2> QED  BY <1>0, <1>5, <2>1, TakingKeeps, SetSlotNodeTouches
<1>6. CASE task[s] = "peers" /\ \E n \in peers[s] : SetSlotNode(n, s)
  <2>1. PICK n \in peers[s] : SetSlotNode(n, s)  BY <1>6
  <2>2. n \in Masters \ {Target} /\ Claims(Target, s)
    BY <1>0, <1>6 DEF TaskInv, IInv, StepType
  <2> QED  BY <1>0, <2>1, <2>2, NotifyingKeeps, SetSlotNodeTouches
<1> QED  BY <1>1, <1>2, <1>3, <1>4, <1>5, <1>6 DEF Command

\* What the goroutine of s leaves true of the other slots, and of the view.
LEMMA OthersKeep ==
  ASSUME IInv, NEW s \in Slots, OnlySlot(s), pc = "migrate",
         UNCHANGED <<pc, view, toAdd, unverified, result>>,
         \A t \in Slots \ {s} : task'[t] = task[t] /\ peers'[t] = peers[t]
  PROVE  (\A t \in Slots \ {s} : TaskInv(t)') /\ (\A t \in Slots : ViewInv(t)')
<1>0. Target \in Masters  BY DEF Masters
<1>1. ASSUME NEW t \in Slots \ {s} PROVE TaskInv(t)'
  <2>1. TaskInv(t)  BY DEF IInv
  <2>2. \A n \in Masters : Claims(n, t)' <=> Claims(n, t)
    BY DEF OnlySlot, Claims
  <2>3. task[t] # "none" => Claims(view[t], t)' <=> Claims(view[t], t)
    BY <2>1, <2>2 DEF TaskInv
  <2>4. task[t] # "none" => keys'[view[t]][t] = keys[view[t]][t]
    BY <2>1 DEF TaskInv, OnlySlot
  <2>5. importing'[t] = importing[t] /\ task'[t] = task[t] /\ peers'[t] = peers[t]
    BY DEF OnlySlot
  <2> QED  BY <1>0, <2>1, <2>2, <2>3, <2>4, <2>5 DEF TaskInv, Unclaimed, Claims
<1>2. ASSUME NEW t \in Slots PROVE ViewInv(t)'
  <2>1. ViewInv(t)  BY DEF IInv
  <2>2. /\ \A n \in Masters \ {Target} : Claims(n, t)' => Claims(n, t)
        /\ Claims(Target, t) => Claims(Target, t)'
    BY <1>0 DEF OnlySlot, Claims
  <2> QED  BY <2>1, <2>2 DEF ViewInv
<1> QED  BY <1>1, <1>2

LEMMA ReturnKeeps ==
  ASSUME IInv, UNCHANGED redisVars, NEW outcome, Return(outcome),
         outcome \in {"None", "Running", "Completed", "Failed"},
         outcome = "Completed" => \A s \in Slots : Claims(Target, s),
         faults' \in 0..MaxFaults
  PROVE  IInv'
<1>1. RedisInv'  BY IdleKeeps DEF IInv
<1>2. StepType'  BY DEF Return, StepType, Tasks
<1>3. ASSUME NEW s \in Slots PROVE TaskInv(s)' /\ ViewInv(s)'
  BY DEF Return, TaskInv, ViewInv, redisVars, Claims
<1> QED  BY <1>1, <1>2, <1>3 DEF IInv, Return

LEMMA FaultTyped ==
  ASSUME IInv, Fault \/ UNCHANGED faults
  PROVE  faults' \in 0..MaxFaults
BY SlotMigrationAssumption DEF IInv, StepType, Fault

-----------------------------------------------------------------------------
LEMMA InitEstablishes == Init => IInv
<1> SUFFICES ASSUME Init PROVE IInv
  OBVIOUS
<1> USE SlotMigrationAssumption DEF Masters
<1>1. PICK claimant \in [Slots -> Masters \cup {NoNode}] :
        /\ owner \in [Masters -> [Slots -> Masters \cup {NoNode}]]
        /\ \A n \in Masters, s \in Slots :
             \/ owner[n][s] = claimant[s]
             \/ owner[n][s] = NoNode /\ n # claimant[s]
        /\ \/ FullCoverage
           \/ \A s \in Slots : claimant[s] \in {owner[Source][s], owner[Target][s]}
        /\ keys \in [Masters -> [Slots -> 0..MaxKeys]]
        /\ \A n \in Masters, s \in Slots : keys[n][s] > 0 => n = claimant[s]
  BY DEF Init
<1>2. RedisType  BY <1>1 DEF Init, RedisType
<1>3. \A n \in Masters, s \in Slots : Claims(n, s) <=> n = claimant[s]
  BY <1>1 DEF Claims
<1>4. OneClaimant /\ OwnerAgreed
  <2> HIDE DEF Masters
  <2>1. OneClaimant  BY <1>3 DEF OneClaimant
  <2>2. OwnerAgreed  BY <1>1, <1>3 DEF OwnerAgreed
  <2> QED  BY <2>1, <2>2
<1>5. OwnerKnown  BY <1>1, <1>3 DEF OwnerKnown
<1>6. MigratingOwned /\ RedirectsServed
  BY DEF Init, MigratingOwned, RedirectsServed
<1>7. KeysOwned  BY <1>1, <1>3 DEF KeysOwned
<1>8. KeysBounded
  <2> SUFFICES ASSUME NEW n \in Masters \ {Target}, NEW s \in Slots
               PROVE  keys[n][s] + keys[Target][s] <= MaxKeys
    BY DEF KeysBounded
  <2>1. keys[n][s] \in 0..MaxKeys /\ keys[Target][s] \in 0..MaxKeys  BY <1>1
  <2>2. keys[n][s] = 0 \/ keys[Target][s] = 0  BY <1>1, <2>1
  <2> QED  BY <2>1, <2>2
<1>9. RedisInv  BY <1>2, <1>4, <1>5, <1>6, <1>7, <1>8 DEF RedisInv
<1>10. StepType
  <2> HIDE DEF Masters
  <2>1. faults \in 0..MaxFaults  BY DEF Init
  <2> QED  BY <2>1 DEF Init, StepType, Tasks
<1>11. \A s \in Slots : TaskInv(s) /\ ViewInv(s)
  BY DEF Init, TaskInv, ViewInv
<1> QED  BY <1>9, <1>10, <1>11 DEF IInv, Init

\* The step on its own: reading views, starting goroutines, verifying.
LEMMA ReadSourceKeeps == IInv /\ ReadSource => IInv'
<1> SUFFICES ASSUME IInv, ReadSource PROVE IInv'
  OBVIOUS
<1>1. RedisInv'  BY IdleKeeps DEF IInv, ReadSource
<1>2. faults' \in 0..MaxFaults  BY FaultTyped DEF ReadSource
<1>3. StepType'
  BY <1>2 DEF IInv, StepType, ReadSource, goVars, RedisInv, RedisType, Masters
<1>4. ASSUME NEW s \in Slots PROVE TaskInv(s)' /\ ViewInv(s)'
  <2>1. TaskInv(s)'
    BY DEF IInv, TaskInv, ReadSource, goVars, redisVars, Claims, Unclaimed
  <2>2. ViewInv(s)
    BY DEF IInv
  <2>3. view'[s] = owner[Source][s] /\ owner' = owner
    BY DEF ReadSource, redisVars, IInv, RedisInv, RedisType, Masters
  <2>4. \A n \in Masters \ {Target} : Claims(n, s)' => view'[s] \in {NoNode, Target, n}
    BY <2>3 DEF IInv, RedisInv, OwnerAgreed, Claims, Masters
  <2>5. pc' \in {"repair", "start"} /\ (pc' = "start" => view'[s] # NoNode)
    BY <2>3 DEF ReadSource
  <2>6. ~FullCoverage /\ view'[s] = NoNode =>
          \A n \in Masters : Claims(n, s)' => owner'[Target][s] = n
    <3>1. SUFFICES ASSUME ~FullCoverage, view'[s] = NoNode,
                          NEW n \in Masters, owner[n][s] = n
                   PROVE  owner[Target][s] = n
      BY <2>3 DEF Claims
    <3>2. owner[Source][s] = n \/ owner[Target][s] = n
      BY <3>1 DEF IInv, RedisInv, OwnerKnown, Claims
    <3>3. n # NoNode  BY SlotMigrationAssumption
    <3> QED  BY <2>3, <3>1, <3>2, <3>3
  <2>7. result' = "Completed" => Claims(Target, s)'
    BY <2>2, <2>3 DEF ViewInv, ReadSource, Claims
  <2> QED  BY <2>1, <2>4, <2>5, <2>6, <2>7 DEF ViewInv
<1> QED  BY <1>1, <1>3, <1>4 DEF IInv, ReadSource

LEMMA ReadTargetKeeps == IInv /\ ReadTarget => IInv'
<1> SUFFICES ASSUME IInv, ReadTarget PROVE IInv'
  OBVIOUS
<1>1. RedisInv'  BY IdleKeeps DEF IInv, ReadTarget
<1>2. view' = [s \in Slots |-> IF s \in Missing THEN Target ELSE view[s]]
      /\ toAdd' = {s \in Missing : owner[Target][s] = NoNode}
      /\ owner' = owner
  BY DEF ReadTarget, redisVars
<1>3. StepType'
  BY <1>2 DEF IInv, StepType, ReadTarget, goVars, Masters, Missing
<1>4. ASSUME NEW s \in Slots PROVE TaskInv(s)' /\ ViewInv(s)'
  <2>1. TaskInv(s) /\ ViewInv(s)  BY DEF IInv
  <2>2. task[s] = "none" /\ task' = task /\ peers' = peers
    BY <2>1 DEF TaskInv, ReadTarget, goVars
  <2>3. view'[s] # NoNode /\ (view'[s] # view[s] => view[s] = NoNode /\ view'[s] = Target)
    BY <1>2, SlotMigrationAssumption DEF Missing, Masters
  <2>4. TaskInv(s)'
    BY <2>1, <2>2, <2>3, SlotMigrationAssumption DEF TaskInv, Masters
  <2>5. pc' \in {"start", "add"} /\ pc = "repair" /\ UNCHANGED <<unverified, result>>
    BY DEF ReadTarget
  <2>6. ~FullCoverage /\ s \in toAdd' => Unclaimed(s)'
    BY <1>2, <2>1, <2>5, SlotMigrationAssumption DEF ViewInv, Missing, Unclaimed, Claims, Masters
  <2>7. ViewInv(s)'
    BY <1>2, <2>1, <2>3, <2>5, <2>6 DEF ViewInv, Claims
  <2> QED  BY <2>4, <2>7
<1>5. pc' = "add" => toAdd' # {}  BY DEF ReadTarget
<1> QED  BY <1>1, <1>3, <1>4, <1>5 DEF IInv

\* Full coverage keeps a cluster that lacks an owner from adding one.
LEMMA AddMissingKeeps == IInv /\ AddMissing => IInv'
<1> SUFFICES ASSUME IInv, AddMissing PROVE IInv'
  OBVIOUS
<1>0. pc = "add" /\ toAdd \in SUBSET Slots /\ toAdd # {} /\ Target \in Masters
  BY DEF AddMissing, IInv, StepType, Masters
<1>1. ~FullCoverage
  BY <1>0 DEF AddMissing, ClusterStateOK, ClusterAddSlots
<1>2. \A s \in toAdd : Unclaimed(s)  BY <1>0, <1>1 DEF IInv, ViewInv
<1>3. /\ RedisInv'
      /\ \A s \in Slots, n \in Masters : Claims(n, s)' <=>
           (Claims(n, s) \/ (n = Target /\ s \in toAdd))
  BY <1>0, <1>2, AddingKeeps DEF IInv, AddMissing
<1>4. StepType'  BY DEF IInv, StepType, AddMissing, goVars
<1>5. ASSUME NEW s \in Slots PROVE TaskInv(s)' /\ ViewInv(s)'
  <2>1. TaskInv(s) /\ ViewInv(s)  BY DEF IInv
  <2>2. TaskInv(s)'
    BY <1>0, <2>1 DEF TaskInv, AddMissing, goVars
  <2>3. ViewInv(s)'
    BY <1>0, <1>3, <2>1 DEF ViewInv, AddMissing
  <2> QED  BY <2>2, <2>3
<1> QED  BY <1>3, <1>4, <1>5 DEF IInv, AddMissing

LEMMA StartKeeps == IInv /\ (StartGoroutines \/ NothingToMigrate) => IInv'
<1> SUFFICES ASSUME IInv, StartGoroutines \/ NothingToMigrate PROVE IInv'
  OBVIOUS
<1>1. RedisInv'  BY IdleKeeps DEF IInv, StartGoroutines, NothingToMigrate
<1>2. pc = "start" /\ view \in [Slots -> Masters \cup {NoNode}]
  BY DEF StartGoroutines, NothingToMigrate, IInv, StepType
<1>3. CASE StartGoroutines
  <2>1. PICK todo \in SUBSET Open :
          /\ task' = [s \in Slots |-> IF s \in todo THEN "importing" ELSE "none"]
          /\ peers' = [s \in Slots |-> IF s \in todo THEN Peers(todo) ELSE {}]
    BY <1>3 DEF StartGoroutines
  <2>2. StepType'
    BY <1>3, <2>1 DEF IInv, StepType, StartGoroutines, Tasks, Peers
  <2>3. ASSUME NEW s \in Slots PROVE TaskInv(s)' /\ ViewInv(s)'
    <3>1. ViewInv(s)  BY DEF IInv
    <3>2. TaskInv(s)'
      BY <1>2, <1>3, <2>1, <3>1 DEF TaskInv, ViewInv, StartGoroutines, Open, Peers
    <3>3. ViewInv(s)'
      BY <1>2, <1>3, <3>1 DEF ViewInv, StartGoroutines, redisVars, Claims
    <3> QED  BY <3>2, <3>3
  <2> QED  BY <1>1, <1>3, <2>2, <2>3 DEF IInv, StartGoroutines
<1>4. CASE NothingToMigrate
  <2>1. Target \in unverified' /\ unverified' \in SUBSET Masters
    BY <1>4 DEF NothingToMigrate, Verifiers
  <2>2. StepType'
    BY <1>4, <2>1 DEF IInv, StepType, NothingToMigrate, goVars
  <2>3. ASSUME NEW s \in Slots PROVE TaskInv(s)' /\ ViewInv(s)'
    <3>1. TaskInv(s) /\ ViewInv(s)  BY DEF IInv
    <3>2. TaskInv(s)'
      BY <1>2, <1>4, <3>1 DEF TaskInv, NothingToMigrate, goVars, redisVars
    <3>3. ViewInv(s)'
      BY <1>2, <1>4, <2>1, <3>1 DEF ViewInv, NothingToMigrate, redisVars, Claims
    <3> QED  BY <3>2, <3>3
  <2> QED  BY <1>1, <1>4, <2>2, <2>3 DEF IInv, NothingToMigrate
<1> QED  BY <1>3, <1>4

LEMMA VerificationKeeps == IInv /\ (StartVerification \/ VerifyView) => IInv'
<1> SUFFICES ASSUME IInv, StartVerification \/ VerifyView PROVE IInv'
  OBVIOUS
<1>0. Target \in Masters  BY DEF Masters
<1>1. RedisInv' /\ redisVars' = redisVars
  BY IdleKeeps DEF IInv, StartVerification, VerifyView
<1>2. CASE StartVerification
  <2>1. Target \in unverified' /\ unverified' \in SUBSET Masters
    BY <1>2 DEF StartVerification, Verifiers
  <2>2. StepType'
    BY <1>2, <2>1 DEF IInv, StepType, StartVerification, goVars
  <2>3. ASSUME NEW s \in Slots PROVE TaskInv(s)' /\ ViewInv(s)'
    <3>1. TaskInv(s) /\ ViewInv(s)  BY DEF IInv
    <3>2. TaskInv(s)'
      BY <1>2, <3>1 DEF TaskInv, StartVerification, goVars
    <3>3. ViewInv(s)'
      BY <1>1, <1>2, <2>1, <3>1 DEF ViewInv, StartVerification, redisVars, Claims
    <3> QED  BY <3>2, <3>3
  <2> QED  BY <1>1, <1>2, <2>2, <2>3 DEF IInv, StartVerification
<1>3. CASE VerifyView
  <2>1. PICK n \in unverified : ViewIsTarget(n) /\ unverified' = unverified \ {n}
    BY <1>3 DEF VerifyView
  <2>2. StepType'
    BY <1>3, <2>1 DEF IInv, StepType, VerifyView, goVars
  <2>3. ASSUME NEW s \in Slots PROVE TaskInv(s)' /\ ViewInv(s)'
    <3>1. TaskInv(s) /\ ViewInv(s)  BY DEF IInv
    <3>2. TaskInv(s)'
      BY <1>1, <1>3, <3>1 DEF TaskInv, VerifyView, goVars, redisVars, Claims, Unclaimed
    <3>3. pc = "verify" /\ UNCHANGED <<pc, view, toAdd, result, owner>>
      BY <1>1, <1>3 DEF VerifyView, redisVars
    <3>4. Target \notin unverified' => Claims(Target, s)'
      BY <2>1, <3>1, <3>3 DEF ViewInv, ViewIsTarget, Claims
    <3>5. ViewInv(s)'
      BY <3>1, <3>3, <3>4 DEF ViewInv, Claims, Unclaimed
    <3> QED  BY <3>2, <3>5
  <2> QED  BY <1>1, <1>3, <2>2, <2>3 DEF IInv, VerifyView
<1> QED  BY <1>2, <1>3

\* Every outcome but that of Complete is one of the other three.
LEMMA EndKeeps ==
  IInv /\ (RefuseRepair \/ AddMissingFails \/ WaitForClusterState \/ GoroutinesEnd
             \/ ViewNotReady \/ Complete \/ Crash) => IInv'
<1> SUFFICES ASSUME IInv,
                    RefuseRepair \/ AddMissingFails \/ WaitForClusterState
                      \/ GoroutinesEnd \/ ViewNotReady \/ Complete \/ Crash
             PROVE  IInv'
  OBVIOUS
<1>1. CASE Complete
  <2>1. \A s \in Slots : Claims(Target, s)  BY <1>1 DEF Complete, IInv, ViewInv
  <2>2. faults' \in 0..MaxFaults  BY <1>1, FaultTyped DEF Complete
  <2> QED  BY <1>1, <2>1, <2>2, ReturnKeeps DEF Complete
<1>2. CASE Crash
  <2>1. result = "Completed" => \A s \in Slots : Claims(Target, s)
    BY DEF IInv, ViewInv
  <2>2. result \in {"None", "Running", "Completed", "Failed"}
    BY DEF IInv, StepType
  <2>3. faults' \in 0..MaxFaults  BY <1>2, FaultTyped DEF Crash
  <2> QED  BY <1>2, <2>1, <2>2, <2>3, ReturnKeeps DEF Crash
<1>3. CASE RefuseRepair \/ AddMissingFails \/ WaitForClusterState
             \/ GoroutinesEnd \/ ViewNotReady
  <2>1. UNCHANGED redisVars /\ UNCHANGED faults
    BY <1>3 DEF RefuseRepair, AddMissingFails, WaitForClusterState, GoroutinesEnd, ViewNotReady
  <2>2. Return("Running") \/ Return("Failed")
    BY <1>3 DEF RefuseRepair, AddMissingFails, WaitForClusterState, GoroutinesEnd, ViewNotReady
  <2>3. faults' \in 0..MaxFaults  BY <2>1, FaultTyped
  <2> QED  BY <2>1, <2>2, <2>3, ReturnKeeps
<1> QED  BY <1>1, <1>2, <1>3

-----------------------------------------------------------------------------
\* A goroutine's command: its effect on Redis, and what it tells its goroutine.
LEMMA GoroutineKeeps ==
  ASSUME IInv, NEW s \in Slots, Command(s), pc = "migrate", task[s] # "none",
         NEW next \in Tasks,
         task' = [task EXCEPT ![s] = next],
         peers' \in [Slots -> SUBSET Masters],
         \A t \in Slots : peers'[t] \subseteq peers[t] /\ (t # s => peers'[t] = peers[t]),
         cancelled' \in BOOLEAN,
         UNCHANGED <<pc, view, toAdd, unverified, result>>,
         faults' \in 0..MaxFaults,
         next = "migrating" => importing'[s] = view[s] \/ Claims(Target, s)',
         next \in {"reading", "source"} => Claims(view[s], s)',
         next # "moving",
         next = "target" => Unclaimed(s)',
         next = "peers" => Claims(Target, s)'
  PROVE  IInv'
<1>1. RedisInv' /\ OnlySlot(s)  BY CommandKeeps
<1>2. \A t \in Slots \ {s} : task'[t] = task[t] /\ peers'[t] = peers[t]
  BY DEF IInv, StepType
<1>3. (\A t \in Slots \ {s} : TaskInv(t)') /\ (\A t \in Slots : ViewInv(t)')
  BY <1>1, <1>2, OthersKeep
<1>4. task'[s] = next /\ view'[s] = view[s]  BY DEF IInv, StepType
<1>5. TaskInv(s)'
  <2>1. TaskInv(s)  BY DEF IInv
  <2> QED  BY <1>4, <2>1 DEF TaskInv
<1>6. StepType'  BY DEF IInv, StepType
<1> QED  BY <1>1, <1>3, <1>5, <1>6 DEF IInv

LEMMA SlotKeeps ==
  ASSUME IInv, NEW s \in Slots,
         Importing(s) \/ Migrating(s) \/ MoveKeys(s) \/ SourceGives(s)
           \/ TargetTakes(s) \/ NotifyPeer(s)
  PROVE  IInv'
<1>0. /\ TaskInv(s) /\ ViewInv(s) /\ RedisInv
      /\ peers \in [Slots -> SUBSET Masters]
      /\ cancelled \in BOOLEAN
      /\ faults \in 0..MaxFaults
  BY DEF IInv, StepType
<1>1. CASE Importing(s)
  <2>1. Command(s) /\ importing'[s] = view[s]
    BY <1>0, <1>1 DEF Importing, At, Command, SetSlotImporting, RedisInv, RedisType
  <2> QED  BY <1>0, <1>1, <2>1, GoroutineKeeps DEF Importing, At, Goto, Tasks
<1>2. CASE Migrating(s)
  <2>1. Command(s) /\ Claims(view[s], s) /\ owner' = owner /\ view' = view
    BY <1>2 DEF Migrating, At, Command, SetSlotMigrating, Goto
  <2>2. Claims(view[s], s)'  BY <2>1 DEF Claims
  <2> QED  BY <1>0, <1>2, <2>1, <2>2, GoroutineKeeps DEF Migrating, At, Goto, Tasks
<1>3. CASE MoveKeys(s)
  <2>1. Command(s)  BY <1>3 DEF MoveKeys, At, Command
  <2> QED  BY <1>0, <1>3, <2>1, GoroutineKeeps DEF MoveKeys, At, Goto, Tasks
<1>4. CASE SourceGives(s)
  <2>1. Command(s) /\ view[s] \in Masters \ {Target} /\ Claims(view[s], s)
    BY <1>0, <1>4 DEF SourceGives, At, Command, TaskInv
  <2>2. Unclaimed(s)'  BY <1>0, <1>4, <2>1, GivingKeeps DEF SourceGives
  <2> QED  BY <1>0, <1>4, <2>1, <2>2, GoroutineKeeps DEF SourceGives, At, Goto, Tasks
<1>5. CASE TargetTakes(s)
  <2>1. Command(s) /\ Unclaimed(s)
    BY <1>0, <1>5 DEF TargetTakes, At, Command, TaskInv
  <2>2. Claims(Target, s)'  BY <1>0, <1>5, <2>1, TakingKeeps DEF TargetTakes
  <2>3. CASE peers[s] = {}
    BY <1>0, <1>5, <2>1, <2>2, <2>3, GoroutineKeeps DEF TargetTakes, At, Goto, Tasks
  <2>4. CASE peers[s] # {}
    BY <1>0, <1>5, <2>1, <2>2, <2>4, GoroutineKeeps DEF TargetTakes, At, Goto, Tasks
  <2> QED  BY <2>3, <2>4
<1>6. CASE NotifyPeer(s)
  <2>1. PICK n \in peers[s] :
          /\ SetSlotNode(n, s)
          /\ peers' = [peers EXCEPT ![s] = @ \ {n}]
          /\ task' = [task EXCEPT ![s] = IF peers[s] = {n} THEN "done" ELSE "peers"]
    BY <1>6 DEF NotifyPeer
  <2>2. Command(s)  BY <1>6, <2>1 DEF NotifyPeer, At, Command
  <2>3. Claims(Target, s)'
    <3>1. Claims(Target, s)  BY <1>0, <1>6 DEF TaskInv, NotifyPeer, At
    <3> QED  BY <2>2, <3>1, CommandKeeps DEF OnlySlot
  <2>4. /\ peers' \in [Slots -> SUBSET Masters]
        /\ \A t \in Slots : peers'[t] \subseteq peers[t] /\ (t # s => peers'[t] = peers[t])
    BY <1>0, <2>1
  <2>5. PICK next \in {"done", "peers"} : task' = [task EXCEPT ![s] = next]
    BY <2>1
  <2> QED
    BY <1>0, <1>6, <2>2, <2>3, <2>4, <2>5, GoroutineKeeps DEF NotifyPeer, At, Tasks
<1> QED  BY <1>1, <1>2, <1>3, <1>4, <1>5, <1>6

\* A goroutine that reads keys, fails or waits without a command.
LEMMA QuietKeeps ==
  ASSUME IInv, NEW s \in Slots, UNCHANGED redisVars, pc = "migrate", task[s] # "none",
         NEW next \in Tasks,
         task' = [task EXCEPT ![s] = next],
         cancelled' \in BOOLEAN,
         UNCHANGED <<pc, view, toAdd, peers, unverified, result>>,
         faults' \in 0..MaxFaults,
         next \in {"failed", "waiting"}
           \/ (task[s] = "reading" /\ next = IF keys[view[s]][s] > 0 THEN "moving" ELSE "source")
  PROVE  IInv'
<1>1. RedisInv'  BY IdleKeeps DEF IInv
<1>2. StepType'  BY DEF IInv, StepType
<1>3. ASSUME NEW t \in Slots PROVE TaskInv(t)' /\ ViewInv(t)'
  <2>1. TaskInv(t) /\ ViewInv(t)  BY DEF IInv
  <2>2. task'[t] = IF t = s THEN next ELSE task[t]  BY DEF IInv, StepType
  <2>3. TaskInv(t)'
    BY <2>1, <2>2 DEF TaskInv, redisVars, Claims, Unclaimed
  <2>4. ViewInv(t)'  BY <2>1 DEF ViewInv, redisVars, Claims, Unclaimed
  <2> QED  BY <2>3, <2>4
<1> QED  BY <1>1, <1>2, <1>3 DEF IInv

LEMMA FailureKeeps ==
  ASSUME IInv, NEW s \in Slots, GetKeys(s) \/ SlotFails(s)
  PROVE  IInv'
<1>0. /\ cancelled \in BOOLEAN
      /\ peers \in [Slots -> SUBSET Masters]
      /\ faults \in 0..MaxFaults
  BY DEF IInv, StepType
<1>1. CASE GetKeys(s)
  <2> DEFINE next == IF keys[view[s]][s] > 0 THEN "moving" ELSE "source"
  <2>1. next \in Tasks  BY DEF Tasks
  <2>2. task' = [task EXCEPT ![s] = next] /\ task[s] = "reading" /\ pc = "migrate"
    BY <1>1 DEF GetKeys, Goto, At
  <2>3. /\ UNCHANGED redisVars
        /\ UNCHANGED <<pc, view, toAdd, peers, unverified, result>>
        /\ cancelled' \in BOOLEAN /\ faults' \in 0..MaxFaults
    BY <1>0, <1>1 DEF GetKeys, Goto
  <2> QED  BY <2>1, <2>2, <2>3, QuietKeeps
<1>2. CASE CommandRefused(s)
  <2>1. task[s] # "none" /\ pc = "migrate"
    BY <1>2 DEF CommandRefused, Refused
  <2>2. "failed" \in Tasks  BY DEF Tasks
  <2> QED  BY <1>0, <1>2, <2>1, <2>2, QuietKeeps DEF CommandRefused, Fail
<1>3. CASE CommandBroken(s)
  <2>1. task[s] # "none" /\ pc = "migrate"
    BY <1>3 DEF CommandBroken, Ended
  <2>2. "failed" \in Tasks  BY DEF Tasks
  <2>3. faults' \in 0..MaxFaults  BY <1>3, FaultTyped DEF CommandBroken
  <2>4. CASE Command(s)
    BY <1>0, <1>3, <2>1, <2>2, <2>3, <2>4, GoroutineKeeps DEF CommandBroken, Fail
  <2>5. CASE UNCHANGED redisVars
    BY <1>0, <1>3, <2>1, <2>2, <2>3, <2>5, QuietKeeps DEF CommandBroken, Fail
  <2> QED  BY <1>3, <2>4, <2>5 DEF CommandBroken
<1>4. CASE CommandWaits(s)
  <2>1. task[s] # "none" /\ pc = "migrate"
    BY <1>4 DEF CommandWaits, Ended
  <2>2. "waiting" \in Tasks  BY DEF Tasks
  <2>3. faults' \in 0..MaxFaults  BY <1>4, FaultTyped DEF CommandWaits
  <2> QED  BY <1>0, <1>4, <2>1, <2>2, <2>3, QuietKeeps DEF CommandWaits
<1> QED  BY <1>1, <1>2, <1>3, <1>4 DEF SlotFails

LEMMA RedisKeeps == IInv /\ Redis => IInv'
<1> SUFFICES ASSUME IInv, Redis PROVE IInv'
  OBVIOUS
<1>1. ASSUME NEW n \in Masters, NEW m \in Masters, NEW s \in Slots, Gossip(n, m, s)
      PROVE  IInv'
  <2>1. /\ RedisInv'
        /\ \A t \in Slots, k \in Masters : Claims(k, t)' <=> Claims(k, t)
        /\ \A k \in Masters, t \in Slots :
             owner'[k][t] = IF k = m /\ t = s THEN n ELSE owner[k][t]
    BY <1>1, GossipKeeps DEF IInv
  <2>2. UNCHANGED <<importing, keys, newest, stepVars, faults>> /\ Claims(n, s)
    BY <1>1 DEF Gossip
  <2>3. StepType'  BY <2>2 DEF IInv, StepType, stepVars, goVars
  <2>4. ASSUME NEW t \in Slots PROVE TaskInv(t)' /\ ViewInv(t)'
    <3>0. Target \in Masters  BY DEF Masters
    <3>1. TaskInv(t) /\ ViewInv(t)  BY DEF IInv
    <3>2. task[t] # "none" => Claims(view[t], t)' <=> Claims(view[t], t)
      <4>1. view'[t] = view[t]  BY <2>2 DEF stepVars
      <4> QED  BY <2>1, <3>1, <4>1 DEF TaskInv, Claims
    <3>3. Unclaimed(t)' <=> Unclaimed(t)  BY <2>1 DEF Unclaimed
    <3>4. Claims(Target, t)' <=> Claims(Target, t)  BY <2>1, <3>0
    <3>5. TaskInv(t)'
      BY <2>2, <3>1, <3>2, <3>3, <3>4 DEF TaskInv, stepVars, goVars
    <3>6. ASSUME NEW k \in Masters, Claims(k, t), owner[Target][t] = k
          PROVE  owner'[Target][t] = k
      BY <2>1, <2>2, <3>0, <3>6 DEF IInv, RedisInv, OneClaimant
    <3>7. ViewInv(t)'
      BY <2>1, <2>2, <3>1, <3>3, <3>4, <3>6 DEF ViewInv, stepVars, goVars
    <3> QED  BY <3>5, <3>7
  <2> QED  BY <2>1, <2>2, <2>3, <2>4 DEF IInv, stepVars
<1>2. ASSUME NEW n \in Masters, NEW s \in Slots, ClientWrite(n, s)
      PROVE  IInv'
  <2>1. RedisInv'  BY <1>2, ClientKeeps DEF IInv
  <2>2. UNCHANGED <<owner, importing, migrating, newest, stepVars, faults>>
    BY <1>2 DEF ClientWrite
  <2>3. StepType'  BY <2>2 DEF IInv, StepType, stepVars, goVars
  <2>4. ASSUME NEW t \in Slots PROVE TaskInv(t)' /\ ViewInv(t)'
    <3>1. TaskInv(t) /\ ViewInv(t)  BY DEF IInv
    <3>2. \A m \in Masters : keys[m][t] > 0 => keys'[m][t] > 0
      BY <1>2 DEF ClientWrite, IInv, RedisInv, RedisType
    <3>3. TaskInv(t)'
      <4>1. UNCHANGED <<pc, view, task, peers, owner, importing>>
        BY <2>2 DEF stepVars, goVars
      <4>2. task[t] = "moving" => keys'[view[t]][t] > 0
        BY <3>1, <3>2 DEF TaskInv
      <4> QED  BY <3>1, <4>1, <4>2 DEF TaskInv, Unclaimed, Claims
    <3>4. ViewInv(t)'
      BY <2>2, <3>1 DEF ViewInv, Unclaimed, Claims, stepVars, goVars
    <3> QED  BY <3>3, <3>4
  <2> QED  BY <2>1, <2>2, <2>3, <2>4 DEF IInv, stepVars
<1> QED  BY <1>1, <1>2 DEF Redis

-----------------------------------------------------------------------------
LEMMA StepKeeps == IInv /\ [Next]_vars => IInv'
<1> SUFFICES ASSUME IInv, [Next]_vars PROVE IInv'
  OBVIOUS
<1>1. CASE UNCHANGED vars
  <2>1. RedisInv'  BY <1>1, IdleKeeps DEF IInv, vars
  <2>2. StepType'  BY <1>1 DEF IInv, StepType, vars, stepVars, goVars
  <2>3. ASSUME NEW s \in Slots PROVE TaskInv(s)' /\ ViewInv(s)'
    BY <1>1 DEF IInv, TaskInv, ViewInv, vars, redisVars, stepVars, goVars, Claims, Unclaimed
  <2> QED  BY <1>1, <2>1, <2>2, <2>3 DEF IInv, vars, stepVars
<1>2. CASE \E s \in Slots : MigrateSlot(s)
  BY <1>2, SlotKeeps, FailureKeeps DEF MigrateSlot
<1>3. CASE ReadSource \/ Repair \/ Start \/ GoroutinesEnd \/ StartVerification \/ Verify
  BY <1>3, ReadSourceKeeps, ReadTargetKeeps, AddMissingKeeps, StartKeeps,
     VerificationKeeps, EndKeeps
  DEF Repair, Start, Verify
<1>4. CASE Redis  BY <1>4, RedisKeeps
<1>5. CASE Crash  BY <1>5, EndKeeps
<1> QED  BY <1>1, <1>2, <1>3, <1>4, <1>5 DEF Next, MigrateSlots

LEMMA InvariantHolds == Spec => []IInv
<1>1. Init => IInv  BY InitEstablishes
<1>2. IInv /\ [Next]_vars => IInv'  BY StepKeeps
<1> QED  BY <1>1, <1>2, PTL DEF Spec

\* The state of MigrateSlots stays in its type.
THEOREM TypeCorrect == Spec => []TypeOK
<1>1. IInv => TypeOK  BY DEF IInv, RedisInv, RedisType, StepType, TypeOK
<1> QED  BY <1>1, InvariantHolds, PTL

\* However the goroutines interleave, fail and are run again, no two masters
\* claim a slot (migrateSlot, and the ADDSLOTS of migrateSlots).
THEOREM ClaimsAreExclusive == Spec => []OneClaimant
<1>1. IInv => OneClaimant  BY DEF IInv, RedisInv
<1> QED  BY <1>1, InvariantHolds, PTL

\* A master that redirects the clients of a slot always redirects them to a
\* Target that serves them (the first two commands of migrateSlot).
THEOREM RedirectionsAreServed == Spec => []RedirectsServed
<1>1. IInv => RedirectsServed  BY DEF IInv, RedisInv
<1> QED  BY <1>1, InvariantHolds, PTL

\* A step that reports Completed has moved every slot and every key of it
\* (verifyMigratedSlots).
THEOREM CompletionIsReal == Spec => []CompletedMeansMoved
<1>1. IInv => CompletedMeansMoved
  <2> SUFFICES ASSUME IInv, result = "Completed", NEW s \in Slots
               PROVE  /\ Claims(Target, s)
                      /\ \A n \in Masters \ {Target} : keys[n][s] = 0
    BY DEF CompletedMeansMoved
  <2>1. Claims(Target, s)  BY DEF IInv, ViewInv
  <2>2. ASSUME NEW n \in Masters \ {Target} PROVE keys[n][s] = 0
    <3>1. ~Claims(n, s)
      BY <2>1 DEF IInv, RedisInv, OneClaimant, Masters
    <3>2. keys[n][s] \in Nat  BY DEF IInv, RedisInv, RedisType
    <3> QED  BY <3>1, <3>2 DEF IInv, RedisInv, KeysOwned
  <2> QED  BY <2>1, <2>2
<1> QED  BY <1>1, InvariantHolds, PTL

-----------------------------------------------------------------------------
(***************************************************************************)
(* Why a step can fail, when the masters agree at the start.  A master     *)
(* that knows no owner of a slot is then one of all of them (BlankInv), so *)
(* the repair is never refused; a goroutine whose view is right is never   *)
(* refused either, because only it opens and gives its slot (SourceInv,    *)
(* OpenInv).  What is left is a view of another source that is too old.    *)
(***************************************************************************)

\* Where a master knows no owner, the others know none but Target.
NoStranger(s) == \A n \in Masters : owner[n][s] \in {NoNode, Target}

BlankInv(s) == (\E n \in Masters : owner[n][s] = NoNode) => NoStranger(s)

\* The repair adds what nobody owns.
RepairInv(s) ==
    /\ pc = "repair" /\ view[s] = NoNode => NoStranger(s)
    /\ pc = "add" /\ s \in toAdd => NoStranger(s) /\ owner[Target][s] = NoNode

\* An owner in the view was one.
KnownInv(s) == view[s] \notin {NoNode, Target} => owner[Source][s] # NoNode

\* Nobody but the goroutine of s takes s from Source.
SourceInv(s) ==
    view[s] = Source
      /\ (pc \in {"repair", "add", "start"}
            \/ task[s] \in {"importing", "migrating", "reading", "moving", "source"}) =>
        Claims(Source, s)

\* What the goroutine's earlier commands have done is not undone.
OpenInv(s) ==
    /\ task[s] \in {"reading", "moving", "source"} =>
          importing[s] = view[s] /\ s \in migrating[view[s]]
    /\ task[s] = "source" => keys[view[s]][s] = 0

\* A slot loses its owner only on its way to Target.
OwnedInv(s) ==
    faults = 0 /\ result # "Failed" =>
        \/ \E n \in Masters : Claims(n, s)
        \/ \A n \in Masters : owner[n][s] = NoNode
        \/ task[s] = "target"
        \/ cancelled

\* A goroutine that met a view that is too old.
Misled(s) == task[s] = "failed" /\ Claims(Target, s) /\ view[s] \notin {Source, Target}

\* The first failure has its cause, and it cancels the others.
CancelInv ==
    /\ cancelled => pc = "migrate" /\ \E s \in Slots : task[s] = "failed"
    /\ \A s \in Slots : task[s] = "failed" => cancelled
    /\ cancelled /\ faults = 0 => \E s \in Slots : Misled(s)
    /\ pc # "idle" /\ faults = 0 => result \in {"None", "Running"}

SlotInv(s) ==
    /\ BlankInv(s)
    /\ RepairInv(s)
    /\ KnownInv(s)
    /\ SourceInv(s)
    /\ OpenInv(s)
    /\ OwnedInv(s)

CauseInv == CancelInv /\ \A s \in Slots : SlotInv(s)

LEMMA AgreementEstablishes == AgreedInit => CauseInv
<1> SUFFICES ASSUME AgreedInit PROVE CauseInv
  OBVIOUS
<1>1. Init /\ IInv /\ \A n \in Masters : owner[n] = owner[Source]
  BY InitEstablishes DEF AgreedInit
<1>2. CancelInv  BY <1>1 DEF CancelInv, Init
<1>3. ASSUME NEW s \in Slots PROVE SlotInv(s)
  <2>1. BlankInv(s)  BY <1>1 DEF BlankInv, NoStranger, Masters
  <2>2. RepairInv(s) /\ KnownInv(s) /\ SourceInv(s) /\ OpenInv(s)
    BY <1>1, SlotMigrationAssumption
    DEF Init, RepairInv, KnownInv, SourceInv, OpenInv, Masters
  <2>3. OwnedInv(s)
    <3>1. owner[Source][s] \in Masters \cup {NoNode} /\ Source \in Masters
      BY <1>1 DEF IInv, RedisInv, RedisType, Masters
    <3>2. CASE owner[Source][s] = NoNode  BY <1>1, <3>2 DEF OwnedInv
    <3>3. CASE owner[Source][s] \in Masters
      <4>1. Claims(owner[Source][s], s)  BY <1>1, <3>3 DEF Claims
      <4> QED  BY <3>3, <4>1 DEF OwnedInv
    <3> QED  BY <3>1, <3>2, <3>3
  <2> QED  BY <2>1, <2>2, <2>3 DEF SlotInv
<1> QED  BY <1>2, <1>3 DEF CauseInv

\* The step on its own, while the masters stay as they are.
LEMMA ReadingCause ==
  ASSUME IInv, CauseInv, ReadSource \/ ReadTarget
  PROVE  CauseInv'
<1>0. redisVars' = redisVars /\ goVars' = goVars
      /\ Source \in Masters /\ Target \in Masters
  BY DEF ReadSource, ReadTarget, Masters
<1>1. \A s \in Slots : TaskInv(s) /\ SlotInv(s)  BY DEF IInv, CauseInv
<1>2. \A s \in Slots : task[s] = "none"
  BY <1>1 DEF TaskInv, ReadSource, ReadTarget
<1>3. ~cancelled  BY DEF CauseInv, CancelInv, ReadSource, ReadTarget
<1>4. CancelInv'
  BY <1>0, <1>2, <1>3, SlotMigrationAssumption
  DEF CauseInv, CancelInv, ReadSource, ReadTarget, goVars, Fault, IInv, StepType
<1>5. ASSUME NEW s \in Slots PROVE SlotInv(s)'
  <2>1. BlankInv(s)' /\ (NoStranger(s)' <=> NoStranger(s))
    BY <1>0, <1>1 DEF SlotInv, BlankInv, NoStranger, redisVars
  <2>2. OpenInv(s)' /\ OwnedInv(s)'
    <3>1. task'[s] = "none" /\ task[s] = "none" /\ ~cancelled /\ owner' = owner
      BY <1>0, <1>2, <1>3 DEF goVars, redisVars
    <3>2. faults' = 0 => faults = 0
      BY SlotMigrationAssumption
      DEF ReadSource, ReadTarget, Fault, IInv, StepType
    <3>3. result' = result  BY DEF ReadSource, ReadTarget
    <3> QED  BY <1>1, <3>1, <3>2, <3>3 DEF SlotInv, OpenInv, OwnedInv, Claims
  <2>3. CASE ReadSource
    <3>1. view'[s] = owner[Source][s] /\ owner' = owner /\ task'[s] = "none"
      BY <1>0, <1>2, <2>3 DEF ReadSource, redisVars, goVars
    <3>2. view'[s] = NoNode => NoStranger(s)
      BY <1>0, <1>1, <3>1 DEF SlotInv, BlankInv
    <3>3. pc' # "add"  BY <2>3 DEF ReadSource
    <3> QED
      BY <2>1, <2>2, <3>1, <3>2, <3>3
      DEF SlotInv, RepairInv, KnownInv, SourceInv, Claims
  <2>4. CASE ReadTarget
    <3>1. /\ view'[s] = IF view[s] = NoNode THEN Target ELSE view[s]
          /\ s \in toAdd' => view[s] = NoNode /\ owner[Target][s] = NoNode
          /\ owner' = owner /\ task'[s] = "none" /\ pc = "repair" /\ pc' # "repair"
      BY <1>0, <1>2, <2>4 DEF ReadTarget, Missing, redisVars, goVars
    <3>2. RepairInv(s)'
      BY <1>1, <2>1, <3>1 DEF SlotInv, RepairInv
    <3>3. KnownInv(s)' /\ SourceInv(s)'
      BY <1>1, <3>1, SlotMigrationAssumption DEF SlotInv, KnownInv, SourceInv, Claims
    <3> QED  BY <2>1, <2>2, <3>2, <3>3 DEF SlotInv
  <2> QED  BY <2>3, <2>4
<1> QED  BY <1>4, <1>5 DEF CauseInv

LEMMA StartingCause ==
  ASSUME IInv, CauseInv,
         StartGoroutines \/ NothingToMigrate \/ StartVerification \/ VerifyView
  PROVE  CauseInv'
<1>0. /\ redisVars' = redisVars
      /\ UNCHANGED <<view, toAdd, cancelled, result, faults>>
      /\ pc # "idle" /\ pc' \in {"migrate", "verify"}
  BY DEF StartGoroutines, NothingToMigrate, StartVerification, VerifyView, goVars
<1>1. \A s \in Slots : TaskInv(s) /\ ViewInv(s) /\ SlotInv(s)  BY DEF IInv, CauseInv
<1>2. \A s \in Slots :
        \/ task'[s] = task[s] /\ task[s] \in {"none", "done"}
        \/ task'[s] \in {"none", "importing"} /\ task[s] = "none" /\ pc = "start"
  <2>1. CASE StartGoroutines
    <3>1. PICK todo \in SUBSET Open :
            task' = [s \in Slots |-> IF s \in todo THEN "importing" ELSE "none"]
      BY <2>1 DEF StartGoroutines
    <3> QED  BY <1>1, <2>1, <3>1 DEF StartGoroutines, TaskInv
  <2>2. CASE NothingToMigrate
    BY <1>1, <2>2 DEF NothingToMigrate, TaskInv, goVars
  <2>3. CASE StartVerification
    BY <2>3 DEF StartVerification, goVars
  <2>4. CASE VerifyView
    BY <1>1, <2>4 DEF VerifyView, TaskInv, goVars
  <2> QED  BY <2>1, <2>2, <2>3, <2>4
<1>3. ~cancelled
  BY <1>2 DEF CauseInv, CancelInv
<1>4. CancelInv'
  BY <1>0, <1>2, <1>3 DEF CauseInv, CancelInv
<1>5. ASSUME NEW s \in Slots PROVE SlotInv(s)'
  <2>1. BlankInv(s)' /\ RepairInv(s)' /\ KnownInv(s)'
    BY <1>0, <1>1 DEF SlotInv, BlankInv, NoStranger, RepairInv, KnownInv, redisVars
  <2>2. SourceInv(s)' /\ OpenInv(s)' /\ OwnedInv(s)'
    BY <1>0, <1>1, <1>2, <1>3
    DEF SlotInv, SourceInv, OpenInv, OwnedInv, Claims, redisVars
  <2> QED  BY <2>1, <2>2 DEF SlotInv
<1> QED  BY <1>4, <1>5 DEF CauseInv

\* Only a cancelled goroutine makes the step fail.
LEMMA ReturningCause ==
  ASSUME IInv, CauseInv,
         RefuseRepair \/ AddMissingFails \/ WaitForClusterState \/ GoroutinesEnd
           \/ ViewNotReady \/ Complete \/ Crash
  PROVE  /\ CauseInv'
         /\ result' = "Failed" =>
              result = "Failed" \/ faults > 0 \/ \E s \in Slots : Misled(s)
<1>0. redisVars' = redisVars /\ (faults' = faults \/ faults' = faults + 1)
  BY DEF RefuseRepair, AddMissingFails, WaitForClusterState, GoroutinesEnd,
         ViewNotReady, Complete, Crash, Fault
<1>1. PICK outcome : Return(outcome) /\ outcome = result'
  BY DEF RefuseRepair, AddMissingFails, WaitForClusterState, GoroutinesEnd,
         ViewNotReady, Complete, Crash, Return
<1>2. \A s \in Slots : TaskInv(s) /\ ViewInv(s) /\ SlotInv(s)  BY DEF IInv, CauseInv
<1>3. pc # "idle" /\ faults \in Nat
  BY DEF RefuseRepair, AddMissingFails, WaitForClusterState, GoroutinesEnd,
         ViewNotReady, Complete, Crash, IInv, StepType
<1>4. CancelInv'
  BY <1>1 DEF Return, CancelInv
<1>5. faults' = 0 /\ result' # "Failed" =>
        /\ faults = 0 /\ result # "Failed" /\ ~cancelled
        /\ \A s \in Slots : task[s] # "target"
  <2> SUFFICES ASSUME faults' = 0, result' # "Failed"
               PROVE  /\ faults = 0 /\ result # "Failed" /\ ~cancelled
                      /\ \A s \in Slots : task[s] # "target"
    OBVIOUS
  <2>1. faults = 0 /\ ~Crash  BY <1>0, <1>3 DEF Crash, Fault
  <2>2. result # "Failed"  BY <1>3, <2>1 DEF CauseInv, CancelInv
  <2>3. CASE GoroutinesEnd
    <3>1. \A s \in Slots : task[s] \in Ended /\ task[s] # "failed"
      BY <2>3 DEF GoroutinesEnd, Return
    <3> QED  BY <2>1, <2>2, <3>1 DEF Ended, CauseInv, CancelInv
  <2>4. CASE ~GoroutinesEnd
    <3>1. pc # "migrate"
      BY <2>1, <2>4 DEF RefuseRepair, AddMissingFails, WaitForClusterState,
         ViewNotReady, Complete
    <3> QED  BY <1>2, <2>1, <2>2, <3>1 DEF TaskInv, CauseInv, CancelInv
  <2> QED  BY <2>3, <2>4
<1>6. ASSUME NEW s \in Slots PROVE SlotInv(s)'
  <2>1. /\ pc' = "idle" /\ view'[s] = NoNode /\ task'[s] = "none"
        /\ owner' = owner
    BY <1>0, <1>1 DEF Return, redisVars
  <2>2. BlankInv(s)' /\ RepairInv(s)' /\ KnownInv(s)' /\ OpenInv(s)' /\ SourceInv(s)'
    BY <1>2, <2>1, SlotMigrationAssumption
    DEF SlotInv, BlankInv, NoStranger, RepairInv, KnownInv, OpenInv, SourceInv, Masters
  <2>3. OwnedInv(s)'
    BY <1>2, <1>5, <2>1 DEF SlotInv, OwnedInv, Claims
  <2> QED  BY <2>2, <2>3 DEF SlotInv
<1>7. result' = "Failed" =>
        result = "Failed" \/ faults > 0 \/ \E s \in Slots : Misled(s)
  <2> SUFFICES ASSUME result' = "Failed", result # "Failed", faults = 0
               PROVE  \E s \in Slots : Misled(s)
    BY <1>3
  <2>1. CASE RefuseRepair
    <3>1. PICK s \in Missing :
            /\ owner[Target][s] \notin {NoNode, Target}
            /\ Return(IF owner[Target][s] = Source THEN "Running" ELSE "Failed")
      BY <2>1 DEF RefuseRepair
    <3>2. s \in Slots /\ view[s] = NoNode /\ pc = "repair" /\ Target \in Masters
      BY <2>1 DEF RefuseRepair, Missing, Masters
    <3>3. owner[Target][s] \in {NoNode, Target}
      BY <1>2, <3>2 DEF SlotInv, RepairInv, NoStranger
    <3> QED  BY <3>1, <3>3
  <2>2. CASE AddMissingFails
    <3>1. \E s \in toAdd : owner[Target][s] # NoNode
      BY <2>2 DEF AddMissingFails, Return
    <3> QED
      BY <1>2, <2>2, <3>1 DEF AddMissingFails, SlotInv, RepairInv, IInv, StepType
  <2>3. CASE GoroutinesEnd
    <3>1. \E s \in Slots : task[s] = "failed"
      BY <2>3 DEF GoroutinesEnd, Return
    <3> QED  BY <3>1 DEF CauseInv, CancelInv
  <2>4. CASE WaitForClusterState \/ ViewNotReady \/ Complete \/ Crash
    BY <2>4 DEF WaitForClusterState, ViewNotReady, Complete, Crash, Return
  <2> QED  BY <2>1, <2>2, <2>3, <2>4
<1> QED  BY <1>4, <1>6, <1>7 DEF CauseInv

\* A master learns of an owner, or a client writes: the step does not move.
LEMMA RedisCause ==
  ASSUME IInv, CauseInv, Redis
  PROVE  CauseInv'
<1>0. UNCHANGED stepVars /\ UNCHANGED faults
  BY DEF Redis, Gossip, ClientWrite
<1>1. \A s \in Slots : TaskInv(s) /\ ViewInv(s) /\ SlotInv(s)  BY DEF IInv, CauseInv
<1>2. Target \in Masters /\ Source \in Masters  BY DEF Masters
<1>3. \A s \in Slots : Claims(Target, s)' <=> Claims(Target, s)
  <2>1. ASSUME NEW n \in Masters, NEW m \in Masters, NEW t \in Slots, Gossip(n, m, t)
        PROVE  \A s \in Slots : Claims(Target, s)' <=> Claims(Target, s)
    BY <1>2, <2>1, GossipKeeps DEF IInv
  <2>2. ASSUME NEW n \in Masters, NEW t \in Slots, ClientWrite(n, t)
        PROVE  \A s \in Slots : Claims(Target, s)' <=> Claims(Target, s)
    BY <2>2 DEF ClientWrite, Claims
  <2> QED  BY <2>1, <2>2 DEF Redis
<1>4. CancelInv'
  BY <1>0, <1>3 DEF CauseInv, CancelInv, Misled, stepVars, goVars
<1>5. ASSUME NEW n \in Masters, NEW m \in Masters, NEW t \in Slots, Gossip(n, m, t),
             NEW s \in Slots
      PROVE  SlotInv(s)'
  <2>1. /\ \A k \in Masters : Claims(k, s)' <=> Claims(k, s)
        /\ \A k \in Masters :
             owner'[k][s] = IF k = m /\ s = t THEN n ELSE owner[k][s]
    BY <1>5, GossipKeeps DEF IInv
  <2>2. Claims(n, t) /\ n # m /\ ~Claims(m, t) /\ n # NoNode
    BY <1>5, SlotMigrationAssumption DEF Gossip, IInv, RedisInv, OneClaimant
  <2>3. \A k \in Masters : owner'[k][s] = NoNode => owner[k][s] = NoNode
    BY <2>1, <2>2
  <2>4. NoStranger(s) => NoStranger(s)'
    BY <1>2, <2>1, <2>2 DEF NoStranger, Claims
  <2>5. BlankInv(s)'  BY <1>1, <2>3, <2>4 DEF SlotInv, BlankInv
  <2>6. UNCHANGED <<pc, view, toAdd, task, cancelled, result, faults, importing, keys>>
    BY <1>0, <1>5 DEF Gossip, stepVars, goVars
  <2>7. RepairInv(s)'
    <3>1. NoStranger(s) /\ owner[Target][s] = NoNode => owner'[Target][s] = NoNode
      BY <1>2, <2>1, <2>2 DEF NoStranger, Claims
    <3> QED  BY <1>1, <2>4, <2>6, <3>1 DEF SlotInv, RepairInv
  <2>8. KnownInv(s)' /\ SourceInv(s)'
    BY <1>1, <1>2, <2>1, <2>3, <2>6 DEF SlotInv, KnownInv, SourceInv
  <2>9. OpenInv(s)'
    <3>1. ASSUME task[s] \in {"reading", "moving", "source"}
          PROVE  view[s] \in Masters /\ (s \in migrating[view[s]] => s \in migrating'[view[s]])
      <4>1. view[s] \in Masters /\ Claims(view[s], s)
        BY <1>1, <3>1 DEF TaskInv
      <4>2. s = t => view[s] # m  BY <2>2, <4>1
      <4>3. migrating' = [migrating EXCEPT ![m] = @ \ {t}]  BY <1>5 DEF Gossip
      <4> QED  BY <4>1, <4>2, <4>3 DEF IInv, RedisInv, RedisType
    <3> QED  BY <1>1, <2>6, <3>1 DEF SlotInv, OpenInv
  <2>10. OwnedInv(s)'
    <3>1. CASE \E k \in Masters : Claims(k, s)
      BY <2>1, <3>1 DEF OwnedInv
    <3>2. CASE ~\E k \in Masters : Claims(k, s)
      <4>1. s # t  BY <2>2, <3>2
      <4>2. \A k \in Masters : owner'[k][s] = owner[k][s]  BY <2>1, <4>1
      <4> QED  BY <1>1, <2>6, <3>2, <4>2 DEF SlotInv, OwnedInv
    <3> QED  BY <3>1, <3>2
  <2> QED  BY <2>5, <2>7, <2>8, <2>9, <2>10 DEF SlotInv
<1>6. ASSUME NEW n \in Masters, NEW t \in Slots, ClientWrite(n, t), NEW s \in Slots
      PROVE  SlotInv(s)'
  <2>1. UNCHANGED <<pc, view, toAdd, task, cancelled, result, faults,
                    importing, owner, migrating>>
    BY <1>0, <1>6 DEF ClientWrite, stepVars, goVars
  <2>2. BlankInv(s)' /\ RepairInv(s)' /\ KnownInv(s)' /\ SourceInv(s)' /\ OwnedInv(s)'
    BY <1>1, <2>1
    DEF SlotInv, BlankInv, NoStranger, RepairInv, KnownInv, SourceInv, OwnedInv, Claims
  <2>3. OpenInv(s)'
    <3>1. ASSUME task[s] = "source" PROVE keys'[view[s]][s] = 0
      <4>1. /\ view[s] \in Masters /\ Claims(view[s], s)
            /\ s \in migrating[view[s]] /\ keys[view[s]][s] = 0
        BY <1>1, <3>1 DEF TaskInv, SlotInv, OpenInv
      <4>2. Claims(n, t) /\ t \notin migrating[n] /\ keys' = [keys EXCEPT ![n][t] = 1]
        BY <1>6 DEF ClientWrite
      <4>3. n # view[s] \/ t # s  BY <4>1, <4>2
      <4> QED  BY <4>1, <4>2, <4>3 DEF IInv, RedisInv, RedisType
    <3> QED  BY <1>1, <2>1, <3>1 DEF SlotInv, OpenInv
  <2> QED  BY <2>2, <2>3 DEF SlotInv
<1> QED  BY <1>4, <1>5, <1>6 DEF CauseInv, Redis

LEMMA AddingCause ==
  ASSUME IInv, CauseInv, AddMissing
  PROVE  CauseInv'
<1>0. /\ UNCHANGED <<view, task, cancelled, result, faults>>
      /\ pc = "add" /\ pc' = "start"
      /\ Target \in Masters /\ Source \in Masters
  BY DEF AddMissing, goVars, Masters
<1>1. \A s \in Slots : TaskInv(s) /\ ViewInv(s) /\ SlotInv(s)  BY DEF IInv, CauseInv
<1>2. \A s \in Slots : task[s] = "none"  BY <1>0, <1>1 DEF TaskInv
<1>3. ~cancelled  BY <1>0 DEF CauseInv, CancelInv
<1>4. CancelInv'  BY <1>0, <1>2, <1>3 DEF CauseInv, CancelInv
<1>5. ASSUME NEW s \in Slots PROVE SlotInv(s)'
  <2>1. \A n \in Masters :
          owner'[n][s] = IF n = Target /\ s \in toAdd THEN Target ELSE owner[n][s]
    BY <1>0 DEF AddMissing, ClusterAddSlots, IInv, RedisInv, RedisType
  <2>2. s \in toAdd => owner[Target][s] = NoNode  BY <1>0, <1>1 DEF SlotInv, RepairInv
  <2>3. NoStranger(s) => NoStranger(s)'  BY <2>1 DEF NoStranger
  <2>4. \A n \in Masters : owner'[n][s] = NoNode => owner[n][s] = NoNode
    BY <2>1, <1>0, SlotMigrationAssumption
  <2>5. \A n \in Masters : Claims(n, s) => Claims(n, s)'  BY <2>1 DEF Claims
  <2>6. BlankInv(s)'  BY <1>1, <2>3, <2>4 DEF SlotInv, BlankInv
  <2>7. RepairInv(s)' /\ KnownInv(s)' /\ SourceInv(s)' /\ OpenInv(s)'
    BY <1>0, <1>1, <1>2, <2>4, <2>5
    DEF SlotInv, RepairInv, KnownInv, SourceInv, OpenInv
  <2>8. OwnedInv(s)'
    <3>1. CASE s \in toAdd
      <4>1. Claims(Target, s)'  BY <1>0, <2>1, <3>1 DEF Claims
      <4> QED  BY <1>0, <4>1 DEF OwnedInv
    <3>2. CASE s \notin toAdd
      <4>1. \A n \in Masters : owner'[n][s] = owner[n][s]  BY <2>1, <3>2
      <4> QED  BY <1>0, <1>1, <2>5, <4>1 DEF SlotInv, OwnedInv
    <3> QED  BY <3>1, <3>2
  <2> QED  BY <2>6, <2>7, <2>8 DEF SlotInv
<1> QED  BY <1>4, <1>5 DEF CauseInv

\* A goroutine that is refused first has a view that is too old.
LEMMA RefusalMisled ==
  ASSUME IInv, CauseInv, NEW s \in Slots, CommandRefused(s), faults = 0
  PROVE  Claims(Target, s) /\ view[s] \notin {Source, Target}
<1>1. /\ TaskInv(s) /\ ViewInv(s) /\ SlotInv(s)
      /\ pc = "migrate" /\ ~cancelled /\ Refused(s)
      /\ Target \in Masters /\ Source \in Masters
  BY DEF IInv, CauseInv, CommandRefused, Masters
<1>2. result # "Failed"  BY <1>1 DEF CauseInv, CancelInv
<1>3. view[s] \in Masters \ {Target} /\ NoNode \notin Masters
  BY <1>1, SlotMigrationAssumption DEF TaskInv, Refused
<1>4. CASE task[s] = "importing" /\ Claims(Target, s)
  BY <1>1, <1>3, <1>4, SlotMigrationAssumption
  DEF SlotInv, SourceInv, IInv, RedisInv, OneClaimant
<1>5. CASE task[s] = "migrating" /\ ~Claims(view[s], s)
  <2>1. view[s] # Source  BY <1>1, <1>5 DEF SlotInv, SourceInv
  <2>2. owner[Source][s] # NoNode  BY <1>1, <1>3 DEF SlotInv, KnownInv
  <2>3. PICK n \in Masters : Claims(n, s)
    BY <1>1, <1>2, <1>5, <2>2 DEF SlotInv, OwnedInv
  <2>4. n = Target  BY <1>1, <1>3, <1>5, <2>3 DEF ViewInv
  <2> QED  BY <1>3, <2>1, <2>3, <2>4
<1>6. CASE task[s] = "moving" /\ importing[s] = NoNode
  BY <1>1, <1>3, <1>6 DEF SlotInv, OpenInv
<1>7. CASE task[s] = "source" /\ keys[view[s]][s] > 0
  BY <1>1, <1>7 DEF SlotInv, OpenInv
<1> QED  BY <1>1, <1>4, <1>5, <1>6, <1>7 DEF Refused

\* What the command of s leaves alone, beyond OnlySlot.
LEMMA CommandMoves ==
  ASSUME IInv, NEW s \in Slots, Command(s)
  PROVE  /\ \A n \in Masters, t \in Slots \ {s} :
              t \in migrating'[n] <=> t \in migrating[n]
         /\ \A n \in Masters : owner'[n][s] \in {owner[n][s], Target}
<1>0. /\ migrating \in [Masters -> SUBSET Slots]
      /\ owner \in [Masters -> [Slots -> Masters \cup {NoNode}]]
  BY DEF IInv, RedisInv, RedisType
<1>1. ASSUME NEW n, SetSlotNode(n, s)
      PROVE  /\ \A m \in Masters, t \in Slots \ {s} :
                  t \in migrating'[m] <=> t \in migrating[m]
             /\ \A m \in Masters : owner'[m][s] \in {owner[m][s], Target}
  BY <1>0, <1>1 DEF SetSlotNode
<1>2. ASSUME NEW n, SetSlotMigrating(n, s)
      PROVE  /\ \A m \in Masters, t \in Slots \ {s} :
                  t \in migrating'[m] <=> t \in migrating[m]
             /\ owner' = owner
  BY <1>0, <1>2 DEF SetSlotMigrating
<1> QED  BY <1>1, <1>2 DEF Command, SetSlotImporting, MigrateKeys

LEMMA GoroutineMoves ==
  ASSUME IInv, NEW s \in Slots, MigrateSlot(s)
  PROVE  /\ pc = "migrate" /\ UNCHANGED <<pc, view, toAdd, unverified, result>>
         /\ task[s] \notin Ended
         /\ \E next \in Tasks : task' = [task EXCEPT ![s] = next]
         /\ Command(s) \/ UNCHANGED redisVars
         /\ faults' = faults \/ Fault
         /\ task'[s] = "failed" <=> CommandRefused(s) \/ CommandBroken(s)
         /\ cancelled' <=> cancelled \/ task'[s] = "failed"
<1>0. /\ task \in [Slots -> Tasks] /\ cancelled \in BOOLEAN
      /\ \A next \in Tasks : [task EXCEPT ![s] = next][s] = next
  BY DEF IInv, StepType
<1>1. CASE Importing(s) \/ Migrating(s) \/ MoveKeys(s) \/ SourceGives(s)
  <2>1. Command(s)
    BY <1>1 DEF Importing, Migrating, MoveKeys, SourceGives, At, Command
  <2>2. PICK next \in Tasks \ {"failed"} : At(s, task[s]) /\ Goto(s, next)
    BY <1>1 DEF Importing, Migrating, MoveKeys, SourceGives, At, Tasks
  <2>3. task[s] \in {"importing", "migrating", "moving", "source"}
    BY <1>1 DEF Importing, Migrating, MoveKeys, SourceGives, At
  <2>4. ~CommandRefused(s) /\ ~CommandBroken(s)
    BY <1>0, <2>2 DEF CommandRefused, CommandBroken, Fail, Goto, Tasks
  <2> QED  BY <1>0, <2>1, <2>2, <2>3, <2>4 DEF Goto, At, Ended
<1>2. CASE GetKeys(s)
  <2>1. PICK next \in {"moving", "source"} : At(s, "reading") /\ Goto(s, next)
    BY <1>2 DEF GetKeys
  <2>2. ~CommandRefused(s) /\ ~CommandBroken(s)
    BY <1>0, <2>1 DEF CommandRefused, CommandBroken, Fail, Goto, Tasks
  <2>3. UNCHANGED redisVars  BY <1>2 DEF GetKeys
  <2> QED  BY <1>0, <2>1, <2>2, <2>3 DEF Goto, At, Ended, Tasks
<1>3. CASE TargetTakes(s)
  <2>1. PICK next \in {"done", "peers"} : At(s, "target") /\ Goto(s, next)
    BY <1>3 DEF TargetTakes
  <2>2. ~CommandRefused(s) /\ ~CommandBroken(s)
    BY <1>0, <2>1 DEF CommandRefused, CommandBroken, Fail, Goto, Tasks
  <2>3. Command(s)  BY <1>3 DEF TargetTakes, At, Command
  <2> QED  BY <1>0, <2>1, <2>2, <2>3 DEF Goto, At, Ended, Tasks
<1>4. CASE NotifyPeer(s)
  <2>1. PICK next \in {"done", "peers"} : task' = [task EXCEPT ![s] = next]
    BY <1>4 DEF NotifyPeer
  <2>2. ~CommandRefused(s) /\ ~CommandBroken(s)
    BY <1>0, <2>1 DEF CommandRefused, CommandBroken, Fail, Tasks
  <2>3. Command(s)  BY <1>4 DEF NotifyPeer, At, Command
  <2> QED  BY <1>0, <1>4, <2>1, <2>2, <2>3 DEF NotifyPeer, At, Ended, Tasks
<1>5. CASE CommandRefused(s) \/ CommandBroken(s)
  <2>1. task' = [task EXCEPT ![s] = "failed"] /\ cancelled' = TRUE
    BY <1>5 DEF CommandRefused, CommandBroken, Fail
  <2>2. task[s] \notin Ended
    BY <1>5 DEF CommandRefused, CommandBroken, Refused, Ended
  <2> QED
    BY <1>0, <1>5, <2>1, <2>2 DEF CommandRefused, CommandBroken, Fail, Tasks
<1>6. CASE CommandWaits(s)
  <2>1. task' = [task EXCEPT ![s] = "waiting"]  BY <1>6 DEF CommandWaits
  <2>2. ~CommandRefused(s) /\ ~CommandBroken(s)
    BY <1>0, <2>1 DEF CommandRefused, CommandBroken, Fail, Tasks
  <2> QED  BY <1>0, <1>6, <2>1, <2>2 DEF CommandWaits, Tasks, Ended
<1> QED  BY <1>1, <1>2, <1>3, <1>4, <1>5, <1>6 DEF MigrateSlot, SlotFails

\* The goroutine of s: what it does to the others, and to the cancellation.
LEMMA GoroutineCancel ==
  ASSUME IInv, CauseInv, NEW s \in Slots, MigrateSlot(s)
  PROVE  /\ CancelInv'
         /\ \A t \in Slots \ {s} : SlotInv(t)'
         /\ OnlySlot(s)
         /\ BlankInv(s)' /\ RepairInv(s)' /\ KnownInv(s)'
<1>0. /\ pc = "migrate" /\ UNCHANGED <<pc, view, toAdd, result>>
      /\ task[s] \notin Ended
      /\ Command(s) \/ UNCHANGED redisVars
      /\ faults' = faults \/ Fault
      /\ task'[s] = "failed" <=> CommandRefused(s) \/ CommandBroken(s)
      /\ cancelled' <=> cancelled \/ task'[s] = "failed"
      /\ Target \in Masters /\ Source \in Masters
  BY GoroutineMoves DEF Masters
<1>1. \A t \in Slots \ {s} : task'[t] = task[t]
  BY GoroutineMoves DEF IInv, StepType
<1>2. \A t \in Slots : TaskInv(t) /\ SlotInv(t)  BY DEF IInv, CauseInv
<1>3. /\ OnlySlot(s)
      /\ \A n \in Masters, t \in Slots \ {s} : t \in migrating'[n] <=> t \in migrating[n]
      /\ \A n \in Masters : owner'[n][s] \in {owner[n][s], Target}
  <2>1. CASE Command(s)  BY <2>1, CommandKeeps, CommandMoves
  <2>2. CASE UNCHANGED redisVars  BY <2>2 DEF redisVars, OnlySlot, Claims
  <2> QED  BY <1>0, <2>1, <2>2
<1>4. faults \in Nat /\ (faults' = 0 => faults = 0 /\ ~Fault)
  BY <1>0 DEF IInv, StepType, Fault
<1>5. CancelInv'
  <2>1. ASSUME NEW t \in Slots, task[t] = "failed"
        PROVE  task'[t] = "failed" /\ (Misled(t) => Misled(t)')
    <3>1. t # s  BY <1>0, <2>1 DEF Ended
    <3> QED  BY <1>0, <1>1, <1>3, <2>1, <3>1 DEF OnlySlot, Misled, Claims
  <2>2. cancelled' => \E t \in Slots : task'[t] = "failed"
    BY <1>0, <2>1 DEF CauseInv, CancelInv
  <2>3. \A t \in Slots : task'[t] = "failed" => cancelled'
    BY <1>0, <1>1 DEF CauseInv, CancelInv
  <2>4. ASSUME cancelled', faults' = 0 PROVE \E t \in Slots : Misled(t)'
    <3>1. CASE cancelled
      <4>1. PICK t \in Slots : Misled(t)  BY <1>4, <2>4, <3>1 DEF CauseInv, CancelInv
      <4> QED  BY <2>1, <4>1 DEF Misled
    <3>2. CASE ~cancelled
      <4>1. CommandRefused(s)
        BY <1>0, <1>4, <2>4, <3>2 DEF CommandBroken
      <4>2. Claims(Target, s) /\ view[s] \notin {Source, Target}
        BY <1>4, <2>4, <4>1, RefusalMisled
      <4> QED  BY <1>0, <1>3, <4>1, <4>2 DEF Misled, OnlySlot
    <3> QED  BY <3>1, <3>2
  <2> QED  BY <1>0, <1>4, <2>2, <2>3, <2>4 DEF CauseInv, CancelInv
<1>6. ASSUME NEW t \in Slots \ {s} PROVE SlotInv(t)'
  <2>1. /\ \A n \in Masters : owner'[n][t] = owner[n][t] /\ keys'[n][t] = keys[n][t]
        /\ \A n \in Masters : Claims(n, t)' <=> Claims(n, t)
        /\ importing'[t] = importing[t] /\ task'[t] = task[t]
    BY <1>1, <1>3 DEF OnlySlot, Claims
  <2>2. BlankInv(t)' /\ RepairInv(t)' /\ KnownInv(t)' /\ SourceInv(t)'
    BY <1>0, <1>2, <2>1
    DEF SlotInv, BlankInv, NoStranger, RepairInv, KnownInv, SourceInv
  <2>3. OpenInv(t)'
    <3>1. task[t] # "none" => view[t] \in Masters  BY <1>2 DEF TaskInv
    <3> QED  BY <1>0, <1>2, <1>3, <2>1, <3>1 DEF SlotInv, OpenInv
  <2>4. OwnedInv(t)'
    BY <1>0, <1>2, <1>4, <2>1 DEF SlotInv, OwnedInv
  <2> QED  BY <2>2, <2>3, <2>4 DEF SlotInv
<1>7. BlankInv(s)' /\ RepairInv(s)' /\ KnownInv(s)'
  BY <1>0, <1>2, <1>3, SlotMigrationAssumption
  DEF SlotInv, BlankInv, NoStranger, RepairInv, KnownInv
<1> QED  BY <1>3, <1>5, <1>6, <1>7

LEMMA GoroutineCause ==
  ASSUME IInv, CauseInv, NEW s \in Slots, MigrateSlot(s)
  PROVE  CauseInv'
<1>0. /\ CancelInv'
      /\ \A t \in Slots \ {s} : SlotInv(t)'
      /\ BlankInv(s)' /\ RepairInv(s)' /\ KnownInv(s)'
      /\ OnlySlot(s)
      /\ TaskInv(s) /\ SlotInv(s)
      /\ Target \in Masters
      /\ pc = "migrate" /\ UNCHANGED <<pc, view, toAdd, result>>
      /\ task[s] \notin Ended
      /\ faults \in Nat /\ (faults' = 0 => faults = 0 /\ ~Fault)
      /\ task \in [Slots -> Tasks]
  BY GoroutineCancel, GoroutineMoves DEF IInv, CauseInv, Masters, StepType, Fault
<1>1. view[s] \in Masters \ {Target}  BY <1>0 DEF TaskInv, Ended
<1>2. ~cancelled /\ faults' = 0 /\ result' # "Failed" =>
        \/ \E n \in Masters : Claims(n, s)
        \/ \A n \in Masters : owner[n][s] = NoNode
        \/ task[s] = "target"
  BY <1>0 DEF SlotInv, OwnedInv
<1>3. SourceInv(s)' /\ OpenInv(s)' /\ OwnedInv(s)'
  <2>1. CASE Importing(s)
    <3>1. owner' = owner /\ task'[s] = "migrating" /\ task[s] = "importing" /\ ~cancelled
      BY <1>0, <2>1 DEF Importing, SetSlotImporting, Goto, At
    <3> QED
      BY <1>0, <1>2, <3>1 DEF SlotInv, SourceInv, OpenInv, OwnedInv, Claims
  <2>2. CASE Migrating(s)
    <3>1. owner' = owner /\ task'[s] = "reading" /\ task[s] = "migrating" /\ ~cancelled
      BY <1>0, <2>2 DEF Migrating, SetSlotMigrating, Goto, At
    <3>2. SetSlotMigrating(view[s], s)  BY <2>2 DEF Migrating
    <3>3. importing'[s] = view[s] /\ s \in migrating'[view[s]]
      BY <1>0, <1>1, <3>1, <3>2
      DEF TaskInv, SetSlotMigrating, IInv, RedisInv, RedisType, OneClaimant
    <3> QED
      BY <1>0, <1>2, <3>1, <3>3 DEF SlotInv, SourceInv, OpenInv, OwnedInv, Claims
  <2>3. CASE GetKeys(s)
    <3>1. /\ UNCHANGED <<owner, importing, migrating, keys>> /\ task[s] = "reading"
          /\ task'[s] = IF keys[view[s]][s] > 0 THEN "moving" ELSE "source"
          /\ ~cancelled
      BY <1>0, <2>3 DEF GetKeys, Goto, At, redisVars
    <3>2. keys[view[s]][s] \in Nat  BY <1>1 DEF IInv, RedisInv, RedisType
    <3> QED
      BY <1>0, <1>2, <3>1, <3>2 DEF SlotInv, SourceInv, OpenInv, OwnedInv, Claims
  <2>4. CASE MoveKeys(s)
    <3>1. owner' = owner /\ task'[s] = "moved" /\ task[s] = "moving" /\ ~cancelled
      BY <1>0, <2>4 DEF MoveKeys, MigrateKeys, Goto, At
    <3> QED
      BY <1>0, <1>2, <3>1 DEF SlotInv, SourceInv, OpenInv, OwnedInv, Claims
  <2>5. CASE SourceGives(s)
    <3>1. task'[s] = "target"  BY <1>0, <2>5 DEF SourceGives, Goto
    <3> QED  BY <1>0, <3>1 DEF SourceInv, OpenInv, OwnedInv
  <2>6. CASE TargetTakes(s)
    <3>1. task'[s] \in {"done", "peers"}  BY <1>0, <2>6 DEF TargetTakes, Goto
    <3>2. Claims(Target, s)'
      BY <1>0, <2>6, TakingKeeps DEF TargetTakes, At, TaskInv, IInv
    <3> QED  BY <1>0, <3>1, <3>2 DEF SourceInv, OpenInv, OwnedInv
  <2>7. CASE NotifyPeer(s)
    <3>1. task'[s] \in {"done", "peers"} /\ task[s] = "peers"
      BY <1>0, <2>7 DEF NotifyPeer, At
    <3>2. Claims(Target, s)'  BY <1>0, <3>1 DEF TaskInv, OnlySlot
    <3> QED  BY <1>0, <3>1, <3>2 DEF SourceInv, OpenInv, OwnedInv
  <2>8. CASE CommandRefused(s) \/ CommandBroken(s)
    <3>1. task'[s] = "failed" /\ cancelled'
      BY <1>0, <2>8 DEF CommandRefused, CommandBroken, Fail
    <3> QED  BY <1>0, <3>1 DEF SourceInv, OpenInv, OwnedInv
  <2>9. CASE CommandWaits(s)
    <3>1. task'[s] = "waiting" /\ Fault  BY <1>0, <2>9 DEF CommandWaits
    <3> QED  BY <1>0, <3>1 DEF SourceInv, OpenInv, OwnedInv
  <2> QED
    BY <2>1, <2>2, <2>3, <2>4, <2>5, <2>6, <2>7, <2>8, <2>9
    DEF MigrateSlot, SlotFails
<1> QED  BY <1>0, <1>3 DEF CauseInv, SlotInv

LEMMA StepCause ==
  ASSUME IInv, CauseInv, [Next]_vars
  PROVE  /\ CauseInv'
         /\ result' = "Failed" =>
              result = "Failed" \/ faults > 0 \/ \E s \in Slots : Misled(s)
<1>1. CASE UNCHANGED vars
  <2>1. UNCHANGED redisVars /\ UNCHANGED stepVars /\ UNCHANGED faults  BY <1>1 DEF vars
  <2>2. CancelInv'
    BY <2>1 DEF CauseInv, CancelInv, Misled, Claims, redisVars, stepVars, goVars
  <2>3. \A s \in Slots : SlotInv(s)'
    BY <2>1
    DEF CauseInv, SlotInv, BlankInv, NoStranger, RepairInv, KnownInv, SourceInv,
        OpenInv, OwnedInv, Claims, redisVars, stepVars, goVars
  <2> QED  BY <2>1, <2>2, <2>3 DEF CauseInv, stepVars
<1>2. CASE \E s \in Slots : MigrateSlot(s)
  <2>1. PICK s \in Slots : MigrateSlot(s)  BY <1>2
  <2> QED  BY <2>1, GoroutineCause, GoroutineMoves
<1>3. CASE ReadSource \/ ReadTarget
  BY <1>3, ReadingCause DEF ReadSource, ReadTarget
<1>4. CASE StartGoroutines \/ NothingToMigrate \/ StartVerification \/ VerifyView
  BY <1>4, StartingCause
  DEF StartGoroutines, NothingToMigrate, StartVerification, VerifyView
<1>5. CASE RefuseRepair \/ AddMissingFails \/ WaitForClusterState \/ GoroutinesEnd
             \/ ViewNotReady \/ Complete \/ Crash
  BY <1>5, ReturningCause
<1>6. CASE Redis
  <2>1. result' = result  BY <1>6 DEF Redis, Gossip, ClientWrite, stepVars
  <2> QED  BY <1>6, <2>1, RedisCause
<1>7. CASE AddMissing  BY <1>7, AddingCause DEF AddMissing
<1> QED
  BY <1>1, <1>2, <1>3, <1>4, <1>5, <1>6, <1>7
  DEF Next, MigrateSlots, Repair, Start, Verify

\* When the masters agree at the start, a step fails only after a fault or for
\* a slot whose view was too old and named another owner than sourcePod
\* (migrateSlots, and the notification of sources and peers in migrateSlot).
THEOREM MigrationsFailForCauses == AgreedSpec => FailuresHaveCauses
<1>1. AgreedInit => IInv /\ CauseInv
  BY InitEstablishes, AgreementEstablishes DEF AgreedInit
<1>2. IInv /\ CauseInv /\ [Next]_vars => IInv' /\ CauseInv'
  BY StepKeeps, StepCause
<1>3. IInv /\ CauseInv /\ [Next]_vars =>
        [result' = "Failed" =>
           \/ result = "Failed"
           \/ faults > 0
           \/ \E s \in Slots :
                task[s] = "failed" /\ Claims(Target, s)
                  /\ view[s] \notin {Source, Target}]_vars
  BY StepCause DEF Misled
<1> QED  BY <1>1, <1>2, <1>3, PTL DEF AgreedSpec, FailuresHaveCauses
=============================================================================
