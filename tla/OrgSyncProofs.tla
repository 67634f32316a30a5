---------------------------- MODULE OrgSyncProofs ----------------------------
(***************************************************************************)
(* What the durable workflows of an organisation guarantee for any number  *)
(* of executions, failures, restarts, changes and webhooks: the setup, the *)
(* registry of relationships, the subscriptions, the changes PCO reports   *)
(* and the user's edge.                                                    *)
(***************************************************************************)
EXTENDS OrgSync, WellFoundedInduction, TLAPS

(* The setup: what the select found is what the table has. *)
SetupInv ==
  /\ SetupTypeOK
  /\ \A t \in SacramentTypes : sacraments[t] \in {0, 1}
  /\ setup = "insert" => found = CurrentSacraments
  /\ setup \in {"inserted", "relate", "related", "ready"} =>
       \A t \in SacramentTypes : sacraments[t] = 1

(* The registry: symmetric, with what was written to it. *)
RegistryInv ==
  /\ \A t, u \in EntityTypes : u \in registry[t] => t \in registry[u]
  /\ setup \in {"related", "ready"} => \A p \in SeededPairs : p[2] \in registry[p[1]]
  /\ \A x \in Runs : \A i \in synced[x] : \A p \in PairsOf[i] : p[2] \in registry[p[1]]

(* A run of SubscribeToWebhooks: a kind it has passed has an active        *)
(* subscription, and what it listed for the others is still there.         *)
Live(x, s) == s \in active \/ s \in deactivated[x]
Covered(x, k) == \E s \in OfKind(k) : Live(x, s)
ListedFits(x, k) ==
  status[x][k].sub # NoSub =>
    status[x][k].sub \in OfKind(k) /\ (status[x][k].active => Live(x, status[x][k].sub))
RunInv(x) ==
  /\ kindAt[x] # 0 => \A k \in Kinds : IF k < kindAt[x] THEN Covered(x, k) ELSE ListedFits(x, k)
  /\ created[x] # NoSub =>
       kindAt[x] \in Kinds /\ created[x] \in OfKind(kindAt[x]) /\ Live(x, created[x])
HookInv == HookTypeOK /\ \A x \in Runs : RunInv(x)

(* An execution: what it has recorded is behind it. *)
ProgressInv(x) ==
  /\ x \in subscribed => kindAt[x] = NumKinds + 1 /\ at[x] \notin {"idle", "subscribe"}
  /\ at[x] \in {"idle", "subscribe"} => child[x] = 1
  /\ at[x] = "children" => 1 .. child[x] - 1 \subseteq synced[x]
  /\ at[x] \in {"map", "mapped", "done"} => PersonEntity \in synced[x]
  /\ PersonEntity \in synced[x] => known = PcoUsers
  /\ at[x] \in {"mapped", "done"} /\ UserOf[x] \in PcoUsers => UserOf[x] \in joined
  /\ at[x] = "failed" /\ x \notin FailureProne => UserOf[x] \in joined

OInv == TypeOK /\ SetupInv /\ RegistryInv /\ HookInv /\ \A x \in Runs : ProgressInv(x)
-----------------------------------------------------------------------------
LEMMA InitOInv == Init => OInv
<1> SUFFICES ASSUME Init PROVE OInv
  OBVIOUS
<1>1. HookTypeOK
  BY WebhookAssumption DEF Init, HookInit, HookTypeOK, NoStatus, Kinds, NoSub
<1>2. SetupTypeOK
  BY SetupAssumption DEF Init, SetupInit, SetupTypeOK, SetupSteps
<1>3. TypeOK
  BY <1>1, <1>2, OrgSyncAssumption DEF Init, TypeOK, Places, Entities
<1>4. SetupInv /\ RegistryInv
  BY <1>2 DEF Init, SetupInit, SetupInv, RegistryInv
<1>5. HookInv
  BY <1>1 DEF Init, HookInit, HookInv, RunInv
<1>6. \A x \in Runs : ProgressInv(x)
  BY DEF Init, ProgressInv
<1> QED  BY <1>3, <1>4, <1>5, <1>6 DEF OInv

-----------------------------------------------------------------------------
(* The setup *)

(* What is written to the registry is added to it, in both directions.     *)
LEMMA RelationshipsMerged ==
  ASSUME registry \in [EntityTypes -> SUBSET EntityTypes],
         \A t, u \in EntityTypes : u \in registry[t] => t \in registry[u],
         NEW pairs \in SUBSET (EntityTypes \X EntityTypes),
         UpdateEntityRelationships(pairs)
  PROVE  /\ registry' \in [EntityTypes -> SUBSET EntityTypes]
         /\ \A t, u \in EntityTypes : u \in registry'[t] => t \in registry'[u]
         /\ \A t \in EntityTypes : registry[t] \subseteq registry'[t]
         /\ \A p \in pairs : p[2] \in registry'[p[1]]
<1>1. /\ registry' \in [EntityTypes -> SUBSET EntityTypes]
      /\ \A t \in EntityTypes : registry'[t] = registry[t] \cup TargetsIn(Expanded(pairs), t)
  BY DEF UpdateEntityRelationships, MergedTargets, TargetsIn
<1>2. \A t, u : <<t, u>> \in Expanded(pairs) => <<u, t>> \in Expanded(pairs)
  BY DEF Expanded
<1>3. \A p \in pairs : p[1] \in EntityTypes /\ p[2] \in EntityTypes /\ <<p[1], p[2]>> \in Expanded(pairs)
  BY DEF Expanded
<1>4. \A t, u \in EntityTypes : u \in registry'[t] => t \in registry'[u]
  BY <1>1, <1>2 DEF TargetsIn
<1>5. \A p \in pairs : p[2] \in registry'[p[1]]
  BY <1>1, <1>3 DEF TargetsIn
<1> QED  BY <1>1, <1>4, <1>5

LEMMA SetupStepInv ==
  ASSUME SetupInv, SetupNext
  PROVE  SetupInv'
<1> USE DEF SetupInv
<1>1. CASE CreateOrg
  BY <1>1, SetupAssumption DEF CreateOrg, SetupTypeOK, SetupSteps
<1>2. CASE SelectSacraments
  BY <1>2 DEF SelectSacraments, SetupTypeOK, SetupSteps, CurrentSacraments
<1>3. CASE InsertSacraments
  <2>1. \A t \in SacramentTypes : sacraments'[t] = 1
    BY <1>3 DEF InsertSacraments, SetupTypeOK, CurrentSacraments
  <2> QED  BY <1>3, <2>1 DEF InsertSacraments, SetupTypeOK, SetupSteps
<1>4. CASE SeedRelationships
  <2>1. registry' \in [EntityTypes -> SUBSET EntityTypes]
    BY <1>4 DEF SeedRelationships, UpdateEntityRelationships, MergedTargets, TargetsIn, SetupTypeOK
  <2> QED  BY <1>4, <2>1 DEF SeedRelationships, SetupTypeOK, SetupSteps
<1>5. CASE RecordSetup
  BY <1>5, SetupAssumption DEF RecordSetup, SetupTypeOK, SetupSteps
<1>6. CASE SetupFails
  BY <1>6, SetupAssumption DEF SetupFails, SetupTypeOK, SetupSteps
<1> QED  BY <1>1, <1>2, <1>3, <1>4, <1>5, <1>6 DEF SetupNext, SetupStep

LEMMA SetupKeepsOInv ==
  ASSUME OInv, SetupNext, UNCHANGED <<hookVars, progressVars, known, joined>>
  PROVE  OInv'
<1> USE DEF OInv
<1>1. SetupInv'
  BY SetupStepInv
<1>2. HookTypeOK' /\ HookInv'
  BY DEF HookInv, HookTypeOK, RunInv, Covered, ListedFits, Live, OfKind, hookVars
<1>3. TypeOK'
  BY <1>1, <1>2 DEF TypeOK, SetupInv, progressVars
<1>4. \A x \in Runs : ProgressInv(x)'
  BY DEF ProgressInv, progressVars, hookVars
<1>5. RegistryInv'
  <2>1. CASE SeedRelationships
    <3>1. UpdateEntityRelationships(SeededPairs)
      BY <2>1 DEF SeedRelationships
    <3>2. /\ \A t, u \in EntityTypes : u \in registry'[t] => t \in registry'[u]
          /\ \A t \in EntityTypes : registry[t] \subseteq registry'[t]
          /\ \A p \in SeededPairs : p[2] \in registry'[p[1]]
      BY <3>1, RelationshipsMerged, SetupAssumption DEF RegistryInv, SetupInv, SetupTypeOK
    <3>3. \A x \in Runs : \A i \in synced[x] : PairsOf[i] \subseteq EntityTypes \X EntityTypes
      BY OrgSyncAssumption DEF TypeOK
    <3> QED  BY <3>2, <3>3 DEF RegistryInv, progressVars
  <2>2. CASE ~ SeedRelationships
    <3>1. UNCHANGED registry
      BY <2>2 DEF SetupNext, SetupStep, CreateOrg, SelectSacraments, InsertSacraments, RecordSetup,
                  SetupFails
    <3>2. setup' \in {"related", "ready"} => setup \in {"related", "ready"}
      BY <2>2 DEF SetupNext, SetupStep, CreateOrg, SelectSacraments, InsertSacraments, RecordSetup,
                  SetupFails
    <3> QED  BY <3>1, <3>2 DEF RegistryInv, progressVars
  <2> QED  BY <2>1, <2>2
<1> QED  BY <1>1, <1>2, <1>3, <1>4, <1>5

-----------------------------------------------------------------------------
(* The subscriptions *)

LEMMA FirstOfIn ==
  ASSUME NEW S \in SUBSET Subs, S # {}
  PROVE  FirstOf(S) \in S
<1>1. S \subseteq Nat
  BY WebhookAssumption DEF Subs
<1>2. OpToRel(<, Nat) = {ss \in Nat \X Nat : ss[1] < ss[2]}
  BY DEF OpToRel
<1>3. PICK s \in S : \A t \in S : ~ (<<t, s>> \in OpToRel(<, Nat))
  BY <1>1, NatLessThanWellFounded, WFMin
<1>4. ASSUME NEW t \in S PROVE s <= t
  <2>1. s \in Nat /\ t \in Nat
    BY <1>1
  <2>2. t < s => <<t, s>> \in {ss \in Nat \X Nat : ss[1] < ss[2]}
    BY <2>1
  <2>3. ~ (t < s)
    BY <1>2, <1>3, <2>2
  <2> QED  BY <2>1, <2>3
<1> QED  BY <1>4 DEF FirstOf

(* A run that does not move keeps what it knows while subscriptions of a    *)
(* kind stay, and those that were live.                                     *)
LEMMA RunKept ==
  ASSUME HookTypeOK, NEW x \in Runs, RunInv(x),
         kindAt'[x] = kindAt[x], status'[x] = status[x], created'[x] = created[x],
         \A k \in Kinds : OfKind(k) \subseteq OfKind(k)',
         kindAt[x] # 0 => \A s \in Subs : Live(x, s) => Live(x, s)'
  PROVE  RunInv(x)'
<1>1. kindAt[x] \in Nat /\ \A k \in Kinds : k \in Nat /\ k # 0
  BY WebhookAssumption DEF HookTypeOK, Kinds
<1>2. \A k \in Kinds : OfKind(k) \subseteq Subs
  BY DEF OfKind
<1>3. ASSUME kindAt[x] # 0, NEW k \in Kinds
      PROVE  IF k < kindAt[x] THEN Covered(x, k)' ELSE ListedFits(x, k)'
  <2>1. CASE k < kindAt[x]
    <3>1. PICK s \in OfKind(k) : Live(x, s)
      BY <1>3, <2>1 DEF RunInv, Covered
    <3> QED  BY <3>1, <1>2, <1>3, <2>1 DEF Covered
  <2>2. CASE ~ (k < kindAt[x])
    <3>1. ListedFits(x, k)
      BY <1>3, <2>2 DEF RunInv
    <3> QED  BY <3>1, <1>2, <1>3, <2>2 DEF ListedFits
  <2> QED  BY <2>1, <2>2
<1>4. ASSUME created[x] # NoSub
      PROVE  kindAt[x] \in Kinds /\ created[x] \in OfKind(kindAt[x])' /\ Live(x, created[x])'
  BY <1>1, <1>2, <1>4 DEF RunInv
<1> QED  BY <1>3, <1>4 DEF RunInv

(* Steps that touch neither PCO's subscriptions nor the runs. *)
LEMMA HooksKept ==
  ASSUME HookInv, HookTypeOK', UNCHANGED <<pcoHookVars, runVars, deactivated>>
  PROVE  HookInv'
<1>1. \A k \in Kinds : OfKind(k)' = OfKind(k)
  BY DEF OfKind, pcoHookVars
<1>2. ASSUME NEW x \in Runs
      PROVE  RunInv(x)'
  BY <1>1, RunKept DEF HookInv, Live, runVars, pcoHookVars
<1> QED  BY <1>2 DEF HookInv

LEMMA ListStep ==
  ASSUME HookInv, NEW x \in Runs, ListSubscriptions(x)
  PROVE  HookInv'
<1> USE DEF HookInv
<1>1. /\ kindAt[x] = 0
      /\ status' = [status EXCEPT ![x] = [k \in Kinds |-> StatusOf(k)]]
      /\ kindAt' = [kindAt EXCEPT ![x] = 1] /\ deactivated' = [deactivated EXCEPT ![x] = {}]
      /\ UNCHANGED <<pcoHookVars, stored, created, orphaned, deliveryVars>>
  BY DEF ListSubscriptions
<1>2. \A k \in Kinds : StatusOf(k) \in [sub : Subs \cup {NoSub}, active : BOOLEAN]
  <2>1. ASSUME NEW k \in Kinds, OfKind(k) # {} PROVE FirstOf(OfKind(k)) \in Subs
    BY <2>1, FirstOfIn DEF OfKind
  <2> QED  BY <2>1 DEF StatusOf
<1>3. HookTypeOK'
  <2>1. 1 \in 0 .. NumKinds + 1
    BY WebhookAssumption
  <2> QED  BY <1>1, <1>2, <2>1 DEF HookTypeOK, pcoHookVars, deliveryVars
<1>4. \A k \in Kinds : OfKind(k)' = OfKind(k)
  BY <1>1 DEF OfKind, pcoHookVars
<1>5. ASSUME NEW y \in Runs, y # x PROVE RunInv(y)'
  BY <1>1, <1>4, <1>5, RunKept DEF HookTypeOK, Live, pcoHookVars
<1>6. RunInv(x)'
  <2>1. created'[x] = NoSub
    BY <1>1 DEF RunInv, Kinds
  <2>2. kindAt'[x] = 1 /\ \A k \in Kinds : status'[x][k] = StatusOf(k)
    BY <1>1 DEF HookTypeOK
  <2>3. \A k \in Kinds : ~ (k < 1)
    BY DEF Kinds
  <2>4. ASSUME NEW k \in Kinds PROVE ListedFits(x, k)'
    <3>1. CASE OfKind(k) = {}
      <4>1. status'[x][k] = [sub |-> NoSub, active |-> FALSE]
        BY <3>1, <2>2 DEF StatusOf
      <4> QED  BY <4>1 DEF ListedFits
    <3>2. CASE OfKind(k) # {}
      <4>1. FirstOf(OfKind(k)) \in OfKind(k)
        BY <3>2, FirstOfIn DEF OfKind
      <4>2. PICK s \in OfKind(k) : s = FirstOf(OfKind(k))
        BY <4>1
      <4>3. status'[x][k] = [sub |-> s, active |-> s \in active]
        BY <3>2, <2>2, <4>2 DEF StatusOf
      <4>4. status'[x][k].sub = s /\ (status'[x][k].active => s \in active')
        <5>1. CASE s \in active
          BY <4>3, <5>1, <1>1 DEF pcoHookVars
        <5>2. CASE s \notin active
          <6>1. (s \in active) = FALSE
            BY <5>2
          <6>2. status'[x][k] = [sub |-> s, active |-> FALSE]
            BY <4>3, <6>1, Zenon
          <6> QED  BY <6>2
        <5> QED  BY <5>1, <5>2
      <4>5. s \in OfKind(k)' /\ (status'[x][k].active => Live(x, s)')
        BY <4>4, <1>4 DEF Live
      <4> QED  BY <4>4, <4>5 DEF ListedFits
    <3> QED  BY <3>1, <3>2
  <2> QED  BY <2>1, <2>2, <2>3, <2>4 DEF RunInv
<1> QED  BY <1>3, <1>5, <1>6

(* The kind a run leaves is covered; the others are as they were. *)
LEMMA NextKindStep ==
  ASSUME HookInv, HookTypeOK', NEW x \in Runs, NEW j \in Kinds, j = kindAt[x], NextKind(x),
         \A k \in Kinds : OfKind(k) \subseteq OfKind(k)',
         \A s \in Subs : Live(x, s) => Live(x, s)',
         Covered(x, j)', created'[x] = NoSub
  PROVE  RunInv(x)'
<1>1. kindAt[x] \in Nat /\ \A k \in Kinds : k \in Nat
  BY DEF HookInv, HookTypeOK, Kinds
<1>2. /\ kindAt'[x] = kindAt[x] + 1
      /\ \A k \in Kinds : k # kindAt[x] => status'[x][k] = status[x][k]
  BY DEF NextKind, HookInv, HookTypeOK
<1>3. kindAt[x] # 0 /\ \A k \in Kinds : OfKind(k) \subseteq Subs
  BY DEF Kinds, OfKind
<1>4. ASSUME NEW k \in Kinds, k < kindAt[x] PROVE Covered(x, k)'
  <2>1. PICK s \in OfKind(k) : Live(x, s)
    BY <1>3, <1>4 DEF HookInv, RunInv, Covered
  <2> QED  BY <2>1, <1>3 DEF Covered
<1>5. ASSUME NEW k \in Kinds, k > kindAt[x] PROVE ListedFits(x, k)'
  <2>1. ListedFits(x, k)
    BY <1>1, <1>3, <1>5 DEF HookInv, RunInv
  <2> QED  BY <2>1, <1>1, <1>2, <1>3, <1>5 DEF ListedFits
<1>6. ASSUME NEW k \in Kinds
      PROVE  IF k < kindAt'[x] THEN Covered(x, k)' ELSE ListedFits(x, k)'
  <2>1. k < kindAt[x] \/ k = j \/ k > kindAt[x]
    BY <1>1
  <2>2. k < kindAt'[x] <=> k < kindAt[x] \/ k = j
    BY <1>1, <1>2
  <2> QED  BY <2>1, <2>2, <1>4, <1>5
<1> QED  BY <1>6 DEF RunInv

LEMMA NextKindTypes ==
  ASSUME HookTypeOK, NEW x \in Runs, kindAt[x] \in Kinds, NextKind(x)
  PROVE  /\ kindAt' \in [Runs -> 0 .. NumKinds + 1]
         /\ status' \in [Runs -> [Kinds -> [sub : Subs \cup {NoSub}, active : BOOLEAN]]]
<1>1. kindAt[x] + 1 \in 0 .. NumKinds + 1
  BY WebhookAssumption DEF Kinds
<1>2. NoStatus[1] \in [sub : Subs \cup {NoSub}, active : BOOLEAN]
  BY WebhookAssumption DEF NoStatus, Kinds
<1> QED  BY <1>1, <1>2 DEF NextKind, HookTypeOK

LEMMA KeepStep ==
  ASSUME HookInv, NEW x \in Runs, KeepSubscription(x)
  PROVE  HookInv'
<1> USE DEF HookInv
<1>1. /\ kindAt[x] \in Kinds /\ created[x] = NoSub /\ Status(x).sub # NoSub /\ NextKind(x)
      /\ active' = IF Status(x).active THEN active ELSE active \cup {Status(x).sub}
      /\ UNCHANGED <<kindOf, stored, created, orphaned, deactivated, deliveryVars>>
  BY DEF KeepSubscription, AtKind
<1>2. Status(x).sub \in OfKind(kindAt[x]) /\ (Status(x).active => Live(x, Status(x).sub))
  <2>1. ListedFits(x, kindAt[x])
    BY <1>1 DEF RunInv, Kinds
  <2> QED  BY <1>1, <2>1 DEF ListedFits, Status
<1>3. active \subseteq active' /\ active' \subseteq Subs
  BY <1>1, <1>2 DEF HookTypeOK, OfKind
<1>4. HookTypeOK'
  BY <1>1, <1>3, NextKindTypes DEF HookTypeOK, deliveryVars
<1>5. \A k \in Kinds : OfKind(k)' = OfKind(k)
  BY <1>1 DEF OfKind
<1>6. \A y \in Runs : \A s \in Subs : Live(y, s) => Live(y, s)'
  BY <1>1, <1>3 DEF Live
<1>7. ASSUME NEW y \in Runs, y # x PROVE RunInv(y)'
  <2>1. kindAt'[y] = kindAt[y] /\ status'[y] = status[y] /\ created'[y] = created[y]
    BY <1>1, <1>7 DEF NextKind, HookTypeOK
  <2> QED  BY <2>1, <1>5, <1>6, RunKept
<1>8. RunInv(x)'
  <2>1. PICK j \in Kinds, s \in OfKind(kindAt[x]) : j = kindAt[x] /\ s = Status(x).sub
    BY <1>1, <1>2
  <2>2. Live(x, s)'
    BY <1>1, <1>2, <1>6, <2>1 DEF Live, OfKind
  <2>3. Covered(x, j)'
    BY <1>5, <2>1, <2>2 DEF Covered
  <2> QED  BY <1>1, <1>4, <1>5, <1>6, <2>1, <2>3, NextKindStep
<1> QED  BY <1>4, <1>7, <1>8

LEMMA CreateStep ==
  ASSUME HookInv, NEW x \in Runs, CreateSubscription(x)
  PROVE  HookInv'
<1> USE DEF HookInv
<1>1. PICK s \in Subs, j \in Kinds :
        /\ j = kindAt[x] /\ kindOf[s] = NoKind /\ kindOf' = [kindOf EXCEPT ![s] = j]
        /\ active' = active \cup {s} /\ created' = [created EXCEPT ![x] = s]
        /\ UNCHANGED <<stored, status, kindAt, orphaned, deactivated, deliveryVars>>
  BY DEF CreateSubscription, AtKind
<1>2. HookTypeOK'
  BY <1>1 DEF HookTypeOK, deliveryVars
<1>3. \A k \in Kinds : NoKind # k
  BY DEF NoKind, Kinds
<1>4. (\A k \in Kinds : OfKind(k) \subseteq OfKind(k)') /\ s \in OfKind(j)'
  BY <1>1, <1>3 DEF OfKind, HookTypeOK
<1>5. (\A y \in Runs : \A t \in Subs : Live(y, t) => Live(y, t)') /\ Live(x, s)'
  BY <1>1 DEF Live
<1>6. ASSUME NEW y \in Runs, y # x PROVE RunInv(y)'
  BY <1>1, <1>4, <1>5, <1>6, RunKept DEF HookTypeOK
<1>7. RunInv(x)'
  <2>1. created'[x] = s /\ kindAt'[x] = j /\ kindAt[x] # 0 /\ j \in Nat
    BY <1>1 DEF HookTypeOK, Kinds
  <2>2. \A k \in Kinds : OfKind(k) \subseteq Subs
    BY DEF OfKind
  <2>3. ASSUME NEW k \in Kinds
        PROVE  IF k < kindAt[x] THEN Covered(x, k)' ELSE ListedFits(x, k)'
    <3>1. CASE k < kindAt[x]
      <4>1. PICK t \in OfKind(k) : Live(x, t)
        BY <2>1, <3>1 DEF RunInv, Covered
      <4> QED  BY <3>1, <4>1, <1>4, <1>5, <2>2 DEF Covered
    <3>2. CASE ~ (k < kindAt[x])
      <4>1. ListedFits(x, k)
        BY <2>1, <3>2 DEF RunInv
      <4>2. status'[x][k] = status[x][k]
        BY <1>1
      <4> QED  BY <3>2, <4>1, <4>2, <1>4, <1>5, <2>2 DEF ListedFits
    <3> QED  BY <3>1, <3>2
  <2> QED  BY <2>1, <2>3, <1>1, <1>4, <1>5 DEF RunInv
<1> QED  BY <1>2, <1>6, <1>7

LEMMA StoreStep ==
  ASSUME HookInv, NEW x \in Runs, StoreSecret(x)
  PROVE  HookInv'
<1> USE DEF HookInv
<1>1. /\ created[x] # NoSub /\ stored' = stored \cup {created[x]}
      /\ created' = [created EXCEPT ![x] = NoSub] /\ NextKind(x)
      /\ UNCHANGED <<pcoHookVars, orphaned, deactivated, deliveryVars>>
  BY DEF StoreSecret, RowsWith
<1>2. PICK j \in Kinds, s \in Subs :
        j = kindAt[x] /\ s = created[x] /\ s \in OfKind(j) /\ Live(x, s)
  BY <1>1 DEF RunInv, OfKind
<1>3. HookTypeOK'
  BY <1>1, <1>2, NextKindTypes DEF HookTypeOK, pcoHookVars, deliveryVars
<1>4. \A k \in Kinds : OfKind(k)' = OfKind(k)
  BY <1>1 DEF OfKind, pcoHookVars
<1>5. \A y \in Runs : \A t \in Subs : Live(y, t) => Live(y, t)'
  BY <1>1 DEF Live, pcoHookVars
<1>6. ASSUME NEW y \in Runs, y # x PROVE RunInv(y)'
  <2>1. kindAt'[y] = kindAt[y] /\ status'[y] = status[y] /\ created'[y] = created[y]
    BY <1>1, <1>6 DEF NextKind, HookTypeOK
  <2> QED  BY <2>1, <1>4, <1>5, RunKept
<1>7. RunInv(x)'
  <2>1. Covered(x, j)'
    BY <1>2, <1>4, <1>5 DEF Covered
  <2>2. created'[x] = NoSub
    BY <1>1 DEF HookTypeOK
  <2> QED  BY <1>1, <1>2, <1>3, <1>4, <1>5, <2>1, <2>2, NextKindStep
<1> QED  BY <1>3, <1>6, <1>7

(* A step of a run of SubscribeToWebhooks concerns only that run. *)
LEMMA SubscribeStepInv ==
  ASSUME HookInv, NEW x \in Runs, SubscribeStep(x)
  PROVE  HookInv' /\ \A y \in Runs : y # x => kindAt'[y] = kindAt[y]
<1>1. HookInv'
  BY ListStep, KeepStep, CreateStep, StoreStep DEF SubscribeStep
<1>2. \A y \in Runs : y # x => kindAt'[y] = kindAt[y]
  BY DEF SubscribeStep, ListSubscriptions, KeepSubscription, CreateSubscription, StoreSecret,
         NextKind, HookInv, HookTypeOK
<1> QED  BY <1>1, <1>2

LEMMA SubscribeAgainInv ==
  ASSUME HookInv, NEW x \in Runs, SubscribeAgain(x)
  PROVE  HookInv' /\ \A y \in Runs : y # x => kindAt'[y] = kindAt[y]
<1> USE DEF HookInv
<1>1. /\ kindAt' = [kindAt EXCEPT ![x] = 0] /\ status' = [status EXCEPT ![x] = NoStatus]
      /\ created' = [created EXCEPT ![x] = NoSub]
      /\ orphaned' = orphaned \cup ({created[x]} \ {NoSub})
      /\ UNCHANGED <<pcoHookVars, stored, deactivated, deliveryVars>>
  BY DEF SubscribeAgain
<1>2. NoStatus \in [Kinds -> [sub : Subs \cup {NoSub}, active : BOOLEAN]]
  BY DEF NoStatus
<1>3. HookTypeOK'
  BY <1>1, <1>2, WebhookAssumption DEF HookTypeOK, pcoHookVars, deliveryVars
<1>4. \A k \in Kinds : OfKind(k)' = OfKind(k)
  BY <1>1 DEF OfKind, pcoHookVars
<1>5. ASSUME NEW y \in Runs, y # x PROVE RunInv(y)'
  BY <1>1, <1>4, <1>5, RunKept DEF HookTypeOK, Live, pcoHookVars
<1>6. RunInv(x)'
  BY <1>1 DEF RunInv, HookTypeOK
<1>7. \A y \in Runs : y # x => kindAt'[y] = kindAt[y]
  BY <1>1 DEF HookTypeOK
<1> QED  BY <1>3, <1>5, <1>6, <1>7

(* PCO and the deliveries. *)
LEMMA PcoStepInv ==
  ASSUME HookInv, PcoStep
  PROVE  HookInv' /\ UNCHANGED kindAt
<1> USE DEF HookInv
<1>1. ASSUME NEW c \in Changes, NEW k \in Kinds, Change(c, k)
      PROVE  HookInv' /\ UNCHANGED kindAt
  <2>1. HookTypeOK'
    <3>1. {[sub |-> s, change |-> c, st |-> "posted"] : s \in OfKind(k) \cap active} \subseteq Deliveries
      BY DEF OfKind, Deliveries
    <3> QED  BY <1>1, <3>1 DEF Change, HookTypeOK, pcoHookVars, runVars
  <2> QED  BY <1>1, <2>1, HooksKept DEF Change, runVars
<1>2. ASSUME NEW s \in Subs, Deactivate(s)
      PROVE  HookInv' /\ UNCHANGED kindAt
  <2>1. /\ active' = active \ {s}
        /\ deactivated' = [x \in Runs |-> IF kindAt[x] = 0 THEN {} ELSE deactivated[x] \cup {s}]
        /\ UNCHANGED <<kindOf, stored, runVars, orphaned, deliveryVars>>
    BY <1>2 DEF Deactivate
  <2>2. HookTypeOK'
    BY <2>1 DEF HookTypeOK, runVars, deliveryVars
  <2>3. \A k \in Kinds : OfKind(k)' = OfKind(k)
    BY <2>1 DEF OfKind
  <2>4. ASSUME NEW x \in Runs PROVE RunInv(x)'
    <3>1. kindAt[x] # 0 => \A t \in Subs : Live(x, t) => Live(x, t)'
      BY <2>1 DEF Live
    <3> QED  BY <3>1, <2>1, <2>3, RunKept DEF runVars
  <2> QED  BY <2>1, <2>2, <2>4 DEF runVars
<1> QED  BY <1>1, <1>2 DEF PcoStep

LEMMA DeliveryStepInv ==
  ASSUME HookInv, NEW d \in deliveries, DeliveryStep(d)
  PROVE  HookInv' /\ UNCHANGED kindAt
<1> USE DEF HookInv
<1>1. d \in Deliveries /\ d.change \in Changes
  BY DEF HookTypeOK, Deliveries
<1>2. \A st \in {"fiber", "process"} : [d EXCEPT !.st = st] \in Deliveries
  BY <1>1 DEF Deliveries
<1>3. deliveries' \subseteq Deliveries /\ unseen' \subseteq Changes /\ missed' \subseteq Changes
  BY <1>1, <1>2 DEF DeliveryStep, ReceiveDelivery, FiberLost, GetWebhookOrgId, ProcessWebhook,
                    Moves, Ends, HookTypeOK
<1>4. UNCHANGED <<pcoHookVars, stored, runVars, orphaned, deactivated, changeOf>>
  BY DEF DeliveryStep, ReceiveDelivery, FiberLost, GetWebhookOrgId, ProcessWebhook
<1>5. HookTypeOK'
  BY <1>3, <1>4 DEF HookTypeOK, pcoHookVars, runVars
<1> QED  BY <1>4, <1>5, HooksKept DEF runVars

-----------------------------------------------------------------------------
(* The executions *)

(* Steps outside the executions, and inside SubscribeToWebhooks. *)
LEMMA HooksMove ==
  ASSUME OInv, HookInv', \A x \in subscribed : kindAt'[x] = kindAt[x],
         UNCHANGED <<setupVars, registry, progressVars, known, joined>>
  PROVE  OInv'
<1> USE DEF OInv
<1>1. SetupInv' /\ RegistryInv'
  BY DEF SetupInv, SetupTypeOK, CurrentSacraments, RegistryInv, setupVars, progressVars
<1>2. TypeOK'
  BY <1>1 DEF TypeOK, HookInv, SetupInv, progressVars
<1>3. \A x \in Runs : ProgressInv(x)'
  BY DEF ProgressInv, progressVars
<1> QED  BY <1>1, <1>2, <1>3

LEMMA SubscribeKeepsOInv ==
  ASSUME OInv, NEW x \in Runs, Subscribe(x)
  PROVE  OInv'
<1>1. x \notin subscribed
  BY DEF Subscribe, OInv, ProgressInv
<1>2. HookInv' /\ \A y \in Runs : y # x => kindAt'[y] = kindAt[y]
  BY SubscribeStepInv DEF Subscribe, OInv
<1>3. subscribed \subseteq Runs
  BY DEF OInv, TypeOK
<1> QED  BY <1>1, <1>2, <1>3, HooksMove DEF Subscribe

(* Steps that leave the tables and the webhooks alone. *)
LEMMA TablesKept ==
  ASSUME OInv, UNCHANGED <<hookVars, setupVars, registry>>
  PROVE  HookInv' /\ HookTypeOK' /\ SetupInv' /\ SetupTypeOK' /\ (UNCHANGED synced => RegistryInv')
<1> USE DEF OInv
<1>1. SetupInv' /\ (UNCHANGED synced => RegistryInv')
  BY DEF SetupInv, SetupTypeOK, CurrentSacraments, RegistryInv, setupVars
<1>2. HookTypeOK' /\ UNCHANGED <<pcoHookVars, runVars, deactivated>>
  BY DEF HookInv, HookTypeOK, hookVars, pcoHookVars, runVars
<1>3. HookInv'
  BY <1>2, HooksKept
<1> QED  BY <1>1, <1>2, <1>3 DEF SetupInv

LEMMA StartSyncStep ==
  ASSUME OInv, NEW x \in Runs, StartSync(x)
  PROVE  OInv'
<1> USE DEF OInv
<1>1. /\ at[x] = "idle" /\ at' = [at EXCEPT ![x] = "subscribe"]
      /\ UNCHANGED <<hookVars, setupVars, registry, subscribed, child, attempt, orphans, synced,
                     known, joined, crashes>>
  BY DEF StartSync, Goto
<1>2. HookInv' /\ HookTypeOK' /\ SetupInv' /\ SetupTypeOK' /\ RegistryInv'
  BY <1>1, TablesKept
<1>3. TypeOK'
  BY <1>1, <1>2 DEF TypeOK, Places
<1>4. \A y \in Runs : ProgressInv(y)'
  BY <1>1 DEF TypeOK, ProgressInv, hookVars
<1> QED  BY <1>2, <1>3, <1>4

LEMMA SubscribeRecordedStep ==
  ASSUME OInv, NEW x \in Runs, SubscribeRecorded(x)
  PROVE  OInv'
<1> USE DEF OInv
<1>1. /\ at[x] = "subscribe" /\ kindAt[x] = NumKinds + 1
      /\ subscribed' = subscribed \cup {x} /\ at' = [at EXCEPT ![x] = "children"]
      /\ attempt' = [attempt EXCEPT ![x] = 0]
      /\ UNCHANGED <<hookVars, setupVars, registry, child, orphans, synced, known, joined, crashes>>
  BY DEF SubscribeRecorded, Subscribed, Goto, FreshAttempt
<1>2. HookInv' /\ HookTypeOK' /\ SetupInv' /\ SetupTypeOK' /\ RegistryInv'
  BY <1>1, TablesKept
<1>3. TypeOK'
  BY <1>1, <1>2, OrgSyncAssumption DEF TypeOK, Places
<1>4. \A y \in Runs : ProgressInv(y)'
  BY <1>1 DEF TypeOK, ProgressInv, hookVars
<1> QED  BY <1>2, <1>3, <1>4

(* What a child has synced is in the tables and the registry. *)
LEMMA SyncsStep ==
  ASSUME OInv, NEW i \in Entities, Syncs(i)
  PROVE  /\ HookInv' /\ HookTypeOK' /\ SetupInv' /\ SetupTypeOK'
         /\ UNCHANGED <<setup, kindAt, joined>>
         /\ known \subseteq known' /\ known' \subseteq PcoUsers /\ (i = PersonEntity => known' = PcoUsers)
         /\ \A t, u \in EntityTypes : u \in registry'[t] => t \in registry'[u]
         /\ \A t \in EntityTypes : registry[t] \subseteq registry'[t]
         /\ \A p \in PairsOf[i] : p[2] \in registry'[p[1]]
<1> USE DEF OInv
<1>1. /\ unseen' \subseteq unseen /\ known' = IF i = PersonEntity THEN PcoUsers ELSE known
      /\ UpdateEntityRelationships(PairsOf[i])
      /\ UNCHANGED <<pcoHookVars, changeOf, deliveries, stored, runVars, orphaned, deactivated,
                     missed, setupVars, joined>>
  BY DEF Syncs
<1>2. HookTypeOK'
  BY <1>1 DEF HookInv, HookTypeOK, pcoHookVars, runVars
<1>3. HookInv'
  BY <1>1, <1>2, HooksKept
<1>4. PairsOf[i] \in SUBSET (EntityTypes \X EntityTypes)
  BY OrgSyncAssumption
<1>5. /\ registry' \in [EntityTypes -> SUBSET EntityTypes]
      /\ \A t, u \in EntityTypes : u \in registry'[t] => t \in registry'[u]
      /\ \A t \in EntityTypes : registry[t] \subseteq registry'[t]
      /\ \A p \in PairsOf[i] : p[2] \in registry'[p[1]]
  BY <1>1, <1>4, RelationshipsMerged DEF RegistryInv, SetupInv, SetupTypeOK
<1>6. SetupInv' /\ SetupTypeOK'
  BY <1>1, <1>5 DEF SetupInv, SetupTypeOK, CurrentSacraments, setupVars
<1> QED  BY <1>1, <1>2, <1>3, <1>5, <1>6 DEF TypeOK, setupVars, runVars

(* An entity type an execution, or an orphan of it, has synced. *)
LEMMA SyncedRegistry ==
  ASSUME OInv, NEW x \in Runs, NEW i \in Entities, Syncs(i),
         synced' = [synced EXCEPT ![x] = @ \cup {i}]
  PROVE  /\ RegistryInv'
         /\ \A y \in Runs : PersonEntity \in synced'[y] => known' = PcoUsers
         /\ synced' \in [Runs -> SUBSET Entities]
         /\ \A y \in Runs : synced[y] \subseteq synced'[y]
         /\ i \in synced'[x]
<1> USE DEF OInv
<1>1. /\ synced \in [Runs -> SUBSET Entities] /\ synced' \in [Runs -> SUBSET Entities]
      /\ \A y \in Runs : \A j \in synced'[y] : j \in synced[y] \/ j = i
      /\ \A y \in Runs : synced[y] \subseteq synced'[y] /\ i \in synced'[x]
  BY DEF TypeOK
<1>2. /\ UNCHANGED setup
      /\ known \subseteq known' /\ known' \subseteq PcoUsers /\ (i = PersonEntity => known' = PcoUsers)
      /\ \A t, u \in EntityTypes : u \in registry'[t] => t \in registry'[u]
      /\ \A t \in EntityTypes : registry[t] \subseteq registry'[t]
      /\ \A p \in PairsOf[i] : p[2] \in registry'[p[1]]
  BY SyncsStep
<1>3. \A j \in Entities : PairsOf[j] \subseteq EntityTypes \X EntityTypes
  BY OrgSyncAssumption
<1>4. \A p \in SeededPairs : setup' \in {"related", "ready"} => p[2] \in registry'[p[1]]
  BY <1>2, SetupAssumption DEF RegistryInv
<1>5. ASSUME NEW y \in Runs, NEW j \in synced'[y], NEW p \in PairsOf[j]
      PROVE  p[2] \in registry'[p[1]]
  <2>1. CASE j = i
    BY <1>2, <2>1
  <2>2. CASE j \in synced[y]
    <3>1. p[2] \in registry[p[1]] /\ p[1] \in EntityTypes
      BY <1>1, <1>3, <2>2 DEF RegistryInv
    <3> QED  BY <3>1, <1>2
  <2> QED  BY <1>1, <2>1, <2>2
<1>6. \A y \in Runs : PersonEntity \in synced'[y] => known' = PcoUsers
  BY <1>1, <1>2 DEF ProgressInv
<1>7. RegistryInv'
  BY <1>2, <1>4, <1>5 DEF RegistryInv
<1> QED  BY <1>1, <1>6, <1>7

LEMMA ChildEndsStep ==
  ASSUME OInv, NEW x \in Runs, ChildEnds(x)
  PROVE  OInv'
<1> USE DEF OInv
<1>1. /\ at[x] = "children" /\ Syncs(child[x])
      /\ synced' = [synced EXCEPT ![x] = @ \cup {child[x]}]
      /\ \/ /\ child[x] < NumEntities /\ child' = [child EXCEPT ![x] = @ + 1] /\ UNCHANGED at
         \/ /\ ~ (child[x] < NumEntities) /\ at' = [at EXCEPT ![x] = "map"] /\ UNCHANGED child
      /\ UNCHANGED <<subscribed, attempt, orphans, crashes>>
  BY DEF ChildEnds, Goto
<1>2. child[x] \in Entities
  BY DEF TypeOK
<1>3. /\ HookInv' /\ HookTypeOK' /\ SetupInv' /\ SetupTypeOK' /\ RegistryInv'
      /\ UNCHANGED <<kindAt, joined>> /\ known \subseteq known' /\ known' \subseteq PcoUsers
      /\ \A y \in Runs : PersonEntity \in synced'[y] => known' = PcoUsers
      /\ synced' \in [Runs -> SUBSET Entities]
      /\ \A y \in Runs : synced[y] \subseteq synced'[y]
      /\ child[x] \in synced'[x]
  BY <1>1, <1>2, SyncsStep, SyncedRegistry
<1>4. at' \in [Runs -> Places] /\ child' \in [Runs -> Entities]
  <2>1. child[x] < NumEntities => child[x] + 1 \in Entities
    BY <1>2, OrgSyncAssumption DEF Entities
  <2>2. child' \in [Runs -> Entities]
    BY <1>1, <2>1 DEF TypeOK
  <2> QED  BY <1>1, <2>2 DEF TypeOK, Places
<1>5. TypeOK'
  BY <1>1, <1>3, <1>4 DEF TypeOK
<1>6. 1 .. child[x] \subseteq synced'[x]
  <2>1. 1 .. child[x] - 1 \subseteq synced[x]
    BY <1>1 DEF ProgressInv
  <2> QED  BY <2>1, <1>2, <1>3 DEF Entities
<1>7. ProgressInv(x)'
  <2>1. CASE child[x] < NumEntities
    <3>1. at'[x] = "children" /\ child'[x] = child[x] + 1
      BY <1>1, <2>1 DEF TypeOK
    <3>2. 1 .. child'[x] - 1 \subseteq synced'[x]
      BY <3>1, <1>2, <1>6 DEF Entities
    <3> QED  BY <1>1, <1>3, <3>1, <3>2 DEF ProgressInv
  <2>2. CASE ~ (child[x] < NumEntities)
    <3>1. at'[x] = "map"
      BY <1>1, <2>2 DEF TypeOK
    <3>2. PersonEntity \in synced'[x]
      BY <1>2, <1>6, <2>2, OrgSyncAssumption DEF Entities
    <3> QED  BY <1>1, <1>3, <3>1, <3>2 DEF ProgressInv
  <2> QED  BY <2>1, <2>2
<1>8. ASSUME NEW y \in Runs, y # x PROVE ProgressInv(y)'
  <2>1. at'[y] = at[y] /\ child'[y] = child[y]
    BY <1>1, <1>8 DEF TypeOK
  <2> QED  BY <2>1, <1>1, <1>3 DEF ProgressInv
<1> QED  BY <1>3, <1>5, <1>7, <1>8

LEMMA OrphanEndsStep ==
  ASSUME OInv, NEW x \in Runs, NEW i \in Entities, OrphanEnds(x, i)
  PROVE  OInv'
<1> USE DEF OInv
<1>1. /\ Syncs(i) /\ orphans' = [orphans EXCEPT ![x] = @ \ {i}]
      /\ synced' = [synced EXCEPT ![x] = @ \cup {i}]
      /\ UNCHANGED <<at, subscribed, child, attempt, crashes>>
  BY DEF OrphanEnds
<1>2. /\ HookInv' /\ HookTypeOK' /\ SetupInv' /\ SetupTypeOK' /\ RegistryInv'
      /\ UNCHANGED <<kindAt, joined>> /\ known \subseteq known' /\ known' \subseteq PcoUsers
      /\ \A y \in Runs : PersonEntity \in synced'[y] => known' = PcoUsers
      /\ synced' \in [Runs -> SUBSET Entities]
      /\ \A y \in Runs : synced[y] \subseteq synced'[y]
  BY <1>1, SyncsStep, SyncedRegistry
<1>3. TypeOK'
  BY <1>1, <1>2 DEF TypeOK
<1>4. \A y \in Runs : ProgressInv(y)'
  BY <1>1, <1>2 DEF ProgressInv
<1> QED  BY <1>2, <1>3, <1>4

LEMMA ChildFailsStep ==
  ASSUME OInv, NEW x \in Runs, ChildFails(x)
  PROVE  OInv'
<1> USE DEF OInv
<1>1. /\ at[x] = "children" /\ x \in FailureProne /\ at' = [at EXCEPT ![x] = "failed"]
      /\ UNCHANGED <<hookVars, setupVars, registry, subscribed, child, attempt, orphans, synced,
                     known, joined, crashes>>
  BY DEF ChildFails, Goto
<1>2. HookInv' /\ HookTypeOK' /\ SetupInv' /\ SetupTypeOK' /\ RegistryInv'
  BY <1>1, TablesKept
<1>3. TypeOK'
  BY <1>1, <1>2 DEF TypeOK, Places
<1>4. \A y \in Runs : ProgressInv(y)'
  BY <1>1 DEF TypeOK, ProgressInv, hookVars
<1> QED  BY <1>2, <1>3, <1>4

(* An activity that failed is tried again, or its execution has failed. *)
LEMMA Retried ==
  ASSUME TypeOK, NEW x \in Runs, RetryActivity(x)
  PROVE  /\ at' \in [Runs -> Places] /\ attempt' \in [Runs -> 0 .. MaxRetries]
         /\ at'[x] \in {at[x], "failed"} /\ \A y \in Runs : y # x => at'[y] = at[y]
<1>1. attempt[x] < MaxRetries => attempt[x] + 1 \in 0 .. MaxRetries
  BY OrgSyncAssumption DEF TypeOK
<1>2. 0 \in 0 .. MaxRetries
  BY OrgSyncAssumption
<1>3. attempt' \in [Runs -> 0 .. MaxRetries]
  BY <1>1, <1>2 DEF RetryActivity, FreshAttempt, TypeOK
<1> QED  BY <1>3 DEF RetryActivity, Goto, TypeOK, Places

LEMMA ActivityFailsStep ==
  ASSUME OInv, NEW x \in Runs, ActivityFails(x)
  PROVE  OInv'
<1> USE DEF OInv
<1>1. /\ at[x] \in {"subscribe", "map"} /\ x \in FailureProne /\ RetryActivity(x)
      /\ IF at[x] = "subscribe" THEN SubscribeAgain(x) ELSE UNCHANGED hookVars
      /\ UNCHANGED <<setupVars, registry, subscribed, child, orphans, synced, known, joined, crashes>>
  BY DEF ActivityFails
<1>2. /\ at' \in [Runs -> Places] /\ attempt' \in [Runs -> 0 .. MaxRetries]
      /\ at'[x] \in {at[x], "failed"} /\ \A y \in Runs : y # x => at'[y] = at[y]
  BY <1>1, Retried
<1>3. HookInv' /\ \A y \in subscribed : kindAt'[y] = kindAt[y]
  <2>1. CASE at[x] = "subscribe"
    <3>1. HookInv' /\ \A y \in Runs : y # x => kindAt'[y] = kindAt[y]
      BY <1>1, <2>1, SubscribeAgainInv
    <3>2. x \notin subscribed /\ subscribed \subseteq Runs
      BY <2>1 DEF ProgressInv, TypeOK
    <3> QED  BY <3>1, <3>2
  <2>2. CASE at[x] # "subscribe"
    BY <1>1, <2>2, TablesKept DEF hookVars
  <2> QED  BY <2>1, <2>2
<1>4. SetupInv' /\ SetupTypeOK' /\ RegistryInv'
  BY <1>1 DEF SetupInv, SetupTypeOK, CurrentSacraments, RegistryInv, setupVars
<1>5. TypeOK'
  BY <1>1, <1>2, <1>3, <1>4 DEF TypeOK, HookInv
<1>6. ProgressInv(x)'
  BY <1>1, <1>2, <1>3 DEF ProgressInv
<1>7. ASSUME NEW y \in Runs, y # x PROVE ProgressInv(y)'
  BY <1>1, <1>2, <1>3, <1>7 DEF ProgressInv
<1> QED  BY <1>3, <1>4, <1>5, <1>6, <1>7

LEMMA MapUserToPersonStep ==
  ASSUME OInv, NEW x \in Runs, MapUserToPerson(x)
  PROVE  OInv'
<1> USE DEF OInv
<1>1. /\ at[x] = "map"
      /\ UNCHANGED <<hookVars, setupVars, registry, subscribed, child, orphans, synced, known, crashes>>
  BY DEF MapUserToPerson
<1>2. PersonEntity \in synced[x] /\ known = PcoUsers
  BY <1>1 DEF ProgressInv
<1>3. /\ at' \in [Runs -> Places] /\ attempt' \in [Runs -> 0 .. MaxRetries]
      /\ joined \subseteq joined' /\ joined' \subseteq known
      /\ \A y \in Runs : y # x => at'[y] = at[y]
      /\ \/ at'[x] = "map"
         \/ at'[x] = "failed" /\ UserOf[x] \in joined'
         \/ at'[x] = "mapped" /\ (UserOf[x] \in known => UserOf[x] \in joined')
  <2>1. CASE InsertRefused(x) /\ RetryActivity(x) /\ UNCHANGED joined
    BY <1>1, <2>1, Retried DEF InsertRefused, TypeOK
  <2>2. CASE /\ at' = [at EXCEPT ![x] = "mapped"] /\ UNCHANGED attempt
             /\ joined' = IF PersonFound(x) THEN joined \cup {UserOf[x]} ELSE joined
    BY <2>2 DEF TypeOK, Places, PersonFound
  <2> QED  BY <2>1, <2>2 DEF MapUserToPerson, Goto
<1>4. HookInv' /\ HookTypeOK' /\ SetupInv' /\ SetupTypeOK' /\ RegistryInv'
  BY <1>1, TablesKept
<1>5. TypeOK'
  BY <1>1, <1>3, <1>4 DEF TypeOK
<1>6. ProgressInv(x)'
  BY <1>1, <1>2, <1>3 DEF ProgressInv, hookVars
<1>7. ASSUME NEW y \in Runs, y # x PROVE ProgressInv(y)'
  BY <1>1, <1>3, <1>7 DEF ProgressInv, hookVars
<1> QED  BY <1>4, <1>5, <1>6, <1>7

LEMMA MapRecordedStep ==
  ASSUME OInv, NEW x \in Runs, MapRecorded(x)
  PROVE  OInv'
<1> USE DEF OInv
<1>1. /\ at[x] = "mapped" /\ at' = [at EXCEPT ![x] = "done"]
      /\ attempt' = [attempt EXCEPT ![x] = 0]
      /\ UNCHANGED <<hookVars, setupVars, registry, subscribed, child, orphans, synced, known,
                     joined, crashes>>
  BY DEF MapRecorded, Goto, FreshAttempt
<1>2. HookInv' /\ HookTypeOK' /\ SetupInv' /\ SetupTypeOK' /\ RegistryInv'
  BY <1>1, TablesKept
<1>3. TypeOK'
  BY <1>1, <1>2, OrgSyncAssumption DEF TypeOK, Places
<1>4. \A y \in Runs : ProgressInv(y)'
  BY <1>1 DEF TypeOK, ProgressInv, hookVars
<1> QED  BY <1>2, <1>3, <1>4

LEMMA CrashStep ==
  ASSUME OInv, NEW x \in Runs, Crash(x)
  PROVE  OInv'
<1> USE DEF OInv
<1>1. /\ at[x] \notin {"idle", "done", "failed"} /\ crashes < MaxCrashes /\ crashes' = crashes + 1
      /\ at' = [at EXCEPT ![x] = IF x \in subscribed THEN "children" ELSE "subscribe"]
      /\ child' = [child EXCEPT ![x] = 1]
      /\ orphans' = [orphans EXCEPT ![x] = IF at[x] = "children" THEN @ \cup {child[x]} ELSE @]
      /\ IF at[x] = "subscribe" THEN SubscribeAgain(x) ELSE UNCHANGED hookVars
      /\ UNCHANGED <<setupVars, registry, subscribed, attempt, synced, known, joined>>
  BY DEF Crash, Goto, Running
<1>2. HookInv' /\ \A y \in subscribed : kindAt'[y] = kindAt[y]
  <2>1. CASE at[x] = "subscribe"
    <3>1. HookInv' /\ \A y \in Runs : y # x => kindAt'[y] = kindAt[y]
      BY <1>1, <2>1, SubscribeAgainInv
    <3>2. x \notin subscribed /\ subscribed \subseteq Runs
      BY <2>1 DEF ProgressInv, TypeOK
    <3> QED  BY <3>1, <3>2
  <2>2. CASE at[x] # "subscribe"
    BY <1>1, <2>2, TablesKept DEF hookVars
  <2> QED  BY <2>1, <2>2
<1>3. SetupInv' /\ SetupTypeOK' /\ RegistryInv'
  BY <1>1 DEF SetupInv, SetupTypeOK, CurrentSacraments, RegistryInv, setupVars
<1>4. TypeOK'
  <2>1. at' \in [Runs -> Places]
    BY <1>1 DEF TypeOK, Places
  <2>2. child' \in [Runs -> Entities] /\ orphans' \in [Runs -> SUBSET Entities]
    BY <1>1, OrgSyncAssumption DEF TypeOK, Entities
  <2>3. crashes' \in 0 .. MaxCrashes
    BY <1>1, OrgSyncAssumption DEF TypeOK
  <2> QED  BY <1>1, <1>2, <1>3, <2>1, <2>2, <2>3 DEF TypeOK, HookInv
<1>5. ProgressInv(x)'
  <2>1. child'[x] = 1 /\ at'[x] = (IF x \in subscribed THEN "children" ELSE "subscribe")
    BY <1>1 DEF TypeOK
  <2>2. 1 .. child'[x] - 1 \subseteq synced'[x]
    BY <2>1
  <2> QED  BY <1>1, <1>2, <2>1, <2>2 DEF ProgressInv
<1>6. ASSUME NEW y \in Runs, y # x PROVE ProgressInv(y)'
  <2>1. at'[y] = at[y] /\ child'[y] = child[y]
    BY <1>1, <1>6 DEF TypeOK
  <2> QED  BY <2>1, <1>1, <1>2 DEF ProgressInv
<1> QED  BY <1>2, <1>3, <1>4, <1>5, <1>6

-----------------------------------------------------------------------------
LEMMA OInvInductive == OInv /\ [Next]_vars => OInv'
<1> SUFFICES ASSUME OInv, [Next]_vars PROVE OInv'
  OBVIOUS
<1>1. CASE SetupNext /\ UNCHANGED <<hookVars, progressVars, known, joined>>
  BY <1>1, SetupKeepsOInv
<1>2. ASSUME NEW x \in Runs, RunStep(x) PROVE OInv'
  BY <1>2, SubscribeKeepsOInv, SubscribeRecordedStep, ChildEndsStep, MapUserToPersonStep,
     MapRecordedStep DEF RunStep
<1>3. ASSUME NEW x \in Runs, StartSync(x) \/ ChildFails(x) \/ ActivityFails(x) \/ Crash(x)
      PROVE  OInv'
  BY <1>3, StartSyncStep, ChildFailsStep, ActivityFailsStep, CrashStep
<1>4. ASSUME NEW x \in Runs, NEW i \in Entities, OrphanEnds(x, i) PROVE OInv'
  BY <1>4, OrphanEndsStep
<1>5. CASE PcoStep /\ Outer
  BY <1>5, PcoStepInv, HooksMove DEF OInv, Outer
<1>6. ASSUME NEW d \in deliveries, DeliveryStep(d), Outer PROVE OInv'
  BY <1>6, DeliveryStepInv, HooksMove DEF OInv, Outer
<1>7. CASE UNCHANGED vars
  <2>1. HookInv'
    BY <1>7, TablesKept DEF vars
  <2> QED  BY <1>7, <2>1, HooksMove DEF vars, hookVars
<1> QED  BY <1>1, <1>2, <1>3, <1>4, <1>5, <1>6, <1>7 DEF Next

(* The invariant holds in every state the program reaches. *)
THEOREM OInvAlways == Spec => []OInv
  BY InitOInv, OInvInductive, PTL DEF Spec

(* The tables, PCO's subscriptions, the deliveries and the state of every  *)
(* execution keep their types (ExternalSyncWorkflow, CreateOrgWorkflow).   *)
THEOREM TypeCorrect == Spec => []TypeOK
<1>1. OInv => TypeOK
  BY DEF OInv
<1> QED  BY <1>1, OInvAlways, PTL

(* However often the setup of an organisation is retried or replayed, it   *)
(* leaves one sacrament of each type (CreateOrgWorkflow).                  *)
THEOREM SacramentsOnce == Spec => []OneSacramentPerType
<1>1. OInv => OneSacramentPerType
  BY DEF OInv, SetupInv, OneSacramentPerType
<1> QED  BY <1>1, OInvAlways, PTL

(* The registry of relationships is symmetric and keeps what the setup and *)
(* every sync has found (updateEntityRelationships).                       *)
THEOREM RegistryStaysComplete == Spec => []RegistryComplete
<1>1. OInv => RegistryComplete
  BY DEF OInv, RegistryInv, RegistryComplete
<1> QED  BY <1>1, OInvAlways, PTL

(* An execution that has recorded its subscriptions has an active one of   *)
(* every kind of webhook, or PCO has made it inactive since they were      *)
(* listed, for any number of executions that subscribe at once             *)
(* (subscribeToWebhooks).                                                  *)
THEOREM SubscribedToEveryKind == Spec => []EveryKindActive
<1>1. ASSUME OInv PROVE EveryKindActive
  <2>1. SUFFICES ASSUME NEW x \in subscribed, NEW k \in Kinds
        PROVE  \E s \in OfKind(k) : s \in active \/ s \in deactivated[x]
    BY DEF EveryKindActive
  <2>2. x \in Runs /\ kindAt[x] = NumKinds + 1
    BY <1>1 DEF OInv, TypeOK, ProgressInv
  <2>3. kindAt[x] # 0 /\ k < kindAt[x]
    BY <2>2, WebhookAssumption DEF Kinds
  <2> QED  BY <1>1, <2>2, <2>3 DEF OInv, HookInv, RunInv, Covered, Live
<1> QED  BY <1>1, OInvAlways, PTL

(* An execution that succeeds has joined its user to their person, and one *)
(* that nothing disturbs fails only when they were joined before           *)
(* (ExternalSyncWorkflow, mapUserToPerson).                                *)
THEOREM UsersEndUpJoined == Spec => []UserEndsUpJoined
<1>1. OInv => UserEndsUpJoined
  BY DEF OInv, ProgressInv, UserEndsUpJoined
<1> QED  BY <1>1, OInvAlways, PTL

-----------------------------------------------------------------------------
(* No change is missed.  An execution that has not recorded its            *)
(* subscriptions has synced nothing yet, and only such a one has a         *)
(* subscription whose secret is still to be stored.                        *)
Unrecorded(x) ==
  at[x] \in {"idle", "subscribe", "failed"} /\ synced[x] = {} /\ orphans[x] = {}
RecordedFirst ==
  /\ \A x \in Runs \ subscribed : Unrecorded(x)
  /\ \A x \in Runs : created[x] # NoSub => at[x] = "subscribe"

(* The secret of a subscription is stored, lost, or about to be stored. *)
SecretsAccountedFor ==
  \A s \in Subs : kindOf[s] # NoKind =>
    s \in stored \/ s \in orphaned \/ \E x \in Runs : created[x] = s

DeliveriesFit ==
  \A d \in deliveries : kindOf[d.sub] \in Kinds /\ changeOf[d.change] = kindOf[d.sub]

(* A change that is not in the database yet is excused, came before there  *)
(* were subscriptions of its kind, is being delivered, or will be found by *)
(* a sync of an execution that has been started.                           *)
ToBeSynced(i) == \E x \in Runs : at[x] # "idle" /\ i \notin synced[x]
MadeUp(c, k) ==
  \/ c \in missed \/ OfKind(k) \cap orphaned # {}
  \/ OfKind(k) = {}
  \/ \E d \in deliveries : d.change = c
  \/ ToBeSynced(EntityOf[k])
MadeUpFor ==
  \A c \in unseen : changeOf[c] \in Kinds /\ \A k \in Kinds : changeOf[c] = k => MadeUp(c, k)

SInv == OInv /\ RecordedFirst /\ SecretsAccountedFor /\ DeliveriesFit /\ MadeUpFor

-----------------------------------------------------------------------------
(* The steps of an execution. *)

LEMMA SubscribingCreates ==
  ASSUME HookTypeOK, NEW x \in Runs, SubscribeStep(x) \/ SubscribeAgain(x)
  PROVE  \A y \in Runs : y # x => created'[y] = created[y]
BY DEF HookTypeOK, SubscribeStep, SubscribeAgain, ListSubscriptions, KeepSubscription,
       CreateSubscription, StoreSecret

LEMMA RecordedFirstKept ==
  ASSUME OInv, RecordedFirst, [Next]_vars
  PROVE  RecordedFirst'
<1> USE DEF OInv, TypeOK
<1>0. /\ \A x \in Runs : x \in subscribed => at[x] \notin {"idle", "subscribe"}
      /\ \A x \in Runs : at[x] = "subscribe" => x \notin subscribed
  BY DEF ProgressInv
<1>1. CASE UNCHANGED <<at, subscribed, synced, orphans, created>>
  BY <1>1 DEF RecordedFirst, Unrecorded
<1>2. ASSUME NEW x \in Runs, StartSync(x) PROVE RecordedFirst'
  <2>1. at' = [at EXCEPT ![x] = "subscribe"] /\ UNCHANGED <<subscribed, synced, orphans, created>>
    BY <1>2 DEF StartSync, Goto, hookVars
  <2> QED  BY <1>2, <2>1 DEF RecordedFirst, Unrecorded, StartSync
<1>3. ASSUME NEW x \in Runs, Subscribe(x) PROVE RecordedFirst'
  <2>1. /\ at[x] = "subscribe" /\ UNCHANGED <<at, subscribed, synced, orphans>>
        /\ \A y \in Runs : y # x => created'[y] = created[y]
    BY <1>3, SubscribingCreates DEF Subscribe, progressVars
  <2> QED  BY <2>1 DEF RecordedFirst, Unrecorded
<1>4. ASSUME NEW x \in Runs, SubscribeRecorded(x) PROVE RecordedFirst'
  <2>1. /\ at' = [at EXCEPT ![x] = "children"] /\ subscribed' = subscribed \cup {x}
        /\ kindAt[x] = NumKinds + 1 /\ UNCHANGED <<synced, orphans, created>>
    BY <1>4 DEF SubscribeRecorded, Goto, Subscribed, hookVars
  <2>2. created[x] = NoSub
    BY <2>1, WebhookAssumption DEF HookInv, RunInv, Kinds
  <2> QED  BY <2>1, <2>2 DEF RecordedFirst, Unrecorded
<1>5. ASSUME NEW x \in Runs, x \in subscribed,
             UNCHANGED <<subscribed, created>>,
             \A y \in Runs : y # x => at'[y] = at[y] /\ synced'[y] = synced[y] /\ orphans'[y] = orphans[y]
      PROVE  RecordedFirst'
  BY <1>0, <1>5 DEF RecordedFirst, Unrecorded
<1>6. ASSUME NEW x \in Runs, ChildEnds(x) \/ MapUserToPerson(x) \/ MapRecorded(x) \/ ChildFails(x)
      PROVE  RecordedFirst'
  <2>1. at[x] \in {"children", "map", "mapped"}
    BY <1>6 DEF ChildEnds, MapUserToPerson, MapRecorded, ChildFails
  <2>2. x \in subscribed
    BY <2>1 DEF RecordedFirst, Unrecorded
  <2>3. /\ UNCHANGED <<subscribed, created>>
        /\ \A y \in Runs : y # x => at'[y] = at[y] /\ synced'[y] = synced[y] /\ orphans'[y] = orphans[y]
    BY <1>6, Retried DEF ChildEnds, MapUserToPerson, MapRecorded, ChildFails, Goto, Syncs, hookVars,
                         runVars
  <2> QED  BY <1>5, <2>2, <2>3
<1>7. ASSUME NEW x \in Runs, NEW i \in Entities, OrphanEnds(x, i) PROVE RecordedFirst'
  <2>1. x \in subscribed
    BY <1>7 DEF OrphanEnds, RecordedFirst, Unrecorded
  <2>2. /\ UNCHANGED <<subscribed, created>>
        /\ \A y \in Runs : y # x => at'[y] = at[y] /\ synced'[y] = synced[y] /\ orphans'[y] = orphans[y]
    BY <1>7 DEF OrphanEnds, Syncs, runVars
  <2> QED  BY <1>5, <2>1, <2>2
<1>8. ASSUME NEW x \in Runs, ActivityFails(x) PROVE RecordedFirst'
  <2>1. /\ at'[x] \in {at[x], "failed"} /\ \A y \in Runs : y # x => at'[y] = at[y]
        /\ at[x] \in {"subscribe", "map"} /\ UNCHANGED <<subscribed, synced, orphans>>
    BY <1>8, Retried DEF ActivityFails
  <2>2. CASE at[x] = "subscribe"
    <3>1. SubscribeAgain(x) /\ created'[x] = NoSub
      BY <1>8, <2>2 DEF ActivityFails, SubscribeAgain, HookTypeOK
    <3>2. \A y \in Runs : y # x => created'[y] = created[y]
      BY <3>1, SubscribingCreates
    <3> QED  BY <2>1, <2>2, <3>1, <3>2 DEF RecordedFirst, Unrecorded
  <2>3. CASE at[x] = "map"
    <3>1. x \in subscribed /\ UNCHANGED created
      BY <1>8, <2>3 DEF ActivityFails, RecordedFirst, Unrecorded, hookVars
    <3> QED  BY <1>5, <2>1, <3>1
  <2> QED  BY <2>1, <2>2, <2>3
<1>9. ASSUME NEW x \in Runs, Crash(x) PROVE RecordedFirst'
  <2>1. /\ at' = [at EXCEPT ![x] = IF x \in subscribed THEN "children" ELSE "subscribe"]
        /\ orphans' = [orphans EXCEPT ![x] = IF at[x] = "children" THEN @ \cup {child[x]} ELSE @]
        /\ UNCHANGED <<subscribed, synced>> /\ at[x] \notin {"idle", "done", "failed"}
    BY <1>9 DEF Crash, Goto, Running
  <2>2. CASE x \in subscribed
    <3>1. UNCHANGED created
      BY <1>0, <1>9, <2>2 DEF Crash, hookVars
    <3> QED  BY <1>5, <2>1, <2>2, <3>1
  <2>3. CASE x \notin subscribed
    <3>1. at[x] = "subscribe" /\ SubscribeAgain(x)
      BY <1>9, <2>1, <2>3 DEF RecordedFirst, Unrecorded, Crash
    <3>2. \A y \in Runs : y # x => created'[y] = created[y]
      BY <3>1, SubscribingCreates
    <3> QED  BY <2>1, <2>3, <3>1, <3>2 DEF RecordedFirst, Unrecorded
  <2> QED  BY <2>2, <2>3
<1>10. CASE PcoStep /\ Outer
  BY <1>1, <1>10 DEF PcoStep, Change, Deactivate, Outer, progressVars, runVars
<1>11. ASSUME NEW d \in deliveries, DeliveryStep(d), Outer PROVE RecordedFirst'
  BY <1>1, <1>11 DEF DeliveryStep, ReceiveDelivery, FiberLost, GetWebhookOrgId, ProcessWebhook,
                     Outer, progressVars, runVars
<1>12. CASE SetupNext /\ UNCHANGED <<hookVars, progressVars, known, joined>>
  BY <1>1, <1>12 DEF hookVars, progressVars
<1>13. CASE UNCHANGED vars
  BY <1>1, <1>13 DEF vars, hookVars, progressVars
<1> QED  BY <1>2, <1>3, <1>4, <1>6, <1>7, <1>8, <1>9, <1>10, <1>11, <1>12, <1>13 DEF Next, RunStep

-----------------------------------------------------------------------------
(* Subscriptions and deliveries. *)

(* The steps that only list, switch on and off, or wait. *)
LEMMA SecretsStay ==
  ASSUME SecretsAccountedFor, UNCHANGED <<kindOf, created>>,
         stored \subseteq stored', orphaned \subseteq orphaned'
  PROVE  SecretsAccountedFor'
BY DEF SecretsAccountedFor

LEMMA DeliveriesStay ==
  ASSUME HookTypeOK, DeliveriesFit,
         \A s \in Subs : kindOf[s] # NoKind => kindOf'[s] = kindOf[s],
         \A c \in Changes : changeOf[c] # NoKind => changeOf'[c] = changeOf[c],
         \A d \in deliveries' : \E e \in deliveries : d.sub = e.sub /\ d.change = e.change
  PROVE  DeliveriesFit'
<1>1. \A d \in deliveries : d.sub \in Subs /\ d.change \in Changes
  BY DEF HookTypeOK, Deliveries
<1>2. NoKind \notin Kinds
  BY WebhookAssumption DEF Kinds, NoKind
<1> QED  BY <1>1, <1>2 DEF DeliveriesFit

LEMMA HookStepsAccount ==
  ASSUME HookInv, SecretsAccountedFor, DeliveriesFit, NEW x \in Runs,
         SubscribeStep(x) \/ SubscribeAgain(x)
  PROVE  SecretsAccountedFor' /\ DeliveriesFit'
<1> USE DEF HookInv, HookTypeOK
<1>1. CASE ListSubscriptions(x) \/ KeepSubscription(x)
  BY <1>1, SecretsStay, DeliveriesStay DEF ListSubscriptions, KeepSubscription, pcoHookVars,
                                           deliveryVars
<1>2. CASE CreateSubscription(x)
  <2>1. PICK s \in Subs :
          /\ kindOf[s] = NoKind /\ kindOf' = [kindOf EXCEPT ![s] = kindAt[x]]
          /\ created' = [created EXCEPT ![x] = s] /\ created[x] = NoSub
          /\ UNCHANGED <<stored, orphaned, deliveryVars>>
    BY <1>2 DEF CreateSubscription, AtKind
  <2>2. SecretsAccountedFor'
    <3>1. \A t \in Subs : NoSub # t
      BY WebhookAssumption DEF Subs, NoSub
    <3> QED  BY <2>1, <3>1 DEF SecretsAccountedFor
  <2>3. DeliveriesFit'
    BY <2>1, DeliveriesStay DEF deliveryVars
  <2> QED  BY <2>2, <2>3
<1>3. CASE StoreSecret(x)
  <2>1. /\ stored' = stored \cup {created[x]} /\ created' = [created EXCEPT ![x] = NoSub]
        /\ UNCHANGED <<pcoHookVars, orphaned, deliveryVars>>
    BY <1>3 DEF StoreSecret, RowsWith
  <2> QED  BY <2>1, DeliveriesStay DEF SecretsAccountedFor, pcoHookVars, deliveryVars
<1>4. CASE SubscribeAgain(x)
  <2>1. /\ created' = [created EXCEPT ![x] = NoSub]
        /\ orphaned' = orphaned \cup ({created[x]} \ {NoSub})
        /\ UNCHANGED <<pcoHookVars, stored, deliveryVars>>
    BY <1>4 DEF SubscribeAgain
  <2>2. \A t \in Subs : NoSub # t
    BY WebhookAssumption DEF Subs, NoSub
  <2> QED  BY <2>1, <2>2, DeliveriesStay DEF SecretsAccountedFor, pcoHookVars, deliveryVars
<1> QED  BY <1>1, <1>2, <1>3, <1>4 DEF SubscribeStep

LEMMA PcoAccounts ==
  ASSUME HookInv, SecretsAccountedFor, DeliveriesFit, PcoStep
  PROVE  SecretsAccountedFor' /\ DeliveriesFit'
<1> USE DEF HookInv, HookTypeOK
<1>1. ASSUME NEW s \in Subs, Deactivate(s) PROVE SecretsAccountedFor' /\ DeliveriesFit'
  BY <1>1, SecretsStay, DeliveriesStay DEF Deactivate, deliveryVars, runVars
<1>2. ASSUME NEW c \in Changes, NEW k \in Kinds, Change(c, k)
      PROVE  SecretsAccountedFor' /\ DeliveriesFit'
  <2>1. /\ changeOf[c] = NoKind /\ changeOf' = [changeOf EXCEPT ![c] = k]
        /\ deliveries' = deliveries \cup
             {[sub |-> s, change |-> c, st |-> "posted"] : s \in OfKind(k) \cap active}
        /\ UNCHANGED <<pcoHookVars, stored, runVars, orphaned>>
    BY <1>2 DEF Change
  <2>2. NoKind \notin Kinds
    BY WebhookAssumption DEF Kinds, NoKind
  <2>3. ASSUME NEW d \in deliveries
        PROVE  kindOf'[d.sub] \in Kinds /\ changeOf'[d.change] = kindOf'[d.sub]
    <3>1. d.change \in Changes /\ d.change # c
      BY <2>1, <2>2 DEF DeliveriesFit, Deliveries
    <3> QED  BY <2>1, <3>1 DEF DeliveriesFit, pcoHookVars
  <2>4. ASSUME NEW d, d \in deliveries', d \notin deliveries
        PROVE  kindOf'[d.sub] \in Kinds /\ changeOf'[d.change] = kindOf'[d.sub]
    <3>1. PICK s \in OfKind(k) : d = [sub |-> s, change |-> c, st |-> "posted"]
      BY <2>1, <2>4
    <3> QED  BY <2>1, <3>1 DEF OfKind, pcoHookVars
  <2> QED  BY <2>1, <2>3, <2>4, SecretsStay DEF DeliveriesFit, pcoHookVars, runVars
<1> QED  BY <1>1, <1>2 DEF PcoStep

LEMMA DeliveryAccounts ==
  ASSUME HookInv, SecretsAccountedFor, DeliveriesFit, NEW d \in deliveries, DeliveryStep(d)
  PROVE  SecretsAccountedFor' /\ DeliveriesFit'
<1>1. UNCHANGED <<kindOf, created, stored, orphaned, changeOf>>
  BY DEF DeliveryStep, ReceiveDelivery, FiberLost, GetWebhookOrgId, ProcessWebhook, pcoHookVars,
         runVars
<1>2. \A st : [d EXCEPT !.st = st].sub = d.sub /\ [d EXCEPT !.st = st].change = d.change
  BY DEF HookInv, HookTypeOK, Deliveries
<1>3. \A e \in deliveries' : e \in deliveries \/ \E st \in {"fiber", "process"} : e = [d EXCEPT !.st = st]
  BY DEF DeliveryStep, ReceiveDelivery, FiberLost, GetWebhookOrgId, ProcessWebhook, Moves, Ends
<1>4. \A e \in deliveries' : \E f \in deliveries : e.sub = f.sub /\ e.change = f.change
  BY <1>2, <1>3
<1> QED  BY <1>1, <1>4, SecretsStay, DeliveriesStay DEF HookInv

LEMMA AccountsKept ==
  ASSUME OInv, SecretsAccountedFor, DeliveriesFit, [Next]_vars
  PROVE  SecretsAccountedFor' /\ DeliveriesFit'
<1> USE DEF OInv, HookInv
<1>1. CASE UNCHANGED <<kindOf, created, stored, orphaned, changeOf, deliveries>>
  BY <1>1, SecretsStay, DeliveriesStay
<1>2. ASSUME NEW x \in Runs, RunStep(x) \/ ChildFails(x) \/ StartSync(x)
      PROVE  SecretsAccountedFor' /\ DeliveriesFit'
  <2>1. CASE Subscribe(x)
    BY <2>1, HookStepsAccount DEF Subscribe
  <2>2. CASE ~ Subscribe(x)
    BY <1>1, <1>2, <2>2 DEF RunStep, SubscribeRecorded, ChildEnds, MapUserToPerson, MapRecorded,
                            ChildFails, StartSync, Syncs, hookVars, pcoHookVars, runVars
  <2> QED  BY <2>1, <2>2
<1>3. ASSUME NEW x \in Runs, ActivityFails(x) \/ Crash(x)
      PROVE  SecretsAccountedFor' /\ DeliveriesFit'
  <2>1. SubscribeAgain(x) \/ UNCHANGED hookVars
    BY <1>3 DEF ActivityFails, Crash
  <2> QED  BY <1>1, <2>1, HookStepsAccount DEF hookVars
<1>4. ASSUME NEW x \in Runs, NEW i \in Entities, OrphanEnds(x, i)
      PROVE  SecretsAccountedFor' /\ DeliveriesFit'
  BY <1>1, <1>4 DEF OrphanEnds, Syncs, pcoHookVars, runVars
<1>5. ASSUME NEW d \in deliveries, DeliveryStep(d) PROVE SecretsAccountedFor' /\ DeliveriesFit'
  BY <1>5, DeliveryAccounts
<1>6. CASE PcoStep
  BY <1>6, PcoAccounts
<1>7. CASE UNCHANGED hookVars
  BY <1>1, <1>7 DEF hookVars
<1> QED  BY <1>2, <1>3, <1>4, <1>5, <1>6, <1>7 DEF Next, vars

-----------------------------------------------------------------------------
(* What makes up for a change goes on to do so. *)

LEMMA MadeUpStays ==
  ASSUME missed \subseteq missed', orphaned \subseteq orphaned', NEW c, NEW k \in Kinds,
         OfKind(k) \subseteq OfKind(k)',
         OfKind(k) = {} => OfKind(k)' = {} \/ ToBeSynced(EntityOf[k])',
         \A d \in deliveries : d.change = c => MadeUp(c, k)',
         ToBeSynced(EntityOf[k]) => ToBeSynced(EntityOf[k])',
         MadeUp(c, k)
  PROVE  MadeUp(c, k)'
<1>1. CASE c \in missed \/ OfKind(k) \cap orphaned # {}
  BY <1>1 DEF MadeUp
<1>2. CASE OfKind(k) = {}
  BY <1>2 DEF MadeUp
<1>3. CASE \E d \in deliveries : d.change = c
  BY <1>3
<1>4. CASE ToBeSynced(EntityOf[k])
  BY <1>4 DEF MadeUp
<1> QED  BY <1>1, <1>2, <1>3, <1>4 DEF MadeUp

(* Only a sync of an entity type ends the wait for one. *)
LEMMA StillToBeSynced ==
  ASSUME UNCHANGED synced, \A x \in Runs : at[x] # "idle" => at'[x] # "idle", NEW i
  PROVE  ToBeSynced(i) => ToBeSynced(i)'
BY DEF ToBeSynced

(* The steps that change neither deliveries nor what is unseen. *)
LEMMA NothingDelivered ==
  ASSUME OInv, MadeUpFor, UNCHANGED <<changeOf, unseen, missed, deliveries>>,
         orphaned \subseteq orphaned',
         \A k \in Kinds : OfKind(k) \subseteq OfKind(k)',
         \A k \in Kinds : OfKind(k) = {} => OfKind(k)' = {} \/ ToBeSynced(EntityOf[k])',
         UNCHANGED synced, \A x \in Runs : at[x] # "idle" => at'[x] # "idle"
  PROVE  MadeUpFor'
<1>1. ASSUME NEW c \in unseen, NEW k \in Kinds, changeOf[c] = k PROVE MadeUp(c, k)'
  <2>1. MadeUp(c, k)
    BY <1>1 DEF MadeUpFor
  <2>2. \A d \in deliveries : d.change = c => MadeUp(c, k)'
    BY DEF MadeUp
  <2>3. ToBeSynced(EntityOf[k]) => ToBeSynced(EntityOf[k])'
    BY StillToBeSynced
  <2> QED  BY <2>1, <2>2, <2>3, MadeUpStays
<1> QED  BY <1>1 DEF MadeUpFor

LEMMA SyncMakesUp ==
  ASSUME OInv, MadeUpFor, NEW x \in Runs, NEW i \in Entities, Syncs(i),
         synced' = [synced EXCEPT ![x] = @ \cup {i}],
         \A y \in Runs : at[y] # "idle" => at'[y] # "idle"
  PROVE  MadeUpFor'
<1>1. /\ unseen' = {c \in unseen : EntityOf[changeOf[c]] # i}
      /\ UNCHANGED <<kindOf, changeOf, deliveries, orphaned, missed>>
  BY DEF Syncs, pcoHookVars
<1>2. ASSUME NEW c \in unseen', NEW k \in Kinds, changeOf[c] = k PROVE MadeUp(c, k)'
  <2>1. MadeUp(c, k) /\ EntityOf[k] # i
    BY <1>1, <1>2 DEF MadeUpFor
  <2>2. OfKind(k)' = OfKind(k)
    BY <1>1 DEF OfKind
  <2>3. ToBeSynced(EntityOf[k]) => ToBeSynced(EntityOf[k])'
    BY <2>1 DEF ToBeSynced, OInv, TypeOK
  <2>4. \A d \in deliveries : d.change = c => MadeUp(c, k)'
    BY <1>1 DEF MadeUp
  <2> QED  BY <1>1, <2>1, <2>2, <2>3, <2>4, MadeUpStays
<1> QED  BY <1>1, <1>2 DEF MadeUpFor

(* An execution that subscribes will sync everything. *)
LEMMA SubscriberSyncs ==
  ASSUME OInv, RecordedFirst, NEW x \in Runs, at[x] = "subscribe", NEW i
  PROVE  ToBeSynced(i)
<1>1. x \notin subscribed
  BY DEF OInv, ProgressInv
<1> QED  BY <1>1 DEF RecordedFirst, Unrecorded, ToBeSynced

LEMMA SubscribeMakesUp ==
  ASSUME SInv, NEW x \in Runs, Subscribe(x)
  PROVE  MadeUpFor'
<1>1. /\ at[x] = "subscribe" /\ SubscribeStep(x) /\ UNCHANGED <<at, synced>>
  BY DEF Subscribe, progressVars
<1>2. UNCHANGED <<changeOf, unseen, missed, deliveries, orphaned>>
  BY <1>1 DEF SubscribeStep, ListSubscriptions, KeepSubscription, CreateSubscription, StoreSecret,
              deliveryVars
<1>3. \A k \in Kinds : OfKind(k) \subseteq OfKind(k)'
  <2>1. \A s \in Subs : kindOf'[s] = kindOf[s] \/ kindOf[s] = NoKind
    BY <1>1 DEF SubscribeStep, ListSubscriptions, KeepSubscription, CreateSubscription, StoreSecret,
                pcoHookVars, SInv, OInv, HookInv, HookTypeOK
  <2>2. NoKind \notin Kinds
    BY WebhookAssumption DEF Kinds, NoKind
  <2> QED  BY <2>1, <2>2 DEF OfKind
<1>4. ASSUME NEW k \in Kinds PROVE ToBeSynced(EntityOf[k])'
  <2>1. ToBeSynced(EntityOf[k])
    BY <1>1, SubscriberSyncs DEF SInv
  <2> QED  BY <1>1, <2>1, StillToBeSynced
<1> QED  BY <1>1, <1>2, <1>3, <1>4, NothingDelivered DEF SInv

LEMMA ChangeMakesUp ==
  ASSUME SInv, NEW c \in Changes, NEW j \in Kinds, Change(c, j), Outer
  PROVE  MadeUpFor'
<1>1. /\ changeOf[c] = NoKind /\ changeOf' = [changeOf EXCEPT ![c] = j] /\ unseen' = unseen \cup {c}
      /\ deliveries' = deliveries \cup
           {[sub |-> s, change |-> c, st |-> "posted"] : s \in OfKind(j) \cap active}
      /\ missed' = IF OfKind(j) # {} /\ OfKind(j) \cap active = {} THEN missed \cup {c} ELSE missed
      /\ UNCHANGED <<kindOf, orphaned, at, synced>>
  BY DEF Change, Outer, progressVars, pcoHookVars
<1>2. \A k \in Kinds : OfKind(k)' = OfKind(k)
  BY <1>1 DEF OfKind
<1>3. ASSUME NEW d \in unseen, d # c, NEW k \in Kinds, changeOf[d] = k PROVE MadeUp(d, k)'
  <2>1. MadeUp(d, k)
    BY <1>3 DEF SInv, MadeUpFor
  <2>2. ToBeSynced(EntityOf[k]) => ToBeSynced(EntityOf[k])'
    BY <1>1, StillToBeSynced
  <2>3. \A e \in deliveries : e.change = d => MadeUp(d, k)'
    BY <1>1 DEF MadeUp
  <2>4. missed \subseteq missed' /\ orphaned \subseteq orphaned'
    BY <1>1
  <2> QED  BY <1>2, <2>1, <2>2, <2>3, <2>4, MadeUpStays
<1>4. MadeUp(c, j)'
  <2>1. CASE OfKind(j) = {}
    BY <1>2, <2>1 DEF MadeUp
  <2>2. CASE OfKind(j) # {} /\ OfKind(j) \cap active = {}
    BY <1>1, <2>2 DEF MadeUp
  <2>3. ASSUME NEW s \in OfKind(j) \cap active PROVE MadeUp(c, j)'
    <3>1. [sub |-> s, change |-> c, st |-> "posted"] \in deliveries'
      BY <1>1
    <3> QED  BY <3>1 DEF MadeUp
  <2> QED  BY <2>1, <2>2, <2>3
<1>5. changeOf'[c] = j /\ \A d \in unseen : d # c => changeOf'[d] = changeOf[d]
  BY <1>1 DEF SInv, OInv, HookInv, HookTypeOK
<1> QED  BY <1>1, <1>3, <1>4, <1>5 DEF MadeUpFor, SInv

LEMMA DeliveryMakesUp ==
  ASSUME SInv, NEW d \in deliveries, DeliveryStep(d), Outer
  PROVE  MadeUpFor'
<1>1. /\ UNCHANGED <<kindOf, changeOf, stored, created, orphaned, at, synced>>
      /\ unseen' \subseteq unseen /\ missed \subseteq missed'
  BY DEF DeliveryStep, ReceiveDelivery, FiberLost, GetWebhookOrgId, ProcessWebhook, Outer,
         progressVars, pcoHookVars, runVars
<1>2. d \in Deliveries /\ \A st : [d EXCEPT !.st = st].change = d.change
  BY DEF SInv, OInv, HookInv, HookTypeOK, Deliveries
<1>3. \/ \E st \in {"fiber", "process"} : Moves(d, st)
      \/ deliveries \subseteq deliveries'
      \/ Ends(d) /\ d.change \in missed'
      \/ Ends(d) /\ d.change \notin unseen'
      \/ Ends(d) /\ d.sub \notin stored
  BY DEF DeliveryStep, ReceiveDelivery, FiberLost, GetWebhookOrgId, ProcessWebhook, SecretKnown
<1>4. ASSUME NEW c \in unseen', NEW k \in Kinds, changeOf[c] = k PROVE MadeUp(c, k)'
  <2>1. MadeUp(c, k) /\ OfKind(k)' = OfKind(k)
    BY <1>1, <1>4 DEF SInv, MadeUpFor, OfKind
  <2>2. ToBeSynced(EntityOf[k]) => ToBeSynced(EntityOf[k])'
    BY <1>1, StillToBeSynced
  <2>3. ASSUME NEW e \in deliveries, e.change = c PROVE MadeUp(c, k)'
    <3>1. CASE e \in deliveries'
      BY <2>3, <3>1 DEF MadeUp
    <3>2. CASE e = d /\ \E st \in {"fiber", "process"} : Moves(d, st)
      <4>1. PICK st \in {"fiber", "process"} : [d EXCEPT !.st = st] \in deliveries'
        BY <3>2 DEF Moves
      <4> QED  BY <1>2, <2>3, <3>2, <4>1 DEF MadeUp
    <3>3. CASE e = d /\ d.change \in missed'
      BY <2>3, <3>3 DEF MadeUp
    <3>4. CASE e = d /\ d.sub \notin stored
      <4>1. d.sub \in Subs /\ kindOf[d.sub] = k /\ kindOf[d.sub] # NoKind
        BY <1>2, <1>4, <2>3, <3>4, WebhookAssumption DEF SInv, DeliveriesFit, Deliveries, Kinds, NoKind
      <4>2. CASE d.sub \in orphaned
        <5>1. d.sub \in OfKind(k)' \cap orphaned'
          BY <1>1, <4>1, <4>2 DEF OfKind
        <5> QED  BY <5>1 DEF MadeUp
      <4>3. ASSUME NEW x \in Runs, created[x] = d.sub PROVE MadeUp(c, k)'
        <5>1. created[x] # NoSub
          BY <4>1, <4>3, WebhookAssumption DEF Subs, NoSub
        <5>2. at[x] = "subscribe"
          BY <5>1 DEF SInv, RecordedFirst
        <5>3. ToBeSynced(EntityOf[k])
          BY <5>2, SubscriberSyncs DEF SInv
        <5> QED  BY <2>2, <5>3 DEF MadeUp
      <4> QED  BY <3>4, <4>1, <4>2, <4>3 DEF SInv, SecretsAccountedFor
    <3> QED  BY <1>3, <1>4, <2>3, <3>1, <3>2, <3>3, <3>4 DEF Ends, Moves
  <2> QED  BY <1>1, <2>1, <2>2, <2>3, MadeUpStays
<1> QED  BY <1>1, <1>4 DEF MadeUpFor, SInv

LEMMA MadeUpKept == SInv /\ [Next]_vars => MadeUpFor'
<1> SUFFICES ASSUME SInv, [Next]_vars PROVE MadeUpFor'
  OBVIOUS
<1> USE DEF SInv
<1>1. CASE /\ UNCHANGED <<kindOf, changeOf, unseen, missed, deliveries, synced>>
           /\ orphaned \subseteq orphaned' /\ \A x \in Runs : at[x] # "idle" => at'[x] # "idle"
  BY <1>1, NothingDelivered DEF OfKind
<1>2. ASSUME NEW x \in Runs, StartSync(x) \/ ChildFails(x) \/ SubscribeRecorded(x) \/ MapRecorded(x)
      PROVE  MadeUpFor'
  BY <1>1, <1>2 DEF StartSync, ChildFails, SubscribeRecorded, MapRecorded, Goto, hookVars,
                    OInv, TypeOK
<1>3. ASSUME NEW x \in Runs, ActivityFails(x) \/ Crash(x) \/ MapUserToPerson(x) PROVE MadeUpFor'
  <2>1. /\ UNCHANGED synced
        /\ (SubscribeAgain(x) \/ UNCHANGED hookVars)
        /\ at[x] # "idle"
    BY <1>3 DEF ActivityFails, Crash, MapUserToPerson, Running
  <2>2. UNCHANGED <<kindOf, changeOf, unseen, missed, deliveries>> /\ orphaned \subseteq orphaned'
    BY <2>1 DEF SubscribeAgain, pcoHookVars, deliveryVars, hookVars
  <2>3. \A y \in Runs : at[y] # "idle" => at'[y] # "idle"
    <3>1. CASE RetryActivity(x)
      BY <2>1, <3>1, Retried DEF OInv
    <3>2. CASE ~ RetryActivity(x)
      BY <1>3, <3>2 DEF ActivityFails, Crash, MapUserToPerson, Goto, OInv, TypeOK
    <3> QED  BY <3>1, <3>2
  <2>4. UNCHANGED synced
    BY <1>3 DEF ActivityFails, Crash, MapUserToPerson
  <2> QED  BY <1>1, <2>2, <2>3, <2>4
<1>4. ASSUME NEW x \in Runs, ChildEnds(x) PROVE MadeUpFor'
  <2>1. /\ Syncs(child[x]) /\ synced' = [synced EXCEPT ![x] = @ \cup {child[x]}]
        /\ child[x] \in Entities /\ \A y \in Runs : at[y] # "idle" => at'[y] # "idle"
    BY <1>4 DEF ChildEnds, Goto, OInv, TypeOK
  <2> QED  BY <2>1, SyncMakesUp
<1>5. ASSUME NEW x \in Runs, NEW i \in Entities, OrphanEnds(x, i) PROVE MadeUpFor'
  BY <1>5, SyncMakesUp DEF OrphanEnds
<1>6. ASSUME NEW x \in Runs, Subscribe(x) PROVE MadeUpFor'
  BY <1>6, SubscribeMakesUp
<1>7. ASSUME NEW c \in Changes, NEW k \in Kinds, Change(c, k), Outer PROVE MadeUpFor'
  BY <1>7, ChangeMakesUp
<1>8. ASSUME NEW s \in Subs, Deactivate(s), Outer PROVE MadeUpFor'
  BY <1>1, <1>8 DEF Deactivate, Outer, progressVars, deliveryVars
<1>9. ASSUME NEW d \in deliveries, DeliveryStep(d), Outer PROVE MadeUpFor'
  BY <1>9, DeliveryMakesUp
<1>10. CASE UNCHANGED <<hookVars, progressVars>>
  BY <1>1, <1>10 DEF hookVars, progressVars
<1> QED  BY <1>2, <1>3, <1>4, <1>5, <1>6, <1>7, <1>8, <1>9, <1>10 DEF Next, RunStep, PcoStep, vars

LEMMA SInvInductive == SInv /\ [Next]_vars => SInv'
BY OInvInductive, RecordedFirstKept, AccountsKept, MadeUpKept DEF SInv

LEMMA InitSInv == Init => SInv
<1> SUFFICES ASSUME Init PROVE SInv
  OBVIOUS
<1>1. RecordedFirst /\ SecretsAccountedFor /\ DeliveriesFit /\ MadeUpFor
  BY DEF Init, HookInit, RecordedFirst, Unrecorded, SecretsAccountedFor, DeliveriesFit, MadeUpFor
<1> QED  BY <1>1, InitOInv DEF SInv

(* "Subscribe, then sync": when every execution that was started has gone  *)
(* through its syncs, one has ended and no delivery is under way, a change *)
(* of PCO's records that is not in the database was lost by a failure.     *)
THEOREM ChangesAreNotMissed == Spec => []NoChangeMissed
<1>1. SInv => NoChangeMissed
  <2>1. SUFFICES ASSUME SInv, deliveries = {}, AllSynced, NEW x \in Runs, at[x] = "done",
                        NEW c \in unseen
                 PROVE  c \in missed \/ OfKind(changeOf[c]) \cap orphaned # {}
    BY DEF NoChangeMissed
  <2>2. PICK k \in Kinds : changeOf[c] = k
    BY <2>1 DEF SInv, MadeUpFor
  <2>3. MadeUp(c, k)
    BY <2>1, <2>2 DEF SInv, MadeUpFor
  <2>4. OfKind(k) # {}
    <3>1. x \in subscribed
      BY <2>1 DEF SInv, RecordedFirst, Unrecorded
    <3>2. kindAt[x] = NumKinds + 1
      BY <2>1, <3>1 DEF SInv, OInv, ProgressInv
    <3>3. kindAt[x] # 0 /\ k < kindAt[x]
      BY <3>2, WebhookAssumption DEF Kinds
    <3> QED  BY <2>1, <3>3 DEF SInv, OInv, HookInv, RunInv, Covered
  <2>5. ~ ToBeSynced(EntityOf[k])
    <3>1. EntityOf[k] \in Entities
      BY OrgSyncAssumption
    <3> QED  BY <2>1, <3>1 DEF AllSynced, ToBeSynced
  <2> QED  BY <2>1, <2>2, <2>3, <2>4, <2>5 DEF MadeUp
<1> QED  BY <1>1, InitSInv, SInvInductive, PTL DEF Spec
=============================================================================
