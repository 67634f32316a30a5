------------------------------ MODULE Webhooks ------------------------------
(***************************************************************************)
(* Webhook subscriptions and deliveries of one organisation.  The activity *)
(* SubscribeToWebhooks lists PCO's subscriptions and then creates, updates *)
(* or skips one per kind of webhook; a created one comes with a secret     *)
(* that is stored afterwards.  A delivery is signed with the secret of its *)
(* subscription, is answered at once and handed to a background fiber that *)
(* starts ExternalWebhookWorkflow; its first activity looks for the secret.*)
(***************************************************************************)
EXTENDS Naturals, FiniteSets

CONSTANTS
  NumKinds,     \* kinds of webhooks, in the order of the manifest
  NumSubs,      \* bound: subscriptions PCO creates
  Changes,      \* changes of PCO's records that emit an event
  Runs,         \* runs of the activity SubscribeToWebhooks
  LosesFibers   \* whether the web server may stop with fibers in the background

Kinds == 1 .. NumKinds
Subs == 1 .. NumSubs
NoSub == 0
NoKind == 0

ASSUME WebhookAssumption ==
  /\ NumKinds \in Nat \ {0} /\ NumSubs \in Nat \ {0} /\ LosesFibers \in BOOLEAN

Deliveries == [sub : Subs, change : Changes, st : {"posted", "fiber", "process"}]

VARIABLES
  kindOf,      \* PCO: the kind of each subscription, NoKind before it exists
  active,      \* PCO: the subscriptions that are active
  changeOf,    \* PCO: the kind of event each change caused, NoKind before
  deliveries,  \* deliveries under way
  stored,      \* table adapterWebhooks: the subscriptions whose secret it has
  status,      \* webhookStatus of each run: the subscription found, and if active
  kindAt,      \* the kind each run is at; 0 before it has listed
  created,     \* the subscription a run has just created
  unseen,      \* changes not yet in the database
  orphaned,    \* history: subscriptions whose secret was lost by a failure
  deactivated, \* history: those PCO made inactive after a run listed them
  missed       \* history: changes whose delivery was lost by a failure

pcoHookVars == <<kindOf, active>>
runVars == <<status, kindAt, created>>
deliveryVars == <<changeOf, deliveries, unseen, missed>>
hookVars == <<kindOf, active, changeOf, deliveries, stored, status, kindAt, created,
              unseen, orphaned, deactivated, missed>>

NoStatus == [k \in Kinds |-> [sub |-> NoSub, active |-> FALSE]]

HookTypeOK ==
  /\ kindOf \in [Subs -> Kinds \cup {NoKind}]
  /\ active \subseteq Subs /\ stored \subseteq Subs
  /\ changeOf \in [Changes -> Kinds \cup {NoKind}]
  /\ deliveries \subseteq Deliveries
  /\ status \in [Runs -> [Kinds -> [sub : Subs \cup {NoSub}, active : BOOLEAN]]]
  /\ kindAt \in [Runs -> 0 .. NumKinds + 1]
  /\ created \in [Runs -> Subs \cup {NoSub}]
  /\ unseen \subseteq Changes /\ missed \subseteq Changes
  /\ orphaned \subseteq Subs
  /\ deactivated \in [Runs -> SUBSET Subs]

HookInit ==
  /\ kindOf = [s \in Subs |-> NoKind] /\ active = {} /\ stored = {}
  /\ changeOf = [c \in Changes |-> NoKind]
  /\ deliveries = {} /\ unseen = {} /\ missed = {} /\ orphaned = {}
  /\ status = [x \in Runs |-> NoStatus]
  /\ kindAt = [x \in Runs |-> 0]
  /\ created = [x \in Runs |-> NoSub]
  /\ deactivated = [x \in Runs |-> {}]

-----------------------------------------------------------------------------
(* subscribeToWebhooks *)

OfKind(k) == {s \in Subs : kindOf[s] = k}
FirstOf(S) == CHOOSE s \in S : \A t \in S : s <= t

(* The first subscription with the kind's name and this server's address.  *)
(* Broken variant: whether it is active is not looked at.                  *)
FoundMeansActive(k) ==
  IF OfKind(k) = {} THEN [sub |-> NoSub, active |-> FALSE]
  ELSE [sub |-> FirstOf(OfKind(k)), active |-> TRUE]
StatusOf(k) ==
  IF OfKind(k) = {} THEN [sub |-> NoSub, active |-> FALSE]
  ELSE [sub |-> FirstOf(OfKind(k)), active |-> FirstOf(OfKind(k)) \in active]

(* The pages of the list are taken as one: an organisation has few.        *)
ListSubscriptions(x) ==
  /\ kindAt[x] = 0
  /\ status' = [status EXCEPT ![x] = [k \in Kinds |-> StatusOf(k)]]
  /\ kindAt' = [kindAt EXCEPT ![x] = 1]
  /\ deactivated' = [deactivated EXCEPT ![x] = {}]
  /\ UNCHANGED <<pcoHookVars, stored, created, orphaned, deliveryVars>>

Status(x) == status[x][kindAt[x]]
AtKind(x) == kindAt[x] \in Kinds /\ created[x] = NoSub
NextKind(x) ==
  /\ kindAt' = [kindAt EXCEPT ![x] = @ + 1]
  /\ status' = [status EXCEPT ![x] = [@ EXCEPT ![kindAt[x]] = NoStatus[1]]]

(* 'inactive': made active; 'active': nothing to do. *)
KeepSubscription(x) ==
  /\ AtKind(x) /\ Status(x).sub # NoSub
  /\ active' = IF Status(x).active THEN active ELSE active \cup {Status(x).sub}
  /\ NextKind(x)
  /\ UNCHANGED <<kindOf, stored, created, orphaned, deactivated, deliveryVars>>

(* 'unset': created in PCO, then stored. *)
CreateSubscription(x) ==
  /\ AtKind(x) /\ Status(x).sub = NoSub
  /\ \E s \in Subs :
       /\ kindOf[s] = NoKind /\ \A t \in Subs : t < s => kindOf[t] # NoKind
       /\ kindOf' = [kindOf EXCEPT ![s] = kindAt[x]]
       /\ active' = active \cup {s}
       /\ created' = [created EXCEPT ![x] = s]
  /\ UNCHANGED <<stored, status, kindAt, orphaned, deactivated, deliveryVars>>

(* Each subscription has a row of its own, also two of one kind.            *)
RowsWith(s) == stored \cup {s}

StoreSecret(x) ==
  /\ created[x] # NoSub
  /\ stored' = RowsWith(created[x])
  /\ created' = [created EXCEPT ![x] = NoSub]
  /\ NextKind(x)
  /\ UNCHANGED <<pcoHookVars, orphaned, deactivated, deliveryVars>>

Subscribed(x) == kindAt[x] = NumKinds + 1

SubscribeStep(x) ==
  ListSubscriptions(x) \/ KeepSubscription(x) \/ CreateSubscription(x) \/ StoreSecret(x)

(* A run that fails or stops begins again with the list. *)
SubscribeAgain(x) ==
  /\ kindAt' = [kindAt EXCEPT ![x] = 0]
  /\ status' = [status EXCEPT ![x] = NoStatus]
  /\ created' = [created EXCEPT ![x] = NoSub]
  /\ orphaned' = orphaned \cup ({created[x]} \ {NoSub})
  /\ UNCHANGED <<pcoHookVars, stored, deactivated, deliveryVars>>

-----------------------------------------------------------------------------
(* PCO: a record changes, and every active subscription of the kind gets a *)
(* delivery; PCO makes subscriptions inactive (bound: one per list).       *)

Change(c, k) ==
  /\ changeOf[c] = NoKind
  /\ changeOf' = [changeOf EXCEPT ![c] = k]
  /\ unseen' = unseen \cup {c}
  /\ deliveries' = deliveries \cup
       {[sub |-> s, change |-> c, st |-> "posted"] : s \in OfKind(k) \cap active}
  /\ missed' = IF OfKind(k) # {} /\ OfKind(k) \cap active = {}
               THEN missed \cup {c} ELSE missed
  /\ UNCHANGED <<pcoHookVars, stored, runVars, orphaned, deactivated>>

Deactivate(s) ==
  /\ s \in active /\ \A x \in Runs : deactivated[x] = {}
  /\ active' = active \ {s}
  /\ deactivated' = [x \in Runs |-> IF kindAt[x] = 0 THEN {} ELSE deactivated[x] \cup {s}]
  /\ UNCHANGED <<kindOf, stored, runVars, orphaned, deliveryVars>>

-----------------------------------------------------------------------------
(* A delivery *)

Moves(d, st) == deliveries' = (deliveries \ {d}) \cup {[d EXCEPT !.st = st]}
Ends(d) == deliveries' = deliveries \ {d}

(* The handler forks a daemon and answers; when PCO does not get the       *)
(* answer, it posts the delivery again (bound: no third one under way).    *)
ReceiveDelivery(d) ==
  /\ d.st = "posted"
  /\ \/ Moves(d, "fiber")
     \/ deliveries = {d} /\ deliveries' = deliveries \cup {[d EXCEPT !.st = "fiber"]}
  /\ UNCHANGED <<pcoHookVars, stored, runVars, orphaned, deactivated, changeOf, unseen, missed>>

(* The server stops before the workflow has been started. *)
FiberLost(d) ==
  /\ LosesFibers /\ d.st = "fiber" /\ Ends(d)
  /\ missed' = missed \cup {d.change}
  /\ UNCHANGED <<pcoHookVars, stored, runVars, orphaned, deactivated, changeOf, unseen>>

(* The workflow is started and its first activity, getWebhookOrgId, looks  *)
(* for a row whose secret gives the delivery's signature; when none does   *)
(* the workflow fails, after its retries.  Broken variant: only the first  *)
(* row is tried.                                                           *)
IsFirstRow(s) == stored # {} /\ s = FirstOf(stored)
SecretKnown(s) == s \in stored

GetWebhookOrgId(d) ==
  /\ d.st = "fiber"
  /\ IF SecretKnown(d.sub) THEN Moves(d, "process") ELSE Ends(d)
  /\ UNCHANGED <<pcoHookVars, stored, runVars, orphaned, deactivated, changeOf, unseen, missed>>

(* ProcessExternalWebhook: the record is fetched and written (RecordSync). *)
ProcessWebhook(d) ==
  /\ d.st = "process" /\ Ends(d)
  /\ unseen' = unseen \ {d.change}
  /\ UNCHANGED <<pcoHookVars, stored, runVars, orphaned, deactivated, changeOf, missed>>

DeliveryStep(d) ==
  ReceiveDelivery(d) \/ FiberLost(d) \/ GetWebhookOrgId(d) \/ ProcessWebhook(d)

PcoStep == \/ \E c \in Changes, k \in Kinds : Change(c, k)
           \/ \E s \in Subs : Deactivate(s)
=============================================================================
