------------------------------ MODULE OrgSync ------------------------------
(***************************************************************************)
(* The durable workflows of one organisation: ExternalSyncWorkflow, which  *)
(* subscribes to webhooks (Webhooks), then runs one child workflow per     *)
(* entity type, one after the other, and at last joins its user to the     *)
(* person with the same e-mail address; and CreateOrgWorkflow before it    *)
(* (OrgSetup).  The engine is external: it records the result of a         *)
(* finished activity, and after a restart runs an execution again from the *)
(* top, skipping the activities it has recorded.  What a child does to     *)
(* the tables is RecordSync's.                                             *)
(***************************************************************************)
EXTENDS Webhooks, OrgSetup

CONSTANTS
  NumEntities,   \* entity types with a list endpoint, in the manifest's order
  EntityOf,      \* the entity type the events of a kind are about
  PairsOf,       \* the relationships the sync of an entity type finds
  PersonEntity,  \* the entity type whose sync brings the e-mail addresses
  UserOf,        \* userId of each execution, NoUser for an administrator's
  NoUser,
  PcoUsers,      \* users with a person of their e-mail address in PCO
  FailureProne,  \* executions whose activities may fail or be interrupted
  MaxRetries,    \* Activity.retry({ times })
  MaxCrashes     \* bound: restarts of the runners

Entities == 1 .. NumEntities
ASSUME OrgSyncAssumption ==
  /\ NumEntities \in Nat \ {0} /\ PersonEntity \in Entities
  /\ EntityOf \in [Kinds -> Entities]
  /\ PairsOf \in [Entities -> SUBSET (EntityTypes \X EntityTypes)]
  /\ FailureProne \subseteq Runs
  /\ MaxRetries \in Nat /\ MaxCrashes \in Nat

VARIABLES
  at,         \* where each execution is
  subscribed, \* executions whose SubscribeToWebhooks is recorded
  child,      \* the entity type whose child workflow an execution waits for
  attempt,    \* retries of the current activity
  orphans,    \* children still running that their execution no longer knows
  synced,     \* history: the entity types each execution has synced
  known,      \* users whose e-mail address is in the database, with a person
  joined,     \* users with a user-is-person edge
  crashes

progressVars == <<at, subscribed, child, attempt, orphans, synced, crashes>>
vars == <<hookVars, setupVars, registry, progressVars, known, joined>>

Places == {"idle", "subscribe", "children", "map", "mapped", "done", "failed"}

TypeOK ==
  /\ HookTypeOK /\ SetupTypeOK
  /\ at \in [Runs -> Places] /\ subscribed \subseteq Runs
  /\ child \in [Runs -> Entities]
  /\ attempt \in [Runs -> 0 .. MaxRetries]
  /\ orphans \in [Runs -> SUBSET Entities] /\ synced \in [Runs -> SUBSET Entities]
  /\ known \subseteq PcoUsers /\ joined \subseteq known
  /\ crashes \in 0 .. MaxCrashes

Init ==
  /\ HookInit /\ SetupInit
  /\ at = [x \in Runs |-> "idle"] /\ subscribed = {}
  /\ child = [x \in Runs |-> 1]
  /\ attempt = [x \in Runs |-> 0]
  /\ orphans = [x \in Runs |-> {}] /\ synced = [x \in Runs |-> {}]
  /\ known = {} /\ joined = {} /\ crashes = 0

Goto(x, place) == at' = [at EXCEPT ![x] = place]
FreshAttempt(x) == attempt' = [attempt EXCEPT ![x] = 0]
Running(x) == at[x] \notin {"idle", "done", "failed"}

-----------------------------------------------------------------------------
(* adapterConnect, adapterReSync, orgAdapterReSync: a new execution each    *)
(* time, the idempotency key has the time in it.  The creation of an        *)
(* organisation waits for its workflow (bound: which succeeded).            *)
StartSync(x) ==
  /\ at[x] = "idle" /\ setup = "ready"
  /\ Goto(x, "subscribe")
  /\ UNCHANGED <<hookVars, setupVars, registry, subscribed, child, attempt, orphans, synced,
                 known, joined, crashes>>

(* SubscribeToWebhooks: a statement or a request of it, or its end. *)
Subscribe(x) ==
  /\ at[x] = "subscribe" /\ SubscribeStep(x)
  /\ UNCHANGED <<setupVars, registry, progressVars, known, joined>>

SubscribeRecorded(x) ==
  /\ at[x] = "subscribe" /\ Subscribed(x)
  /\ subscribed' = subscribed \cup {x}
  /\ Goto(x, "children") /\ FreshAttempt(x)
  /\ UNCHANGED <<hookVars, setupVars, registry, child, orphans, synced, known, joined, crashes>>

(* What a run of a child leaves: every record PCO holds is in the tables,  *)
(* and the relationships found are in the registry.                        *)
Syncs(i) ==
  /\ unseen' = {c \in unseen : EntityOf[changeOf[c]] # i}
  /\ known' = IF i = PersonEntity THEN PcoUsers ELSE known
  /\ UpdateEntityRelationships(PairsOf[i])
  /\ UNCHANGED <<pcoHookVars, changeOf, deliveries, stored, runVars, orphaned, deactivated,
                 missed, setupVars, joined>>

(* The child ends and the next one starts: `concurrency: 1`.                *)
ChildEnds(x) ==
  /\ at[x] = "children"
  /\ Syncs(child[x])
  /\ synced' = [synced EXCEPT ![x] = @ \cup {child[x]}]
  /\ IF child[x] < NumEntities
     THEN child' = [child EXCEPT ![x] = @ + 1] /\ UNCHANGED at
     ELSE Goto(x, "map") /\ UNCHANGED child
  /\ UNCHANGED <<subscribed, attempt, orphans, crashes>>

OrphanEnds(x, i) ==
  /\ i \in orphans[x]
  /\ Syncs(i)
  /\ orphans' = [orphans EXCEPT ![x] = @ \ {i}]
  /\ synced' = [synced EXCEPT ![x] = @ \cup {i}]
  /\ UNCHANGED <<at, subscribed, child, attempt, crashes>>

(* A child fails when its own activity's retries are used up, and its      *)
(* execution with it.                                                      *)
ChildFails(x) ==
  /\ at[x] = "children" /\ x \in FailureProne
  /\ Goto(x, "failed")
  /\ UNCHANGED <<hookVars, setupVars, registry, subscribed, child, attempt, orphans, synced,
                 known, joined, crashes>>

-----------------------------------------------------------------------------
(* An activity that fails is tried again; then the execution fails.        *)
(* Broken variants: the retries are not counted; one too many.             *)
RetryForever(x) == UNCHANGED <<at, attempt>>
RetryOnceMore(x) ==
  IF attempt[x] <= MaxRetries
  THEN attempt' = [attempt EXCEPT ![x] = @ + 1] /\ UNCHANGED at
  ELSE Goto(x, "failed") /\ FreshAttempt(x)
RetryActivity(x) ==
  IF attempt[x] < MaxRetries
  THEN attempt' = [attempt EXCEPT ![x] = @ + 1] /\ UNCHANGED at
  ELSE Goto(x, "failed") /\ FreshAttempt(x)

ActivityFails(x) ==
  /\ at[x] \in {"subscribe", "map"} /\ x \in FailureProne
  /\ RetryActivity(x)
  /\ IF at[x] = "subscribe" THEN SubscribeAgain(x) ELSE UNCHANGED hookVars
  /\ UNCHANGED <<setupVars, registry, subscribed, child, orphans, synced, known, joined, crashes>>

(* mapUserToPerson: the person with the user's address, if a sync has      *)
(* brought one; the edge is inserted without ON CONFLICT.  Broken variant: *)
(* the person is looked for before the children run.                       *)
FoundBefore(x) == UserOf[x] \in known /\ synced[x] = {}
PersonFound(x) == UserOf[x] \in known
InsertRefused(x) == PersonFound(x) /\ UserOf[x] \in joined

MapUserToPerson(x) ==
  /\ at[x] = "map"
  /\ \/ /\ InsertRefused(x)
        /\ RetryActivity(x) /\ UNCHANGED joined
     \/ /\ ~ InsertRefused(x)
        /\ joined' = IF PersonFound(x) THEN joined \cup {UserOf[x]} ELSE joined
        /\ Goto(x, "mapped") /\ UNCHANGED attempt
  /\ UNCHANGED <<hookVars, setupVars, registry, subscribed, child, orphans, synced, known, crashes>>

MapRecorded(x) ==
  /\ at[x] = "mapped"
  /\ Goto(x, "done") /\ FreshAttempt(x)
  /\ UNCHANGED <<hookVars, setupVars, registry, subscribed, child, orphans, synced, known,
                 joined, crashes>>

-----------------------------------------------------------------------------
(* The runner stops and the execution is resumed: unrecorded activities run *)
(* again.  A child is executed with the current time in its idempotency    *)
(* key, so that the resumed execution starts each of its children anew;    *)
(* the one that was running goes on by itself.                             *)

Crash(x) ==
  /\ Running(x) /\ x \in FailureProne /\ crashes < MaxCrashes
  /\ crashes' = crashes + 1
  /\ Goto(x, IF x \in subscribed THEN "children" ELSE "subscribe")
  /\ child' = [child EXCEPT ![x] = 1]
  /\ orphans' = [orphans EXCEPT ![x] = IF at[x] = "children" THEN @ \cup {child[x]} ELSE @]
  /\ IF at[x] = "subscribe" THEN SubscribeAgain(x) ELSE UNCHANGED hookVars
  /\ UNCHANGED <<setupVars, registry, subscribed, attempt, synced, known, joined>>

-----------------------------------------------------------------------------
Outer == UNCHANGED <<setupVars, registry, progressVars, known, joined>>

RunStep(x) ==
  \/ Subscribe(x) \/ SubscribeRecorded(x) \/ ChildEnds(x)
  \/ MapUserToPerson(x) \/ MapRecorded(x)

Next ==
  \/ SetupNext /\ UNCHANGED <<hookVars, progressVars, known, joined>>
  \/ \E x \in Runs : \/ StartSync(x) \/ RunStep(x) \/ ChildFails(x) \/ ActivityFails(x)
                     \/ Crash(x)
                     \/ \E i \in Entities : OrphanEnds(x, i)
  \/ PcoStep /\ Outer
  \/ \E d \in deliveries : DeliveryStep(d) /\ Outer

Spec == Init /\ [][Next]_vars
Fairness == \A x \in Runs : WF_vars(RunStep(x))
FairSpec == Spec /\ Fairness
-----------------------------------------------------------------------------
(* Properties *)

(* Once an execution has recorded its subscriptions, PCO has an active one *)
(* of every kind, unless PCO made it inactive after they were listed:      *)
(* whatever other executions, failures and replays did in between.         *)
EveryKindActive ==
  \A x \in subscribed, k \in Kinds :
    \E s \in OfKind(k) : s \in active \/ s \in deactivated[x]

(* "Subscribe, then sync": when every execution that was started has gone   *)
(* through its syncs and nothing is under way, every change made in PCO     *)
(* before, during or after is in the database, or its webhook was lost by   *)
(* a failure: a server that stopped, a secret that was not stored, a        *)
(* subscription PCO made inactive.  An event that came before its secret    *)
(* was stored is made up for by the sync that follows: of the execution     *)
(* that created the subscription, which may not be the one that is done.    *)
AllSynced ==
  \A x \in Runs : at[x] # "idle" => ~ Running(x) /\ synced[x] = Entities /\ orphans[x] = {}
NoChangeMissed ==
  deliveries = {} /\ AllSynced /\ (\E x \in Runs : at[x] = "done") =>
    \A c \in unseen : c \in missed \/ OfKind(changeOf[c]) \cap orphaned # {}

(* An execution that succeeds has joined its user to the person PCO knows  *)
(* by the same address; one that nothing disturbs fails only because an    *)
(* earlier one, or a replay of it, has joined them already.                *)
UserEndsUpJoined ==
  /\ \A x \in Runs : at[x] = "done" /\ UserOf[x] \in PcoUsers => UserOf[x] \in joined
  /\ \A x \in Runs \ FailureProne : at[x] = "failed" => UserOf[x] \in joined

(* The registry of relationships is symmetric, and keeps what the setup    *)
(* and the syncs have found, in whatever order they wrote it.              *)
RegistryComplete ==
  /\ \A t, u \in EntityTypes : u \in registry[t] => t \in registry[u]
  /\ \A p \in SeededPairs : setup = "ready" => p[2] \in registry[p[1]]
  /\ \A x \in Runs : \A i \in synced[x] : \A p \in PairsOf[i] : p[2] \in registry[p[1]]

(* Every execution ends, although a second one for the same user cannot    *)
(* insert its edge.                                                        *)
ExecutionsEnd == \A x \in Runs : Running(x) ~> ~ Running(x)
=============================================================================
