----------------------------- MODULE RecordSync -----------------------------
(***************************************************************************)
(* How the records of one Planning Center (PCO) entity type reach the      *)
(* OpenFaith database and how local mutations reach PCO: the externalLinks *)
(* table, the entity table, the full sync of an entity type, the           *)
(* processing of webhook events and the push of local mutations.  Every    *)
(* SQL statement and every PCO request is one step; between two steps of   *)
(* an activity any other activity may run, and an activity may fail and be *)
(* retried from its beginning.                                             *)
(***************************************************************************)
EXTENDS Naturals, FiniteSets

CONSTANTS
  ExternalIds,   \* ids PCO may give to records, in listing order
  LocalIds,      \* ids of entities first created in OpenFaith
  MintedId,      \* the id getEntityId mints when an activity inserts the link
                 \* of an external id: MintedId[externalId][activity]
  None,          \* no entity id
  MaxVersion,    \* bound: updates of one PCO record
  PageSize,      \* records per page of a list response
  Syncers,       \* runs of SyncExternalEntityData for the entity type
  Hooks,         \* runs of ProcessExternalWebhook
  Lanes,         \* mutations handled by one run of the push activity
  FailureProne,  \* the activities that may fail half-way
  MaxRetries,    \* Activity.retry({ times })
  Serial,        \* scenario bound: one activity at a time
  InitialIds     \* records PCO holds before the first sync

Workers == Syncers \cup Hooks \cup Lanes
EntityIds == LocalIds \cup {MintedId[x][w] : x \in ExternalIds, w \in Workers}

ASSUME IdAssumption ==
  /\ ExternalIds \subseteq Nat \ {0}
  /\ IsFiniteSet(ExternalIds)
  /\ InitialIds \subseteq ExternalIds
  /\ MintedId \in [ExternalIds -> [Workers -> EntityIds]]
  /\ \A x, y \in ExternalIds : \A v, w \in Workers :
       /\ MintedId[x][v] = MintedId[y][w] => x = y
       /\ MintedId[x][v] \notin LocalIds
  /\ None \notin EntityIds
ASSUME BoundAssumption ==
  /\ MaxVersion \in Nat \ {0}
  /\ PageSize \in Nat \ {0}
  /\ MaxRetries \in Nat
  /\ Serial \in BOOLEAN
ASSUME WorkerAssumption ==
  /\ Syncers \cap Hooks = {} /\ Syncers \cap Lanes = {} /\ Hooks \cap Lanes = {}
  /\ FailureProne \subseteq Workers

Versions == 0 .. MaxVersion     \* the order type of PCO's updated_at; 0 is none
Links == [st : {"none", "live", "deleted"},
          entityId : EntityIds \cup {None}, updatedAt : Versions]
Rows == [st : {"none", "live", "deleted"}, of : ExternalIds \cup {0}, ver : Versions]
Events == [op : {"upsert", "delete"}, id : ExternalIds, ver : Versions]
Ops == [kind : {"none", "insert", "update", "delete"}, id : EntityIds \cup {None}]
Steps == {"idle", "list", "get", "links", "rows", "detect", "lookup", "erase",
          "find", "create", "update", "remove", "done"}

NoLink == [st |-> "none", entityId |-> None, updatedAt |-> 0]
NoRow == [st |-> "none", of |-> 0, ver |-> 0]
NoOp == [kind |-> "none", id |-> None]
NoEvent == [op |-> "none", id |-> 0, ver |-> 0]
EmptyPage == [x \in ExternalIds |-> 0]
NothingChanged == [x \in ExternalIds |-> None]

VARIABLES
  remoteVer,  \* PCO: version of each record, 0 before it exists
  gone,       \* PCO: the records destroyed
  author,     \* PCO: the local entity whose data a record was created from
  events,     \* PCO: webhook deliveries under way, in no order
  links,      \* table externalLinks, by its key
  rows,       \* the entity table, by id
  pc,         \* the step each activity is at
  page,       \* the records (id -> version) handed to processPcoData
  ownerId,    \* entityId attached to them by a push, None otherwise
  changed,    \* changedExternalLinks: id -> entityId of the returned link
  offset,     \* currentOffset of the list pagination
  stale,      \* links with lastProcessedAt < syncStartTime of each sync
  event,      \* the event each webhook activity works on
  erasing,    \* statements of deleteEntityId still to run, and their entity
  op,         \* the mutation of each lane
  target,     \* externalId of the link the lane found, 0 for none
  attempt     \* retries used by each activity

pcoVars == <<remoteVer, gone, author, events>>
dbVars == <<links, rows>>
batchVars == <<page, ownerId, changed>>
pushVars == <<op, target>>
vars == <<remoteVer, gone, author, events, links, rows, pc, page, ownerId, changed,
          offset, stale, event, erasing, op, target, attempt>>

NoErasing == [todo |-> {}, entityId |-> None]

TypeOK ==
  /\ remoteVer \in [ExternalIds -> Versions]
  /\ gone \subseteq ExternalIds
  /\ author \in [ExternalIds -> EntityIds \cup {None}]
  /\ events \subseteq Events
  /\ links \in [ExternalIds -> Links]
  /\ rows \in [EntityIds -> Rows]
  /\ pc \in [Workers -> Steps]
  /\ page \in [Workers -> [ExternalIds -> Versions]]
  /\ ownerId \in [Workers -> EntityIds \cup {None}]
  /\ changed \in [Workers -> [ExternalIds -> EntityIds \cup {None}]]
  /\ offset \in [Workers -> Nat]
  /\ stale \in [Workers -> SUBSET ExternalIds]
  /\ event \in [Workers -> Events \cup {NoEvent}]
  /\ erasing \in [Workers -> [todo : SUBSET {"link", "row"},
                              entityId : EntityIds \cup {None}]]
  /\ op \in [Workers -> Ops]
  /\ target \in [Workers -> ExternalIds \cup {0}]
  /\ attempt \in [Workers -> 0 .. MaxRetries]

(***************************************************************************)
(* Scheduling.  A syncer or a hook runs its activity alone; the lanes are  *)
(* one activity that processes its mutations concurrently and is retried   *)
(* as a whole.                                                             *)
(***************************************************************************)
Active(w) == pc[w] \notin {"idle", "done"}
Quiet == \A w \in Workers : ~ Active(w)
MayStart == Serial => Quiet

Live(x) == remoteVer[x] > 0 /\ x \notin gone
LiveIds == {x \in ExternalIds : Live(x)}
Rank(x) == Cardinality({y \in LiveIds : y < x})

Goto(w, step) == pc' = [pc EXCEPT ![w] = step]

Init ==
  /\ remoteVer = [x \in ExternalIds |-> IF x \in InitialIds THEN 1 ELSE 0]
  /\ gone = {} /\ events = {}
  /\ author = [x \in ExternalIds |-> None]
  /\ links = [x \in ExternalIds |-> NoLink]
  /\ rows = [e \in EntityIds |-> NoRow]
  /\ pc = [w \in Workers |-> "idle"]
  /\ page = [w \in Workers |-> EmptyPage]
  /\ ownerId = [w \in Workers |-> None]
  /\ changed = [w \in Workers |-> NothingChanged]
  /\ offset = [w \in Workers |-> 0]
  /\ stale = [w \in Workers |-> {}]
  /\ event = [w \in Workers |-> NoEvent]
  /\ erasing = [w \in Workers |-> NoErasing]
  /\ op = [w \in Workers |-> NoOp]
  /\ target = [w \in Workers |-> 0]
  /\ attempt = [w \in Workers |-> 0]

-----------------------------------------------------------------------------
(* Planning Center, seen through its API: other clients change records and *)
(* each change emits a webhook event carrying the record at that version.  *)

Emit(o, x, v) == events' = IF Hooks = {} THEN events
                           ELSE events \cup {[op |-> o, id |-> x, ver |-> v]}

RemoteCreate(x, e) ==
  /\ remoteVer[x] = 0
  /\ remoteVer' = [remoteVer EXCEPT ![x] = 1]
  /\ author' = [author EXCEPT ![x] = e]
  /\ Emit("upsert", x, 1)
  /\ UNCHANGED gone

RemoteUpdate(x) ==
  /\ Live(x) /\ remoteVer[x] < MaxVersion
  /\ remoteVer' = [remoteVer EXCEPT ![x] = @ + 1]
  /\ Emit("upsert", x, remoteVer[x] + 1)
  /\ UNCHANGED <<gone, author>>

RemoteDestroy(x) ==
  /\ Live(x)
  /\ gone' = gone \cup {x}
  /\ Emit("delete", x, remoteVer[x])
  /\ UNCHANGED <<remoteVer, author>>

OtherClient ==
  /\ \E x \in ExternalIds : RemoteCreate(x, None) \/ RemoteUpdate(x) \/ RemoteDestroy(x)
  /\ UNCHANGED <<links, rows, pc, page, ownerId, changed, offset, stale, event,
                 erasing, op, target, attempt>>

-----------------------------------------------------------------------------
(* externalLinks and the entity table.                                     *)

(* The names the two sides give the entity type: links carry the title of  *)
(* the OpenFaith schema, the sync workflow passes the manifest's name.     *)
OfEntityName == "person"
SyncEntityType == "Person"

InPage(w, x) == page[w][x] > 0

(* Broken variant: the id handed over is not used. *)
AlwaysMinted(w, x) == MintedId[x][w]
InsertedId(w, x) == IF ownerId[w] = None THEN MintedId[x][w] ELSE ownerId[w]

(* Broken variants, which the properties must notice: the upsert takes a   *)
(* newly minted id, or clears deletedAt.                                   *)
OverwritingLink(w, x) ==
  [st |-> IF links[x].st = "none" THEN "live" ELSE links[x].st,
   entityId |-> InsertedId(w, x), updatedAt |-> page[w][x]]
RevivingLink(w, x) ==
  IF links[x].st = "none"
  THEN [st |-> "live", entityId |-> InsertedId(w, x), updatedAt |-> page[w][x]]
  ELSE [links[x] EXCEPT !.st = "live", !.updatedAt = page[w][x]]

(* INSERT ... ON CONFLICT (orgId, adapter, externalId) DO UPDATE: a link   *)
(* that exists keeps its entityId and its deletedAt.                       *)
UpsertedLink(w, x) ==
  IF links[x].st = "none"
  THEN [st |-> "live", entityId |-> InsertedId(w, x), updatedAt |-> page[w][x]]
  ELSE [links[x] EXCEPT !.updatedAt = page[w][x]]

(* The statement bumps lastProcessedAt of new links and of those whose     *)
(* updatedAt differs; only these count as changed, unless forceUpdate.     *)
Bumped(w) == {x \in ExternalIds : InPage(w, x) /\ links[x].updatedAt # page[w][x]}
ForceUpdate(w) == op[w].kind # "none" /\ target[w] = 0

(* Broken variant: only new links count as changed. *)
OnlyNewLinks(w) == {x \in ExternalIds : InPage(w, x) /\ links[x].st = "none"}
Changed(w) == IF ForceUpdate(w) THEN {x \in ExternalIds : InPage(w, x)} ELSE Bumped(w)

(* RETURNING gives the entityId the link has after the statement.  Broken  *)
(* variant: the one in the VALUES, which a link that exists does not take. *)
ProposedId(w, x) == InsertedId(w, x)
ReturnedId(w, x) == UpsertedLink(w, x).entityId

ProcessExternalLinks(w) ==
  /\ pc[w] = "links"
  /\ links' = [x \in ExternalIds |->
                 IF InPage(w, x) THEN UpsertedLink(w, x) ELSE links[x]]
  /\ changed' = [changed EXCEPT ![w] =
                   [x \in ExternalIds |->
                      IF x \in Changed(w) THEN ReturnedId(w, x) ELSE None]]
  /\ stale' = [v \in Workers |-> stale[v] \ Bumped(w)]
  /\ Goto(w, "rows")
  /\ UNCHANGED <<pcoVars, rows, page, ownerId, offset, event, erasing, pushVars, attempt>>

(* Two records of one page linked to the same entity make the INSERT of    *)
(* the entity rows hit a row twice, which PostgreSQL rejects.              *)
RowHitTwice(w) == \E x, y \in ExternalIds :
  x # y /\ changed[w][x] # None /\ changed[w][x] = changed[w][y]

(* The activity w is part of: the lanes share one. *)
Mates(w) == IF w \in Lanes THEN {l \in Lanes : op[l].kind # "none"} ELSE {w}

FirstStep(w) == IF w \in Syncers THEN "list"
                ELSE IF w \in Lanes THEN "find"
                ELSE IF event[w].op = "delete" THEN "lookup" ELSE "get"

Linked == {x \in ExternalIds : links[x].st # "none"}

(* An activity that fails is run again from its beginning, MaxRetries      *)
(* times; then its workflow fails.  Nothing already written is undone.     *)
Retry(w) ==
  LET again == attempt[w] < MaxRetries
      Reset(f, v) == [u \in Workers |-> IF u \in Mates(w) THEN v ELSE f[u]]
  IN /\ pc' = [v \in Workers |-> IF v \notin Mates(w) THEN pc[v]
                                 ELSE IF again THEN FirstStep(v) ELSE "idle"]
     /\ page' = Reset(page, EmptyPage)
     /\ ownerId' = Reset(ownerId, None)
     /\ changed' = Reset(changed, NothingChanged)
     /\ offset' = Reset(offset, 0)
     /\ stale' = Reset(stale, IF again /\ w \in Syncers THEN Linked ELSE {})
     /\ event' = IF again THEN event ELSE Reset(event, NoEvent)
     /\ erasing' = Reset(erasing, NoErasing)
     /\ op' = IF again THEN op ELSE Reset(op, NoOp)
     /\ target' = Reset(target, 0)
     /\ attempt' = Reset(attempt, IF again THEN attempt[w] + 1 ELSE 0)
     /\ UNCHANGED <<pcoVars, dbVars>>

(* The last step of a hook ends its activity, that of a lane its mutation. *)
Finish(w) ==
  /\ Goto(w, IF w \in Lanes THEN "done" ELSE "idle")
  /\ event' = [event EXCEPT ![w] = NoEvent]
  /\ attempt' = IF w \in Lanes THEN attempt ELSE [attempt EXCEPT ![w] = 0]

(* Broken variant: the row takes the entity's id for the record's. *)
SwappedIdsRow(w, e) ==
  LET x == CHOOSE y \in ExternalIds : changed[w][y] = e
  IN [st |-> "live", of |-> changed[w][x], ver |-> page[w][x]]

(* processEntities overwrites every column, deletedAt included. *)
WrittenRow(w, e) ==
  LET x == CHOOSE y \in ExternalIds : changed[w][y] = e
  IN [st |-> "live", of |-> x, ver |-> page[w][x]]

ProcessEntities(w) ==
  /\ pc[w] = "rows"
  /\ ~ RowHitTwice(w)
  /\ rows' = [e \in EntityIds |-> IF \E x \in ExternalIds : changed[w][x] = e
                                  THEN WrittenRow(w, e) ELSE rows[e]]
  /\ IF w \in Syncers
     THEN /\ Goto(w, IF offset[w] = 0 THEN "detect" ELSE "list")
          /\ UNCHANGED <<event, attempt>>
     ELSE Finish(w)
  /\ page' = [page EXCEPT ![w] = EmptyPage]
  /\ ownerId' = [ownerId EXCEPT ![w] = None]
  /\ changed' = [changed EXCEPT ![w] = NothingChanged]
  /\ UNCHANGED <<pcoVars, links, offset, stale, erasing, pushVars>>

ProcessEntitiesFails(w) == pc[w] = "rows" /\ RowHitTwice(w) /\ Retry(w)

-----------------------------------------------------------------------------
(* The full sync of the entity type (externalSyncEntity).                  *)

StartSync(s) ==
  /\ pc[s] = "idle" /\ MayStart
  /\ Goto(s, "list")
  /\ stale' = [stale EXCEPT ![s] = Linked]
  /\ UNCHANGED <<pcoVars, dbVars, batchVars, offset, event, erasing, pushVars, attempt>>

(* The page at currentOffset of the records PCO holds now. *)
PageAt(s, x) ==
  IF Live(x) /\ offset[s] <= Rank(x) /\ Rank(x) < offset[s] + PageSize
  THEN remoteVer[x] ELSE 0

(* Broken variants: the offset does not advance, or steps over a record.   *)
SamePageAgain(s) == IF PageSize < Cardinality(LiveIds) THEN PageSize ELSE 0
SkippingOffset(s) ==
  IF offset[s] + PageSize < Cardinality(LiveIds) THEN offset[s] + PageSize + 1 ELSE 0

(* The offset of the next page, 0 when there is none. *)
NextOffset(s) ==
  IF offset[s] + PageSize < Cardinality(LiveIds) THEN offset[s] + PageSize ELSE 0

ListPage(s) ==
  /\ pc[s] = "list"
  /\ page' = [page EXCEPT ![s] = [x \in ExternalIds |-> PageAt(s, x)]]
  /\ offset' = [offset EXCEPT ![s] = NextOffset(s)]
  /\ Goto(s, "links")
  /\ UNCHANGED <<pcoVars, dbVars, ownerId, changed, stale, event, erasing, pushVars, attempt>>

StaleLinks(s) == {x \in stale[s] : /\ links[x].st = "live"
                                   /\ OfEntityName = SyncEntityType}

DetectAndMarkDeleted(s) ==
  /\ pc[s] = "detect"
  /\ links' = [x \in ExternalIds |->
                 IF x \in StaleLinks(s) THEN [links[x] EXCEPT !.st = "deleted"]
                 ELSE links[x]]
  /\ stale' = [stale EXCEPT ![s] = {}]
  /\ Finish(s)
  /\ UNCHANGED <<pcoVars, rows, batchVars, offset, erasing, pushVars>>

-----------------------------------------------------------------------------
(* A webhook event (processWebhook).                                       *)

Deliver(h, e) ==
  /\ pc[h] = "idle" /\ MayStart
  /\ events' = events \ {e}
  /\ event' = [event EXCEPT ![h] = e]
  /\ Goto(h, IF e.op = "delete" THEN "lookup" ELSE "get")
  /\ UNCHANGED <<remoteVer, gone, author, dbVars, batchVars, offset, stale, erasing, pushVars, attempt>>

(* Broken variant: the record carried by the event is taken as it is. *)
CarriedByEvent(h, v) == v = event[h].ver

(* What syncEntityId may return of the event's record. It asks PCO for the *)
(* record; when that fails it falls back on the one carried by the event.  *)
Fetched(h, v) ==
  LET x == event[h].id
  IN \/ Live(x) /\ v = remoteVer[x]
     \/ (~ Live(x) \/ h \in FailureProne) /\ v = event[h].ver

FetchRecord(h) ==
  LET x == event[h].id
  IN /\ pc[h] = "get"
     /\ \E v \in Versions :
          /\ Fetched(h, v)
          /\ page' = [page EXCEPT ![h] = [EmptyPage EXCEPT ![x] = v]]
     /\ Goto(h, "links")
     /\ UNCHANGED <<pcoVars, dbVars, ownerId, changed, offset, stale, event,
                    erasing, pushVars, attempt>>

(* deleteEntity: the live link with this external id, if there is one.     *)
DeletionKey(w) == IF w \in Lanes THEN op[w].id ELSE event[w].id
LiveLinkNamed(id) == {x \in ExternalIds : x = id /\ links[x].st = "live"}

LookupLink(w) ==
  /\ pc[w] = "lookup"
  /\ \/ \E x \in LiveLinkNamed(DeletionKey(w)) :
          /\ erasing' = [erasing EXCEPT ![w] =
                           [todo |-> {"link", "row"}, entityId |-> links[x].entityId]]
          /\ Goto(w, "erase")
          /\ UNCHANGED <<event, attempt>>
     \/ /\ LiveLinkNamed(DeletionKey(w)) = {}
        /\ Finish(w)
        /\ UNCHANGED erasing
  /\ UNCHANGED <<pcoVars, dbVars, batchVars, offset, stale, pushVars>>

(* deleteEntityId: two statements of their own, in either order.           *)
HardDelete(e) ==    \* broken variant: the links are removed
  links' = [x \in ExternalIds |->
              IF links[x].st # "none" /\ links[x].entityId = e THEN NoLink ELSE links[x]]
EraseLinks(e) ==
  links' = [x \in ExternalIds |->
              IF links[x].st # "none" /\ links[x].entityId = e
              THEN [links[x] EXCEPT !.st = "deleted"] ELSE links[x]]
EraseRow(e) ==
  rows' = [rows EXCEPT ![e].st = IF @ = "none" THEN "none" ELSE "deleted"]

DeleteEntityId(w) ==
  LET e == erasing[w].entityId
  IN /\ pc[w] = "erase"
     /\ \E part \in erasing[w].todo :
          /\ \/ part = "link" /\ EraseLinks(e) /\ UNCHANGED rows
             \/ part = "row" /\ EraseRow(e) /\ UNCHANGED links
          /\ IF erasing[w].todo = {part}
             THEN Finish(w) /\ erasing' = [erasing EXCEPT ![w] = NoErasing]
             ELSE /\ erasing' = [erasing EXCEPT ![w].todo = @ \ {part}]
                  /\ UNCHANGED <<pc, event, attempt>>
     /\ UNCHANGED <<pcoVars, batchVars, offset, stale, pushVars>>

-----------------------------------------------------------------------------
(* A push of local mutations: Zero applies them to the rows first, then    *)
(* the lanes run processMutation, one mutation each.                       *)

Inserted(o) == {o[l].id : l \in {k \in Lanes : o[k].kind = "insert"}}
Possible(o, l) ==
  CASE o[l].kind = "none" -> o[l] = NoOp
    [] o[l].kind = "insert" -> /\ o[l].id \in LocalIds
                               /\ rows[o[l].id].st = "none"
                               /\ \A k \in Lanes : o[k] = o[l] => k = l
    [] OTHER -> /\ o[l].id # None
                /\ rows[o[l].id].st = "live" \/ o[l].id \in Inserted(o)

(* A local write leaves content PCO has not seen (version 0). *)
LocalRow(o, e) ==
  IF \E l \in Lanes : o[l].kind = "delete" /\ o[l].id = e
  THEN [rows[e] EXCEPT !.st = "deleted", !.ver = 0]
  ELSE IF \E l \in Lanes : o[l].id = e
       THEN [rows[e] EXCEPT !.st = "live", !.ver = 0]
       ELSE rows[e]

PushArrives ==
  /\ MayStart /\ \A l \in Lanes : pc[l] = "idle"
  /\ \E o \in [Lanes -> Ops] :
       /\ \A l \in Lanes : Possible(o, l)
       /\ \E l \in Lanes : o[l].kind # "none"
       /\ rows' = [e \in EntityIds |-> LocalRow(o, e)]
       /\ op' = [w \in Workers |-> IF w \in Lanes THEN o[w] ELSE NoOp]
       /\ pc' = [w \in Workers |-> IF w \in Lanes /\ o[w].kind # "none"
                                   THEN "find" ELSE pc[w]]
  /\ UNCHANGED <<pcoVars, links, batchVars, offset, stale, event, erasing, target, attempt>>

LiveLinksOf(e) == {x \in ExternalIds : links[x].st = "live" /\ links[x].entityId = e}

GetExternalLink(l) ==
  /\ pc[l] = "find"
  /\ \/ /\ \E x \in LiveLinksOf(op[l].id) : target' = [target EXCEPT ![l] = x]
        /\ Goto(l, IF op[l].kind = "delete" THEN "remove" ELSE "update")
     \/ /\ LiveLinksOf(op[l].id) = {}
        /\ Goto(l, IF op[l].kind = "delete" THEN "done" ELSE "create")
        /\ UNCHANGED target
  /\ UNCHANGED <<pcoVars, dbVars, batchVars, offset, stale, event, erasing, op, attempt>>

(* The response is handed to processPcoData with the entity's own id.      *)
Respond(l, x, v) ==
  /\ page' = [page EXCEPT ![l] = [EmptyPage EXCEPT ![x] = v]]
  /\ ownerId' = [ownerId EXCEPT ![l] = op[l].id]
  /\ Goto(l, "links")
  /\ UNCHANGED <<dbVars, changed, offset, stale, event, erasing, pushVars, attempt>>

CreateEntity(l) ==
  /\ pc[l] = "create"
  /\ \E x \in ExternalIds : RemoteCreate(x, op[l].id) /\ Respond(l, x, 1)

(* At the bound MaxVersion an update is one that changes nothing in PCO.   *)
UpdateEntity(l) ==
  LET x == target[l]
  IN /\ pc[l] = "update" /\ x \in LiveIds
     /\ \/ RemoteUpdate(x)
        \/ remoteVer[x] = MaxVersion /\ UNCHANGED pcoVars
     /\ Respond(l, x, remoteVer'[x])

DeleteRemote(l) ==
  /\ pc[l] = "remove" /\ target[l] \in LiveIds
  /\ RemoteDestroy(target[l])
  /\ Goto(l, "lookup")
  /\ UNCHANGED <<dbVars, batchVars, offset, stale, event, erasing, pushVars, attempt>>

(* PCO answers 404 for a record that is gone, and refuses to create more   *)
(* records than the bound ExternalIds.                                     *)
RequestFails(l) ==
  /\ \/ pc[l] \in {"update", "remove"} /\ target[l] \notin LiveIds
     \/ pc[l] = "create" /\ \A x \in ExternalIds : remoteVer[x] > 0
  /\ Retry(l)

PushCompletes ==
  /\ \E l \in Lanes : pc[l] = "done"
  /\ \A l \in Lanes : ~ Active(l)
  /\ pc' = [w \in Workers |-> IF w \in Lanes THEN "idle" ELSE pc[w]]
  /\ op' = [w \in Workers |-> NoOp]
  /\ target' = [w \in Workers |-> 0]
  /\ attempt' = [w \in Workers |-> IF w \in Lanes THEN 0 ELSE attempt[w]]
  /\ UNCHANGED <<pcoVars, dbVars, batchVars, offset, stale, event, erasing>>

-----------------------------------------------------------------------------
Fail(w) == w \in FailureProne /\ Active(w) /\ Retry(w)

SyncStep(s) == ListPage(s) \/ DetectAndMarkDeleted(s)
HookStep(h) == FetchRecord(h)
LaneStep(l) == \/ GetExternalLink(l) \/ CreateEntity(l) \/ UpdateEntity(l)
               \/ DeleteRemote(l) \/ RequestFails(l)
Step(w) == \/ ProcessExternalLinks(w) \/ ProcessEntities(w) \/ ProcessEntitiesFails(w)
           \/ LookupLink(w) \/ DeleteEntityId(w)
           \/ w \in Syncers /\ SyncStep(w)
           \/ w \in Hooks /\ HookStep(w)
           \/ w \in Lanes /\ LaneStep(w)

Next ==
  \/ OtherClient
  \/ \E s \in Syncers : StartSync(s)
  \/ \E h \in Hooks, e \in events : Deliver(h, e)
  \/ PushArrives
  \/ PushCompletes
  \/ \E w \in Workers : Step(w) \/ Fail(w)

Spec == Init /\ [][Next]_vars

(* The workflow engine keeps running the activities it has started.        *)
Fairness == \A w \in Workers : WF_vars(Step(w))
FairSpec == Spec /\ Fairness
-----------------------------------------------------------------------------
(* Properties *)

(* docs/ExternalLinks.md: existing entity links are preserved.  Whatever   *)
(* syncs, webhooks, pushes and retries do to a link, the entity it names   *)
(* never changes and the link never disappears.                            *)
LinkIdentity ==
  [][\A x \in ExternalIds : links[x].st # "none" =>
       links'[x].st # "none" /\ links'[x].entityId = links[x].entityId]_vars

(* A row with the data of a PCO record is the row its link names, so that  *)
(* no record is ever spread over two entities.                             *)
RowsFollowLinks ==
  \A e \in EntityIds : rows[e].of # 0 =>
    /\ links[rows[e].of].st # "none"
    /\ links[rows[e].of].entityId = e

(* The ids an activity took from the links it upserted are still the ids   *)
(* of those links when it writes the rows, whatever ran in between.        *)
CapturedIds ==
  \A w \in Workers : \A x \in ExternalIds : changed[w][x] # None =>
    links[x].st # "none" /\ links[x].entityId = changed[w][x]

(* LinkIdentity and RowsFollowLinks, as an implementation of the abstract  *)
(* specification of the table.                                             *)
Identity == INSTANCE ExternalIdentity WITH
  owner <- [x \in ExternalIds |-> links[x].entityId],
  shown <- [e \in EntityIds |-> rows[e].of],
  NoRecord <- 0
IdentitySpec == Identity!Spec

(* What a link says of a record (the updatedAt that decides whether it is  *)
(* processed again) is what its row holds, whenever nothing is running.    *)
IdleRowsMatchLinks ==
  Quiet => \A x \in Linked : LET r == rows[links[x].entityId] IN
    r.st # "none" /\ r.of = x /\ r.ver = links[x].updatedAt

(* getExternalLink takes the first live link of an entity: there is never  *)
(* a choice, for an entity created here and pushed to PCO.                 *)
AtMostOneLiveLink ==
  \A e \in LocalIds : \A x, y \in LiveLinksOf(e) : x = y

(* A row never goes back to an older version of a record PCO still holds.  *)
RowsNeverGoBack ==
  [][\A e \in EntityIds : LET x == rows[e].of IN
       x # 0 /\ Live(x) /\ rows'[e].of = x => rows'[e].ver >= rows[e].ver]_vars

(* A mutation that creates an entity in PCO and succeeds leaves it linked, *)
(* or was overtaken: a webhook has linked its record to an entity of its   *)
(* own.  ("We put the internalId because it needs to get passed into       *)
(* processExternalLinks": it has no effect on a link that exists.)         *)
LinkedTo(x, e) == links[x].st # "none" /\ links[x].entityId = e
Overtaken(e) == \E x \in ExternalIds : author[x] = e
                  /\ \E h \in Hooks : LinkedTo(x, MintedId[x][h])
PushedLinkedOrOvertaken ==
  \A l \in Lanes : pc[l] = "done" /\ op[l].kind = "insert" =>
    (\E x \in ExternalIds : LinkedTo(x, op[l].id)) \/ Overtaken(op[l].id)

(* The end of a full sync marks the links of the records PCO no longer had *)
(* and the sync did not touch.                                             *)
DetectionMarksGone ==
  [][\A s \in Syncers : pc[s] = "detect" /\ pc'[s] = "idle" =>
       \A x \in gone \cap stale[s] : links'[x].st # "live"]_vars

(* Every activity ends, however often PCO's records change meanwhile. *)
ActivitiesEnd == \A w \in Workers : pc[w] \notin {"idle", "done"} ~> pc[w] \in {"idle", "done"}

(* As long as full syncs are started again and again, every record PCO     *)
(* holds gets a row with its latest version.                               *)
Mirrored(x) == Live(x) => /\ links[x].st # "none"
                          /\ rows[links[x].entityId].ver = remoteVer[x]
ResyncMirrors ==
  (\A s \in Syncers : []<>(pc[s] = "list" /\ offset[s] = 0))
    => \A x \in ExternalIds : <>[]Mirrored(x)
=============================================================================
