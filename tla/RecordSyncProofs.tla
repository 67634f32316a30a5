-------------------------- MODULE RecordSyncProofs --------------------------
(***************************************************************************)
(* Proofs about RecordSync, for any number of records, entities and        *)
(* concurrent activities, any page size, any failures and retries.         *)
(***************************************************************************)
EXTENDS RecordSync, TLAPS

(* A link names an entity, whatever its deletedAt. *)
LinksNameEntities ==
  \A x \in ExternalIds : links[x].st # "none" <=> links[x].entityId \in EntityIds

IInv == TypeOK /\ LinksNameEntities /\ CapturedIds /\ RowsFollowLinks

(* The initial state is typed. *)
LEMMA InitType == Init => TypeOK
BY IdAssumption, BoundAssumption DEF Init, TypeOK, Versions, Links, Rows, Events, Ops,
   Steps, NoLink, NoRow, NoOp, NoEvent, EmptyPage, NothingChanged, NoErasing

-----------------------------------------------------------------------------
(* The sets of records the state is built from. *)

LEMMA DeletedLink ==
  ASSUME NEW r \in Links PROVE [r EXCEPT !.st = "deleted"] \in Links
BY DEF Links

LEMMA UpdatedLink ==
  ASSUME NEW r \in Links, NEW v \in Versions PROVE [r EXCEPT !.updatedAt = v] \in Links
BY DEF Links

LEMMA DeletedRow ==
  ASSUME NEW r \in Rows PROVE [r EXCEPT !.st = IF @ = "none" THEN "none" ELSE "deleted"] \in Rows
BY DEF Rows

LEMMA LocallyWrittenRow ==
  ASSUME NEW r \in Rows, NEW s \in {"live", "deleted"}
  PROVE [r EXCEPT !.st = s, !.ver = 0] \in Rows
<1>1. 0 \in Versions
  BY BoundAssumption DEF Versions
<1>. QED BY <1>1 DEF Rows

LEMMA ConstantsTyped ==
  /\ EmptyPage \in [ExternalIds -> Versions]
  /\ NothingChanged \in [ExternalIds -> EntityIds \cup {None}]
  /\ NoOp \in Ops
  /\ NoErasing \in [todo : SUBSET {"link", "row"}, entityId : EntityIds \cup {None}]
BY BoundAssumption DEF EmptyPage, NothingChanged, NoOp, Ops, NoErasing, Versions

LEMMA PageOfOne ==
  ASSUME NEW x, NEW v, x \in ExternalIds => v \in Versions
  PROVE [EmptyPage EXCEPT ![x] = v] \in [ExternalIds -> Versions]
BY ConstantsTyped

(* What the two ways of moving an activity on do to their variables. *)
LEMMA GotoType ==
  ASSUME pc \in [Workers -> Steps], NEW w \in Workers, NEW st \in Steps, Goto(w, st)
  PROVE pc' \in [Workers -> Steps]
BY DEF Goto

LEMMA FinishType ==
  ASSUME TypeOK, NEW w \in Workers, Finish(w)
  PROVE /\ pc' \in [Workers -> Steps]
        /\ attempt' \in [Workers -> 0 .. MaxRetries]
        /\ event' \in [Workers -> Events \cup {NoEvent}]
<1>0. /\ pc \in [Workers -> Steps]
      /\ attempt \in [Workers -> 0 .. MaxRetries]
      /\ event \in [Workers -> Events \cup {NoEvent}]
  BY DEF TypeOK
<1>1. pc' \in [Workers -> Steps]
  BY <1>0 DEF Finish, Goto, Steps
<1>2. attempt' \in [Workers -> 0 .. MaxRetries]
  BY <1>0, BoundAssumption DEF Finish
<1>3. event' \in [Workers -> Events \cup {NoEvent}]
  BY <1>0 DEF Finish
<1>. QED BY <1>1, <1>2, <1>3

(* PCO's state stays typed whoever changes a record. *)
LEMMA PcoType ==
  ASSUME TypeOK, NEW x \in ExternalIds, NEW e \in EntityIds \cup {None},
         RemoteCreate(x, e) \/ RemoteUpdate(x) \/ RemoteDestroy(x)
  PROVE /\ remoteVer' \in [ExternalIds -> Versions]
        /\ gone' \subseteq ExternalIds
        /\ author' \in [ExternalIds -> EntityIds \cup {None}]
        /\ events' \subseteq Events
<1>0. /\ remoteVer \in [ExternalIds -> Versions]
      /\ gone \subseteq ExternalIds
      /\ author \in [ExternalIds -> EntityIds \cup {None}]
      /\ events \subseteq Events
  BY DEF TypeOK
<1>1. ASSUME NEW o \in {"upsert", "delete"}, NEW v \in Versions, Emit(o, x, v)
      PROVE events' \subseteq Events
  BY <1>0, <1>1 DEF Emit, Events
<1>2. 1 \in Versions /\ remoteVer[x] \in Versions
  BY <1>0, BoundAssumption DEF Versions
<1>3. CASE RemoteCreate(x, e)
  BY <1>0, <1>1, <1>2, <1>3 DEF RemoteCreate
<1>4. CASE RemoteUpdate(x)
  <2>1. remoteVer[x] + 1 \in Versions
    BY <1>2, <1>4, BoundAssumption DEF RemoteUpdate, Versions
  <2>. QED BY <1>0, <1>1, <1>4, <2>1 DEF RemoteUpdate
<1>5. CASE RemoteDestroy(x)
  BY <1>0, <1>1, <1>2, <1>5 DEF RemoteDestroy
<1>. QED BY <1>3, <1>4, <1>5

-----------------------------------------------------------------------------
(* Every action keeps the state typed. *)

LEMMA TypeOtherClient == ASSUME TypeOK, OtherClient PROVE TypeOK'
<1>1. PICK x \in ExternalIds : RemoteCreate(x, None) \/ RemoteUpdate(x) \/ RemoteDestroy(x)
  BY DEF OtherClient
<1>2. /\ remoteVer' \in [ExternalIds -> Versions]
      /\ gone' \subseteq ExternalIds
      /\ author' \in [ExternalIds -> EntityIds \cup {None}]
      /\ events' \subseteq Events
  BY <1>1, PcoType
<1>. QED BY <1>2 DEF TypeOK, OtherClient

LEMMA TypeStartSync == ASSUME TypeOK, NEW s \in Syncers, StartSync(s) PROVE TypeOK'
BY DEF TypeOK, Steps, StartSync, Goto, Linked, pcoVars, dbVars, batchVars, pushVars

LEMMA TypeListPage == ASSUME TypeOK, NEW s \in Syncers, ListPage(s) PROVE TypeOK'
<1>0. remoteVer \in [ExternalIds -> Versions] /\ page \in [Workers -> [ExternalIds -> Versions]]
  BY DEF TypeOK
<1>1. 0 \in Versions
  BY BoundAssumption DEF Versions
<1>2. page' \in [Workers -> [ExternalIds -> Versions]]
  BY <1>0, <1>1 DEF ListPage, PageAt
<1>3. offset' \in [Workers -> Nat]
  <2>1. offset \in [Workers -> Nat] /\ offset[s] + PageSize \in Nat
    BY BoundAssumption DEF TypeOK, Workers
  <2>. QED BY <2>1 DEF ListPage, NextOffset
<1>4. pc' \in [Workers -> Steps]
  BY DEF TypeOK, ListPage, Goto, Steps
<1>. QED BY <1>2, <1>3, <1>4 DEF TypeOK, ListPage, pcoVars, dbVars, pushVars

LEMMA TypeDetectAndMarkDeleted ==
  ASSUME TypeOK, NEW s \in Syncers, DetectAndMarkDeleted(s) PROVE TypeOK'
<1>0. links \in [ExternalIds -> Links] /\ stale \in [Workers -> SUBSET ExternalIds]
  BY DEF TypeOK
<1>1. links' \in [ExternalIds -> Links]
  BY <1>0, DeletedLink DEF DetectAndMarkDeleted
<1>2. stale' \in [Workers -> SUBSET ExternalIds]
  BY <1>0 DEF DetectAndMarkDeleted
<1>3. /\ pc' \in [Workers -> Steps]
      /\ attempt' \in [Workers -> 0 .. MaxRetries]
      /\ event' \in [Workers -> Events \cup {NoEvent}]
  BY FinishType DEF DetectAndMarkDeleted, Workers
<1>. QED BY <1>1, <1>2, <1>3 DEF TypeOK, DetectAndMarkDeleted, pcoVars, batchVars, pushVars

LEMMA TypeDeliver ==
  ASSUME TypeOK, NEW h \in Hooks, NEW e \in events, Deliver(h, e) PROVE TypeOK'
BY DEF TypeOK, Steps, Deliver, Goto, dbVars, batchVars, pushVars

LEMMA TypeFetchRecord == ASSUME TypeOK, NEW h \in Hooks, FetchRecord(h) PROVE TypeOK'
<1>0. page \in [Workers -> [ExternalIds -> Versions]] /\ pc \in [Workers -> Steps]
  BY DEF TypeOK
<1>1. PICK v \in Versions : page' = [page EXCEPT ![h] = [EmptyPage EXCEPT ![event[h].id] = v]]
  BY DEF FetchRecord
<1>2. page' \in [Workers -> [ExternalIds -> Versions]]
  BY <1>0, <1>1, PageOfOne
<1>3. pc' \in [Workers -> Steps]
  BY <1>0 DEF FetchRecord, Goto, Steps
<1>. QED BY <1>2, <1>3 DEF TypeOK, FetchRecord, pcoVars, dbVars, pushVars

LEMMA UpsertedLinkType ==
  ASSUME TypeOK, NEW w \in Workers, NEW x \in ExternalIds PROVE UpsertedLink(w, x) \in Links
<1>0. /\ links[x] \in Links /\ page[w][x] \in Versions
      /\ ownerId[w] \in EntityIds \cup {None}
  BY DEF TypeOK
<1>1. InsertedId(w, x) \in EntityIds
  BY <1>0, IdAssumption DEF InsertedId
<1>. QED BY <1>0, <1>1, UpdatedLink DEF UpsertedLink, Links

LEMMA TypeProcessExternalLinks ==
  ASSUME TypeOK, NEW w \in Workers, ProcessExternalLinks(w) PROVE TypeOK'
<1>0. /\ links \in [ExternalIds -> Links]
      /\ changed \in [Workers -> [ExternalIds -> EntityIds \cup {None}]]
  BY DEF TypeOK
<1>1. links' \in [ExternalIds -> Links]
  BY <1>0, UpsertedLinkType DEF ProcessExternalLinks
<1>2. \A x \in ExternalIds : UpsertedLink(w, x).entityId \in EntityIds \cup {None}
  BY UpsertedLinkType DEF Links
<1>3. changed' \in [Workers -> [ExternalIds -> EntityIds \cup {None}]]
  BY <1>0, <1>2 DEF ProcessExternalLinks, ReturnedId
<1>4. stale' \in [Workers -> SUBSET ExternalIds] /\ pc' \in [Workers -> Steps]
  BY DEF TypeOK, ProcessExternalLinks, Goto, Steps
<1>. QED BY <1>1, <1>3, <1>4 DEF TypeOK, ProcessExternalLinks, pcoVars, pushVars

LEMMA TypeProcessEntities ==
  ASSUME TypeOK, NEW w \in Workers, ProcessEntities(w) PROVE TypeOK'
<1>0. /\ rows \in [EntityIds -> Rows]
      /\ page \in [Workers -> [ExternalIds -> Versions]]
      /\ ownerId \in [Workers -> EntityIds \cup {None}]
      /\ changed \in [Workers -> [ExternalIds -> EntityIds \cup {None}]]
  BY DEF TypeOK
<1>1. ASSUME NEW e \in EntityIds, \E x \in ExternalIds : changed[w][x] = e
      PROVE WrittenRow(w, e) \in Rows
  <2>1. PICK x \in ExternalIds : x = CHOOSE y \in ExternalIds : changed[w][y] = e
    BY <1>1
  <2>2. page[w][x] \in Versions
    BY <1>0
  <2>. QED BY <2>1, <2>2 DEF WrittenRow, Rows
<1>2. rows' \in [EntityIds -> Rows]
  BY <1>0, <1>1 DEF ProcessEntities
<1>3. /\ pc' \in [Workers -> Steps]
      /\ attempt' \in [Workers -> 0 .. MaxRetries]
      /\ event' \in [Workers -> Events \cup {NoEvent}]
  <2>1. CASE w \in Syncers
    BY <2>1 DEF TypeOK, ProcessEntities, Goto, Steps
  <2>2. CASE w \notin Syncers
    BY <2>2, FinishType DEF ProcessEntities
  <2>. QED BY <2>1, <2>2
<1>4. /\ page' \in [Workers -> [ExternalIds -> Versions]]
      /\ ownerId' \in [Workers -> EntityIds \cup {None}]
      /\ changed' \in [Workers -> [ExternalIds -> EntityIds \cup {None}]]
  BY <1>0, ConstantsTyped DEF ProcessEntities
<1>. QED BY <1>2, <1>3, <1>4 DEF TypeOK, ProcessEntities, pcoVars, pushVars

LEMMA TypeRetry == ASSUME TypeOK, NEW w \in Workers, Retry(w) PROVE TypeOK'
<1>1. pc' \in [Workers -> Steps]
  BY DEF TypeOK, Retry, FirstStep, Steps
<1>2. /\ page' \in [Workers -> [ExternalIds -> Versions]]
      /\ ownerId' \in [Workers -> EntityIds \cup {None}]
      /\ changed' \in [Workers -> [ExternalIds -> EntityIds \cup {None}]]
  BY ConstantsTyped DEF TypeOK, Retry
<1>3. offset' \in [Workers -> Nat] /\ stale' \in [Workers -> SUBSET ExternalIds]
  BY DEF TypeOK, Retry, Linked
<1>4. /\ event' \in [Workers -> Events \cup {NoEvent}]
      /\ target' \in [Workers -> ExternalIds \cup {0}]
  BY DEF TypeOK, Retry
<1>5. erasing' \in [Workers -> [todo : SUBSET {"link", "row"}, entityId : EntityIds \cup {None}]]
  BY ConstantsTyped DEF TypeOK, Retry
<1>6. op' \in [Workers -> Ops]
  BY ConstantsTyped DEF TypeOK, Retry
<1>7. attempt' \in [Workers -> 0 .. MaxRetries]
  <2>1. attempt \in [Workers -> 0 .. MaxRetries]
    BY DEF TypeOK
  <2>. QED BY <2>1, BoundAssumption DEF Retry
<1>. QED BY <1>1, <1>2, <1>3, <1>4, <1>5, <1>6, <1>7 DEF TypeOK, Retry, pcoVars, dbVars

LEMMA TypeLookupLink == ASSUME TypeOK, NEW w \in Workers, LookupLink(w) PROVE TypeOK'
<1>0. /\ links \in [ExternalIds -> Links]
      /\ erasing \in [Workers -> [todo : SUBSET {"link", "row"}, entityId : EntityIds \cup {None}]]
  BY DEF TypeOK
<1>1. CASE LiveLinkNamed(DeletionKey(w)) = {} /\ Finish(w) /\ UNCHANGED erasing
  BY <1>1, FinishType DEF TypeOK, LookupLink, pcoVars, dbVars, batchVars, pushVars
<1>2. ASSUME NEW x \in LiveLinkNamed(DeletionKey(w)),
             erasing' = [erasing EXCEPT ![w] =
                           [todo |-> {"link", "row"}, entityId |-> links[x].entityId]],
             Goto(w, "erase"), UNCHANGED <<event, attempt>>
      PROVE TypeOK'
  <2>1. links[x].entityId \in EntityIds \cup {None}
    BY <1>0 DEF LiveLinkNamed, Links
  <2>2. erasing' \in [Workers -> [todo : SUBSET {"link", "row"}, entityId : EntityIds \cup {None}]]
    BY <1>0, <1>2, <2>1
  <2>3. pc' \in [Workers -> Steps]
    BY <1>2, GotoType DEF TypeOK, Steps
  <2>. QED BY <1>2, <2>2, <2>3 DEF TypeOK, LookupLink, pcoVars, dbVars, batchVars, pushVars
<1>. QED BY <1>1, <1>2 DEF LookupLink

LEMMA TypeDeleteEntityId == ASSUME TypeOK, NEW w \in Workers, DeleteEntityId(w) PROVE TypeOK'
<1>0. /\ links \in [ExternalIds -> Links]
      /\ rows \in [EntityIds -> Rows]
      /\ erasing \in [Workers -> [todo : SUBSET {"link", "row"}, entityId : EntityIds \cup {None}]]
  BY DEF TypeOK
<1>1. PICK part \in erasing[w].todo :
        /\ \/ EraseLinks(erasing[w].entityId) /\ UNCHANGED rows
           \/ EraseRow(erasing[w].entityId) /\ UNCHANGED links
        /\ IF erasing[w].todo = {part}
           THEN Finish(w) /\ erasing' = [erasing EXCEPT ![w] = NoErasing]
           ELSE /\ erasing' = [erasing EXCEPT ![w].todo = @ \ {part}]
                /\ UNCHANGED <<pc, event, attempt>>
  BY DEF DeleteEntityId
<1>2. links' \in [ExternalIds -> Links]
  BY <1>0, <1>1, DeletedLink DEF EraseLinks
<1>3. rows' \in [EntityIds -> Rows]
  <2>1. EraseRow(erasing[w].entityId) => rows' \in [EntityIds -> Rows]
    <3>. DEFINE e == erasing[w].entityId
    <3>1. CASE e \in EntityIds
      BY <1>0, <3>1, DeletedRow DEF EraseRow
    <3>2. CASE e \notin EntityIds
      BY <1>0, <3>2 DEF EraseRow
    <3>. QED BY <3>1, <3>2
  <2>. QED BY <1>0, <1>1, <2>1
<1>4. /\ pc' \in [Workers -> Steps]
      /\ attempt' \in [Workers -> 0 .. MaxRetries]
      /\ event' \in [Workers -> Events \cup {NoEvent}]
  BY <1>1, FinishType DEF TypeOK
<1>5. erasing' \in [Workers -> [todo : SUBSET {"link", "row"}, entityId : EntityIds \cup {None}]]
  BY <1>0, <1>1, ConstantsTyped
<1>. QED BY <1>2, <1>3, <1>4, <1>5 DEF TypeOK, DeleteEntityId, pcoVars, batchVars, pushVars

LEMMA LocalRowType ==
  ASSUME TypeOK, NEW o \in [Lanes -> Ops], NEW e \in EntityIds PROVE LocalRow(o, e) \in Rows
<1>1. rows[e] \in Rows
  BY DEF TypeOK
<1>. QED BY <1>1, LocallyWrittenRow DEF LocalRow

LEMMA TypePushArrives == ASSUME TypeOK, PushArrives PROVE TypeOK'
<1>1. PICK o \in [Lanes -> Ops] :
        /\ rows' = [e \in EntityIds |-> LocalRow(o, e)]
        /\ op' = [w \in Workers |-> IF w \in Lanes THEN o[w] ELSE NoOp]
        /\ pc' = [w \in Workers |-> IF w \in Lanes /\ o[w].kind # "none" THEN "find" ELSE pc[w]]
  BY DEF PushArrives
<1>2. rows' \in [EntityIds -> Rows]
  BY <1>1, LocalRowType
<1>3. op' \in [Workers -> Ops]
  BY <1>1, ConstantsTyped
<1>4. pc' \in [Workers -> Steps]
  BY <1>1 DEF TypeOK, Steps
<1>. QED BY <1>2, <1>3, <1>4 DEF TypeOK, PushArrives, pcoVars, batchVars

LEMMA TypeGetExternalLink == ASSUME TypeOK, NEW l \in Lanes, GetExternalLink(l) PROVE TypeOK'
<1>1. pc' \in [Workers -> Steps]
  BY DEF TypeOK, GetExternalLink, Goto, Steps
<1>2. target' \in [Workers -> ExternalIds \cup {0}]
  BY DEF TypeOK, GetExternalLink, LiveLinksOf
<1>. QED BY <1>1, <1>2 DEF TypeOK, GetExternalLink, pcoVars, dbVars, batchVars

LEMMA TypeRespond ==
  ASSUME TypeOK, NEW l \in Lanes, NEW x \in ExternalIds, NEW v \in Versions, Respond(l, x, v),
         remoteVer' \in [ExternalIds -> Versions], gone' \subseteq ExternalIds,
         author' \in [ExternalIds -> EntityIds \cup {None}], events' \subseteq Events
  PROVE TypeOK'
<1>0. /\ page \in [Workers -> [ExternalIds -> Versions]]
      /\ ownerId \in [Workers -> EntityIds \cup {None}]
      /\ op[l].id \in EntityIds \cup {None}
      /\ pc \in [Workers -> Steps]
  BY DEF TypeOK, Ops, Workers
<1>1. page' \in [Workers -> [ExternalIds -> Versions]]
  BY <1>0, PageOfOne DEF Respond
<1>2. ownerId' \in [Workers -> EntityIds \cup {None}]
  BY <1>0 DEF Respond
<1>3. pc' \in [Workers -> Steps]
  BY <1>0 DEF Respond, Goto, Steps
<1>. QED BY <1>1, <1>2, <1>3 DEF TypeOK, Respond, dbVars, pushVars

LEMMA TypeCreateEntity == ASSUME TypeOK, NEW l \in Lanes, CreateEntity(l) PROVE TypeOK'
<1>1. PICK x \in ExternalIds : RemoteCreate(x, op[l].id) /\ Respond(l, x, 1)
  BY DEF CreateEntity
<1>2. op[l].id \in EntityIds \cup {None} /\ 1 \in Versions
  BY BoundAssumption DEF TypeOK, Ops, Workers, Versions
<1>. QED BY <1>1, <1>2, PcoType, TypeRespond

LEMMA TypeUpdateEntity == ASSUME TypeOK, NEW l \in Lanes, UpdateEntity(l) PROVE TypeOK'
<1>. DEFINE x == target[l]
<1>1. x \in ExternalIds
  BY DEF UpdateEntity, LiveIds
<1>2. /\ remoteVer' \in [ExternalIds -> Versions] /\ gone' \subseteq ExternalIds
      /\ author' \in [ExternalIds -> EntityIds \cup {None}] /\ events' \subseteq Events
  <2>1. CASE RemoteUpdate(x)
    BY <1>1, <2>1, PcoType
  <2>2. CASE UNCHANGED pcoVars
    BY <2>2 DEF TypeOK, pcoVars
  <2>. QED BY <2>1, <2>2 DEF UpdateEntity
<1>3. Respond(l, x, remoteVer'[x]) /\ remoteVer'[x] \in Versions
  BY <1>1, <1>2 DEF UpdateEntity
<1>. QED BY <1>1, <1>2, <1>3, TypeRespond

LEMMA TypeDeleteRemote == ASSUME TypeOK, NEW l \in Lanes, DeleteRemote(l) PROVE TypeOK'
<1>1. /\ remoteVer' \in [ExternalIds -> Versions] /\ gone' \subseteq ExternalIds
      /\ author' \in [ExternalIds -> EntityIds \cup {None}] /\ events' \subseteq Events
  BY PcoType DEF DeleteRemote, LiveIds
<1>2. pc' \in [Workers -> Steps]
  BY GotoType DEF TypeOK, DeleteRemote, Steps, Workers
<1>. QED BY <1>1, <1>2 DEF TypeOK, DeleteRemote, dbVars, batchVars, pushVars

LEMMA TypePushCompletes == ASSUME TypeOK, PushCompletes PROVE TypeOK'
<1>1. pc' \in [Workers -> Steps] /\ target' \in [Workers -> ExternalIds \cup {0}]
  BY DEF TypeOK, PushCompletes, Steps
<1>2. op' \in [Workers -> Ops]
  BY ConstantsTyped DEF PushCompletes
<1>3. attempt' \in [Workers -> 0 .. MaxRetries]
  BY BoundAssumption DEF TypeOK, PushCompletes
<1>. QED BY <1>1, <1>2, <1>3 DEF TypeOK, PushCompletes, pcoVars, dbVars, batchVars

-----------------------------------------------------------------------------
(* One step of the specification, by action. *)

LEMMA StepCases ==
  ASSUME NEW w \in Workers, Step(w) \/ Fail(w)
  PROVE \/ ProcessExternalLinks(w) \/ ProcessEntities(w)
        \/ LookupLink(w) \/ DeleteEntityId(w) \/ Retry(w)
        \/ w \in Syncers /\ (ListPage(w) \/ DetectAndMarkDeleted(w))
        \/ w \in Hooks /\ FetchRecord(w)
        \/ w \in Lanes /\ (\/ GetExternalLink(w) \/ CreateEntity(w)
                           \/ UpdateEntity(w) \/ DeleteRemote(w))
BY DEF Step, Fail, ProcessEntitiesFails, SyncStep, HookStep, LaneStep, RequestFails

LEMMA NextType == ASSUME TypeOK, [Next]_vars PROVE TypeOK'
<1>1. CASE OtherClient
  BY <1>1, TypeOtherClient
<1>2. CASE \E s \in Syncers : StartSync(s)
  BY <1>2, TypeStartSync
<1>3. CASE \E h \in Hooks, e \in events : Deliver(h, e)
  BY <1>3, TypeDeliver
<1>4. CASE PushArrives
  BY <1>4, TypePushArrives
<1>5. CASE PushCompletes
  BY <1>5, TypePushCompletes
<1>6. ASSUME NEW w \in Workers, Step(w) \/ Fail(w) PROVE TypeOK'
  BY <1>6, StepCases, TypeProcessExternalLinks, TypeProcessEntities, TypeLookupLink,
     TypeDeleteEntityId, TypeRetry, TypeListPage, TypeDetectAndMarkDeleted,
     TypeFetchRecord, TypeGetExternalLink, TypeCreateEntity, TypeUpdateEntity,
     TypeDeleteRemote
<1>7. CASE UNCHANGED vars
  BY <1>7 DEF TypeOK, vars
<1>. QED BY <1>1, <1>2, <1>3, <1>4, <1>5, <1>6, <1>7 DEF Next

(* The state always has the types TypeOK gives it. *)
THEOREM TypeCorrect == Spec => []TypeOK
<1>1. Init => TypeOK
  BY InitType
<1>2. TypeOK /\ [Next]_vars => TypeOK'
  BY NextType
<1>. QED BY <1>1, <1>2, PTL DEF Spec

-----------------------------------------------------------------------------
(* The inductive invariant.  Few actions touch links, changed or rows; the *)
(* others leave all of CapturedIds, LinksNameEntities and RowsFollowLinks  *)
(* as they are.                                                            *)

(* What every action does to the links: none disappears or changes hands.  *)
LinksKept ==
  \A x \in ExternalIds : links[x].st # "none" =>
    links'[x].st # "none" /\ links'[x].entityId = links[x].entityId

(* A new link names an entity. *)
LinksGrowSoundly ==
  \A x \in ExternalIds : links'[x].st # "none" <=> links'[x].entityId \in EntityIds

LEMMA DeletionKeepsLinks ==
  ASSUME IInv, links' \in [ExternalIds -> Links],
         \A x \in ExternalIds : \/ links'[x] = links[x]
                                \/ /\ links[x].st # "none"
                                   /\ links'[x] = [links[x] EXCEPT !.st = "deleted"]
  PROVE LinksKept /\ LinksGrowSoundly
<1>1. links \in [ExternalIds -> Links]
  BY DEF IInv, TypeOK
<1>2. \A r \in Links : /\ [r EXCEPT !.st = "deleted"].st = "deleted"
                       /\ [r EXCEPT !.st = "deleted"].entityId = r.entityId
  BY DEF Links
<1>3. LinksNameEntities
  BY DEF IInv
<1>. QED BY <1>1, <1>2, <1>3 DEF LinksKept, LinksGrowSoundly, LinksNameEntities

LEMMA UpsertKeepsLinks ==
  ASSUME IInv, NEW w \in Workers, ProcessExternalLinks(w)
  PROVE LinksKept /\ LinksGrowSoundly
<1>1. \A x \in ExternalIds : links[x] \in Links /\ ownerId[w] \in EntityIds \cup {None}
  BY DEF IInv, TypeOK
<1>2. \A x \in ExternalIds : InsertedId(w, x) \in EntityIds
  BY <1>1, IdAssumption DEF InsertedId
<1>3. ASSUME NEW x \in ExternalIds
      PROVE /\ UpsertedLink(w, x).st # "none"
            /\ UpsertedLink(w, x).entityId \in EntityIds
            /\ links[x].st # "none" => UpsertedLink(w, x).entityId = links[x].entityId
  <2>1. LinksNameEntities
    BY DEF IInv
  <2>. QED BY <1>1, <1>2, <2>1 DEF UpsertedLink, Links, LinksNameEntities
<1>4. \A x \in ExternalIds : links'[x] = IF InPage(w, x) THEN UpsertedLink(w, x) ELSE links[x]
  BY DEF ProcessExternalLinks
<1>5. LinksNameEntities
  BY DEF IInv
<1>. QED BY <1>3, <1>4, <1>5 DEF LinksKept, LinksGrowSoundly, LinksNameEntities

(* Every step keeps the links, and a new link names an entity. *)
LEMMA NextKeepsLinks ==
  ASSUME IInv, [Next]_vars
  PROVE LinksKept /\ LinksGrowSoundly
<1>0. LinksNameEntities /\ links \in [ExternalIds -> Links] /\ links' \in [ExternalIds -> Links]
  BY NextType DEF IInv, TypeOK
<1>1. ASSUME UNCHANGED links PROVE LinksKept /\ LinksGrowSoundly
  BY <1>0, <1>1 DEF LinksKept, LinksGrowSoundly, LinksNameEntities
<1>2. CASE OtherClient \/ PushArrives \/ PushCompletes \/ UNCHANGED vars
  BY <1>1, <1>2 DEF OtherClient, PushArrives, PushCompletes, dbVars, vars
<1>3. CASE \E s \in Syncers : StartSync(s)
  BY <1>1, <1>3 DEF StartSync, dbVars
<1>4. CASE \E h \in Hooks, e \in events : Deliver(h, e)
  BY <1>1, <1>4 DEF Deliver, dbVars
<1>5. ASSUME NEW w \in Workers, Step(w) \/ Fail(w) PROVE LinksKept /\ LinksGrowSoundly
  <2>1. CASE ProcessExternalLinks(w)
    BY <2>1, UpsertKeepsLinks
  <2>2. CASE DetectAndMarkDeleted(w)
    BY <1>0, <2>2, DeletionKeepsLinks DEF DetectAndMarkDeleted, StaleLinks
  <2>3. CASE DeleteEntityId(w)
    <3>1. CASE UNCHANGED links
      BY <1>1, <3>1
    <3>2. CASE EraseLinks(erasing[w].entityId)
      BY <1>0, <3>2, DeletionKeepsLinks DEF EraseLinks
    <3>. QED BY <2>3, <3>1, <3>2 DEF DeleteEntityId
  <2>4. CASE \/ ProcessEntities(w) \/ LookupLink(w) \/ Retry(w)
    BY <1>1, <2>4 DEF ProcessEntities, LookupLink, Retry, dbVars
  <2>5. CASE \/ ListPage(w) \/ FetchRecord(w) \/ GetExternalLink(w)
             \/ CreateEntity(w) \/ UpdateEntity(w) \/ DeleteRemote(w)
    BY <1>1, <2>5 DEF ListPage, FetchRecord, GetExternalLink, CreateEntity, UpdateEntity,
       DeleteRemote, Respond, dbVars
  <2>. QED BY <1>5, <2>1, <2>2, <2>3, <2>4, <2>5, StepCases
<1>. QED BY <1>2, <1>3, <1>4, <1>5 DEF Next

(* An activity captures ids only from the links it has just upserted.      *)
LEMMA CapturedIdsStep == ASSUME IInv, [Next]_vars PROVE CapturedIds'
<1>0. /\ CapturedIds /\ LinksKept
      /\ changed \in [Workers -> [ExternalIds -> EntityIds \cup {None}]]
  BY NextKeepsLinks DEF IInv, TypeOK
<1>1. ASSUME \A v \in Workers : \A x \in ExternalIds :
               changed'[v][x] # None => changed'[v][x] = changed[v][x]
      PROVE CapturedIds'
  BY <1>0, <1>1 DEF CapturedIds, LinksKept
<1>2. ASSUME UNCHANGED changed PROVE CapturedIds'
  BY <1>1, <1>2
<1>3. CASE OtherClient \/ PushArrives \/ PushCompletes \/ UNCHANGED vars
  BY <1>2, <1>3 DEF OtherClient, PushArrives, PushCompletes, batchVars, vars
<1>4. CASE \E s \in Syncers : StartSync(s)
  BY <1>2, <1>4 DEF StartSync, batchVars
<1>5. CASE \E h \in Hooks, e \in events : Deliver(h, e)
  BY <1>2, <1>5 DEF Deliver, batchVars
<1>6. ASSUME NEW w \in Workers, Step(w) \/ Fail(w) PROVE CapturedIds'
  <2>1. CASE ProcessExternalLinks(w)
    <3>1. ASSUME NEW v \in Workers, NEW x \in ExternalIds, changed'[v][x] # None
          PROVE links'[x].st # "none" /\ links'[x].entityId = changed'[v][x]
      <4>1. CASE v = w
        <5>1. changed'[w][x] = IF x \in Changed(w) THEN UpsertedLink(w, x).entityId ELSE None
          BY <1>0, <2>1 DEF ProcessExternalLinks, ReturnedId
        <5>2. x \in Changed(w) /\ InPage(w, x)
          BY <3>1, <4>1, <5>1 DEF Changed, Bumped
        <5>3. links'[x] = UpsertedLink(w, x)
          BY <2>1, <5>2 DEF ProcessExternalLinks
        <5>4. links'[x].entityId \in EntityIds
          <6>1. UpsertedLink(w, x) \in Links
            BY UpsertedLinkType DEF IInv
          <6>. QED BY <3>1, <4>1, <5>1, <5>2, <5>3, <6>1 DEF Links
        <5>. QED BY <4>1, <5>1, <5>2, <5>3, <5>4, NextKeepsLinks DEF LinksGrowSoundly
      <4>2. CASE v # w
        <5>1. changed'[v][x] = changed[v][x]
          BY <1>0, <2>1, <4>2 DEF ProcessExternalLinks
        <5>. QED BY <1>0, <3>1, <5>1 DEF CapturedIds, LinksKept
      <4>. QED BY <4>1, <4>2
    <3>. QED BY <3>1 DEF CapturedIds
  <2>2. CASE ProcessEntities(w)
    BY <1>0, <1>1, <2>2 DEF ProcessEntities, NothingChanged
  <2>3. CASE Retry(w)
    BY <1>0, <1>1, <2>3 DEF Retry, NothingChanged
  <2>4. CASE LookupLink(w) \/ DeleteEntityId(w) \/ DetectAndMarkDeleted(w)
    BY <1>2, <2>4 DEF LookupLink, DeleteEntityId, DetectAndMarkDeleted, batchVars
  <2>5. CASE \/ ListPage(w) \/ FetchRecord(w) \/ GetExternalLink(w)
             \/ CreateEntity(w) \/ UpdateEntity(w) \/ DeleteRemote(w)
    BY <1>2, <2>5 DEF ListPage, FetchRecord, GetExternalLink, CreateEntity, UpdateEntity,
       DeleteRemote, Respond, batchVars
  <2>. QED BY <1>6, <2>1, <2>2, <2>3, <2>4, <2>5, StepCases
<1>. QED BY <1>3, <1>4, <1>5, <1>6 DEF Next

(* Rows take the data of records only where their links say so. *)
LEMMA RowsStep ==
  ASSUME IInv, [Next]_vars
  PROVE \A e \in EntityIds : \/ rows'[e].of = rows[e].of
                             \/ /\ rows'[e].of \in ExternalIds
                                /\ links[rows'[e].of].st # "none"
                                /\ links[rows'[e].of].entityId = e
                                /\ UNCHANGED links
<1>0. rows \in [EntityIds -> Rows] /\ CapturedIds
  BY DEF IInv, TypeOK
<1>1. ASSUME UNCHANGED rows PROVE \A e \in EntityIds : rows'[e].of = rows[e].of
  BY <1>1
<1>2. CASE OtherClient \/ PushCompletes \/ UNCHANGED vars
  BY <1>1, <1>2 DEF OtherClient, PushCompletes, dbVars, vars
<1>3. CASE PushArrives
  <2>1. PICK o \in [Lanes -> Ops] : rows' = [e \in EntityIds |-> LocalRow(o, e)]
    BY <1>3 DEF PushArrives
  <2>2. \A r \in Rows, s \in {"live", "deleted"} : [r EXCEPT !.st = s, !.ver = 0].of = r.of
    BY DEF Rows
  <2>. QED BY <1>0, <2>1, <2>2 DEF LocalRow
<1>4. CASE \E s \in Syncers : StartSync(s)
  BY <1>1, <1>4 DEF StartSync, dbVars
<1>5. CASE \E h \in Hooks, e \in events : Deliver(h, e)
  BY <1>1, <1>5 DEF Deliver, dbVars
<1>6. ASSUME NEW w \in Workers, Step(w) \/ Fail(w), NEW e \in EntityIds
      PROVE \/ rows'[e].of = rows[e].of
            \/ /\ rows'[e].of \in ExternalIds
               /\ links[rows'[e].of].st # "none"
               /\ links[rows'[e].of].entityId = e
               /\ UNCHANGED links
  <2>1. CASE ProcessEntities(w)
    <3>1. CASE \E x \in ExternalIds : changed[w][x] = e
      <4>1. PICK x \in ExternalIds : /\ changed[w][x] = e
                                     /\ x = CHOOSE y \in ExternalIds : changed[w][y] = e
        BY <3>1
      <4>2. rows'[e].of = x
        BY <2>1, <3>1, <4>1 DEF ProcessEntities, WrittenRow
      <4>3. e # None
        BY IdAssumption
      <4>. QED BY <1>0, <2>1, <4>1, <4>2, <4>3 DEF ProcessEntities, CapturedIds
    <3>2. CASE ~ \E x \in ExternalIds : changed[w][x] = e
      BY <2>1, <3>2 DEF ProcessEntities
    <3>. QED BY <3>1, <3>2
  <2>2. CASE DeleteEntityId(w)
    <3>1. \A r \in Rows : [r EXCEPT !.st = IF @ = "none" THEN "none" ELSE "deleted"].of = r.of
      BY DEF Rows
    <3>2. CASE UNCHANGED rows
      BY <3>2
    <3>3. CASE EraseRow(erasing[w].entityId)
      <4>1. \/ rows'[e] = rows[e]
            \/ rows'[e] = [rows[e] EXCEPT !.st = IF @ = "none" THEN "none" ELSE "deleted"]
        BY <1>0, <3>3 DEF EraseRow
      <4>2. rows[e] \in Rows
        BY <1>0
      <4>. QED BY <3>1, <4>1, <4>2
    <3>. QED BY <2>2, <3>2, <3>3 DEF DeleteEntityId
  <2>3. CASE ProcessExternalLinks(w) \/ Retry(w) \/ LookupLink(w) \/ DetectAndMarkDeleted(w)
    BY <1>1, <2>3 DEF ProcessExternalLinks, Retry, LookupLink, DetectAndMarkDeleted, dbVars
  <2>4. CASE \/ ListPage(w) \/ FetchRecord(w) \/ GetExternalLink(w)
             \/ CreateEntity(w) \/ UpdateEntity(w) \/ DeleteRemote(w)
    BY <1>1, <2>4 DEF ListPage, FetchRecord, GetExternalLink, CreateEntity, UpdateEntity,
       DeleteRemote, Respond, dbVars
  <2>. QED BY <1>6, <2>1, <2>2, <2>3, <2>4, StepCases
<1>. QED BY <1>2, <1>3, <1>4, <1>5, <1>6 DEF Next

LEMMA RowsFollowLinksStep == ASSUME IInv, [Next]_vars PROVE RowsFollowLinks'
<1>0. /\ RowsFollowLinks /\ LinksKept
      /\ \A e \in EntityIds : rows[e].of \in ExternalIds \cup {0}
  BY NextKeepsLinks DEF IInv, TypeOK, Rows
<1>1. ASSUME NEW e \in EntityIds, rows'[e].of # 0
      PROVE links'[rows'[e].of].st # "none" /\ links'[rows'[e].of].entityId = e
  <2>1. CASE rows'[e].of = rows[e].of
    BY <1>0, <1>1, <2>1 DEF RowsFollowLinks, LinksKept
  <2>2. CASE rows'[e].of # rows[e].of
    BY <2>2, RowsStep
  <2>. QED BY <2>1, <2>2
<1>. QED BY <1>1 DEF RowsFollowLinks

LEMMA InitIInv == Init => IInv
BY InitType, IdAssumption DEF Init, IInv, LinksNameEntities, CapturedIds, RowsFollowLinks,
   NoLink, NoRow, NothingChanged

LEMMA NextIInv == IInv /\ [Next]_vars => IInv'
<1>. SUFFICES ASSUME IInv, [Next]_vars PROVE IInv'
  OBVIOUS
<1>1. TypeOK'
  BY NextType DEF IInv
<1>2. LinksNameEntities'
  BY NextKeepsLinks DEF LinksGrowSoundly, LinksNameEntities
<1>. QED BY <1>1, <1>2, CapturedIdsStep, RowsFollowLinksStep DEF IInv

(* processEntities never writes a row under an id the link does not have.  *)
THEOREM CapturedIdsStayValid == Spec => []CapturedIds
<1>1. IInv => CapturedIds
  BY DEF IInv
<1>. QED BY <1>1, InitIInv, NextIInv, PTL DEF Spec

(* No PCO record is ever spread over two entities. *)
THEOREM RowsAlwaysFollowLinks == Spec => []RowsFollowLinks
<1>1. IInv => RowsFollowLinks
  BY DEF IInv
<1>. QED BY <1>1, InitIInv, NextIInv, PTL DEF Spec

(* A link keeps its entity whatever activities run and fail. *)
THEOREM LinksKeepTheirEntity == Spec => LinkIdentity
<1>1. IInv /\ [Next]_vars =>
        [\A x \in ExternalIds : links[x].st # "none" =>
           links'[x].st # "none" /\ links'[x].entityId = links[x].entityId]_vars
  BY NextKeepsLinks DEF LinksKept
<1>. QED BY <1>1, InitIInv, NextIInv, PTL DEF Spec, LinkIdentity

-----------------------------------------------------------------------------
(* The refinement of the abstract table. *)

LEMMA InitRefines == Init => Identity!Init
BY DEF Init, Identity!Init, NoLink, NoRow

LEMMA NextRefines == IInv /\ [Next]_vars => [Identity!Next]_(Identity!vars)
<1>. SUFFICES ASSUME IInv, [Next]_vars PROVE Identity!Next \/ UNCHANGED Identity!vars
  OBVIOUS
<1>. DEFINE owner == [x \in ExternalIds |-> links[x].entityId]
            shown == [e \in EntityIds |-> rows[e].of]
<1>0. /\ TypeOK' /\ LinksNameEntities /\ LinksKept
      /\ \A x \in ExternalIds : links[x].entityId \in EntityIds \cup {None}
      /\ \A x \in ExternalIds : links'[x].entityId \in EntityIds \cup {None}
      /\ \A e \in EntityIds : rows'[e].of \in ExternalIds \cup {0}
  BY NextType, NextKeepsLinks DEF IInv, TypeOK, Links, Rows
<1>1. CASE \A e \in EntityIds : rows'[e].of = rows[e].of
  <2>1. shown' = shown
    BY <1>1
  <2>2. owner' \in [ExternalIds -> EntityIds \cup {None}]
    BY <1>0
  <2>3. \A x \in ExternalIds : owner[x] # None => owner'[x] = owner[x]
    BY <1>0 DEF LinksKept, LinksNameEntities
  <2>. QED BY <2>1, <2>2, <2>3 DEF Identity!Next, Identity!Assign
<1>2. CASE ~ \A e \in EntityIds : rows'[e].of = rows[e].of
  <2>1. UNCHANGED links
    BY <1>2, RowsStep
  <2>2. owner' = owner
    BY <2>1
  <2>3. shown' \in [EntityIds -> ExternalIds \cup {0}]
    BY <1>0
  <2>4. \A e \in EntityIds : \/ shown'[e] = shown[e]
                             \/ \E x \in ExternalIds : owner[x] = e /\ shown'[e] = x
    BY RowsStep
  <2>. QED BY <2>2, <2>3, <2>4 DEF Identity!Next, Identity!Show
<1>. QED BY <1>1, <1>2

(* The sync engine implements what docs/ExternalLinks.md promises. *)
THEOREM ImplementsIdentity == Spec => IdentitySpec
<1>. QED BY InitRefines, InitIInv, NextIInv, NextRefines, PTL
         DEF Spec, IdentitySpec, Identity!Spec

-----------------------------------------------------------------------------
(* The properties that need an assumption on how the activities run.       *)
(* Pushes of one mutation at a time never give an entity a second live     *)
(* link; activities that neither overlap nor fail leave every row as its   *)
(* link describes it and never make it older; and without full syncs, an   *)
(* entity pushed to PCO is linked or a webhook was first.  Each assumption *)
(* is the condition of the run that checks the property on a small         *)
(* instance.                                                               *)

(* Pushes of one mutation at a time.  The lane looks for a live link, asks *)
(* PCO, and upserts the link of the answer, with anything in between.      *)

(* Only a push hands an entity id over with the record. *)
OnlyLanesOwn == \A w \in Workers : w \notin Lanes => ownerId[w] = None

(* The answer is one record: it is linked, or its entity has no live link. *)
AnswerFits(l, z) ==
  /\ \A x \in ExternalIds : InPage(l, x) => x = z
  /\ links[z].st # "none" \/ (ownerId[l] \in LocalIds => LiveLinksOf(ownerId[l]) = {})

(* A lane creates a record for an entity without a live link only, updates *)
(* the record of a link, and upserts the one record of the answer.         *)
LaneFacts(l) ==
  /\ pc[l] = "create" /\ op[l].id \in LocalIds => LiveLinksOf(op[l].id) = {}
  /\ pc[l] = "update" => target[l] \in ExternalIds /\ links[target[l]].st # "none"
  /\ pc[l] = "links" => \E z \in ExternalIds : AnswerFits(l, z)

LaneInv == /\ OnlyLanesOwn /\ AtMostOneLiveLink
           /\ \A l \in Lanes : LaneFacts(l)

(* No local entity gets another live link. *)
NoNewLiveLinks ==
  \A x \in ExternalIds : links'[x].st = "live" /\ links'[x].entityId \in LocalIds =>
    links[x].st = "live" /\ links[x].entityId = links'[x].entityId

LEMMA LiveLinksShrink ==
  ASSUME NoNewLiveLinks, NEW e \in LocalIds
  PROVE LiveLinksOf(e)' \subseteq LiveLinksOf(e)
BY DEF NoNewLiveLinks, LiveLinksOf

(* Deleting links, and leaving them alone, adds none. *)
LEMMA DeletionAddsNone ==
  ASSUME IInv,
         \A x \in ExternalIds : \/ links'[x] = links[x]
                                \/ links'[x] = [links[x] EXCEPT !.st = "deleted"]
  PROVE NoNewLiveLinks
<1>1. \A x \in ExternalIds : links[x] \in Links
  BY DEF IInv, TypeOK
<1>2. \A r \in Links : [r EXCEPT !.st = "deleted"].st = "deleted"
  BY DEF Links
<1>. QED BY <1>1, <1>2 DEF NoNewLiveLinks

(* The upsert of an activity that hands no local id over adds none either: *)
(* minted ids are not local, and a deleted link stays deleted.             *)
LEMMA UpsertAddsOnlyOwn ==
  ASSUME IInv, NEW w \in Workers, ProcessExternalLinks(w), NEW x \in ExternalIds,
         links'[x].st = "live", links'[x].entityId \in LocalIds
  PROVE \/ links[x].st = "live" /\ links[x].entityId = links'[x].entityId
        \/ /\ InPage(w, x) /\ links[x].st = "none"
           /\ links'[x].entityId = ownerId[w]
<1>1. links[x] \in Links /\ page[w][x] \in Versions
  BY DEF IInv, TypeOK
<1>2. links'[x] = IF InPage(w, x) THEN UpsertedLink(w, x) ELSE links[x]
  BY DEF ProcessExternalLinks
<1>3. CASE ~ InPage(w, x)
  BY <1>2, <1>3
<1>4. CASE InPage(w, x) /\ links[x].st = "none"
  <2>1. links'[x].entityId = InsertedId(w, x)
    BY <1>2, <1>4 DEF UpsertedLink
  <2>2. MintedId[x][w] \notin LocalIds
    BY IdAssumption
  <2>. QED BY <1>4, <2>1, <2>2 DEF InsertedId
<1>5. CASE InPage(w, x) /\ links[x].st # "none"
  <2>1. links'[x] = [links[x] EXCEPT !.updatedAt = page[w][x]]
    BY <1>2, <1>5 DEF UpsertedLink
  <2>2. \A r \in Links, v \in Versions : /\ [r EXCEPT !.updatedAt = v].st = r.st
                                         /\ [r EXCEPT !.updatedAt = v].entityId = r.entityId
    BY DEF Links
  <2>. QED BY <1>1, <2>1, <2>2
<1>. QED BY <1>3, <1>4, <1>5

(* Every step but a lane's upsert adds no live link of a local entity. *)
LEMMA OnlyLaneUpsertsAdd ==
  ASSUME IInv, OnlyLanesOwn, [Next]_vars,
         ~ \E l \in Lanes : ProcessExternalLinks(l)
  PROVE NoNewLiveLinks
<1>0. ASSUME UNCHANGED links PROVE NoNewLiveLinks
  BY <1>0 DEF NoNewLiveLinks
<1>1. CASE OtherClient \/ PushArrives \/ PushCompletes \/ UNCHANGED vars
  BY <1>0, <1>1 DEF OtherClient, PushArrives, PushCompletes, dbVars, vars
<1>2. CASE \E s \in Syncers : StartSync(s)
  BY <1>0, <1>2 DEF StartSync, dbVars
<1>3. CASE \E h \in Hooks, e \in events : Deliver(h, e)
  BY <1>0, <1>3 DEF Deliver, dbVars
<1>4. ASSUME NEW w \in Workers, Step(w) \/ Fail(w) PROVE NoNewLiveLinks
  <2>1. CASE ProcessExternalLinks(w)
    <3>1. ownerId[w] = None /\ None \notin LocalIds
      BY <2>1, IdAssumption DEF OnlyLanesOwn, EntityIds
    <3>. QED BY <2>1, <3>1, UpsertAddsOnlyOwn DEF NoNewLiveLinks
  <2>2. CASE DetectAndMarkDeleted(w)
    BY <2>2, DeletionAddsNone DEF DetectAndMarkDeleted
  <2>3. CASE DeleteEntityId(w)
    <3>1. CASE EraseLinks(erasing[w].entityId)
      BY <3>1, DeletionAddsNone DEF EraseLinks
    <3>. QED BY <1>0, <2>3, <3>1 DEF DeleteEntityId
  <2>4. CASE ProcessEntities(w) \/ LookupLink(w) \/ Retry(w)
    BY <1>0, <2>4 DEF ProcessEntities, LookupLink, Retry, dbVars
  <2>5. CASE \/ ListPage(w) \/ FetchRecord(w) \/ GetExternalLink(w)
             \/ CreateEntity(w) \/ UpdateEntity(w) \/ DeleteRemote(w)
    BY <1>0, <2>5 DEF ListPage, FetchRecord, GetExternalLink, CreateEntity, UpdateEntity,
       DeleteRemote, Respond, dbVars
  <2>. QED BY <1>4, <2>1, <2>2, <2>3, <2>4, <2>5, StepCases
<1>. QED BY <1>1, <1>2, <1>3, <1>4 DEF Next

(* What a lane knows survives a step that leaves the lane where it is and  *)
(* adds no live link.                                                      *)
LaneRests(l) == /\ pc'[l] = pc[l] /\ op'[l] = op[l] /\ target'[l] = target[l]
                /\ page'[l] = page[l] /\ ownerId'[l] = ownerId[l]

LEMMA RestingLaneKeepsFacts ==
  ASSUME NEW l \in Lanes, LaneFacts(l), LaneRests(l), NoNewLiveLinks, LinksKept
  PROVE LaneFacts(l)'
<1>1. ASSUME pc'[l] = "create", op'[l].id \in LocalIds PROVE (LiveLinksOf(op[l].id) = {})'
  <2>1. PICK e \in LocalIds : e = op[l].id
    BY <1>1 DEF LaneRests
  <2>2. LiveLinksOf(e)' = {}
    BY <1>1, <2>1, LiveLinksShrink DEF LaneFacts, LaneRests
  <2>. QED BY <2>1, <2>2 DEF LaneRests, LiveLinksOf
<1>2. ASSUME pc'[l] = "update"
      PROVE target'[l] \in ExternalIds /\ links'[target'[l]].st # "none"
  BY <1>2 DEF LaneFacts, LaneRests, LinksKept
<1>3. ASSUME pc'[l] = "links" PROVE \E z \in ExternalIds : AnswerFits(l, z)'
  <2>1. PICK z \in ExternalIds : AnswerFits(l, z)
    BY <1>3 DEF LaneFacts, LaneRests
  <2>2. \A x \in ExternalIds : page'[l][x] > 0 => x = z
    BY <2>1 DEF AnswerFits, InPage, LaneRests
  <2>3. ASSUME links[z].st = "none", ownerId[l] \in LocalIds
        PROVE LiveLinksOf(ownerId[l])' = {}
    <3>1. PICK e \in LocalIds : e = ownerId[l]
      BY <2>3
    <3>2. LiveLinksOf(e)' = {}
      BY <2>1, <2>3, <3>1, LiveLinksShrink DEF AnswerFits
    <3>. QED BY <3>1, <3>2 DEF LaneRests, LiveLinksOf
  <2>4. links[z].st # "none" => links'[z].st # "none"
    BY DEF LinksKept
  <2>5. ownerId'[l] = ownerId[l]
    BY DEF LaneRests
  <2>. QED BY <2>2, <2>3, <2>4, <2>5 DEF AnswerFits, InPage
<1>. QED BY <1>1, <1>2, <1>3 DEF LaneFacts

(* The steps that are not the lane's leave it where it is. *)
LEMMA OthersLeaveLane ==
  ASSUME IInv, NEW l \in Lanes, NEW w \in Workers \ Lanes, Step(w) \/ Fail(w)
  PROVE LaneRests(l)
<1>0. /\ l \in Workers /\ l # w
      /\ pc \in [Workers -> Steps] /\ page \in [Workers -> [ExternalIds -> Versions]]
      /\ ownerId \in [Workers -> EntityIds \cup {None}] /\ op \in [Workers -> Ops]
      /\ target \in [Workers -> ExternalIds \cup {0}]
  BY DEF Workers, IInv, TypeOK
<1>1. CASE ProcessExternalLinks(w)
  BY <1>0, <1>1 DEF ProcessExternalLinks, Goto, LaneRests, pushVars
<1>2. CASE ProcessEntities(w)
  BY <1>0, <1>2 DEF ProcessEntities, Finish, Goto, LaneRests, pushVars
<1>3. CASE LookupLink(w)
  BY <1>0, <1>3 DEF LookupLink, Finish, Goto, LaneRests, pushVars, batchVars
<1>4. CASE DeleteEntityId(w)
  BY <1>0, <1>4 DEF DeleteEntityId, Finish, Goto, LaneRests, pushVars, batchVars
<1>5. CASE Retry(w)
  BY <1>0, <1>5 DEF Retry, Mates, LaneRests
<1>6. CASE ListPage(w) \/ FetchRecord(w)
  BY <1>0, <1>6 DEF ListPage, FetchRecord, Goto, LaneRests, pushVars
<1>7. CASE DetectAndMarkDeleted(w)
  BY <1>0, <1>7 DEF DetectAndMarkDeleted, Finish, Goto, LaneRests, pushVars, batchVars
<1>. QED BY <1>1, <1>2, <1>3, <1>4, <1>5, <1>6, <1>7, StepCases

(* The lane's own steps establish what the next of them relies on. *)
LEMMA LaneStepFacts ==
  ASSUME IInv, NEW l \in Lanes, LaneFacts(l), Step(l) \/ Fail(l)
  PROVE LaneFacts(l)'
<1>0. /\ l \in Workers /\ l \notin Syncers /\ l \notin Hooks
      /\ pc \in [Workers -> Steps] /\ page \in [Workers -> [ExternalIds -> Versions]]
      /\ ownerId \in [Workers -> EntityIds \cup {None}] /\ op \in [Workers -> Ops]
      /\ target \in [Workers -> ExternalIds \cup {0}]
  BY WorkerAssumption DEF Workers, IInv, TypeOK
<1>a. ASSUME pc'[l] \notin {"create", "update", "links"} PROVE LaneFacts(l)'
  BY <1>a DEF LaneFacts
<1>1. CASE ProcessExternalLinks(l)
  BY <1>0, <1>1, <1>a DEF ProcessExternalLinks, Goto
<1>2. CASE ProcessEntities(l)
  BY <1>0, <1>2, <1>a DEF ProcessEntities, Finish, Goto
<1>3. CASE LookupLink(l)
  BY <1>0, <1>3, <1>a DEF LookupLink, Finish, Goto
<1>4. CASE DeleteEntityId(l)
  BY <1>0, <1>4, <1>a DEF DeleteEntityId, Finish, Goto
<1>5. CASE Retry(l)
  <2>1. CASE l \in Mates(l)
    BY <1>0, <1>5, <1>a, <2>1 DEF Retry, FirstStep
  <2>2. CASE l \notin Mates(l)
    <3>1. LaneRests(l)
      BY <1>0, <1>5, <2>2 DEF Retry, LaneRests
    <3>2. NoNewLiveLinks /\ LinksKept
      BY <1>5 DEF Retry, dbVars, NoNewLiveLinks, LinksKept
    <3>. QED BY <3>1, <3>2, RestingLaneKeepsFacts
  <2>. QED BY <2>1, <2>2
<1>6. CASE DeleteRemote(l)
  BY <1>0, <1>6, <1>a DEF DeleteRemote, Goto
<1>7. CASE GetExternalLink(l)
  <2>1. UNCHANGED <<links, op>>
    BY <1>7 DEF GetExternalLink, dbVars
  <2>2. CASE LiveLinksOf(op[l].id) = {} /\ pc'[l] \in {"done", "create"}
    BY <2>1, <2>2 DEF LaneFacts, LiveLinksOf
  <2>3. ASSUME NEW x \in LiveLinksOf(op[l].id), target'[l] = x, pc'[l] \in {"remove", "update"}
        PROVE LaneFacts(l)'
    BY <2>1, <2>3 DEF LaneFacts, LiveLinksOf
  <2>. QED BY <1>0, <1>7, <2>2, <2>3 DEF GetExternalLink, Goto
<1>8. CASE CreateEntity(l)
  <2>1. PICK x \in ExternalIds : Respond(l, x, 1)
    BY <1>8 DEF CreateEntity
  <2>2. /\ UNCHANGED links /\ pc'[l] = "links" /\ ownerId'[l] = op[l].id
        /\ \A y \in ExternalIds : page'[l][y] > 0 => y = x
    BY <1>0, <2>1 DEF Respond, Goto, dbVars, EmptyPage
  <2>3. op[l].id \in LocalIds => LiveLinksOf(op[l].id) = {}
    BY <1>8 DEF CreateEntity, LaneFacts
  <2>4. AnswerFits(l, x)'
    BY <2>2, <2>3 DEF AnswerFits, InPage, LiveLinksOf
  <2>. QED BY <2>2, <2>4 DEF LaneFacts
<1>9. CASE UpdateEntity(l)
  <2>1. PICK x \in ExternalIds : x = target[l] /\ Respond(l, x, remoteVer'[x])
    BY <1>9 DEF UpdateEntity, LiveIds
  <2>2. /\ UNCHANGED links /\ pc'[l] = "links"
        /\ \A y \in ExternalIds : page'[l][y] > 0 => y = x
    BY <1>0, <2>1 DEF Respond, Goto, dbVars, EmptyPage
  <2>3. links[x].st # "none"
    BY <1>9, <2>1 DEF UpdateEntity, LaneFacts
  <2>4. AnswerFits(l, x)'
    BY <2>2, <2>3 DEF AnswerFits, InPage
  <2>. QED BY <2>2, <2>4 DEF LaneFacts
<1>. QED BY <1>0, <1>1, <1>2, <1>3, <1>4, <1>5, <1>6, <1>7, <1>8, <1>9, StepCases

OneLane == \A k, l \in Lanes : k = l

LEMMA LaneFactsStep ==
  ASSUME OneLane, IInv, LaneInv, [Next]_vars, NEW l \in Lanes
  PROVE LaneFacts(l)'
<1>0. /\ LaneFacts(l) /\ LinksKept /\ l \in Workers /\ l \notin Syncers /\ l \notin Hooks
      /\ pc \in [Workers -> Steps]
  BY NextKeepsLinks, WorkerAssumption DEF LaneInv, Workers, IInv, TypeOK
<1>a. ASSUME pc'[l] \notin {"create", "update", "links"} PROVE LaneFacts(l)'
  BY <1>a DEF LaneFacts
<1>1. CASE ProcessExternalLinks(l)
  BY <1>0, <1>1, <1>a DEF ProcessExternalLinks, Goto
<1>2. CASE ~ ProcessExternalLinks(l)
  <2>0. NoNewLiveLinks
    BY <1>2, OnlyLaneUpsertsAdd DEF OneLane, LaneInv
  <2>1. ASSUME LaneRests(l) PROVE LaneFacts(l)'
    BY <1>0, <2>0, <2>1, RestingLaneKeepsFacts
  <2>2. CASE OtherClient \/ UNCHANGED vars
    BY <2>1, <2>2 DEF OtherClient, vars, LaneRests
  <2>3. CASE \E s \in Syncers : StartSync(s)
    BY <1>0, <2>1, <2>3 DEF StartSync, Goto, batchVars, pushVars, LaneRests
  <2>4. CASE \E h \in Hooks, e \in events : Deliver(h, e)
    BY <1>0, <2>1, <2>4 DEF Deliver, Goto, batchVars, pushVars, LaneRests
  <2>5. CASE PushArrives
    <3>1. pc'[l] \in {"find", "idle"}
      BY <1>0, <2>5 DEF PushArrives
    <3>. QED BY <1>a, <3>1
  <2>6. CASE PushCompletes
    BY <1>0, <1>a, <2>6 DEF PushCompletes
  <2>7. ASSUME NEW w \in Workers, Step(w) \/ Fail(w) PROVE LaneFacts(l)'
    BY <1>0, <2>1, <2>7, OthersLeaveLane, LaneStepFacts DEF OneLane
  <2>. QED BY <2>2, <2>3, <2>4, <2>5, <2>6, <2>7 DEF Next
<1>. QED BY <1>1, <1>2

LEMMA OnlyLanesOwnStep == ASSUME IInv, OnlyLanesOwn, [Next]_vars PROVE OnlyLanesOwn'
<1>0. ownerId \in [Workers -> EntityIds \cup {None}]
  BY DEF IInv, TypeOK
<1>1. CASE OtherClient \/ PushArrives \/ PushCompletes \/ UNCHANGED vars
  BY <1>1 DEF OnlyLanesOwn, OtherClient, PushArrives, PushCompletes, batchVars, vars
<1>2. CASE \E s \in Syncers : StartSync(s)
  BY <1>2 DEF OnlyLanesOwn, StartSync, batchVars
<1>3. CASE \E h \in Hooks, e \in events : Deliver(h, e)
  BY <1>3 DEF OnlyLanesOwn, Deliver, batchVars
<1>4. ASSUME NEW w \in Workers, Step(w) \/ Fail(w) PROVE OnlyLanesOwn'
  <2>1. CASE ProcessEntities(w) \/ Retry(w)
    BY <1>0, <2>1 DEF OnlyLanesOwn, ProcessEntities, Retry
  <2>2. CASE w \in Lanes /\ (CreateEntity(w) \/ UpdateEntity(w))
    BY <1>0, <2>2 DEF OnlyLanesOwn, CreateEntity, UpdateEntity, Respond
  <2>3. CASE \/ ProcessExternalLinks(w) \/ LookupLink(w) \/ DeleteEntityId(w) \/ ListPage(w)
             \/ DetectAndMarkDeleted(w) \/ FetchRecord(w) \/ GetExternalLink(w) \/ DeleteRemote(w)
    BY <2>3 DEF OnlyLanesOwn, ProcessExternalLinks, LookupLink, DeleteEntityId, ListPage,
       DetectAndMarkDeleted, FetchRecord, GetExternalLink, DeleteRemote, batchVars
  <2>. QED BY <1>4, <2>1, <2>2, <2>3, StepCases
<1>. QED BY <1>1, <1>2, <1>3, <1>4 DEF Next

LEMMA OneLiveLinkStep ==
  ASSUME OneLane, IInv, LaneInv, [Next]_vars PROVE AtMostOneLiveLink'
<1>1. CASE \E l \in Lanes : ProcessExternalLinks(l)
  <2>1. PICK l \in Lanes : ProcessExternalLinks(l)
    BY <1>1
  <2>2. PICK z \in ExternalIds : AnswerFits(l, z)
    BY <2>1 DEF LaneInv, LaneFacts, ProcessExternalLinks
  <2>3. SUFFICES ASSUME NEW e \in LocalIds, NEW x \in LiveLinksOf(e)', NEW y \in LiveLinksOf(e)'
                 PROVE x = y
    BY DEF AtMostOneLiveLink
  <2>4. ASSUME NEW u \in LiveLinksOf(e)'
        PROVE u \in LiveLinksOf(e) \/ (u = z /\ LiveLinksOf(e) = {})
    <3>1. /\ u \in ExternalIds /\ links'[u].st = "live" /\ links'[u].entityId = e
      BY <2>4 DEF LiveLinksOf
    <3>2. \/ links[u].st = "live" /\ links[u].entityId = e
          \/ InPage(l, u) /\ links[u].st = "none" /\ e = ownerId[l]
      BY <2>1, <3>1, UpsertAddsOnlyOwn DEF Workers
    <3>. QED BY <2>2, <3>1, <3>2 DEF AnswerFits, LiveLinksOf
  <2>5. \A u, v \in LiveLinksOf(e) : u = v
    BY DEF LaneInv, AtMostOneLiveLink
  <2>. QED BY <2>4, <2>5
<1>2. CASE ~ \E l \in Lanes : ProcessExternalLinks(l)
  <2>1. NoNewLiveLinks
    BY <1>2, OnlyLaneUpsertsAdd DEF LaneInv
  <2>. QED BY <2>1, LiveLinksShrink DEF LaneInv, AtMostOneLiveLink
<1>. QED BY <1>1, <1>2

(* With one mutation per push, an entity created here never gets a second  *)
(* live link, whatever full syncs and webhooks run beside the push and     *)
(* however often any of them fails: getExternalLink has no choice to make. *)
THEOREM PushesLinkOnce == ASSUME OneLane PROVE Spec => []AtMostOneLiveLink
<1>1. Init => IInv /\ LaneInv
  <2>1. Init => LaneInv
    BY DEF Init, LaneInv, OnlyLanesOwn, AtMostOneLiveLink, LaneFacts, LiveLinksOf, NoLink, Workers
  <2>. QED BY <2>1, InitIInv
<1>2. IInv /\ LaneInv /\ [Next]_vars => (IInv /\ LaneInv)'
  BY NextIInv, LaneFactsStep, OnlyLanesOwnStep, OneLiveLinkStep DEF LaneInv
<1>3. LaneInv => AtMostOneLiveLink
  BY DEF LaneInv
<1>. QED BY <1>1, <1>2, <1>3, PTL DEF Spec

-----------------------------------------------------------------------------
(* Activities that do not overlap and do not fail.  The link upsert and    *)
(* the row insert are two statements; what the first has said of a record  *)
(* and the second not yet written is in changed.                           *)

OneAtATime == Serial = TRUE /\ FailureProne = {} /\ Lanes = {}

OneActive == \A v, w \in Workers : Active(v) /\ Active(w) => v = w
NothingPushed == \A w \in Workers : op[w].kind = "none" /\ ownerId[w] = None

(* Links name minted ids, so that no two of them name the same entity. *)
LinkMinted(x) == IF links[x].st = "none" THEN links[x] = NoLink
                 ELSE \E v \in Workers : links[x].entityId = MintedId[x][v]
LinksMinted == \A x \in ExternalIds : LinkMinted(x)

Pending(w, x) == changed[w][x] # None
PendingFits == \A w \in Workers, x \in ExternalIds :
  Pending(w, x) => pc[w] = "rows" /\ page[w][x] = links[x].updatedAt

Matches(x) == LET r == rows[links[x].entityId] IN
  r.st # "none" /\ r.of = x /\ r.ver = links[x].updatedAt
Settled == \A x \in Linked : Matches(x) \/ \E w \in Workers : Pending(w, x)

SerialInv == OneActive /\ NothingPushed /\ LinksMinted /\ PendingFits /\ Settled

LEMMA LinksDiffer ==
  ASSUME LinksMinted, NEW x \in Linked, NEW y \in Linked,
         links[x].entityId = links[y].entityId
  PROVE x = y
BY IdAssumption DEF LinksMinted, LinkMinted, Linked

(* No page holds two records of one entity, so no insert is refused.       *)
LEMMA NoRowHitTwice ==
  ASSUME IInv, LinksMinted, NEW w \in Workers PROVE ~ RowHitTwice(w)
BY LinksDiffer DEF IInv, CapturedIds, Linked, RowHitTwice

LEMMA SerialStepCases ==
  ASSUME OneAtATime, IInv, SerialInv, NEW w \in Workers, Step(w) \/ Fail(w)
  PROVE /\ Active(w)
        /\ \/ ProcessExternalLinks(w) \/ ProcessEntities(w)
           \/ LookupLink(w) \/ DeleteEntityId(w)
           \/ ListPage(w) \/ DetectAndMarkDeleted(w) \/ FetchRecord(w)
<1>1. ~ RowHitTwice(w)
  BY NoRowHitTwice DEF SerialInv
<1>2. \/ ProcessExternalLinks(w) \/ ProcessEntities(w)
      \/ LookupLink(w) \/ DeleteEntityId(w)
      \/ ListPage(w) \/ DetectAndMarkDeleted(w) \/ FetchRecord(w)
  BY <1>1 DEF OneAtATime, Step, Fail, ProcessEntitiesFails, SyncStep, HookStep
<1>. QED BY <1>2 DEF Active, ProcessExternalLinks, ProcessEntities, LookupLink,
            DeleteEntityId, ListPage, DetectAndMarkDeleted, FetchRecord

(* A step moves its own activity only; an activity starts when none runs. *)
LEMMA StepMovesOne ==
  ASSUME OneAtATime, IInv, SerialInv, NEW w \in Workers, Step(w) \/ Fail(w)
  PROVE \A v \in Workers : v # w => pc'[v] = pc[v]
<1>0. pc \in [Workers -> Steps]
  BY DEF IInv, TypeOK
<1>1. CASE ProcessExternalLinks(w) \/ ListPage(w) \/ FetchRecord(w)
  BY <1>0, <1>1 DEF ProcessExternalLinks, ListPage, FetchRecord, Goto
<1>2. CASE ProcessEntities(w)
  BY <1>0, <1>2 DEF ProcessEntities, Finish, Goto
<1>3. CASE LookupLink(w) \/ DetectAndMarkDeleted(w)
  BY <1>0, <1>3 DEF LookupLink, DetectAndMarkDeleted, Finish, Goto
<1>4. CASE DeleteEntityId(w)
  BY <1>0, <1>4 DEF DeleteEntityId, Finish, Goto
<1>. QED BY <1>1, <1>2, <1>3, <1>4, SerialStepCases

LEMMA NoPushArrives == ASSUME OneAtATime PROVE ~ PushArrives /\ ~ PushCompletes
BY DEF OneAtATime, PushArrives, PushCompletes

LEMMA StartsWhenQuiet ==
  ASSUME OneAtATime, IInv, NEW w \in Workers,
         StartSync(w) \/ \E e \in events : Deliver(w, e)
  PROVE /\ Quiet /\ UNCHANGED <<dbVars, batchVars, pushVars>>
        /\ \A v \in Workers : v # w => pc'[v] = pc[v]
<1>1. pc \in [Workers -> Steps]
  BY DEF IInv, TypeOK
<1>. QED BY <1>1 DEF OneAtATime, StartSync, Deliver, MayStart, Goto

LEMMA OneActiveStep ==
  ASSUME OneAtATime, IInv, SerialInv, [Next]_vars PROVE OneActive'
<1>0. OneActive
  BY DEF SerialInv
<1>1. ASSUME UNCHANGED pc PROVE OneActive'
  BY <1>0, <1>1 DEF OneActive, Active
<1>2. CASE OtherClient \/ UNCHANGED vars
  BY <1>1, <1>2 DEF OtherClient, vars
<1>3. ASSUME NEW w \in Workers, Quiet, \A v \in Workers : v # w => pc'[v] = pc[v]
      PROVE OneActive'
  BY <1>3 DEF Quiet, OneActive, Active
<1>4. CASE \/ \E s \in Syncers : StartSync(s)
           \/ \E h \in Hooks, e \in events : Deliver(h, e)
  BY <1>3, <1>4, StartsWhenQuiet DEF Workers
<1>5. ASSUME NEW w \in Workers, Step(w) \/ Fail(w) PROVE OneActive'
  <2>1. Active(w) /\ \A v \in Workers : v # w => pc'[v] = pc[v]
    BY <1>5, SerialStepCases, StepMovesOne
  <2>. QED BY <1>0, <2>1 DEF OneActive, Active
<1>. QED BY <1>2, <1>4, <1>5, NoPushArrives DEF Next

LEMMA NothingPushedStep ==
  ASSUME OneAtATime, IInv, SerialInv, [Next]_vars PROVE NothingPushed'
<1>0. NothingPushed /\ ownerId \in [Workers -> EntityIds \cup {None}]
  BY DEF SerialInv, IInv, TypeOK
<1>1. ASSUME UNCHANGED <<op, ownerId>> PROVE NothingPushed'
  BY <1>0, <1>1 DEF NothingPushed
<1>2. CASE OtherClient \/ UNCHANGED vars
  BY <1>1, <1>2 DEF OtherClient, vars
<1>3. CASE \/ \E s \in Syncers : StartSync(s)
           \/ \E h \in Hooks, e \in events : Deliver(h, e)
  BY <1>1, <1>3, StartsWhenQuiet DEF Workers, pushVars, batchVars
<1>4. ASSUME NEW w \in Workers, Step(w) \/ Fail(w) PROVE NothingPushed'
  <2>1. CASE ProcessEntities(w)
    BY <1>0, <2>1 DEF ProcessEntities, NothingPushed, pushVars
  <2>2. CASE \/ ProcessExternalLinks(w) \/ LookupLink(w) \/ DeleteEntityId(w) \/ ListPage(w)
             \/ DetectAndMarkDeleted(w) \/ FetchRecord(w)
    BY <1>1, <2>2 DEF ProcessExternalLinks, LookupLink, DeleteEntityId, ListPage,
       DetectAndMarkDeleted, FetchRecord, batchVars, pushVars
  <2>. QED BY <1>4, <2>1, <2>2, SerialStepCases
<1>. QED BY <1>2, <1>3, <1>4, NoPushArrives DEF Next

(* What a step may do to a link: mint, restamp or delete it.               *)
LEMMA UpsertOfSync ==
  ASSUME IInv, SerialInv, NEW w \in Workers, ProcessExternalLinks(w), NEW x \in ExternalIds
  PROVE /\ ~ InPage(w, x) => links'[x] = links[x]
        /\ InPage(w, x) => links'[x].st # "none" /\ links'[x].updatedAt = page[w][x]
        /\ InPage(w, x) /\ links[x].st = "none" => links'[x].entityId = MintedId[x][w]
<1>0. links[x] \in Links /\ page[w][x] \in Versions /\ ownerId[w] = None
  BY DEF IInv, TypeOK, SerialInv, NothingPushed
<1>1. links'[x] = IF InPage(w, x) THEN UpsertedLink(w, x) ELSE links[x]
  BY DEF ProcessExternalLinks
<1>2. CASE links[x].st = "none"
  BY <1>0, <1>1, <1>2 DEF UpsertedLink, InsertedId
<1>3. CASE links[x].st # "none"
  <2>1. \A r \in Links, v \in Versions : /\ [r EXCEPT !.updatedAt = v].st = r.st
                                         /\ [r EXCEPT !.updatedAt = v].updatedAt = v
    BY DEF Links
  <2>. QED BY <1>0, <1>1, <1>3, <2>1 DEF UpsertedLink
<1>. QED BY <1>2, <1>3

(* The other steps only mark links deleted. *)
LinksOnlyMarked ==
  \A x \in ExternalIds : /\ links'[x].st = "none" <=> links[x].st = "none"
                         /\ links[x].st = "none" => links'[x] = links[x]
                         /\ links'[x].updatedAt = links[x].updatedAt

LEMMA DeletionOnlyMarks ==
  ASSUME IInv,
         \A x \in ExternalIds : \/ links'[x] = links[x]
                                \/ /\ links[x].st # "none"
                                   /\ links'[x] = [links[x] EXCEPT !.st = "deleted"]
  PROVE LinksOnlyMarked
<1>1. \A x \in ExternalIds : links[x] \in Links
  BY DEF IInv, TypeOK
<1>2. \A r \in Links : /\ [r EXCEPT !.st = "deleted"].st = "deleted"
                       /\ [r EXCEPT !.st = "deleted"].updatedAt = r.updatedAt
  BY DEF Links
<1>. QED BY <1>1, <1>2 DEF LinksOnlyMarked

LEMMA OnlyUpsertsRestamp ==
  ASSUME OneAtATime, IInv, SerialInv, [Next]_vars,
         ~ \E w \in Workers : ProcessExternalLinks(w)
  PROVE LinksOnlyMarked
<1>0. ASSUME UNCHANGED links PROVE LinksOnlyMarked
  BY <1>0 DEF LinksOnlyMarked
<1>1. CASE OtherClient \/ UNCHANGED vars
  BY <1>0, <1>1 DEF OtherClient, vars
<1>2. CASE \/ \E s \in Syncers : StartSync(s)
           \/ \E h \in Hooks, e \in events : Deliver(h, e)
  BY <1>0, <1>2, StartsWhenQuiet DEF Workers, dbVars
<1>3. ASSUME NEW w \in Workers, Step(w) \/ Fail(w) PROVE LinksOnlyMarked
  <2>1. CASE DetectAndMarkDeleted(w)
    BY <2>1, DeletionOnlyMarks DEF DetectAndMarkDeleted, StaleLinks
  <2>2. CASE DeleteEntityId(w)
    <3>1. CASE EraseLinks(erasing[w].entityId)
      BY <3>1, DeletionOnlyMarks DEF EraseLinks
    <3>. QED BY <1>0, <2>2, <3>1 DEF DeleteEntityId
  <2>3. CASE ProcessEntities(w) \/ LookupLink(w) \/ ListPage(w) \/ FetchRecord(w)
    BY <1>0, <2>3 DEF ProcessEntities, LookupLink, ListPage, FetchRecord, dbVars
  <2>. QED BY <1>3, <2>1, <2>2, <2>3, SerialStepCases
<1>. QED BY <1>1, <1>2, <1>3, NoPushArrives DEF Next

LEMMA LinksMintedStep ==
  ASSUME OneAtATime, IInv, SerialInv, [Next]_vars PROVE LinksMinted'
<1>0. LinksMinted /\ LinksKept
  BY NextKeepsLinks DEF SerialInv
<1>1. CASE \E w \in Workers : ProcessExternalLinks(w)
  <2>1. PICK w \in Workers : ProcessExternalLinks(w)
    BY <1>1
  <2>. QED BY <1>0, <2>1, UpsertOfSync DEF LinksMinted, LinkMinted, LinksKept
<1>2. CASE ~ \E w \in Workers : ProcessExternalLinks(w)
  BY <1>0, <1>2, OnlyUpsertsRestamp DEF LinksMinted, LinkMinted, LinksKept, LinksOnlyMarked
<1>. QED BY <1>1, <1>2

(* Only the activity that upserted links has rows to write, and it is the  *)
(* only one that runs.                                                     *)
LEMMA PendingIsOwn ==
  ASSUME SerialInv, NEW w \in Workers, Active(w), NEW v \in Workers, NEW x \in ExternalIds,
         Pending(v, x)
  PROVE v = w /\ pc[w] = "rows"
BY DEF SerialInv, PendingFits, OneActive, Active

LEMMA PendingOnlyAfterUpsert ==
  ASSUME OneAtATime, IInv, SerialInv, NEW w \in Workers, Step(w) \/ Fail(w),
         ~ ProcessExternalLinks(w), NEW v \in Workers, NEW x \in ExternalIds
  PROVE ~ Pending(v, x)'
<1>0. Active(w) /\ changed \in [Workers -> [ExternalIds -> EntityIds \cup {None}]]
  BY SerialStepCases DEF IInv, TypeOK
<1>1. CASE ProcessEntities(w)
  BY <1>0, <1>1, PendingIsOwn DEF Pending, ProcessEntities, NothingChanged
<1>2. CASE \/ LookupLink(w) \/ DeleteEntityId(w) \/ ListPage(w)
           \/ DetectAndMarkDeleted(w) \/ FetchRecord(w)
  <2>1. UNCHANGED changed /\ pc[w] # "rows"
    BY <1>2 DEF LookupLink, DeleteEntityId, ListPage, DetectAndMarkDeleted, FetchRecord, batchVars
  <2>. QED BY <1>0, <2>1, PendingIsOwn DEF Pending
<1>. QED BY <1>1, <1>2, SerialStepCases

LEMMA QuietHasNoPending ==
  ASSUME SerialInv, Quiet, NEW v \in Workers, NEW x \in ExternalIds
  PROVE ~ Pending(v, x)
BY DEF SerialInv, PendingFits, Quiet, Active

(* What the upsert leaves to write, of its own activity and of others. *)
LEMMA PendingAfterUpsert ==
  ASSUME OneAtATime, IInv, SerialInv, NEW w \in Workers, ProcessExternalLinks(w),
         NEW v \in Workers, NEW x \in ExternalIds
  PROVE Pending(v, x)' <=> v = w /\ InPage(w, x) /\ links[x].updatedAt # page[w][x]
<1>0. /\ changed \in [Workers -> [ExternalIds -> EntityIds \cup {None}]]
      /\ Active(w) /\ pc[w] = "links"
  BY DEF IInv, TypeOK, ProcessExternalLinks, Active
<1>1. CASE v # w
  <2>1. changed'[v][x] = changed[v][x]
    BY <1>0, <1>1 DEF ProcessExternalLinks
  <2>. QED BY <1>0, <1>1, <2>1, PendingIsOwn DEF Pending
<1>2. CASE v = w
  <2>1. Changed(w) = Bumped(w)
    BY DEF Changed, ForceUpdate, SerialInv, NothingPushed
  <2>2. changed'[w][x] = IF x \in Bumped(w) THEN UpsertedLink(w, x).entityId ELSE None
    BY <1>0, <2>1 DEF ProcessExternalLinks, ReturnedId
  <2>3. ASSUME InPage(w, x) PROVE UpsertedLink(w, x).entityId # None
    <3>1. links'[x] = UpsertedLink(w, x) /\ ProcessExternalLinks(w)
      BY <2>3 DEF ProcessExternalLinks
    <3>2. links'[x].st # "none"
      BY <2>3, UpsertOfSync
    <3>3. links'[x].entityId \in EntityIds
      BY <3>2, UpsertKeepsLinks DEF LinksGrowSoundly
    <3>. QED BY <3>1, <3>3, IdAssumption
  <2>. QED BY <1>2, <2>2, <2>3 DEF Pending, Bumped
<1>. QED BY <1>1, <1>2

LEMMA PendingFitsStep ==
  ASSUME OneAtATime, IInv, SerialInv, [Next]_vars PROVE PendingFits'
<1>0. PendingFits /\ pc \in [Workers -> Steps]
  BY DEF SerialInv, IInv, TypeOK
<1>1. CASE \E w \in Workers : ProcessExternalLinks(w)
  <2>1. PICK w \in Workers : ProcessExternalLinks(w)
    BY <1>1
  <2>2. pc'[w] = "rows" /\ UNCHANGED page
    BY <1>0, <2>1 DEF ProcessExternalLinks, Goto
  <2>. QED BY <2>1, <2>2, PendingAfterUpsert, UpsertOfSync DEF PendingFits
<1>2. CASE ~ \E w \in Workers : ProcessExternalLinks(w)
  <2>1. \A x \in ExternalIds : links'[x].updatedAt = links[x].updatedAt
    BY <1>2, OnlyUpsertsRestamp DEF LinksOnlyMarked
  <2>2. CASE OtherClient \/ UNCHANGED vars
    BY <1>0, <2>2 DEF OtherClient, vars, PendingFits, Pending
  <2>3. CASE \/ \E s \in Syncers : StartSync(s)
             \/ \E h \in Hooks, e \in events : Deliver(h, e)
    <3>1. Quiet /\ UNCHANGED changed
      BY <2>3, StartsWhenQuiet DEF Workers, batchVars
    <3>. QED BY <3>1, QuietHasNoPending DEF PendingFits, Pending
  <2>4. ASSUME NEW w \in Workers, Step(w) \/ Fail(w) PROVE PendingFits'
    BY <1>2, <2>4, PendingOnlyAfterUpsert DEF PendingFits
  <2>. QED BY <2>2, <2>3, <2>4, NoPushArrives DEF Next
<1>. QED BY <1>1, <1>2

(* A row marked deleted still matches. *)
RowsOnlyMarked ==
  \A e \in EntityIds : /\ rows[e].st # "none" => rows'[e].st # "none"
                       /\ rows'[e].of = rows[e].of /\ rows'[e].ver = rows[e].ver

LEMMA MarkingKeepsMatches ==
  ASSUME IInv, LinksOnlyMarked, LinksKept, RowsOnlyMarked, NEW x \in Linked, Matches(x)
  PROVE Matches(x)'
<1>1. x \in ExternalIds /\ links[x].entityId \in EntityIds /\ links'[x].entityId = links[x].entityId
  BY DEF IInv, LinksNameEntities, Linked, LinksKept
<1>. QED BY <1>1 DEF Matches, LinksOnlyMarked, RowsOnlyMarked

LEMMA ErasureOnlyMarks ==
  ASSUME IInv, NEW w \in Workers, DeleteEntityId(w) PROVE RowsOnlyMarked
<1>0. rows \in [EntityIds -> Rows]
  BY DEF IInv, TypeOK
<1>1. \A r \in Rows : LET d == [r EXCEPT !.st = IF @ = "none" THEN "none" ELSE "deleted"] IN
        d.of = r.of /\ d.ver = r.ver /\ (r.st # "none" => d.st # "none")
  BY DEF Rows
<1>2. CASE UNCHANGED rows
  BY <1>2 DEF RowsOnlyMarked
<1>3. CASE EraseRow(erasing[w].entityId)
  <2>1. \A e \in EntityIds :
          \/ rows'[e] = rows[e]
          \/ rows'[e] = [rows[e] EXCEPT !.st = IF @ = "none" THEN "none" ELSE "deleted"]
    BY <1>0, <1>3 DEF EraseRow
  <2>. QED BY <1>0, <1>1, <2>1 DEF RowsOnlyMarked
<1>. QED BY <1>2, <1>3 DEF DeleteEntityId

LEMMA SettledAfterUpsert ==
  ASSUME OneAtATime, IInv, SerialInv, NEW w \in Workers, ProcessExternalLinks(w),
         NEW x \in ExternalIds, links'[x].st # "none"
  PROVE Matches(x)' \/ Pending(w, x)'
<1>a. Active(w) /\ pc[w] = "links" /\ UNCHANGED rows
  BY DEF ProcessExternalLinks, Active
<1>b. LinksKept
  BY UpsertKeepsLinks
<1>c. page[w][x] \in Nat
  BY BoundAssumption DEF IInv, TypeOK, Versions
<1>0. Active(w) /\ pc[w] = "links" /\ UNCHANGED rows /\ LinksKept /\ page[w][x] \in Nat
  BY <1>a, <1>b, <1>c
<1>1. ASSUME x \in Linked PROVE Matches(x)
  BY <1>0, <1>1, PendingIsOwn DEF SerialInv, Settled
<1>2. CASE ~ InPage(w, x)
  <2>1. links'[x] = links[x]
    BY <1>2, UpsertOfSync
  <2>. QED BY <1>0, <1>1, <2>1 DEF Matches, Linked
<1>3. CASE InPage(w, x) /\ links[x].updatedAt # page[w][x]
  BY <1>3, PendingAfterUpsert
<1>4. CASE InPage(w, x) /\ links[x].updatedAt = page[w][x]
  <2>1. x \in Linked
    BY <1>0, <1>4 DEF SerialInv, LinksMinted, LinkMinted, NoLink, InPage, Linked
  <2>2. links'[x].updatedAt = links[x].updatedAt /\ links'[x].entityId = links[x].entityId
    BY <1>0, <1>4, <2>1, UpsertOfSync DEF LinksKept, Linked
  <2>. QED BY <1>0, <1>1, <2>1, <2>2 DEF Matches
<1>. QED BY <1>2, <1>3, <1>4

LEMMA SettledAfterRows ==
  ASSUME OneAtATime, IInv, SerialInv, NEW w \in Workers, ProcessEntities(w), NEW x \in Linked
  PROVE Matches(x)'
<1>. DEFINE e == links[x].entityId
<1>0. /\ Active(w) /\ UNCHANGED links /\ x \in ExternalIds /\ e \in EntityIds /\ CapturedIds
      /\ LinksMinted /\ None \notin EntityIds
  BY IdAssumption DEF ProcessEntities, Active, Linked, IInv, LinksNameEntities, SerialInv
<1>1. CASE \E y \in ExternalIds : changed[w][y] = e
  <2>1. PICK y \in ExternalIds :
          changed[w][y] = e /\ y = CHOOSE z \in ExternalIds : changed[w][z] = e
    BY <1>1
  <2>2. y \in Linked /\ links[y].entityId = e
    BY <1>0, <2>1 DEF CapturedIds, Linked
  <2>3. y = x
    BY <1>0, <2>2, LinksDiffer
  <2>4. page[w][x] = links[x].updatedAt
    BY <1>0, <2>1, <2>3 DEF SerialInv, PendingFits, Pending
  <2>5. rows'[e] = [st |-> "live", of |-> x, ver |-> page[w][x]]
    BY <1>0, <1>1, <2>1, <2>3 DEF ProcessEntities, WrittenRow
  <2>. QED BY <1>0, <2>4, <2>5 DEF Matches
<1>2. CASE ~ \E y \in ExternalIds : changed[w][y] = e
  <2>1. rows'[e] = rows[e]
    BY <1>0, <1>2 DEF ProcessEntities
  <2>2. \A v \in Workers : ~ Pending(v, x)
    BY <1>0, <1>2, PendingIsOwn DEF Pending, CapturedIds
  <2>3. Matches(x)
    BY <2>2 DEF SerialInv, Settled
  <2>. QED BY <1>0, <2>1, <2>3 DEF Matches
<1>. QED BY <1>1, <1>2

LEMMA SettledStep ==
  ASSUME OneAtATime, IInv, SerialInv, [Next]_vars PROVE Settled'
<1>0. Settled /\ LinksKept
  BY NextKeepsLinks DEF SerialInv
<1>1. CASE \E w \in Workers : ProcessExternalLinks(w)
  BY <1>1, SettledAfterUpsert DEF Settled, Linked
<1>2. CASE ~ \E w \in Workers : ProcessExternalLinks(w)
  <2>0. LinksOnlyMarked /\ Linked' = Linked
    BY <1>2, OnlyUpsertsRestamp DEF LinksOnlyMarked, Linked
  <2>a. ASSUME UNCHANGED rows PROVE RowsOnlyMarked
    BY <2>a DEF RowsOnlyMarked
  <2>1. CASE OtherClient \/ UNCHANGED vars
    <3>1. RowsOnlyMarked /\ UNCHANGED changed
      BY <2>a, <2>1 DEF OtherClient, vars
    <3>. QED BY <1>0, <2>0, <3>1, MarkingKeepsMatches DEF Settled, Pending
  <2>2. CASE \/ \E s \in Syncers : StartSync(s)
             \/ \E h \in Hooks, e \in events : Deliver(h, e)
    <3>1. Quiet /\ RowsOnlyMarked
      BY <2>a, <2>2, StartsWhenQuiet DEF Workers, dbVars
    <3>2. Linked \subseteq ExternalIds
      BY DEF Linked
    <3>. QED BY <1>0, <2>0, <3>1, <3>2, QuietHasNoPending, MarkingKeepsMatches DEF Settled
  <2>3. ASSUME NEW w \in Workers, Step(w) \/ Fail(w) PROVE Settled'
    <3>1. CASE ProcessEntities(w)
      BY <2>0, <3>1, SettledAfterRows DEF Settled
    <3>2. CASE \/ LookupLink(w) \/ DeleteEntityId(w) \/ ListPage(w)
               \/ DetectAndMarkDeleted(w) \/ FetchRecord(w)
      <4>1. pc[w] # "rows" /\ RowsOnlyMarked /\ Active(w)
        BY <2>a, <3>2, ErasureOnlyMarks DEF LookupLink, DeleteEntityId, ListPage,
           DetectAndMarkDeleted, FetchRecord, dbVars, Active
      <4>2. Linked \subseteq ExternalIds
        BY DEF Linked
      <4>3. \A x \in Linked : Matches(x)
        BY <1>0, <4>1, <4>2, PendingIsOwn DEF Settled
      <4>. QED BY <1>0, <2>0, <4>1, <4>3, MarkingKeepsMatches DEF Settled
    <3>. QED BY <1>2, <2>3, <3>1, <3>2, SerialStepCases
  <2>. QED BY <2>1, <2>2, <2>3, NoPushArrives DEF Next
<1>. QED BY <1>1, <1>2

LEMMA InitSerialInv == Init => SerialInv
BY DEF Init, SerialInv, OneActive, NothingPushed, LinksMinted, LinkMinted, PendingFits,
   Pending, Settled, Linked, Active, NoLink, NoOp, NothingChanged

LEMMA SerialInvStep ==
  ASSUME OneAtATime, IInv, SerialInv, [Next]_vars PROVE SerialInv'
BY OneActiveStep, NothingPushedStep, LinksMintedStep, PendingFitsStep, SettledStep
   DEF SerialInv

(* Whenever no sync and no webhook runs, every link describes its row: the *)
(* version it carries is the one written, for any number of records, pages *)
(* and activities, as long as these neither overlap nor fail.  The run     *)
(* crash shows that a failure between the two statements breaks it.        *)
THEOREM SerialRunsLeaveRowsMatched == ASSUME OneAtATime PROVE Spec => []IdleRowsMatchLinks
<1>1. Init => IInv /\ SerialInv
  BY InitIInv, InitSerialInv
<1>2. IInv /\ SerialInv /\ [Next]_vars => (IInv /\ SerialInv)'
  BY NextIInv, SerialInvStep
<1>3. SerialInv => IdleRowsMatchLinks
  BY QuietHasNoPending DEF SerialInv, Settled, IdleRowsMatchLinks, Matches, Linked
<1>. QED BY <1>1, <1>2, <1>3, PTL DEF Spec

-----------------------------------------------------------------------------
(* In the same conditions no row goes back: between the request for a      *)
(* record and the write of its row no other activity writes, and PCO's     *)
(* versions only grow.                                                     *)

DeliveredExist == \A w \in Workers : pc[w] = "get" =>
  event[w].id \in ExternalIds /\ remoteVer[event[w].id] > 0
EmittedExist == \A e \in events : remoteVer[e.id] > 0

RowsNotAhead == \A e \in EntityIds, x \in ExternalIds :
  rows[e].of = x /\ x \notin gone => rows[e].ver <= remoteVer[x]

Holding(w) == pc[w] \in {"links", "rows"}
PagesNotBehind == \A w \in Workers, x \in ExternalIds :
  Holding(w) /\ InPage(w, x) /\ x \notin gone =>
    /\ page[w][x] <= remoteVer[x]
    /\ \A e \in EntityIds : rows[e].of = x => rows[e].ver <= page[w][x]

PendingInPage == \A w \in Workers, x \in ExternalIds : Pending(w, x) => InPage(w, x)

VersionInv == DeliveredExist /\ EmittedExist /\ RowsNotAhead /\ PagesNotBehind /\ PendingInPage

LEMMA PcoGrows ==
  ASSUME TypeOK, OtherClient
  PROVE /\ \A x \in ExternalIds : remoteVer[x] <= remoteVer'[x]
        /\ gone \subseteq gone'
        /\ \A e \in events' : e \in events \/ remoteVer'[e.id] > 0
<1>0. remoteVer \in [ExternalIds -> Nat]
  BY BoundAssumption DEF TypeOK, Versions
<1>1. PICK x \in ExternalIds : RemoteCreate(x, None) \/ RemoteUpdate(x) \/ RemoteDestroy(x)
  BY DEF OtherClient
<1>2. CASE RemoteCreate(x, None)
  BY <1>0, <1>2 DEF RemoteCreate, Emit
<1>3. CASE RemoteUpdate(x)
  BY <1>0, <1>3 DEF RemoteUpdate, Emit
<1>4. CASE RemoteDestroy(x)
  BY <1>0, <1>4 DEF RemoteDestroy, Emit, Live
<1>. QED BY <1>1, <1>2, <1>3, <1>4

LEMMA VersionsAfterOtherClient ==
  ASSUME IInv, VersionInv, OtherClient PROVE VersionInv'
<1>0. /\ remoteVer \in [ExternalIds -> Nat] /\ remoteVer' \in [ExternalIds -> Nat]
      /\ page \in [Workers -> [ExternalIds -> Nat]]
      /\ \A e \in EntityIds : rows[e].ver \in Nat
      /\ \A e \in events : e.id \in ExternalIds
  BY TypeOtherClient, BoundAssumption DEF IInv, TypeOK, Versions, Rows, Events
<1>1. UNCHANGED <<rows, pc, page, changed, event>>
  BY DEF OtherClient
<1>2. /\ \A x \in ExternalIds : remoteVer[x] <= remoteVer'[x]
      /\ gone \subseteq gone'
      /\ \A e \in events' : e \in events \/ remoteVer'[e.id] > 0
  BY PcoGrows DEF IInv
<1>3. DeliveredExist'
  BY <1>0, <1>1, <1>2 DEF VersionInv, DeliveredExist
<1>4. EmittedExist'
  BY <1>0, <1>2 DEF VersionInv, EmittedExist
<1>5. RowsNotAhead'
  BY <1>0, <1>1, <1>2 DEF VersionInv, RowsNotAhead
<1>6. PagesNotBehind'
  <2>1. \A w \in Workers, x \in ExternalIds :
          page[w][x] <= remoteVer[x] => page[w][x] <= remoteVer'[x]
    BY <1>0, <1>2
  <2>. QED BY <1>1, <1>2, <2>1 DEF VersionInv, PagesNotBehind, Holding, InPage
<1>7. PendingInPage'
  BY <1>1 DEF VersionInv, PendingInPage, Pending, InPage
<1>. QED BY <1>3, <1>4, <1>5, <1>6, <1>7 DEF VersionInv

LEMMA VersionsAfterStart ==
  ASSUME OneAtATime, IInv, SerialInv, VersionInv, NEW w \in Workers,
         StartSync(w) \/ \E e \in events : Deliver(w, e)
  PROVE VersionInv'
<1>0. /\ Quiet /\ UNCHANGED <<rows, page, changed>>
      /\ \A v \in Workers : v # w => pc'[v] = pc[v]
      /\ pc \in [Workers -> Steps] /\ event \in [Workers -> Events \cup {NoEvent}]
      /\ events \subseteq Events
  BY StartsWhenQuiet DEF dbVars, batchVars, IInv, TypeOK
<1>1. UNCHANGED <<remoteVer, gone>> /\ events' \subseteq events
  BY DEF StartSync, Deliver, pcoVars
<1>2. \A v \in Workers : ~ Holding(v)'
  <2>1. ~ Holding(w)'
    BY <1>0 DEF StartSync, Deliver, Goto, Holding
  <2>. QED BY <1>0, <2>1 DEF Quiet, Active, Holding
<1>3. DeliveredExist'
  <2>1. CASE StartSync(w)
    BY <1>0, <1>1, <2>1 DEF StartSync, Goto, VersionInv, DeliveredExist
  <2>2. ASSUME NEW e \in events, Deliver(w, e) PROVE DeliveredExist'
    <3>1. remoteVer[e.id] > 0 /\ e.id \in ExternalIds /\ event'[w] = e
      BY <1>0, <2>2 DEF VersionInv, EmittedExist, Events, Deliver
    <3>2. \A v \in Workers : v # w => event'[v] = event[v]
      BY <1>0, <2>2 DEF Deliver
    <3>. QED BY <1>0, <1>1, <3>1, <3>2 DEF VersionInv, DeliveredExist
  <2>. QED BY <2>1, <2>2
<1>4. EmittedExist' /\ RowsNotAhead' /\ PendingInPage'
  BY <1>0, <1>1 DEF VersionInv, EmittedExist, RowsNotAhead, PendingInPage, Pending, InPage
<1>. QED BY <1>2, <1>3, <1>4 DEF VersionInv, PagesNotBehind

(* What the step of an activity does to the rows and to PCO. *)
LEMMA SerialStepsLeavePco ==
  ASSUME OneAtATime, IInv, SerialInv, NEW w \in Workers, Step(w) \/ Fail(w)
  PROVE UNCHANGED pcoVars
<1>1. CASE \/ ProcessExternalLinks(w) \/ ProcessEntities(w) \/ LookupLink(w)
           \/ DeleteEntityId(w) \/ ListPage(w) \/ DetectAndMarkDeleted(w) \/ FetchRecord(w)
  BY <1>1 DEF ProcessExternalLinks, ProcessEntities, LookupLink, DeleteEntityId, ListPage,
     DetectAndMarkDeleted, FetchRecord
<1>. QED BY <1>1, SerialStepCases

(* A row written takes the version of a record of the page. *)
LEMMA WrittenFromPage ==
  ASSUME OneAtATime, IInv, SerialInv, VersionInv, NEW w \in Workers, ProcessEntities(w),
         NEW e \in EntityIds
  PROVE \/ rows'[e] = rows[e]
        \/ \E x \in ExternalIds : /\ rows'[e].of = x /\ rows'[e].ver = page[w][x]
                                 /\ InPage(w, x) /\ Holding(w)
<1>1. CASE \E y \in ExternalIds : changed[w][y] = e
  <2>1. PICK y \in ExternalIds :
          changed[w][y] = e /\ y = CHOOSE z \in ExternalIds : changed[w][z] = e
    BY <1>1
  <2>2. rows'[e] = [st |-> "live", of |-> y, ver |-> page[w][y]]
    BY <1>1, <2>1 DEF ProcessEntities, WrittenRow
  <2>3. Pending(w, y)
    BY <2>1, IdAssumption DEF Pending
  <2>. QED BY <2>2, <2>3 DEF VersionInv, PendingInPage, ProcessEntities, Holding
<1>2. CASE ~ \E y \in ExternalIds : changed[w][y] = e
  BY <1>2 DEF ProcessEntities
<1>. QED BY <1>1, <1>2

LEMMA VersionsAfterUpsert ==
  ASSUME OneAtATime, IInv, SerialInv, VersionInv, NEW w \in Workers, ProcessExternalLinks(w)
  PROVE VersionInv'
<1>0. /\ UNCHANGED <<remoteVer, gone, events, rows, page, event>>
      /\ pc \in [Workers -> Steps] /\ pc[w] = "links"
      /\ pc' = [pc EXCEPT ![w] = "rows"]
  BY DEF IInv, TypeOK, ProcessExternalLinks, Goto, pcoVars
<1>1. DeliveredExist' /\ EmittedExist' /\ RowsNotAhead'
  BY <1>0 DEF VersionInv, DeliveredExist, EmittedExist, RowsNotAhead
<1>2. \A v \in Workers : Holding(v)' => Holding(v)
  BY <1>0 DEF Holding
<1>3. PagesNotBehind'
  BY <1>0, <1>2 DEF VersionInv, PagesNotBehind, InPage
<1>4. PendingInPage'
  BY <1>0, PendingAfterUpsert DEF PendingInPage, InPage
<1>. QED BY <1>1, <1>3, <1>4 DEF VersionInv

(* No other activity holds a page. *)
LEMMA HoldingIsOwn ==
  ASSUME OneAtATime, IInv, SerialInv, NEW w \in Workers, Step(w) \/ Fail(w),
         NEW v \in Workers, v # w
  PROVE ~ Holding(v)' /\ pc'[v] # "get"
<1>1. Active(w) /\ pc'[v] = pc[v]
  BY SerialStepCases, StepMovesOne
<1>. QED BY <1>1 DEF SerialInv, OneActive, Active, Holding

LEMMA VersionsAfterFetch ==
  ASSUME OneAtATime, IInv, SerialInv, VersionInv, NEW w \in Workers, Step(w) \/ Fail(w),
         ListPage(w) \/ FetchRecord(w)
  PROVE PagesNotBehind'
<1>0. /\ UNCHANGED <<remoteVer, gone, rows>>
      /\ page \in [Workers -> [ExternalIds -> Versions]]
      /\ remoteVer \in [ExternalIds -> Nat]
  BY BoundAssumption DEF IInv, TypeOK, Versions, ListPage, FetchRecord, pcoVars, dbVars
<1>1. ASSUME NEW x \in ExternalIds, page'[w][x] > 0, x \notin gone
      PROVE page'[w][x] = remoteVer[x]
  <2>1. CASE ListPage(w)
    BY <1>0, <1>1, <2>1 DEF ListPage, PageAt
  <2>2. CASE FetchRecord(w)
    <3>1. PICK v \in Versions : /\ Fetched(w, v)
                                /\ page' = [page EXCEPT ![w] = [EmptyPage EXCEPT ![event[w].id] = v]]
      BY <2>2 DEF FetchRecord
    <3>2. event[w].id \in ExternalIds /\ remoteVer[event[w].id] > 0
      BY <2>2 DEF VersionInv, DeliveredExist, FetchRecord
    <3>3. x = event[w].id /\ page'[w][x] = v
      BY <1>0, <1>1, <3>1, <3>2 DEF EmptyPage
    <3>. QED BY <1>1, <3>1, <3>2, <3>3 DEF Fetched, Live, OneAtATime
  <2>. QED BY <2>1, <2>2
<1>2. ASSUME NEW x \in ExternalIds, page'[w][x] > 0, x \notin gone
      PROVE /\ page'[w][x] <= remoteVer[x]
            /\ \A e \in EntityIds : rows[e].of = x => rows[e].ver <= page'[w][x]
  BY <1>0, <1>1, <1>2 DEF VersionInv, RowsNotAhead
<1>3. \A v \in Workers : Holding(v)' => v = w
  BY HoldingIsOwn
<1>. QED BY <1>0, <1>2, <1>3 DEF PagesNotBehind, InPage

LEMMA VersionsAfterStep ==
  ASSUME OneAtATime, IInv, SerialInv, VersionInv, NEW w \in Workers, Step(w) \/ Fail(w)
  PROVE VersionInv'
<1>0. /\ UNCHANGED <<remoteVer, gone, events>>
      /\ pc \in [Workers -> Steps] /\ event \in [Workers -> Events \cup {NoEvent}]
  BY SerialStepsLeavePco DEF pcoVars, IInv, TypeOK
<1>1. CASE ProcessExternalLinks(w)
  BY <1>1, VersionsAfterUpsert
<1>2. CASE ~ ProcessExternalLinks(w)
  <2>1. PendingInPage'
    BY <1>2, PendingOnlyAfterUpsert DEF PendingInPage
  <2>2. EmittedExist'
    BY <1>0 DEF VersionInv, EmittedExist
  <2>3. pc'[w] # "get"
    BY <1>0, <1>2, SerialStepCases DEF ProcessEntities, LookupLink, DeleteEntityId, ListPage,
       DetectAndMarkDeleted, FetchRecord, Finish, Goto
  <2>4. DeliveredExist'
    BY <2>3, HoldingIsOwn DEF DeliveredExist
  <2>5. RowsNotAhead'
    <3>1. CASE ProcessEntities(w)
      BY <1>0, <3>1, WrittenFromPage DEF VersionInv, RowsNotAhead, PagesNotBehind
    <3>2. CASE DeleteEntityId(w)
      BY <1>0, <3>2, ErasureOnlyMarks DEF RowsOnlyMarked, VersionInv, RowsNotAhead
    <3>3. CASE LookupLink(w) \/ ListPage(w) \/ DetectAndMarkDeleted(w) \/ FetchRecord(w)
      BY <1>0, <3>3 DEF LookupLink, ListPage, DetectAndMarkDeleted, FetchRecord, dbVars,
         VersionInv, RowsNotAhead
    <3>. QED BY <1>2, <3>1, <3>2, <3>3, SerialStepCases
  <2>6. PagesNotBehind'
    <3>1. CASE ListPage(w) \/ FetchRecord(w)
      BY <3>1, VersionsAfterFetch
    <3>2. CASE ProcessEntities(w) \/ LookupLink(w) \/ DeleteEntityId(w) \/ DetectAndMarkDeleted(w)
      <4>1. ~ Holding(w)'
        BY <1>0, <3>2 DEF ProcessEntities, LookupLink, DeleteEntityId, DetectAndMarkDeleted,
           Finish, Goto, Holding
      <4>. QED BY <4>1, HoldingIsOwn DEF PagesNotBehind
    <3>. QED BY <1>2, <3>1, <3>2, SerialStepCases
  <2>. QED BY <2>1, <2>2, <2>4, <2>5, <2>6 DEF VersionInv
<1>. QED BY <1>1, <1>2

LEMMA VersionInvStep ==
  ASSUME OneAtATime, IInv, SerialInv, VersionInv, [Next]_vars PROVE VersionInv'
<1>1. CASE UNCHANGED vars
  BY <1>1 DEF vars, VersionInv, DeliveredExist, EmittedExist, RowsNotAhead, PagesNotBehind,
     Holding, PendingInPage, Pending, InPage
<1>. QED BY <1>1, VersionsAfterOtherClient, VersionsAfterStart, VersionsAfterStep, NoPushArrives
         DEF Next, Workers

LEMMA NoRowGoesBack ==
  ASSUME OneAtATime, IInv, SerialInv, VersionInv, [Next]_vars, NEW e \in EntityIds,
         rows[e].of # 0, Live(rows[e].of), rows'[e].of = rows[e].of
  PROVE rows'[e].ver >= rows[e].ver
<1>0. rows[e].ver \in Nat /\ rows[e].of \in ExternalIds
  BY BoundAssumption DEF IInv, TypeOK, Rows, Versions
<1>1. CASE UNCHANGED rows
  BY <1>0, <1>1
<1>2. CASE OtherClient \/ UNCHANGED vars
  BY <1>1, <1>2 DEF OtherClient, vars
<1>3. CASE \/ \E s \in Syncers : StartSync(s)
           \/ \E h \in Hooks, d \in events : Deliver(h, d)
  BY <1>1, <1>3, StartsWhenQuiet DEF Workers, dbVars
<1>4. ASSUME NEW w \in Workers, Step(w) \/ Fail(w) PROVE rows'[e].ver >= rows[e].ver
  <2>1. CASE ProcessEntities(w)
    BY <1>0, <2>1, WrittenFromPage DEF VersionInv, PagesNotBehind, Live
  <2>2. CASE DeleteEntityId(w)
    BY <1>0, <2>2, ErasureOnlyMarks DEF RowsOnlyMarked
  <2>3. CASE \/ ProcessExternalLinks(w) \/ LookupLink(w) \/ ListPage(w)
             \/ DetectAndMarkDeleted(w) \/ FetchRecord(w)
    BY <1>1, <2>3 DEF ProcessExternalLinks, LookupLink, ListPage, DetectAndMarkDeleted,
       FetchRecord, dbVars
  <2>. QED BY <1>4, <2>1, <2>2, <2>3, SerialStepCases
<1>. QED BY <1>2, <1>3, <1>4, NoPushArrives DEF Next

(* A sync or webhook that runs alone and does not fail never replaces what *)
(* a row holds of a record PCO still has by an older version of it.        *)
THEOREM SerialRunsNeverGoBack == ASSUME OneAtATime PROVE Spec => RowsNeverGoBack
<1>. DEFINE AllInv == IInv /\ SerialInv /\ VersionInv
<1>1. Init => AllInv
  <2>1. Init => VersionInv
    BY DEF Init, VersionInv, DeliveredExist, EmittedExist, RowsNotAhead, PagesNotBehind,
       Holding, PendingInPage, Pending, NothingChanged, NoRow
  <2>. QED BY <2>1, InitIInv, InitSerialInv
<1>2. AllInv /\ [Next]_vars => AllInv'
  BY NextIInv, SerialInvStep, VersionInvStep
<1>3. AllInv /\ [Next]_vars =>
        [\A e \in EntityIds : LET x == rows[e].of IN
           x # 0 /\ Live(x) /\ rows'[e].of = x => rows'[e].ver >= rows[e].ver]_vars
  BY NoRowGoesBack
<1>. QED BY <1>1, <1>2, <1>3, PTL DEF Spec, RowsNeverGoBack

-----------------------------------------------------------------------------
(* Pushes and webhooks without full syncs, any number of each, with any    *)
(* failures and retries: what becomes of an entity created in PCO.         *)

NoFullSync == Syncers = {}

(* Whatever is in flight or linked is of a record PCO has created. *)
HooksHaveEvents == \A h \in Hooks : Active(h) =>
  event[h] \in Events /\ remoteVer[event[h].id] > 0
PagesExist == \A w \in Workers, x \in ExternalIds : InPage(w, x) => remoteVer[x] > 0
LinkedExist == \A x \in Linked : remoteVer[x] > 0
ExistInv == EmittedExist /\ HooksHaveEvents /\ PagesExist /\ LinkedExist

(* PCO never forgets that a record was created, nor by whom. *)
PcoMoves ==
  /\ \A x \in ExternalIds : remoteVer[x] > 0 => remoteVer'[x] > 0 /\ author'[x] = author[x]
  /\ \A e \in events' : e \in events \/ remoteVer'[e.id] > 0

LEMMA RequestMovesPco ==
  ASSUME TypeOK, NEW x \in ExternalIds, NEW e \in EntityIds \cup {None},
         RemoteCreate(x, e) \/ RemoteUpdate(x) \/ RemoteDestroy(x)
  PROVE PcoMoves /\ remoteVer'[x] > 0
<1>0. remoteVer \in [ExternalIds -> Nat] /\ author \in [ExternalIds -> EntityIds \cup {None}]
  BY BoundAssumption DEF TypeOK, Versions
<1>1. CASE RemoteCreate(x, e)
  BY <1>0, <1>1 DEF RemoteCreate, Emit, PcoMoves
<1>2. CASE RemoteUpdate(x)
  BY <1>0, <1>2 DEF RemoteUpdate, Emit, PcoMoves, Live
<1>3. CASE RemoteDestroy(x)
  BY <1>0, <1>3 DEF RemoteDestroy, Emit, PcoMoves, Live
<1>. QED BY <1>1, <1>2, <1>3

LEMMA LaneRequest ==
  ASSUME IInv, NEW l \in Lanes, CreateEntity(l) \/ UpdateEntity(l)
  PROVE \E x \in ExternalIds, v \in Versions :
          /\ PcoMoves /\ remoteVer'[x] > 0 /\ v > 0 /\ Respond(l, x, v)
          /\ CreateEntity(l) => author'[x] = op[l].id
          /\ UpdateEntity(l) => x = target[l]
<1>0. /\ remoteVer \in [ExternalIds -> Nat] /\ op[l].id \in EntityIds \cup {None}
      /\ author \in [ExternalIds -> EntityIds \cup {None}]
  BY BoundAssumption DEF IInv, TypeOK, Versions, Ops, Workers
<1>1. CASE CreateEntity(l)
  <2>1. PICK x \in ExternalIds : RemoteCreate(x, op[l].id) /\ Respond(l, x, 1)
    BY <1>1 DEF CreateEntity
  <2>2. PcoMoves /\ remoteVer'[x] > 0
    BY <1>0, <2>1, RequestMovesPco DEF IInv
  <2>3. 1 \in Versions /\ author'[x] = op[l].id
    BY <1>0, <2>1, BoundAssumption DEF RemoteCreate, Versions
  <2>4. ~ UpdateEntity(l)
    BY <1>1 DEF CreateEntity, UpdateEntity
  <2>. QED BY <2>1, <2>2, <2>3, <2>4
<1>2. CASE UpdateEntity(l)
  <2>1. PICK x \in ExternalIds :
          /\ x = target[l] /\ Live(x) /\ Respond(l, x, remoteVer'[x])
          /\ RemoteUpdate(x) \/ (remoteVer[x] = MaxVersion /\ UNCHANGED pcoVars)
    BY <1>2 DEF UpdateEntity, LiveIds
  <2>2. PcoMoves /\ remoteVer'[x] > 0
    <3>1. CASE RemoteUpdate(x)
      BY <3>1, RequestMovesPco DEF IInv
    <3>2. CASE UNCHANGED pcoVars
      BY <2>1, <3>2 DEF pcoVars, PcoMoves, Live
    <3>. QED BY <2>1, <3>1, <3>2
  <2>3. remoteVer'[x] \in Versions
    BY <1>2, TypeUpdateEntity DEF IInv, TypeOK
  <2>4. ~ CreateEntity(l)
    BY <1>2 DEF CreateEntity, UpdateEntity
  <2>. QED BY <2>1, <2>2, <2>3, <2>4
<1>. QED BY <1>1, <1>2

LEMMA NextMovesPco == ASSUME IInv, [Next]_vars PROVE PcoMoves
<1>0. ASSUME UNCHANGED <<remoteVer, author>>, events' \subseteq events PROVE PcoMoves
  BY <1>0 DEF PcoMoves
<1>1. CASE OtherClient
  <2>1. PICK x \in ExternalIds : RemoteCreate(x, None) \/ RemoteUpdate(x) \/ RemoteDestroy(x)
    BY <1>1 DEF OtherClient
  <2>. QED BY <2>1, RequestMovesPco DEF IInv
<1>2. CASE PushArrives \/ PushCompletes \/ UNCHANGED vars
  BY <1>0, <1>2 DEF PushArrives, PushCompletes, pcoVars, vars
<1>3. CASE \E s \in Syncers : StartSync(s)
  BY <1>0, <1>3 DEF StartSync, pcoVars
<1>4. CASE \E h \in Hooks, e \in events : Deliver(h, e)
  BY <1>0, <1>4 DEF Deliver
<1>5. ASSUME NEW w \in Workers, Step(w) \/ Fail(w) PROVE PcoMoves
  <2>1. CASE w \in Lanes /\ (CreateEntity(w) \/ UpdateEntity(w))
    BY <2>1, LaneRequest
  <2>2. CASE w \in Lanes /\ DeleteRemote(w)
    <3>1. target[w] \in ExternalIds /\ RemoteDestroy(target[w])
      BY <2>2 DEF DeleteRemote, LiveIds
    <3>. QED BY <3>1, RequestMovesPco DEF IInv
  <2>3. CASE \/ ProcessExternalLinks(w) \/ ProcessEntities(w) \/ LookupLink(w)
             \/ DeleteEntityId(w) \/ Retry(w) \/ ListPage(w) \/ DetectAndMarkDeleted(w)
             \/ FetchRecord(w) \/ GetExternalLink(w)
    BY <1>0, <2>3 DEF ProcessExternalLinks, ProcessEntities, LookupLink, DeleteEntityId, Retry,
       ListPage, DetectAndMarkDeleted, FetchRecord, GetExternalLink, pcoVars
  <2>. QED BY <1>5, <2>1, <2>2, <2>3, StepCases
<1>. QED BY <1>1, <1>2, <1>3, <1>4, <1>5 DEF Next

LEMMA EmittedExistStep == ASSUME IInv, EmittedExist, [Next]_vars PROVE EmittedExist'
<1>1. PcoMoves /\ events \subseteq Events
  BY NextMovesPco DEF IInv, TypeOK
<1>. QED BY <1>1 DEF PcoMoves, EmittedExist, Events

(* A hook keeps its event while it works on it. *)
LEMMA HooksHaveEventsStep ==
  ASSUME IInv, EmittedExist, HooksHaveEvents, [Next]_vars PROVE HooksHaveEvents'
<1>0. /\ PcoMoves /\ pc \in [Workers -> Steps] /\ Hooks \subseteq Workers
      /\ event \in [Workers -> Events \cup {NoEvent}] /\ events \subseteq Events
      /\ \A e \in Events : e.id \in ExternalIds
  BY NextMovesPco DEF IInv, TypeOK, Workers, Events
<1>a. ASSUME NEW h \in Hooks, Active(h)' => Active(h) /\ event'[h] = event[h], Active(h)'
      PROVE event'[h] \in Events /\ remoteVer'[event'[h].id] > 0
  BY <1>0, <1>a DEF HooksHaveEvents, PcoMoves
<1>b. ASSUME \A h \in Hooks : Active(h)' => Active(h) /\ event'[h] = event[h]
      PROVE HooksHaveEvents'
  BY <1>a, <1>b DEF HooksHaveEvents
<1>1. CASE OtherClient \/ UNCHANGED vars
  BY <1>b, <1>1 DEF OtherClient, vars, Active
<1>2. CASE \E s \in Syncers : StartSync(s)
  BY <1>0, <1>b, <1>2, WorkerAssumption DEF StartSync, Goto, Active
<1>3. ASSUME NEW k \in Hooks, NEW e \in events, Deliver(k, e) PROVE HooksHaveEvents'
  <2>1. event'[k] = e /\ e \in Events /\ remoteVer'[e.id] > 0
    BY <1>0, <1>3 DEF Deliver, EmittedExist, PcoMoves
  <2>2. \A h \in Hooks : h # k => event'[h] = event[h] /\ pc'[h] = pc[h]
    BY <1>0, <1>3 DEF Deliver, Goto
  <2>. QED BY <1>a, <2>1, <2>2 DEF HooksHaveEvents, Active
<1>4. CASE PushArrives
  BY <1>0, <1>b, <1>4, WorkerAssumption DEF PushArrives, Active
<1>5. CASE PushCompletes
  BY <1>0, <1>b, <1>5, WorkerAssumption DEF PushCompletes, Active
<1>6. ASSUME NEW w \in Workers, Step(w) \/ Fail(w) PROVE HooksHaveEvents'
  <2>0. Active(w)
    BY <1>6 DEF Step, Fail, Active, ProcessExternalLinks, ProcessEntities, ProcessEntitiesFails,
       LookupLink, DeleteEntityId, SyncStep, ListPage, DetectAndMarkDeleted, HookStep, FetchRecord,
       LaneStep, GetExternalLink, CreateEntity, UpdateEntity, DeleteRemote, RequestFails
  <2>1. CASE ProcessExternalLinks(w) \/ ListPage(w) \/ FetchRecord(w)
    BY <1>0, <1>b, <2>0, <2>1 DEF ProcessExternalLinks, ListPage, FetchRecord, Goto, Active
  <2>2. CASE ProcessEntities(w)
    BY <1>0, <1>b, <2>0, <2>2, WorkerAssumption DEF ProcessEntities, Finish, Goto, Active
  <2>3. CASE LookupLink(w) \/ DetectAndMarkDeleted(w)
    BY <1>0, <1>b, <2>0, <2>3, WorkerAssumption DEF LookupLink, DetectAndMarkDeleted, Finish, Goto, Active
  <2>4. CASE DeleteEntityId(w)
    BY <1>0, <1>b, <2>0, <2>4, WorkerAssumption DEF DeleteEntityId, Finish, Goto, Active
  <2>5. CASE Retry(w)
    <3>1. \A h \in Hooks : h \in Mates(w) => h = w
      BY WorkerAssumption DEF Mates
    <3>2. ASSUME NEW h \in Hooks, h \notin Mates(w) PROVE pc'[h] = pc[h] /\ event'[h] = event[h]
      BY <1>0, <2>5, <3>2 DEF Retry
    <3>3. ASSUME NEW h \in Hooks, h \in Mates(w), Active(h)' PROVE event'[h] = event[h]
      <4>1. attempt[w] < MaxRetries
        BY <1>0, <2>5, <3>3 DEF Retry, Active
      <4>. QED BY <2>5, <4>1 DEF Retry
    <3>. QED BY <1>b, <2>0, <3>1, <3>2, <3>3 DEF Active
  <2>6. CASE w \in Lanes /\ (GetExternalLink(w) \/ DeleteRemote(w))
    BY <1>0, <1>b, <2>0, <2>6 DEF GetExternalLink, DeleteRemote, Goto, Active
  <2>7. CASE w \in Lanes /\ (CreateEntity(w) \/ UpdateEntity(w))
    BY <1>0, <1>b, <2>0, <2>7 DEF CreateEntity, UpdateEntity, Respond, Goto, Active
  <2>. QED BY <1>6, <2>1, <2>2, <2>3, <2>4, <2>5, <2>6, <2>7, StepCases
<1>. QED BY <1>1, <1>2, <1>3, <1>4, <1>5, <1>6 DEF Next

LEMMA PagesExistStep ==
  ASSUME IInv, HooksHaveEvents, PagesExist, [Next]_vars PROVE PagesExist'
<1>0. /\ PcoMoves /\ page \in [Workers -> [ExternalIds -> Versions]]
      /\ EmptyPage \in [ExternalIds -> Versions]
      /\ \A x \in ExternalIds : EmptyPage[x] = 0
  BY NextMovesPco, ConstantsTyped DEF IInv, TypeOK, EmptyPage
<1>a. ASSUME \A w \in Workers, x \in ExternalIds :
               page'[w][x] > 0 => page'[w][x] = page[w][x] \/ remoteVer'[x] > 0
      PROVE PagesExist'
  BY <1>0, <1>a DEF PagesExist, InPage, PcoMoves
<1>1. CASE OtherClient \/ PushArrives \/ PushCompletes \/ UNCHANGED vars
  BY <1>a, <1>1 DEF OtherClient, PushArrives, PushCompletes, batchVars, vars
<1>2. CASE \E s \in Syncers : StartSync(s)
  BY <1>a, <1>2 DEF StartSync, batchVars
<1>3. CASE \E h \in Hooks, e \in events : Deliver(h, e)
  BY <1>a, <1>3 DEF Deliver, batchVars
<1>4. ASSUME NEW w \in Workers, Step(w) \/ Fail(w) PROVE PagesExist'
  <2>1. CASE ProcessEntities(w) \/ Retry(w)
    BY <1>0, <1>a, <2>1 DEF ProcessEntities, Retry
  <2>2. CASE ListPage(w)
    BY <1>0, <1>a, <2>2 DEF ListPage, PageAt, Live, pcoVars
  <2>3. CASE w \in Hooks /\ FetchRecord(w)
    <3>1. PICK v \in Versions : page' = [page EXCEPT ![w] = [EmptyPage EXCEPT ![event[w].id] = v]]
      BY <2>3 DEF FetchRecord
    <3>2. remoteVer'[event[w].id] > 0
      BY <2>3 DEF FetchRecord, HooksHaveEvents, Active, pcoVars
    <3>. QED BY <1>0, <1>a, <3>1, <3>2
  <2>4. CASE w \in Lanes /\ (CreateEntity(w) \/ UpdateEntity(w))
    <3>1. PICK x \in ExternalIds, v \in Versions : Respond(w, x, v) /\ remoteVer'[x] > 0
      BY <2>4, LaneRequest
    <3>2. page' = [page EXCEPT ![w] = [EmptyPage EXCEPT ![x] = v]]
      BY <3>1 DEF Respond
    <3>. QED BY <1>0, <1>a, <3>1, <3>2
  <2>5. CASE \/ ProcessExternalLinks(w) \/ LookupLink(w) \/ DeleteEntityId(w)
             \/ DetectAndMarkDeleted(w) \/ GetExternalLink(w) \/ DeleteRemote(w)
    BY <1>a, <2>5 DEF ProcessExternalLinks, LookupLink, DeleteEntityId, DetectAndMarkDeleted,
       GetExternalLink, DeleteRemote, batchVars
  <2>. QED BY <1>4, <2>1, <2>2, <2>3, <2>4, <2>5, StepCases
<1>. QED BY <1>1, <1>2, <1>3, <1>4 DEF Next

(* Links appear only through upserts, of records of the page. *)
LEMMA NewLinksOfPages ==
  ASSUME IInv, [Next]_vars, NEW x \in ExternalIds, links[x].st = "none", links'[x].st # "none"
  PROVE \E w \in Workers : ProcessExternalLinks(w) /\ InPage(w, x)
<1>1. CASE OtherClient \/ PushArrives \/ PushCompletes \/ UNCHANGED vars
  BY <1>1 DEF OtherClient, PushArrives, PushCompletes, dbVars, vars
<1>2. CASE \E s \in Syncers : StartSync(s)
  BY <1>2 DEF StartSync, dbVars
<1>3. CASE \E h \in Hooks, e \in events : Deliver(h, e)
  BY <1>3 DEF Deliver, dbVars
<1>4. ASSUME NEW w \in Workers, Step(w) \/ Fail(w)
      PROVE ProcessExternalLinks(w) /\ InPage(w, x)
  <2>1. CASE ProcessExternalLinks(w)
    BY <2>1 DEF ProcessExternalLinks
  <2>2. CASE DetectAndMarkDeleted(w)
    BY <2>2 DEF DetectAndMarkDeleted, StaleLinks
  <2>3. CASE DeleteEntityId(w)
    BY <2>3 DEF DeleteEntityId, EraseLinks
  <2>4. CASE \/ ProcessEntities(w) \/ LookupLink(w) \/ Retry(w)
    BY <2>4 DEF ProcessEntities, LookupLink, Retry, dbVars
  <2>5. CASE \/ ListPage(w) \/ FetchRecord(w) \/ GetExternalLink(w)
             \/ CreateEntity(w) \/ UpdateEntity(w) \/ DeleteRemote(w)
    BY <2>5 DEF ListPage, FetchRecord, GetExternalLink, CreateEntity, UpdateEntity,
       DeleteRemote, Respond, dbVars
  <2>. QED BY <1>4, <2>1, <2>2, <2>3, <2>4, <2>5, StepCases
<1>. QED BY <1>1, <1>2, <1>3, <1>4 DEF Next

LEMMA LinkedExistStep ==
  ASSUME IInv, PagesExist, LinkedExist, [Next]_vars PROVE LinkedExist'
BY NewLinksOfPages, NextMovesPco DEF PagesExist, LinkedExist, Linked, PcoMoves

LEMMA ExistInvStep == ASSUME IInv, ExistInv, [Next]_vars PROVE ExistInv'
BY EmittedExistStep, HooksHaveEventsStep, PagesExistStep, LinkedExistStep DEF ExistInv

-----------------------------------------------------------------------------
(* What a lane knows of its entity. *)

(* A link names the entity the record was created from, or one minted by a *)
(* webhook.                                                                *)
LinkOrigin == \A x \in Linked : \/ links[x].entityId = author[x]
                               \/ \E h \in Hooks : links[x].entityId = MintedId[x][h]

Landed(e) == (\E x \in ExternalIds : LinkedTo(x, e)) \/ Overtaken(e)

(* The answer is one record, linked to the entity or created from it. *)
AnswerOf(l, z) ==
  /\ ownerId[l] = op[l].id
  /\ \A x \in ExternalIds : InPage(l, x) <=> x = z
  /\ author[z] = op[l].id \/ LinkedTo(z, op[l].id)

LanePushes(l) ==
  /\ op[l].kind # "none" => op[l].id \in EntityIds
  /\ pc[l] # "idle" => op[l].kind # "none"
  /\ pc[l] \in {"remove", "lookup", "erase"} => op[l].kind = "delete"
  /\ pc[l] = "update" => target[l] \in ExternalIds /\ LinkedTo(target[l], op[l].id)
  /\ pc[l] = "links" => \E z \in ExternalIds : AnswerOf(l, z)
  /\ pc[l] \in {"rows", "done"} /\ op[l].kind = "insert" => Landed(op[l].id)

PushInv == ExistInv /\ OnlyLanesOwn /\ LinkOrigin /\ \A l \in Lanes : LanePushes(l)

LEMMA LinkedToStays ==
  ASSUME LinksKept, NEW x \in ExternalIds, NEW e, LinkedTo(x, e) PROVE LinkedTo(x, e)'
BY DEF LinksKept, LinkedTo

LEMMA LandedStays ==
  ASSUME LinksKept, PcoMoves, LinkedExist, NEW e, Landed(e) PROVE Landed(e)'
<1>1. CASE \E x \in ExternalIds : LinkedTo(x, e)
  BY <1>1, LinkedToStays DEF Landed
<1>2. CASE Overtaken(e)
  <2>1. PICK x \in ExternalIds, h \in Hooks : author[x] = e /\ LinkedTo(x, MintedId[x][h])
    BY <1>2 DEF Overtaken
  <2>2. author'[x] = e
    BY <2>1 DEF LinkedTo, LinkedExist, Linked, PcoMoves
  <2>3. LinkedTo(x, MintedId[x][h])'
    BY <2>1, LinkedToStays
  <2>. QED BY <2>2, <2>3 DEF Landed, Overtaken
<1>. QED BY <1>1, <1>2 DEF Landed

LEMMA NewLinkOfLane ==
  ASSUME IInv, PushInv, NEW l \in Lanes, ProcessExternalLinks(l), NEW z \in ExternalIds,
         AnswerOf(l, z), links[z].st = "none"
  PROVE links'[z].entityId = op[l].id
<1>1. op[l].id \in EntityIds /\ pc[l] = "links"
  BY DEF PushInv, LanePushes, ProcessExternalLinks
<1>2. ownerId[l] # None /\ InPage(l, z)
  BY <1>1, IdAssumption DEF AnswerOf
<1>3. links'[z] = UpsertedLink(l, z)
  BY <1>2 DEF ProcessExternalLinks
<1>. QED BY <1>2, <1>3 DEF UpsertedLink, InsertedId, AnswerOf

LEMMA LinkOriginStep ==
  ASSUME NoFullSync, IInv, PushInv, [Next]_vars PROVE LinkOrigin'
<1>0. LinksKept /\ PcoMoves /\ LinkOrigin /\ LinkedExist
  BY NextKeepsLinks, NextMovesPco DEF PushInv, ExistInv
<1>1. SUFFICES ASSUME NEW x \in ExternalIds, links'[x].st # "none"
               PROVE \/ links'[x].entityId = author'[x]
                     \/ \E h \in Hooks : links'[x].entityId = MintedId[x][h]
  BY DEF LinkOrigin, Linked
<1>2. CASE links[x].st # "none"
  BY <1>0, <1>2 DEF LinkOrigin, Linked, LinksKept, LinkedExist, PcoMoves
<1>3. CASE links[x].st = "none"
  <2>1. PICK w \in Workers : ProcessExternalLinks(w) /\ InPage(w, x)
    BY <1>1, <1>3, NewLinksOfPages
  <2>2. CASE w \in Hooks
    <3>1. ownerId[w] = None
      BY <2>2, WorkerAssumption DEF PushInv, OnlyLanesOwn
    <3>2. links'[x] = UpsertedLink(w, x)
      BY <2>1 DEF ProcessExternalLinks
    <3>. QED BY <1>3, <2>2, <3>1, <3>2 DEF UpsertedLink, InsertedId
  <2>3. CASE w \in Lanes
    <3>1. PICK z \in ExternalIds : AnswerOf(w, z)
      BY <2>1, <2>3 DEF PushInv, LanePushes, ProcessExternalLinks
    <3>2. x = z
      BY <2>1, <3>1 DEF AnswerOf
    <3>3. author[x] = op[w].id /\ UNCHANGED author
      BY <1>3, <2>1, <3>1, <3>2 DEF AnswerOf, LinkedTo, ProcessExternalLinks, pcoVars
    <3>. QED BY <1>3, <2>1, <2>3, <3>1, <3>2, <3>3, NewLinkOfLane
  <2>. QED BY <2>2, <2>3 DEF Workers, NoFullSync
<1>. QED BY <1>2, <1>3

LEMMA RestingLanePushes ==
  ASSUME NEW l \in Lanes, LanePushes(l), LaneRests(l), LinksKept, PcoMoves, PagesExist, LinkedExist
  PROVE LanePushes(l)'
<1>0. /\ pc'[l] = pc[l] /\ op'[l] = op[l] /\ target'[l] = target[l]
      /\ page'[l] = page[l] /\ ownerId'[l] = ownerId[l] /\ l \in Workers
  BY DEF LaneRests, Workers
<1>1. ASSUME pc[l] = "update"
      PROVE target'[l] \in ExternalIds /\ LinkedTo(target[l], op[l].id)'
  <2>1. PICK x \in ExternalIds, e \in EntityIds \cup {op[l].id} :
          x = target[l] /\ e = op[l].id /\ LinkedTo(x, e)
    BY <1>1 DEF LanePushes
  <2>2. LinkedTo(x, e)'
    BY <2>1, LinkedToStays
  <2>. QED BY <1>0, <2>1, <2>2 DEF LinkedTo
<1>2. ASSUME pc[l] = "links" PROVE \E z \in ExternalIds : AnswerOf(l, z)'
  <2>1. PICK z \in ExternalIds : AnswerOf(l, z)
    BY <1>2 DEF LanePushes
  <2>2. author'[z] = author[z]
    BY <1>0, <2>1 DEF AnswerOf, PagesExist, PcoMoves
  <2>3. LinkedTo(z, op[l].id) => links'[z].st # "none" /\ links'[z].entityId = op[l].id
    BY DEF LinkedTo, LinksKept
  <2>. QED BY <1>0, <2>1, <2>2, <2>3 DEF AnswerOf, LinkedTo, InPage
<1>3. ASSUME Landed(op[l].id) PROVE Landed(op[l].id)'
  <2>1. PICK e \in {op[l].id} : e = op[l].id /\ Landed(e)
    BY <1>3
  <2>2. Landed(e)'
    BY <2>1, LandedStays
  <2>. QED BY <1>0, <2>1, <2>2 DEF Landed, LinkedTo, Overtaken
<1>. QED BY <1>0, <1>1, <1>2, <1>3 DEF LanePushes

(* A failure of one lane sends all lanes with a mutation back. *)
LEMMA RetriedLanePushes ==
  ASSUME NEW l \in Lanes, LanePushes(l), NEW k \in Lanes, Retry(k), l \in Mates(k)
  PROVE LanePushes(l)'
<1>0. l \in Workers /\ l \notin Syncers /\ op[l].kind # "none"
  BY WorkerAssumption DEF Workers, Mates
<1>1. CASE attempt[k] < MaxRetries
  <2>1. pc'[l] = "find" /\ op'[l] = op[l]
    BY <1>0, <1>1 DEF Retry, FirstStep
  <2>. QED BY <1>0, <2>1 DEF LanePushes
<1>2. CASE ~ attempt[k] < MaxRetries
  <2>1. pc'[l] = "idle" /\ op'[l] = NoOp
    BY <1>0, <1>2 DEF Retry
  <2>. QED BY <2>1 DEF LanePushes, NoOp
<1>. QED BY <1>1, <1>2

(* The steps of the other activities leave a lane where it is, unless one  *)
(* of the lanes fails.                                                     *)
LEMMA OtherLanesLeaveLane ==
  ASSUME IInv, NEW l \in Lanes, NEW w \in Workers, w # l, Step(w) \/ Fail(w)
  PROVE LaneRests(l) \/ (w \in Lanes /\ Retry(w) /\ l \in Mates(w))
<1>0. /\ l \in Workers /\ pc \in [Workers -> Steps]
      /\ page \in [Workers -> [ExternalIds -> Versions]]
      /\ ownerId \in [Workers -> EntityIds \cup {None}] /\ op \in [Workers -> Ops]
      /\ target \in [Workers -> ExternalIds \cup {0}]
  BY DEF Workers, IInv, TypeOK
<1>1. CASE w \notin Lanes
  BY <1>1, OthersLeaveLane
<1>2. CASE w \in Lanes
  <2>0. w \notin Syncers /\ w \notin Hooks
    BY <1>2, WorkerAssumption
  <2>1. CASE ProcessExternalLinks(w)
    BY <1>0, <2>1 DEF ProcessExternalLinks, Goto, LaneRests, pushVars
  <2>2. CASE ProcessEntities(w)
    BY <1>0, <2>2 DEF ProcessEntities, Finish, Goto, LaneRests, pushVars
  <2>3. CASE LookupLink(w)
    BY <1>0, <2>3 DEF LookupLink, Finish, Goto, LaneRests, pushVars, batchVars
  <2>4. CASE DeleteEntityId(w)
    BY <1>0, <2>4 DEF DeleteEntityId, Finish, Goto, LaneRests, pushVars, batchVars
  <2>5. CASE Retry(w) /\ l \notin Mates(w)
    BY <1>0, <2>5 DEF Retry, LaneRests
  <2>6. CASE GetExternalLink(w)
    BY <1>0, <2>6 DEF GetExternalLink, Goto, LaneRests, batchVars
  <2>7. CASE CreateEntity(w) \/ UpdateEntity(w)
    BY <1>0, <2>7 DEF CreateEntity, UpdateEntity, Respond, Goto, LaneRests, pushVars
  <2>8. CASE DeleteRemote(w)
    BY <1>0, <2>8 DEF DeleteRemote, Goto, LaneRests, batchVars, pushVars
  <2>. QED BY <1>2, <2>0, <2>1, <2>2, <2>3, <2>4, <2>5, <2>6, <2>7, <2>8, StepCases
<1>. QED BY <1>1, <1>2

(* After the upsert the entity is linked, or a webhook was first. *)
LEMMA UpsertLands ==
  ASSUME NoFullSync, IInv, PushInv, NEW l \in Lanes, ProcessExternalLinks(l), [Next]_vars
  PROVE Landed(op[l].id)'
<1>0. LinksKept /\ LinkOrigin' /\ UNCHANGED <<author, op>>
  BY NextKeepsLinks, LinkOriginStep DEF ProcessExternalLinks, pcoVars, pushVars
<1>1. PICK z \in ExternalIds : AnswerOf(l, z)
  BY DEF PushInv, LanePushes, ProcessExternalLinks
<1>2. links'[z].st # "none"
  <2>1. links'[z] = UpsertedLink(l, z) /\ links[z] \in Links /\ page[l][z] \in Versions
    BY <1>1 DEF ProcessExternalLinks, AnswerOf, IInv, TypeOK, Workers
  <2>2. \A r \in Links, v \in Versions : [r EXCEPT !.updatedAt = v].st = r.st
    BY DEF Links
  <2>. QED BY <2>1, <2>2 DEF UpsertedLink
<1>3. CASE LinkedTo(z, op[l].id)
  <2>1. links'[z].entityId = op[l].id
    BY <1>0, <1>3 DEF LinksKept, LinkedTo
  <2>. QED BY <1>0, <1>2, <2>1 DEF Landed, LinkedTo
<1>4. CASE author[z] = op[l].id
  <2>1. CASE links'[z].entityId = author'[z]
    BY <1>0, <1>2, <1>4, <2>1 DEF Landed, LinkedTo
  <2>2. CASE \E h \in Hooks : links'[z].entityId = MintedId[z][h]
    BY <1>0, <1>2, <1>4, <2>2 DEF Landed, Overtaken, LinkedTo
  <2>. QED BY <1>0, <1>2, <2>1, <2>2 DEF LinkOrigin, Linked
<1>. QED BY <1>1, <1>3, <1>4 DEF AnswerOf

LEMMA LaneAnswered ==
  ASSUME IInv, PushInv, NEW l \in Lanes, CreateEntity(l) \/ UpdateEntity(l)
  PROVE LanePushes(l)'
<1>0. /\ l \in Workers /\ pc \in [Workers -> Steps]
      /\ page \in [Workers -> [ExternalIds -> Versions]]
      /\ ownerId \in [Workers -> EntityIds \cup {None}] /\ LanePushes(l)
  BY DEF Workers, IInv, TypeOK, PushInv
<1>1. PICK x \in ExternalIds, v \in Versions :
        /\ v > 0 /\ Respond(l, x, v)
        /\ CreateEntity(l) => author'[x] = op[l].id
        /\ UpdateEntity(l) => x = target[l]
  BY LaneRequest
<1>2. /\ pc'[l] = "links" /\ ownerId'[l] = op[l].id /\ UNCHANGED <<links, op>>
      /\ \A y \in ExternalIds : page'[l][y] > 0 <=> y = x
  BY <1>0, <1>1 DEF Respond, Goto, dbVars, pushVars, EmptyPage
<1>3. CreateEntity(l) \/ LinkedTo(x, op[l].id)
  BY <1>0, <1>1 DEF LanePushes, UpdateEntity
<1>4. author'[x] = op[l].id \/ LinkedTo(x, op[l].id)
  BY <1>1, <1>3
<1>5. AnswerOf(l, x)'
  BY <1>2, <1>4 DEF AnswerOf, LinkedTo, InPage
<1>6. op[l].kind # "none" /\ op[l].id \in EntityIds
  BY <1>0 DEF LanePushes, CreateEntity, UpdateEntity
<1>. QED BY <1>2, <1>5, <1>6 DEF LanePushes

LEMMA LaneFound ==
  ASSUME IInv, NEW l \in Lanes, LanePushes(l), GetExternalLink(l) PROVE LanePushes(l)'
<1>0. /\ l \in Workers /\ pc \in [Workers -> Steps] /\ UNCHANGED <<links, op>>
      /\ target \in [Workers -> ExternalIds \cup {0}]
      /\ op[l].kind # "none" /\ op[l].id \in EntityIds
  BY DEF Workers, IInv, TypeOK, GetExternalLink, LanePushes, dbVars
<1>1. CASE pc'[l] = "create"
  BY <1>0, <1>1 DEF LanePushes
<1>2. CASE op[l].kind = "delete" /\ pc'[l] \in {"remove", "done"}
  BY <1>0, <1>2 DEF LanePushes
<1>3. ASSUME NEW x \in LiveLinksOf(op[l].id), target'[l] = x, pc'[l] = "update"
      PROVE LanePushes(l)'
  BY <1>0, <1>3 DEF LanePushes, LiveLinksOf, LinkedTo
<1>. QED BY <1>0, <1>1, <1>2, <1>3 DEF GetExternalLink, Goto

LEMMA LaneStepPushes ==
  ASSUME NoFullSync, IInv, PushInv, [Next]_vars, NEW l \in Lanes, Step(l) \/ Fail(l)
  PROVE LanePushes(l)'
<1>0. /\ l \in Workers /\ l \notin Syncers /\ l \notin Hooks
      /\ pc \in [Workers -> Steps] /\ LanePushes(l)
  BY WorkerAssumption DEF Workers, IInv, TypeOK, PushInv
<1>a. op[l].kind # "none" => op[l].id \in EntityIds
  BY <1>0 DEF LanePushes
<1>1. CASE ProcessExternalLinks(l)
  <2>1. pc'[l] = "rows" /\ UNCHANGED op /\ op[l].kind # "none"
    BY <1>0, <1>1 DEF ProcessExternalLinks, Goto, pushVars, LanePushes
  <2>. QED BY <1>1, <1>a, <2>1, UpsertLands DEF LanePushes
<1>2. CASE ProcessEntities(l)
  <2>1. pc'[l] = "done" /\ UNCHANGED <<op, links, author>> /\ op[l].kind # "none"
    BY <1>0, <1>2 DEF ProcessEntities, Finish, Goto, pushVars, pcoVars, LanePushes
  <2>2. op[l].kind = "insert" => Landed(op[l].id)
    BY <1>0, <1>2 DEF ProcessEntities, LanePushes
  <2>. QED BY <1>a, <2>1, <2>2 DEF LanePushes, Landed, LinkedTo, Overtaken
<1>3. CASE LookupLink(l)
  <2>1. pc'[l] \in {"erase", "done"} /\ UNCHANGED op /\ op[l].kind = "delete"
    BY <1>0, <1>3 DEF LookupLink, Finish, Goto, pushVars, LanePushes
  <2>. QED BY <1>a, <2>1 DEF LanePushes
<1>4. CASE DeleteEntityId(l)
  <2>1. pc'[l] \in {"erase", "done"} /\ UNCHANGED op /\ op[l].kind = "delete"
    BY <1>0, <1>4 DEF DeleteEntityId, Finish, Goto, pushVars, LanePushes
  <2>. QED BY <1>a, <2>1 DEF LanePushes
<1>5. CASE Retry(l)
  <2>1. pc[l] # "idle"
    BY DEF Step, Fail, Active, ProcessExternalLinks, ProcessEntities, ProcessEntitiesFails,
       LookupLink, DeleteEntityId, SyncStep, ListPage, DetectAndMarkDeleted, HookStep, FetchRecord,
       LaneStep, GetExternalLink, CreateEntity, UpdateEntity, DeleteRemote, RequestFails
  <2>2. l \in Mates(l)
    BY <1>0, <2>1 DEF Mates, LanePushes
  <2>. QED BY <1>0, <1>5, <2>2, RetriedLanePushes
<1>6. CASE GetExternalLink(l)
  BY <1>0, <1>6, LaneFound
<1>7. CASE CreateEntity(l) \/ UpdateEntity(l)
  BY <1>7, LaneAnswered
<1>8. CASE DeleteRemote(l)
  <2>1. pc'[l] = "lookup" /\ UNCHANGED op /\ op[l].kind = "delete"
    BY <1>0, <1>8 DEF DeleteRemote, Goto, pushVars, LanePushes
  <2>. QED BY <1>a, <2>1 DEF LanePushes
<1>. QED BY <1>0, <1>1, <1>2, <1>3, <1>4, <1>5, <1>6, <1>7, <1>8, StepCases

LEMMA LaneArrives ==
  ASSUME IInv, NEW l \in Lanes, PushArrives PROVE LanePushes(l)'
<1>0. l \in Workers /\ pc \in [Workers -> Steps] /\ pc[l] = "idle"
  BY DEF Workers, IInv, TypeOK, PushArrives
<1>1. PICK o \in [Lanes -> Ops] :
        /\ \A k \in Lanes : Possible(o, k)
        /\ op' = [w \in Workers |-> IF w \in Lanes THEN o[w] ELSE NoOp]
        /\ pc' = [w \in Workers |-> IF w \in Lanes /\ o[w].kind # "none" THEN "find" ELSE pc[w]]
  BY DEF PushArrives
<1>2. op'[l] = o[l] /\ pc'[l] = IF o[l].kind # "none" THEN "find" ELSE "idle"
  BY <1>0, <1>1
<1>3. o[l].kind # "none" => o[l].id \in EntityIds
  <2>1. CASE o[l].kind = "insert"
    BY <1>1, <2>1 DEF Possible, EntityIds
  <2>2. CASE o[l].kind \notin {"none", "insert"}
    BY <1>1, <2>2 DEF Possible, Ops
  <2>. QED BY <2>1, <2>2
<1>. QED BY <1>2, <1>3 DEF LanePushes

LEMMA LanePushesStep ==
  ASSUME NoFullSync, IInv, PushInv, [Next]_vars, NEW l \in Lanes PROVE LanePushes(l)'
<1>0. /\ LanePushes(l) /\ LinksKept /\ PcoMoves /\ PagesExist /\ LinkedExist
      /\ l \in Workers /\ l \notin Syncers /\ l \notin Hooks /\ pc \in [Workers -> Steps]
  BY NextKeepsLinks, NextMovesPco, WorkerAssumption DEF PushInv, ExistInv, Workers, IInv, TypeOK
<1>a. ASSUME LaneRests(l) PROVE LanePushes(l)'
  BY <1>0, <1>a, RestingLanePushes
<1>1. CASE OtherClient \/ UNCHANGED vars
  BY <1>a, <1>1 DEF OtherClient, vars, LaneRests
<1>2. CASE \E s \in Syncers : StartSync(s)
  BY <1>2 DEF NoFullSync
<1>3. CASE \E h \in Hooks, e \in events : Deliver(h, e)
  BY <1>0, <1>a, <1>3 DEF Deliver, Goto, batchVars, pushVars, LaneRests
<1>4. CASE PushArrives
  BY <1>4, LaneArrives
<1>5. CASE PushCompletes
  BY <1>0, <1>5 DEF PushCompletes, LanePushes, NoOp
<1>6. ASSUME NEW w \in Workers, Step(w) \/ Fail(w) PROVE LanePushes(l)'
  BY <1>0, <1>a, <1>6, LaneStepPushes, OtherLanesLeaveLane, RetriedLanePushes
<1>. QED BY <1>1, <1>2, <1>3, <1>4, <1>5, <1>6 DEF Next

(* A push that created an entity in PCO and succeeded has linked it, or a  *)
(* webhook has linked its record to an entity of its own before, for any   *)
(* number of mutations and webhooks and any failures and retries.          *)
THEOREM PushesLandOrAreOvertaken ==
  ASSUME NoFullSync PROVE Spec => []PushedLinkedOrOvertaken
<1>1. Init => IInv /\ PushInv
  <2>1. Init => PushInv
    BY DEF Init, PushInv, ExistInv, EmittedExist, HooksHaveEvents, Active, PagesExist, InPage,
       EmptyPage, LinkedExist, OnlyLanesOwn, LinkOrigin, Linked, NoLink, LanePushes, NoOp, Workers
  <2>. QED BY <2>1, InitIInv
<1>2. IInv /\ PushInv /\ [Next]_vars => (IInv /\ PushInv)'
  BY NextIInv, ExistInvStep, OnlyLanesOwnStep, LinkOriginStep, LanePushesStep DEF PushInv
<1>3. PushInv => PushedLinkedOrOvertaken
  BY DEF PushInv, LanePushes, PushedLinkedOrOvertaken, Landed
<1>. QED BY <1>1, <1>2, <1>3, PTL DEF Spec
=============================================================================
