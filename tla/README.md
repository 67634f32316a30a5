# The OpenFaith sync engine in TLA+

OpenFaith keeps a church's records in its own PostgreSQL database and keeps them
in step with an external system, today Planning Center Online (PCO). This
directory models that sync engine, the services it stands on (access tokens, the
rate limiter, webhook subscriptions, the durable workflows), the push of local
mutations and what they do to the fields of a record, and the table filters of
the web application: TLA+ modules translated from the code, TLC configurations that check them on small instances, and TLAPS
proofs of the invariants that hold for every size of instance.

Paths below are relative to `src/`.

## 1. The system

| Component | Where | State | Operations |
|---|---|---|---|
| InternalManager | `backend/server/live/internalManagerLive.ts` | tables `externalLinks`, the entity tables, `edges` | upsert links, write entities, write edges, delete by external id, merge, detect deletions, find the link of an entity |
| PCO adapter manager | `adapters/pco/pcoAdapterManagerLive.ts` | none of its own; PCO behind HTTP | sync a type page by page, sync one record, create / update / delete in PCO, process a webhook, subscribe to webhooks |
| Sync chains | `adapters/adapter-core/chains/syncEngine.chain.ts` | none | tie the two managers together: full sync, webhook, mutation |
| Workflows | `backend/workers/workflows/` | durable executions of the workflow engine | full sync (one child per type), webhook, push (one child per type), organisation creation; every activity is retried 3 times |
| Zero mutators | `backend/server/handlers/zeroMutatorsHandler.ts`, `packages/zero/mutators.ts` | the entity tables | apply local mutations, then start a push |
| Mutation conversion | `backend/workers/helpers/convertCustomMutation.ts` | none (pure) | CRUD form of custom mutations |
| Tokens | `backend/server/live/tokenAuthLive.ts`, `tokenManagerLive.ts` | a cache and two locks per layer, table `adapterTokens` | load, refresh and save the access token |
| Rate limiter | `adapters/adapter-core/layers/ratelimit/` | counters in memory or Redis | wait before a request |
| HTTP handlers | `backend/server/handlers/` | tables `adapterTokens`, `adapterDetails` | connect an adapter, receive a webhook |
| Relationship registry | `backend/server/helpers/updateEntityRelationships.ts` | table `entityRelationships` | add target types to a source type |
| E-mail change | `packages/auth/plugins/email-change-otp/index.ts` | verification values, users | send and verify a one-time password |
| Transformers | `adapters/pco/transformer/pcoTransformer.ts`, `pcoPersonSchema.ts` | none (pure) | PCO's attributes to fields and back, the payload of an update |
| Edit form and data grid | `packages/ui/form/universalForm.tsx`, `packages/ui/table/universalDataGrid.tsx` | what the form was opened with | send an update |
| Table filters | `packages/ui/components/data-table-filter/`, `packages/ui/shared/hooks/useFilterQuery.tsx` | the filters in the URL, the local state and timers of the controls | edit a filter, turn the filters into a query |
| Schemas, UI, drivers | `packages/schema`, `packages/ui`, `apps/openfaith`, `packages/sql-pg-bun`, `packages/bun-test` | - | declarations, presentation, adapted libraries |

How they interact. A *full sync* runs one activity per entity type: list a page
from PCO, upsert a link per record, write the rows of the records that changed,
write the edges, go on with the next page, and at the end mark what was not
seen. A *webhook* starts an activity that fetches the record again and runs the
same three writes for it, or deletes or merges. A *local mutation* is written to
the rows by Zero and then pushed: an activity processes the mutations of a type
concurrently, each of them looking up the link, calling PCO, and handing the
response to the same three writes. All of these share only the database and PCO.
Nothing holds a lock or a transaction over more than one SQL statement, and a
failed activity is started again from its beginning.

What is hard here: any two statements of different activities interleave; an
activity can stop between two statements and is then repeated; PCO's records
change while pages are listed; events arrive late and reordered; the push
of a record and the webhook it provokes race.

What makes it correct, component by component:

- *links*: an external record keeps the entity it was given; a row is only
  written with the data of the record its link names; an entity has one link;
- *rows*: in step with their links, never older, complete after repeated syncs;
- *push*: no duplicates in PCO, a pushed entity is linked to what was created;
- *edges*: only between linked entities, one direction per pair, complete after
  the events are processed, carried over by a merge;
- *tokens*: one refresh at a time, no refresh token used twice, no token lost;
- *rate limiter*: no window exceeds the limit, nobody waits longer than needed;
- *subscriptions*: an active one per kind of event, its secret stored, no change
  of PCO's lost;
- *workflows*: every execution ends; failures, replays and concurrent executions
  leave what a single undisturbed one leaves;
- *fields*: an update changes what the user edited and nothing else; what was
  entered last is what PCO and the row end up with;
- *filters*: an operator that fits its values, what was entered last is applied,
  both interpretations of an operator keep the same rows.

## 2. Modules

| Module | Models |
|---|---|
| `ExternalIdentity` | What the link and entity tables promise: an external record gets an entity once and for all; an entity only shows a record it is the entity of. |
| `RecordSync` | One PCO entity type: PCO, `externalLinks`, the entity table, full sync, webhooks, push. Implements `ExternalIdentity`. |
| `EntityGraph` | The `edges` table: relationships of synced records, deletion, merging. |
| `MutationPush` | The way of a user's mutations: client, push handler, daemon, `ExternalPushWorkflow`, PCO, back to the rows. |
| `TokenAuth` | Access tokens: the caches and locks of several layers over one table, PCO's refresh tokens. |
| `RateLimiter` | The limiter of one layer, in integer time. |
| `Webhooks` | `subscribeToWebhooks`, deliveries and their signatures. |
| `OrgSetup` | `CreateOrgWorkflow` and the relationship registry. |
| `OrgSync` | The workflows of one organisation: composes `Webhooks` and `OrgSetup` with `ExternalSyncWorkflow` and its children. |
| `PcoTransformer` | Attributes of a record and fields of an entity, as pure functions: decode, encode, defaults, payload. |
| `FieldSync` | The fields of one linked record: PCO, row, edit form, cells, pushes and their responses. |
| `FilterOperators` | The operators of table filters, as pure functions: client-side meaning, query, transitions. |
| `TableFilters` | The filters, the controls that edit them and their timers. |
| `MC...` | Values of the constants for TLC. `MCPcoClient` puts `TokenAuth` and `RateLimiter` in one instance, `MCSyncFields` `RecordSync` and `FieldSync`: they share no state, so one only moves while the other is at its beginning. |
| `RecordSyncProofs`, `EntityGraphProofs`, `TokenAuthProofs`, `RateLimiterProofs`, `FieldSyncProofs`, `MutationPushProofs`, `OrgSyncProofs`, `TableFilterProofs` | Theorems and proofs. |

### RecordSync

Every SQL statement and every PCO request is one action; between two actions
anything else may run. The variables and what they stand for:

| Variable | Code |
|---|---|
| `remoteVer`, `gone`, `author`, `events` | PCO: `updated_at` of each record as a version, destroyed records, which local entity a record was created from, webhook deliveries under way |
| `links` | `externalLinks`, keyed by external id: `entityId`, `updatedAt`, live or `deletedAt` |
| `rows` | the entity table: live or `deletedAt`, whose data it holds (`of`) and at what version |
| `pc`, `page`, `changed`, `offset`, `erasing`, `target`, `op`, `event`, `attempt` | local variables of a running activity and its retry count |
| `ownerId` | the `entityId` a push attaches to the response of PCO |
| `stale` | the links whose `lastProcessedAt` is before the sync's start |

| Action | Code |
|---|---|
| `StartSync`, `ListPage`, `DetectAndMarkDeleted` | `externalSyncEntity`, `syncEntityType`, `detectAndMarkDeleted` |
| `Deliver`, `FetchRecord` | `processWebhook`, `syncEntityId` (with its fallback to the event's own data when PCO answers 404) |
| `ProcessExternalLinks` | `createExternalLinks`, `processEntityExternalLinks`: the upsert keeps `entityId` and `deletedAt`; only links whose `updatedAt` differs count as changed |
| `ProcessEntities`, `ProcessEntitiesFails` | `transformSingleEntity`, `processEntities`: a row is overwritten, `deletedAt` included; PostgreSQL rejects a statement that hits a row twice |
| `LookupLink`, `DeleteEntityId` | `deleteEntity`, `deleteEntityId`: two statements that run concurrently, in either order |
| `PushArrives`, `PushCompletes` | the Zero mutator and `ExternalPushWorkflow` |
| `GetExternalLink`, `CreateEntity`, `UpdateEntity`, `DeleteRemote`, `RequestFails` | `processMutation` and the adapter's create, update and delete |
| `Fail` | a crash or an error between two statements; `Activity.retry` starts the activity again (all the mutations of a push together), after `MaxRetries` the workflow fails |
| `OtherClient` | external: PCO's other users |

Abstracted: a record is a version number; a page carries no `included` records;
the relationships of a record are left to `EntityGraph`; organisation and
adapter are fixed; other columns of the tables are left out. The type names
`OfEntityName` and `SyncEntityType` are kept, because the deletion detection
compares them. The ids an activity mints for new links are a constant function
of record and activity: two activities never mint the same id.

### EntityGraph

People with a primary campus. Edges are written with external ids in place of
entity ids, which is sound because a link keeps its entity
(`LinksKeepTheirEntity`); `Rank` is the order of the entity ids. The entity rows
are left out. `Deliver` to `ProcessRelationships` are an upsert event,
`DeleteEntity` and `DeleteEntityId` a delete event, `MergeLinks`, `ReadEdges`,
`DeleteEntityId`, `MoveEdges` a merge (`mergeEntity`: select the two links, select
the removed one's edges, delete it, insert the moved edges and a `merged` one).
`failed` holds the events whose workflow failed for good.

### MutationPush

`Post` is the Zero client: it sends what it has not sent, or again whatever it
has not seen acknowledged. `Commit` is one mutator transaction of
`zeroPushProcessor.process`; `Skip` and `StopProcessing` are what the library does
with repeated, refused or unexpected mutations (external, all its choices
allowed). `ServerStops` loses the request, or the daemon that was to start the
workflow. `StartWorkflow` converts all the mutations *of the request*, committed
or not, and starts one task per item; `GetExternalLink`, `CreateEntity`,
`UpdateEntity`, `ProcessResponse` are the task's steps, tasks interleave freely.
`Fail` retries all of a request's mutations, whatever some of them have done. A
link and its row are written in one step here, but a failure may come between;
their races are `RecordSync`'s. The histories `crossed`, `retried`, `undone` mark
the entities whose pushes overlapped, were repeated, or were lost: the properties
say that nothing else goes wrong.

### TokenAuth and RateLimiter

A layer is built per activity, so several exist at a time. `ref`, `cache`,
`loadLock` and `refreshLock` are `tokenStateRef`, `tokenCache` and the two
semaphores; `stored` is `adapterTokens`, a row per user of which
`loadTokenState` takes the first it gets; a grant is a pair of access and refresh
token of which PCO takes the refresh token once (`usedBy`). Each step of a fiber is
what runs between two waits: `GetValidAccessToken`, `AcquireLoadLock`,
`LoadTokenState`, `CheckExpiry`, `AcquireRefreshLock`, `RefreshToken`,
`SaveTokenState`, `SetRef`. `Fail` is an error anywhere, an answer lost after PCO
acted included; `Restart` is the end of an activity or a crash. `Expire` may come
at any moment. `lost` notes grants whose replacement a failure lost: nothing in
the code can recover those but a new connection.

`RateLimiter` computes the delay with the code's own divisions. The memory store
and the Redis script do the same arithmetic. The limiter's buckets are unused.
`PerRequest` is rounded up, so a counter that never expires gains on its windows:
with the code's 21000 ms and 101 requests (208 ms each), one request more in every
26 windows. `WindowsHoldTheLimit` says exactly how many more (`Excess`).

### Webhooks, OrgSetup, OrgSync

`Webhooks` has one step per request to PCO or statement of `subscribeToWebhooks`
(`ListSubscriptions`, `KeepSubscription`, `CreateSubscription`, `StoreSecret`), and
the stages of a delivery: posted, in the daemon fiber, identified
(`GetWebhookOrgId` looks for the secret that gives its signature), processed.
PCO repeats a delivery, makes a subscription inactive; the web server stops with
fibers in the background (`FiberLost`). `unseen` are the changes not yet in the
database. `OrgSetup` has the two activities of `CreateOrgWorkflow` and the
registry, to which `UpdateEntityRelationships` adds. `OrgSync` is
`ExternalSyncWorkflow`: the activity that subscribes, the children one after the
other, the activity that joins the user to a person. The engine is external: an
activity's result is recorded in a step of its own (`SubscribeRecorded`,
`MapRecorded`), an execution that is resumed (`Crash`) goes through its workflow
again and skips what is recorded. A child is *not* found again, because its
idempotency key contains the time: it becomes an orphan that goes on
(`OrphanEnds`), and the children start anew. What a child does is one step here
(`Syncs`): `RecordSync` and `EntityGraph` say how it gets there.

### PcoTransformer and FieldSync

`Decode` and `Encode` are the two directions of `pcoToOf`, attribute by attribute:
an attribute is a standard field or one of the custom fields, which an entity
has in one column, so an update has all of them or none. The two spellings of a
gender become one. `Encode` gives a custom attribute that is missing the
`Default` of its kind: in the schema of the partial transformer the null of a
nullable attribute sits in an inner union, where `isNullableType` does not look,
so a nullable string is reset to the empty string. `Encodable` is the check of
the encoded update against PCO's schema, `Payload` what `mkPcoPayloadSchema` lets
through.

`FieldSync` follows one record: `OpenForm` copies the row into the form, `SubmitForm`
sends *every* value of the form, `EditCell` only the cell's; `Update` is the local
write and the push that follows, `PushUpdate` PCO's PATCH, `WriteResponse` and
`SyncRecord` the three writes, which only touch the row when the record's
`updated_at` differs from the link's. `PushFails` covers an update that cannot be
encoded, a refusal and a failure after PCO's answer, `PushRepeated` a retry.
Updates of one record come one after the other from each control but several may
be under way. `moved`, `entered` and `unaccepted` are histories.

### FilterOperators and TableFilters

`Keeps` is `lib/filter-fns.ts` and `Query` is `useFilterQuery`: whether a row is
kept by a filter. `TableFilters` has the actions of `useDataTableFilters` as
functions of the filters, since nuqs applies them as updates of the previous
state one after the other, and an action for each thing a user can do. The array in
the URL has one filter of a column at most, and its order is only shown: `filters` is
a function from the columns that are filtered to operator and values. A number
goes through two timers, of the input and of the control; each keeps the values
and the handler of the moment it was given, and is not stopped when its control
is closed (the hook cancels another instance of the debounced function). `inputs`
and `calls` are these timers in the order they end in. `entered` and
`excused` are histories: what the user entered last, and the columns where one
entry may undo a later one.

Operators marked *broken variant* are not used by the specifications. Each is the
way a plausible bug would change the definition after it; with it in place, the
runs find the property it is meant for violated.

## 3. What TLC checks

Runs that pass:

| Run | Instance | Shows |
|---|---|---|
| `sync_serial` | 2 records, pages of 1, one sync and one webhook run, one at a time, no failures | rows and links agree whenever nothing runs (`IdleRowsMatchLinks`), no row gets older (`RowsNeverGoBack`), every activity ends while PCO changes (`ActivitiesEnd`), repeated syncs mirror PCO (`ResyncMirrors`) |
| `sync_races` | a sync that may fail racing a webhook run, 2 versions; next to them a person with a string, a field PCO does not take, a gender and a custom field, 1 change in PCO, 2 updates | `LinkIdentity`, `RowsFollowLinks`; a push leaves alone what it was not told to change (`PushKeepsTheRest`), entries and rows settle (`UpdatesSettle`) |
| `push_races` | one local entity, a push that may fail racing the webhooks it provokes | one live link per pushed entity (`AtMostOneLiveLink`), none only if a webhook linked the record first (`PushedLinkedOrOvertaken`), and the refinement `IdentitySpec` |
| `push_lanes` | two concurrent mutations, a sync in pages of 2 | `CapturedIds`, also when two records of a page are linked to one entity and the INSERT fails |
| `mutation_push` | one entity, three mutations of which one is refused and one malformed, two requests that overlap, fail or are lost | what was committed is pushed unless a loss intervened (`CommittedIsPushed`); duplicates in PCO need an overlap, a retry or a loss (`NoNeedlessDuplicates`); otherwise row and PCO agree on the last content (`SeparatePushesAgree`) |
| `graph_races` | 3 people (one not linked at first), 1 campus, 4 changes in PCO, two webhook runs, one of which may fail | edges only join linked entities (`EdgesJoinLinked`), the INSERT of a merge never has one key twice (`MergeHitsNoRowTwice`), people are joined to their campus (`CurrentCampusJoined`), only merges break the direction of edges (`EdgesDirectedUnlessMerged`) |
| `org_sync` | two sync executions, one of which may fail, crash and be replayed; 2 subscriptions, 1 change in PCO, 2 entity types | an active subscription with its secret per kind of event after a sync (`EveryKindActive`), no change unseen at the end (`NoChangeMissed`), the user joined to the person (`UserEndsUpJoined`), no sacrament type twice (`OneSacramentPerType`), nothing lost from the registry by concurrent upserts (`RegistryComplete`), every execution ends (`ExecutionsEnd`) |
| `pco_client` | two layers, one of them with two fibers and failures, three grants; one limiter | one refresh at a time per layer (`OneRefPerLayer`, `NoTokenSentTwice`), the stored grant is usable unless a failure lost its successor (`StoredGrantUsable`), requests are answered (`RequestsAnswered`), the limit of every window of a counter (`WindowsHoldTheLimit`), nobody waits longer than their place demands (`NoLaterThanItsPlace`) |
| `table_filters` | a column of each type, all the controls, two timers under way | operators fit their values (`OperatorFitsValues`), what was entered last is shown (`LastEntryShown`), client and query agree on the operators the query supports (`SupportedAgree`), values are edited without turning an exclusion round (`NegationKept`) |

Runs that find a disagreement between the code and what its docs or comments say
(the counterexample is the run's output):

| Run | Property | What happens |
|---|---|---|
| `crash` | `IdleRowsMatchLinks` | links upserted, failure, retry sees no change: the rows are never written. `docs/ExternalLinks.md:82` calls the sync atomic. |
| `detection` | `DetectionMarksGone` | the links say `person`, the sync asks for `Person`: nothing is ever marked. |
| `filter_query` | `QueryMeansOperator` | with two options the operator is `is any of`, but the query only knows `is` and treats anything else as NOT IN. |

### What the properties do not say

A property that holds only under a condition names it, and the condition is a
behaviour of the code that a reader should know of. These were seen as
counterexamples of the property without its condition:

- *Push.* A record is created in PCO, the activity fails before it is linked, and
  the retry creates it again (against
  `docs/syncEngine/01-vision-and-principles.md:34`). The webhook of a new record can
  be processed before the push has linked it, and then links the record to a
  second entity (against the intention of the comment at
  `pcoAdapterManagerLive.ts:656`). A pushed deletion hands an internal id to
  `deleteEntity`, which expects an external one (`pcoAdapterManagerLive.ts:716`), so
  link, row and edges stay. Mutations that the mutators refuse are pushed all the
  same. A server that stops between the commit and the start of the workflow loses
  the push.
- *Merge.* `mergeEntity` replaces an end of an edge without the direction rule that
  `edgesSchema.ts:12` demands; a merge that fails half-way loses the removed
  person's relationships when it is retried, or copies them as deleted ones.
- *Tokens.* A failure between PCO's answer to a refresh and the save loses the only
  usable refresh token; only a new connection helps. Layers do not share their
  locks: two of them may send the same refresh token.
- *Workflows.* The idempotency keys of children contain the time, so a replay
  starts them a second time beside the first. A second sync that has to insert the
  user-to-person edge fails at that insert; the edge is there by then.
- *Fields.* Editing a single cell resets the custom fields of the record in PCO
  that have a default, because the update carries none and the encoder fills them
  in. A form writes back every value it was opened with, so it reverts what PCO's
  users changed in between. A field that no update may send (`name`) keeps the
  local entry until the record's `updated_at` changes; so does the row of an
  update that failed. (By reading only: `transformPartialEntityDataE`, unlike
  `transformEntityDataE`, does not decode the entity first, so the numeric
  `updatedAt` of the web client may make the encode fail. The model lets any push
  fail.)
- *Filters.* Of the operators with several options the query implements only
  inclusion and its negation, and treats every operator but `is` as the latter;
  `is not between` of numbers is queried as `is between`, date operators other
  than `is between` as outside the range, and the last day of a range is excluded.
  The two inputs of a number range each hold the values of the render they were
  created in, so the later timer resets the other bound. A timer that ends after
  its control was closed can turn the operator back or create a removed filter anew.

### Bounds

`RecordSync`, `EntityGraph`: `MaxVersion` (updates of a record), `MaxChanges`
(changes in PCO), `MaxRetries` (3 in the code, 0 or 1 in the runs: a second retry
starts from the same kind of state as the first), `PageSize` (1 makes two pages of
two records; 2 puts both in one page), the sets of activities (each conflict above
needs two; every activity can run again any number of times). Two records suffice
for a page border, for a record skipped by the pagination and for two links of one
entity; three people suffice for a merge of a person that has absorbed another,
which is what the direction rule and the colliding rows are about. `Serial`
restricts a scenario to one activity at a time and is used where a run asks what
holds without races.

`MutationPush`: `NumMutations` 3 allows a create and an update of one entity in
different requests with a refused one between; `NumRequests` 2 is the least with
an overlap or a retransmission; `NumRecords` 6 is never the limit (each of the
tries creates at most three records); `MaxRetries` and `MaxCrashes` 1.

`OrgSync`: two executions are the least that race; one kind of event and two
subscriptions allow an inactive one to be replaced; one change can be delivered
repeatedly; two types of entities make the children a sequence; `MaxRetries`,
`MaxCrashes`, and `MaxSetupTries` bound failures and crashes.

`TokenAuth`: two layers, three fibers (two of them compete for the locks of a
layer), `MaxGrants` 3, so a grant can be refreshed twice. `RateLimiter`: a `Limit`
of 2 in a `Window` of 3, which it does not divide, so that `PerRequest` is rounded up
and the surplus of the third window is reached; eight requests until time 9
(`LimiterAssumption` only demands that the staggered requests fit into a window).

`FieldSync`: one attribute of each sort (a string, one that updates may not send, a
gender with two spellings, a custom field that may be null); two updates are the
least that overlap, one change by PCO's users the least that makes a form stale,
one repetition.

`TableFilters`: `MaxFilters` 1 in `table_filters` (the actions of a filter touch no
other; 2 in `filter_query`), `MaxPending` 2 timers (of the input and of the
control), numbers and days 0 and 1.

Deadlock is checked in `table_filters`, `sync_races`, `sync_serial` and `pco_client`,
and not where everything may really be over: a bounded PCO without a sync, no
requests left, or all executions ended.

### Fairness

- `RecordSync!FairSpec`: weak fairness of the steps of each started activity,
  because the workflow engine keeps running the activities it has started. Starting
  a sync, delivering an event, a local mutation, a change in PCO and a failure are
  not fair: nobody has to cause them. `ResyncMirrors` says what holds *if* full
  syncs keep being started; nothing in the code starts them by itself.
- `OrgSync!FairSpec`: weak fairness of the steps of each running execution, for the
  same reason. Failures and crashes are bounded, as retries are in the code.
- `TokenAuth!Fairness`, which `pco_client` uses: weak fairness of each fiber's steps,
  because the runtime schedules every fiber that can run, and strong fairness of
  taking a lock, because Effect's semaphores wake their waiters in order.
- `FieldSync`, `MutationPush` and `TableFilters` state no fairness: what they say of
  the end is said of quiet states.

## 4. What is proved

For any numbers of records, people, activities, users, layers, attributes, columns, options,
timers, mutations, requests, executions, kinds of webhooks, retries and versions and any page size, from the named assumptions on the constants (in
essence: ids are finite in number where they are counted, distinct activities and
records mint distinct ids that are not ids of local entities, and the kinds of
activities are disjoint). TLC evaluates every assumption in some run.

| Theorem | States |
|---|---|
| `RecordSyncProofs!TypeCorrect` | `Spec => []TypeOK` |
| `RecordSyncProofs!CapturedIdsStayValid` | `Spec => []CapturedIds` |
| `RecordSyncProofs!RowsAlwaysFollowLinks` | `Spec => []RowsFollowLinks` |
| `RecordSyncProofs!LinksKeepTheirEntity` | `Spec => LinkIdentity`, an action property |
| `RecordSyncProofs!ImplementsIdentity` | `Spec => IdentitySpec`: `RecordSync` implements `ExternalIdentity` |
| `RecordSyncProofs!PushesLinkOnce` | `Spec => []AtMostOneLiveLink`, if a push has one mutation (`OneLane`) |
| `RecordSyncProofs!SerialRunsLeaveRowsMatched` | `Spec => []IdleRowsMatchLinks`, if activities neither overlap nor fail and nothing is pushed (`OneAtATime`) |
| `RecordSyncProofs!SerialRunsNeverGoBack` | `Spec => RowsNeverGoBack`, an action property, under `OneAtATime` |
| `RecordSyncProofs!PushesLandOrAreOvertaken` | `Spec => []PushedLinkedOrOvertaken`, if there is no full sync (`NoFullSync`) |
| `EntityGraphProofs!TypeCorrect` | `Spec => []TypeOK` |
| `EntityGraphProofs!EdgesAlwaysJoinLinked` | `Spec => []EdgesJoinLinked` |
| `EntityGraphProofs!MergesHitNoRowTwice` | `Spec => []MergeHitsNoRowTwice` |
| `EntityGraphProofs!OnlyMergesBreakDirection` | `Spec => []EdgesDirectedUnlessMerged` |
| `EntityGraphProofs!CampusIsBrought` | `Spec => []CurrentCampusJoined` |
| `TokenAuthProofs!TypeCorrect` | `Spec => []TypeOK` |
| `TokenAuthProofs!LayersHaveOneRef` | `Spec => []OneRefPerLayer` |
| `TokenAuthProofs!StoredGrantsStayUsable` | `Spec => []StoredGrantUsable` |
| `TokenAuthProofs!NoTokenIsSentTwice` | `Spec => []NoTokenSentTwice` |
| `RateLimiterProofs!WindowsAreKept` | `LimiterSpec => []WindowsHoldTheLimit` |
| `RateLimiterProofs!NobodyWaitsLonger` | `LimiterSpec => []NoLaterThanItsPlace` |
| `FieldSyncProofs!PushesKeepTheRest` | `FieldsSpec => PushKeepsTheRest`, an action property |
| `FieldSyncProofs!UpdatesComeToRest` | `FieldsSpec => []UpdatesSettle` |
| `MutationPushProofs!DuplicatesHaveACause` | `Spec => []NoNeedlessDuplicates` |
| `MutationPushProofs!CommittedReachesPco` | `Spec => []CommittedIsPushed` |
| `MutationPushProofs!SeparatePushesEndAlike` | `Spec => []SeparatePushesAgree` |
| `OrgSyncProofs!TypeCorrect` | `Spec => []TypeOK` |
| `OrgSyncProofs!SacramentsOnce` | `Spec => []OneSacramentPerType` |
| `OrgSyncProofs!RegistryStaysComplete` | `Spec => []RegistryComplete` |
| `OrgSyncProofs!SubscribedToEveryKind` | `Spec => []EveryKindActive` |
| `OrgSyncProofs!UsersEndUpJoined` | `Spec => []UserEndsUpJoined` |
| `OrgSyncProofs!ChangesAreNotMissed` | `Spec => []NoChangeMissed` |
| `TableFilterProofs!TypeCorrect` | `Spec => []TypeOK` |
| `TableFilterProofs!FiltersCanBeEvaluated` | `Spec => []OperatorFitsValues` |
| `TableFilterProofs!LastEntriesArrive` | `Spec => []LastEntryShown` |
| `TableFilterProofs!QueriesAgree` | `Spec => []SupportedAgree` |
| `TableFilterProofs!ValuesKeepSense` | `Spec => NegationKept`, an action property |

*RecordSync.* `RowsFollowLinks` is not inductive: a row is written with an id
returned by a statement that ran earlier, and other activities have run since.
`IInv` adds `CapturedIds` (the ids an activity holds are still those of the links)
and `LinksNameEntities` (exactly the existing links name an entity). No action
removes a link or changes its entity, so captured ids stay right, so the rows
written from them are the rows the links name. The refinement maps `owner` to the
links' entities and `shown` to the rows' records; every action is an `Adopt`, a
`Show` or a stutter.

*RecordSync, under assumptions.* Four properties hold only in the conditions their
runs set, which the theorems take as assumptions. `LaneInv`: only a lane's upsert can
add a live link of a local entity, and from its look-up to its upsert the lane knows that
the entity has none or that the record of the answer is linked (`AnswerFits`, part of
`LaneFacts`). `SerialInv`: links name distinct minted ids, so a page never hits a row
twice; what the upsert has stamped and the insert not yet written is exactly what
`changed` holds (`PendingFits`, `Settled`), and the activity that holds it is the only
one that runs. `VersionInv`: a page is no older than the rows of its records and no
newer than PCO. `PushInv`: whatever is in flight or linked is of a record PCO has
created (`ExistInv`), and a link names the entity its record was created from or one a
webhook minted (`LinkOrigin`), so a record that a push created is linked to its entity
or was overtaken.

*EntityGraph.* `EdgesJoinLinked` needs what each step of an activity may rely on:
`OnCourse` (which links the earlier statements have seen, that links never
disappear) and `MovedJoinLinked` (the edges a merge has read join linked
entities). Since an action only touches one activity, `StepOfOne` reduces each
case to that activity and the edges.

*Merges.* Two rows of one INSERT collide when an edge that is moved becomes the
same as another one. `MInv` gives each person a time, `when`: that of the change in
PCO that took it away, or a later one while PCO has it. People are merged into
people who go later, and a `merged` edge joins a person whose merge is over with
one that goes later. So the edges a merge reads have at their other end a campus
or a person that went earlier, never the person kept, and moving them keeps them
apart. An edge out of direction touches a person others were merged into, since
only the INSERT of a merge ignores the rule.

*Campuses.* `CInv` adds to `MInv` that only records gone from PCO are removed
(`RemovesOnlyGone`), so that a campus edge of a person who is kept is never deleted
(`KeptEdgesLive`); without that an upsert that finds the row would not bring it back.
And the edge to the current campus exists, or is on its way (`CampusBrought`): in an
event, or in an activity that has read the campus since it changed or has yet to.

*TokenAuth.* `IInv` has two parts. `Shape`: the cache is loaded once
(`CacheLoaded`), a fiber that holds a reference holds its layer's (`HoldersHaveRef`,
`OneRefPerLayer`), and each lock has one holder, which is the only fiber at the
steps it guards (`LoadsAlone`, `RefreshesAlone`). `Kept`: what becomes of grants. Every
grant belongs to one user (`Owned`), one that PCO has issued and nobody stored is
held by the fiber that got it (`FreshHeld`), and a grant in `ref` or in the table is
unused but for the fiber about to replace it or a failure (`StoredGrantUsable`,
`RefUsable`).

*RateLimiter.* `LInv` says that the counter's count is the number of requests it has
let through, and that each of them sits in its place (`Sits`): with `q` requests
before it and the counter `e` old, it was sent at once and its window has come, or
its delay ends in the window `q` gives it (`InPlace`, from `Delayed`, which does the
code's divisions for every window and limit). `PlaceInWindow` turns this around: the
window in which a request is sent bounds its place from both sides. Places of one
counter differ, so a window holds no more requests than there are places for it.

*FieldSync.* `IInv` says what a form and an update under way know: a value in them
that the user did not enter is the value PCO has, unless its attribute is noted
as moved. `RoundTrip` (a field's value survives the way to PCO and back) and
`PatchedAttribute` (what a PATCH does to each attribute) make a push harmless for
such values, so the invariant survives the pushes of others, and of itself when it
is repeated. `SInv`, for `UpdatesSettle`, adds what a version means: an answer that
is as new as the record has its content (`VersionsTell`), a row that is as new shows
PCO's value or that of an update still to be pushed (`RowShows`), and an entry
nobody disputes is in PCO or in such an update (`EntriesArrive`), whose rivals have the
same value (`EntriesAgree`). It needs the assumption that the column of the gender
holds the two spellings the code maps (`FieldAssumption`): another would not survive
the way to PCO and back.

*MutationPush.* An entity nothing disturbed (`Disturbed`: crossed, retried, lost or
failed) has at most one task at a time (`OneTask`, from `Crossings` and `TasksBelong`).
So whoever is about to create it has seen that it has no link, and a record it
already had would be linked or about to be linked by that very task: `RecordsKnown`,
the part of `PInv` that makes `NoNeedlessDuplicates` inductive. For `CommittedIsPushed`,
`PushedOrGoing` says what a request's place means: every committed mutation came with
a request, and while its workflow runs each mutation that can be converted has been
pushed or has a task. `AInv`, for `SeparatePushesAgree`: a request reaches up to the
last mutation sent, so the request of an entity that is not crossed has its latest
one (`UpToDate`); such an entity has one link at most (`OneLinkEach`), its one task knows
it (`TasksHaveLink`), so the record keeps the content of the task until the row has it
too; and the latest mutation is on its way or has arrived at both (`LatestGoOn`).

*OrgSync.* Four independent parts make up `OInv`. `SetupInv`: between the select and the
insert the table does not change, so a sacrament is inserted once. `RegistryInv`: both
writers only add pairs, in both directions. `HookInv`: a run of `SubscribeToWebhooks`
has covered the kinds it has passed, and what it listed for the others exists and
was active or is noted as deactivated. `ProgressInv`: what an execution
has recorded is behind it, also after a restart has sent it back to its first child.
`SInv`, for `NoChangeMissed`, gives every change that is not in the database a reason
(`MadeUpFor`): a delivery of it, a sync that has yet to reach its entity, a failure that is
noted. A delivery without a secret is dropped only while the execution that created
the subscription has not synced anything (`RecordedFirst`, `SecretsAccountedFor`).

*TableFilters.* First the operators, by cases on the type of the column: a change in
the number of values takes an operator of one arity to one of the other and keeps its
sense (`OperatorFollows`), and the operators both sides know are read alike
(`SameReading`). From these and the values' types, every way of setting values gives a
filter that fits (`FiltersFit`). `TInv` adds what timers can be waiting: one that is
not left behind belongs to the open column (`InputsFit`, `CallsFit`), so a number
never lands on a text column. `LastEntryShown` speaks only of the moments when nothing
is under way; `EntriesArrive` says for the others what the entry of a column depends
on: the last timer of an input that waits for the column, else the last call,
else the filter itself. A step disturbs one column: for the others the queues keep
their last timer (`SameFor`), whatever is dropped, appended or fired.

Only model-checked: liveness (`ActivitiesEnd`,
`ResyncMirrors`, `ExecutionsEnd`, `RequestsAnswered`). Liveness under
fairness, ENABLED and what a recursive definition computes are out of the
prover's reach.

## 5. Plan

Done: the core (`RecordSync`, `ExternalIdentity`, `EntityGraph`), the way of mutations
(`MutationPush`, `FieldSync`, `PcoTransformer`), the services (`TokenAuth`, `RateLimiter`),
the organisation (`Webhooks`, `OrgSetup`, `OrgSync`), the filters (`FilterOperators`,
`TableFilters`), and the proofs above.

Next, in this order:

1. `RecordSync` with `included` records and collections: a page writes links of
   several types in one statement.
2. `EmailChangeOtp`: the attempts counter, which is read and written back without a
   transaction (`packages/auth/plugins/email-change-otp/index.ts:301`).

## 6. Not modelled

Most lines of the repository are declarations or presentation without state of
their own, so the lines the modules stand for are a small part of it. Left out:

- the endpoint declarations and HTTP (PCO's behaviour is an external action), the
  generated Zero schema (`packages/zero/zero-schema.gen.ts`), the generated routes,
  the domain schemas and the drizzle tables: they state shapes and have no steps;
- the rest of the web application: React components, navigation, the command menu
  and the AI chat present data or pass calls on;
- the SQL driver and the test runner: adapted libraries;
- the e-mail change by one-time password (see the plan);
- logging, and error texts.

In the modelled parts: the `syncing` flag (nothing sets it), `included` records,
collections such as addresses and phone numbers, other organisations and
adapters, the attributes the transformers skip, and the full transformer used when
a record is created in PCO.
