---------------------------- MODULE MutationPush ----------------------------
(***************************************************************************)
(* The way of a user's mutations to the database and to Planning Center:   *)
(* the push handler commits them one by one (Zero's PushProcessor), forks  *)
(* a daemon that starts ExternalPushWorkflow with all the mutations of the *)
(* request, and answers.  The workflow writes every item to PCO and the    *)
(* response back to the rows, all at once and without an order.  One Zero  *)
(* client, the mutations that create or change entities of one type; the   *)
(* links, webhooks and deletions beside them are RecordSync's.             *)
(***************************************************************************)
EXTENDS Naturals, FiniteSets

CONSTANTS
  NumMutations,  \* mutations the client makes, numbered as Zero does
  Entities,      \* ids of entities created in OpenFaith
  ItemsOf,       \* the entities of each mutation's items
  Refused,       \* mutations the mutator refuses
  Malformed,     \* those of them that are not "entity|operation" with ids
  NumRequests,   \* bound: push requests
  NumRecords,    \* bound: records created in PCO
  FailureProne,  \* requests whose handler or workflow may fail
  MaxRetries,    \* Activity.retry({ times })
  MaxCrashes,    \* bound: times the server stops
  NoEntity

Mutations == 1 .. NumMutations
Requests == 1 .. NumRequests
Records == 1 .. NumRecords

ASSUME PushAssumption ==
  /\ NumMutations \in Nat /\ NumRequests \in Nat /\ NumRecords \in Nat
  /\ ItemsOf \in [Mutations -> SUBSET Entities]
  /\ Malformed \subseteq Refused /\ Refused \subseteq Mutations
  /\ FailureProne \subseteq Requests
  /\ MaxRetries \in Nat /\ MaxCrashes \in Nat /\ NoEntity \notin Entities

VARIABLES
  acked,     \* lastMutationID the client has seen
  sent,      \* mutations the client has sent
  lastId,    \* lastMutationID in the database
  row,       \* table: the mutation whose content each entity has, 0 for no row
  place,     \* each request: none, process, forked, workflow, done, lost or failed
  range,     \* its mutations, <<first, last>>
  next,      \* the mutation the processor is at
  tasks,     \* processMutation calls under way: find, create or update, write
  attempt,   \* retries of each request's activity
  author,    \* PCO: the entity each record was created from
  content,   \* PCO: the mutation whose content it has
  linked,    \* externalLinks: the records with a link, to their author
  crashes,
  crossed,   \* history: entities two of whose pushes were under way at once
  retried,   \* history: entities of activities that were retried
  undone,    \* history: entities of pushes that were lost or failed
  pushed     \* history: mutations all of whose items were written

clientVars == <<acked, sent>>
dbVars == <<lastId, row, linked>>
pcoVars == <<author, content>>
requestVars == <<place, range, next, tasks, attempt>>
histVars == <<crossed, retried, undone, pushed>>
vars == <<acked, sent, lastId, row, place, range, next, tasks, attempt, author, content,
          linked, crashes, crossed, retried, undone, pushed>>

Init ==
  /\ acked = 0 /\ sent = 0 /\ lastId = 0
  /\ row = [e \in Entities |-> 0]
  /\ place = [r \in Requests |-> "none"]
  /\ range = [r \in Requests |-> <<0, 0>>]
  /\ next = [r \in Requests |-> 0]
  /\ tasks = {} /\ attempt = [r \in Requests |-> 0]
  /\ author = [x \in Records |-> NoEntity]
  /\ content = [x \in Records |-> 0]
  /\ linked = {} /\ crashes = 0
  /\ crossed = {} /\ retried = {} /\ undone = {} /\ pushed = {}

Goto(r, p) == place' = [place EXCEPT ![r] = p]
MutationsOf(r) == range[r][1] .. range[r][2]
ItemsOfAll(S) == UNION {ItemsOf[m] : m \in S}
EntitiesOf(r) == ItemsOfAll(MutationsOf(r))
InSeveral(S) == {e \in Entities : \E m, n \in S : m # n /\ e \in ItemsOf[m] \cap ItemsOf[n]}
UnderWay == {r \in Requests : place[r] \in {"process", "forked", "workflow"}}

-----------------------------------------------------------------------------
(* The client sends what it has not sent, or after a new connection all    *)
(* that it has not seen acknowledged.                                      *)

Post(r) ==
  /\ place[r] = "none" /\ \A q \in Requests : q < r => place[q] # "none"
  /\ \E first, last \in Mutations :
       /\ first <= last
       /\ \/ first = sent + 1
          \/ first - 1 \in acked .. lastId /\ first <= sent /\ last = sent
       /\ acked' = IF first - 1 <= lastId THEN first - 1 ELSE acked
       /\ sent' = IF last > sent THEN last ELSE sent
       /\ range' = [range EXCEPT ![r] = <<first, last>>]
       /\ next' = [next EXCEPT ![r] = first]
       /\ crossed' = crossed \cup
            (ItemsOfAll(first .. last) \cap UNION {EntitiesOf(q) : q \in UnderWay}) \cup
            InSeveral(first .. last)
  /\ Goto(r, "process")
  /\ UNCHANGED <<dbVars, pcoVars, tasks, attempt, crashes, retried, undone, pushed>>

-----------------------------------------------------------------------------
(* zeroPushProcessor.process: a transaction per mutation.  The library     *)
(* skips a mutation that was committed before, and reports one that was    *)
(* refused or came out of order; which reports end the request is its own. *)

NextMutation(r) == next' = [next EXCEPT ![r] = @ + 1]

Commit(r) ==
  LET m == next[r]
  IN /\ place[r] = "process" /\ m <= range[r][2] /\ m = lastId + 1
     /\ lastId' = m
     /\ row' = [e \in Entities |-> IF e \in ItemsOf[m] /\ m \notin Refused THEN m ELSE row[e]]
     /\ NextMutation(r)
     /\ Goto(r, IF m = range[r][2] THEN "forked" ELSE "process")
     /\ UNCHANGED <<clientVars, linked, pcoVars, range, tasks, attempt, crashes, histVars>>

Skip(r) ==
  LET m == next[r]
  IN /\ place[r] = "process" /\ m # lastId + 1
     /\ NextMutation(r)
     /\ Goto(r, IF m = range[r][2] THEN "forked" ELSE "process")
     /\ UNCHANGED <<clientVars, dbVars, pcoVars, range, tasks, attempt, crashes, histVars>>

(* An error of the last mutation ends the processing, not the handler. *)
StopProcessing(r) ==
  /\ place[r] = "process" /\ next[r] > range[r][1]
  /\ next[r] - 1 \in Refused \/ next[r] # lastId + 1
  /\ Goto(r, "forked")
  /\ UNCHANGED <<clientVars, dbVars, pcoVars, range, next, tasks, attempt, crashes, histVars>>

(* The server stops before the daemon has started the workflow. *)
ServerStops(r) ==
  /\ place[r] \in {"process", "forked"} /\ r \in FailureProne /\ crashes < MaxCrashes
  /\ crashes' = crashes + 1
  /\ Goto(r, "lost")
  /\ undone' = undone \cup EntitiesOf(r)
  /\ UNCHANGED <<clientVars, dbVars, pcoVars, range, next, tasks, attempt, crossed, retried, pushed>>

-----------------------------------------------------------------------------
(* ExternalPushWorkflow: the items of the mutations that can be converted. *)
(* Broken variant: one that cannot be converted stops the others.          *)
AllOrNothing(S) == IF S \cap Malformed = {} THEN S ELSE {}
Converted(S) == S \ Malformed

TasksOf(r) ==
  {[request |-> r, mutation |-> p[1], entity |-> p[2], step |-> "find", record |-> 0, got |-> 0] :
     p \in {q \in Converted(MutationsOf(r)) \X Entities : q[2] \in ItemsOf[q[1]]}}

StartWorkflow(r) ==
  /\ place[r] = "forked"
  /\ tasks' = tasks \cup TasksOf(r)
  /\ Goto(r, IF TasksOf(r) = {} THEN "done" ELSE "workflow")
  /\ UNCHANGED <<clientVars, dbVars, pcoVars, range, next, attempt, crashes, histVars>>

OfRequest(r) == {t \in tasks : t.request = r}
Moves(t, u) == tasks' = (tasks \ {t}) \cup {u}
LinksOf(e) == {x \in linked : author[x] = e}

GetExternalLink(t) ==
  /\ t.step = "find"
  /\ \/ /\ LinksOf(t.entity) = {}
        /\ Moves(t, [t EXCEPT !.step = "create"])
     \/ \E x \in LinksOf(t.entity) : Moves(t, [t EXCEPT !.step = "update", !.record = x])
  /\ UNCHANGED <<clientVars, dbVars, pcoVars, place, range, next, attempt, crashes, histVars>>

(* PCO answers with the record as the request leaves it.  Broken variant:  *)
(* as it was before.                                                       *)
Before(x, m) == content[x]
Answer(x, m) == m

CreateEntity(t) ==
  /\ t.step = "create"
  /\ \E x \in Records :
       /\ author[x] = NoEntity /\ \A y \in Records : y < x => author[y] # NoEntity
       /\ author' = [author EXCEPT ![x] = t.entity]
       /\ content' = [content EXCEPT ![x] = t.mutation]
       /\ Moves(t, [t EXCEPT !.step = "write", !.record = x, !.got = t.mutation])
  /\ UNCHANGED <<clientVars, dbVars, place, range, next, attempt, crashes, histVars>>

UpdateEntity(t) ==
  /\ t.step = "update"
  /\ content' = [content EXCEPT ![t.record] = t.mutation]
  /\ Moves(t, [t EXCEPT !.step = "write", !.got = Answer(t.record, t.mutation)])
  /\ UNCHANGED <<clientVars, dbVars, author, place, range, next, attempt, crashes, histVars>>

(* Broken variant: an entity that has just been created is not linked.     *)
OnlyUpdated(t) == IF LinksOf(t.entity) = {} THEN {} ELSE {t.record}
WithLink(t) == {t.record}

(* processPcoData: the link, then the row with what PCO answered; every    *)
(* answer is newer than the link, also that to a repeated request.  The    *)
(* two statements are one step, but a failure may come between (Fail).     *)
ProcessResponse(t) ==
  LET r == t.request
      left == OfRequest(r) \ {t}
  IN /\ t.step = "write"
     /\ linked' = linked \cup WithLink(t)
     /\ row' = [row EXCEPT ![t.entity] = t.got]
     /\ tasks' = tasks \ {t}
     /\ Goto(r, IF left = {} THEN "done" ELSE "workflow")
     /\ pushed' = IF \E u \in left : u.mutation = t.mutation THEN pushed
                  ELSE pushed \cup {t.mutation}
     /\ UNCHANGED <<clientVars, lastId, pcoVars, range, next, attempt, crashes, crossed, retried, undone>>

(* A call fails, or the runner stops: the activity, all the mutations of   *)
(* the request, is tried again, and at last fails; some of the responses   *)
(* may be linked by then.                                                  *)
MayRetry(r) == attempt[r] < MaxRetries

Fail(r) ==
  /\ place[r] = "workflow" /\ r \in FailureProne
  /\ \E S \in SUBSET {t \in OfRequest(r) : t.step = "write"} :
       linked' = linked \cup UNION {WithLink(t) : t \in S}
  /\ IF MayRetry(r)
     THEN /\ attempt' = [attempt EXCEPT ![r] = @ + 1]
          /\ tasks' = (tasks \ OfRequest(r)) \cup TasksOf(r)
          /\ retried' = retried \cup EntitiesOf(r)
          /\ UNCHANGED <<place, undone>>
     ELSE /\ Goto(r, "failed")
          /\ tasks' = tasks \ OfRequest(r)
          /\ undone' = undone \cup EntitiesOf(r)
          /\ UNCHANGED <<attempt, retried>>
  /\ UNCHANGED <<clientVars, lastId, row, pcoVars, range, next, crashes, crossed, pushed>>

-----------------------------------------------------------------------------
Handle(r) == Commit(r) \/ Skip(r) \/ StopProcessing(r) \/ StartWorkflow(r)
TaskStep(t) == GetExternalLink(t) \/ CreateEntity(t) \/ UpdateEntity(t) \/ ProcessResponse(t)

Next ==
  \/ \E r \in Requests : Post(r) \/ Handle(r) \/ ServerStops(r) \/ Fail(r)
  \/ \E t \in tasks : TaskStep(t)

Spec == Init /\ [][Next]_vars
-----------------------------------------------------------------------------
(* Properties *)

Quiet == UnderWay = {}
Convertible(e) == {m \in 1 .. sent \ Malformed : e \in ItemsOf[m]}
Latest(e, m) == m \in Convertible(e) /\ \A n \in Convertible(e) : n <= m

(* An entity whose pushes never overlapped, and of which none was lost or  *)
(* failed for good, has in PCO and in its row the content of the last      *)
(* mutation, although rows are written twice, mutations are sent again,    *)
(* and one the mutator refused is pushed all the same.                     *)
SeparatePushesAgree ==
  Quiet => \A e \in Entities \ (crossed \cup undone) : \A m \in Convertible(e) :
    Latest(e, m) => row[e] = m /\ \A x \in LinksOf(e) : content[x] = m

(* "Creating the same record twice ... should not result in duplicates":   *)
(* an entity becomes two records in PCO only when two of its pushes were   *)
(* under way at once, or one was retried, lost or failed.                  *)
NoNeedlessDuplicates ==
  \A x, y \in Records : author[x] # NoEntity /\ author[x] = author[y] /\ x # y =>
    author[x] \in crossed \cup retried \cup undone

(* What is committed here reaches PCO, whatever else was in its request:   *)
(* when nothing is under way every committed mutation has been pushed, or  *)
(* a request with it was lost before its workflow started, or failed.      *)
CommittedIsPushed ==
  Quiet => \A m \in 1 .. lastId \ Malformed :
    \/ m \in pushed \/ ItemsOf[m] = {}
    \/ \E r \in Requests : m \in MutationsOf(r) /\ place[r] \in {"lost", "failed"}
=============================================================================
