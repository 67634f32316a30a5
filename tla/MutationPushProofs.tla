------------------------- MODULE MutationPushProofs -------------------------
(***************************************************************************)
(* What the way of mutations to PCO guarantees, for any mutations,         *)
(* requests that overlap, retransmissions, refusals, failures and losses:  *)
(* duplicates in PCO have a cause, what was committed is pushed, and       *)
(* pushes that do not overlap leave PCO and the rows with the last one.    *)
(***************************************************************************)
EXTENDS MutationPush, TLAPS

Places == {"none", "process", "forked", "workflow", "done", "lost", "failed"}
Tasks == [request : Requests, mutation : Mutations, entity : Entities,
          step : {"find", "create", "update", "write"}, record : Records \cup {0}, got : Nat]

Types ==
  /\ lastId \in Nat
  /\ place \in [Requests -> Places]
  /\ range \in [Requests -> Nat \X Nat]
  /\ next \in [Requests -> Nat]
  /\ tasks \subseteq Tasks
  /\ author \in [Records -> Entities \cup {NoEntity}]
  /\ linked \subseteq Records \cup {0}

(* A request has come with mutations, and its processor is at one of them  *)
(* or past them.                                                           *)
Posted ==
  \A r \in Requests : place[r] # "none" =>
    range[r] \in Mutations \X Mutations /\ range[r][1] <= next[r]

(* An entity in two requests under way, or twice in one, is crossed.       *)
Crossings ==
  /\ \A q, r \in UnderWay : q # r => EntitiesOf(q) \cap EntitiesOf(r) \subseteq crossed
  /\ \A r \in UnderWay : \A m, n \in MutationsOf(r) :
       m # n => ItemsOf[m] \cap ItemsOf[n] \subseteq crossed

(* A task is one of a request whose workflow runs, and the only one with   *)
(* its mutation and entity.                                                *)
TasksBelong ==
  /\ \A t \in tasks : /\ place[t.request] = "workflow"
                      /\ t.mutation \in MutationsOf(t.request)
                      /\ t.entity \in ItemsOf[t.mutation]
  /\ \A t, u \in tasks :
       t.request = u.request /\ t.mutation = u.mutation /\ t.entity = u.entity => t = u

(* A record of an entity that nothing disturbed is linked, or about to be; *)
(* before such an entity is created it has no record.                      *)
Disturbed == crossed \cup retried \cup undone
AboutToLink(x) == \E t \in tasks : t.step = "write" /\ t.record = x /\ t.entity = author[x]
RecordsKnown ==
  /\ \A x \in Records : author[x] # NoEntity /\ author[x] \notin Disturbed =>
       x \in linked \/ AboutToLink(x)
  /\ \A t \in tasks : t.step = "create" /\ t.entity \notin Disturbed =>
       \A x \in Records : author[x] # t.entity

(* A committed mutation came with a request; while the request's workflow  *)
(* runs, a task pushes it or has pushed it.                                *)
Empty(m) == ItemsOf[m] = {}
HasTask(r, m) == \E t \in tasks : t.request = r /\ t.mutation = m
PushedOrGoing ==
  /\ \A m \in 1 .. lastId : \E r \in Requests : place[r] # "none" /\ m \in MutationsOf(r)
  /\ \A r \in Requests : place[r] = "workflow" =>
       \A m \in MutationsOf(r) \ Malformed : Empty(m) \/ m \in pushed \/ HasTask(r, m)
  /\ \A r \in Requests : place[r] = "done" =>
       \A m \in MutationsOf(r) \ Malformed : Empty(m) \/ m \in pushed

PInv == /\ Types /\ Posted /\ Crossings /\ TasksBelong /\ RecordsKnown
        /\ NoNeedlessDuplicates /\ PushedOrGoing
-----------------------------------------------------------------------------
LEMMA InitPInv == Init => PInv
<1> SUFFICES ASSUME Init PROVE PInv
  OBVIOUS
<1>1. Types
  BY DEF Init, Types, Places
<1>2. Posted /\ Crossings /\ TasksBelong /\ RecordsKnown /\ NoNeedlessDuplicates
  BY DEF Init, Posted, Crossings, TasksBelong, RecordsKnown, NoNeedlessDuplicates, UnderWay
<1>3. PushedOrGoing
  BY DEF Init, PushedOrGoing
<1> QED  BY <1>1, <1>2, <1>3 DEF PInv

(* Two tasks of one entity that is not crossed are one. *)
LEMMA OneTask ==
  ASSUME PInv, NEW t \in tasks, NEW u \in tasks, t.entity = u.entity, t.entity \notin crossed
  PROVE  t = u
<1> USE DEF PInv, Types
<1>1. /\ t \in Tasks /\ u \in Tasks
      /\ place[t.request] = "workflow" /\ place[u.request] = "workflow"
      /\ t.mutation \in MutationsOf(t.request) /\ t.entity \in ItemsOf[t.mutation]
      /\ u.mutation \in MutationsOf(u.request) /\ u.entity \in ItemsOf[u.mutation]
  BY DEF TasksBelong
<1>2. t.request \in UnderWay /\ u.request \in UnderWay
  BY <1>1 DEF UnderWay, Tasks
<1>3. t.entity \in EntitiesOf(t.request) /\ t.entity \in EntitiesOf(u.request)
  BY <1>1 DEF EntitiesOf, ItemsOfAll
<1>4. t.request = u.request
  BY <1>2, <1>3 DEF Crossings
<1>5. t.mutation = u.mutation
  BY <1>1, <1>2, <1>4 DEF Crossings
<1> QED  BY <1>4, <1>5 DEF TasksBelong

(* Pushes that end and entities that cross leave no crossing out. *)
LEMMA CrossingsKept ==
  ASSUME Crossings, UNCHANGED range, UnderWay' \subseteq UnderWay, crossed \subseteq crossed'
  PROVE  Crossings'
<1>1. \A q \in Requests : MutationsOf(q)' = MutationsOf(q) /\ EntitiesOf(q)' = EntitiesOf(q)
  BY DEF MutationsOf, EntitiesOf
<1>2. UnderWay \subseteq Requests
  BY DEF UnderWay
<1>3. ASSUME NEW q \in UnderWay', NEW r \in UnderWay', q # r
      PROVE  EntitiesOf(q)' \cap EntitiesOf(r)' \subseteq crossed'
  BY <1>1, <1>2, <1>3 DEF Crossings
<1>4. ASSUME NEW r \in UnderWay', NEW m \in MutationsOf(r)', NEW n \in MutationsOf(r)', m # n
      PROVE  ItemsOf[m] \cap ItemsOf[n] \subseteq crossed'
  <2>1. r \in UnderWay /\ m \in MutationsOf(r) /\ n \in MutationsOf(r)
    BY <1>1, <1>2
  <2> QED  BY <2>1, <1>4 DEF Crossings
<1> QED  BY <1>3, <1>4 DEF Crossings

(* Nothing is disturbed less than before, no link goes and no task. *)
LEMMA RecordsKept ==
  ASSUME RecordsKnown, UNCHANGED <<tasks, author>>, linked \subseteq linked',
         Disturbed \subseteq Disturbed'
  PROVE  RecordsKnown'
<1>1. \A x \in Records : AboutToLink(x)' <=> AboutToLink(x)
  BY DEF AboutToLink
<1> QED  BY <1>1 DEF RecordsKnown

LEMMA DuplicatesKept ==
  ASSUME NoNeedlessDuplicates, UNCHANGED author, Disturbed \subseteq Disturbed'
  PROVE  NoNeedlessDuplicates'
  BY DEF NoNeedlessDuplicates, Disturbed

(* The tasks of a workflow that starts are of its request and differ. *)
LEMMA NewTasks ==
  ASSUME PInv, NEW r \in Requests, place[r] # "none"
  PROVE  /\ TasksOf(r) \subseteq Tasks
         /\ \A t \in TasksOf(r) : /\ t.request = r /\ t.step = "find"
                                  /\ t.mutation \in MutationsOf(r)
                                  /\ t.entity \in ItemsOf[t.mutation]
         /\ \A t, u \in TasksOf(r) : t.mutation = u.mutation /\ t.entity = u.entity => t = u
         /\ \A m \in MutationsOf(r) \ Malformed :
              Empty(m) \/ \E t \in TasksOf(r) : t.mutation = m
<1> USE DEF PInv
<1>1. MutationsOf(r) \subseteq Mutations
  BY PushAssumption DEF Posted, MutationsOf, Mutations
<1>2. TasksOf(r) \subseteq Tasks
  BY <1>1, PushAssumption DEF TasksOf, Converted, Tasks, Mutations
<1>3. ASSUME NEW m \in MutationsOf(r) \ Malformed, ~Empty(m)
      PROVE  \E t \in TasksOf(r) : t.mutation = m
  <2>1. PICK e \in Entities : e \in ItemsOf[m]
    BY <1>1, <1>3, PushAssumption DEF Empty
  <2>2. <<m, e>> \in {q \in Converted(MutationsOf(r)) \X Entities : q[2] \in ItemsOf[q[1]]}
    BY <2>1, <1>3 DEF Converted
  <2>3. [request |-> r, mutation |-> m, entity |-> e, step |-> "find", record |-> 0, got |-> 0]
          \in TasksOf(r)
    BY <2>2 DEF TasksOf
  <2> QED  BY <2>3
<1>4. \A t \in TasksOf(r) : /\ t.request = r /\ t.step = "find"
                            /\ t.mutation \in MutationsOf(r) /\ t.entity \in ItemsOf[t.mutation]
  BY DEF TasksOf, Converted
<1>5. \A t, u \in TasksOf(r) : t.mutation = u.mutation /\ t.entity = u.entity => t = u
  BY DEF TasksOf
<1> QED  BY <1>2, <1>3, <1>4, <1>5

(* The handler: a mutation is committed or skipped, or processing stops.   *)
LEMMA HandlerStep ==
  ASSUME PInv, NEW r \in Requests, Commit(r) \/ Skip(r) \/ StopProcessing(r)
  PROVE  PInv'
<1> USE DEF PInv
<1>1. /\ place[r] = "process"
      /\ \E p \in {"process", "forked"} : place' = [place EXCEPT ![r] = p]
      /\ next' = next \/ next' = [next EXCEPT ![r] = @ + 1]
      /\ UNCHANGED <<range, tasks, author, linked, crossed, retried, undone, pushed>>
  BY DEF Commit, Skip, StopProcessing, Goto, NextMutation, pcoVars, histVars, dbVars
<1>2. place' \in [Requests -> Places] /\ next' \in [Requests -> Nat]
  BY <1>1 DEF Types, Places
<1>3. lastId' = lastId \/ (lastId' = next[r] /\ next[r] = lastId + 1 /\ next[r] <= range[r][2])
  BY DEF Commit, Skip, StopProcessing, dbVars
<1>4. /\ \A q \in Requests : MutationsOf(q)' = MutationsOf(q) /\ EntitiesOf(q)' = EntitiesOf(q)
      /\ UnderWay' = UnderWay
      /\ \A q \in Requests : (place'[q] = "none") <=> (place[q] = "none")
      /\ \A q \in Requests : (place'[q] = "workflow") <=> (place[q] = "workflow")
      /\ \A q \in Requests : (place'[q] = "done") <=> (place[q] = "done")
  <2>1. \A q \in Requests : MutationsOf(q)' = MutationsOf(q) /\ EntitiesOf(q)' = EntitiesOf(q)
    BY <1>1 DEF MutationsOf, EntitiesOf
  <2>2. \A q \in Requests : q # r => place'[q] = place[q]
    BY <1>1 DEF Types
  <2>3. place[r] = "process" /\ place'[r] \in {"process", "forked"}
    BY <1>1 DEF Types
  <2>4. UnderWay' = UnderWay
    BY <2>2, <2>3 DEF UnderWay
  <2> QED  BY <2>1, <2>2, <2>3, <2>4
<1>5. Types'
  BY <1>1, <1>2, <1>3 DEF Types
<1>6. Posted'
  BY <1>1, <1>2, <1>4 DEF Types, Posted
<1>7. Crossings'
  BY <1>1, <1>4, CrossingsKept
<1>8. TasksBelong'
  BY <1>1, <1>4 DEF TasksBelong, Types, Tasks
<1>9. RecordsKnown' /\ NoNeedlessDuplicates'
  BY <1>1 DEF RecordsKnown, AboutToLink, Disturbed, NoNeedlessDuplicates
<1>10. PushedOrGoing'
  <2>1. next[r] \in MutationsOf(r) \/ lastId' = lastId
    BY <1>1, <1>3 DEF Types, Posted, MutationsOf
  <2>2. \A m \in 1 .. lastId' : \E q \in Requests : place'[q] # "none" /\ m \in MutationsOf(q)'
    BY <1>1, <1>3, <1>4, <2>1 DEF PushedOrGoing, Types
  <2> QED  BY <1>1, <1>4, <2>2 DEF PushedOrGoing, HasTask
<1> QED  BY <1>5, <1>6, <1>7, <1>8, <1>9, <1>10

(* The client posts a request. *)
LEMMA PostStep ==
  ASSUME PInv, NEW r \in Requests, Post(r)
  PROVE  PInv'
<1> USE DEF PInv
<1>1. PICK first \in Mutations, last \in Mutations :
        /\ first <= last
        /\ range' = [range EXCEPT ![r] = <<first, last>>]
        /\ next' = [next EXCEPT ![r] = first]
        /\ crossed' = crossed \cup
             (ItemsOfAll(first .. last) \cap UNION {EntitiesOf(q) : q \in UnderWay}) \cup
             InSeveral(first .. last)
  BY DEF Post
<1>2. /\ place[r] = "none" /\ place' = [place EXCEPT ![r] = "process"]
      /\ UNCHANGED <<lastId, tasks, author, linked, retried, undone, pushed>>
  BY DEF Post, Goto, dbVars, pcoVars
<1>3. /\ range' \in [Requests -> Nat \X Nat] /\ next' \in [Requests -> Nat]
      /\ place' \in [Requests -> Places]
      /\ range'[r] = <<first, last>> /\ next'[r] = first /\ place'[r] = "process"
      /\ \A q \in Requests : q # r =>
           range'[q] = range[q] /\ next'[q] = next[q] /\ place'[q] = place[q]
  BY <1>1, <1>2 DEF Types, Places, Mutations
<1>4. MutationsOf(r)' = first .. last /\ EntitiesOf(r)' = ItemsOfAll(first .. last)
  BY <1>3 DEF MutationsOf, EntitiesOf
<1>5. \A q \in Requests : q # r => MutationsOf(q)' = MutationsOf(q) /\ EntitiesOf(q)' = EntitiesOf(q)
  BY <1>3 DEF MutationsOf, EntitiesOf
<1>6. UnderWay' = UnderWay \cup {r} /\ r \notin UnderWay /\ UnderWay \subseteq Requests
  BY <1>2, <1>3 DEF UnderWay
<1>7. Types' /\ Posted'
  BY <1>1, <1>2, <1>3 DEF Types, Posted
<1>8. Crossings'
  <2>1. ASSUME NEW p \in UnderWay, NEW q \in UnderWay, p # q
        PROVE  EntitiesOf(p)' \cap EntitiesOf(q)' \subseteq crossed'
    BY <2>1, <1>1, <1>5, <1>6 DEF Crossings
  <2>2. ASSUME NEW q \in UnderWay
        PROVE  EntitiesOf(q)' \cap EntitiesOf(r)' \subseteq crossed'
    BY <1>1, <1>4, <1>5, <1>6
  <2>3. ASSUME NEW q \in UnderWay, NEW m \in MutationsOf(q)', NEW n \in MutationsOf(q)', m # n
        PROVE  ItemsOf[m] \cap ItemsOf[n] \subseteq crossed'
    BY <2>3, <1>1, <1>5, <1>6 DEF Crossings
  <2>4. ASSUME NEW m \in MutationsOf(r)', NEW n \in MutationsOf(r)', m # n
        PROVE  ItemsOf[m] \cap ItemsOf[n] \subseteq crossed'
    <3>1. m \in first .. last /\ n \in first .. last /\ m \in Mutations
      BY <1>4, <2>4, <1>1, PushAssumption DEF Mutations
    <3>2. ItemsOf[m] \cap ItemsOf[n] \subseteq InSeveral(first .. last)
      BY <3>1, <2>4, PushAssumption DEF InSeveral
    <3> QED  BY <3>2, <1>1
  <2> QED  BY <2>1, <2>2, <2>3, <2>4, <1>6 DEF Crossings
<1>9. TasksBelong'
  BY <1>2, <1>3, <1>5 DEF TasksBelong, Types, Tasks
<1>10. RecordsKnown' /\ NoNeedlessDuplicates'
  <2>1. Disturbed \subseteq Disturbed'
    BY <1>1, <1>2 DEF Disturbed
  <2> QED  BY <2>1, <1>2, RecordsKept, DuplicatesKept
<1>11. PushedOrGoing'
  BY <1>2, <1>3, <1>5 DEF PushedOrGoing, HasTask
<1> QED  BY <1>7, <1>8, <1>9, <1>10, <1>11

(* A request is lost before its workflow starts. *)
LEMMA ServerStopsStep ==
  ASSUME PInv, NEW r \in Requests, ServerStops(r)
  PROVE  PInv'
<1> USE DEF PInv
<1>1. /\ place[r] \in {"process", "forked"} /\ place' = [place EXCEPT ![r] = "lost"]
      /\ undone' = undone \cup EntitiesOf(r)
      /\ UNCHANGED <<lastId, range, next, tasks, author, linked, crossed, retried, pushed>>
  BY DEF ServerStops, Goto, dbVars, pcoVars
<1>2. /\ place' \in [Requests -> Places] /\ place'[r] = "lost"
      /\ \A q \in Requests : q # r => place'[q] = place[q]
  BY <1>1 DEF Types, Places
<1>3. \A q \in Requests : MutationsOf(q)' = MutationsOf(q)
  BY <1>1 DEF MutationsOf
<1>4. Types' /\ Posted'
  BY <1>1, <1>2 DEF Types, Posted
<1>5. Crossings'
  <2>1. UnderWay' \subseteq UnderWay
    BY <1>2 DEF UnderWay
  <2> QED  BY <2>1, <1>1, CrossingsKept
<1>6. TasksBelong'
  BY <1>1, <1>2, <1>3 DEF TasksBelong, Types, Tasks
<1>7. RecordsKnown' /\ NoNeedlessDuplicates'
  <2>1. Disturbed \subseteq Disturbed'
    BY <1>1 DEF Disturbed
  <2> QED  BY <2>1, <1>1, RecordsKept, DuplicatesKept
<1>8. PushedOrGoing'
  BY <1>1, <1>2, <1>3 DEF PushedOrGoing, HasTask
<1> QED  BY <1>4, <1>5, <1>6, <1>7, <1>8

(* The workflow starts with the tasks of its request. *)
LEMMA StartWorkflowStep ==
  ASSUME PInv, NEW r \in Requests, StartWorkflow(r)
  PROVE  PInv'
<1> USE DEF PInv
<1>1. /\ place[r] = "forked" /\ tasks' = tasks \cup TasksOf(r)
      /\ place' = [place EXCEPT ![r] = IF TasksOf(r) = {} THEN "done" ELSE "workflow"]
      /\ UNCHANGED <<lastId, range, next, author, linked, crossed, retried, undone, pushed>>
  BY DEF StartWorkflow, Goto, dbVars, pcoVars, histVars
<1>2. /\ place' \in [Requests -> Places]
      /\ place'[r] = IF TasksOf(r) = {} THEN "done" ELSE "workflow"
      /\ \A q \in Requests : q # r => place'[q] = place[q]
  BY <1>1 DEF Types, Places
<1>3. \A q \in Requests : MutationsOf(q)' = MutationsOf(q)
  BY <1>1 DEF MutationsOf
<1>4. /\ TasksOf(r) \subseteq Tasks
      /\ \A t \in TasksOf(r) : /\ t.request = r /\ t.step = "find"
                               /\ t.mutation \in MutationsOf(r)
                               /\ t.entity \in ItemsOf[t.mutation]
      /\ \A t, u \in TasksOf(r) : t.mutation = u.mutation /\ t.entity = u.entity => t = u
      /\ \A m \in MutationsOf(r) \ Malformed :
           Empty(m) \/ \E t \in TasksOf(r) : t.mutation = m
  BY <1>1, NewTasks
<1>5. Types' /\ Posted'
  BY <1>1, <1>2, <1>4 DEF Types, Posted
<1>6. Crossings'
  <2>1. UnderWay' \subseteq UnderWay
    BY <1>1, <1>2 DEF UnderWay
  <2> QED  BY <2>1, <1>1, CrossingsKept
<1>7. \A t \in tasks : t.request \in Requests /\ t.request # r
  BY <1>1 DEF TasksBelong, Types, Tasks
<1>8. TasksBelong'
  <2>1. ASSUME NEW t \in tasks'
        PROVE  /\ place'[t.request] = "workflow"
               /\ t.mutation \in MutationsOf(t.request)'
               /\ t.entity \in ItemsOf[t.mutation]
    BY <1>1, <1>2, <1>3, <1>4, <1>7 DEF TasksBelong
  <2>2. ASSUME NEW t \in tasks', NEW u \in tasks', t.request = u.request,
               t.mutation = u.mutation, t.entity = u.entity
        PROVE  t = u
    BY <2>2, <1>1, <1>4, <1>7 DEF TasksBelong
  <2> QED  BY <2>1, <2>2 DEF TasksBelong
<1>9. RecordsKnown'
  <2>1. \A x \in Records : AboutToLink(x) => AboutToLink(x)'
    BY <1>1 DEF AboutToLink
  <2>2. \A t \in tasks' : t.step = "create" => t \in tasks
    BY <1>1, <1>4
  <2> QED  BY <1>1, <2>1, <2>2 DEF RecordsKnown, Disturbed
<1>10. NoNeedlessDuplicates'
  BY <1>1, DuplicatesKept DEF Disturbed
<1>11. PushedOrGoing'
  <2>1. \A m \in 1 .. lastId' : \E q \in Requests : place'[q] # "none" /\ m \in MutationsOf(q)'
    BY <1>1, <1>2, <1>3 DEF PushedOrGoing
  <2>2. \A q \in Requests, m \in Mutations : HasTask(q, m) => HasTask(q, m)'
    BY <1>1 DEF HasTask
  <2>3. \A m \in MutationsOf(r) \ Malformed : Empty(m) \/ HasTask(r, m)'
    BY <1>1, <1>4 DEF HasTask
  <2>4. TasksOf(r) = {} => \A m \in MutationsOf(r) \ Malformed : Empty(m)
    BY <1>4
  <2>5. \A q \in Requests : place[q] # "none" => MutationsOf(q) \subseteq Mutations
    BY PushAssumption DEF Posted, MutationsOf, Mutations
  <2>6. \A q \in Requests : place'[q] = "workflow" =>
          \A m \in MutationsOf(q) \ Malformed : Empty(m) \/ m \in pushed \/ HasTask(q, m)'
    BY <1>2, <2>2, <2>3, <2>5 DEF PushedOrGoing
  <2>7. \A q \in Requests : place'[q] = "done" =>
          \A m \in MutationsOf(q) \ Malformed : Empty(m) \/ m \in pushed
    BY <1>2, <2>4 DEF PushedOrGoing
  <2> QED  BY <1>1, <1>3, <2>1, <2>6, <2>7 DEF PushedOrGoing
<1> QED  BY <1>5, <1>6, <1>8, <1>9, <1>10, <1>11

(* A task that goes on leaves the requests and the other tasks alone.      *)
LEMMA TaskGoesOn ==
  ASSUME PInv, NEW t \in tasks, NEW u \in Tasks, tasks' = (tasks \ {t}) \cup {u},
         u.request = t.request, u.mutation = t.mutation, u.entity = t.entity,
         UNCHANGED <<lastId, place, range, next, crossed, retried, undone, pushed>>
  PROVE  Posted' /\ Crossings' /\ TasksBelong' /\ PushedOrGoing'
<1> USE DEF PInv
<1>1. \A q \in Requests : MutationsOf(q)' = MutationsOf(q)
  BY DEF MutationsOf
<1>2. Posted'
  BY DEF Posted
<1>3. Crossings'
  <2>1. UnderWay' \subseteq UnderWay
    BY DEF UnderWay
  <2> QED  BY <2>1, CrossingsKept
<1>4. tasks \subseteq Tasks /\ \A w \in Tasks : w.request \in Requests
  BY DEF Types, Tasks
<1>5. TasksBelong'
  BY <1>1, <1>4 DEF TasksBelong
<1>6. PushedOrGoing'
  <2>1. ASSUME NEW q, NEW m, HasTask(q, m)
        PROVE  HasTask(q, m)'
    BY <2>1 DEF HasTask
  <2> QED  BY <1>1, <2>1 DEF PushedOrGoing
<1> QED  BY <1>2, <1>3, <1>5, <1>6

(* processMutation looks for the link of the entity. *)
LEMMA GetExternalLinkStep ==
  ASSUME PInv, NEW t \in tasks, GetExternalLink(t)
  PROVE  PInv'
<1> USE DEF PInv
<1>1. /\ t.step = "find" /\ t \in Tasks
      /\ UNCHANGED <<lastId, place, range, next, author, linked, crossed, retried, undone, pushed>>
  BY DEF GetExternalLink, dbVars, pcoVars, histVars, Types
<1>2. PICK u \in Tasks :
        /\ tasks' = (tasks \ {t}) \cup {u}
        /\ u.request = t.request /\ u.mutation = t.mutation /\ u.entity = t.entity
        /\ (u.step = "create" /\ LinksOf(t.entity) = {}) \/ u.step = "update"
  <2>1. CASE LinksOf(t.entity) = {} /\ Moves(t, [t EXCEPT !.step = "create"])
    <3>1. [t EXCEPT !.step = "create"] \in Tasks
      BY <1>1 DEF Tasks
    <3> QED  BY <1>1, <2>1, <3>1 DEF Moves, Tasks
  <2>2. CASE \E x \in LinksOf(t.entity) : Moves(t, [t EXCEPT !.step = "update", !.record = x])
    <3>1. PICK x \in LinksOf(t.entity) : Moves(t, [t EXCEPT !.step = "update", !.record = x])
      BY <2>2
    <3>2. x \in Records \cup {0}
      BY DEF LinksOf, Types
    <3>3. [t EXCEPT !.step = "update", !.record = x] \in Tasks
      BY <1>1, <3>2 DEF Tasks
    <3> QED  BY <1>1, <3>1, <3>3 DEF Moves, Tasks
  <2> QED  BY <2>1, <2>2 DEF GetExternalLink
<1>3. Posted' /\ Crossings' /\ TasksBelong' /\ PushedOrGoing'
  BY <1>1, <1>2, TaskGoesOn
<1>4. Types'
  BY <1>1, <1>2 DEF Types
<1>5. \A x \in Records : AboutToLink(x) => AboutToLink(x)'
  BY <1>1, <1>2 DEF AboutToLink
<1>6. ASSUME u.step = "create", u.entity \notin Disturbed, NEW x \in Records
      PROVE  author[x] # u.entity
  <2> SUFFICES ASSUME author[x] = u.entity PROVE FALSE
    OBVIOUS
  <2>1. u.entity \in Entities /\ u.entity # NoEntity
    BY <1>2, PushAssumption DEF Tasks
  <2>2. x \notin linked
    BY <1>2, <1>6 DEF LinksOf
  <2>3. AboutToLink(x)
    BY <2>1, <2>2, <1>6 DEF RecordsKnown
  <2>4. PICK w \in tasks : w.step = "write" /\ w.entity = t.entity
    BY <2>3, <1>2 DEF AboutToLink
  <2>5. t.entity \notin crossed
    BY <1>2, <1>6 DEF Disturbed
  <2> QED  BY <2>4, <2>5, <1>1, OneTask
<1>7. RecordsKnown'
  BY <1>1, <1>2, <1>5, <1>6 DEF RecordsKnown, Disturbed
<1>8. NoNeedlessDuplicates'
  BY <1>1, DuplicatesKept DEF Disturbed
<1> QED  BY <1>3, <1>4, <1>7, <1>8

(* The adapter creates a record for an entity without a link. *)
LEMMA CreateEntityStep ==
  ASSUME PInv, NEW t \in tasks, CreateEntity(t)
  PROVE  PInv'
<1> USE DEF PInv
<1>1. /\ t.step = "create" /\ t \in Tasks
      /\ UNCHANGED <<lastId, place, range, next, linked, crossed, retried, undone, pushed>>
  BY DEF CreateEntity, dbVars, histVars, Types
<1>2. PICK x \in Records :
        /\ author[x] = NoEntity /\ author' = [author EXCEPT ![x] = t.entity]
        /\ tasks' = (tasks \ {t}) \cup
             {[t EXCEPT !.step = "write", !.record = x, !.got = t.mutation]}
  BY DEF CreateEntity, Moves
<1>3. PICK u \in Tasks :
        /\ tasks' = (tasks \ {t}) \cup {u}
        /\ u.request = t.request /\ u.mutation = t.mutation /\ u.entity = t.entity
        /\ u.step = "write" /\ u.record = x
  <2> DEFINE v == [t EXCEPT !.step = "write", !.record = x, !.got = t.mutation]
  <2>1. v \in Tasks
    <3>1. t.mutation \in Nat
      BY <1>1, PushAssumption DEF Tasks, Mutations
    <3> QED  BY <1>1, <3>1 DEF Tasks
  <2>2. /\ v.request = t.request /\ v.mutation = t.mutation /\ v.entity = t.entity
        /\ v.step = "write" /\ v.record = x
    BY <1>1 DEF Tasks
  <2>3. tasks' = (tasks \ {t}) \cup {v}
    BY <1>2
  <2> HIDE DEF v
  <2> QED  BY <2>1, <2>2, <2>3
<1>4. Posted' /\ Crossings' /\ TasksBelong' /\ PushedOrGoing'
  BY <1>1, <1>3, TaskGoesOn
<1>5. t.entity \in Entities /\ t.entity # NoEntity
  BY <1>1, PushAssumption DEF Tasks
<1>6. /\ author' \in [Records -> Entities \cup {NoEntity}] /\ author'[x] = t.entity
      /\ \A y \in Records : y # x => author'[y] = author[y]
  BY <1>2, <1>5 DEF Types
<1>7. Types'
  BY <1>1, <1>3, <1>6 DEF Types
<1>8. \A w \in tasks : t.entity \notin Disturbed /\ w.entity = t.entity => w = t
  BY OneTask DEF Disturbed
<1>9. t.entity \notin Disturbed => \A y \in Records : author[y] # t.entity
  BY <1>1 DEF RecordsKnown
<1>10. RecordsKnown'
  <2>1. AboutToLink(x)'
    BY <1>3, <1>6 DEF AboutToLink
  <2>2. ASSUME NEW y \in Records, y # x, AboutToLink(y)
        PROVE  AboutToLink(y)'
    BY <2>2, <1>1, <1>3, <1>6 DEF AboutToLink
  <2>3. ASSUME NEW w \in tasks', w.step = "create", w.entity \notin Disturbed, NEW y \in Records
        PROVE  author'[y] # w.entity
    <3>1. w \in tasks /\ w # t
      BY <2>3, <1>3
    <3>2. w.entity # t.entity
      BY <3>1, <2>3, <1>8
    <3> QED  BY <3>1, <3>2, <2>3, <1>6 DEF RecordsKnown
  <2>4. Disturbed' = Disturbed
    BY <1>1 DEF Disturbed
  <2> QED  BY <1>1, <1>6, <2>1, <2>2, <2>3, <2>4 DEF RecordsKnown
<1>11. NoNeedlessDuplicates'
  <2>1. Disturbed' = Disturbed
    BY <1>1 DEF Disturbed
  <2> QED  BY <1>5, <1>6, <1>9, <2>1 DEF NoNeedlessDuplicates, Disturbed
<1> QED  BY <1>4, <1>7, <1>10, <1>11

(* The adapter updates the record of the link that was found. *)
LEMMA UpdateEntityStep ==
  ASSUME PInv, NEW t \in tasks, UpdateEntity(t)
  PROVE  PInv'
<1> USE DEF PInv
<1>1. /\ t.step = "update" /\ t \in Tasks
      /\ UNCHANGED <<lastId, place, range, next, author, linked, crossed, retried, undone, pushed>>
      /\ tasks' = (tasks \ {t}) \cup
           {[t EXCEPT !.step = "write", !.got = Answer(t.record, t.mutation)]}
  BY DEF UpdateEntity, Moves, dbVars, histVars, Types
<1>2. PICK u \in Tasks :
        /\ tasks' = (tasks \ {t}) \cup {u}
        /\ u.request = t.request /\ u.mutation = t.mutation /\ u.entity = t.entity
        /\ u.step = "write"
  <2> DEFINE v == [t EXCEPT !.step = "write", !.got = Answer(t.record, t.mutation)]
  <2>1. v \in Tasks
    <3>1. Answer(t.record, t.mutation) \in Nat
      BY <1>1, PushAssumption DEF Tasks, Mutations, Answer
    <3> QED  BY <1>1, <3>1 DEF Tasks
  <2>2. /\ v.request = t.request /\ v.mutation = t.mutation /\ v.entity = t.entity
        /\ v.step = "write"
    BY <1>1 DEF Tasks
  <2>3. tasks' = (tasks \ {t}) \cup {v}
    BY <1>1
  <2> HIDE DEF v
  <2> QED  BY <2>1, <2>2, <2>3
<1>3. Posted' /\ Crossings' /\ TasksBelong' /\ PushedOrGoing'
  BY <1>1, <1>2, TaskGoesOn
<1>4. Types'
  BY <1>1, <1>2 DEF Types
<1>5. RecordsKnown'
  <2>1. \A x \in Records : AboutToLink(x) => AboutToLink(x)'
    BY <1>1, <1>2 DEF AboutToLink
  <2> QED  BY <1>1, <1>2, <2>1 DEF RecordsKnown, Disturbed
<1>6. NoNeedlessDuplicates'
  BY <1>1, DuplicatesKept DEF Disturbed
<1> QED  BY <1>3, <1>4, <1>5, <1>6

(* processPcoData links the record and ends the task. *)
LEMMA ProcessResponseStep ==
  ASSUME PInv, NEW t \in tasks, ProcessResponse(t)
  PROVE  PInv'
<1> USE DEF PInv
<1> DEFINE r == t.request
           left == OfRequest(r) \ {t}
<1>1. /\ t.step = "write" /\ t \in Tasks /\ r \in Requests /\ place[r] = "workflow"
      /\ linked' = linked \cup {t.record} /\ tasks' = tasks \ {t}
      /\ place' = [place EXCEPT ![r] = IF left = {} THEN "done" ELSE "workflow"]
      /\ pushed' = IF \E u \in left : u.mutation = t.mutation THEN pushed
                   ELSE pushed \cup {t.mutation}
      /\ UNCHANGED <<lastId, range, next, author, crossed, retried, undone>>
  BY DEF ProcessResponse, Goto, WithLink, pcoVars, Types, TasksBelong, Tasks
<1>2. left = {w \in tasks : w.request = r /\ w # t}
  BY DEF OfRequest
<1> HIDE DEF left
<1>3. /\ place' \in [Requests -> Places]
      /\ place'[r] = IF left = {} THEN "done" ELSE "workflow"
      /\ \A q \in Requests : q # r => place'[q] = place[q]
  BY <1>1 DEF Types, Places
<1>4. \A q \in Requests : MutationsOf(q)' = MutationsOf(q)
  BY <1>1 DEF MutationsOf
<1>5. Types' /\ Posted'
  BY <1>1, <1>3 DEF Types, Posted, Tasks
<1>6. Crossings'
  <2>1. UnderWay' \subseteq UnderWay
    BY <1>1, <1>3 DEF UnderWay
  <2> QED  BY <2>1, <1>1, CrossingsKept
<1>7. TasksBelong'
  <2>1. ASSUME NEW w \in tasks'
        PROVE  place'[w.request] = "workflow" /\ w.request \in Requests
    <3>1. w \in tasks /\ w # t /\ w.request \in Requests /\ place[w.request] = "workflow"
      BY <1>1 DEF TasksBelong, Types, Tasks
    <3>2. w.request = r => left # {}
      BY <3>1, <1>2
    <3> QED  BY <3>1, <3>2, <1>3
  <2> QED  BY <2>1, <1>1, <1>4 DEF TasksBelong
<1>8. RecordsKnown'
  <2>1. ASSUME NEW x \in Records, AboutToLink(x)
        PROVE  x \in linked' \/ AboutToLink(x)'
    BY <2>1, <1>1 DEF AboutToLink
  <2> QED  BY <1>1, <2>1 DEF RecordsKnown, Disturbed
<1>9. NoNeedlessDuplicates'
  BY <1>1, DuplicatesKept DEF Disturbed
<1>10. PushedOrGoing'
  <2>1. \A m \in 1 .. lastId' : \E q \in Requests : place'[q] # "none" /\ m \in MutationsOf(q)'
    BY <1>1, <1>3, <1>4 DEF PushedOrGoing
  <2>2. ASSUME NEW q \in Requests, q # r, NEW m, HasTask(q, m)
        PROVE  HasTask(q, m)'
    BY <2>2, <1>1 DEF HasTask
  <2>3. ASSUME NEW m, HasTask(r, m)
        PROVE  m \in pushed' \/ (left # {} /\ HasTask(r, m)')
    <3>1. PICK w \in tasks : w.request = r /\ w.mutation = m
      BY <2>3 DEF HasTask
    <3>2. CASE w # t
      BY <3>1, <3>2, <1>1, <1>2 DEF HasTask
    <3>3. CASE w = t /\ \E u \in left : u.mutation = t.mutation
      <4>1. PICK u \in left : u.mutation = m
        BY <3>1, <3>3
      <4> QED  BY <4>1, <1>1, <1>2 DEF HasTask
    <3>4. CASE w = t /\ ~ \E u \in left : u.mutation = t.mutation
      BY <3>1, <3>4, <1>1
    <3> QED  BY <3>2, <3>3, <3>4
  <2>4. pushed \subseteq pushed'
    BY <1>1
  <2>5. ASSUME NEW q \in Requests, place'[q] = "workflow", NEW m \in MutationsOf(q) \ Malformed
        PROVE  Empty(m) \/ m \in pushed' \/ HasTask(q, m)'
    <3>1. place[q] = "workflow"
      BY <2>5, <1>1, <1>3
    <3>2. Empty(m) \/ m \in pushed \/ HasTask(q, m)
      BY <3>1, <2>5 DEF PushedOrGoing
    <3> QED  BY <3>2, <2>2, <2>3, <2>4
  <2>6. ASSUME NEW q \in Requests, place'[q] = "done", NEW m \in MutationsOf(q) \ Malformed
        PROVE  Empty(m) \/ m \in pushed'
    <3>1. CASE q # r
      BY <3>1, <2>4, <2>6, <1>3 DEF PushedOrGoing
    <3>2. CASE q = r
      <4>1. left = {}
        BY <3>2, <2>6, <1>3
      <4>2. Empty(m) \/ m \in pushed \/ HasTask(r, m)
        BY <3>2, <2>6, <1>1 DEF PushedOrGoing
      <4> QED  BY <4>1, <4>2, <2>3, <2>4
    <3> QED  BY <3>1, <3>2
  <2> QED  BY <1>4, <2>1, <2>5, <2>6 DEF PushedOrGoing
<1> QED  BY <1>5, <1>6, <1>7, <1>8, <1>9, <1>10

(* The activity fails: its tasks start again, or its request has failed. *)
LEMMA FailStep ==
  ASSUME PInv, NEW r \in Requests, Fail(r)
  PROVE  PInv'
<1> USE DEF PInv
<1>1. /\ place[r] = "workflow"
      /\ UNCHANGED <<lastId, range, next, author, crossed, pushed>>
  BY DEF Fail, pcoVars
<1>2. linked \subseteq linked' /\ linked' \subseteq Records \cup {0}
  <2>1. PICK S \in SUBSET {t \in OfRequest(r) : t.step = "write"} :
          linked' = linked \cup UNION {WithLink(t) : t \in S}
    BY DEF Fail
  <2>2. \A t \in S : t \in tasks /\ t.record \in Records \cup {0}
    BY DEF OfRequest, Types, Tasks
  <2> QED  BY <2>1, <2>2 DEF WithLink, Types
<1>3. /\ UNCHANGED place /\ tasks' = (tasks \ OfRequest(r)) \cup TasksOf(r)
      /\ retried' = retried \cup EntitiesOf(r) /\ undone' = undone
   \/ /\ place' = [place EXCEPT ![r] = "failed"] /\ tasks' = tasks \ OfRequest(r)
      /\ undone' = undone \cup EntitiesOf(r) /\ retried' = retried
  BY DEF Fail, Goto
<1>4. /\ place' \in [Requests -> Places] /\ \A q \in Requests : q # r => place'[q] = place[q]
      /\ place'[r] = "failed" \/ (/\ place'[r] = "workflow"
                                 /\ tasks' = (tasks \ OfRequest(r)) \cup TasksOf(r))
  BY <1>1, <1>3 DEF Types, Places
<1>5. \A q \in Requests : MutationsOf(q)' = MutationsOf(q)
  BY <1>1 DEF MutationsOf
<1>6. /\ TasksOf(r) \subseteq Tasks
      /\ \A t \in TasksOf(r) : /\ t.request = r /\ t.step = "find"
                               /\ t.mutation \in MutationsOf(r)
                               /\ t.entity \in ItemsOf[t.mutation]
      /\ \A t, u \in TasksOf(r) : t.mutation = u.mutation /\ t.entity = u.entity => t = u
      /\ \A m \in MutationsOf(r) \ Malformed :
           Empty(m) \/ \E t \in TasksOf(r) : t.mutation = m
  BY <1>1, NewTasks
<1>7. \A t \in tasks' : \/ t \in tasks /\ t.request # r
                        \/ t \in TasksOf(r) /\ place'[r] = "workflow"
  BY <1>1, <1>3, <1>4 DEF OfRequest
<1>8. \A t \in tasks : t.request # r => t \in tasks'
  BY <1>3 DEF OfRequest
<1>9. Types' /\ Posted'
  BY <1>1, <1>2, <1>4, <1>6, <1>7 DEF Types, Posted
<1>10. Crossings'
  <2>1. UnderWay' \subseteq UnderWay
    BY <1>1, <1>4 DEF UnderWay
  <2> QED  BY <2>1, <1>1, CrossingsKept
<1>11. TasksBelong'
  <2>1. ASSUME NEW t \in tasks'
        PROVE  /\ place'[t.request] = "workflow"
               /\ t.mutation \in MutationsOf(t.request)'
               /\ t.entity \in ItemsOf[t.mutation]
    <3>1. CASE t \in tasks /\ t.request # r
      BY <3>1, <1>4, <1>5 DEF TasksBelong, Types, Tasks
    <3>2. CASE t \in TasksOf(r) /\ place'[r] = "workflow"
      BY <3>2, <1>5, <1>6
    <3> QED  BY <3>1, <3>2, <1>7
  <2>2. ASSUME NEW t \in tasks', NEW u \in tasks', t.request = u.request,
               t.mutation = u.mutation, t.entity = u.entity
        PROVE  t = u
    BY <2>2, <1>6, <1>7 DEF TasksBelong
  <2> QED  BY <2>1, <2>2 DEF TasksBelong
<1>12. Disturbed' = Disturbed \cup EntitiesOf(r)
  BY <1>1, <1>3 DEF Disturbed
<1>13. RecordsKnown'
  <2>1. ASSUME NEW x \in Records, AboutToLink(x), author[x] \notin EntitiesOf(r)
        PROVE  AboutToLink(x)'
    <3>1. PICK t \in tasks : t.step = "write" /\ t.record = x /\ t.entity = author[x]
      BY <2>1 DEF AboutToLink
    <3>2. t.request # r
      BY <3>1, <2>1 DEF TasksBelong, EntitiesOf, ItemsOfAll
    <3> QED  BY <3>1, <3>2, <1>1, <1>8 DEF AboutToLink
  <2>2. \A t \in tasks' : t.step = "create" => t \in tasks
    BY <1>6, <1>7
  <2> QED  BY <1>1, <1>2, <1>12, <2>1, <2>2 DEF RecordsKnown
<1>14. NoNeedlessDuplicates'
  BY <1>1, <1>12, DuplicatesKept
<1>15. PushedOrGoing'
  <2>1. \A m \in 1 .. lastId' : \E q \in Requests : place'[q] # "none" /\ m \in MutationsOf(q)'
    BY <1>1, <1>4, <1>5 DEF PushedOrGoing
  <2>2. ASSUME NEW q \in Requests, q # r, NEW m, HasTask(q, m)
        PROVE  HasTask(q, m)'
    BY <2>2, <1>8 DEF HasTask
  <2>3. ASSUME NEW q \in Requests, place'[q] = "workflow", NEW m \in MutationsOf(q) \ Malformed
        PROVE  Empty(m) \/ m \in pushed \/ HasTask(q, m)'
    <3>1. CASE q # r
      BY <3>1, <2>2, <2>3, <1>4 DEF PushedOrGoing
    <3>2. CASE q = r
      <4>1. TasksOf(r) \subseteq tasks'
        BY <3>2, <2>3, <1>4
      <4> QED  BY <4>1, <3>2, <2>3, <1>6 DEF HasTask
    <3> QED  BY <3>1, <3>2
  <2>4. \A q \in Requests : place'[q] = "done" => q # r /\ place[q] = "done"
    BY <1>4
  <2> QED  BY <1>1, <1>5, <2>1, <2>3, <2>4 DEF PushedOrGoing
<1> QED  BY <1>9, <1>10, <1>11, <1>13, <1>14, <1>15

(* Every step keeps the invariant. *)
LEMMA PInvInductive == PInv /\ [Next]_vars => PInv'
<1> SUFFICES ASSUME PInv, [Next]_vars PROVE PInv'
  OBVIOUS
<1>1. ASSUME NEW r \in Requests, Post(r) PROVE PInv'
  BY <1>1, PostStep
<1>2. ASSUME NEW r \in Requests, Handle(r) PROVE PInv'
  BY <1>2, HandlerStep, StartWorkflowStep DEF Handle
<1>3. ASSUME NEW r \in Requests, ServerStops(r) PROVE PInv'
  BY <1>3, ServerStopsStep
<1>4. ASSUME NEW r \in Requests, Fail(r) PROVE PInv'
  BY <1>4, FailStep
<1>5. ASSUME NEW t \in tasks, TaskStep(t) PROVE PInv'
  BY <1>5, GetExternalLinkStep, CreateEntityStep, UpdateEntityStep, ProcessResponseStep DEF TaskStep
<1>6. CASE UNCHANGED vars
  <2>1. Types' /\ Posted'
    BY <1>6 DEF vars, PInv, Types, Posted
  <2>2. Crossings'
    <3>1. UnderWay' = UnderWay
      BY <1>6 DEF vars, UnderWay
    <3> QED  BY <3>1, <1>6, CrossingsKept DEF vars, PInv
  <2>3. \A q \in Requests : MutationsOf(q)' = MutationsOf(q)
    BY <1>6 DEF vars, MutationsOf
  <2>4. TasksBelong'
    BY <2>3, <1>6 DEF vars, PInv, TasksBelong, Types, Tasks
  <2>5. RecordsKnown' /\ NoNeedlessDuplicates'
    <3>1. Disturbed' = Disturbed
      BY <1>6 DEF vars, Disturbed
    <3> QED  BY <3>1, <1>6, RecordsKept, DuplicatesKept DEF vars, PInv
  <2>6. PushedOrGoing'
    BY <2>3, <1>6 DEF vars, PInv, PushedOrGoing, HasTask
  <2> QED  BY <2>1, <2>2, <2>4, <2>5, <2>6 DEF PInv
<1> QED  BY <1>1, <1>2, <1>3, <1>4, <1>5, <1>6 DEF Next

(* The invariant holds in every state the program reaches. *)
THEOREM PInvAlways == Spec => []PInv
  BY InitPInv, PInvInductive, PTL DEF Spec

(* An entity gets a second record in PCO only when two of its pushes were  *)
(* under way at once, or one was retried, lost or failed, whatever the     *)
(* mutations, the requests and their order (createEntity, processMutation).*)
THEOREM DuplicatesHaveACause == Spec => []NoNeedlessDuplicates
<1>1. PInv => NoNeedlessDuplicates
  BY DEF PInv
<1> QED  BY <1>1, PInvAlways, PTL

(* When no push is under way every mutation that was committed has reached *)
(* PCO, or was in a request that was lost or failed: nothing that happens  *)
(* to the other mutations of a request keeps it from being pushed          *)
(* (zeroMutatorsHandler, ExternalPushWorkflow).                            *)
THEOREM CommittedReachesPco == Spec => []CommittedIsPushed
<1>1. ASSUME PInv PROVE CommittedIsPushed
  <2>1. SUFFICES ASSUME Quiet, NEW m \in 1 .. lastId \ Malformed
        PROVE  \/ m \in pushed \/ ItemsOf[m] = {}
               \/ \E r \in Requests : m \in MutationsOf(r) /\ place[r] \in {"lost", "failed"}
    BY DEF CommittedIsPushed
  <2>2. m \in 1 .. lastId /\ m \notin Malformed
    BY <2>1
  <2>3. PICK r \in Requests : place[r] # "none" /\ m \in MutationsOf(r)
    BY <1>1, <2>2 DEF PInv, PushedOrGoing
  <2>4. place[r] \in {"done", "lost", "failed"}
    BY <1>1, <2>1, <2>3 DEF PInv, Types, Places, Quiet, UnderWay
  <2> QED  BY <1>1, <2>2, <2>3, <2>4 DEF PInv, PushedOrGoing, Empty
<1> QED  BY <1>1, PInvAlways, PTL
-----------------------------------------------------------------------------
(* SeparatePushesAgree.  A request always goes up to the last mutation     *)
(* sent, so that the request of an entity that is not crossed has its      *)
(* latest mutation; such an entity has one link at most, and only its one  *)
(* task touches its record, until the answer is in its row.                *)

AgreeTypes ==
  /\ sent \in Nat /\ row \in [Entities -> Nat] /\ content \in [Records -> Nat]
  /\ \A r \in UnderWay : MutationsOf(r) \subseteq 1 .. sent

UpToDate ==
  \A r \in UnderWay : \A e \in EntitiesOf(r) \ crossed : \A n \in 1 .. sent :
    e \in ItemsOf[n] /\ range[r][1] <= n => n \in MutationsOf(r)

TasksKnow ==
  \A t \in tasks :
    /\ t.mutation \notin Malformed
    /\ t.step \in {"update", "write"} => t.record \in Records /\ author[t.record] = t.entity
    /\ t.step = "write" => t.got = t.mutation

LinkedKnown == \A x \in linked : x \in Records /\ author[x] # NoEntity

OneLinkEach == \A e \in Entities \ crossed : \A x, y \in LinksOf(e) : x = y
TaskHasLink(t) ==
  /\ t.step = "create" => LinksOf(t.entity) = {}
  /\ t.step \in {"update", "write"} => LinksOf(t.entity) \subseteq {t.record}
  /\ t.step = "write" => content[t.record] = t.mutation
TasksHaveLink == \A t \in tasks : t.entity \notin crossed => TaskHasLink(t)

OnItsWay(e, m) ==
  \/ \E r \in Requests : place[r] \in {"process", "forked"} /\ m \in MutationsOf(r)
  \/ \E t \in tasks : t.entity = e /\ t.mutation = m
Arrived(e, m) == row[e] = m /\ \A x \in LinksOf(e) : content[x] = m
LatestGoOn ==
  \A e \in Entities \ (crossed \cup undone) : \A m \in Convertible(e) :
    Latest(e, m) => OnItsWay(e, m) \/ Arrived(e, m)

AInv == /\ PInv /\ AgreeTypes /\ UpToDate /\ TasksKnow /\ LinkedKnown
        /\ OneLinkEach /\ TasksHaveLink /\ LatestGoOn

LEMMA InitAInv == Init => AInv
<1> SUFFICES ASSUME Init PROVE AInv
  OBVIOUS
<1>1. PInv
  BY InitPInv
<1>2. UnderWay = {} /\ sent = 0 /\ tasks = {} /\ linked = {}
  BY DEF Init, UnderWay
<1>3. AgreeTypes
  BY <1>2 DEF Init, AgreeTypes
<1>4. UpToDate /\ TasksKnow /\ LinkedKnown /\ OneLinkEach /\ TasksHaveLink
  BY <1>2 DEF UpToDate, TasksKnow, LinkedKnown, OneLinkEach, TasksHaveLink, LinksOf
<1>5. LatestGoOn
  BY <1>2 DEF LatestGoOn, Convertible
<1> QED  BY <1>1, <1>3, <1>4, <1>5 DEF AInv

(* The mutation of an entity in a request under way is its latest.         *)
LEMMA InRequestIsLatest ==
  ASSUME AInv, NEW r \in UnderWay, NEW k \in MutationsOf(r) \ Malformed, NEW e \in ItemsOf[k],
         e \notin crossed, NEW m, Latest(e, m)
  PROVE  k = m
<1>1. r \in Requests /\ place[r] # "none"
  BY DEF UnderWay
<1>2. range[r][1] \in Nat /\ range[r][2] \in Nat /\ MutationsOf(r) = range[r][1] .. range[r][2]
  BY <1>1 DEF AInv, PInv, Types, MutationsOf
<1>3. k \in 1 .. sent /\ sent \in Nat
  BY DEF AInv, AgreeTypes
<1>4. k \in Convertible(e) /\ m \in 1 .. sent /\ e \in ItemsOf[m] /\ k <= m
  BY <1>3 DEF Latest, Convertible
<1>5. e \in EntitiesOf(r)
  BY DEF EntitiesOf, ItemsOfAll
<1>6. m \in MutationsOf(r)
  BY <1>2, <1>3, <1>4, <1>5 DEF AInv, UpToDate
<1>7. e \in ItemsOf[k] \cap ItemsOf[m]
  BY <1>4
<1> QED  BY <1>6, <1>7 DEF AInv, PInv, Crossings

LEMMA TaskIsLatest ==
  ASSUME AInv, NEW t \in tasks, t.entity \notin crossed, NEW m, Latest(t.entity, m)
  PROVE  t.mutation = m
<1>1. /\ t.request \in Requests /\ place[t.request] = "workflow"
      /\ t.mutation \in MutationsOf(t.request) /\ t.entity \in ItemsOf[t.mutation]
  BY DEF AInv, PInv, TasksBelong, Types, Tasks
<1>2. t.request \in UnderWay
  BY <1>1 DEF UnderWay
<1>3. t.mutation \notin Malformed
  BY DEF AInv, TasksKnow
<1> QED  BY <1>1, <1>2, <1>3, InRequestIsLatest

(* Nothing is sent: the latest mutations stay and go on.                   *)
LEMMA LatestKept ==
  ASSUME AInv, UNCHANGED sent, crossed \subseteq crossed', undone \subseteq undone',
         \A e \in Entities \ (crossed' \cup undone') : \A m \in Convertible(e) :
           Latest(e, m) /\ (OnItsWay(e, m) \/ Arrived(e, m)) => OnItsWay(e, m)' \/ Arrived(e, m)'
  PROVE  LatestGoOn'
<1>1. \A e : Convertible(e)' = Convertible(e)
  BY DEF Convertible
<1>2. \A e, m : Latest(e, m)' <=> Latest(e, m)
  BY <1>1 DEF Latest
<1> QED  BY <1>1, <1>2 DEF AInv, LatestGoOn

(* Requests under way have the mutations they had, and no others are.      *)
LEMMA RequestsKept ==
  ASSUME AInv, UNCHANGED <<range, sent>>, crossed \subseteq crossed', UnderWay' \subseteq UnderWay
  PROVE  UpToDate' /\ \A r \in UnderWay' : MutationsOf(r)' \subseteq 1 .. sent'
<1>1. \A r : MutationsOf(r)' = MutationsOf(r) /\ EntitiesOf(r)' = EntitiesOf(r)
  BY DEF MutationsOf, EntitiesOf
<1> QED  BY <1>1 DEF AInv, UpToDate, AgreeTypes

LEMMA LinksKept ==
  ASSUME AInv, UNCHANGED <<tasks, author, content, linked>>, crossed \subseteq crossed'
  PROVE  TasksKnow' /\ LinkedKnown' /\ OneLinkEach' /\ TasksHaveLink'
         /\ \A e : LinksOf(e)' = LinksOf(e)
<1>1. \A e : LinksOf(e)' = LinksOf(e)
  BY DEF LinksOf
<1> QED  BY <1>1 DEF AInv, TasksKnow, LinkedKnown, OneLinkEach, TasksHaveLink, TaskHasLink

LEMMA HandlerAgrees ==
  ASSUME AInv, PInv', NEW r \in Requests, Commit(r) \/ Skip(r) \/ StopProcessing(r)
  PROVE  AInv'
<1>1. /\ place[r] = "process"
      /\ \E p \in {"process", "forked"} : place' = [place EXCEPT ![r] = p]
      /\ UNCHANGED <<sent, range, tasks, author, content, linked, crossed, undone>>
  BY DEF Commit, Skip, StopProcessing, Goto, pcoVars, histVars, dbVars, clientVars
<1>2. /\ place[r] = "process" /\ place'[r] \in {"process", "forked"}
      /\ \A q \in Requests : q # r => place'[q] = place[q]
  BY <1>1 DEF AInv, PInv, Types
<1>3. UnderWay' = UnderWay /\ r \in UnderWay
  BY <1>2 DEF UnderWay
<1>4. \A q : MutationsOf(q)' = MutationsOf(q)
  BY <1>1 DEF MutationsOf
<1>5. \/ row' = row
      \/ /\ next[r] <= range[r][2] /\ next[r] \in Nat
         /\ row' = [e \in Entities |-> IF e \in ItemsOf[next[r]] /\ next[r] \notin Refused
                                       THEN next[r] ELSE row[e]]
  BY DEF Commit, Skip, StopProcessing, dbVars, AInv, PInv, Types
<1>6. AgreeTypes'
  <2>1. row' \in [Entities -> Nat]
    BY <1>5 DEF AInv, AgreeTypes
  <2> QED  BY <1>1, <1>3, <2>1, RequestsKept DEF AInv, AgreeTypes
<1>7. UpToDate' /\ TasksKnow' /\ LinkedKnown' /\ OneLinkEach' /\ TasksHaveLink'
  BY <1>1, <1>3, RequestsKept, LinksKept
<1>8. ASSUME NEW e \in Entities \ (crossed' \cup undone'), NEW m \in Convertible(e),
             Latest(e, m), OnItsWay(e, m) \/ Arrived(e, m)
      PROVE  OnItsWay(e, m)' \/ Arrived(e, m)'
  <2>1. OnItsWay(e, m) => OnItsWay(e, m)'
    BY <1>1, <1>2, <1>4 DEF OnItsWay
  <2>2. CASE Arrived(e, m) /\ row'[e] = row[e]
    BY <1>1, <2>2, LinksKept DEF Arrived
  <2>3. CASE row'[e] # row[e]
    <3>1. next[r] <= range[r][2] /\ next[r] \in Nat /\ e \in ItemsOf[next[r]] /\ next[r] \notin Refused
      BY <1>5, <2>3 DEF AInv, AgreeTypes
    <3>2. next[r] \in MutationsOf(r) \ Malformed
      BY <1>2, <3>1, PushAssumption DEF AInv, PInv, Posted, MutationsOf, Mutations
    <3>3. next[r] = m
      BY <1>1, <1>3, <1>8, <3>1, <3>2, InRequestIsLatest
    <3> QED  BY <1>2, <1>4, <3>2, <3>3 DEF OnItsWay
  <2> QED  BY <1>8, <2>1, <2>2, <2>3
<1>9. LatestGoOn'
  BY <1>1, <1>8, LatestKept
<1> QED  BY <1>6, <1>7, <1>9 DEF AInv

LEMMA PostAgrees ==
  ASSUME AInv, PInv', NEW r \in Requests, Post(r)
  PROVE  AInv'
<1>1. PICK first \in Mutations, last \in Mutations :
        /\ first <= last
        /\ first = sent + 1 \/ (first <= sent /\ last = sent)
        /\ sent' = IF last > sent THEN last ELSE sent
        /\ range' = [range EXCEPT ![r] = <<first, last>>]
        /\ crossed' = crossed \cup
             (ItemsOfAll(first .. last) \cap UNION {EntitiesOf(q) : q \in UnderWay}) \cup
             InSeveral(first .. last)
  BY DEF Post
<1>2. /\ place[r] = "none" /\ place' = [place EXCEPT ![r] = "process"]
      /\ UNCHANGED <<row, tasks, author, content, linked, undone>>
  BY DEF Post, Goto, dbVars, pcoVars
<1>3. /\ range'[r] = <<first, last>> /\ place'[r] = "process"
      /\ \A q \in Requests : q # r => range'[q] = range[q] /\ place'[q] = place[q]
  BY <1>1, <1>2 DEF AInv, PInv, Types
<1>4. /\ sent \in Nat /\ sent' \in Nat /\ sent <= sent' /\ last = sent' /\ first \in Nat \ {0}
      /\ \A n \in 1 .. sent' : n \notin 1 .. sent => n \in first .. last
  BY <1>1, PushAssumption DEF AInv, AgreeTypes, Mutations
<1>5. MutationsOf(r)' = first .. last /\ EntitiesOf(r)' = ItemsOfAll(first .. last)
  BY <1>3 DEF MutationsOf, EntitiesOf
<1>6. \A q \in Requests : q # r => MutationsOf(q)' = MutationsOf(q) /\ EntitiesOf(q)' = EntitiesOf(q)
  BY <1>3 DEF MutationsOf, EntitiesOf
<1>7. UnderWay' = UnderWay \cup {r} /\ r \notin UnderWay /\ UnderWay \subseteq Requests
  BY <1>2, <1>3 DEF UnderWay
<1>8. AgreeTypes'
  <2>1. MutationsOf(r)' \subseteq 1 .. sent'
    BY <1>4, <1>5
  <2>2. \A q \in UnderWay : MutationsOf(q)' \subseteq 1 .. sent'
    BY <1>4, <1>6, <1>7 DEF AInv, AgreeTypes
  <2> QED  BY <1>2, <1>4, <1>7, <2>1, <2>2 DEF AInv, AgreeTypes
<1>9. UpToDate'
  <2>1. ASSUME NEW n \in 1 .. sent', range'[r][1] <= n PROVE n \in MutationsOf(r)'
    BY <1>3, <1>4, <1>5, <2>1
  <2>2. ASSUME NEW q \in UnderWay, NEW e \in EntitiesOf(q)' \ crossed', NEW n \in 1 .. sent',
               e \in ItemsOf[n], range'[q][1] <= n
        PROVE  n \in MutationsOf(q)'
    <3>1. q \in Requests /\ q # r /\ e \in EntitiesOf(q) /\ e \notin crossed /\ range'[q] = range[q]
      BY <1>1, <1>3, <1>6, <1>7, <2>2
    <3>2. n \in 1 .. sent
      <4>1. SUFFICES ASSUME n \notin 1 .. sent PROVE FALSE
        OBVIOUS
      <4>2. e \in ItemsOfAll(first .. last)
        BY <1>4, <2>2, <4>1 DEF ItemsOfAll
      <4> QED  BY <1>1, <2>2, <3>1, <4>2
    <3>3. n \in MutationsOf(q)
      BY <2>2, <3>1, <3>2 DEF AInv, UpToDate
    <3> QED  BY <1>6, <3>1, <3>3
  <2> QED  BY <1>7, <2>1, <2>2 DEF UpToDate
<1>10. crossed \subseteq crossed'
  BY <1>1
<1>11. TasksKnow' /\ LinkedKnown' /\ OneLinkEach' /\ TasksHaveLink' /\ \A e : LinksOf(e)' = LinksOf(e)
  BY <1>2, <1>10, LinksKept
<1>12. ASSUME NEW e \in Entities \ (crossed' \cup undone'), NEW m \in Convertible(e)', Latest(e, m)'
       PROVE  OnItsWay(e, m)' \/ Arrived(e, m)'
  <2>1. m \in 1 .. sent' /\ m \notin Malformed /\ e \in ItemsOf[m]
    BY <1>12 DEF Convertible
  <2>2. CASE m \notin 1 .. sent
    <3>1. m \in MutationsOf(r)'
      BY <1>4, <1>5, <2>1, <2>2
    <3> QED  BY <1>3, <3>1 DEF OnItsWay
  <2>3. CASE m \in 1 .. sent
    <3>1. m \in Convertible(e) /\ Convertible(e) \subseteq Convertible(e)'
      BY <1>4, <2>1, <2>3 DEF Convertible
    <3>2. Latest(e, m)
      BY <1>12, <3>1 DEF Latest
    <3>3. OnItsWay(e, m) \/ Arrived(e, m)
      BY <1>2, <1>10, <1>12, <3>1, <3>2 DEF AInv, LatestGoOn
    <3>4. OnItsWay(e, m) => OnItsWay(e, m)'
      BY <1>2, <1>3, <1>6 DEF OnItsWay
    <3>5. Arrived(e, m) => Arrived(e, m)'
      BY <1>2, <1>11 DEF Arrived
    <3> QED  BY <3>3, <3>4, <3>5
  <2> QED  BY <2>2, <2>3
<1> QED  BY <1>8, <1>9, <1>11, <1>12 DEF AInv, LatestGoOn

LEMMA ServerStopsAgrees ==
  ASSUME AInv, PInv', NEW r \in Requests, ServerStops(r)
  PROVE  AInv'
<1>1. /\ place[r] \in {"process", "forked"} /\ place' = [place EXCEPT ![r] = "lost"]
      /\ undone' = undone \cup EntitiesOf(r)
      /\ UNCHANGED <<sent, row, range, tasks, author, content, linked, crossed>>
  BY DEF ServerStops, Goto, dbVars, pcoVars, clientVars
<1>2. place'[r] = "lost" /\ \A q \in Requests : q # r => place'[q] = place[q]
  BY <1>1 DEF AInv, PInv, Types
<1>3. UnderWay' \subseteq UnderWay
  BY <1>2 DEF UnderWay
<1>4. AgreeTypes' /\ UpToDate'
  BY <1>1, <1>3, RequestsKept DEF AInv, AgreeTypes
<1>5. TasksKnow' /\ LinkedKnown' /\ OneLinkEach' /\ TasksHaveLink' /\ \A e : LinksOf(e)' = LinksOf(e)
  BY <1>1, LinksKept
<1>6. ASSUME NEW e \in Entities \ (crossed' \cup undone'), NEW m \in Convertible(e),
             OnItsWay(e, m) \/ Arrived(e, m)
      PROVE  OnItsWay(e, m)' \/ Arrived(e, m)'
  <2>1. m \notin MutationsOf(r)
    BY <1>1, <1>6 DEF Convertible, EntitiesOf, ItemsOfAll
  <2>2. OnItsWay(e, m) => OnItsWay(e, m)'
    BY <1>1, <1>2, <2>1 DEF OnItsWay, MutationsOf
  <2>3. Arrived(e, m) => Arrived(e, m)'
    BY <1>1, <1>5 DEF Arrived
  <2> QED  BY <1>6, <2>2, <2>3
<1>7. LatestGoOn'
  BY <1>1, <1>6, LatestKept
<1> QED  BY <1>4, <1>5, <1>7 DEF AInv

(* The tasks of a request have all it can bring of an entity. *)
LEMMA TaskForEach ==
  ASSUME NEW r, NEW m \in MutationsOf(r) \ Malformed, NEW e \in Entities, e \in ItemsOf[m]
  PROVE  \E t \in TasksOf(r) : t.entity = e /\ t.mutation = m
<1> DEFINE t == [request |-> r, mutation |-> m, entity |-> e, step |-> "find", record |-> 0, got |-> 0]
<1>1. <<m, e>> \in {q \in Converted(MutationsOf(r)) \X Entities : q[2] \in ItemsOf[q[1]]}
  BY DEF Converted
<1>2. t \in TasksOf(r)
  BY <1>1 DEF TasksOf
<1> QED  BY <1>2

LEMMA TasksConverted ==
  ASSUME NEW r, NEW t \in TasksOf(r)
  PROVE  t.mutation \notin Malformed /\ t.step = "find"
BY DEF TasksOf, Converted

LEMMA StartWorkflowAgrees ==
  ASSUME AInv, PInv', NEW r \in Requests, StartWorkflow(r)
  PROVE  AInv'
<1>1. /\ place[r] = "forked" /\ tasks' = tasks \cup TasksOf(r)
      /\ place' = [place EXCEPT ![r] = IF TasksOf(r) = {} THEN "done" ELSE "workflow"]
      /\ UNCHANGED <<sent, row, range, author, content, linked, crossed, undone>>
  BY DEF StartWorkflow, Goto, dbVars, pcoVars, histVars, clientVars
<1>2. /\ place'[r] \in {"done", "workflow"}
      /\ \A q \in Requests : q # r => place'[q] = place[q]
  BY <1>1 DEF AInv, PInv, Types
<1>3. UnderWay' \subseteq UnderWay
  BY <1>1, <1>2 DEF UnderWay
<1>4. AgreeTypes' /\ UpToDate'
  BY <1>1, <1>3, RequestsKept DEF AInv, AgreeTypes
<1>5. \A e : LinksOf(e)' = LinksOf(e)
  BY <1>1 DEF LinksOf
<1>6. ASSUME NEW t \in tasks'
      PROVE  /\ t.mutation \notin Malformed
             /\ t.step \in {"update", "write"} => t.record \in Records /\ author[t.record] = t.entity
             /\ t.step = "write" => t.got = t.mutation
             /\ t.entity \notin crossed => TaskHasLink(t)
  <2>1. CASE t \in tasks
    BY <2>1 DEF AInv, TasksKnow, TasksHaveLink
  <2>2. CASE t \in TasksOf(r)
    BY <2>2, TasksConverted DEF TaskHasLink
  <2> QED  BY <1>1, <2>1, <2>2
<1>7. TasksKnow' /\ LinkedKnown' /\ OneLinkEach' /\ TasksHaveLink'
  BY <1>1, <1>5, <1>6 DEF AInv, TasksKnow, LinkedKnown, OneLinkEach, TasksHaveLink, TaskHasLink
<1>8. ASSUME NEW e \in Entities \ (crossed' \cup undone'), NEW m \in Convertible(e),
             OnItsWay(e, m) \/ Arrived(e, m)
      PROVE  OnItsWay(e, m)' \/ Arrived(e, m)'
  <2>1. CASE m \in MutationsOf(r)
    <3>1. \E t \in TasksOf(r) : t.entity = e /\ t.mutation = m
      BY <2>1, TaskForEach DEF Convertible
    <3> QED  BY <1>1, <3>1 DEF OnItsWay
  <2>2. CASE m \notin MutationsOf(r)
    <3>1. OnItsWay(e, m) => OnItsWay(e, m)'
      BY <1>1, <1>2, <2>2 DEF OnItsWay, MutationsOf
    <3>2. Arrived(e, m) => Arrived(e, m)'
      BY <1>1, <1>5 DEF Arrived
    <3> QED  BY <1>8, <3>1, <3>2
  <2> QED  BY <2>1, <2>2
<1>9. LatestGoOn'
  BY <1>1, <1>8, LatestKept
<1> QED  BY <1>4, <1>7, <1>9 DEF AInv

(* A task goes on, and touches no record of other entities.                *)
LEMMA TaskAgrees ==
  ASSUME AInv, PInv', NEW t \in tasks, NEW u, tasks' = (tasks \ {t}) \cup {u},
         u.request = t.request, u.mutation = t.mutation, u.entity = t.entity,
         u.step \in {"update", "write"} => u.record \in Records /\ author'[u.record] = u.entity,
         u.step = "write" => u.got = u.mutation,
         u.entity \notin crossed => TaskHasLink(u)',
         \A x \in Records : author[x] # NoEntity => author'[x] = author[x],
         \A x \in Records : author'[x] # t.entity => author'[x] = author[x] /\ content'[x] = content[x],
         content' \in [Records -> Nat],
         UNCHANGED <<sent, row, range, place, linked, crossed, undone>>
  PROVE  AInv'
<1>1. t \in Tasks /\ tasks \subseteq Tasks /\ NoEntity \notin Entities
  BY PushAssumption DEF AInv, PInv, Types
<1>2. UnderWay' = UnderWay
  BY DEF UnderWay
<1>3. AgreeTypes' /\ UpToDate'
  BY <1>2, RequestsKept DEF AInv, AgreeTypes
<1>4. \A e : LinksOf(e)' = LinksOf(e)
  BY DEF LinksOf, AInv, LinkedKnown
<1>5. ASSUME NEW w \in tasks, w # t
      PROVE  /\ w.step \in {"update", "write"} => author'[w.record] = w.entity
             /\ w.entity \notin crossed => TaskHasLink(w)'
  <2>1. w.step \in {"update", "write"} =>
          w.record \in Records /\ author[w.record] = w.entity /\ w.entity # NoEntity
    BY <1>1 DEF AInv, TasksKnow, Tasks
  <2>2. w.entity \notin crossed => w.entity # t.entity
    BY <1>5, OneTask DEF AInv
  <2>3. w.entity \notin crossed => TaskHasLink(w)
    BY DEF AInv, TasksHaveLink
  <2> QED  BY <1>4, <2>1, <2>2, <2>3 DEF TaskHasLink
<1>6. TasksKnow' /\ TasksHaveLink'
  BY <1>5 DEF AInv, TasksKnow, TasksHaveLink
<1>7. LinkedKnown'
  BY DEF AInv, LinkedKnown
<1>8. OneLinkEach'
  BY <1>4 DEF AInv, OneLinkEach
<1>9. ASSUME NEW e \in Entities \ (crossed' \cup undone'), NEW m \in Convertible(e), Latest(e, m),
             OnItsWay(e, m) \/ Arrived(e, m)
      PROVE  OnItsWay(e, m)' \/ Arrived(e, m)'
  <2>1. OnItsWay(e, m) => OnItsWay(e, m)'
    BY DEF OnItsWay, MutationsOf
  <2>2. CASE t.entity = e
    <3>1. t.mutation = m
      BY <1>9, <2>2, TaskIsLatest
    <3> QED  BY <2>2, <3>1 DEF OnItsWay
  <2>3. CASE t.entity # e /\ Arrived(e, m)
    <3>1. \A x \in LinksOf(e) : x \in Records /\ author[x] = e
      BY DEF LinksOf, AInv, LinkedKnown
    <3>2. \A x \in LinksOf(e) : author'[x] = e
      BY <1>1, <3>1
    <3> QED  BY <1>4, <2>3, <3>1, <3>2 DEF Arrived
  <2> QED  BY <1>9, <2>1, <2>2, <2>3
<1>10. LatestGoOn'
  BY <1>9, LatestKept
<1> QED  BY <1>3, <1>6, <1>7, <1>8, <1>10 DEF AInv

LEMMA GetExternalLinkAgrees ==
  ASSUME AInv, PInv', NEW t \in tasks, GetExternalLink(t)
  PROVE  AInv'
<1>1. /\ t \in Tasks
      /\ UNCHANGED <<sent, row, range, place, author, content, linked, crossed, undone>>
  BY DEF GetExternalLink, clientVars, dbVars, pcoVars, histVars, AInv, PInv, Types
<1>2. \A e : LinksOf(e)' = LinksOf(e)
  BY <1>1 DEF LinksOf
<1>3. content' \in [Records -> Nat]
  BY <1>1 DEF AInv, AgreeTypes
<1>4. CASE LinksOf(t.entity) = {} /\ Moves(t, [t EXCEPT !.step = "create"])
  <2> DEFINE u == [t EXCEPT !.step = "create"]
  <2>1. /\ u.request = t.request /\ u.mutation = t.mutation /\ u.entity = t.entity
        /\ u.step = "create"
    BY <1>1 DEF Tasks
  <2>2. tasks' = (tasks \ {t}) \cup {u}
    BY <1>4 DEF Moves
  <2> HIDE DEF u
  <2>3. TaskHasLink(u)'
    BY <1>2, <1>4, <2>1 DEF TaskHasLink
  <2> QED  BY <1>1, <1>3, <2>1, <2>2, <2>3, TaskAgrees
<1>5. ASSUME NEW x \in LinksOf(t.entity), Moves(t, [t EXCEPT !.step = "update", !.record = x])
      PROVE  AInv'
  <2> DEFINE u == [t EXCEPT !.step = "update", !.record = x]
  <2>1. /\ u.request = t.request /\ u.mutation = t.mutation /\ u.entity = t.entity
        /\ u.step = "update" /\ u.record = x
    BY <1>1 DEF Tasks
  <2>2. tasks' = (tasks \ {t}) \cup {u}
    BY <1>5 DEF Moves
  <2> HIDE DEF u
  <2>3. x \in Records /\ author[x] = t.entity
    BY DEF LinksOf, AInv, LinkedKnown
  <2>4. t.entity \in Entities
    BY <1>1 DEF Tasks
  <2>5. u.entity \notin crossed => TaskHasLink(u)'
    BY <1>2, <2>1, <2>4 DEF TaskHasLink, AInv, OneLinkEach
  <2> QED  BY <1>1, <1>3, <2>1, <2>2, <2>3, <2>5, TaskAgrees
<1> QED  BY <1>4, <1>5 DEF GetExternalLink

LEMMA CreateEntityAgrees ==
  ASSUME AInv, PInv', NEW t \in tasks, CreateEntity(t)
  PROVE  AInv'
<1>1. /\ t \in Tasks /\ t.step = "create"
      /\ UNCHANGED <<sent, row, range, place, linked, crossed, undone>>
  BY DEF CreateEntity, clientVars, dbVars, histVars, AInv, PInv, Types
<1>2. PICK x \in Records :
        /\ author[x] = NoEntity /\ author' = [author EXCEPT ![x] = t.entity]
        /\ content' = [content EXCEPT ![x] = t.mutation]
        /\ Moves(t, [t EXCEPT !.step = "write", !.record = x, !.got = t.mutation])
  BY DEF CreateEntity
<1> DEFINE u == [t EXCEPT !.step = "write", !.record = x, !.got = t.mutation]
<1>3. /\ u.request = t.request /\ u.mutation = t.mutation /\ u.entity = t.entity
      /\ u.step = "write" /\ u.record = x /\ u.got = t.mutation
  BY <1>1 DEF Tasks
<1>4. tasks' = (tasks \ {t}) \cup {u}
  BY <1>2 DEF Moves
<1> HIDE DEF u
<1>5. /\ author'[x] = t.entity /\ \A y \in Records : y # x => author'[y] = author[y]
      /\ content'[x] = t.mutation /\ \A y \in Records : y # x => content'[y] = content[y]
      /\ content' \in [Records -> Nat]
  BY <1>1, <1>2, PushAssumption DEF AInv, AgreeTypes, PInv, Types, Tasks, Mutations
<1>6. x \notin linked
  BY <1>2 DEF AInv, LinkedKnown
<1>7. t.entity \notin crossed => LinksOf(t.entity) = {}
  BY <1>1 DEF AInv, TasksHaveLink, TaskHasLink
<1>8. LinksOf(t.entity)' = LinksOf(t.entity)
  BY <1>1, <1>5, <1>6 DEF LinksOf, AInv, LinkedKnown
<1>9. u.entity \notin crossed => TaskHasLink(u)'
  BY <1>3, <1>5, <1>7, <1>8 DEF TaskHasLink
<1>10. /\ \A y \in Records : author[y] # NoEntity => author'[y] = author[y]
       /\ \A y \in Records :
            author'[y] # t.entity => author'[y] = author[y] /\ content'[y] = content[y]
  BY <1>2, <1>5
<1> QED  BY <1>1, <1>3, <1>4, <1>5, <1>9, <1>10, TaskAgrees

LEMMA UpdateEntityAgrees ==
  ASSUME AInv, PInv', NEW t \in tasks, UpdateEntity(t)
  PROVE  AInv'
<1>1. /\ t \in Tasks /\ t.step = "update"
      /\ content' = [content EXCEPT ![t.record] = t.mutation]
      /\ Moves(t, [t EXCEPT !.step = "write", !.got = t.mutation])
      /\ UNCHANGED <<sent, row, range, place, author, linked, crossed, undone>>
  BY DEF UpdateEntity, Answer, clientVars, dbVars, histVars, AInv, PInv, Types
<1> DEFINE u == [t EXCEPT !.step = "write", !.got = t.mutation]
<1>2. /\ u.request = t.request /\ u.mutation = t.mutation /\ u.entity = t.entity
      /\ u.step = "write" /\ u.record = t.record /\ u.got = t.mutation
  BY <1>1 DEF Tasks
<1>3. tasks' = (tasks \ {t}) \cup {u}
  BY <1>1 DEF Moves
<1> HIDE DEF u
<1>4. t.record \in Records /\ author[t.record] = t.entity
  BY <1>1 DEF AInv, TasksKnow
<1>5. /\ content'[t.record] = t.mutation
      /\ \A y \in Records : y # t.record => content'[y] = content[y]
      /\ content' \in [Records -> Nat]
  BY <1>1, <1>4, PushAssumption DEF AInv, AgreeTypes, Tasks, Mutations
<1>6. \A e : LinksOf(e)' = LinksOf(e)
  BY <1>1 DEF LinksOf
<1>7. u.entity \notin crossed => TaskHasLink(u)'
  BY <1>1, <1>2, <1>5, <1>6 DEF AInv, TasksHaveLink, TaskHasLink
<1>8. \A y \in Records : author'[y] # t.entity => author'[y] = author[y] /\ content'[y] = content[y]
  BY <1>1, <1>4, <1>5
<1> QED  BY <1>1, <1>2, <1>3, <1>4, <1>5, <1>7, <1>8, TaskAgrees

(* The answer is in the row, and its record is the link. *)
LEMMA ProcessResponseAgrees ==
  ASSUME AInv, PInv', NEW t \in tasks, ProcessResponse(t)
  PROVE  AInv'
<1>1. /\ t.step = "write" /\ t \in Tasks /\ t.request \in Requests
      /\ place[t.request] = "workflow"
      /\ linked' = linked \cup {t.record} /\ tasks' = tasks \ {t}
      /\ row' = [row EXCEPT ![t.entity] = t.got]
      /\ place' = [place EXCEPT ![t.request] =
                     IF OfRequest(t.request) \ {t} = {} THEN "done" ELSE "workflow"]
      /\ UNCHANGED <<sent, range, author, content, crossed, undone>>
  BY DEF ProcessResponse, Goto, WithLink, clientVars, pcoVars, AInv, PInv, Types, TasksBelong, Tasks
<1>2. /\ place'[t.request] \in {"done", "workflow"}
      /\ \A q \in Requests : q # t.request => place'[q] = place[q]
  BY <1>1 DEF AInv, PInv, Types
<1>3. UnderWay' \subseteq UnderWay
  BY <1>1, <1>2 DEF UnderWay
<1>4. /\ t.record \in Records /\ author[t.record] = t.entity /\ t.got = t.mutation
      /\ t.entity \in Entities /\ t.mutation \in Nat /\ t.entity # NoEntity
  BY <1>1, PushAssumption DEF AInv, TasksKnow, Tasks, Mutations
<1>5. AgreeTypes' /\ UpToDate'
  <2>1. row' \in [Entities -> Nat]
    BY <1>1, <1>4 DEF AInv, AgreeTypes
  <2> QED  BY <1>1, <1>3, <2>1, RequestsKept DEF AInv, AgreeTypes
<1>6. /\ \A e : e # t.entity => LinksOf(e)' = LinksOf(e)
      /\ LinksOf(t.entity)' = LinksOf(t.entity) \cup {t.record}
  BY <1>1, <1>4 DEF LinksOf
<1>7. LinkedKnown' /\ TasksKnow'
  BY <1>1, <1>4 DEF AInv, LinkedKnown, TasksKnow
<1>8. t.entity \notin crossed => LinksOf(t.entity)' = {t.record} /\ content[t.record] = t.mutation
  BY <1>1, <1>6 DEF AInv, TasksHaveLink, TaskHasLink
<1>9. OneLinkEach'
  <2>1. ASSUME NEW e \in Entities \ crossed', NEW x \in LinksOf(e)', NEW y \in LinksOf(e)'
        PROVE  x = y
    BY <1>1, <1>6, <1>8, <2>1 DEF AInv, OneLinkEach
  <2> QED  BY <2>1 DEF OneLinkEach
<1>10. TasksHaveLink'
  <2>1. ASSUME NEW w \in tasks', w.entity \notin crossed PROVE TaskHasLink(w)'
    <3>1. w \in tasks /\ w # t
      BY <1>1
    <3>2. w.entity # t.entity
      BY <2>1, <3>1, OneTask DEF AInv
    <3> QED  BY <1>1, <1>6, <2>1, <3>1, <3>2 DEF AInv, TasksHaveLink, TaskHasLink
  <2> QED  BY <1>1, <2>1 DEF TasksHaveLink
<1>11. ASSUME NEW e \in Entities \ (crossed' \cup undone'), NEW m \in Convertible(e), Latest(e, m),
              OnItsWay(e, m) \/ Arrived(e, m)
       PROVE  OnItsWay(e, m)' \/ Arrived(e, m)'
  <2>1. CASE e = t.entity
    <3>1. t.mutation = m
      BY <1>1, <1>11, <2>1, TaskIsLatest
    <3>2. row'[e] = m
      BY <1>1, <1>4, <2>1, <3>1 DEF AInv, AgreeTypes
    <3> QED  BY <1>1, <1>8, <1>11, <2>1, <3>1, <3>2 DEF Arrived
  <2>2. CASE e # t.entity
    <3>1. OnItsWay(e, m) => OnItsWay(e, m)'
      BY <1>1, <1>2, <2>2 DEF OnItsWay, MutationsOf
    <3>2. row'[e] = row[e]
      BY <1>1, <2>2 DEF AInv, AgreeTypes
    <3>3. Arrived(e, m) => Arrived(e, m)'
      BY <1>1, <1>6, <2>2, <3>2 DEF Arrived
    <3> QED  BY <1>11, <3>1, <3>3
  <2> QED  BY <2>1, <2>2
<1>12. LatestGoOn'
  BY <1>1, <1>11, LatestKept
<1> QED  BY <1>5, <1>7, <1>9, <1>10, <1>12 DEF AInv

(* The activity starts again, with some of its answers linked, or is done for. *)
LEMMA FailAgrees ==
  ASSUME AInv, PInv', NEW r \in Requests, Fail(r)
  PROVE  AInv'
<1>1. /\ place[r] = "workflow"
      /\ UNCHANGED <<sent, row, range, author, content, crossed>>
  BY DEF Fail, clientVars, pcoVars
<1>2. PICK S \in SUBSET {t \in OfRequest(r) : t.step = "write"} :
        linked' = linked \cup UNION {WithLink(t) : t \in S}
  BY DEF Fail
<1>3. \/ /\ tasks' = (tasks \ OfRequest(r)) \cup TasksOf(r)
         /\ UNCHANGED <<place, undone>>
      \/ /\ place' = [place EXCEPT ![r] = "failed"]
         /\ tasks' = tasks \ OfRequest(r)
         /\ undone' = undone \cup EntitiesOf(r)
  BY DEF Fail, Goto
<1>4. undone \subseteq undone' /\ UnderWay' \subseteq UnderWay
      /\ \A q \in Requests : q # r => place'[q] = place[q]
  BY <1>1, <1>3 DEF AInv, PInv, Types, UnderWay
<1>5. AgreeTypes' /\ UpToDate'
  BY <1>1, <1>4, RequestsKept DEF AInv, AgreeTypes
<1>6. ASSUME NEW t \in S
      PROVE  /\ t \in tasks /\ t.request = r /\ t.step = "write"
             /\ t.record \in Records /\ author[t.record] = t.entity
             /\ t.entity \in Entities /\ t.entity # NoEntity
             /\ t.mutation \in MutationsOf(r) /\ t.entity \in ItemsOf[t.mutation]
  <2>1. t \in tasks /\ t.request = r /\ t.step = "write"
    BY <1>6 DEF OfRequest
  <2>2. t \in Tasks /\ t.mutation \in MutationsOf(r) /\ t.entity \in ItemsOf[t.mutation]
    BY <2>1 DEF AInv, PInv, Types, TasksBelong
  <2> QED  BY <2>1, <2>2, PushAssumption DEF AInv, TasksKnow, Tasks
<1>7. \A x : x \in linked' <=> x \in linked \/ \E t \in S : x = t.record
  BY <1>2 DEF WithLink
<1>8. \A e : LinksOf(e) \subseteq LinksOf(e)'
             /\ \A x \in LinksOf(e)' : x \in LinksOf(e) \/ \E t \in S : x = t.record /\ t.entity = e
  BY <1>1, <1>6, <1>7 DEF LinksOf
<1>9. LinkedKnown'
  BY <1>1, <1>6, <1>7 DEF AInv, LinkedKnown
<1>10. OneLinkEach'
  <2>1. ASSUME NEW e \in Entities \ crossed, NEW x \in LinksOf(e)', NEW y \in LinksOf(e)'
        PROVE  x = y
    <3>1. CASE \E t \in S : t.entity = e
      <4>1. PICK t \in S : t.entity = e
        BY <3>1
      <4>2. LinksOf(e) \subseteq {t.record}
        BY <1>6, <2>1, <4>1 DEF AInv, TasksHaveLink, TaskHasLink
      <4>3. \A w \in S : w.entity = e => w = t
        BY <1>6, <2>1, <4>1, OneTask DEF AInv
      <4> QED  BY <1>8, <4>2, <4>3
    <3>2. CASE ~ \E t \in S : t.entity = e
      BY <1>8, <2>1, <3>2 DEF AInv, OneLinkEach
    <3> QED  BY <3>1, <3>2
  <2> QED  BY <1>1, <2>1 DEF OneLinkEach
<1>11. \A w \in tasks' : w \in TasksOf(r) \/ (w \in tasks /\ w.request # r)
  BY <1>3 DEF OfRequest
<1>12. TasksKnow'
  BY <1>1, <1>11, TasksConverted DEF AInv, TasksKnow
<1>13. TasksHaveLink'
  <2>1. ASSUME NEW w \in tasks', w.entity \notin crossed PROVE TaskHasLink(w)'
    <3>1. CASE w \in TasksOf(r)
      BY <3>1, TasksConverted DEF TaskHasLink
    <3>2. CASE w \in tasks /\ w.request # r
      <4>1. \A t \in S : t.entity # w.entity
        BY <1>6, <2>1, <3>2, OneTask DEF AInv
      <4>2. LinksOf(w.entity)' = LinksOf(w.entity)
        BY <1>8, <4>1
      <4> QED  BY <1>1, <2>1, <3>2, <4>2 DEF AInv, TasksHaveLink, TaskHasLink
    <3> QED  BY <1>11, <3>1, <3>2
  <2> QED  BY <1>1, <2>1 DEF TasksHaveLink
<1>14. ASSUME NEW e \in Entities \ (crossed' \cup undone'), NEW m \in Convertible(e), Latest(e, m),
              OnItsWay(e, m) \/ Arrived(e, m)
       PROVE  OnItsWay(e, m)' \/ Arrived(e, m)'
  <2>1. m \notin Malformed /\ e \in ItemsOf[m]
    BY <1>14 DEF Convertible
  <2>2. CASE m \in MutationsOf(r)
    <3>1. e \in EntitiesOf(r)
      BY <2>1, <2>2 DEF EntitiesOf, ItemsOfAll
    <3>2. tasks' = (tasks \ OfRequest(r)) \cup TasksOf(r)
      BY <1>3, <1>14, <3>1
    <3>3. \E t \in TasksOf(r) : t.entity = e /\ t.mutation = m
      BY <2>1, <2>2, TaskForEach
    <3> QED  BY <3>2, <3>3 DEF OnItsWay
  <2>3. CASE m \notin MutationsOf(r)
    <3>1. \A t \in tasks : t.request = r => t.mutation \in MutationsOf(r)
      BY DEF AInv, PInv, TasksBelong
    <3>2. ASSUME NEW t \in tasks, t.entity = e, t.mutation = m PROVE t \in tasks'
      BY <1>3, <2>3, <3>1, <3>2 DEF OfRequest
    <3>3. OnItsWay(e, m) => OnItsWay(e, m)'
      BY <1>1, <1>4, <3>2 DEF OnItsWay, MutationsOf
    <3>4. \A t \in S : t.entity # e
      <4>1. SUFFICES ASSUME NEW t \in S, t.entity = e PROVE FALSE
        OBVIOUS
      <4>2. t.mutation = m
        BY <1>1, <1>6, <1>14, <4>1, TaskIsLatest
      <4> QED  BY <1>6, <2>3, <4>2
    <3>5. LinksOf(e)' = LinksOf(e)
      BY <1>8, <3>4
    <3>6. Arrived(e, m) => Arrived(e, m)'
      BY <1>1, <3>5 DEF Arrived
    <3> QED  BY <1>14, <3>3, <3>6
  <2> QED  BY <2>2, <2>3
<1>15. LatestGoOn'
  BY <1>1, <1>4, <1>14, LatestKept
<1> QED  BY <1>5, <1>9, <1>10, <1>12, <1>13, <1>15 DEF AInv

LEMMA StutterAgrees ==
  ASSUME AInv, PInv', UNCHANGED vars
  PROVE  AInv'
<1>1. UNCHANGED <<sent, row, range, place, tasks, author, content, linked, crossed, undone>>
  BY DEF vars
<1>2. UnderWay' = UnderWay
  BY <1>1 DEF UnderWay
<1>3. AgreeTypes' /\ UpToDate'
  BY <1>1, <1>2, RequestsKept DEF AInv, AgreeTypes
<1>4. TasksKnow' /\ LinkedKnown' /\ OneLinkEach' /\ TasksHaveLink' /\ \A e : LinksOf(e)' = LinksOf(e)
  BY <1>1, LinksKept
<1>5. LatestGoOn'
  BY <1>1, <1>4, LatestKept DEF OnItsWay, Arrived, MutationsOf
<1> QED  BY <1>3, <1>4, <1>5 DEF AInv

LEMMA AInvInductive == AInv /\ [Next]_vars => AInv'
<1> SUFFICES ASSUME AInv, [Next]_vars PROVE AInv'
  OBVIOUS
<1>1. PInv'
  BY PInvInductive DEF AInv
<1>2. ASSUME NEW r \in Requests, Post(r) \/ Handle(r) \/ ServerStops(r) \/ Fail(r) PROVE AInv'
  BY <1>1, <1>2, PostAgrees, HandlerAgrees, StartWorkflowAgrees, ServerStopsAgrees, FailAgrees
     DEF Handle
<1>3. ASSUME NEW t \in tasks, TaskStep(t) PROVE AInv'
  BY <1>1, <1>3, GetExternalLinkAgrees, CreateEntityAgrees, UpdateEntityAgrees,
     ProcessResponseAgrees DEF TaskStep
<1>4. CASE UNCHANGED vars
  BY <1>1, <1>4, StutterAgrees
<1> QED  BY <1>2, <1>3, <1>4 DEF Next

(* An entity whose pushes never overlapped, none of them lost or failed,   *)
(* ends with the content of the last mutation in its row and in its record *)
(* in PCO: rows written by the mutator and by the response, mutations sent *)
(* again, refused ones that are pushed, and activities that start again    *)
(* with a part of their responses linked leave nothing else (the push      *)
(* handler, ExternalPushWorkflow, processMutation, processPcoData).        *)
THEOREM SeparatePushesEndAlike == Spec => []SeparatePushesAgree
<1>1. AInv => SeparatePushesAgree
  <2> SUFFICES ASSUME AInv, Quiet, NEW e \in Entities \ (crossed \cup undone),
                      NEW m \in Convertible(e), Latest(e, m)
               PROVE  row[e] = m /\ \A x \in LinksOf(e) : content[x] = m
    BY DEF SeparatePushesAgree
  <2>1. \A r \in Requests : place[r] \notin {"process", "forked", "workflow"}
    BY DEF Quiet, UnderWay
  <2>2. tasks = {}
    BY <2>1 DEF AInv, PInv, TasksBelong, Types, Tasks
  <2>3. ~ OnItsWay(e, m)
    BY <2>1, <2>2 DEF OnItsWay
  <2> QED  BY <2>3 DEF AInv, LatestGoOn, Arrived
<1> QED  BY <1>1, InitAInv, AInvInductive, PTL DEF Spec
=============================================================================
