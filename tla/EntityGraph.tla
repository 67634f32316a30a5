---------------------------- MODULE EntityGraph ----------------------------
(***************************************************************************)
(* The edges between entities: how the relationships of a PCO record       *)
(* become edges, and what deleting and merging records does to them.  The  *)
(* records are people with a primary campus; an edge is written with the   *)
(* records whose links name its two entities (RecordSync shows that a link *)
(* keeps its entity).  The entity rows are left to RecordSync.             *)
(***************************************************************************)
EXTENDS Naturals, FiniteSets

CONSTANTS
  People, Campuses,  \* external ids of the two types
  Rank,              \* the order of the entity ids, as EdgeDirectionSchema compares them
  NoRecord,          \* no external id
  InitialPeople,     \* people the first sync has linked
  Hooks,             \* runs of ProcessExternalWebhook
  FailureProne,      \* those that may fail half-way
  MaxRetries,        \* Activity.retry({ times })
  MaxChanges,        \* bound: changes made in PCO
  Serial             \* scenario bound: one activity at a time

Records == People \cup Campuses

ASSUME RecordAssumption ==
  /\ People \cap Campuses = {} /\ NoRecord \notin Records
  /\ InitialPeople \subseteq People
  /\ Rank \in [Records -> Nat]
  /\ \A x, y \in Records : Rank[x] = Rank[y] => x = y
ASSUME HookAssumption ==
  /\ FailureProne \subseteq Hooks
  /\ MaxRetries \in Nat /\ MaxChanges \in Nat /\ Serial \in BOOLEAN

EdgeRows == [source : Records, target : Records, type : {"campus", "merged"},
             deleted : BOOLEAN]
Events == [op : {"upsert"}, id : People, campus : Campuses \cup {NoRecord}]
          \cup [op : {"delete"}, id : People]
          \cup [op : {"merge"}, id : People, keep : People]
Steps == {"idle", "get", "links", "refs", "edges", "lookup", "mergeLinks",
          "mergeEdges", "erase", "move"}

VARIABLES
  campus,    \* PCO: primary_campus of each person
  gone,      \* PCO: people destroyed, or merged into another
  mergedInto,\* PCO: the person each was merged into
  changes,   \* PCO: changes made so far
  events,    \* PCO: webhook deliveries under way
  failed,    \* events whose workflow failed for good
  linked,    \* externalLinks: the external ids with a row
  unlinked,  \* those of them whose row has deletedAt
  edges,     \* table edges
  pc,        \* the step each activity is at
  event,     \* the event it works on
  related,   \* the campus of the record it fetched
  todo,      \* statements of deleteEntityId still to run
  keepFound, \* mergeEntity: whether the select returned the link to keep
  moved,     \* mergeEntity: removeIdEdges
  attempt    \* retries used

outerVars == <<campus, gone, mergedInto, changes, events, failed>>
dbVars == <<linked, unlinked, edges>>
localVars == <<event, related, todo, keepFound, moved, attempt>>
vars == <<outerVars, dbVars, pc, localVars>>

NoEvent == [op |-> "delete", id |-> NoRecord]

TypeOK ==
  /\ campus \in [People -> Campuses \cup {NoRecord}]
  /\ gone \subseteq People
  /\ mergedInto \in [People -> People \cup {NoRecord}]
  /\ changes \in Nat
  /\ events \subseteq Events
  /\ failed \subseteq Events
  /\ linked \subseteq Records
  /\ unlinked \subseteq linked
  /\ edges \subseteq EdgeRows
  /\ pc \in [Hooks -> Steps]
  /\ event \in [Hooks -> Events \cup {NoEvent}]
  /\ related \in [Hooks -> Campuses \cup {NoRecord}]
  /\ todo \in [Hooks -> SUBSET {"link", "edges"}]
  /\ keepFound \in [Hooks -> BOOLEAN]
  /\ moved \in [Hooks -> SUBSET EdgeRows]
  /\ attempt \in [Hooks -> 0 .. MaxRetries]

Quiet == \A h \in Hooks : pc[h] = "idle"
MayStart == Serial => Quiet

Init ==
  /\ campus = [p \in People |-> NoRecord]
  /\ gone = {} /\ mergedInto = [p \in People |-> NoRecord]
  /\ changes = 0 /\ events = {} /\ failed = {}
  /\ linked = InitialPeople /\ unlinked = {} /\ edges = {}
  /\ pc = [h \in Hooks |-> "idle"]
  /\ event = [h \in Hooks |-> NoEvent]
  /\ related = [h \in Hooks |-> NoRecord]
  /\ todo = [h \in Hooks |-> {}]
  /\ keepFound = [h \in Hooks |-> FALSE]
  /\ moved = [h \in Hooks |-> {}]
  /\ attempt = [h \in Hooks |-> 0]

-----------------------------------------------------------------------------
(* Planning Center.  A person it holds is one of PCO's live records; each  *)
(* change emits an event, and events arrive in any order.                  *)

Held == People \ gone

PcoChange(e) ==
  /\ changes < MaxChanges
  /\ changes' = changes + 1
  /\ events' = events \cup {e}
  /\ UNCHANGED <<failed, dbVars, pc, localVars>>

SetCampus(p, c) ==
  /\ p \in Held /\ campus[p] # c
  /\ campus' = [campus EXCEPT ![p] = c]
  /\ PcoChange([op |-> "upsert", id |-> p, campus |-> c])
  /\ UNCHANGED <<gone, mergedInto>>

Destroy(p) ==
  /\ p \in Held
  /\ gone' = gone \cup {p}
  /\ PcoChange([op |-> "delete", id |-> p])
  /\ UNCHANGED <<campus, mergedInto>>

Merge(k, r) ==
  /\ k \in Held /\ r \in Held /\ k # r
  /\ gone' = gone \cup {r}
  /\ mergedInto' = [mergedInto EXCEPT ![r] = k]
  /\ PcoChange([op |-> "merge", id |-> r, keep |-> k])
  /\ UNCHANGED campus

OtherClient ==
  \/ \E p \in People, c \in Campuses : SetCampus(p, c)
  \/ \E p \in People : Destroy(p)
  \/ \E k, r \in People : Merge(k, r)

-----------------------------------------------------------------------------
(* Rows of the edges table. *)

(* EdgeDirectionSchema: the lower id is the source.  Broken variant: the   *)
(* record is, and what it is related to the target.                        *)
AsGiven(x, y, t) == [source |-> x, target |-> y, type |-> t, deleted |-> FALSE]
Directed(x, y, t) ==
  [source |-> IF Rank[x] <= Rank[y] THEN x ELSE y,
   target |-> IF Rank[x] <= Rank[y] THEN y ELSE x, type |-> t, deleted |-> FALSE]

SameKey(d, e) == d.source = e.source /\ d.target = e.target /\ d.type = e.type

(* INSERT ... ON CONFLICT DO UPDATE SET metadata, updatedAt: a row with    *)
(* the key stays as it is, deletedAt included.                             *)
Upserted(new) == edges \cup {e \in new : \A d \in edges : ~ SameKey(d, e)}

Touches(e, x) == e.source = x \/ e.target = x

-----------------------------------------------------------------------------
(* An activity's progress. *)

Goto(h, step) == pc' = [pc EXCEPT ![h] = step]

FirstStep(e) == CASE e.op = "upsert" -> "get"
                  [] e.op = "delete" -> "lookup"
                  [] e.op = "merge" -> "mergeLinks"

Forget(h) ==
  /\ related' = [related EXCEPT ![h] = NoRecord]
  /\ todo' = [todo EXCEPT ![h] = {}]
  /\ keepFound' = [keepFound EXCEPT ![h] = FALSE]
  /\ moved' = [moved EXCEPT ![h] = {}]

Finish(h) ==
  /\ Goto(h, "idle")
  /\ event' = [event EXCEPT ![h] = NoEvent]
  /\ attempt' = [attempt EXCEPT ![h] = 0]
  /\ Forget(h)

(* A failure part-way: nothing is undone, the activity starts again. *)
RetryAlways(h) ==    \* broken variant: the retries have no end
  /\ Goto(h, FirstStep(event[h]))
  /\ attempt' = [attempt EXCEPT ![h] = @ + 1]
  /\ Forget(h)
  /\ UNCHANGED <<outerVars, dbVars, event>>
Retry(h) ==
  /\ IF attempt[h] < MaxRetries
     THEN /\ Goto(h, FirstStep(event[h]))
          /\ attempt' = [attempt EXCEPT ![h] = @ + 1]
          /\ UNCHANGED <<event, failed>>
          /\ Forget(h)
     ELSE /\ Finish(h)
          /\ failed' = failed \cup {event[h]}
  /\ UNCHANGED <<campus, gone, mergedInto, changes, events, dbVars>>

Fail(h) == h \in FailureProne /\ pc[h] # "idle" /\ Retry(h)

Deliver(h, e) ==
  /\ pc[h] = "idle" /\ MayStart
  /\ event' = [event EXCEPT ![h] = e]
  /\ events' = events \ {e}
  /\ Goto(h, FirstStep(e))
  /\ UNCHANGED <<campus, gone, mergedInto, changes, failed, dbVars, related, todo,
                 keepFound, moved, attempt>>

-----------------------------------------------------------------------------
(* An upsert event: processPcoData. *)

(* The record as PCO holds it, or the event's own when PCO answers 404.    *)
FetchRecord(h) ==
  LET p == event[h].id
  IN /\ pc[h] = "get"
     /\ related' = [related EXCEPT ![h] = IF p \in Held THEN campus[p] ELSE event[h].campus]
     /\ Goto(h, "links")
     /\ UNCHANGED <<outerVars, dbVars, event, todo, keepFound, moved, attempt>>

ProcessExternalLinks(h) ==
  /\ pc[h] = "links"
  /\ linked' = linked \cup {event[h].id}
  /\ Goto(h, "refs")
  /\ UNCHANGED <<outerVars, unlinked, edges, localVars>>

(* Related records the page did not hold get a link of their own.          *)
NoMissingLinks(h) == {}    \* broken variant
MissingLinks(h) == {related[h]} \ {NoRecord}

ProcessReferenceExternalLinks(h) ==
  /\ pc[h] = "refs"
  /\ linked' = linked \cup MissingLinks(h)
  /\ Goto(h, "edges")
  /\ UNCHANGED <<outerVars, unlinked, edges, localVars>>

(* Only records with a link become relationships. *)
Relationships(h) == {Directed(event[h].id, c, "campus") : c \in {related[h]} \cap linked}

ProcessRelationships(h) ==
  /\ pc[h] = "edges"
  /\ edges' = Upserted(Relationships(h))
  /\ Finish(h)
  /\ UNCHANGED <<outerVars, linked, unlinked>>

-----------------------------------------------------------------------------
(* A delete event, and the removal of the losing record of a merge. *)

LiveLinks == linked \ unlinked

DeleteEntity(h) ==
  /\ pc[h] = "lookup"
  /\ IF event[h].id \in LiveLinks
     THEN /\ Goto(h, "erase")
          /\ todo' = [todo EXCEPT ![h] = {"link", "edges"}]
          /\ UNCHANGED <<event, related, keepFound, moved, attempt>>
     ELSE Finish(h)
  /\ UNCHANGED <<outerVars, dbVars>>

EraseLink(x) == unlinked' = unlinked \cup {x}
EraseEdges(x) ==
  edges' = {IF Touches(e, x) THEN [e EXCEPT !.deleted = TRUE] ELSE e : e \in edges}

(* The statements of deleteEntityId run concurrently: in either order.     *)
DeleteEntityId(h) ==
  /\ pc[h] = "erase"
  /\ \E part \in todo[h] :
       /\ \/ part = "link" /\ EraseLink(event[h].id) /\ UNCHANGED edges
          \/ part = "edges" /\ EraseEdges(event[h].id) /\ UNCHANGED unlinked
       /\ IF todo[h] # {part}
          THEN /\ todo' = [todo EXCEPT ![h] = @ \ {part}]
               /\ UNCHANGED <<pc, event, related, keepFound, moved, attempt>>
          ELSE IF keepFound[h]
          THEN /\ todo' = [todo EXCEPT ![h] = {}]
               /\ Goto(h, "move")
               /\ UNCHANGED <<event, related, keepFound, moved, attempt>>
          ELSE Finish(h)
  /\ UNCHANGED <<outerVars, linked>>

-----------------------------------------------------------------------------
(* A merge event: mergeEntity(keepId, removeId). *)

(* One select for both links; without the removed one there is no merge,   *)
(* without the kept one the removed one is only deleted.                   *)
AlwaysFound(h) == TRUE    \* broken variant
KeepLinkFound(h) == event[h].keep \in LiveLinks

MergeLinks(h) ==
  /\ pc[h] = "mergeLinks"
  /\ IF event[h].id \in LiveLinks
     THEN /\ Goto(h, "mergeEdges")
          /\ keepFound' = [keepFound EXCEPT ![h] = KeepLinkFound(h)]
          /\ UNCHANGED <<event, related, todo, moved, attempt>>
     ELSE Finish(h)
  /\ UNCHANGED <<outerVars, dbVars>>

(* removeIdEdges: deleted ones included. *)
ReadEdges(h) ==
  /\ pc[h] = "mergeEdges"
  /\ moved' = [moved EXCEPT ![h] = {e \in edges : Touches(e, event[h].id)}]
  /\ todo' = [todo EXCEPT ![h] = {"link", "edges"}]
  /\ Goto(h, "erase")
  /\ UNCHANGED <<outerVars, dbVars, event, related, keepFound, attempt>>

(* The end that was the removed entity becomes the kept one.               *)
OtherEndMoved(e, k, r) ==    \* broken variant
  IF e.source = r THEN [e EXCEPT !.target = k] ELSE [e EXCEPT !.source = k]
MovedEdge(e, k, r) ==
  IF e.source = r THEN [e EXCEPT !.source = k] ELSE [e EXCEPT !.target = k]
NewEdges(h) ==
  LET k == event[h].keep
      r == event[h].id
  IN {MovedEdge(e, k, r) : e \in moved[h]} \cup {Directed(k, r, "merged")}

MoveEdges(h) ==
  /\ pc[h] = "move"
  /\ edges' = Upserted(NewEdges(h))
  /\ Finish(h)
  /\ UNCHANGED <<outerVars, linked, unlinked>>

-----------------------------------------------------------------------------
Step(h) == \/ FetchRecord(h) \/ ProcessExternalLinks(h)
           \/ ProcessReferenceExternalLinks(h) \/ ProcessRelationships(h)
           \/ DeleteEntity(h) \/ DeleteEntityId(h)
           \/ MergeLinks(h) \/ ReadEdges(h) \/ MoveEdges(h)

Next ==
  \/ OtherClient
  \/ \E h \in Hooks, e \in events : Deliver(h, e)
  \/ \E h \in Hooks : Step(h) \/ Fail(h)

Spec == Init /\ [][Next]_vars
-----------------------------------------------------------------------------
(* Properties *)

(* The edges table has no foreign keys: whatever races and failures, an    *)
(* edge only joins entities that have a link.                              *)
EdgesJoinLinked == \A e \in edges : e.source \in linked /\ e.target \in linked

(* PostgreSQL rejects an INSERT ... ON CONFLICT DO UPDATE that proposes two *)
(* rows with one key.  The INSERT of a merge has a row for every edge of    *)
(* the removed entity, each with one end replaced; they never coincide.     *)
MergeHitsNoRowTwice ==
  \A h \in Hooks : pc[h] = "move" =>
    LET k == event[h].keep
        r == event[h].id
        Row(e) == MovedEdge(e, k, r)
    IN \A d, e \in moved[h] : /\ SameKey(Row(d), Row(e)) => d = e
                              /\ ~ SameKey(Row(d), Directed(k, r, "merged"))

(* edgesSchema.ts: "This rule must be enforced in all edge creation logic."*)
(* Every edge is stored in the direction of the alpha pattern rule, but    *)
(* for those of a person another was merged into: mergeEntity replaces one *)
(* end of an edge in place.                                                *)
Absorbed == {mergedInto[r] : r \in People}
EdgesDirectedUnlessMerged ==
  \A e \in edges : Rank[e.source] <= Rank[e.target] \/ {e.source, e.target} \cap Absorbed # {}

(* When all events are processed and no workflow failed for good, a person *)
(* PCO holds is joined to its campus by a live edge, however the events     *)
(* were interleaved, reordered and retried.  Not so for one that another    *)
(* was merged into: a merge that fails half-way and is retried copies the   *)
(* removed person's edges as deleted ones, which no upsert revives.         *)
Settled == Quiet /\ events = {} /\ failed = {}
HasEdge(x, y, t) == \E e \in edges : SameKey(e, Directed(x, y, t)) /\ ~ e.deleted
CurrentCampusJoined ==
  Settled => \A p \in Held : campus[p] # NoRecord /\ (\A r \in People : mergedInto[r] # p)
    => HasEdge(p, campus[p], "campus")
=============================================================================
