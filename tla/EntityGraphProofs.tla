------------------------- MODULE EntityGraphProofs -------------------------
(***************************************************************************)
(* Theorems about EntityGraph, for any people and campuses, any number of  *)
(* concurrent webhook runs, any failures and retries: what the edges join, *)
(* what merges do to them, and that the campus of a person arrives.        *)
(***************************************************************************)
EXTENDS EntityGraph, TLAPS

(* What each step of an activity may rely on: the event it works on, and   *)
(* the links the statements before it have seen or written.                *)
OnCourse(h) ==
  /\ pc[h] # "idle" => event[h] \in Events
  /\ pc[h] \in {"get", "links", "refs", "edges"} => event[h].op = "upsert"
  /\ pc[h] \in {"mergeLinks", "mergeEdges"} \/ keepFound[h] => event[h].op = "merge"
  /\ pc[h] \in {"refs", "edges", "mergeEdges", "erase"} \/ keepFound[h] => event[h].id \in linked
  /\ keepFound[h] => event[h].keep \in linked
  /\ pc[h] = "move" => keepFound[h]
  /\ pc[h] = "idle" => ~ keepFound[h]

(* An edge read to be moved joins records that have a link. *)
MovedJoinLinked == \A h \in Hooks : \A e \in moved[h] : e.source \in linked /\ e.target \in linked

IInv == /\ TypeOK
        /\ \A h \in Hooks : OnCourse(h)
        /\ MovedJoinLinked
        /\ EdgesJoinLinked

-----------------------------------------------------------------------------
(* The records the state is made of. *)

LEMMA EventFields ==
  ASSUME NEW e \in Events
  PROVE /\ e.op \in {"upsert", "delete", "merge"}
        /\ e.id \in People
        /\ e.op = "upsert" => e.campus \in Campuses \cup {NoRecord}
        /\ e.op = "merge" => e.keep \in People
BY DEF Events

LEMMA DirectedEdge ==
  ASSUME NEW x \in Records, NEW y \in Records, NEW t \in {"campus", "merged"}
  PROVE /\ Directed(x, y, t) \in EdgeRows
        /\ Directed(x, y, t).source \in {x, y}
        /\ Directed(x, y, t).target \in {x, y}
BY DEF Directed, EdgeRows

LEMMA MovedEdgeRow ==
  ASSUME NEW e \in EdgeRows, NEW k \in Records, NEW r \in Records
  PROVE /\ MovedEdge(e, k, r) \in EdgeRows
        /\ MovedEdge(e, k, r).source \in {e.source, k}
        /\ MovedEdge(e, k, r).target \in {e.target, k}
BY DEF MovedEdge, EdgeRows

LEMMA DeletedEdge ==
  ASSUME NEW e \in EdgeRows
  PROVE /\ [e EXCEPT !.deleted = TRUE] \in EdgeRows
        /\ [e EXCEPT !.deleted = TRUE].source = e.source
        /\ [e EXCEPT !.deleted = TRUE].target = e.target
BY DEF EdgeRows

LEMMA UpsertedEdges ==
  ASSUME NEW new PROVE edges \subseteq Upserted(new) /\ Upserted(new) \subseteq edges \cup new
BY DEF Upserted

LEMMA FirstStepTyped ==
  ASSUME NEW e \in Events
  PROVE /\ FirstStep(e) \in {"get", "lookup", "mergeLinks"}
        /\ FirstStep(e) = "get" => e.op = "upsert"
        /\ FirstStep(e) = "mergeLinks" => e.op = "merge"
BY EventFields DEF FirstStep

-----------------------------------------------------------------------------
(* The ways an activity moves on. *)

LocalTypes ==
  /\ pc \in [Hooks -> Steps]
  /\ event \in [Hooks -> Events \cup {NoEvent}]
  /\ related \in [Hooks -> Campuses \cup {NoRecord}]
  /\ todo \in [Hooks -> SUBSET {"link", "edges"}]
  /\ keepFound \in [Hooks -> BOOLEAN]
  /\ moved \in [Hooks -> SUBSET EdgeRows]
  /\ attempt \in [Hooks -> 0 .. MaxRetries]

(* The end of an activity forgets all it knew. *)
LEMMA FinishTyped ==
  ASSUME TypeOK, NEW h \in Hooks, Finish(h)
  PROVE /\ LocalTypes'
        /\ pc' = [pc EXCEPT ![h] = "idle"]
        /\ event' = [event EXCEPT ![h] = NoEvent]
        /\ keepFound' = [keepFound EXCEPT ![h] = FALSE]
        /\ moved' = [moved EXCEPT ![h] = {}]
BY HookAssumption DEF Finish, Forget, Goto, TypeOK, LocalTypes, Steps

(* So does a failure; a retry keeps the event. *)
LEMMA RetryTyped ==
  ASSUME TypeOK, NEW h \in Hooks, event[h] \in Events, Retry(h)
  PROVE /\ LocalTypes'
        /\ \/ /\ pc' = [pc EXCEPT ![h] = FirstStep(event[h])]
              /\ event' = event
           \/ /\ pc' = [pc EXCEPT ![h] = "idle"]
              /\ event' = [event EXCEPT ![h] = NoEvent]
        /\ keepFound' = [keepFound EXCEPT ![h] = FALSE]
        /\ moved' = [moved EXCEPT ![h] = {}]
<1>1. CASE attempt[h] < MaxRetries
  <2>1. FirstStep(event[h]) \in Steps
    BY FirstStepTyped DEF Steps
  <2>2. /\ pc' = [pc EXCEPT ![h] = FirstStep(event[h])]
        /\ attempt' = [attempt EXCEPT ![h] = @ + 1]
        /\ event' = event
        /\ Forget(h)
    BY <1>1 DEF Retry, Goto
  <2>3. attempt[h] + 1 \in 0 .. MaxRetries
    BY <1>1, HookAssumption DEF TypeOK
  <2>4. /\ pc' \in [Hooks -> Steps] /\ attempt' \in [Hooks -> 0 .. MaxRetries]
    BY <2>1, <2>2, <2>3 DEF TypeOK
  <2>. QED BY <2>2, <2>4 DEF TypeOK, LocalTypes, Forget
<1>2. CASE ~ (attempt[h] < MaxRetries)
  BY <1>2, FinishTyped DEF Retry
<1>. QED BY <1>1, <1>2

-----------------------------------------------------------------------------
(* What each action does to the links and edges an activity relies on.     *)
(* Frame: the activities other than h are where they were, and no link     *)
(* has gone.                                                               *)
Frame(h) ==
  /\ linked \subseteq linked'
  /\ \A g \in Hooks \ {h} :
       /\ pc'[g] = pc[g] /\ event'[g] = event[g]
       /\ keepFound'[g] = keepFound[g] /\ moved'[g] = moved[g]

LEMMA OthersKeepCourse ==
  ASSUME NEW h \in Hooks, Frame(h), \A g \in Hooks : OnCourse(g), MovedJoinLinked
  PROVE \A g \in Hooks \ {h} :
          /\ OnCourse(g)'
          /\ \A e \in moved'[g] : e.source \in linked' /\ e.target \in linked'
BY DEF Frame, OnCourse, MovedJoinLinked

(* Hence a step of h keeps the invariant if it does so for h and the edges. *)
LEMMA StepOfOne ==
  ASSUME IInv, NEW h \in Hooks, Frame(h), TypeOK', OnCourse(h)', EdgesJoinLinked',
         \A e \in moved'[h] : e.source \in linked' /\ e.target \in linked'
  PROVE IInv'
<1>1. \A g \in Hooks \ {h} :
        /\ OnCourse(g)'
        /\ \A e \in moved'[g] : e.source \in linked' /\ e.target \in linked'
  BY OthersKeepCourse DEF IInv
<1>2. MovedJoinLinked'
  BY <1>1 DEF MovedJoinLinked
<1>3. \A g \in Hooks : OnCourse(g)'
  BY <1>1
<1>. QED BY <1>2, <1>3 DEF IInv

(* An activity that has ended relies on nothing. *)
LEMMA EndKeeps ==
  ASSUME IInv, NEW h \in Hooks, Finish(h), linked \subseteq linked', TypeOK', EdgesJoinLinked'
  PROVE IInv'
<1>1. /\ pc' = [pc EXCEPT ![h] = "idle"]
      /\ event' = [event EXCEPT ![h] = NoEvent]
      /\ keepFound' = [keepFound EXCEPT ![h] = FALSE]
      /\ moved' = [moved EXCEPT ![h] = {}]
  BY FinishTyped DEF IInv
<1>2. /\ pc'[h] = "idle" /\ ~ keepFound'[h] /\ moved'[h] = {}
      /\ Frame(h)
  BY <1>1 DEF IInv, TypeOK, Frame
<1>3. OnCourse(h)'
  BY <1>2 DEF OnCourse
<1>. QED BY <1>2, <1>3, StepOfOne

LEMMA RetryKeeps ==
  ASSUME IInv, NEW h \in Hooks, pc[h] # "idle", Retry(h)
  PROVE IInv'
<1>0. event[h] \in Events
  BY DEF IInv, OnCourse
<1>1. /\ LocalTypes'
      /\ \/ /\ pc' = [pc EXCEPT ![h] = FirstStep(event[h])]
            /\ event' = event
         \/ /\ pc' = [pc EXCEPT ![h] = "idle"]
            /\ event' = [event EXCEPT ![h] = NoEvent]
      /\ keepFound' = [keepFound EXCEPT ![h] = FALSE]
      /\ moved' = [moved EXCEPT ![h] = {}]
  BY <1>0, RetryTyped DEF IInv
<1>2. /\ UNCHANGED dbVars
      /\ TypeOK' /\ EdgesJoinLinked'
  BY <1>0, <1>1 DEF Retry, IInv, TypeOK, LocalTypes, EdgesJoinLinked, dbVars
<1>3. Frame(h) /\ ~ keepFound'[h] /\ moved'[h] = {}
  BY <1>1, <1>2 DEF Frame, IInv, TypeOK, dbVars
<1>4. \/ pc'[h] = FirstStep(event[h]) /\ event'[h] = event[h]
      \/ pc'[h] = "idle"
  BY <1>1 DEF IInv, TypeOK
<1>5. OnCourse(h)'
  BY <1>0, <1>3, <1>4, FirstStepTyped DEF OnCourse
<1>. QED BY <1>2, <1>3, <1>5, StepOfOne

-----------------------------------------------------------------------------
(* Every action keeps the invariant. *)

LEMMA InitKeeps == Init => IInv
BY RecordAssumption, HookAssumption DEF Init, IInv, TypeOK, OnCourse, MovedJoinLinked,
   EdgesJoinLinked, Records, Steps, Events, NoEvent

(* PCO's changes touch no table and no activity. *)
LEMMA OtherClientKeeps == ASSUME IInv, OtherClient PROVE IInv'
<1>1. ASSUME NEW e \in Events, PcoChange(e)
      PROVE /\ changes' \in Nat /\ events' \subseteq Events
            /\ UNCHANGED <<failed, dbVars, pc, localVars>>
  BY <1>1 DEF IInv, TypeOK, PcoChange
<1>2. /\ campus' \in [People -> Campuses \cup {NoRecord}]
      /\ gone' \subseteq People
      /\ mergedInto' \in [People -> People \cup {NoRecord}]
      /\ changes' \in Nat /\ events' \subseteq Events
      /\ UNCHANGED <<failed, dbVars, pc, localVars>>
  <2>1. CASE \E p \in People, c \in Campuses : SetCampus(p, c)
    <3>1. PICK p \in People, c \in Campuses : SetCampus(p, c)
      BY <2>1
    <3>2. [op |-> "upsert", id |-> p, campus |-> c] \in Events
      BY DEF Events
    <3>. QED BY <1>1, <3>1, <3>2 DEF SetCampus, IInv, TypeOK
  <2>2. CASE \E p \in People : Destroy(p)
    <3>1. PICK p \in People : Destroy(p)
      BY <2>2
    <3>2. [op |-> "delete", id |-> p] \in Events
      BY DEF Events
    <3>. QED BY <1>1, <3>1, <3>2 DEF Destroy, IInv, TypeOK
  <2>3. CASE \E k, r \in People : Merge(k, r)
    <3>1. PICK k \in People, r \in People : Merge(k, r)
      BY <2>3
    <3>2. [op |-> "merge", id |-> r, keep |-> k] \in Events
      BY DEF Events
    <3>. QED BY <1>1, <3>1, <3>2 DEF Merge, IInv, TypeOK
  <2>. QED BY <2>1, <2>2, <2>3 DEF OtherClient
<1>. QED BY <1>2 DEF IInv, TypeOK, OnCourse, MovedJoinLinked, EdgesJoinLinked, dbVars,
       localVars

LEMMA DeliverKeeps ==
  ASSUME IInv, NEW h \in Hooks, NEW e \in events, Deliver(h, e) PROVE IInv'
<1>1. e \in Events
  BY DEF IInv, TypeOK
<1>2. FirstStep(e) \in Steps
  BY <1>1, FirstStepTyped DEF Steps
<1>3. TypeOK' /\ EdgesJoinLinked'
  BY <1>1, <1>2 DEF Deliver, Goto, IInv, TypeOK, EdgesJoinLinked, dbVars
<1>4. Frame(h) /\ pc'[h] = FirstStep(e) /\ event'[h] = e
  BY DEF Deliver, Goto, Frame, IInv, TypeOK, dbVars
<1>5. ~ keepFound'[h]
  BY DEF Deliver, IInv, OnCourse
<1>6. OnCourse(h)'
  BY <1>1, <1>4, <1>5, FirstStepTyped DEF OnCourse
<1>7. \A d \in moved'[h] : d.source \in linked' /\ d.target \in linked'
  BY DEF Deliver, IInv, MovedJoinLinked, dbVars
<1>. QED BY <1>3, <1>4, <1>6, <1>7, StepOfOne

LEMMA FetchRecordKeeps == ASSUME IInv, NEW h \in Hooks, FetchRecord(h) PROVE IInv'
<1>1. event[h] \in Events /\ event[h].op = "upsert"
  BY DEF FetchRecord, IInv, OnCourse
<1>2. (IF event[h].id \in Held THEN campus[event[h].id] ELSE event[h].campus)
        \in Campuses \cup {NoRecord}
  BY <1>1, EventFields DEF IInv, TypeOK
<1>3. TypeOK' /\ EdgesJoinLinked'
  BY <1>2 DEF FetchRecord, Goto, Steps, IInv, TypeOK, EdgesJoinLinked, outerVars, dbVars
<1>4. Frame(h) /\ pc'[h] = "links"
  BY DEF FetchRecord, Goto, Frame, IInv, TypeOK, dbVars
<1>5. OnCourse(h)'
  BY <1>1, <1>4 DEF FetchRecord, IInv, OnCourse, dbVars
<1>6. \A d \in moved'[h] : d.source \in linked' /\ d.target \in linked'
  BY DEF FetchRecord, IInv, MovedJoinLinked, dbVars
<1>. QED BY <1>3, <1>4, <1>5, <1>6, StepOfOne

LEMMA ProcessExternalLinksKeeps ==
  ASSUME IInv, NEW h \in Hooks, ProcessExternalLinks(h) PROVE IInv'
<1>1. event[h] \in Events /\ event[h].op = "upsert"
  BY DEF ProcessExternalLinks, IInv, OnCourse
<1>2. event[h].id \in Records
  BY <1>1, EventFields DEF Records
<1>3. TypeOK' /\ EdgesJoinLinked'
  BY <1>2 DEF ProcessExternalLinks, Goto, Steps, IInv, TypeOK, EdgesJoinLinked, outerVars,
     localVars
<1>4. Frame(h) /\ pc'[h] = "refs"
  BY DEF ProcessExternalLinks, Goto, Frame, IInv, TypeOK, localVars
<1>5. OnCourse(h)'
  BY <1>1, <1>4 DEF ProcessExternalLinks, IInv, OnCourse, localVars
<1>6. \A d \in moved'[h] : d.source \in linked' /\ d.target \in linked'
  BY DEF ProcessExternalLinks, IInv, MovedJoinLinked, localVars
<1>. QED BY <1>3, <1>4, <1>5, <1>6, StepOfOne

LEMMA ProcessReferenceExternalLinksKeeps ==
  ASSUME IInv, NEW h \in Hooks, ProcessReferenceExternalLinks(h) PROVE IInv'
<1>1. MissingLinks(h) \subseteq Records
  BY DEF MissingLinks, IInv, TypeOK, Records
<1>2. TypeOK' /\ EdgesJoinLinked'
  BY <1>1 DEF ProcessReferenceExternalLinks, Goto, Steps, IInv, TypeOK, EdgesJoinLinked,
     outerVars, localVars
<1>3. Frame(h) /\ pc'[h] = "edges"
  BY DEF ProcessReferenceExternalLinks, Goto, Frame, IInv, TypeOK, localVars
<1>4. OnCourse(h)'
  BY <1>3 DEF ProcessReferenceExternalLinks, IInv, OnCourse, localVars
<1>5. \A d \in moved'[h] : d.source \in linked' /\ d.target \in linked'
  BY DEF ProcessReferenceExternalLinks, IInv, MovedJoinLinked, localVars
<1>. QED BY <1>2, <1>3, <1>4, <1>5, StepOfOne

(* New edges that join linked records keep the table so. *)
LEMMA UpsertKeeps ==
  ASSUME IInv, NEW new \in SUBSET EdgeRows, edges' = Upserted(new), linked' = linked,
         \A e \in new : e.source \in linked /\ e.target \in linked
  PROVE edges' \subseteq EdgeRows /\ EdgesJoinLinked'
BY UpsertedEdges DEF IInv, TypeOK, EdgesJoinLinked

LEMMA ProcessRelationshipsKeeps ==
  ASSUME IInv, NEW h \in Hooks, ProcessRelationships(h) PROVE IInv'
<1>1. /\ event[h] \in Events /\ event[h].op = "upsert"
      /\ event[h].id \in linked
  BY DEF ProcessRelationships, IInv, OnCourse
<1>2. ASSUME NEW e \in Relationships(h)
      PROVE e \in EdgeRows /\ e.source \in linked /\ e.target \in linked
  <2>1. PICK c \in {related[h]} \cap linked : e = Directed(event[h].id, c, "campus")
    BY DEF Relationships
  <2>2. c \in Records /\ event[h].id \in Records
    BY <1>1 DEF IInv, TypeOK
  <2>. QED BY <1>1, <2>1, <2>2, DirectedEdge
<1>3. edges' \subseteq EdgeRows /\ EdgesJoinLinked'
  BY <1>2, UpsertKeeps DEF ProcessRelationships
<1>4. TypeOK'
  BY <1>3, FinishTyped DEF ProcessRelationships, IInv, TypeOK, LocalTypes, outerVars
<1>. QED BY <1>3, <1>4, EndKeeps DEF ProcessRelationships

LEMMA DeleteEntityKeeps == ASSUME IInv, NEW h \in Hooks, DeleteEntity(h) PROVE IInv'
<1>0. UNCHANGED <<outerVars, dbVars>> /\ EdgesJoinLinked' /\ linked \subseteq linked'
  BY DEF DeleteEntity, IInv, EdgesJoinLinked, dbVars
<1>1. CASE event[h].id \in LiveLinks
  <2>1. /\ Goto(h, "erase")
        /\ todo' = [todo EXCEPT ![h] = {"link", "edges"}]
        /\ UNCHANGED <<event, related, keepFound, moved, attempt>>
    BY <1>1 DEF DeleteEntity
  <2>2. TypeOK'
    BY <1>0, <2>1 DEF Goto, Steps, IInv, TypeOK, outerVars, dbVars
  <2>3. Frame(h) /\ pc'[h] = "erase"
    BY <1>0, <2>1 DEF Goto, Frame, IInv, TypeOK
  <2>4. OnCourse(h)'
    BY <1>0, <1>1, <2>1, <2>3 DEF DeleteEntity, LiveLinks, IInv, OnCourse, dbVars
  <2>5. \A d \in moved'[h] : d.source \in linked' /\ d.target \in linked'
    BY <1>0, <2>1 DEF IInv, MovedJoinLinked
  <2>. QED BY <1>0, <2>2, <2>3, <2>4, <2>5, StepOfOne
<1>2. CASE ~ (event[h].id \in LiveLinks)
  <2>1. Finish(h)
    BY <1>2 DEF DeleteEntity
  <2>2. TypeOK'
    BY <1>0, <2>1, FinishTyped DEF IInv, TypeOK, LocalTypes, outerVars, dbVars
  <2>. QED BY <1>0, <2>1, <2>2, EndKeeps
<1>. QED BY <1>1, <1>2

(* Marking rows as deleted moves no edge. *)
LEMMA EraseKeeps ==
  ASSUME IInv, NEW x \in People, linked' = linked,
         \/ EraseLink(x) /\ x \in linked /\ UNCHANGED edges
         \/ EraseEdges(x) /\ UNCHANGED unlinked
  PROVE unlinked' \subseteq linked' /\ edges' \subseteq EdgeRows /\ EdgesJoinLinked'
<1>1. CASE EraseLink(x) /\ x \in linked /\ UNCHANGED edges
  BY <1>1 DEF EraseLink, IInv, TypeOK, EdgesJoinLinked
<1>2. CASE EraseEdges(x) /\ UNCHANGED unlinked
  <2>1. ASSUME NEW d \in edges'
        PROVE d \in EdgeRows /\ d.source \in linked /\ d.target \in linked
    <3>1. PICK e \in edges : d = IF Touches(e, x) THEN [e EXCEPT !.deleted = TRUE] ELSE e
      BY <1>2 DEF EraseEdges
    <3>2. e \in EdgeRows /\ e.source \in linked /\ e.target \in linked
      BY DEF IInv, TypeOK, EdgesJoinLinked
    <3>. QED BY <3>1, <3>2, DeletedEdge
  <2>. QED BY <1>2, <2>1 DEF IInv, TypeOK, EdgesJoinLinked
<1>. QED BY <1>1, <1>2

LEMMA DeleteEntityIdKeeps == ASSUME IInv, NEW h \in Hooks, DeleteEntityId(h) PROVE IInv'
<1>0. PICK part \in todo[h] :
        /\ \/ part = "link" /\ EraseLink(event[h].id) /\ UNCHANGED edges
           \/ part = "edges" /\ EraseEdges(event[h].id) /\ UNCHANGED unlinked
        /\ IF todo[h] # {part}
           THEN /\ todo' = [todo EXCEPT ![h] = @ \ {part}]
                /\ UNCHANGED <<pc, event, related, keepFound, moved, attempt>>
           ELSE IF keepFound[h]
           THEN /\ todo' = [todo EXCEPT ![h] = {}]
                /\ Goto(h, "move")
                /\ UNCHANGED <<event, related, keepFound, moved, attempt>>
           ELSE Finish(h)
  BY DEF DeleteEntityId
<1>1. UNCHANGED outerVars /\ linked' = linked /\ pc[h] = "erase"
  BY DEF DeleteEntityId
<1>2. event[h].id \in People /\ event[h].id \in linked
  BY <1>1, EventFields DEF IInv, OnCourse
<1>3. unlinked' \subseteq linked' /\ edges' \subseteq EdgeRows /\ EdgesJoinLinked'
  BY <1>0, <1>1, <1>2, EraseKeeps
<1>4. CASE UNCHANGED <<event, related, keepFound, moved, attempt>>
           /\ todo' \in [Hooks -> SUBSET {"link", "edges"}]
           /\ (pc' = pc \/ (keepFound[h] /\ Goto(h, "move")))
  <2>1. TypeOK'
    BY <1>1, <1>3, <1>4 DEF Goto, Steps, IInv, TypeOK, outerVars
  <2>2. Frame(h) /\ pc'[h] \in {"erase", "move"} /\ (pc'[h] = "move" => keepFound[h])
    BY <1>1, <1>4 DEF Goto, Frame, IInv, TypeOK
  <2>3. OnCourse(h)'
    BY <1>1, <1>4, <2>2 DEF IInv, OnCourse
  <2>4. \A d \in moved'[h] : d.source \in linked' /\ d.target \in linked'
    BY <1>1, <1>4 DEF IInv, MovedJoinLinked
  <2>. QED BY <1>3, <2>1, <2>2, <2>3, <2>4, StepOfOne
<1>5. CASE Finish(h)
  <2>1. TypeOK'
    BY <1>1, <1>3, <1>5, FinishTyped DEF IInv, TypeOK, LocalTypes, outerVars
  <2>. QED BY <1>1, <1>3, <1>5, <2>1, EndKeeps
<1>. QED BY <1>0, <1>4, <1>5 DEF IInv, TypeOK

LEMMA MergeLinksKeeps == ASSUME IInv, NEW h \in Hooks, MergeLinks(h) PROVE IInv'
<1>0. UNCHANGED <<outerVars, dbVars>> /\ EdgesJoinLinked' /\ linked \subseteq linked'
  BY DEF MergeLinks, IInv, EdgesJoinLinked, dbVars
<1>1. CASE event[h].id \in LiveLinks
  <2>1. /\ Goto(h, "mergeEdges")
        /\ keepFound' = [keepFound EXCEPT ![h] = KeepLinkFound(h)]
        /\ UNCHANGED <<event, related, todo, moved, attempt>>
    BY <1>1 DEF MergeLinks
  <2>2. KeepLinkFound(h) \in BOOLEAN /\ (KeepLinkFound(h) => event[h].keep \in linked)
    BY DEF KeepLinkFound, LiveLinks
  <2>3. TypeOK'
    BY <1>0, <2>1, <2>2 DEF Goto, Steps, IInv, TypeOK, outerVars, dbVars
  <2>4. Frame(h) /\ pc'[h] = "mergeEdges" /\ keepFound'[h] = KeepLinkFound(h)
    BY <1>0, <2>1 DEF Goto, Frame, IInv, TypeOK
  <2>5. OnCourse(h)'
    BY <1>0, <1>1, <2>1, <2>2, <2>4 DEF MergeLinks, LiveLinks, IInv, OnCourse, dbVars
  <2>6. \A d \in moved'[h] : d.source \in linked' /\ d.target \in linked'
    BY <1>0, <2>1 DEF IInv, MovedJoinLinked
  <2>. QED BY <1>0, <2>3, <2>4, <2>5, <2>6, StepOfOne
<1>2. CASE ~ (event[h].id \in LiveLinks)
  <2>1. Finish(h)
    BY <1>2 DEF MergeLinks
  <2>2. TypeOK'
    BY <1>0, <2>1, FinishTyped DEF IInv, TypeOK, LocalTypes, outerVars, dbVars
  <2>. QED BY <1>0, <2>1, <2>2, EndKeeps
<1>. QED BY <1>1, <1>2

(* The edges read are edges of the table, which join linked records. *)
LEMMA ReadEdgesKeeps == ASSUME IInv, NEW h \in Hooks, ReadEdges(h) PROVE IInv'
<1>1. TypeOK' /\ EdgesJoinLinked'
  BY DEF ReadEdges, Goto, Steps, IInv, TypeOK, EdgesJoinLinked, outerVars, dbVars
<1>2. Frame(h) /\ pc'[h] = "erase" /\ moved'[h] \subseteq edges /\ linked' = linked
  BY DEF ReadEdges, Goto, Frame, IInv, TypeOK, dbVars
<1>3. OnCourse(h)'
  BY <1>2 DEF ReadEdges, IInv, OnCourse
<1>4. \A d \in moved'[h] : d.source \in linked' /\ d.target \in linked'
  BY <1>2 DEF IInv, EdgesJoinLinked
<1>. QED BY <1>1, <1>2, <1>3, <1>4, StepOfOne

LEMMA MoveEdgesKeeps == ASSUME IInv, NEW h \in Hooks, MoveEdges(h) PROVE IInv'
<1> DEFINE k == event[h].keep
           r == event[h].id
<1>1. keepFound[h] /\ event[h] \in Events /\ event[h].op = "merge" /\ r \in linked /\ k \in linked
  BY DEF MoveEdges, IInv, OnCourse
<1>2. k \in Records /\ r \in Records
  BY <1>1, EventFields DEF Records
<1>3. ASSUME NEW e \in NewEdges(h)
      PROVE e \in EdgeRows /\ e.source \in linked /\ e.target \in linked
  <2>1. CASE e = Directed(k, r, "merged")
    BY <1>1, <1>2, <2>1, DirectedEdge
  <2>2. CASE e # Directed(k, r, "merged")
    <3>1. PICK d \in moved[h] : e = MovedEdge(d, k, r)
      BY <1>3, <2>2 DEF NewEdges
    <3>2. d \in EdgeRows /\ d.source \in linked /\ d.target \in linked
      BY DEF IInv, TypeOK, MovedJoinLinked
    <3>. QED BY <1>1, <1>2, <3>1, <3>2, MovedEdgeRow
  <2>. QED BY <2>1, <2>2
<1>4. edges' \subseteq EdgeRows /\ EdgesJoinLinked'
  BY <1>3, UpsertKeeps DEF MoveEdges
<1>5. TypeOK'
  BY <1>4, FinishTyped DEF MoveEdges, IInv, TypeOK, LocalTypes, outerVars
<1>. QED BY <1>4, <1>5, EndKeeps DEF MoveEdges

-----------------------------------------------------------------------------
LEMMA NextKeeps == IInv /\ [Next]_vars => IInv'
<1>. SUFFICES ASSUME IInv, [Next]_vars PROVE IInv'
  OBVIOUS
<1>1. CASE OtherClient
  BY <1>1, OtherClientKeeps
<1>2. ASSUME NEW h \in Hooks, NEW e \in events, Deliver(h, e) PROVE IInv'
  BY <1>2, DeliverKeeps
<1>3. ASSUME NEW h \in Hooks, Step(h) PROVE IInv'
  BY <1>3, FetchRecordKeeps, ProcessExternalLinksKeeps, ProcessReferenceExternalLinksKeeps,
     ProcessRelationshipsKeeps, DeleteEntityKeeps, DeleteEntityIdKeeps, MergeLinksKeeps,
     ReadEdgesKeeps, MoveEdgesKeeps DEF Step
<1>4. ASSUME NEW h \in Hooks, Fail(h) PROVE IInv'
  BY <1>4, RetryKeeps DEF Fail
<1>5. CASE UNCHANGED vars
  BY <1>5 DEF vars, IInv, TypeOK, OnCourse, MovedJoinLinked, EdgesJoinLinked, outerVars,
     dbVars, localVars
<1>. QED BY <1>1, <1>2, <1>3, <1>4, <1>5 DEF Next

(* The rows of the three tables and the progress of every activity keep    *)
(* their types; a deletedAt is only ever set on a link that exists.        *)
THEOREM TypeCorrect == Spec => []TypeOK
<1>1. IInv => TypeOK
  BY DEF IInv
<1>. QED BY InitKeeps, NextKeeps, <1>1, PTL DEF Spec

(* The edges table has no foreign key, and mergeEntity writes edges from    *)
(* what it read several statements earlier: an edge still never names an    *)
(* entity without a link, whatever else ran or failed meanwhile.            *)
THEOREM EdgesAlwaysJoinLinked == Spec => []EdgesJoinLinked
<1>1. IInv => EdgesJoinLinked
  BY DEF IInv
<1>. QED BY InitKeeps, NextKeeps, <1>1, PTL DEF Spec
-----------------------------------------------------------------------------
(* What merges do to the edges. *)

(* An event that merges the person is still to be processed.               *)
UnderWay(p) ==
  \/ \E e \in events : e.op = "merge" /\ e.id = p
  \/ \E h \in Hooks : event[h].op = "merge" /\ event[h].id = p

(* PCO merges a person once, and its event is in one place.                *)
MergedOnce ==
  /\ changes <= MaxChanges
  /\ \A p \in People : mergedInto[p] # NoRecord => p \in gone
  /\ \A e \in events : e.op = "merge" => mergedInto[e.id] = e.keep
  /\ \A h \in Hooks : event[h].op = "merge" =>
       /\ mergedInto[event[h].id] = event[h].keep
       /\ \A e \in events : e.op = "merge" => e.id # event[h].id
       /\ \A g \in Hooks \ {h} : event[g].op = "merge" => event[g].id # event[h].id

UniqueKeys(E) == \A d, e \in E : SameKey(d, e) => d = e

(* The edges a merge has read are edges of the person it removes.          *)
MovedWasRead == \A h \in Hooks : moved[h] # {} =>
  /\ pc[h] \in {"erase", "move"} /\ event[h].op = "merge"
  /\ \A e \in moved[h] : Touches(e, event[h].id)
  /\ UniqueKeys(moved[h])

(* when gives each person the change of PCO that took it away, or a later  *)
(* time: a person is merged into one that goes later.                      *)
TakenAway(when) ==
  /\ \A p \in Held : when[p] = MaxChanges + 1
  /\ \A p \in gone : when[p] <= changes
  /\ \A p \in People : mergedInto[p] # NoRecord => when[p] < when[mergedInto[p]]

(* A campus edge joins a person and a campus.  A "merged" edge joins two   *)
(* people, of whom the one that went first has been merged for good.       *)
MergedInOrder(x, y, when) == x \in gone /\ y \in People /\ when[x] < when[y] /\ ~ UnderWay(x)
InOrder(e, when) ==
  \/ /\ e.type = "campus"
     /\ \/ e.source \in People /\ e.target \in Campuses
        \/ e.source \in Campuses /\ e.target \in People
  \/ /\ e.type = "merged"
     /\ MergedInOrder(e.source, e.target, when) \/ MergedInOrder(e.target, e.source, when)
AllInOrder(when) ==
  /\ TakenAway(when)
  /\ \A e \in edges : InOrder(e, when)
  /\ \A h \in Hooks : \A e \in moved[h] : InOrder(e, when)

MInv ==
  /\ IInv
  /\ MergedOnce
  /\ MovedWasRead
  /\ UniqueKeys(edges)
  /\ \E when \in [People -> 0 .. MaxChanges + 1] : AllInOrder(when)
  /\ EdgesDirectedUnlessMerged

-----------------------------------------------------------------------------
(* Keys of edges.                                                          *)

LEMMA UpsertUnique ==
  ASSUME NEW new, UniqueKeys(edges), UniqueKeys(new) PROVE UniqueKeys(Upserted(new))
BY DEF UniqueKeys, Upserted, SameKey

LEMMA MarkedEdge ==
  ASSUME NEW x, NEW d \in edges, edges \subseteq EdgeRows
  PROVE LET m == IF Touches(d, x) THEN [d EXCEPT !.deleted = TRUE] ELSE d
        IN m.source = d.source /\ m.target = d.target /\ m.type = d.type
BY DEF EdgeRows

LEMMA EraseUnique ==
  ASSUME NEW x, edges \subseteq EdgeRows, UniqueKeys(edges), EraseEdges(x) PROVE UniqueKeys(edges')
<1>. DEFINE Marked(d) == IF Touches(d, x) THEN [d EXCEPT !.deleted = TRUE] ELSE d
<1>1. SUFFICES ASSUME NEW d \in edges', NEW e \in edges', SameKey(d, e) PROVE d = e
  BY DEF UniqueKeys
<1>2. PICK c \in edges : d = Marked(c)
  BY DEF EraseEdges
<1>3. PICK b \in edges : e = Marked(b)
  BY DEF EraseEdges
<1>4. SameKey(c, b)
  <2>1. d.source = c.source /\ d.target = c.target /\ d.type = c.type
    BY <1>2, MarkedEdge
  <2>2. e.source = b.source /\ e.target = b.target /\ e.type = b.type
    BY <1>3, MarkedEdge
  <2>. QED BY <1>1, <2>1, <2>2 DEF SameKey
<1>5. c = b
  BY <1>4 DEF UniqueKeys
<1>. QED BY <1>2, <1>3, <1>5

-----------------------------------------------------------------------------
(* The edges a merge has read: the removed person at one end; at the other *)
(* a campus, or a person that was merged before.                           *)

Joins(e, r, x) == (e.source = r /\ e.target = x) \/ (e.source = x /\ e.target = r)

LEMMA RemovedPerson ==
  ASSUME MInv, NEW h \in Hooks, event[h].op = "merge", pc[h] # "idle",
         NEW when \in [People -> 0 .. MaxChanges + 1], AllInOrder(when)
  PROVE /\ event[h].id \in People /\ event[h].keep \in People
        /\ event[h].id \in gone /\ UnderWay(event[h].id)
        /\ mergedInto[event[h].id] = event[h].keep
        /\ when[event[h].id] < when[event[h].keep]
<1>1. event[h].id \in People /\ event[h].keep \in People
  BY EventFields DEF MInv, IInv, OnCourse
<1>2. mergedInto[event[h].id] = event[h].keep /\ UnderWay(event[h].id)
  BY DEF MInv, MergedOnce, UnderWay
<1>3. event[h].keep # NoRecord
  BY <1>1, RecordAssumption DEF Records
<1>. QED BY <1>1, <1>2, <1>3 DEF MInv, MergedOnce, AllInOrder, TakenAway

LEMMA MovedShape ==
  ASSUME MInv, NEW h \in Hooks, NEW d \in moved[h],
         NEW when \in [People -> 0 .. MaxChanges + 1], AllInOrder(when)
  PROVE LET r == event[h].id
            k == event[h].keep
        IN \E x \in Records :
             /\ x # r /\ x # k
             /\ Joins(d, r, x)
             /\ \/ d.type = "campus" /\ x \in Campuses
                \/ d.type = "merged" /\ x \in gone /\ ~ UnderWay(x) /\ when[x] < when[r]
<1>. DEFINE r == event[h].id  k == event[h].keep
<1>1. pc[h] # "idle" /\ event[h].op = "merge" /\ Touches(d, r)
  BY DEF MInv, MovedWasRead
<1>2. /\ r \in People /\ k \in People /\ r \in gone /\ UnderWay(r)
      /\ mergedInto[r] = k /\ when[r] < when[k]
  BY <1>1, RemovedPerson
<1>3. InOrder(d, when) /\ People \cap Campuses = {}
  BY RecordAssumption DEF AllInOrder
<1>4. CASE d.type = "campus"
  <2>1. PICK x \in Campuses : Joins(d, r, x)
    BY <1>1, <1>2, <1>3, <1>4 DEF InOrder, Touches, Joins
  <2>2. x \in Records /\ x # r /\ x # k
    BY <1>2, <1>3 DEF Records
  <2>. QED BY <1>4, <2>1, <2>2
<1>5. CASE d.type = "merged"
  <2>1. PICK x \in gone : /\ Joins(d, r, x)
                          /\ MergedInOrder(x, r, when)
    <3>1. \/ MergedInOrder(d.source, d.target, when) /\ d.source # r
          \/ MergedInOrder(d.target, d.source, when) /\ d.target # r
      BY <1>2, <1>3, <1>5 DEF InOrder, MergedInOrder
    <3>. QED BY <1>1, <3>1 DEF Touches, MergedInOrder, Joins
  <2>2. x \in People /\ ~ UnderWay(x) /\ when[x] < when[r] /\ x # r
    BY <1>2, <2>1 DEF MergedInOrder, MInv, IInv, TypeOK
  <2>3. x # k
    <3>1. when[x] \in Nat /\ when[r] \in Nat /\ when[k] \in Nat
      BY <1>2, <2>2, HookAssumption
    <3>. QED BY <1>2, <2>2, <3>1
  <2>. QED BY <1>5, <2>1, <2>2, <2>3 DEF Records
<1>. QED BY <1>3, <1>4, <1>5 DEF InOrder

LEMMA MovedEdgeEnds ==
  ASSUME NEW d \in EdgeRows, NEW k, NEW r
  PROVE /\ MovedEdge(d, k, r).type = d.type
        /\ d.source = r => MovedEdge(d, k, r).source = k /\ MovedEdge(d, k, r).target = d.target
        /\ d.source # r => MovedEdge(d, k, r).source = d.source /\ MovedEdge(d, k, r).target = k
BY DEF MovedEdge, EdgeRows

(* Hence the rows a merge inserts have keys of their own.                  *)
LEMMA NoRowTwice ==
  ASSUME MInv, NEW h \in Hooks, event[h].op = "merge"
  PROVE LET k == event[h].keep
            r == event[h].id
            Row(e) == MovedEdge(e, k, r)
        IN \A d, e \in moved[h] : /\ SameKey(Row(d), Row(e)) => d = e
                                  /\ ~ SameKey(Row(d), Directed(k, r, "merged"))
<1>. DEFINE k == event[h].keep
            r == event[h].id
            Row(e) == MovedEdge(e, k, r)
<1>1. SUFFICES ASSUME NEW d \in moved[h], NEW e \in moved[h]
               PROVE /\ SameKey(Row(d), Row(e)) => d = e
                     /\ ~ SameKey(Row(d), Directed(k, r, "merged"))
  OBVIOUS
<1>2. PICK when \in [People -> 0 .. MaxChanges + 1] : AllInOrder(when)
  BY DEF MInv
<1>3. PICK x \in Records :
        /\ x # r /\ x # k
        /\ Joins(d, r, x)
  BY <1>2, MovedShape
<1>4. PICK y \in Records :
        /\ y # r /\ y # k
        /\ Joins(e, r, y)
  BY <1>2, MovedShape
<1>5. d \in EdgeRows /\ e \in EdgeRows
  BY DEF MInv, IInv, TypeOK
<1>6. /\ Row(d).type = d.type /\ Row(e).type = e.type
      /\ \/ d.source = r /\ d.target = x /\ Row(d).source = k /\ Row(d).target = x
         \/ d.source = x /\ d.target = r /\ Row(d).source = x /\ Row(d).target = k
      /\ \/ e.source = r /\ e.target = y /\ Row(e).source = k /\ Row(e).target = y
         \/ e.source = y /\ e.target = r /\ Row(e).source = y /\ Row(e).target = k
  BY <1>3, <1>4, <1>5, MovedEdgeEnds DEF Joins
<1>7. SameKey(Row(d), Row(e)) => d = e
  <2>1. SameKey(Row(d), Row(e)) => SameKey(d, e)
    BY <1>3, <1>4, <1>6 DEF SameKey
  <2>. QED BY <2>1 DEF MInv, MovedWasRead, UniqueKeys
<1>8. ~ SameKey(Row(d), Directed(k, r, "merged"))
  <2>1. Directed(k, r, "merged").source \in {k, r} /\ Directed(k, r, "merged").target \in {k, r}
    BY DEF Directed
  <2>. QED BY <1>3, <1>6, <2>1 DEF SameKey
<1>. QED BY <1>7, <1>8

-----------------------------------------------------------------------------
(* The steps of an activity: PCO stays as it is, the other activities too; *)
(* the activity goes on with its event or ends; and the edges it has read  *)
(* are still there, forgotten, or read in this step.                       *)
Advances(h) ==
  /\ UNCHANGED <<gone, mergedInto, changes, events>>
  /\ \A g \in Hooks \ {h} : pc'[g] = pc[g] /\ event'[g] = event[g] /\ moved'[g] = moved[g]
  /\ event'[h] \in {event[h], NoEvent}
  /\ \/ moved'[h] = {}
     \/ moved'[h] = moved[h] /\ event'[h] = event[h] /\ pc'[h] \in {"erase", "move"}
     \/ /\ moved'[h] = {e \in edges : Touches(e, event[h].id)}
        /\ event'[h] = event[h] /\ event[h].op = "merge" /\ pc'[h] = "erase"

LEMMA AdvanceKeepsOrder ==
  ASSUME NEW h \in Hooks, Advances(h), NEW when, NEW e, InOrder(e, when) PROVE InOrder(e, when)'
<1>1. \A p : UnderWay(p)' => UnderWay(p)
  BY DEF Advances, UnderWay, NoEvent
<1>. QED BY <1>1 DEF InOrder, MergedInOrder, Advances

LEMMA AdvanceKeeps ==
  ASSUME MInv, IInv', NEW h \in Hooks, Advances(h),
         UniqueKeys(edges'), EdgesDirectedUnlessMerged',
         \A when \in [People -> 0 .. MaxChanges + 1] :
           AllInOrder(when) => \A e \in edges' : InOrder(e, when)'
  PROVE MInv'
<1>1. MergedOnce'
  <2>1. \A g \in Hooks : event'[g].op = "merge" => event'[g] = event[g]
    BY DEF Advances, NoEvent
  <2>. QED BY <2>1 DEF MInv, MergedOnce, Advances
<1>2. MovedWasRead'
  <2>1. SUFFICES ASSUME NEW g \in Hooks, moved'[g] # {}
                 PROVE /\ pc'[g] \in {"erase", "move"} /\ event'[g].op = "merge"
                       /\ \A e \in moved'[g] : Touches(e, event'[g].id)
                       /\ UniqueKeys(moved'[g])
    BY DEF MovedWasRead, UniqueKeys, Touches, SameKey
  <2>2. CASE moved'[g] = moved[g] /\ event'[g] = event[g] /\ pc'[g] \in {pc[g], "erase", "move"}
    BY <2>1, <2>2 DEF MInv, MovedWasRead
  <2>3. CASE /\ moved'[g] = {e \in edges : Touches(e, event[g].id)}
             /\ event'[g] = event[g] /\ event[g].op = "merge" /\ pc'[g] = "erase"
    BY <2>1, <2>3 DEF MInv, UniqueKeys
  <2>. QED BY <2>1, <2>2, <2>3 DEF Advances
<1>3. PICK when \in [People -> 0 .. MaxChanges + 1] : AllInOrder(when)
  BY DEF MInv
<1>4. AllInOrder(when)'
  <2>1. TakenAway(when)'
    BY <1>3 DEF AllInOrder, TakenAway, Held, Advances
  <2>2. \A e \in edges' : InOrder(e, when)'
    BY <1>3
  <2>3. ASSUME NEW g \in Hooks, NEW e \in moved'[g] PROVE InOrder(e, when)'
    <3>1. e \in moved[g] \/ e \in edges
      BY <2>3 DEF Advances
    <3>2. InOrder(e, when)
      BY <1>3, <3>1 DEF AllInOrder
    <3>. QED BY <3>2, AdvanceKeepsOrder
  <2>. QED BY <2>1, <2>2, <2>3 DEF AllInOrder
<1>5. \E w \in [People -> 0 .. MaxChanges + 1] : AllInOrder(w)'
  BY <1>3, <1>4
<1>. QED BY <1>1, <1>2, <1>5 DEF MInv

(* Most steps leave the edges alone.                                       *)
LEMMA AdvanceWithoutEdges ==
  ASSUME MInv, IInv', NEW h \in Hooks, Advances(h), edges' = edges PROVE MInv'
<1>1. UniqueKeys(edges')
  BY DEF MInv
<1>2. EdgesDirectedUnlessMerged'
  BY DEF MInv, EdgesDirectedUnlessMerged, Absorbed, Advances
<1>3. \A when \in [People -> 0 .. MaxChanges + 1] :
        AllInOrder(when) => \A e \in edges' : InOrder(e, when)'
  BY AdvanceKeepsOrder DEF AllInOrder
<1>. QED BY <1>1, <1>2, <1>3, AdvanceKeeps

LEMMA FinishAdvances ==
  ASSUME TypeOK, NEW h \in Hooks, Finish(h), UNCHANGED outerVars PROVE Advances(h) /\ event'[h] = NoEvent
<1>1. /\ pc' = [pc EXCEPT ![h] = "idle"] /\ event' = [event EXCEPT ![h] = NoEvent]
      /\ moved' = [moved EXCEPT ![h] = {}]
  BY FinishTyped
<1>. QED BY <1>1 DEF Advances, TypeOK, outerVars

LEMMA RetryAdvances ==
  ASSUME IInv, NEW h \in Hooks, pc[h] # "idle", Retry(h) PROVE Advances(h) /\ edges' = edges
<1>1. event[h] \in Events
  BY DEF IInv, OnCourse
<1>2. /\ \/ pc' = [pc EXCEPT ![h] = FirstStep(event[h])] /\ event' = event
         \/ pc' = [pc EXCEPT ![h] = "idle"] /\ event' = [event EXCEPT ![h] = NoEvent]
      /\ moved' = [moved EXCEPT ![h] = {}]
  BY <1>1, RetryTyped DEF IInv
<1>3. UNCHANGED <<gone, mergedInto, changes, events>> /\ edges' = edges
  BY DEF Retry, dbVars
<1>. QED BY <1>2, <1>3 DEF Advances, IInv, TypeOK

(* A step that goes on to another place and keeps what it has read, where  *)
(* it has read anything.                                                   *)
LEMMA GoAdvances ==
  ASSUME MInv, NEW h \in Hooks, UNCHANGED <<outerVars, event, moved>>,
         \/ pc' = pc
         \/ \E place \in {"erase", "move"} : Goto(h, place)
         \/ pc[h] \notin {"erase", "move"} /\ \E place \in Steps : Goto(h, place)
  PROVE Advances(h)
<1>1. \A g \in Hooks \ {h} : pc'[g] = pc[g]
  BY DEF Goto, MInv, IInv, TypeOK
<1>2. moved'[h] = {} \/ pc'[h] \in {"erase", "move"}
  BY DEF Goto, MInv, MovedWasRead, IInv, TypeOK
<1>. QED BY <1>1, <1>2 DEF Advances, outerVars

-----------------------------------------------------------------------------
(* The actions that write edges.                                           *)

LEMMA RelationshipsKeep ==
  ASSUME MInv, IInv', NEW h \in Hooks, ProcessRelationships(h) PROVE MInv'
<1>0. /\ Advances(h) /\ edges' = Upserted(Relationships(h))
      /\ event[h].id \in People
  <2>1. Finish(h) /\ UNCHANGED outerVars /\ edges' = Upserted(Relationships(h))
    BY DEF ProcessRelationships
  <2>2. event[h] \in Events
    BY DEF ProcessRelationships, MInv, IInv, OnCourse
  <2>. QED BY <2>1, <2>2, FinishAdvances, EventFields DEF MInv, IInv
<1>1. ASSUME NEW e \in Relationships(h)
      PROVE /\ e = Directed(event[h].id, related[h], "campus") /\ related[h] \in Campuses
            /\ event[h].id \in Records /\ related[h] \in Records
  BY <1>0, <1>1, RecordAssumption DEF Relationships, MInv, IInv, TypeOK, Records
<1>2. UniqueKeys(edges')
  <2>1. UniqueKeys(Relationships(h))
    BY <1>1 DEF UniqueKeys
  <2>. QED BY <1>0, <2>1, UpsertUnique DEF MInv
<1>3. EdgesDirectedUnlessMerged'
  <2>1. \A e \in Relationships(h) : Rank[e.source] <= Rank[e.target]
    BY <1>1, RecordAssumption DEF Directed
  <2>2. Absorbed' = Absorbed
    BY <1>0 DEF Advances, Absorbed
  <2>. QED BY <1>0, <2>1, <2>2, UpsertedEdges DEF MInv, EdgesDirectedUnlessMerged
<1>4. ASSUME NEW when \in [People -> 0 .. MaxChanges + 1], AllInOrder(when), NEW e \in edges'
      PROVE InOrder(e, when)'
  <2>1. CASE e \in edges
    BY <1>0, <1>4, <2>1, AdvanceKeepsOrder DEF AllInOrder
  <2>2. CASE e \in Relationships(h)
    BY <1>0, <1>1, <2>2 DEF InOrder, Directed
  <2>. QED BY <1>0, <2>1, <2>2, UpsertedEdges
<1>. QED BY <1>0, <1>2, <1>3, <1>4, AdvanceKeeps

LEMMA EraseKeepsOrder ==
  ASSUME MInv, IInv', NEW h \in Hooks, DeleteEntityId(h) PROVE MInv'
<1>1. Advances(h)
  <2>1. UNCHANGED outerVars /\ pc[h] = "erase"
    BY DEF DeleteEntityId
  <2>2. \/ Finish(h)
        \/ UNCHANGED <<event, moved>> /\ (pc' = pc \/ Goto(h, "move"))
    BY DEF DeleteEntityId
  <2>. QED BY <2>1, <2>2, FinishAdvances, GoAdvances DEF MInv, IInv
<1>2. CASE UNCHANGED edges
  BY <1>1, <1>2, AdvanceWithoutEdges
<1>3. CASE EraseEdges(event[h].id)
  <2>1. edges \subseteq EdgeRows
    BY DEF MInv, IInv, TypeOK
  <2>2. UniqueKeys(edges')
    BY <1>3, <2>1, EraseUnique DEF MInv
  <2>3. \A d \in edges' : \E e \in edges : d.source = e.source /\ d.target = e.target /\ d.type = e.type
    BY <1>3, <2>1, MarkedEdge DEF EraseEdges
  <2>4. EdgesDirectedUnlessMerged'
    BY <1>1, <2>3 DEF MInv, EdgesDirectedUnlessMerged, Absorbed, Advances
  <2>5. ASSUME NEW when \in [People -> 0 .. MaxChanges + 1], AllInOrder(when), NEW d \in edges'
        PROVE InOrder(d, when)'
    <3>1. PICK e \in edges : d.source = e.source /\ d.target = e.target /\ d.type = e.type
      BY <2>3
    <3>2. InOrder(e, when)'
      BY <1>1, <2>5, AdvanceKeepsOrder DEF AllInOrder
    <3>. QED BY <3>1, <3>2 DEF InOrder
  <2>. QED BY <1>1, <2>2, <2>4, <2>5, AdvanceKeeps
<1>. QED BY <1>2, <1>3 DEF DeleteEntityId

LEMMA MoveKeepsOrder == ASSUME MInv, IInv', NEW h \in Hooks, MoveEdges(h) PROVE MInv'
<1>. DEFINE k == event[h].keep
            r == event[h].id
<1>1. event[h].op = "merge" /\ pc[h] # "idle" /\ edges' = Upserted(NewEdges(h))
  BY DEF MoveEdges, MInv, IInv, OnCourse
<1>2. Advances(h) /\ event'[h] = NoEvent
  BY FinishAdvances DEF MoveEdges, MInv, IInv
<1>3. /\ r \in People /\ k \in People /\ r \in gone /\ mergedInto[r] = k
  <2>1. PICK when \in [People -> 0 .. MaxChanges + 1] : AllInOrder(when)
    BY DEF MInv
  <2>. QED BY <1>1, <2>1, RemovedPerson
<1>4. r \in Records /\ k \in Records /\ moved[h] \subseteq EdgeRows
  BY <1>3 DEF Records, MInv, IInv, TypeOK
<1>5. UniqueKeys(edges')
  <2>1. ASSUME NEW d \in NewEdges(h), NEW e \in NewEdges(h), SameKey(d, e) PROVE d = e
    <3>1. SameKey(e, d)
      BY <2>1 DEF SameKey
    <3>. QED BY <1>1, <2>1, <3>1, NoRowTwice DEF NewEdges
  <2>. QED BY <1>1, <2>1, UpsertUnique DEF UniqueKeys, MInv
<1>6. EdgesDirectedUnlessMerged'
  <2>1. k \in Absorbed
    BY <1>3 DEF Absorbed
  <2>2. ASSUME NEW e \in NewEdges(h)
        PROVE Rank[e.source] <= Rank[e.target] \/ {e.source, e.target} \cap Absorbed # {}
    <3>1. CASE e = Directed(k, r, "merged")
      BY <1>4, <3>1, RecordAssumption DEF Directed
    <3>2. ASSUME NEW d \in moved[h], e = MovedEdge(d, k, r) PROVE e.source = k \/ e.target = k
      BY <1>4, <3>2, MovedEdgeEnds
    <3>. QED BY <2>1, <3>1, <3>2 DEF NewEdges
  <2>3. Absorbed' = Absorbed
    BY <1>2 DEF Advances, Absorbed
  <2>. QED BY <1>1, <2>2, <2>3, UpsertedEdges DEF MInv, EdgesDirectedUnlessMerged
<1>7. ASSUME NEW when \in [People -> 0 .. MaxChanges + 1], AllInOrder(when), NEW e \in edges'
      PROVE InOrder(e, when)'
  <2>0. when[r] < when[k] /\ \A p \in People : when[p] \in Nat
    BY <1>1, <1>7, RemovedPerson, HookAssumption
  <2>a. PICK s \in People, t \in People : s = r /\ t = k
    BY <1>3
  <2>1. CASE e \in edges
    BY <1>2, <1>7, <2>1, AdvanceKeepsOrder DEF AllInOrder
  <2>2. CASE e = Directed(k, r, "merged")
    <3>1. ~ UnderWay(s)'
      BY <1>1, <1>2, <2>a DEF UnderWay, Advances, NoEvent, MInv, MergedOnce
    <3>2. MergedInOrder(s, t, when)'
      BY <1>2, <1>3, <2>0, <2>a, <3>1 DEF MergedInOrder, Advances
    <3>3. /\ e.type = "merged"
          /\ (e.source = s /\ e.target = t) \/ (e.source = t /\ e.target = s)
      BY <2>2, <2>a DEF Directed
    <3>. QED BY <3>2, <3>3 DEF InOrder
  <2>3. ASSUME NEW d \in moved[h], e = MovedEdge(d, k, r) PROVE InOrder(e, when)'
    <3>1. PICK x \in Records :
            /\ x # r /\ x # k
            /\ Joins(d, r, x)
            /\ \/ d.type = "campus" /\ x \in Campuses
               \/ d.type = "merged" /\ x \in gone /\ ~ UnderWay(x) /\ when[x] < when[r]
      BY <1>7, MovedShape
    <3>2. e.type = d.type /\ Joins(e, k, x)
      BY <1>4, <2>3, <3>1, MovedEdgeEnds DEF Joins
    <3>3. CASE d.type = "campus" /\ x \in Campuses
      BY <1>3, <3>2, <3>3 DEF InOrder, Joins
    <3>4. CASE d.type = "merged" /\ x \in gone /\ ~ UnderWay(x) /\ when[x] < when[r]
      <4>1. x \in People
        BY <3>4 DEF MInv, IInv, TypeOK
      <4>2. when[x] < when[k]
        BY <1>3, <2>0, <3>4, <4>1
      <4>3. ~ UnderWay(x)'
        BY <1>2, <3>4 DEF UnderWay, Advances, NoEvent
      <4>4. MergedInOrder(x, t, when)'
        BY <1>2, <1>3, <2>a, <3>4, <4>2, <4>3 DEF MergedInOrder, Advances
      <4>. QED BY <2>a, <3>2, <3>4, <4>4 DEF InOrder, Joins
    <3>. QED BY <3>1, <3>3, <3>4
  <2>. QED BY <1>1, <2>1, <2>2, <2>3, UpsertedEdges DEF NewEdges
<1>. QED BY <1>2, <1>5, <1>6, <1>7, AdvanceKeeps

-----------------------------------------------------------------------------
(* PCO takes people away.                                                  *)

LEMMA MergingEvent ==
  ASSUME TypeOK, NEW h \in Hooks, event[h].op = "merge" PROVE event[h] \in Events
BY DEF TypeOK, NoEvent

(* A change leaves merges under way alone: those it takes away were held.  *)
TakesAway(p, e) ==
  /\ p \in Held /\ gone' = gone \cup {p}
  /\ \/ e.op # "merge" /\ mergedInto' = mergedInto
     \/ /\ e.op = "merge" /\ e.id = p /\ e.keep \in Held /\ e.keep # p
        /\ mergedInto' = [mergedInto EXCEPT ![p] = e.keep]

LEMMA TakesAwayKeepsOrder ==
  ASSUME MInv, IInv', NEW p \in People, NEW e \in Events, PcoChange(e), TakesAway(p, e)
  PROVE MInv'
<1>1. /\ changes < MaxChanges /\ changes' = changes + 1 /\ events' = events \cup {e}
      /\ UNCHANGED <<edges, pc, event, moved>>
  BY DEF PcoChange, dbVars, localVars
<1>2. p \notin gone /\ gone' = gone \cup {p} /\ mergedInto[p] = NoRecord
  BY DEF TakesAway, Held, MInv, MergedOnce
<1>3. /\ changes \in Nat /\ changes' \in Nat /\ MaxChanges \in Nat
      /\ mergedInto \in [People -> People \cup {NoRecord}] /\ NoRecord \notin Records
      /\ gone \subseteq People /\ events \subseteq Events /\ edges \subseteq EdgeRows
  BY HookAssumption, RecordAssumption DEF MInv, IInv, TypeOK
<1>4. \A q \in People \ {p} : mergedInto'[q] = mergedInto[q]
  BY <1>3 DEF TakesAway
<1>5. mergedInto'[p] # NoRecord => e.op = "merge" /\ e.id = p /\ e.keep \in Held
                                   /\ e.keep # p /\ mergedInto'[p] = e.keep
  BY <1>2, <1>3 DEF TakesAway
<1>6. ASSUME NEW d, d \in events \/ \E h \in Hooks : d = event[h], d.op = "merge"
      PROVE d.id \in People /\ d.id # p /\ mergedInto[d.id] = d.keep
  <2>1. d \in Events /\ mergedInto[d.id] = d.keep
    BY <1>3, <1>6, MergingEvent DEF MInv, IInv, MergedOnce
  <2>2. d.id \in People /\ d.keep \in People
    BY <1>6, <2>1, EventFields
  <2>. QED BY <1>2, <1>3, <2>1, <2>2 DEF Records
<1>7. MergedOnce'
  <2>1. changes' <= MaxChanges
    BY <1>1, <1>3
  <2>2. \A q \in People : mergedInto'[q] # NoRecord => q \in gone'
    BY <1>2, <1>4 DEF MInv, MergedOnce
  <2>3. e.op = "merge" => e.id = p /\ mergedInto'[e.id] = e.keep
    BY <1>3 DEF TakesAway
  <2>4. \A d \in events' : d.op = "merge" => mergedInto'[d.id] = d.keep
    BY <1>1, <1>4, <1>6, <2>3
  <2>5. ASSUME NEW h \in Hooks, event'[h].op = "merge"
        PROVE /\ mergedInto'[event'[h].id] = event'[h].keep
              /\ \A d \in events' : d.op = "merge" => d.id # event'[h].id
              /\ \A g \in Hooks \ {h} : event'[g].op = "merge" => event'[g].id # event'[h].id
    <3>1. event'[h] = event[h] /\ event[h].id \in People /\ event[h].id # p
          /\ mergedInto[event[h].id] = event[h].keep
      BY <1>1, <1>6, <2>5
    <3>. QED BY <1>1, <1>4, <2>3, <2>5, <3>1 DEF MInv, MergedOnce
  <2>. QED BY <2>1, <2>2, <2>4, <2>5 DEF MergedOnce
<1>8. MovedWasRead' /\ UniqueKeys(edges')
  BY <1>1 DEF MInv, MovedWasRead, UniqueKeys, Touches, SameKey
<1>9. PICK when \in [People -> 0 .. MaxChanges + 1] : AllInOrder(when)
  BY DEF MInv
<1>10. PICK now : now = changes + 1
  OBVIOUS
<1>. DEFINE later == [when EXCEPT ![p] = now]
<1>11. /\ later \in [People -> 0 .. MaxChanges + 1]
       /\ later[p] = now /\ \A q \in People \ {p} : later[q] = when[q]
  BY <1>1, <1>3, <1>10
<1>12. \A q \in People : when[q] \in Nat /\ later[q] \in Nat
  BY <1>3, <1>11
<1>13. AllInOrder(later)'
  <2>1. TakenAway(later)'
    <3>1. \A q \in Held' : later[q] = MaxChanges + 1
      BY <1>2, <1>9, <1>11 DEF AllInOrder, TakenAway, Held
    <3>2. \A q \in gone' : later[q] <= changes'
      BY <1>1, <1>2, <1>3, <1>9, <1>10, <1>11, <1>12 DEF AllInOrder, TakenAway
    <3>3. ASSUME NEW q \in People, mergedInto'[q] # NoRecord PROVE later[q] < later[mergedInto'[q]]
      <4>1. CASE q = p
        <5>1. mergedInto'[p] = e.keep /\ e.keep \in People /\ e.keep # p /\ e.keep \in Held
          BY <1>5, <3>3, <4>1 DEF Held
        <5>2. later[e.keep] = MaxChanges + 1
          BY <1>9, <1>11, <5>1 DEF AllInOrder, TakenAway
        <5>. QED BY <1>1, <1>3, <1>10, <1>11, <4>1, <5>1, <5>2
      <4>2. CASE q # p
        <5>1. mergedInto'[q] = mergedInto[q] /\ mergedInto[q] \in People /\ q \in gone
          BY <1>3, <1>4, <3>3, <4>2 DEF MInv, MergedOnce
        <5>2. when[q] < when[mergedInto[q]] /\ when[q] <= changes
          BY <1>4, <1>9, <3>3, <4>2, <5>1 DEF AllInOrder, TakenAway
        <5>. QED BY <1>3, <1>10, <1>11, <1>12, <4>2, <5>1, <5>2
      <4>. QED BY <4>1, <4>2
    <3>. QED BY <3>1, <3>2, <3>3 DEF TakenAway
  <2>2. ASSUME NEW x, NEW y, MergedInOrder(x, y, when) PROVE MergedInOrder(x, y, later)'
    <3>1. /\ x \in gone /\ x \in People /\ y \in People /\ x # p
          /\ when[x] < when[y] /\ when[x] <= changes /\ ~ UnderWay(x)
      BY <1>2, <1>3, <1>9, <2>2 DEF MergedInOrder, AllInOrder, TakenAway
    <3>2. later[x] < later[y]
      BY <1>3, <1>10, <1>11, <1>12, <3>1
    <3>3. ~ UnderWay(x)'
      BY <1>1, <3>1 DEF UnderWay, TakesAway
    <3>. QED BY <1>2, <3>1, <3>2, <3>3 DEF MergedInOrder
  <2>3. ASSUME NEW d, InOrder(d, when) PROVE InOrder(d, later)'
    BY <2>2, <2>3 DEF InOrder
  <2>. QED BY <1>1, <1>9, <2>1, <2>3 DEF AllInOrder
<1>14. EdgesDirectedUnlessMerged'
  <2>1. ASSUME NEW d \in edges, {d.source, d.target} \cap Absorbed # {}
        PROVE {d.source, d.target} \cap Absorbed' # {}
    <3>1. d.source \in Records /\ d.target \in Records
      BY <1>3 DEF EdgeRows
    <3>2. PICK q \in People : mergedInto[q] \in {d.source, d.target}
      BY <2>1 DEF Absorbed
    <3>3. mergedInto'[q] = mergedInto[q]
      BY <1>2, <1>3, <1>4, <3>1, <3>2
    <3>. QED BY <3>2, <3>3 DEF Absorbed
  <2>. QED BY <1>1, <2>1 DEF MInv, EdgesDirectedUnlessMerged
<1>15. \E w \in [People -> 0 .. MaxChanges + 1] : AllInOrder(w)'
  BY <1>11, <1>13
<1>. QED BY <1>7, <1>8, <1>14, <1>15 DEF MInv

(* A change that takes nobody away adds an event that merges nobody.       *)
LEMMA SetCampusKeepsOrder ==
  ASSUME MInv, IInv', NEW p \in People, NEW c \in Campuses, SetCampus(p, c) PROVE MInv'
<1>. DEFINE e == [op |-> "upsert", id |-> p, campus |-> c]
<1>1. /\ changes < MaxChanges /\ changes' = changes + 1 /\ events' = events \cup {e}
      /\ UNCHANGED <<gone, mergedInto, edges, pc, event, moved>>
  BY DEF SetCampus, PcoChange, dbVars, localVars
<1>2. changes \in Nat /\ MaxChanges \in Nat
  BY HookAssumption DEF MInv, IInv, TypeOK
<1>3. MergedOnce'
  BY <1>1, <1>2 DEF MInv, MergedOnce
<1>4. MovedWasRead' /\ UniqueKeys(edges') /\ EdgesDirectedUnlessMerged'
  BY <1>1 DEF MInv, MovedWasRead, UniqueKeys, Touches, SameKey, EdgesDirectedUnlessMerged, Absorbed
<1>5. PICK when \in [People -> 0 .. MaxChanges + 1] : AllInOrder(when)
  BY DEF MInv
<1>6. AllInOrder(when)'
  <2>1. TakenAway(when)'
    <3>1. \A q \in gone : when[q] <= changes /\ when[q] \in Nat
      BY <1>2, <1>5 DEF AllInOrder, TakenAway, MInv, IInv, TypeOK
    <3>2. \A q \in gone : when[q] <= changes + 1
      BY <1>2, <3>1
    <3>. QED BY <1>1, <1>5, <3>2 DEF AllInOrder, TakenAway, Held
  <2>2. \A q : UnderWay(q)' => UnderWay(q)
    BY <1>1 DEF UnderWay
  <2>. QED BY <1>1, <1>5, <2>1, <2>2 DEF AllInOrder, InOrder, MergedInOrder
<1>7. \E w \in [People -> 0 .. MaxChanges + 1] : AllInOrder(w)'
  BY <1>5, <1>6
<1>. QED BY <1>3, <1>4, <1>7 DEF MInv

LEMMA OtherClientKeepsOrder == ASSUME MInv, IInv', OtherClient PROVE MInv'
<1>1. ASSUME NEW p \in People, Destroy(p) PROVE MInv'
  <2>1. [op |-> "delete", id |-> p] \in Events
    BY DEF Events
  <2>2. TakesAway(p, [op |-> "delete", id |-> p]) /\ PcoChange([op |-> "delete", id |-> p])
    BY <1>1 DEF Destroy, TakesAway
  <2>. QED BY <2>1, <2>2, TakesAwayKeepsOrder
<1>2. ASSUME NEW k \in People, NEW r \in People, Merge(k, r) PROVE MInv'
  <2>1. [op |-> "merge", id |-> r, keep |-> k] \in Events
    BY DEF Events
  <2>2. /\ TakesAway(r, [op |-> "merge", id |-> r, keep |-> k])
        /\ PcoChange([op |-> "merge", id |-> r, keep |-> k])
    BY <1>2 DEF Merge, TakesAway
  <2>. QED BY <2>1, <2>2, TakesAwayKeepsOrder
<1>. QED BY <1>1, <1>2, SetCampusKeepsOrder DEF OtherClient

-----------------------------------------------------------------------------
(* The delivery of an event.                                               *)

LEMMA DeliverKeepsOrder ==
  ASSUME MInv, IInv', NEW h \in Hooks, NEW e \in events, Deliver(h, e) PROVE MInv'
<1>1. /\ pc[h] = "idle" /\ event' = [event EXCEPT ![h] = e] /\ events' = events \ {e}
      /\ UNCHANGED <<gone, mergedInto, changes, edges, moved>>
      /\ \A g \in Hooks \ {h} : pc'[g] = pc[g]
  BY DEF Deliver, Goto, dbVars, MInv, IInv, TypeOK
<1>2. event'[h] = e /\ \A g \in Hooks \ {h} : event'[g] = event[g]
  BY <1>1 DEF MInv, IInv, TypeOK
<1>3. moved[h] = {}
  BY <1>1 DEF MInv, MovedWasRead
<1>4. ASSUME NEW d \in events, d.op = "merge", e.op = "merge", d.id = e.id PROVE d = e
  <2>1. d.keep = e.keep
    BY <1>4 DEF MInv, MergedOnce
  <2>2. d \in [op : {"merge"}, id : People, keep : People]
        /\ e \in [op : {"merge"}, id : People, keep : People]
    BY <1>4 DEF MInv, IInv, TypeOK, Events
  <2>. QED BY <1>4, <2>1, <2>2
<1>5. MergedOnce'
  <2>1. ASSUME NEW g \in Hooks, event'[g].op = "merge"
        PROVE /\ mergedInto[event'[g].id] = event'[g].keep
              /\ \A d \in events' : d.op = "merge" => d.id # event'[g].id
              /\ \A f \in Hooks \ {g} : event'[f].op = "merge" => event'[f].id # event'[g].id
    <3>1. CASE g = h
      BY <1>1, <1>2, <1>4, <2>1, <3>1 DEF MInv, MergedOnce
    <3>2. CASE g # h
      BY <1>1, <1>2, <2>1, <3>2 DEF MInv, MergedOnce
    <3>. QED BY <3>1, <3>2
  <2>. QED BY <1>1, <2>1 DEF MInv, MergedOnce
<1>6. MovedWasRead'
  <2>1. ASSUME NEW g \in Hooks, moved'[g] # {}
        PROVE g # h /\ moved'[g] = moved[g] /\ pc'[g] = pc[g] /\ event'[g] = event[g]
    BY <1>1, <1>2, <1>3, <2>1
  <2>. QED BY <2>1 DEF MInv, MovedWasRead, UniqueKeys, Touches, SameKey
<1>7. UniqueKeys(edges') /\ EdgesDirectedUnlessMerged'
  BY <1>1 DEF MInv, EdgesDirectedUnlessMerged, Absorbed
<1>8. PICK when \in [People -> 0 .. MaxChanges + 1] : AllInOrder(when)
  BY DEF MInv
<1>9. AllInOrder(when)'
  <2>1. TakenAway(when)'
    BY <1>1, <1>8 DEF AllInOrder, TakenAway, Held
  <2>2. \A q : UnderWay(q)' => UnderWay(q)
    BY <1>1, <1>2 DEF UnderWay
  <2>. QED BY <1>1, <1>8, <2>1, <2>2 DEF AllInOrder, InOrder, MergedInOrder
<1>10. \E w \in [People -> 0 .. MaxChanges + 1] : AllInOrder(w)'
  BY <1>8, <1>9
<1>. QED BY <1>5, <1>6, <1>7, <1>10 DEF MInv

-----------------------------------------------------------------------------
(* The steps that leave the edges alone.                                   *)

LEMMA QuietStepsKeepOrder ==
  ASSUME MInv, IInv', NEW h \in Hooks,
         \/ FetchRecord(h) \/ ProcessExternalLinks(h) \/ ProcessReferenceExternalLinks(h)
         \/ DeleteEntity(h) \/ MergeLinks(h) \/ Fail(h)
  PROVE MInv'
<1>1. ASSUME FetchRecord(h) \/ ProcessExternalLinks(h) \/ ProcessReferenceExternalLinks(h)
      PROVE Advances(h) /\ edges' = edges
  <2>1. /\ pc[h] \notin {"erase", "move"} /\ \E place \in Steps : Goto(h, place)
        /\ UNCHANGED <<outerVars, event, moved, edges>>
    BY <1>1 DEF FetchRecord, ProcessExternalLinks, ProcessReferenceExternalLinks, Steps,
                dbVars, localVars
  <2>. QED BY <2>1, GoAdvances
<1>2. ASSUME DeleteEntity(h) \/ MergeLinks(h) PROVE Advances(h) /\ edges' = edges
  <2>1. /\ pc[h] \notin {"erase", "move"} /\ UNCHANGED <<outerVars, edges>>
        /\ \/ Finish(h)
           \/ UNCHANGED <<event, moved>> /\ \E place \in Steps : Goto(h, place)
    BY <1>2 DEF DeleteEntity, MergeLinks, Steps, dbVars
  <2>. QED BY <2>1, GoAdvances, FinishAdvances DEF MInv, IInv
<1>3. ASSUME Fail(h) PROVE Advances(h) /\ edges' = edges
  BY <1>3, RetryAdvances DEF Fail, MInv
<1>. QED BY <1>1, <1>2, <1>3, AdvanceWithoutEdges

LEMMA ReadEdgesKeepsOrder == ASSUME MInv, IInv', NEW h \in Hooks, ReadEdges(h) PROVE MInv'
<1>1. event[h].op = "merge"
  BY DEF ReadEdges, MInv, IInv, OnCourse
<1>2. Advances(h) /\ edges' = edges
  BY <1>1 DEF ReadEdges, Advances, Goto, outerVars, dbVars, MInv, IInv, TypeOK
<1>. QED BY <1>2, AdvanceWithoutEdges

-----------------------------------------------------------------------------
LEMMA InitKeepsOrder == Init => MInv
<1>. SUFFICES ASSUME Init PROVE MInv
  OBVIOUS
<1>1. /\ edges = {} /\ events = {} /\ gone = {} /\ changes = 0
      /\ \A h \in Hooks : moved[h] = {} /\ event[h].op = "delete"
      /\ \A p \in People : mergedInto[p] = NoRecord
  BY DEF Init, NoEvent
<1>2. MergedOnce /\ MovedWasRead /\ UniqueKeys(edges) /\ EdgesDirectedUnlessMerged
  BY <1>1, HookAssumption DEF MergedOnce, MovedWasRead, UniqueKeys, EdgesDirectedUnlessMerged
<1>3. PICK when : when = [p \in People |-> MaxChanges + 1]
  OBVIOUS
<1>4. when \in [People -> 0 .. MaxChanges + 1] /\ AllInOrder(when)
  BY <1>1, <1>3, HookAssumption DEF AllInOrder, TakenAway, Held
<1>. QED BY <1>2, <1>4, InitKeeps DEF MInv

LEMMA NextKeepsOrder == MInv /\ [Next]_vars => MInv'
<1>. SUFFICES ASSUME MInv, [Next]_vars PROVE MInv'
  OBVIOUS
<1>1. IInv'
  BY NextKeeps DEF MInv
<1>2. CASE OtherClient
  BY <1>1, <1>2, OtherClientKeepsOrder
<1>3. ASSUME NEW h \in Hooks, NEW e \in events, Deliver(h, e) PROVE MInv'
  BY <1>1, <1>3, DeliverKeepsOrder
<1>4. ASSUME NEW h \in Hooks, Step(h) \/ Fail(h) PROVE MInv'
  BY <1>1, <1>4, QuietStepsKeepOrder, RelationshipsKeep, EraseKeepsOrder,
     ReadEdgesKeepsOrder, MoveKeepsOrder DEF Step
<1>5. CASE UNCHANGED vars
  <2>1. UNCHANGED <<gone, mergedInto, changes, events, edges, pc, event, moved>>
    BY <1>5 DEF vars, outerVars, dbVars, localVars
  <2>2. MergedOnce' /\ MovedWasRead' /\ UniqueKeys(edges') /\ EdgesDirectedUnlessMerged'
    BY <2>1 DEF MInv, MergedOnce, MovedWasRead, UniqueKeys, Touches, SameKey,
                EdgesDirectedUnlessMerged, Absorbed
  <2>3. PICK when \in [People -> 0 .. MaxChanges + 1] : AllInOrder(when)
    BY DEF MInv
  <2>4. AllInOrder(when)'
    BY <2>1, <2>3 DEF AllInOrder, TakenAway, Held, InOrder, MergedInOrder, UnderWay
  <2>5. \E w \in [People -> 0 .. MaxChanges + 1] : AllInOrder(w)'
    BY <2>3, <2>4
  <2>. QED BY <1>1, <2>2, <2>5 DEF MInv
<1>. QED BY <1>2, <1>3, <1>4, <1>5 DEF Next

(* mergeEntity inserts the edges of the removed entity, one end replaced,  *)
(* in a single INSERT ... ON CONFLICT DO UPDATE.  Two rows of it never have *)
(* the same key, whatever merges, deletions and upserts ran before or run  *)
(* beside it: PostgreSQL never refuses the statement.                      *)
THEOREM MergesHitNoRowTwice == Spec => []MergeHitsNoRowTwice
<1>1. MInv => MergeHitsNoRowTwice
  <2>1. ASSUME MInv, NEW h \in Hooks, pc[h] = "move" PROVE event[h].op = "merge"
    BY <2>1 DEF MInv, IInv, OnCourse
  <2>. QED BY <2>1, NoRowTwice DEF MergeHitsNoRowTwice
<1>. QED BY <1>1, InitKeepsOrder, NextKeepsOrder, PTL DEF Spec

(* Only a merge stores an edge against the direction of EdgeDirectionSchema,*)
(* and only one of a person another was merged into.                       *)
THEOREM OnlyMergesBreakDirection == Spec => []EdgesDirectedUnlessMerged
<1>1. MInv => EdgesDirectedUnlessMerged
  BY DEF MInv
<1>. QED BY <1>1, InitKeepsOrder, NextKeepsOrder, PTL DEF Spec

-----------------------------------------------------------------------------
(* The campus of a person that PCO holds and nobody was merged into.       *)
Kept(p) == p \in Held /\ p \notin Absorbed

(* A person who is deleted, or removed by a merge, is gone from PCO.       *)
Removing(h) == pc[h] \in {"lookup", "mergeLinks", "mergeEdges", "erase", "move"}
RemovesOnlyGone ==
  /\ \A e \in events : e.op # "upsert" => e.id \in gone
  /\ \A h \in Hooks : Removing(h) => event[h].op # "upsert" /\ event[h].id \in gone

(* So the campus edges of a person who is kept have never been deleted ... *)
LiveFor(e, p) == e.type = "campus" /\ Kept(p) /\ Touches(e, p) => ~ e.deleted
KeptEdgesLive == \A e \in edges : \A p \in People : LiveFor(e, p)

(* ... and the edge to the current campus is there or on its way: in an    *)
(* event to be delivered, in an activity that has read the campus since it *)
(* changed or has yet to read it; or a workflow has failed.                *)
Brings(h, p) ==
  /\ pc[h] \in {"get", "links", "refs", "edges"} /\ event[h].id = p
  /\ pc[h] # "get" => related[h] = campus[p]
  /\ pc[h] = "edges" => campus[p] \in linked
OnItsWay(p) ==
  \/ \E e \in events : e.op = "upsert" /\ e.id = p
  \/ \E h \in Hooks : Brings(h, p)
  \/ failed # {}
HasCampus(p) == HasEdge(p, campus[p], "campus")
CampusBrought ==
  \A p \in People : Kept(p) /\ campus[p] # NoRecord => HasCampus(p) \/ OnItsWay(p)

CInv == MInv /\ RemovesOnlyGone /\ KeptEdgesLive /\ CampusBrought

(* What a step of h leaves to the others, and what it does to the edges of *)
(* those who are kept.                                                     *)
Alone(h) ==
  /\ UNCHANGED <<campus, gone, mergedInto, events>>
  /\ failed \subseteq failed' /\ linked \subseteq linked'
  /\ \A g \in Hooks \ {h} : pc'[g] = pc[g] /\ event'[g] = event[g] /\ related'[g] = related[g]
EdgesStay ==
  \A p \in People : Kept(p) =>
    /\ \A e \in edges' : LiveFor(e, p)
    /\ \A c \in Campuses : HasEdge(p, c, "campus") => HasEdge(p, c, "campus")'

LEMMA StepBringsCampus ==
  ASSUME CInv, MInv', NEW h \in Hooks, Alone(h), EdgesStay,
         Removing(h)' => event'[h].op # "upsert" /\ event'[h].id \in gone,
         \A p \in People : Kept(p) /\ campus[p] # NoRecord /\ Brings(h, p) =>
           Brings(h, p)' \/ HasCampus(p)' \/ failed' # {}
  PROVE CInv'
<1>1. \A p : Kept(p)' <=> Kept(p)
  BY DEF Alone, Kept, Held, Absorbed
<1>2. RemovesOnlyGone'
  BY DEF CInv, RemovesOnlyGone, Alone, Removing
<1>3. KeptEdgesLive'
  BY <1>1 DEF EdgesStay, KeptEdgesLive, LiveFor, Touches
<1>4. ASSUME NEW p \in People, Kept(p)', campus'[p] # NoRecord
      PROVE HasCampus(p)' \/ OnItsWay(p)'
  <2>1. Kept(p) /\ campus'[p] = campus[p] /\ campus[p] \in Campuses
    BY <1>1, <1>4 DEF Alone, CInv, MInv, IInv, TypeOK
  <2>2. PICK c \in Campuses : c = campus[p]
    BY <2>1
  <2>3. CASE HasEdge(p, c, "campus")
    <3>1. HasEdge(p, c, "campus")'
      BY <2>1, <2>3 DEF EdgesStay, HasEdge
    <3>. QED BY <2>1, <2>2, <3>1 DEF HasCampus
  <2>4. CASE OnItsWay(p)
    <3>1. ASSUME NEW g \in Hooks, g # h, Brings(g, p) PROVE Brings(g, p)'
      BY <3>1 DEF Brings, Alone
    <3>2. CASE Brings(h, p)
      BY <1>4, <2>1, <3>2 DEF OnItsWay
    <3>3. CASE \E e \in events : e.op = "upsert" /\ e.id = p
      BY <3>3 DEF OnItsWay, Alone
    <3>4. CASE failed # {}
      BY <3>4 DEF OnItsWay, Alone
    <3>. QED BY <2>4, <3>1, <3>2, <3>3, <3>4 DEF OnItsWay
  <2>. QED BY <1>4, <2>1, <2>2, <2>3, <2>4 DEF CInv, CampusBrought, HasCampus
<1>5. CampusBrought'
  BY <1>4 DEF CampusBrought
<1>. QED BY <1>2, <1>3, <1>5 DEF CInv

(* Most steps leave the edges alone. *)
LEMMA EdgesUntouched == ASSUME CInv, edges' = edges PROVE EdgesStay
BY DEF EdgesStay, CInv, KeptEdgesLive, HasEdge, SameKey, Directed

LEMMA UpsertStays ==
  ASSUME CInv, NEW new, edges' = Upserted(new),
         \A e \in new : \A p \in People : LiveFor(e, p)
  PROVE EdgesStay
<1>1. edges \subseteq edges' /\ edges' \subseteq edges \cup new
  BY UpsertedEdges
<1>2. \A p \in People : Kept(p) => \A e \in edges' : LiveFor(e, p)
  BY <1>1 DEF CInv, KeptEdgesLive
<1>3. \A p \in People, c \in Campuses : HasEdge(p, c, "campus") => HasEdge(p, c, "campus")'
  BY <1>1 DEF HasEdge, SameKey, Directed
<1>. QED BY <1>2, <1>3 DEF EdgesStay

(* A campus edge of one person is no other person's. *)
LEMMA OnePerson ==
  ASSUME MInv, NEW e \in edges, e.type = "campus", NEW p \in People, NEW r \in People,
         Touches(e, p), Touches(e, r)
  PROVE p = r
<1>1. PICK when \in [People -> 0 .. MaxChanges + 1] : AllInOrder(when)
  BY DEF MInv
<1>2. InOrder(e, when)
  BY <1>1 DEF AllInOrder
<1>. QED BY <1>2, RecordAssumption DEF InOrder, Touches

LEMMA EraseStays ==
  ASSUME CInv, NEW r \in gone, EraseEdges(r) PROVE EdgesStay
<1>. DEFINE Marked(d) == IF Touches(d, r) THEN [d EXCEPT !.deleted = TRUE] ELSE d
<1>0. r \in People /\ edges \subseteq EdgeRows /\ edges' = {Marked(d) : d \in edges}
  BY DEF CInv, MInv, IInv, TypeOK, EraseEdges
<1>1. ASSUME NEW p \in People, Kept(p), NEW d \in edges, d.type = "campus", Touches(d, p)
      PROVE Marked(d) = d
  <2>1. p # r
    BY <1>1 DEF Kept, Held
  <2>2. ~ Touches(d, r)
    BY <1>0, <1>1, <2>1, OnePerson DEF CInv
  <2>. QED BY <2>2
<1>2. ASSUME NEW p \in People, Kept(p), NEW e \in edges' PROVE LiveFor(e, p)
  <2>1. PICK d \in edges : e = Marked(d)
    BY <1>0
  <2>2. e.source = d.source /\ e.target = d.target /\ e.type = d.type
    BY <1>0, <2>1, MarkedEdge
  <2>3. e.type = "campus" /\ Touches(e, p) => e = d
    BY <1>1, <1>2, <2>1, <2>2 DEF Touches
  <2>. QED BY <2>3 DEF LiveFor, CInv, KeptEdgesLive
<1>3. ASSUME NEW p \in People, Kept(p), NEW c \in Campuses, HasEdge(p, c, "campus")
      PROVE HasEdge(p, c, "campus")'
  <2>1. PICK d \in edges : SameKey(d, Directed(p, c, "campus")) /\ ~ d.deleted
    BY <1>3 DEF HasEdge
  <2>2. d.type = "campus" /\ Touches(d, p)
    BY <2>1 DEF SameKey, Directed, Touches
  <2>3. d \in edges'
    BY <1>0, <1>1, <1>3, <2>2
  <2>. QED BY <2>1, <2>3 DEF HasEdge, SameKey, Directed
<1>. QED BY <1>2, <1>3 DEF EdgesStay

-----------------------------------------------------------------------------
(* The steps of an activity.                                               *)

LEMMA FinishAlone ==
  ASSUME CInv, NEW h \in Hooks, Finish(h), UNCHANGED outerVars, linked \subseteq linked'
  PROVE Alone(h) /\ ~ Removing(h)'
<1>1. /\ pc' = [pc EXCEPT ![h] = "idle"] /\ event' = [event EXCEPT ![h] = NoEvent]
      /\ related' = [related EXCEPT ![h] = NoRecord]
  BY DEF Finish, Forget, Goto
<1>. QED BY <1>1 DEF Alone, Removing, outerVars, CInv, MInv, IInv, TypeOK

(* A step to another place. *)
LEMMA GoAlone ==
  ASSUME CInv, NEW h \in Hooks, NEW place \in Steps, Goto(h, place),
         UNCHANGED <<outerVars, event>>, linked \subseteq linked',
         related' = [related EXCEPT ![h] = related'[h]]
  PROVE Alone(h) /\ pc'[h] = place /\ event'[h] = event[h]
BY DEF Alone, Goto, outerVars, CInv, MInv, IInv, TypeOK

LEMMA FetchBringsCampus == ASSUME CInv, MInv', NEW h \in Hooks, FetchRecord(h) PROVE CInv'
<1>. DEFINE p == event[h].id
            found == IF p \in Held THEN campus[p] ELSE event[h].campus
<1>1. /\ pc[h] = "get" /\ related' = [related EXCEPT ![h] = found] /\ Goto(h, "links")
      /\ UNCHANGED <<outerVars, event, edges>> /\ linked' = linked
  BY DEF FetchRecord, dbVars
<1>2. related'[h] = found
  BY <1>1 DEF CInv, MInv, IInv, TypeOK
<1>3. Alone(h) /\ pc'[h] = "links" /\ event'[h] = event[h]
  BY <1>1, <1>2, GoAlone DEF Steps
<1>4. ASSUME NEW q \in People, Kept(q), Brings(h, q) PROVE Brings(h, q)'
  BY <1>1, <1>2, <1>3, <1>4 DEF Brings, Kept, outerVars
<1>. QED BY <1>1, <1>3, <1>4, EdgesUntouched, StepBringsCampus DEF Removing

LEMMA LinksBringCampus ==
  ASSUME CInv, MInv', NEW h \in Hooks, ProcessExternalLinks(h) \/ ProcessReferenceExternalLinks(h)
  PROVE CInv'
<1>1. /\ \/ pc[h] = "links" /\ Goto(h, "refs")
         \/ pc[h] = "refs" /\ Goto(h, "edges") /\ MissingLinks(h) \subseteq linked'
      /\ UNCHANGED <<outerVars, event, related, edges>> /\ linked \subseteq linked'
  BY DEF ProcessExternalLinks, ProcessReferenceExternalLinks, localVars
<1>2. related' = [related EXCEPT ![h] = related'[h]]
  BY <1>1 DEF CInv, MInv, IInv, TypeOK
<1>3. \A place \in Steps : Goto(h, place) =>
        Alone(h) /\ event'[h] = event[h] /\ pc'[h] = place
  BY <1>1, <1>2, GoAlone
<1>4. /\ Alone(h) /\ event'[h] = event[h]
      /\ \/ pc[h] = "links" /\ pc'[h] = "refs"
         \/ pc[h] = "refs" /\ pc'[h] = "edges" /\ MissingLinks(h) \subseteq linked'
  BY <1>1, <1>3 DEF Steps
<1>5. ASSUME NEW q \in People, campus[q] # NoRecord, Brings(h, q) PROVE Brings(h, q)'
  BY <1>1, <1>4, <1>5 DEF Brings, outerVars, MissingLinks
<1>. QED BY <1>1, <1>4, <1>5, EdgesUntouched, StepBringsCampus DEF Removing

LEMMA RelationshipsBringCampus ==
  ASSUME CInv, MInv', NEW h \in Hooks, ProcessRelationships(h) PROVE CInv'
<1>1. /\ pc[h] = "edges" /\ edges' = Upserted(Relationships(h)) /\ Finish(h)
      /\ UNCHANGED outerVars /\ linked' = linked
  BY DEF ProcessRelationships
<1>2. Alone(h) /\ ~ Removing(h)'
  BY <1>1, FinishAlone
<1>3. EdgesStay
  <2>1. \A e \in Relationships(h) : ~ e.deleted
    BY DEF Relationships, Directed
  <2>. QED BY <1>1, <2>1, UpsertStays DEF LiveFor
<1>4. ASSUME NEW p \in People, Kept(p), campus[p] # NoRecord, Brings(h, p)
      PROVE HasCampus(p)'
  <2>1. event[h].id = p /\ related[h] = campus[p] /\ campus[p] \in linked /\ campus'[p] = campus[p]
    BY <1>1, <1>4 DEF Brings, outerVars
  <2>2. PICK d : d = Directed(p, campus[p], "campus")
    OBVIOUS
  <2>3. d \in Relationships(h) /\ ~ d.deleted /\ d.type = "campus" /\ Touches(d, p)
    BY <2>1, <2>2 DEF Relationships, Directed, Touches
  <2>4. \E e \in edges' : SameKey(e, d) /\ ~ e.deleted
    <3>1. CASE \E e \in edges : SameKey(d, e)
      <4>1. PICK e \in edges : SameKey(d, e)
        BY <3>1
      <4>2. ~ e.deleted
        BY <1>4, <2>3, <4>1 DEF SameKey, Touches, CInv, KeptEdgesLive, LiveFor
      <4>. QED BY <1>1, <4>1, <4>2, UpsertedEdges DEF SameKey
    <3>2. CASE ~ \E e \in edges : SameKey(d, e)
      <4>1. d \in edges'
        BY <1>1, <2>3, <3>2 DEF Upserted, SameKey
      <4>. QED BY <2>3, <4>1 DEF SameKey
    <3>. QED BY <3>1, <3>2
  <2>. QED BY <2>1, <2>2, <2>4 DEF HasCampus, HasEdge, SameKey, Directed
<1>. QED BY <1>2, <1>3, <1>4, StepBringsCampus

(* Who removes brings nobody's campus. *)
LEMMA RemovingBringsNone == \A h \in Hooks, p \in People : Removing(h) => ~ Brings(h, p)
BY DEF Removing, Brings

LEMMA LookupsBringCampus ==
  ASSUME CInv, MInv', NEW h \in Hooks, DeleteEntity(h) \/ MergeLinks(h) \/ ReadEdges(h)
  PROVE CInv'
<1>1. /\ Removing(h) /\ UNCHANGED outerVars /\ linked' = linked /\ edges' = edges
      /\ \/ Finish(h)
         \/ /\ \E place \in Steps : Goto(h, place)
            /\ UNCHANGED <<event, related>>
  BY DEF DeleteEntity, MergeLinks, ReadEdges, Removing, Steps, dbVars
<1>2. related' = related => related' = [related EXCEPT ![h] = related'[h]]
  BY DEF CInv, MInv, IInv, TypeOK
<1>3. Alone(h) /\ (Removing(h)' => event'[h] = event[h])
  BY <1>1, <1>2, FinishAlone, GoAlone
<1>4. event[h].op # "upsert" /\ event[h].id \in gone /\ gone' = gone
  BY <1>1 DEF CInv, RemovesOnlyGone, outerVars
<1>. QED BY <1>1, <1>3, <1>4, EdgesUntouched, RemovingBringsNone, StepBringsCampus

LEMMA EraseBringsCampus == ASSUME CInv, MInv', NEW h \in Hooks, DeleteEntityId(h) PROVE CInv'
<1>1. /\ pc[h] = "erase" /\ UNCHANGED outerVars /\ linked' = linked
      /\ edges' = edges \/ EraseEdges(event[h].id)
      /\ \/ Finish(h)
         \/ /\ pc' = pc \/ Goto(h, "move")
            /\ UNCHANGED <<event, related>>
  BY DEF DeleteEntityId
<1>2. event[h].op # "upsert" /\ event[h].id \in gone /\ gone' = gone /\ Removing(h)
  BY <1>1 DEF CInv, RemovesOnlyGone, Removing, outerVars
<1>3. EdgesStay
  BY <1>1, <1>2, EdgesUntouched, EraseStays
<1>4. Alone(h) /\ (Removing(h)' => event'[h] = event[h])
  <2>1. related' = related => related' = [related EXCEPT ![h] = related'[h]]
    BY DEF CInv, MInv, IInv, TypeOK
  <2>2. pc' = pc => Goto(h, "erase")
    BY <1>1 DEF Goto, CInv, MInv, IInv, TypeOK
  <2>. QED BY <1>1, <2>1, <2>2, FinishAlone, GoAlone DEF Steps
<1>. QED BY <1>2, <1>3, <1>4, RemovingBringsNone, StepBringsCampus

LEMMA MoveBringsCampus == ASSUME CInv, MInv', NEW h \in Hooks, MoveEdges(h) PROVE CInv'
<1>. DEFINE k == event[h].keep
            r == event[h].id
<1>1. /\ pc[h] = "move" /\ edges' = Upserted(NewEdges(h)) /\ Finish(h)
      /\ UNCHANGED outerVars /\ linked' = linked
  BY DEF MoveEdges
<1>2. Removing(h) /\ event[h].op = "merge"
  BY <1>1 DEF Removing, CInv, MInv, IInv, OnCourse
<1>3. PICK when \in [People -> 0 .. MaxChanges + 1] : AllInOrder(when)
  BY DEF CInv, MInv
<1>4. r \in People /\ k \in People /\ mergedInto[r] = k
  BY <1>1, <1>2, <1>3, RemovedPerson DEF CInv
<1>5. k \in Absorbed /\ k \notin Campuses /\ moved[h] \subseteq EdgeRows
  BY <1>4, RecordAssumption DEF Absorbed, CInv, MInv, IInv, TypeOK
<1>6. ASSUME NEW e \in NewEdges(h), NEW p \in People PROVE LiveFor(e, p)
  <2>1. CASE e = Directed(k, r, "merged")
    BY <2>1 DEF Directed, LiveFor
  <2>2. ASSUME NEW d \in moved[h], e = MovedEdge(d, k, r) PROVE LiveFor(e, p)
    <3>1. PICK x \in Records :
            /\ x # r /\ x # k
            /\ Joins(d, r, x)
            /\ \/ d.type = "campus" /\ x \in Campuses
               \/ d.type = "merged" /\ x \in gone /\ ~ UnderWay(x) /\ when[x] < when[r]
      BY <1>3, MovedShape DEF CInv
    <3>2. e.type = d.type /\ Joins(e, k, x)
      BY <1>5, <2>2, <3>1, MovedEdgeEnds DEF Joins
    <3>. QED BY <1>5, <3>1, <3>2, RecordAssumption DEF LiveFor, Kept, Touches, Joins
  <2>. QED BY <1>6, <2>1, <2>2 DEF NewEdges
<1>7. EdgesStay
  BY <1>1, <1>6, UpsertStays
<1>8. Alone(h) /\ ~ Removing(h)'
  BY <1>1, FinishAlone
<1>. QED BY <1>2, <1>7, <1>8, RemovingBringsNone, StepBringsCampus

(* A retry begins with what the event asks for; the last failure is noted. *)
LEMMA FailBringsCampus == ASSUME CInv, MInv', NEW h \in Hooks, Fail(h) PROVE CInv'
<1>1. /\ pc[h] # "idle" /\ event[h] \in Events /\ Retry(h) /\ edges' = edges /\ linked' = linked
      /\ UNCHANGED <<campus, gone, mergedInto, events>>
  BY DEF Fail, Retry, dbVars, CInv, MInv, IInv, OnCourse
<1>2. /\ \/ pc' = [pc EXCEPT ![h] = FirstStep(event[h])] /\ event' = event /\ failed' = failed
         \/ /\ pc' = [pc EXCEPT ![h] = "idle"] /\ event' = [event EXCEPT ![h] = NoEvent]
            /\ failed' = failed \cup {event[h]}
      /\ related' = [related EXCEPT ![h] = NoRecord]
  BY <1>1 DEF Retry, Forget, Finish, Goto
<1>3. Alone(h)
  BY <1>1, <1>2 DEF Alone, CInv, MInv, IInv, TypeOK
<1>4. \/ pc'[h] = FirstStep(event[h]) /\ event'[h] = event[h]
      \/ pc'[h] = "idle" /\ failed' # {}
  BY <1>2 DEF CInv, MInv, IInv, TypeOK
<1>5. /\ pc[h] \in {"get", "links", "refs", "edges"} => event[h].op = "upsert"
      /\ pc[h] \in Steps
      /\ Removing(h) => event[h].op # "upsert" /\ event[h].id \in gone
  BY DEF CInv, MInv, IInv, TypeOK, OnCourse, RemovesOnlyGone
<1>6. Removing(h)' => event'[h].op # "upsert" /\ event'[h].id \in gone
  BY <1>1, <1>4, <1>5 DEF Removing, FirstStep, Steps
<1>7. ASSUME NEW p \in People, Brings(h, p) PROVE Brings(h, p)' \/ failed' # {}
  BY <1>1, <1>4, <1>5, <1>7 DEF Brings, FirstStep
<1>. QED BY <1>1, <1>3, <1>6, <1>7, EdgesUntouched, StepBringsCampus DEF Alone

-----------------------------------------------------------------------------
(* PCO's changes, and the delivery of an event.                            *)

(* A change of PCO leaves tables and activities alone and adds an event;   *)
(* who is kept afterwards was kept before.                                 *)
LEMMA ChangeBringsCampus ==
  ASSUME CInv, MInv', NEW e, e \in Events, PcoChange(e),
         e.op # "upsert" => e.id \in gone',
         gone \subseteq gone', \A p \in People : Kept(p)' => Kept(p),
         \A p \in People : campus'[p] = campus[p] \/ (e.op = "upsert" /\ e.id = p)
  PROVE CInv'
<1>1. /\ events' = events \cup {e}
      /\ UNCHANGED <<failed, linked, edges, pc, event, related>>
  BY DEF PcoChange, dbVars, localVars
<1>2. RemovesOnlyGone'
  BY <1>1 DEF CInv, RemovesOnlyGone, Removing
<1>3. KeptEdgesLive'
  BY <1>1 DEF CInv, KeptEdgesLive, LiveFor, Touches
<1>4. ASSUME NEW p \in People, Kept(p)', campus'[p] # NoRecord
      PROVE HasCampus(p)' \/ OnItsWay(p)'
  <2>1. CASE e.op = "upsert" /\ e.id = p
    BY <1>1, <2>1 DEF OnItsWay
  <2>2. CASE campus'[p] = campus[p]
    <3>1. HasCampus(p) \/ OnItsWay(p)
      BY <1>4, <2>2 DEF CInv, CampusBrought
    <3>2. HasCampus(p) => HasCampus(p)'
      BY <1>1, <2>2 DEF HasCampus, HasEdge, SameKey, Directed
    <3>3. \A h \in Hooks : Brings(h, p) => Brings(h, p)'
      BY <1>1, <2>2 DEF Brings
    <3>4. OnItsWay(p) => OnItsWay(p)'
      BY <1>1, <3>3 DEF OnItsWay
    <3>. QED BY <3>1, <3>2, <3>4
  <2>. QED BY <2>1, <2>2
<1>5. CampusBrought'
  BY <1>4 DEF CampusBrought
<1>. QED BY <1>2, <1>3, <1>5 DEF CInv

LEMMA OtherClientBringsCampus == ASSUME CInv, MInv', OtherClient PROVE CInv'
<1>0. /\ \A p \in People : mergedInto[p] # NoRecord => p \in gone
      /\ mergedInto \in [People -> People \cup {NoRecord}] /\ NoRecord \notin People
      /\ campus \in [People -> Campuses \cup {NoRecord}]
  BY RecordAssumption DEF CInv, MInv, MergedOnce, IInv, TypeOK, Records
<1>1. ASSUME NEW p \in People, NEW c \in Campuses, SetCampus(p, c) PROVE CInv'
  <2>1. PICK e : e = [op |-> "upsert", id |-> p, campus |-> c]
    OBVIOUS
  <2>2. e \in Events /\ e.op = "upsert" /\ e.id = p
    BY <2>1 DEF Events
  <2>3. /\ PcoChange(e) /\ gone' = gone /\ mergedInto' = mergedInto
        /\ \A q \in People : q # p => campus'[q] = campus[q]
    BY <1>0, <1>1, <2>1 DEF SetCampus
  <2>. QED BY <2>2, <2>3, ChangeBringsCampus DEF Kept, Held, Absorbed
<1>2. ASSUME NEW p \in People, Destroy(p) PROVE CInv'
  <2>1. PICK e : e = [op |-> "delete", id |-> p]
    OBVIOUS
  <2>2. e \in Events /\ e.op = "delete" /\ e.id = p
    BY <2>1 DEF Events
  <2>3. PcoChange(e) /\ gone' = gone \cup {p} /\ UNCHANGED <<campus, mergedInto>>
    BY <1>2, <2>1 DEF Destroy
  <2>. QED BY <2>2, <2>3, ChangeBringsCampus DEF Kept, Held, Absorbed
<1>3. ASSUME NEW k \in People, NEW r \in People, Merge(k, r) PROVE CInv'
  <2>1. PICK e : e = [op |-> "merge", id |-> r, keep |-> k]
    OBVIOUS
  <2>2. e \in Events /\ e.op = "merge" /\ e.id = r
    BY <2>1 DEF Events
  <2>3. /\ PcoChange(e) /\ gone' = gone \cup {r} /\ UNCHANGED campus /\ r \notin gone
        /\ mergedInto' = [mergedInto EXCEPT ![r] = k]
    BY <1>3, <2>1 DEF Merge, Held
  <2>4. \A p \in People : Kept(p)' => Kept(p)
    BY <1>0, <2>3 DEF Kept, Held, Absorbed
  <2>. QED BY <2>2, <2>3, <2>4, ChangeBringsCampus
<1>. QED BY <1>1, <1>2, <1>3 DEF OtherClient

LEMMA DeliverBringsCampus ==
  ASSUME CInv, MInv', NEW h \in Hooks, NEW e \in events, Deliver(h, e) PROVE CInv'
<1>1. /\ pc[h] = "idle" /\ events' = events \ {e} /\ e \in Events
      /\ event' = [event EXCEPT ![h] = e] /\ pc' = [pc EXCEPT ![h] = FirstStep(e)]
      /\ UNCHANGED <<campus, gone, mergedInto, failed, linked, edges, related>>
  BY DEF Deliver, Goto, dbVars, CInv, MInv, IInv, TypeOK
<1>2. /\ event'[h] = e /\ pc'[h] = FirstStep(e)
      /\ \A g \in Hooks \ {h} : event'[g] = event[g] /\ pc'[g] = pc[g]
  BY <1>1 DEF CInv, MInv, IInv, TypeOK
<1>3. \/ e.op = "upsert" /\ FirstStep(e) = "get"
      \/ e.op # "upsert" /\ e.id \in gone
  BY DEF FirstStep, CInv, RemovesOnlyGone
<1>4. \A p : Kept(p)' <=> Kept(p)
  BY <1>1 DEF Kept, Held, Absorbed
<1>5. RemovesOnlyGone'
  BY <1>1, <1>2, <1>3 DEF CInv, RemovesOnlyGone, Removing
<1>6. KeptEdgesLive'
  BY <1>1, <1>4 DEF CInv, KeptEdgesLive, LiveFor, Touches
<1>7. ASSUME NEW p \in People, Kept(p)', campus'[p] # NoRecord
      PROVE HasCampus(p)' \/ OnItsWay(p)'
  <2>1. HasCampus(p) \/ OnItsWay(p)
    BY <1>1, <1>4, <1>7 DEF CInv, CampusBrought
  <2>2. HasCampus(p) => HasCampus(p)'
    BY <1>1 DEF HasCampus, HasEdge, SameKey, Directed
  <2>3. ASSUME NEW g \in Hooks, Brings(g, p) PROVE Brings(g, p)'
    BY <1>1, <1>2, <2>3 DEF Brings
  <2>4. ASSUME NEW d \in events, d.op = "upsert", d.id = p PROVE OnItsWay(p)'
    <3>1. CASE d = e
      <4>1. Brings(h, p)'
        BY <1>2, <1>3, <2>4, <3>1 DEF Brings
      <4>. QED BY <4>1 DEF OnItsWay
    <3>2. CASE d # e
      BY <1>1, <2>4, <3>2 DEF OnItsWay
    <3>. QED BY <3>1, <3>2
  <2>5. failed # {} => failed' # {}
    BY <1>1
  <2>. QED BY <2>1, <2>2, <2>3, <2>4, <2>5 DEF OnItsWay
<1>8. CampusBrought'
  BY <1>7 DEF CampusBrought
<1>. QED BY <1>5, <1>6, <1>8 DEF CInv

-----------------------------------------------------------------------------
LEMMA InitBringsCampus == Init => CInv
<1>. SUFFICES ASSUME Init PROVE CInv
  OBVIOUS
<1>1. RemovesOnlyGone /\ KeptEdgesLive /\ CampusBrought
  BY DEF Init, RemovesOnlyGone, KeptEdgesLive, CampusBrought, Removing
<1>. QED BY <1>1, InitKeepsOrder DEF CInv

LEMMA NextBringsCampus == CInv /\ [Next]_vars => CInv'
<1>. SUFFICES ASSUME CInv, [Next]_vars PROVE CInv'
  OBVIOUS
<1>1. MInv'
  BY NextKeepsOrder DEF CInv
<1>2. CASE OtherClient
  BY <1>1, <1>2, OtherClientBringsCampus
<1>3. ASSUME NEW h \in Hooks, NEW e \in events, Deliver(h, e) PROVE CInv'
  BY <1>1, <1>3, DeliverBringsCampus
<1>4. ASSUME NEW h \in Hooks, Step(h) \/ Fail(h) PROVE CInv'
  BY <1>1, <1>4, FetchBringsCampus, LinksBringCampus, RelationshipsBringCampus,
     LookupsBringCampus, EraseBringsCampus, MoveBringsCampus, FailBringsCampus DEF Step
<1>5. CASE UNCHANGED vars
  <2>1. /\ UNCHANGED <<campus, gone, mergedInto, events, failed, linked, edges, pc, event, related>>
    BY <1>5 DEF vars, outerVars, dbVars, localVars
  <2>2. RemovesOnlyGone' /\ KeptEdgesLive'
    BY <2>1 DEF CInv, RemovesOnlyGone, KeptEdgesLive, LiveFor, Kept, Held, Absorbed, Removing,
                Touches
  <2>3. CampusBrought'
    BY <2>1 DEF CInv, CampusBrought, HasCampus, HasEdge, SameKey, Directed, OnItsWay, Brings,
                Kept, Held, Absorbed
  <2>. QED BY <1>1, <2>2, <2>3 DEF CInv
<1>. QED BY <1>2, <1>3, <1>4, <1>5 DEF Next

(* However upserts, deletions and merges are interleaved, reordered and    *)
(* retried: when all events are processed and no workflow failed for good, *)
(* a live edge joins every person PCO holds to the person's current campus,*)
(* unless another was merged into that person.                             *)
THEOREM CampusIsBrought == Spec => []CurrentCampusJoined
<1>1. CInv => CurrentCampusJoined
  <2>1. SUFFICES ASSUME CInv, Settled, NEW p \in Held, campus[p] # NoRecord,
                        \A r \in People : mergedInto[r] # p
                 PROVE HasEdge(p, campus[p], "campus")
    BY DEF CurrentCampusJoined
  <2>2. p \in People /\ Kept(p)
    BY <2>1 DEF Kept, Held, Absorbed
  <2>3. ~ OnItsWay(p)
    BY <2>1 DEF Settled, Quiet, OnItsWay, Brings
  <2>. QED BY <2>1, <2>2, <2>3 DEF CInv, CampusBrought, HasCampus
<1>. QED BY <1>1, InitBringsCampus, NextBringsCampus, PTL DEF Spec
=============================================================================
