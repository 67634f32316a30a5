-------------------------- MODULE ExternalIdentity --------------------------
(***************************************************************************)
(* What docs/ExternalLinks.md promises of the externalLinks table: every   *)
(* record of an external system is assigned one OpenFaith entity, once and *)
(* for all, and an entity only ever shows the data of a record assigned to *)
(* it.  How and when records are fetched is left open.                     *)
(***************************************************************************)
CONSTANTS ExternalIds, EntityIds, None, NoRecord

VARIABLES
  owner,   \* external id -> the entity it is assigned, None before
  shown    \* entity -> the record whose data it shows, NoRecord before

vars == <<owner, shown>>

Init == /\ owner = [x \in ExternalIds |-> None]
        /\ shown = [e \in EntityIds |-> NoRecord]

(* Some records met for the first time are assigned an entity each. *)
Assign ==
  /\ owner' \in [ExternalIds -> EntityIds \cup {None}]
  /\ \A x \in ExternalIds : owner[x] # None => owner'[x] = owner[x]
  /\ UNCHANGED shown

(* Some entities take on the data of a record assigned to them. *)
Show ==
  /\ shown' \in [EntityIds -> ExternalIds \cup {NoRecord}]
  /\ \A e \in EntityIds : \/ shown'[e] = shown[e]
                          \/ \E x \in ExternalIds : owner[x] = e /\ shown'[e] = x
  /\ UNCHANGED owner

Next == Assign \/ Show
Spec == Init /\ [][Next]_vars
=============================================================================
