---------------------------- MODULE MCSyncFields ----------------------------
(***************************************************************************)
(* Two sides of the records kept in step with PCO, in one instance for     *)
(* TLC: their links and rows, when a sync races a webhook (RecordSync),    *)
(* and the fields of a person, one of each sort (FieldSync).               *)
(* The two modules share no state, so that nothing is missed when one of   *)
(* them only moves while the other is at its beginning.                    *)
(***************************************************************************)
EXTENDS MCRecordSync, FieldSync

MCKind ==
  ("first_name" :> "string") @@ ("name" :> "string") @@ ("gender" :> "gender")
    @@ ("medical_notes" :> "string")
MCValues ==
  ("first_name" :> {"Ann", "Bea"}) @@ ("name" :> {"Ann Lee"}) @@ ("gender" :> {"F", "Female"})
    @@ ("medical_notes" :> {Null, ""})
MCEntries ==
  ("first_name" :> {"Bea", Null}) @@ ("name" :> {"Bea Lee"}) @@ ("gender" :> {})
MCInitial ==
  {("first_name" :> "Ann") @@ ("name" :> "Ann Lee") @@ ("gender" :> "F")
     @@ ("medical_notes" :> Null)}

MCInit == Init /\ FieldsInit
MCNext ==
  \/ FieldsInit /\ Next /\ UNCHANGED fieldVars
  \/ Init /\ FieldsNext /\ UNCHANGED vars
MCSpec == MCInit /\ [][MCNext]_<<vars, fieldVars>>
=============================================================================
