----------------------------- MODULE FieldSync -----------------------------
(***************************************************************************)
(* The fields of one linked record: in PCO, in its row, in the edit form   *)
(* and in the cells of the data grid, and in the updates pushed to PCO     *)
(* and their responses.  The form sends every value it was opened with,    *)
(* custom fields included, a cell only its own.  How updates get to the    *)
(* workflow is MutationPush's, links and webhooks are RecordSync's: here   *)
(* they come one after the other and are not lost.                         *)
(***************************************************************************)
EXTENDS PcoTransformer, Naturals

CONSTANTS
  Initial,     \* records to begin with
  Entries,     \* the values users enter in each standard field
  MaxChanges,  \* bound: changes of the record by PCO's other users
  MaxUpdates,  \* bound: updates made here
  MaxRepeats,  \* bound: pushes repeated after a failure
  NoEntry

Updates == 1 .. MaxUpdates

(* The column of a gender is an enum of two. *)
ASSUME FieldAssumption ==
  /\ Initial \subseteq PcoRecords /\ DOMAIN Entries = Standard
  /\ \A a \in Standard : Kind[a] = "gender" => Entries[a] \subseteq {"male", "female", Null}
  /\ MaxChanges \in Nat /\ MaxUpdates \in Nat /\ MaxRepeats \in Nat

VARIABLES
  attributes,   \* PCO: the record
  version,      \* PCO: its updated_at
  fields,       \* its row
  linkVersion,  \* updatedAt of its link
  form,         \* the edit form: what it was opened with; moved is history
  updates,      \* the updates made, with their pushes; moved is history
  changes, repeats,
  entered,      \* history: the last entry in each field that should hold
  unaccepted    \* history: fields the row has from updates PCO did not take

recordVars == <<attributes, version>>
rowVars == <<fields, linkVersion>>
fieldVars == <<attributes, version, fields, linkVersion, form, updates, changes, repeats,
               entered, unaccepted>>

NoForm == [open |-> FALSE]
NotMade == [step |-> "none"]
Done == [step |-> "done"]
UnderWay(i) == updates[i].step \in {"push", "write"}
Entered(a) == entered[a] # NoEntry

FieldsInit ==
  /\ attributes \in Initial /\ version = 1
  /\ fields = Decode(attributes) /\ linkVersion = 1
  /\ form = NoForm /\ updates = [i \in Updates |-> NotMade] /\ changes = 0 /\ repeats = 0
  /\ entered = [a \in Standard |-> NoEntry] /\ unaccepted = {}

(* Notes for the form and for the updates under way that PCO's values of   *)
(* some attributes are no longer those they were made with.                *)
Moved(S) ==
  /\ form' = IF form.open THEN [form EXCEPT !.moved = @ \cup S] ELSE form
  /\ updates' = [i \in Updates |->
                   IF UnderWay(i) THEN [updates[i] EXCEPT !.moved = @ \cup S] ELSE updates[i]]

OtherClientChanges(a, value) ==
  /\ changes < MaxChanges /\ value # attributes[a]
  /\ attributes' = [attributes EXCEPT ![a] = value]
  /\ version' = version + 1 /\ changes' = changes + 1
  /\ Moved({a})
  /\ entered' = [b \in Standard |-> IF b = a THEN NoEntry ELSE entered[b]]
  /\ UNCHANGED <<rowVars, repeats, unaccepted>>

(* The three writes for a record: link, changed or not, row.  Broken       *)
(* variant: only the first version of a record counts as changed.          *)
FirstTime(v) == linkVersion = 0
Differs(v) == linkVersion # v
Written(record, v) ==
  /\ fields' = IF Differs(v) THEN Decode(record) ELSE fields
  /\ unaccepted' = IF Differs(v) THEN {} ELSE unaccepted
  /\ linkVersion' = v

SyncRecord ==
  /\ linkVersion # version
  /\ Written(attributes, version)
  /\ UNCHANGED <<recordVars, form, updates, changes, repeats, entered>>

OpenForm ==
  /\ ~form.open
  /\ form' = [open |-> TRUE, data |-> fields,
              moved |-> {a \in Attributes : fields[a] # FieldValue(a, attributes[a])}]
  /\ UNCHANGED <<recordVars, rowVars, updates, changes, repeats, entered, unaccepted>>

CloseForm ==
  /\ form.open /\ form' = NoForm
  /\ UNCHANGED <<recordVars, rowVars, updates, changes, repeats, entered, unaccepted>>

(* An update: the row has it at once, the push follows.  An entry in a     *)
(* field that another update under way writes too may lose against it.     *)
Update(data, edited, moved) ==
  /\ fields' = [a \in Attributes |-> IF a \in DOMAIN data THEN data[a] ELSE fields[a]]
  /\ \E i \in Updates :
       /\ updates[i] = NotMade /\ \A j \in 1 .. i - 1 : updates[j] # NotMade
       /\ updates' = [updates EXCEPT ![i] =
                        [data |-> data, edited |-> edited, moved |-> moved, step |-> "push",
                         answer |-> attributes, answered |-> version]]
  /\ entered' = [a \in Standard |->
       IF a \notin edited THEN entered[a]
       ELSE IF \E i \in Updates : UnderWay(i) /\ a \in DOMAIN updates[i].data
       THEN NoEntry ELSE data[a]]
  /\ UNCHANGED <<recordVars, linkVersion, changes, repeats, unaccepted>>

(* The whole form is sent with the entries in some of its fields. *)
FormData(edits) ==
  [a \in Attributes |-> IF a \in DOMAIN edits THEN edits[a] ELSE form.data[a]]
SubmitForm(edits) ==
  /\ form.open /\ form' = NoForm
  /\ \E a \in DOMAIN edits : edits[a] # form.data[a]
  /\ Update(FormData(edits), DOMAIN edits, form.moved)

EditCell(a, value) ==
  /\ Update([b \in {a} |-> value], {a}, {})
  /\ UNCHANGED form

(* updateEntity: PCO takes the attributes of the payload.  Broken variant: *)
(* it is merged the wrong way round.                                       *)
KeptBy(data) == [a \in Attributes |-> attributes[a]]
Patched(data) ==
  [a \in Attributes |-> IF a \in DOMAIN Payload(data) THEN Payload(data)[a] ELSE attributes[a]]

PushUpdate(i) ==
  LET u == updates[i]
      record == Patched(u.data)
      changed == {a \in Attributes : record[a] # attributes[a]}
      v == IF changed = {} THEN version ELSE version + 1
  IN /\ u.step = "push" /\ Encodable(u.data)
     /\ attributes' = record /\ version' = v
     /\ form' = IF form.open THEN [form EXCEPT !.moved = @ \cup changed] ELSE form
     /\ updates' = [j \in Updates |->
          IF j = i THEN [u EXCEPT !.step = "write", !.answer = record, !.answered = v]
          ELSE IF UnderWay(j) THEN [updates[j] EXCEPT !.moved = @ \cup changed]
          ELSE updates[j]]
     /\ entered' = [a \in Standard |->
          IF a \in changed \ u.edited THEN NoEntry ELSE entered[a]]
     /\ unaccepted' = IF changed # {} THEN unaccepted
                      ELSE unaccepted \cup (DOMAIN u.data \ Updatable)
     /\ UNCHANGED <<rowVars, changes, repeats>>

(* The update cannot be encoded, PCO refuses it, or the workflow fails for *)
(* good before or after PCO took it.                                       *)
PushFails(i) ==
  /\ UnderWay(i)
  /\ updates' = [updates EXCEPT ![i] = Done]
  /\ entered' = [a \in Standard |->
                   IF a \in updates[i].edited THEN NoEntry ELSE entered[a]]
  /\ unaccepted' = unaccepted \cup DOMAIN updates[i].data
  /\ UNCHANGED <<recordVars, rowVars, form, changes, repeats>>

PushRepeated(i) ==
  /\ updates[i].step = "write" /\ repeats < MaxRepeats
  /\ updates' = [updates EXCEPT ![i].step = "push"]
  /\ repeats' = repeats + 1
  /\ UNCHANGED <<recordVars, rowVars, form, changes, entered, unaccepted>>

(* The response is written like any other record. *)
WriteResponse(i) ==
  /\ updates[i].step = "write"
  /\ updates' = [updates EXCEPT ![i] = Done]
  /\ Written(updates[i].answer, updates[i].answered)
  /\ UNCHANGED <<recordVars, form, changes, repeats, entered>>

Edits == UNION {[S -> UNION {Entries[a] : a \in Standard}] : S \in SUBSET Standard \ {{}}}

FieldsNext ==
  \/ \E a \in Attributes : \E value \in Values[a] : OtherClientChanges(a, value)
  \/ SyncRecord \/ OpenForm \/ CloseForm
  \/ \E edits \in Edits : (\A a \in DOMAIN edits : edits[a] \in Entries[a]) /\ SubmitForm(edits)
  \/ \E a \in Standard : \E value \in Entries[a] : EditCell(a, value)
  \/ \E i \in Updates :
       PushUpdate(i) \/ PushFails(i) \/ PushRepeated(i) \/ WriteResponse(i)

FieldsSpec == FieldsInit /\ [][FieldsNext]_fieldVars

FieldsQuiet == linkVersion = version /\ \A i \in Updates : ~UnderWay(i)

(* A push only changes what the user edited, what was no longer in PCO as  *)
(* the form showed it, and the custom fields that an edited cell leaves    *)
(* out: those it sets to their defaults.                                   *)
PushKeepsTheRest ==
  [][\A i \in Updates :
       updates[i].step = "push" /\ updates'[i].step = "write" =>
         {a \in Attributes : FieldValue(a, attributes'[a]) # FieldValue(a, attributes[a])}
           \subseteq updates[i].edited \cup updates[i].moved
                       \cup (Custom \ DOMAIN updates[i].data)]_fieldVars

(* When nothing is under way, what was entered last in a field is PCO's    *)
(* value, unless PCO's users changed it, the push failed, an update with   *)
(* another value of the field was under way, or PCO does not take the      *)
(* field; and the row shows PCO's values, except in the fields it has from *)
(* an update that failed or, where PCO does not take them, from one that   *)
(* changed nothing else.                                                   *)
UpdatesSettle ==
  FieldsQuiet =>
    /\ \A a \in Standard \cap Updatable :
         Entered(a) => FieldValue(a, attributes[a]) = entered[a]
    /\ \A a \in Attributes \ unaccepted : fields[a] = FieldValue(a, attributes[a])
=============================================================================
