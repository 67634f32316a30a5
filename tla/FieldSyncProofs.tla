-------------------------- MODULE FieldSyncProofs --------------------------
(***************************************************************************)
(* Proofs that a push only changes what it may, and that the updates of a  *)
(* record come to rest with the row and PCO in agreement.  The first rests *)
(* on what the edit form and the updates under way know of PCO: every      *)
(* value in them that the user did not enter is the value PCO has, but for *)
(* the attributes noted as moved.                                          *)
(***************************************************************************)
EXTENDS FieldSync, TLAPS

IsForm(f) == f = [open |-> TRUE, data |-> f.data, moved |-> f.moved]
IsUpdate(u) ==
  /\ u.step \in {"push", "write"}
  /\ u = [data |-> u.data, edited |-> u.edited, moved |-> u.moved, step |-> u.step,
          answer |-> u.answer, answered |-> u.answered]

(* The forms of the values of the variables. *)
Shape ==
  /\ attributes = [a \in Attributes |-> attributes[a]]
  /\ form = NoForm \/ IsForm(form)
  /\ updates = [i \in Updates |-> updates[i]]
  /\ \A i \in Updates : updates[i] \in {NotMade, Done} \/ IsUpdate(updates[i])

FormKnows ==
  form.open => \A a \in Attributes \ form.moved : form.data[a] = FieldValue(a, attributes[a])

Knows(u) ==
  \A a \in (DOMAIN u.data \cap Attributes) \ (u.edited \cup u.moved) :
    u.data[a] = FieldValue(a, attributes[a])
UpdatesKnow == \A i \in Updates : UnderWay(i) => Knows(updates[i])

IInv == Shape /\ FormKnows /\ UpdatesKnow
-----------------------------------------------------------------------------
(* Lemmas *)

(* What a field shows survives the way to PCO and back. *)
LEMMA RoundTrip ==
  ASSUME NEW a, NEW v
  PROVE  FieldValue(a, AttributeValue(a, FieldValue(a, v))) = FieldValue(a, v)
BY AttributeAssumption DEF FieldValue, AttributeValue, OneGender, PcoGender

(* The record after a push, attribute by attribute. *)
LEMMA PatchedAttribute ==
  ASSUME NEW data, NEW a \in Attributes
  PROVE  Patched(data)[a] =
           IF a \in DOMAIN data /\ a \in Updatable THEN AttributeValue(a, data[a])
           ELSE IF a \in Custom /\ a \in Updatable THEN Default(a)
           ELSE attributes[a]
<1>1. DOMAIN Payload(data) = (DOMAIN data \cup Custom) \cap Updatable
  BY DEF Payload, Encode, Restrict
<1>2. a \in DOMAIN Payload(data) =>
        Payload(data)[a] = IF a \in DOMAIN data THEN AttributeValue(a, data[a]) ELSE Default(a)
  BY DEF Payload, Encode, Restrict, Has
<1> QED  BY <1>1, <1>2 DEF Patched

(* A push whose update knows what it was not told leaves the fields alone  *)
(* that it may not change.                                                 *)
LEMMA PatchKeeps ==
  ASSUME NEW u, Knows(u), NEW a \in Attributes,
         a \notin u.edited \cup u.moved \cup (Custom \ DOMAIN u.data)
  PROVE  FieldValue(a, Patched(u.data)[a]) = FieldValue(a, attributes[a])
<1>1. CASE a \in DOMAIN u.data
  <2>1. u.data[a] = FieldValue(a, attributes[a])  BY <1>1 DEF Knows
  <2> QED  BY <1>1, <2>1, PatchedAttribute, RoundTrip
<1>2. CASE a \notin DOMAIN u.data
  BY <1>2, PatchedAttribute
<1> QED  BY <1>1, <1>2

(* More attributes are noted as moved for an update. *)
LEMMA MoreMoved ==
  ASSUME NEW u, IsUpdate(u), NEW S
  PROVE  IsUpdate([u EXCEPT !.moved = @ \cup S])
BY DEF IsUpdate
-----------------------------------------------------------------------------
LEMMA InitIInv == FieldsInit => IInv
<1> SUFFICES ASSUME FieldsInit PROVE IInv
  OBVIOUS
<1>1. attributes \in PcoRecords
  BY FieldAssumption DEF FieldsInit
<1>2. attributes = [a \in Attributes |-> attributes[a]]
  BY <1>1 DEF PcoRecords
<1>3. Shape
  BY <1>2 DEF FieldsInit, Shape
<1>4. FormKnows
  BY DEF FieldsInit, FormKnows, NoForm
<1>5. UpdatesKnow
  BY DEF FieldsInit, UpdatesKnow, UnderWay, NotMade
<1> QED  BY <1>3, <1>4, <1>5 DEF IInv
-----------------------------------------------------------------------------
(* The steps, one lemma for each sort *)

LEMMA OtherClientStep ==
  ASSUME IInv, NEW a \in Attributes, NEW value, OtherClientChanges(a, value)
  PROVE  IInv'
<1> USE DEF OtherClientChanges, Moved
<1>1. /\ attributes' = [b \in Attributes |-> attributes'[b]]
      /\ \A b \in Attributes \ {a} : attributes'[b] = attributes[b]
  BY DEF IInv, Shape
<1>2. form' = NoForm \/ IsForm(form')
  BY DEF IInv, Shape, IsForm, NoForm
<1>3. updates' = [i \in Updates |-> updates'[i]]
  OBVIOUS
<1>4. ASSUME NEW i \in Updates
      PROVE  updates'[i] \in {NotMade, Done} \/ IsUpdate(updates'[i])
  <2>1. CASE UnderWay(i)
    <3>1. IsUpdate(updates[i])
      BY <2>1 DEF IInv, Shape, UnderWay, NotMade, Done
    <3>2. IsUpdate([updates[i] EXCEPT !.moved = @ \cup {a}])
      BY <3>1, MoreMoved
    <3> QED  BY <2>1, <3>2
  <2>2. CASE ~UnderWay(i)
    BY <2>2 DEF IInv, Shape, UnderWay, IsUpdate
  <2> QED  BY <2>1, <2>2
<1>5. FormKnows'
  BY <1>1 DEF IInv, Shape, FormKnows, IsForm, NoForm
<1>6. ASSUME NEW i \in Updates, UnderWay(i)'
      PROVE  Knows(updates[i])'
  <2>1. UnderWay(i)
    BY <1>6 DEF IInv, Shape, UnderWay, IsUpdate, NotMade, Done
  <2>2. IsUpdate(updates[i]) /\ updates'[i] = [updates[i] EXCEPT !.moved = @ \cup {a}]
    BY <2>1 DEF IInv, Shape, UnderWay, NotMade, Done
  <2>3. /\ updates'[i].data = updates[i].data /\ updates'[i].edited = updates[i].edited
        /\ updates'[i].moved = updates[i].moved \cup {a}
    BY <2>2 DEF IsUpdate
  <2>4. Knows(updates[i])
    BY <2>1 DEF IInv, UpdatesKnow
  <2> HIDE DEF OtherClientChanges
  <2>5. ASSUME NEW b \in Attributes, b \in DOMAIN updates'[i].data,
               b \notin updates'[i].edited \cup updates'[i].moved
        PROVE  updates'[i].data[b] = FieldValue(b, attributes'[b])
    BY <1>1, <2>3, <2>4, <2>5 DEF Knows
  <2> QED  BY <2>5 DEF Knows
<1> QED  BY <1>1, <1>2, <1>3, <1>4, <1>5, <1>6 DEF IInv, Shape, UpdatesKnow

(* Records, forms and updates stay; or the form is opened or closed.       *)
LEMMA QuietStep ==
  ASSUME IInv, SyncRecord \/ OpenForm \/ CloseForm \/ UNCHANGED fieldVars
  PROVE  IInv'
<1>1. attributes' = attributes /\ updates' = updates
  BY DEF SyncRecord, OpenForm, CloseForm, fieldVars, recordVars
<1>2. /\ attributes' = [b \in Attributes |-> attributes'[b]]
      /\ updates' = [i \in Updates |-> updates'[i]]
      /\ \A i \in Updates : updates'[i] \in {NotMade, Done} \/ IsUpdate(updates'[i])
  BY <1>1 DEF IInv, Shape
<1>3. UpdatesKnow'
  BY <1>1 DEF IInv, UpdatesKnow, Knows, UnderWay
<1>4. (form' = NoForm \/ IsForm(form')) /\ FormKnows'
  <2>1. CASE OpenForm
    BY <1>1, <2>1 DEF OpenForm, IsForm, FormKnows
  <2>2. CASE form' = form
    BY <1>1, <2>2 DEF IInv, Shape, FormKnows
  <2>3. CASE form' = NoForm
    BY <2>3 DEF NoForm, FormKnows
  <2> QED  BY <2>1, <2>2, <2>3 DEF SyncRecord, CloseForm, fieldVars
<1> QED  BY <1>2, <1>3, <1>4 DEF IInv, Shape

(* An update knows PCO as well as the form it comes from does. *)
LEMMA UpdateStep ==
  ASSUME IInv, NEW data, NEW edited, NEW moved, Update(data, edited, moved),
         \A a \in (DOMAIN data \cap Attributes) \ (edited \cup moved) :
           data[a] = FieldValue(a, attributes[a]),
         form' = NoForm \/ form' = form
  PROVE  IInv'
<1>1. PICK i \in Updates :
        updates' = [updates EXCEPT ![i] =
                      [data |-> data, edited |-> edited, moved |-> moved, step |-> "push",
                       answer |-> attributes, answered |-> version]]
  BY DEF Update
<1>2. attributes' = attributes
  BY DEF Update, recordVars
<1>3. updates' = [j \in Updates |-> updates'[j]]
  BY <1>1 DEF IInv, Shape
<1>4. \A j \in Updates \ {i} : updates'[j] = updates[j]
  BY <1>1 DEF IInv, Shape
<1>5. updates'[i] = [data |-> data, edited |-> edited, moved |-> moved, step |-> "push",
                     answer |-> attributes, answered |-> version]
  BY <1>1 DEF IInv, Shape
<1>6. ASSUME NEW j \in Updates
      PROVE  updates'[j] \in {NotMade, Done} \/ IsUpdate(updates'[j])
  <2>1. CASE j = i  BY <1>5, <2>1 DEF IsUpdate
  <2>2. CASE j # i  BY <1>4, <2>2 DEF IInv, Shape
  <2> QED  BY <2>1, <2>2
<1>7. ASSUME NEW j \in Updates, UnderWay(j)'
      PROVE  Knows(updates[j])'
  <2>1. CASE j = i  BY <1>2, <1>5, <2>1 DEF Knows
  <2>2. CASE j # i  BY <1>2, <1>4, <1>7, <2>2 DEF IInv, UpdatesKnow, Knows, UnderWay
  <2> QED  BY <2>1, <2>2
<1>8. (form' = NoForm \/ IsForm(form')) /\ FormKnows'
  BY <1>2 DEF IInv, Shape, FormKnows, NoForm
<1> QED  BY <1>2, <1>3, <1>6, <1>7, <1>8 DEF IInv, Shape, UpdatesKnow

LEMMA SubmitStep ==
  ASSUME IInv, NEW edits, SubmitForm(edits)
  PROVE  IInv'
<1>1. \A a \in Attributes \ (DOMAIN edits \cup form.moved) :
        FormData(edits)[a] = FieldValue(a, attributes[a])
  BY DEF SubmitForm, FormData, IInv, FormKnows
<1>2. DOMAIN FormData(edits) = Attributes
  BY DEF FormData
<1> QED  BY <1>1, <1>2, UpdateStep DEF SubmitForm

LEMMA EditStep ==
  ASSUME IInv, NEW a, NEW value, EditCell(a, value)
  PROVE  IInv'
BY UpdateStep DEF EditCell

(* The push itself. *)
LEMMA PushStep ==
  ASSUME IInv, NEW i \in Updates, PushUpdate(i)
  PROVE  IInv'
<1> DEFINE record == Patched(updates[i].data)
           changed == {a \in Attributes : record[a] # attributes[a]}
<1>1. updates[i].step = "push" /\ attributes' = record
  BY DEF PushUpdate
<1>2. IsUpdate(updates[i]) /\ Knows(updates[i])
  BY <1>1 DEF IInv, Shape, UpdatesKnow, UnderWay, NotMade, Done
<1>3. form' = IF form.open THEN [form EXCEPT !.moved = @ \cup changed] ELSE form
  BY DEF PushUpdate
<1>4. updates' = [j \in Updates |-> updates'[j]]
  BY DEF PushUpdate
<1>5. PICK v : updates'[i] = [updates[i] EXCEPT !.step = "write", !.answer = record,
                                                !.answered = v]
  BY DEF PushUpdate
<1>6. \A j \in Updates \ {i} :
        updates'[j] = IF UnderWay(j) THEN [updates[j] EXCEPT !.moved = @ \cup changed]
                      ELSE updates[j]
  BY DEF PushUpdate
<1>7. attributes' = [a \in Attributes |-> attributes'[a]]
  BY <1>1 DEF Patched
<1>8. \A a \in Attributes \ changed : attributes'[a] = attributes[a]
  BY <1>1
<1> HIDE DEF record, changed
<1>9. /\ IsUpdate(updates'[i])
      /\ updates'[i].data = updates[i].data /\ updates'[i].edited = updates[i].edited
      /\ updates'[i].moved = updates[i].moved
  BY <1>2, <1>5 DEF IsUpdate
<1>10. ASSUME NEW j \in Updates
       PROVE  updates'[j] \in {NotMade, Done} \/ IsUpdate(updates'[j])
  <2>1. CASE j # i /\ UnderWay(j)
    <3>1. IsUpdate(updates[j])
      BY <2>1 DEF IInv, Shape, UnderWay, NotMade, Done
    <3>2. IsUpdate([updates[j] EXCEPT !.moved = @ \cup changed])
      BY <3>1, MoreMoved
    <3> QED  BY <1>6, <2>1, <3>2
  <2>2. CASE j # i /\ ~UnderWay(j)
    BY <1>6, <2>2 DEF IInv, Shape
  <2> QED  BY <1>9, <2>1, <2>2
<1>11. (form' = NoForm \/ IsForm(form')) /\ FormKnows'
  <2>1. CASE form.open
    <3>1. IsForm(form)
      BY <2>1 DEF IInv, Shape, NoForm
    <3>2. IsForm(form') /\ form'.data = form.data /\ form'.moved = form.moved \cup changed
      BY <1>3, <2>1, <3>1 DEF IsForm
    <3>3. ASSUME NEW a \in Attributes, a \notin form'.moved
          PROVE  form'.data[a] = FieldValue(a, attributes'[a])
      BY <1>8, <2>1, <3>2, <3>3 DEF IInv, FormKnows
    <3> QED  BY <3>2, <3>3 DEF FormKnows
  <2>2. CASE ~form.open
    BY <1>3, <2>2 DEF IInv, Shape, FormKnows, IsForm
  <2> QED  BY <2>1, <2>2
<1>12. ASSUME NEW j \in Updates, UnderWay(j)'
       PROVE  Knows(updates[j])'
  <2>1. CASE j = i
    <3>1. ASSUME NEW a \in Attributes, a \in DOMAIN updates[i].data,
                 a \notin updates[i].edited \cup updates[i].moved
          PROVE  updates[i].data[a] = FieldValue(a, attributes'[a])
      <4>1. updates[i].data[a] = FieldValue(a, attributes[a])
        BY <1>2, <3>1 DEF Knows
      <4>2. FieldValue(a, Patched(updates[i].data)[a]) = FieldValue(a, attributes[a])
        BY <1>2, <3>1, PatchKeeps
      <4> QED  BY <1>1, <4>1, <4>2 DEF record
    <3> QED  BY <1>9, <2>1, <3>1 DEF Knows
  <2>2. CASE j # i
    <3>1. UnderWay(j)
      BY <1>6, <1>12, <2>2 DEF UnderWay
    <3>2. IsUpdate(updates[j]) /\ Knows(updates[j])
      BY <3>1 DEF IInv, Shape, UpdatesKnow, UnderWay, NotMade, Done
    <3>3. /\ updates'[j].data = updates[j].data /\ updates'[j].edited = updates[j].edited
          /\ updates'[j].moved = updates[j].moved \cup changed
      BY <1>6, <2>2, <3>1, <3>2 DEF IsUpdate
    <3>4. ASSUME NEW a \in Attributes, a \in DOMAIN updates'[j].data,
                 a \notin updates'[j].edited \cup updates'[j].moved
          PROVE  updates'[j].data[a] = FieldValue(a, attributes'[a])
      BY <1>8, <3>2, <3>3, <3>4 DEF Knows
    <3> QED  BY <3>4 DEF Knows
  <2> QED  BY <2>1, <2>2
<1> QED  BY <1>4, <1>7, <1>10, <1>11, <1>12 DEF IInv, Shape, UpdatesKnow

(* A push fails, is repeated, or its response is written. *)
LEMMA PushEndStep ==
  ASSUME IInv, NEW i \in Updates, PushFails(i) \/ PushRepeated(i) \/ WriteResponse(i)
  PROVE  IInv'
<1>1. UnderWay(i)
  BY DEF PushFails, PushRepeated, WriteResponse, UnderWay
<1>2. IsUpdate(updates[i]) /\ Knows(updates[i])
  BY <1>1 DEF IInv, Shape, UpdatesKnow, UnderWay, NotMade, Done
<1>3. attributes' = attributes /\ form' = form
  BY DEF PushFails, PushRepeated, WriteResponse, recordVars
<1>4. /\ updates' = [j \in Updates |-> updates'[j]]
      /\ \A j \in Updates \ {i} : updates'[j] = updates[j]
      /\ updates'[i] = Done \/ updates'[i] = [updates[i] EXCEPT !.step = "push"]
  BY DEF PushFails, PushRepeated, WriteResponse, IInv, Shape
<1>5. \/ updates'[i] = Done
      \/ /\ IsUpdate(updates'[i])
         /\ updates'[i].data = updates[i].data /\ updates'[i].edited = updates[i].edited
         /\ updates'[i].moved = updates[i].moved
  BY <1>2, <1>4 DEF IsUpdate
<1>6. ASSUME NEW j \in Updates
      PROVE  updates'[j] \in {NotMade, Done} \/ IsUpdate(updates'[j])
  BY <1>4, <1>5 DEF IInv, Shape
<1>7. ASSUME NEW j \in Updates, UnderWay(j)'
      PROVE  Knows(updates[j])'
  <2>1. CASE j = i
    <3>1. updates'[i] # Done
      BY <1>7, <2>1 DEF UnderWay, Done
    <3> QED  BY <1>2, <1>3, <1>5, <2>1, <3>1 DEF Knows
  <2>2. CASE j # i
    BY <1>3, <1>4, <1>7, <2>2 DEF IInv, UpdatesKnow, UnderWay, Knows
  <2> QED  BY <2>1, <2>2
<1>8. FormKnows' /\ (form' = NoForm \/ IsForm(form'))
  BY <1>3 DEF IInv, Shape, FormKnows
<1> QED  BY <1>3, <1>4, <1>6, <1>7, <1>8 DEF IInv, Shape, UpdatesKnow

LEMMA StepIInv == IInv /\ [FieldsNext]_fieldVars => IInv'
BY QuietStep, OtherClientStep, SubmitStep, EditStep, PushStep, PushEndStep DEF FieldsNext

(* No other step pushes an update. *)
LEMMA OnlyPushes ==
  ASSUME IInv, FieldsNext, NEW i \in Updates,
         updates[i].step = "push", updates'[i].step = "write"
  PROVE  PushUpdate(i)
<1>1. IsUpdate(updates[i])
  BY DEF IInv, Shape, NotMade, Done
<1>2. ASSUME NEW a, NEW value, OtherClientChanges(a, value)
      PROVE  FALSE
  <2>1. updates'[i] = [updates[i] EXCEPT !.moved = @ \cup {a}]
    BY <1>2 DEF OtherClientChanges, Moved, UnderWay
  <2> QED  BY <1>1, <2>1 DEF IsUpdate
<1>3. CASE SyncRecord \/ OpenForm \/ CloseForm
  BY <1>3 DEF SyncRecord, OpenForm, CloseForm
<1>4. ASSUME NEW data, NEW edited, NEW moved, Update(data, edited, moved)
      PROVE  FALSE
  BY <1>4 DEF Update, IInv, Shape
<1>5. ASSUME NEW j \in Updates, PushUpdate(j), j # i
      PROVE  FALSE
  <2>1. PICK S : updates'[i] = [updates[i] EXCEPT !.moved = @ \cup S]
    BY <1>5 DEF PushUpdate, UnderWay
  <2> QED  BY <1>1, <2>1 DEF IsUpdate
<1>6. ASSUME NEW j \in Updates, PushFails(j) \/ PushRepeated(j) \/ WriteResponse(j)
      PROVE  FALSE
  BY <1>6 DEF PushFails, PushRepeated, WriteResponse, IInv, Shape, Done
<1> QED  BY <1>2, <1>3, <1>4, <1>5, <1>6 DEF FieldsNext, SubmitForm, EditCell

(* What the form and the updates under way are sure of is so in PCO. *)
THEOREM FormsKnowPco == FieldsSpec => []IInv
BY InitIInv, StepIInv, PTL DEF FieldsSpec

(* A push only changes in PCO what the user edited, what had moved in PCO  *)
(* since the form showed it, and the custom fields that an edited cell     *)
(* leaves out: updateEntity and the transformer between them lose no other *)
(* field, for any attributes and any number of forms, cells and repeats.   *)
THEOREM PushesKeepTheRest == FieldsSpec => PushKeepsTheRest
<1> DEFINE Kept(i) ==
      updates[i].step = "push" /\ updates'[i].step = "write" =>
        {a \in Attributes : FieldValue(a, attributes'[a]) # FieldValue(a, attributes[a])}
          \subseteq updates[i].edited \cup updates[i].moved
                      \cup (Custom \ DOMAIN updates[i].data)
<1>1. IInv /\ [FieldsNext]_fieldVars => [\A i \in Updates : Kept(i)]_fieldVars
  <2> SUFFICES ASSUME IInv, FieldsNext, NEW i \in Updates,
                      updates[i].step = "push", updates'[i].step = "write"
               PROVE  Kept(i)
    OBVIOUS
  <2>1. PushUpdate(i)
    BY OnlyPushes
  <2>2. Knows(updates[i]) /\ attributes' = Patched(updates[i].data)
    BY <2>1 DEF PushUpdate, IInv, UpdatesKnow, UnderWay
  <2> QED  BY <2>2, PatchKeeps
<1> QED  BY <1>1, FormsKnowPco, PTL DEF FieldsSpec, PushKeepsTheRest
-----------------------------------------------------------------------------
(* UpdatesSettle.  A version of the record has one content; a field of a   *)
(* row that is as new as the record shows what PCO has or what an update   *)
(* that is still to be pushed brings; an entry is in PCO or in such an     *)
(* update, which then has no rival.                                        *)

Fit(data) ==
  \A a \in DOMAIN data \cap Attributes : FieldValue(a, AttributeValue(a, data[a])) = data[a]
FieldsFit ==
  /\ DOMAIN fields = Attributes /\ Fit(fields)
  /\ form.open => DOMAIN form.data = Attributes /\ Fit(form.data)
  /\ \A i \in Updates : UnderWay(i) =>
       Fit(updates[i].data) /\ updates[i].edited \subseteq DOMAIN updates[i].data

VersionsTell ==
  /\ version \in Nat /\ linkVersion \in Nat /\ linkVersion <= version
  /\ \A i \in Updates : updates[i].step = "write" =>
       /\ updates[i].answered \in Nat /\ updates[i].answered <= version
       /\ updates[i].answered = version => updates[i].answer = attributes

ToPush(a) == {i \in Updates : updates[i].step = "push" /\ a \in DOMAIN updates[i].data}
Shows(a) ==
  \/ fields[a] = FieldValue(a, attributes[a])
  \/ \E i \in ToPush(a) : fields[a] = updates[i].data[a]
RowShows == linkVersion = version => \A a \in Attributes \ unaccepted : Shows(a)

EntriesAgree ==
  \A i \in Updates : UnderWay(i) => \A a \in updates[i].edited \cap Standard :
    Entered(a) => updates[i].data[a] = entered[a]

Arrives(a) ==
  \/ FieldValue(a, attributes[a]) = entered[a]
  \/ \E i \in Updates : updates[i].step = "push" /\ a \in updates[i].edited
EntriesArrive == \A a \in Standard \cap Updatable : Entered(a) => Arrives(a)

SInv == IInv /\ FieldsFit /\ VersionsTell /\ RowShows /\ EntriesAgree /\ EntriesArrive

(* The same push, but for what has moved. *)
Alike(u, v) ==
  /\ u.step = v.step
  /\ u.step \in {"push", "write"} =>
       /\ u.data = v.data /\ u.edited = v.edited
       /\ u.answer = v.answer /\ u.answered = v.answered

LEMMA MovedAlike ==
  ASSUME NEW u, IsUpdate(u), NEW S
  PROVE  Alike([u EXCEPT !.moved = @ \cup S], u)
BY DEF IsUpdate, Alike

LEMMA UnderWayIsUpdate ==
  ASSUME IInv, NEW i \in Updates, UnderWay(i)
  PROVE  IsUpdate(updates[i])
BY DEF IInv, Shape, UnderWay, NotMade, Done

(* What is read from PCO, and what users enter, are values of fields. *)
LEMMA DecodeFits ==
  ASSUME NEW record PROVE DOMAIN Decode(record) = Attributes /\ Fit(Decode(record))
BY RoundTrip DEF Decode, Fit

LEMMA EntryFits ==
  ASSUME NEW a \in Standard, NEW v \in Entries[a]
  PROVE  FieldValue(a, AttributeValue(a, v)) = v
<1>1. CASE Kind[a] = "gender"
  <2>1. v \in {"male", "female", Null}
    BY <1>1, FieldAssumption
  <2> QED  BY <1>1, <2>1, AttributeAssumption DEF FieldValue, AttributeValue, OneGender, PcoGender
<1>2. CASE Kind[a] # "gender"
  BY <1>2 DEF FieldValue, AttributeValue
<1> QED  BY <1>1, <1>2

LEMMA InitSInv == FieldsInit => SInv
<1> SUFFICES ASSUME FieldsInit PROVE SInv
  OBVIOUS
<1>1. IInv
  BY InitIInv
<1>2. \A i \in Updates : ~UnderWay(i) /\ updates[i].step = "none"
  BY DEF FieldsInit, UnderWay, NotMade
<1>3. FieldsFit
  BY <1>2, DecodeFits DEF FieldsInit, FieldsFit, NoForm
<1>4. VersionsTell
  BY <1>2 DEF FieldsInit, VersionsTell
<1>5. RowShows
  BY DEF FieldsInit, RowShows, Shows, Decode
<1>6. EntriesAgree /\ EntriesArrive
  BY <1>2 DEF FieldsInit, EntriesAgree, EntriesArrive, Entered
<1> QED  BY <1>1, <1>3, <1>4, <1>5, <1>6 DEF SInv

(* The record changes and has a new version: only the entries count.       *)
LEMMA NewVersion ==
  ASSUME SInv, version' = version + 1, UNCHANGED linkVersion,
         \A i \in Updates : updates'[i].step = "write" =>
           \/ Alike(updates'[i], updates[i])
           \/ updates'[i].answered = version' /\ updates'[i].answer = attributes'
  PROVE  VersionsTell' /\ RowShows'
<1>1. version \in Nat /\ linkVersion \in Nat /\ linkVersion <= version
  BY DEF SInv, VersionsTell
<1>2. ASSUME NEW i \in Updates, updates'[i].step = "write"
      PROVE  /\ updates'[i].answered \in Nat /\ updates'[i].answered <= version'
             /\ updates'[i].answered = version' => updates'[i].answer = attributes'
  <2>1. CASE Alike(updates'[i], updates[i])
    <3>1. updates[i].step = "write" /\ updates'[i].answered = updates[i].answered
      BY <1>2, <2>1 DEF Alike
    <3>2. updates[i].answered \in Nat /\ updates[i].answered <= version
      BY <3>1 DEF SInv, VersionsTell
    <3> QED  BY <1>1, <3>1, <3>2
  <2>2. CASE updates'[i].answered = version' /\ updates'[i].answer = attributes'
    BY <1>1, <2>2
  <2> QED  BY <1>2, <2>1, <2>2
<1> QED  BY <1>1, <1>2 DEF VersionsTell, RowShows

(* Fields, forms and updates under way have what they had. *)
LEMMA FitKept ==
  ASSUME SInv, UNCHANGED fields,
         form'.open => form.open /\ form'.data = form.data,
         \A i \in Updates : UnderWay(i)' =>
           /\ UnderWay(i)
           /\ updates'[i].data = updates[i].data /\ updates'[i].edited = updates[i].edited
  PROVE  FieldsFit'
BY DEF SInv, FieldsFit, Fit

(* No entry is made, those that stay are in the record or on their way.    *)
LEMMA EntriesKept ==
  ASSUME SInv,
         \A i \in Updates : UnderWay(i)' =>
           /\ UnderWay(i)
           /\ updates'[i].data = updates[i].data /\ updates'[i].edited = updates[i].edited,
         \A a \in Standard : Entered(a)' => entered'[a] = entered[a]
  PROVE  EntriesAgree'
BY DEF SInv, EntriesAgree, Entered

LEMMA OtherClientSettles ==
  ASSUME SInv, NEW a \in Attributes, NEW value, OtherClientChanges(a, value)
  PROVE  SInv'
<1>1. IInv'
  BY OtherClientStep DEF SInv
<1>2. \A b \in Attributes \ {a} : attributes'[b] = attributes[b]
  BY DEF OtherClientChanges
<1>3. ASSUME NEW i \in Updates PROVE Alike(updates'[i], updates[i])
  <2>1. CASE UnderWay(i)
    <3>1. updates'[i] = [updates[i] EXCEPT !.moved = @ \cup {a}]
      BY <2>1 DEF OtherClientChanges, Moved
    <3> QED  BY <2>1, <3>1, UnderWayIsUpdate, MovedAlike DEF SInv
  <2>2. CASE ~UnderWay(i)
    BY <2>2 DEF OtherClientChanges, Moved, Alike
  <2> QED  BY <2>1, <2>2
<1>4. \A i \in Updates : UnderWay(i)' =>
        /\ UnderWay(i)
        /\ updates'[i].data = updates[i].data /\ updates'[i].edited = updates[i].edited
  BY <1>3 DEF Alike, UnderWay
<1>5. VersionsTell' /\ RowShows'
  BY <1>3, NewVersion DEF OtherClientChanges, rowVars
<1>6. form'.open => form.open /\ form'.data = form.data
  BY DEF OtherClientChanges, Moved, SInv, IInv, Shape, IsForm, NoForm
<1>7. FieldsFit'
  BY <1>4, <1>6, FitKept DEF OtherClientChanges, rowVars
<1>8. /\ \A b \in Standard : Entered(b)' => entered'[b] = entered[b]
      /\ \A b \in Standard : Entered(b)' => Entered(b) /\ b # a
  BY DEF OtherClientChanges, Entered
<1>9. EntriesAgree'
  BY <1>4, <1>8, EntriesKept
<1>10. ASSUME NEW b \in Standard \cap Updatable, Entered(b)'
       PROVE  Arrives(b)'
  <2>1. Arrives(b) /\ b # a /\ entered'[b] = entered[b]
    BY <1>8, <1>10 DEF SInv, EntriesArrive
  <2>2. attributes'[b] = attributes[b]
    BY <1>2, <2>1 DEF Standard
  <2>3. ASSUME NEW i \in Updates, updates[i].step = "push" /\ b \in updates[i].edited
        PROVE  updates'[i].step = "push" /\ b \in updates'[i].edited
    BY <1>3, <2>3 DEF Alike
  <2> QED  BY <2>1, <2>2, <2>3 DEF Arrives
<1> QED  BY <1>1, <1>5, <1>7, <1>9, <1>10 DEF SInv, EntriesArrive

LEMMA QuietSettles ==
  ASSUME SInv, SyncRecord \/ OpenForm \/ CloseForm \/ UNCHANGED fieldVars
  PROVE  SInv'
<1>1. IInv'
  BY QuietStep DEF SInv
<1>2. UNCHANGED <<attributes, version, updates, entered>>
  BY DEF SyncRecord, OpenForm, CloseForm, fieldVars, recordVars
<1>3. EntriesAgree' /\ EntriesArrive'
  BY <1>2 DEF SInv, EntriesAgree, EntriesArrive, Arrives, Entered, UnderWay
<1>4. CASE SyncRecord
  <2>1. linkVersion' = version /\ fields' = Decode(attributes) /\ form' = form
    BY <1>4 DEF SyncRecord, Written, Differs
  <2>2. RowShows'
    BY <1>2, <2>1 DEF RowShows, Shows, Decode
  <2>3. VersionsTell'
    BY <1>2, <2>1 DEF SInv, VersionsTell
  <2>4. FieldsFit'
    BY <1>2, <2>1, DecodeFits DEF SInv, FieldsFit, Fit, UnderWay
  <2> QED  BY <1>1, <1>3, <2>2, <2>3, <2>4 DEF SInv
<1>5. CASE ~SyncRecord
  <2>1. UNCHANGED <<fields, linkVersion, unaccepted>>
    BY <1>5 DEF OpenForm, CloseForm, fieldVars, rowVars
  <2>2. RowShows' /\ VersionsTell'
    BY <1>2, <2>1 DEF SInv, RowShows, Shows, ToPush, VersionsTell
  <2>3. form'.open => form'.data = fields \/ (form.open /\ form'.data = form.data)
    BY <1>5 DEF OpenForm, CloseForm, fieldVars, NoForm
  <2>4. FieldsFit'
    BY <1>2, <2>1, <2>3 DEF SInv, FieldsFit, Fit, UnderWay
  <2> QED  BY <1>1, <1>3, <2>2, <2>4 DEF SInv
<1> QED  BY <1>4, <1>5

(* An update from the form or a cell: what it has fits.                    *)
LEMMA UpdateSettles ==
  ASSUME SInv, NEW data, NEW edited, NEW moved, Update(data, edited, moved), IInv',
         Fit(data), edited \subseteq DOMAIN data, form' = NoForm \/ form' = form
  PROVE  SInv'
<1>1. PICK i \in Updates :
        /\ updates[i] = NotMade
        /\ updates' = [updates EXCEPT ![i] =
                        [data |-> data, edited |-> edited, moved |-> moved, step |-> "push",
                         answer |-> attributes, answered |-> version]]
  BY DEF Update
<1>2. UNCHANGED <<attributes, version, linkVersion, unaccepted>>
  BY DEF Update, recordVars
<1>3. /\ \A j \in Updates \ {i} : updates'[j] = updates[j]
      /\ updates'[i].data = data /\ updates'[i].edited = edited /\ updates'[i].step = "push"
  BY <1>1 DEF SInv, IInv, Shape
<1>4. ~UnderWay(i) /\ updates[i].step = "none"
  BY <1>1 DEF UnderWay, NotMade
<1>5. fields' = [a \in Attributes |-> IF a \in DOMAIN data THEN data[a] ELSE fields[a]]
  BY DEF Update
<1>6. FieldsFit'
  <2>1. DOMAIN fields' = Attributes /\ Fit(fields')
    BY <1>5 DEF SInv, FieldsFit, Fit
  <2>2. form'.open => DOMAIN form'.data = Attributes /\ Fit(form'.data)
    BY DEF SInv, FieldsFit, NoForm
  <2>3. ASSUME NEW j \in Updates, UnderWay(j)'
        PROVE  Fit(updates'[j].data) /\ updates'[j].edited \subseteq DOMAIN updates'[j].data
    BY <1>3, <2>3 DEF SInv, FieldsFit, UnderWay
  <2> QED  BY <2>1, <2>2, <2>3 DEF FieldsFit, Fit
<1>7. VersionsTell'
  BY <1>2, <1>3 DEF SInv, VersionsTell
<1>8. ASSUME linkVersion' = version', NEW a \in Attributes \ unaccepted'
      PROVE  Shows(a)'
  <2>1. CASE a \in DOMAIN data
    BY <1>3, <1>5, <2>1 DEF Shows, ToPush
  <2>2. CASE a \notin DOMAIN data
    <3>1. Shows(a) /\ fields'[a] = fields[a]
      BY <1>2, <1>5, <1>8, <2>2 DEF SInv, RowShows
    <3>2. ASSUME NEW j \in Updates, updates[j].step = "push"
          PROVE  updates'[j] = updates[j]
      BY <1>3, <1>4, <3>2
    <3> QED  BY <1>2, <3>1, <3>2 DEF Shows, ToPush
  <2> QED  BY <2>1, <2>2
<1>9. entered' = [a \in Standard |->
         IF a \notin edited THEN entered[a]
         ELSE IF \E j \in Updates : UnderWay(j) /\ a \in DOMAIN updates[j].data
         THEN NoEntry ELSE data[a]]
  BY DEF Update
<1>10. ASSUME NEW j \in Updates, UnderWay(j)', NEW a \in updates'[j].edited \cap Standard,
              Entered(a)'
       PROVE  updates'[j].data[a] = entered'[a]
  <2>1. CASE j = i
    BY <1>3, <1>9, <1>10, <2>1 DEF Entered
  <2>2. CASE j # i
    <3>1. UnderWay(j) /\ updates'[j] = updates[j]
      BY <1>3, <1>10, <2>2 DEF UnderWay
    <3>2. a \in DOMAIN updates[j].data
      BY <1>10, <3>1 DEF SInv, FieldsFit
    <3>3. entered'[a] = entered[a] /\ Entered(a)
      BY <1>9, <1>10, <3>1, <3>2 DEF Entered
    <3> QED  BY <1>10, <3>1, <3>3 DEF SInv, EntriesAgree
  <2> QED  BY <2>1, <2>2
<1>11. ASSUME NEW a \in Standard \cap Updatable, Entered(a)'
       PROVE  Arrives(a)'
  <2>1. CASE a \in edited
    BY <1>3, <2>1 DEF Arrives
  <2>2. CASE a \notin edited
    <3>1. entered'[a] = entered[a] /\ Entered(a)
      BY <1>9, <1>11, <2>2 DEF Entered
    <3>2. Arrives(a)
      BY <3>1 DEF SInv, EntriesArrive
    <3>3. ASSUME NEW j \in Updates, updates[j].step = "push"
          PROVE  updates'[j] = updates[j]
      BY <1>3, <1>4, <3>3
    <3> QED  BY <1>2, <3>1, <3>2, <3>3 DEF Arrives
  <2> QED  BY <2>1, <2>2
<1> QED  BY <1>6, <1>7, <1>8, <1>10, <1>11 DEF SInv, RowShows, EntriesAgree, EntriesArrive

LEMMA SubmitSettles ==
  ASSUME SInv, NEW edits \in Edits, \A a \in DOMAIN edits : edits[a] \in Entries[a],
         SubmitForm(edits)
  PROVE  SInv'
<1>1. DOMAIN edits \subseteq Standard
  BY DEF Edits
<1>2. DOMAIN FormData(edits) = Attributes
  BY DEF FormData
<1>3. ASSUME NEW a \in Attributes
      PROVE  FieldValue(a, AttributeValue(a, FormData(edits)[a])) = FormData(edits)[a]
  <2>1. CASE a \in DOMAIN edits
    BY <1>1, <2>1, EntryFits DEF FormData
  <2>2. CASE a \notin DOMAIN edits
    <3>1. form.open /\ DOMAIN form.data = Attributes /\ Fit(form.data)
      BY DEF SubmitForm, SInv, FieldsFit
    <3> QED  BY <2>2, <3>1 DEF FormData, Fit
  <2> QED  BY <2>1, <2>2
<1>4. Fit(FormData(edits)) /\ DOMAIN edits \subseteq DOMAIN FormData(edits)
  BY <1>1, <1>2, <1>3 DEF Fit, Standard
<1>5. IInv'
  BY SubmitStep DEF SInv
<1> QED  BY <1>4, <1>5, UpdateSettles DEF SubmitForm

LEMMA EditSettles ==
  ASSUME SInv, NEW a \in Standard, NEW value \in Entries[a], EditCell(a, value)
  PROVE  SInv'
<1>1. Fit([b \in {a} |-> value]) /\ {a} \subseteq DOMAIN [b \in {a} |-> value]
  BY EntryFits DEF Fit
<1>2. IInv'
  BY EditStep DEF SInv
<1> QED  BY <1>1, <1>2, UpdateSettles DEF EditCell

(* An attribute that an update sends and PCO takes reads as it was sent.   *)
LEMMA SentIsRead ==
  ASSUME NEW data, Fit(data), NEW a \in Attributes, a \in DOMAIN data, a \in Updatable
  PROVE  FieldValue(a, Patched(data)[a]) = data[a]
BY PatchedAttribute DEF Fit

LEMMA PushSettles ==
  ASSUME SInv, NEW i \in Updates, PushUpdate(i)
  PROVE  SInv'
<1> DEFINE record == Patched(updates[i].data)
           changed == {a \in Attributes : record[a] # attributes[a]}
<1>1. IInv'
  BY PushStep DEF SInv
<1>2. updates[i].step = "push" /\ attributes' = record /\ UNCHANGED <<fields, linkVersion>>
  BY DEF PushUpdate, rowVars
<1>3. UnderWay(i) /\ IsUpdate(updates[i])
  BY <1>2, UnderWayIsUpdate DEF UnderWay, SInv
<1>4. /\ version' = IF changed = {} THEN version ELSE version + 1
      /\ unaccepted' = IF changed # {} THEN unaccepted
                       ELSE unaccepted \cup (DOMAIN updates[i].data \ Updatable)
      /\ entered' = [a \in Standard |->
                       IF a \in changed \ updates[i].edited THEN NoEntry ELSE entered[a]]
      /\ form' = IF form.open THEN [form EXCEPT !.moved = @ \cup changed] ELSE form
      /\ updates'[i] = [updates[i] EXCEPT !.step = "write", !.answer = record,
                                          !.answered = version']
      /\ \A j \in Updates \ {i} :
           updates'[j] = IF UnderWay(j) THEN [updates[j] EXCEPT !.moved = @ \cup changed]
                         ELSE updates[j]
  BY DEF PushUpdate
<1>5. record = [a \in Attributes |-> record[a]] /\ attributes = [a \in Attributes |-> attributes[a]]
  BY DEF Patched, SInv, IInv, Shape
<1>6. changed = {} => attributes' = attributes
  <2>1. changed = {} => \A a \in Attributes : record[a] = attributes[a]
    OBVIOUS
  <2> QED  BY <1>2, <1>5, <2>1
<1>7. \A a \in Attributes \ changed : attributes'[a] = attributes[a]
  BY <1>2
<1>8. \A a \in Attributes : a \in DOMAIN updates[i].data /\ a \in Updatable =>
        FieldValue(a, attributes'[a]) = updates[i].data[a]
  BY <1>2, <1>3, SentIsRead DEF SInv, FieldsFit
<1> HIDE DEF record, changed
<1>9. /\ updates'[i].step = "write" /\ updates'[i].answer = attributes'
      /\ updates'[i].answered = version'
      /\ updates'[i].data = updates[i].data /\ updates'[i].edited = updates[i].edited
  BY <1>2, <1>3, <1>4 DEF IsUpdate
<1>10. ASSUME NEW j \in Updates \ {i} PROVE Alike(updates'[j], updates[j])
  <2>1. CASE UnderWay(j)
    <3>1. IsUpdate(updates[j])
      BY <2>1, UnderWayIsUpdate DEF SInv
    <3>2. Alike([updates[j] EXCEPT !.moved = @ \cup changed], updates[j])
      BY <3>1, MovedAlike
    <3> QED  BY <1>4, <2>1, <3>2
  <2>2. CASE ~UnderWay(j)
    BY <1>4, <2>2 DEF Alike
  <2> QED  BY <2>1, <2>2
<1>11. ASSUME NEW j \in Updates, UnderWay(j)'
       PROVE  /\ UnderWay(j)
              /\ updates'[j].data = updates[j].data /\ updates'[j].edited = updates[j].edited
  BY <1>3, <1>9, <1>10, <1>11 DEF Alike, UnderWay
<1>12. FieldsFit'
  <2>1. form'.open => form.open /\ form'.data = form.data
    BY <1>4 DEF SInv, IInv, Shape, IsForm, NoForm
  <2> QED  BY <1>2, <1>11, <2>1, FitKept
<1>13. VersionsTell' /\ RowShows'
  <2>1. CASE changed # {}
    BY <1>2, <1>4, <1>9, <1>10, <2>1, NewVersion
  <2>2. CASE changed = {}
    <3>1. version' = version /\ attributes' = attributes
      BY <1>4, <1>6, <2>2
    <3>2. VersionsTell'
      BY <1>2, <1>9, <1>10, <3>1 DEF SInv, VersionsTell, Alike
    <3>3. ASSUME linkVersion' = version', NEW a \in Attributes \ unaccepted'
          PROVE  Shows(a)'
      <4>1. Shows(a)
        BY <1>2, <1>4, <2>2, <3>1, <3>3 DEF SInv, RowShows
      <4>2. CASE fields[a] = FieldValue(a, attributes[a])
        BY <1>2, <3>1, <4>2 DEF Shows
      <4>3. ASSUME NEW j \in ToPush(a), fields[a] = updates[j].data[a]
            PROVE  Shows(a)'
        <5>1. CASE j = i
          <6>1. a \in DOMAIN updates[i].data /\ a \in Updatable
            BY <1>4, <2>2, <3>3, <4>3, <5>1 DEF ToPush
          <6> QED  BY <1>2, <1>8, <4>3, <5>1, <6>1 DEF Shows
        <5>2. CASE j # i
          BY <1>2, <1>10, <4>3, <5>2 DEF Shows, ToPush, Alike
        <5> QED  BY <5>1, <5>2
      <4> QED  BY <4>1, <4>2, <4>3 DEF Shows
    <3> QED  BY <3>2, <3>3 DEF RowShows
  <2> QED  BY <2>1, <2>2
<1>14. \A a \in Standard : Entered(a)' =>
         /\ entered'[a] = entered[a] /\ Entered(a)
         /\ a \notin changed \/ a \in updates[i].edited
  BY <1>4 DEF Entered
<1>15. EntriesAgree'
  BY <1>11, <1>14, EntriesKept
<1>16. ASSUME NEW a \in Standard \cap Updatable, Entered(a)'
       PROVE  Arrives(a)'
  <2>1. Entered(a) /\ entered'[a] = entered[a] /\ (a \notin changed \/ a \in updates[i].edited)
    BY <1>14, <1>16
  <2>2. CASE a \in updates[i].edited
    <3>1. updates[i].data[a] = entered[a] /\ a \in DOMAIN updates[i].data
      BY <1>3, <2>1, <2>2 DEF SInv, EntriesAgree, FieldsFit
    <3> QED  BY <1>8, <2>1, <3>1 DEF Arrives, Standard
  <2>3. CASE a \notin updates[i].edited
    <3>1. attributes'[a] = attributes[a]
      BY <1>7, <2>1, <2>3 DEF Standard
    <3>2. Arrives(a)
      BY <2>1 DEF SInv, EntriesArrive
    <3>3. ASSUME NEW j \in Updates, updates[j].step = "push", a \in updates[j].edited
          PROVE  updates'[j].step = "push" /\ a \in updates'[j].edited
      BY <1>10, <2>3, <3>3 DEF Alike
    <3> QED  BY <2>1, <3>1, <3>2, <3>3 DEF Arrives
  <2> QED  BY <2>2, <2>3
<1> QED  BY <1>1, <1>12, <1>13, <1>15, <1>16 DEF SInv, EntriesArrive

(* It fails, or is to be repeated: there is no response any more.          *)
LEMMA PushUndoneSettles ==
  ASSUME SInv, NEW i \in Updates, PushFails(i) \/ PushRepeated(i)
  PROVE  SInv'
<1>1. IInv'
  BY PushEndStep DEF SInv
<1>2. UNCHANGED <<attributes, version, fields, linkVersion, form>>
  BY DEF PushFails, PushRepeated, recordVars, rowVars
<1>3. UnderWay(i) /\ IsUpdate(updates[i])
  BY UnderWayIsUpdate DEF PushFails, PushRepeated, UnderWay, SInv
<1>4. \A j \in Updates \ {i} : updates'[j] = updates[j]
  BY DEF PushFails, PushRepeated, SInv, IInv, Shape
<1>5. \/ /\ PushFails(i) /\ updates'[i].step = "done"
         /\ unaccepted' = unaccepted \cup DOMAIN updates[i].data
         /\ entered' = [a \in Standard |->
                          IF a \in updates[i].edited THEN NoEntry ELSE entered[a]]
      \/ /\ updates[i].step = "write" /\ updates'[i].step = "push"
         /\ updates'[i].data = updates[i].data /\ updates'[i].edited = updates[i].edited
         /\ UNCHANGED <<unaccepted, entered>>
  BY <1>3 DEF PushFails, PushRepeated, SInv, IInv, Shape, IsUpdate, Done
<1>6. \A j \in Updates : UnderWay(j)' =>
        /\ UnderWay(j)
        /\ updates'[j].data = updates[j].data /\ updates'[j].edited = updates[j].edited
  BY <1>3, <1>4, <1>5 DEF UnderWay
<1>7. FieldsFit'
  BY <1>2, <1>6, FitKept
<1>8. VersionsTell'
  BY <1>2, <1>4, <1>5 DEF SInv, VersionsTell
<1>9. ASSUME linkVersion' = version', NEW a \in Attributes \ unaccepted'
      PROVE  Shows(a)'
  BY <1>2, <1>4, <1>5, <1>9 DEF SInv, RowShows, Shows, ToPush
<1>10. /\ \A a \in Standard : Entered(a)' => entered'[a] = entered[a] /\ Entered(a)
       /\ updates'[i].step = "done" => \A a \in Standard : Entered(a)' => a \notin updates[i].edited
  BY <1>5 DEF Entered
<1>11. EntriesAgree'
  BY <1>6, <1>10, EntriesKept
<1>12. ASSUME NEW a \in Standard \cap Updatable, Entered(a)'
       PROVE  Arrives(a)'
  <2>1. Arrives(a) /\ entered'[a] = entered[a]
    BY <1>10, <1>12 DEF SInv, EntriesArrive
  <2>2. ASSUME NEW j \in Updates, updates[j].step = "push", a \in updates[j].edited
        PROVE  updates'[j].step = "push" /\ a \in updates'[j].edited
    BY <1>4, <1>5, <1>10, <1>12, <2>2
  <2> QED  BY <1>2, <2>1, <2>2 DEF Arrives
<1> QED  BY <1>1, <1>7, <1>8, <1>9, <1>11, <1>12 DEF SInv, RowShows, EntriesArrive

(* The response is written: if it is the record as it is, so is the row.   *)
LEMMA ResponseSettles ==
  ASSUME SInv, NEW i \in Updates, WriteResponse(i)
  PROVE  SInv'
<1>1. IInv'
  BY PushEndStep DEF SInv
<1>2. updates[i].step = "write" /\ UNCHANGED <<attributes, version, form, entered>>
  BY DEF WriteResponse, recordVars
<1>3. /\ \A j \in Updates \ {i} : updates'[j] = updates[j]
      /\ updates'[i].step = "done"
  BY DEF WriteResponse, SInv, IInv, Shape, Done
<1>4. /\ linkVersion' = updates[i].answered
      /\ \/ /\ linkVersion # updates[i].answered /\ unaccepted' = {}
            /\ fields' = Decode(updates[i].answer)
         \/ UNCHANGED <<linkVersion, fields, unaccepted>>
  BY DEF WriteResponse, Written, Differs
<1>5. VersionsTell'
  BY <1>2, <1>3, <1>4 DEF SInv, VersionsTell
<1>6. ASSUME linkVersion' = version', NEW a \in Attributes \ unaccepted'
      PROVE  Shows(a)'
  <2>1. CASE fields' = Decode(updates[i].answer)
    <3>1. updates[i].answer = attributes
      BY <1>2, <1>4, <1>6 DEF SInv, VersionsTell
    <3> QED  BY <1>2, <2>1, <3>1 DEF Shows, Decode
  <2>2. CASE UNCHANGED <<linkVersion, fields, unaccepted>>
    BY <1>2, <1>3, <1>6, <2>2 DEF SInv, RowShows, Shows, ToPush
  <2> QED  BY <1>4, <2>1, <2>2
<1>7. \A j \in Updates : UnderWay(j)' => UnderWay(j) /\ updates'[j] = updates[j]
  BY <1>3 DEF UnderWay
<1>8. FieldsFit'
  BY <1>2, <1>4, <1>7, DecodeFits DEF SInv, FieldsFit, Fit
<1>9. EntriesAgree'
  BY <1>2, <1>7, EntriesKept DEF Entered
<1>10. EntriesArrive'
  BY <1>2, <1>3 DEF SInv, EntriesArrive, Arrives, Entered
<1> QED  BY <1>1, <1>5, <1>6, <1>8, <1>9, <1>10 DEF SInv, RowShows

LEMMA StepSInv == SInv /\ [FieldsNext]_fieldVars => SInv'
<1> SUFFICES ASSUME SInv, [FieldsNext]_fieldVars PROVE SInv'
  OBVIOUS
<1>1. ASSUME NEW a \in Attributes, NEW value, OtherClientChanges(a, value) PROVE SInv'
  BY <1>1, OtherClientSettles
<1>2. CASE SyncRecord \/ OpenForm \/ CloseForm \/ UNCHANGED fieldVars
  BY <1>2, QuietSettles
<1>3. ASSUME NEW edits \in Edits, \A a \in DOMAIN edits : edits[a] \in Entries[a],
             SubmitForm(edits)
      PROVE  SInv'
  BY <1>3, SubmitSettles
<1>4. ASSUME NEW a \in Standard, NEW value \in Entries[a], EditCell(a, value) PROVE SInv'
  BY <1>4, EditSettles
<1>5. ASSUME NEW i \in Updates,
             PushUpdate(i) \/ PushFails(i) \/ PushRepeated(i) \/ WriteResponse(i)
      PROVE  SInv'
  BY <1>5, PushSettles, PushUndoneSettles, ResponseSettles
<1> QED  BY <1>1, <1>2, <1>3, <1>4, <1>5 DEF FieldsNext

(* When nothing is under way, the last entry in a field is in PCO and the  *)
(* row shows PCO's record, but for what failed, was contended or is not    *)
(* PCO's to take: the forms, cells, syncs, other clients and repeated      *)
(* pushes of one record end in one content, in whatever order they come    *)
(* (updateEntity, the transformer, the externalLink and entity upserts).   *)
THEOREM UpdatesComeToRest == FieldsSpec => []UpdatesSettle
<1>1. SInv => UpdatesSettle
  <2> SUFFICES ASSUME SInv, FieldsQuiet PROVE UpdatesSettle
    BY DEF UpdatesSettle
  <2>1. \A i \in Updates : updates[i].step # "push"
    BY DEF FieldsQuiet, UnderWay
  <2>2. ASSUME NEW a \in Standard \cap Updatable, Entered(a)
        PROVE  FieldValue(a, attributes[a]) = entered[a]
    BY <2>1, <2>2 DEF SInv, EntriesArrive, Arrives
  <2>3. ASSUME NEW a \in Attributes \ unaccepted
        PROVE  fields[a] = FieldValue(a, attributes[a])
    BY <2>1, <2>3 DEF SInv, RowShows, Shows, ToPush, FieldsQuiet
  <2> QED  BY <2>2, <2>3 DEF UpdatesSettle
<1> QED  BY <1>1, InitSInv, StepSInv, PTL DEF FieldsSpec
=============================================================================
