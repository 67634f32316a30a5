--------------------------- MODULE PcoTransformer ---------------------------
(***************************************************************************)
(* pcoToOf: between the attributes of a PCO record and the fields of an    *)
(* entity.  An attribute without a field of its own is a custom field,     *)
(* under the same name here as there.  An update is part of the fields:    *)
(* what it has of custom fields it has in one column, all or none.  Every  *)
(* value is a string, or Null; attributes that are skipped or left out by  *)
(* PCO are not modelled.                                                   *)
(***************************************************************************)
EXTENDS Functions

CONSTANTS
  Attributes,  \* of a PCO record, without those the transformer skips
  Custom,      \* those marked OfCustomField
  Kind,        \* the type of each
  Values,      \* the values PCO's schema allows each to have
  Updatable,   \* the attributes an update may send
  Null

Kinds == {"boolean", "number", "string", "gender", "other"}
Standard == Attributes \ Custom
PcoValues == UNION {Values[a] : a \in Attributes}
PcoRecords == {r \in [Attributes -> PcoValues] : \A a \in Attributes : r[a] \in Values[a]}

ASSUME AttributeAssumption ==
  /\ Custom \subseteq Attributes /\ Updatable \subseteq Attributes
  /\ Kind \in [Attributes -> Kinds]
  /\ Null \notin {"Male", "M", "Female", "F"}

(* The two spellings of a gender in PCO are one in a field. *)
OneGender(value) ==
  IF value \in {"Male", "M"} THEN "male" ELSE IF value \in {"Female", "F"} THEN "female" ELSE Null
PcoGender(value) ==
  IF value = "male" THEN "Male" ELSE IF value = "female" THEN "Female" ELSE value

FieldValue(a, value) == IF Kind[a] = "gender" THEN OneGender(value) ELSE value
AttributeValue(a, value) == IF Kind[a] = "gender" THEN PcoGender(value) ELSE value

Decode(record) == [a \in Attributes |-> FieldValue(a, record[a])]

(* getDefaultValueForCustomField.  In the schema of the partial            *)
(* transformer an attribute that may be null is a union within a union,    *)
(* and isNullableType only looks at the outer one.                         *)
Default(a) ==
  CASE Kind[a] = "boolean" -> "false"
    [] Kind[a] = "number" -> "0"
    [] Kind[a] = "string" -> ""
    [] OTHER -> Null

(* An update's fields as attributes.  A standard field that is missing is  *)
(* left out, a custom one gets a default.  Broken variant: a value that is *)
(* null gets the default as well.                                          *)
NotNull(a, data) == a \in DOMAIN data /\ data[a] # Null
Has(a, data) == a \in DOMAIN data
Encode(data) ==
  [a \in DOMAIN data \cup Custom |->
     IF Has(a, data) THEN AttributeValue(a, data[a]) ELSE Default(a)]

(* The encoded update is checked against PCO's schema as a whole; then     *)
(* what PCO does not let an update send is left out.                       *)
Encodable(data) == \A a \in DOMAIN Encode(data) : Encode(data)[a] \in Values[a]
Payload(data) == Restrict(Encode(data), DOMAIN Encode(data) \cap Updatable)
=============================================================================
