---------------------------- MODULE TableFilters ----------------------------
(***************************************************************************)
(* The filters of a collection's table and the controls that edit them: at *)
(* most one popover is open.  Options, dates, operators and removals       *)
(* change the filters at once; a number or a text goes through timers that *)
(* are not stopped when the control that started them is gone: half a      *)
(* second in the input, and for a number half a second more in the control.*)
(* The filters are kept in the URL by nuqs, external, one update at a time,*)
(* as an array with a filter of each column at most: here a function from  *)
(* the columns that are filtered, since its order is only shown.           *)
(***************************************************************************)
EXTENDS FilterOperators

CONSTANTS
  Columns, TypeOf,   \* the columns and their types
  Options,           \* of option and multi-option columns
  Numbers,           \* what is entered in a number column; 0 is one of them
  Days,              \* what is picked in a calendar
  Words,             \* search texts beside the empty one
  MinMax,            \* <<min, max>> of the number columns, <<>> if not known
  Rows,              \* values a row can have in a column of each type
  MaxFilters,        \* bound: columns filtered at once
  MaxPending,        \* bound: timers running at once
  None

ASSUME FilterAssumption ==
  /\ TypeOf \in [Columns -> Types]
  /\ Numbers \subseteq Nat /\ 0 \in Numbers /\ Days \subseteq Nat
  /\ MinMax \in {<<>>} \cup (Numbers \X Numbers)
  /\ None \notin Columns /\ NoWord \notin Words /\ Undefined \notin Numbers

VARIABLES
  filters,   \* the filters by column, as in the URL
  open,      \* the number or text column whose value control is open
  shown,     \* number control: its local `values`
  base,      \* number control: `values` as the range inputs captured it
  inputs,    \* timers of inputs, the oldest first
  calls,     \* timers of setFilterValue, the oldest first
  entered,   \* history: the values the user gave each column last
  excused    \* history: columns where one entry may undo a later one

controlVars == <<open, shown, base>>
timerVars == <<inputs, calls>>
histVars == <<entered, excused>>
vars == <<filters, controlVars, timerVars, histVars>>

Numerals == Numbers \cup {Undefined}
NumberValues == {<<a>> : a \in Numerals} \cup (Numerals \X Numerals)
Texts == Words \cup {NoWord}
ValuesOf(type) ==
  CASE type = "number" -> NumberValues
    [] type = "date" -> {<<2 * d>> : d \in Days} \cup {<<2 * d, 2 * e>> : d, e \in Days}
    [] type = "text" -> {<<w>> : w \in Texts}
    [] OTHER -> {s \in Seq(Options) \ {<<>>} : IsInjective(s)}

(* Where the origin of a timer is: its input, only its control, or neither *)
(* is still mounted.                                                       *)
Origins == {"input", "control", "gone"}

TypeOK ==
  /\ DOMAIN filters \subseteq Columns
  /\ \A c \in DOMAIN filters :
       filters[c] \in [operator : OperatorsOf(TypeOf[c]), values : ValuesOf(TypeOf[c])]
  /\ open \in Columns \cup {None}
  /\ shown \in NumberValues \cup {<<>>} /\ base \in NumberValues \cup {<<>>}
  /\ inputs \in Seq([column : Columns, name : {"text", "single", "min", "max"},
                     value : Numbers \cup Texts, base : NumberValues \cup {<<>>}, of : Origins])
  /\ calls \in Seq([column : Columns, values : NumberValues, of : {"control", "gone"}])
  /\ \A i, j \in DOMAIN inputs : inputs[i].of = "input" /\ inputs[j].of = "input"
       /\ inputs[i].name = inputs[j].name => i = j
  /\ \A i, j \in DOMAIN calls : calls[i].of = "control" /\ calls[j].of = "control" => i = j
  /\ entered \in [Columns -> {<<>>} \cup NumberValues \cup {<<w>> : w \in Texts}]
  /\ excused \subseteq Columns

Init ==
  /\ filters = <<>> /\ open = None /\ shown = <<>> /\ base = <<>>
  /\ inputs = <<>> /\ calls = <<>>
  /\ entered = [c \in Columns |-> <<>>] /\ excused = {}

Filtered(c) == c \in DOMAIN filters
Without(F, c) == [d \in DOMAIN F \ {c} |-> F[d]]
With(F, c, op, values) ==
  [d \in DOMAIN F \cup {c} |-> IF d = c THEN [operator |-> op, values |-> values] ELSE F[d]]

-----------------------------------------------------------------------------
(* The actions of useDataTableFilters, as functions of the filters. *)

(* Values are given to a column: a new filter with the default operator, or *)
(* the operator that fits the new number of values.                        *)
Changed(F, c, values) ==
  With(F, c,
       IF c \in DOMAIN F
       THEN DetermineNewOperator(TypeOf[c], Len(F[c].values), Len(values), F[c].operator)
       ELSE DefaultOperator(TypeOf[c], Len(values)),
       values)

AddFilterValue(F, c, v) ==
  Changed(F, c, IF c \in DOMAIN F THEN AddUniq(F[c].values, v) ELSE <<v>>)

(* Broken variant: the filter stays when its last value is removed.        *)
EmptyFilterStays(F, c, v) == Changed(F, c, RemoveUniq(F[c].values, v))
RemoveFilterValue(F, c, v) ==
  LET left == RemoveUniq(F[c].values, v)
  IN IF left = <<>> THEN Without(F, c) ELSE Changed(F, c, left)

SetFilterValue(F, c, values) ==
  IF values = <<>> THEN F ELSE Changed(F, c, NewValues(TypeOf[c], values))

SetFilterOperator(F, c, op) ==
  [d \in DOMAIN F |-> IF d = c THEN [F[d] EXCEPT !.operator = op] ELSE F[d]]

-----------------------------------------------------------------------------
(* The value control of a column: of an active filter, or of the selector. *)
(* Opened when nothing is under way, it shows what there is to start from. *)
(* The controls of options and dates keep nothing that matters here.       *)

Room(c) == Filtered(c) \/ Cardinality(DOMAIN filters) < MaxFilters
RoomFor(c) == Room(c) /\ Len(inputs) + Len(calls) < MaxPending

InRange(F, c) == c \in DOMAIN F /\ F[c].operator \in Multiple(TypeOf[c])
NumberOpen == open # None /\ TypeOf[open] = "number"

(* The inputs of a range are mounted with the values of that moment, and   *)
(* keep the function, and with it the values, they were first given.       *)
MountsInputs(F, values, was) ==
  base' = IF NumberOpen /\ InRange(F, open)
          THEN IF InRange(filters, open) THEN was ELSE values
          ELSE <<>>

Settled == inputs = <<>> /\ calls = <<>>
Pending(c) == \/ \E i \in DOMAIN inputs : inputs[i].column = c
              \/ \E i \in DOMAIN calls : calls[i].column = c
Left(queue, from, to) ==
  [i \in DOMAIN queue |-> IF queue[i].of \in from THEN [queue[i] EXCEPT !.of = to] ELSE queue[i]]
Enters(c, values, excuse) ==
  /\ entered' = [entered EXCEPT ![c] = IF excuse THEN <<>> ELSE values]
  /\ excused' = IF excuse THEN excused \cup {c} ELSE excused \ {c}

OpenValue(c) ==
  /\ open = None /\ TypeOf[c] \in {"number", "text"} /\ open' = c
  /\ LET values == IF Filtered(c) THEN filters[c].values ELSE <<0, 0>>
     IN /\ shown' = IF TypeOf[c] = "number" THEN values ELSE <<>>
        /\ base' = IF TypeOf[c] = "number" /\ InRange(filters, c) THEN values ELSE <<>>
  /\ IF ~ Pending(c)
     THEN Enters(c, IF Filtered(c) THEN filters[c].values ELSE <<>>, FALSE)
     ELSE UNCHANGED histVars
  /\ UNCHANGED <<filters, timerVars>>

CloseValue ==
  /\ open # None /\ open' = None
  /\ shown' = <<>> /\ base' = <<>>
  /\ inputs' = Left(inputs, Origins, "gone") /\ calls' = Left(calls, Origins, "gone")
  /\ UNCHANGED <<filters, histVars>>

(* Options, also of the quick search; `checked` is what the filter has.    *)
ToggleOption(c, v) ==
  /\ TypeOf[c] \in {"option", "multiOption"} /\ open = None /\ Room(c)
  /\ filters' = IF Filtered(c) /\ v \in ToSet(filters[c].values)
                THEN RemoveFilterValue(filters, c, v) ELSE AddFilterValue(filters, c, v)
  /\ UNCHANGED <<controlVars, timerVars, histVars>>

ChangeDateRange(c, from, to) ==
  /\ open = None /\ TypeOf[c] = "date" /\ from <= to /\ Room(c)
  /\ filters' = SetFilterValue(filters, c,
                  IF from = to THEN <<2 * from>> ELSE <<2 * from, 2 * to>>)
  /\ UNCHANGED <<controlVars, timerVars, histVars>>

-----------------------------------------------------------------------------
(* Inputs whose changes are applied later. *)

(* A new value in an input starts its timer again, of which it has one.    *)
TimerOf(c, name) ==
  {i \in DOMAIN inputs : inputs[i].column = c /\ inputs[i].name = name /\ inputs[i].of = "input"}
Typed(c, name, v) ==
  inputs' = Append(Dropped(inputs, TimerOf(c, name)),
                   [column |-> c, name |-> name, value |-> v, base |-> base, of |-> "input"])

TypeText(c, w) ==
  /\ open = c /\ TypeOf[c] = "text" /\ RoomFor(c)
  /\ Typed(c, "text", w)
  /\ Enters(c, <<w>>, c \in excused)
  /\ UNCHANGED <<filters, controlVars, calls>>

TypeNumber(c, v) ==
  /\ open = c /\ TypeOf[c] = "number" /\ ~ InRange(filters, c) /\ RoomFor(c)
  /\ Typed(c, "single", v)
  /\ Enters(c, <<v>>, c \in excused)
  /\ UNCHANGED <<filters, controlVars, calls>>

(* The other bound is the one the input captured, not the one shown.       *)
Bounds(name, v, values) ==
  IF name = "min" THEN CreateNumberRange(v, At(values, 2)) ELSE CreateNumberRange(At(values, 1), v)
OtherBound(name, values) == At(values, IF name = "min" THEN 2 ELSE 1)

TypeBound(c, name, v) ==
  /\ open = c /\ TypeOf[c] = "number" /\ InRange(filters, c) /\ RoomFor(c)
  /\ Typed(c, name, v)
  /\ Enters(c, NewValues("number", Bounds(name, v, entered[c])),
            \/ c \in excused \/ OtherBound(name, base) = Undefined
            \/ OtherBound(name, base) # OtherBound(name, entered[c]))
  /\ UNCHANGED <<filters, controlVars, calls>>

(* changeNumber, changeMinNumber, changeMaxNumber: the local values, and a *)
(* timer in place of the control's earlier one.                            *)
OwnCall == {i \in DOMAIN calls : calls[i].of = "control"}
Calls(c, values, of) ==
  calls' = Append(Dropped(calls, IF of = "gone" THEN {} ELSE OwnCall),
                  [column |-> c, values |-> values, of |-> of])

Slide(c, values) ==
  /\ open = c /\ TypeOf[c] = "number" /\ MinMax # <<>> /\ RoomFor(c)
  /\ Len(values) = IF InRange(filters, c) THEN 2 ELSE 1
  /\ shown' = values
  /\ Calls(c, values, "control")
  /\ Enters(c, values, c \in excused \/ \E i \in DOMAIN inputs : inputs[i].column = c)
  /\ UNCHANGED <<filters, open, base, inputs>>

(* Half a second after the last change the input calls its handler.        *)
InputFires ==
  /\ inputs # <<>> /\ inputs' = Tail(inputs)
  /\ LET t == inputs[1]
         values == IF t.name = "single" THEN <<t.value>> ELSE Bounds(t.name, t.value, t.base)
     IN IF t.name = "text"
        THEN /\ Room(t.column)
             /\ filters' = SetFilterValue(filters, t.column, <<t.value>>)
             /\ UNCHANGED <<shown, calls>>
        ELSE /\ shown' = IF t.of = "gone" THEN shown ELSE values
             /\ Calls(t.column, values, IF t.of = "gone" THEN "gone" ELSE "control")
             /\ UNCHANGED filters
  /\ UNCHANGED <<open, base, histVars>>

(* Broken variant: the values that are there already are kept. *)
Ignored(F, c, values) == IF c \in DOMAIN F THEN F ELSE SetFilterValue(F, c, values)
Applied(F, c, values) == SetFilterValue(F, c, values)

(* Another half a second later the filter changes, and with it perhaps the *)
(* tab of an open control.                                                 *)
CallFires ==
  /\ calls # <<>> /\ Room(calls[1].column)
  /\ calls' = Tail(calls)
  /\ LET F == Applied(filters, calls[1].column, calls[1].values)
     IN /\ filters' = F
        /\ MountsInputs(F, shown, base)
        /\ inputs' = IF NumberOpen /\ (InRange(F, open) # InRange(filters, open))
                     THEN Left(inputs, {"input"}, "control") ELSE inputs
  /\ UNCHANGED <<open, shown, histVars>>

(* The tabs "Single" and "Range": the control's own timer is cancelled,    *)
(* the operator and the values are set in one update.                      *)
RangeFrom(values) ==
  IF MinMax = <<>>
  THEN CreateNumberRange(values[1], IF Len(values) = 2 THEN values[2] ELSE 0)
  ELSE IF values[1] # Undefined /\ values[1] - MinMax[1] < MinMax[2] - values[1]
       THEN CreateNumberRange(values[1], MinMax[2])
       ELSE CreateNumberRange(MinMax[1], values[1])

ChangeType(c) ==
  /\ open = c /\ TypeOf[c] = "number" /\ Room(c)
  /\ LET toRange == ~ InRange(filters, c)
         values == IF toRange THEN RangeFrom(shown) ELSE <<shown[1]>>
         F == SetFilterValue(
                SetFilterOperator(filters, c, IF toRange THEN "is between" ELSE "is"), c, values)
         left == Dropped(calls, OwnCall)
     IN /\ filters' = F
        /\ shown' = values
        /\ calls' = left
        /\ MountsInputs(F, values, base)
        /\ Enters(c, NewValues("number", values), left # <<>> \/ inputs # <<>>)
  /\ inputs' = Left(inputs, {"input"}, "control")
  /\ UNCHANGED open

-----------------------------------------------------------------------------
(* With every value control closed: the operator menu, which has the       *)
(* operators for as many values, and the buttons that remove filters.      *)

SameTarget(c, op) ==
  op \in IF InRange(filters, c) THEN Multiple(TypeOf[c]) ELSE Single(TypeOf[c])

ChangeOperator(c, op) ==
  /\ open = None /\ Filtered(c) /\ SameTarget(c, op)
  /\ filters' = SetFilterOperator(filters, c, op)
  /\ UNCHANGED <<controlVars, timerVars, histVars>>

Removed(S) ==
  /\ entered' = [c \in Columns |-> IF c \in S THEN <<>> ELSE entered[c]]
  /\ excused' = (excused \ S) \cup {c \in S : Pending(c)}

RemoveFilter(c) ==
  /\ open = None /\ Filtered(c)
  /\ filters' = Without(filters, c)
  /\ Removed({c})
  /\ UNCHANGED <<controlVars, timerVars>>

RemoveAllFilters ==
  /\ open = None /\ filters # <<>>
  /\ filters' = <<>>
  /\ Removed(Columns)
  /\ UNCHANGED <<controlVars, timerVars>>

-----------------------------------------------------------------------------
Timers == InputFires \/ CallFires
Edits(c) ==
  \/ \E v \in Options : ToggleOption(c, v)
  \/ \E from, to \in Days : ChangeDateRange(c, from, to)
  \/ \E w \in Texts : TypeText(c, w)
  \/ \E v \in Numbers : TypeNumber(c, v) \/ \E name \in {"min", "max"} : TypeBound(c, name, v)
  \/ \E a, b \in Numbers : Slide(c, <<a>>) \/ (a <= b /\ Slide(c, <<a, b>>))

Next ==
  \/ \E c \in Columns : OpenValue(c) \/ Edits(c) \/ ChangeType(c) \/ RemoveFilter(c)
  \/ \E c \in Columns, op \in UNION {OperatorsOf(t) : t \in Types} : ChangeOperator(c, op)
  \/ CloseValue \/ RemoveAllFilters \/ Timers

Spec == Init /\ [][Next]_vars
-----------------------------------------------------------------------------
(* Properties *)

(* The client-side functions throw on a single-value operator with several *)
(* values: whatever is toggled, typed or late, a filter has an operator    *)
(* for as many values as it has, and never none.                           *)
OperatorFitsValues ==
  \A c \in DOMAIN filters :
    filters[c].operator \in IF Len(filters[c].values) > 1 THEN Multiple(TypeOf[c])
                            ELSE Single(TypeOf[c])

(* Only the operator menu, or the tabs of a number, turn a filter that     *)
(* excludes rows into one that includes them or back: no change of its     *)
(* values does.                                                            *)
NegationKept ==
  [][\A c \in DOMAIN filters \cap DOMAIN filters' :
       filters[c].values # filters'[c].values /\ ~ ChangeType(c)
         => (filters[c].operator \in Negated <=> filters'[c].operator \in Negated)]_vars

(* When no timer runs, a number or text column is filtered by what the user *)
(* gave it last.  Excused: a bound entered after the other one in the same *)
(* inputs, and a tab, a slider or a removal used within the time of an     *)
(* earlier entry, none of which stops the timer of an input.               *)
LastEntryShown ==
  Settled => \A c \in Columns : TypeOf[c] \in {"number", "text"} /\ c \notin excused =>
    IF entered[c] = <<>> THEN ~ Filtered(c) ELSE Filtered(c) /\ filters[c].values = entered[c]

(* The query keeps the rows the client-side function keeps, for every      *)
(* filter that the controls can make with one of these operators.  For the *)
(* others it does not: useFilterQuery knows one operator of an option      *)
(* column and one of a date column, and no time of the day.                *)
Supported(type) ==
  CASE type = "option" -> {"is", "is not", "is none of"}
    [] type = "multiOption" -> {"include"}
    [] type = "number" -> OperatorsOf("number") \ {"is not between"}
    [] type = "date" -> {}
    [] type = "text" -> OperatorsOf("text")

AgreesOn(c) ==
  LET type == TypeOf[c]
      f == filters[c]
  IN Undefined \notin ToSet(f.values) =>
       \A v \in Rows[type] : Query(type, f.operator, f.values, v) <=> Keeps(type, f.operator, f.values, v)

SupportedAgree ==
  \A c \in DOMAIN filters : filters[c].operator \in Supported(TypeOf[c]) => AgreesOn(c)

(* operators.ts: "if the current operator is 'is', and the new filter      *)
(* values have a length of 2, the new operator would be 'is any of'": the  *)
(* query then keeps the rows with one of the two options.                  *)
QueryMeansOperator ==
  \A c \in DOMAIN filters : TypeOf[c] = "option" => AgreesOn(c)
=============================================================================
