-------------------------- MODULE FilterOperators --------------------------
(***************************************************************************)
(* The operators of table filters: which operator takes one value and      *)
(* which takes several, how a change of the values changes the operator,   *)
(* and which rows a filter keeps, as the client-side filter functions and  *)
(* as the query sent to the database say it.  Pure functions.              *)
(*                                                                         *)
(* A row has an option or NoValue in an option column, a set of options in *)
(* a multi-option one, the set of search words it contains in a text one,  *)
(* a number, or a time: two times a day, so that day d starts at 2 * d.    *)
(***************************************************************************)
EXTENDS Integers, SequencesExt

CONSTANTS
  NoValue,    \* an option column without a value
  NoWord,     \* the empty search text
  Undefined   \* a bound that is missing

Types == {"option", "multiOption", "number", "date", "text"}

Comparisons == {"is greater than", "is greater than or equal to",
                "is less than", "is less than or equal to"}
Instants == {"is after", "is on or after", "is before", "is on or before"}

Single(type) ==
  CASE type = "option"      -> {"is", "is not"}
    [] type = "multiOption" -> {"include", "exclude"}
    [] type = "number"      -> {"is", "is not"} \cup Comparisons
    [] type = "date"        -> {"is", "is not"} \cup Instants
    [] type = "text"        -> {"contains", "does not contain"}

Multiple(type) ==
  CASE type = "option"      -> {"is any of", "is none of"}
    [] type = "multiOption" -> {"include any of", "include all of",
                                "exclude if any of", "exclude if all"}
    [] type = "text"        -> {}
    [] OTHER                -> {"is between", "is not between"}

OperatorsOf(type) == Single(type) \cup Multiple(type)
Negated == {"is not", "is none of", "is not between", "exclude", "exclude if all",
            "exclude if any of", "does not contain"}

DefaultOperator(type, n) ==
  CASE type = "option"      -> IF n > 1 THEN "is any of" ELSE "is"
    [] type = "multiOption" -> IF n > 1 THEN "include any of" ELSE "include"
    [] type = "text"        -> "contains"
    [] OTHER                -> IF n > 1 THEN "is between" ELSE "is"

(* The operator for several values that corresponds to one for a single    *)
(* value (singularOf), and back (pluralOf).  Broken variant of the first:  *)
(* the positive one whatever the operator.                                 *)
PositivePlural(type, op) == DefaultOperator(type, 2)
PluralForm(type, op) ==
  IF op \notin Single(type) \/ type = "text" THEN op
  ELSE CASE type = "option"      -> IF op = "is" THEN "is any of" ELSE "is none of"
         [] type = "multiOption" -> IF op = "include" THEN "include any of" ELSE "exclude if any of"
         [] OTHER                -> IF op = "is not" THEN "is not between" ELSE "is between"

SingularForm(type, op) ==
  IF op \notin Multiple(type) THEN op
  ELSE CASE type = "multiOption" -> IF op \in Negated THEN "exclude" ELSE "include"
         [] OTHER                -> IF op \in Negated THEN "is not" ELSE "is"

(* Broken variant: a filter left with one value keeps its operator.        *)
OnlyWhenGrowing(type, a, b, op) == IF a <= 1 /\ b >= 2 THEN PluralForm(type, op) ELSE op
DetermineNewOperator(type, a, b, op) ==
  IF a <= 1 /\ b >= 2 THEN PluralForm(type, op)
  ELSE IF a >= 2 /\ b <= 1 THEN SingularForm(type, op)
  ELSE op

-----------------------------------------------------------------------------
(* Values.  An option is in a list of values once, so that one place at    *)
(* most is to be dropped.                                                  *)

AddUniq(values, v) == IF v \in ToSet(values) THEN values ELSE Append(values, v)
Dropped(s, places) ==
  IF places = {} THEN s ELSE RemoveAt(s, CHOOSE i \in places : TRUE)
RemoveUniq(values, v) == Dropped(values, {i \in DOMAIN values : values[i] = v})

(* A comparison with a missing bound is false, so that it comes first.     *)
Less(a, b) == a # Undefined /\ b # Undefined /\ a < b
CreateNumberRange(a, b) == IF Less(a, b) THEN <<a, b>> ELSE <<b, a>>
At(values, i) == IF i <= Len(values) THEN values[i] ELSE Undefined

(* Dates and numbers are put in order, other values are made unique.       *)
NewValues(type, values) ==
  IF type \in {"number", "date"} /\ Len(values) = 2
  THEN CreateNumberRange(values[1], values[2]) ELSE values

-----------------------------------------------------------------------------
(* What an operator means: lib/filter-fns.ts.  v is the value of the row.  *)

Day(t) == t \div 2
Between(v, first, last) == first <= v /\ v <= last

Keeps(type, op, values, v) ==
  LET S == ToSet(values)
      first == values[1]
      last == values[Len(values)]
  IN CASE type = "option" -> v # NoValue /\ (v \in S <=> op \notin Negated)
       [] type = "multiOption" ->
            LET all == op \in {"include all of", "exclude if all"}
                found == IF all THEN S \subseteq v ELSE S \cap v # {}
            IN found <=> op \notin Negated
       [] type = "text" -> first = NoWord \/ (first \in v <=> op = "contains")
       [] type = "number" ->
            CASE op = "is" -> v = first
              [] op = "is not" -> v # first
              [] op = "is greater than" -> v > first
              [] op = "is greater than or equal to" -> v >= first
              [] op = "is less than" -> v < first
              [] op = "is less than or equal to" -> v <= first
              [] op = "is between" -> Between(v, first, last)
              [] op = "is not between" -> ~ Between(v, first, last)
       [] type = "date" ->
            CASE op = "is" -> Day(v) = Day(first)
              [] op = "is not" -> Day(v) # Day(first)
              [] op = "is before" -> v < first
              [] op = "is on or after" -> Day(v) = Day(first) \/ v > first
              [] op = "is after" -> v > first
              [] op = "is on or before" -> Day(v) = Day(first) \/ v < first
              [] op = "is between" -> Between(v, first, last + 1)
              [] op = "is not between" -> ~ Between(v, first, last + 1)

(* The condition useFilterQuery adds to the query for one filter: an       *)
(* option column is a relationship of which a row with `id IN` or `NOT IN` *)
(* exists.  Broken variant: IN for every operator.                         *)
AlwaysIn(type, op, values, v) ==
  IF type = "option" THEN v \in ToSet(values) ELSE Keeps(type, op, values, v)
Query(type, op, values, v) ==
  LET S == ToSet(values)
      first == values[1]
      last == values[Len(values)]
  IN CASE type = "option" -> v # NoValue /\ (v \in S <=> op = "is")
       [] type = "multiOption" -> \E x \in v : x \in S <=> op = "include"
       [] type = "text" -> first = NoWord \/ (first \in v <=> op = "contains")
       [] type = "number" ->
            CASE op = "is" -> v = first
              [] op = "is not" -> v # first
              [] op = "is greater than" -> v > first
              [] op = "is greater than or equal to" -> v >= first
              [] op = "is less than" -> v < first
              [] op = "is less than or equal to" -> v <= first
              [] op = "is between" -> v >= first /\ v <= last
              [] op = "is not between" -> v > first /\ v < last
       [] type = "date" ->
            IF op = "is between" THEN v >= first /\ v <= last ELSE v > last \/ v < first
=============================================================================
