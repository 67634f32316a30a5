------------------------- MODULE TableFilterProofs -------------------------
(***************************************************************************)
(* Theorems about TableFilters, for any columns, options, numbers, days    *)
(* and words, any filters and any number of timers that run at once.       *)
(***************************************************************************)
EXTENDS TableFilters, TLAPS

(* The operators *)

(* An operator for as many values. *)
Fits(type, n) == IF n > 1 THEN Multiple(type) ELSE Single(type)

(* The operator follows the number of values and keeps its sense. *)
LEMMA OperatorFollows ==
  ASSUME NEW type \in Types, NEW a \in Nat, NEW b \in Nat,
         NEW op \in Fits(type, a), type = "text" => b <= 1
  PROVE  /\ DetermineNewOperator(type, a, b, op) \in Fits(type, b)
         /\ DetermineNewOperator(type, a, b, op) \in Negated <=> op \in Negated
<1>1. CASE a <= 1 /\ b >= 2
  <2>1. op \in Single(type) /\ DetermineNewOperator(type, a, b, op) = PluralForm(type, op)
    BY <1>1 DEF DetermineNewOperator, Fits
  <2>2. /\ PluralForm(type, op) \in Multiple(type)
        /\ PluralForm(type, op) \in Negated <=> op \in Negated
    <3>1. CASE type = "option"
      BY <2>1, <3>1 DEF Single, Multiple, PluralForm, Negated
    <3>2. CASE type = "multiOption"
      BY <2>1, <3>2 DEF Single, Multiple, PluralForm, Negated
    <3>3. CASE type \in {"number", "date"}
      BY <2>1, <3>3 DEF Single, Multiple, PluralForm, Negated, Comparisons, Instants
    <3> QED  BY <1>1, <3>1, <3>2, <3>3 DEF Types
  <2> QED  BY <1>1, <2>1, <2>2 DEF Fits
<1>2. CASE a >= 2 /\ b <= 1
  <2>1. op \in Multiple(type) /\ DetermineNewOperator(type, a, b, op) = SingularForm(type, op)
    BY <1>2 DEF DetermineNewOperator, Fits
  <2>2. /\ SingularForm(type, op) \in Single(type)
        /\ SingularForm(type, op) \in Negated <=> op \in Negated
    <3>1. CASE type = "option"
      BY <2>1, <3>1 DEF Single, Multiple, SingularForm, Negated
    <3>2. CASE type = "multiOption"
      BY <2>1, <3>2 DEF Single, Multiple, SingularForm, Negated
    <3>3. CASE type \in {"number", "date"}
      BY <2>1, <3>3 DEF Single, Multiple, SingularForm, Negated, Comparisons, Instants
    <3>4. CASE type = "text"
      BY <2>1, <3>4 DEF Multiple
    <3> QED  BY <3>1, <3>2, <3>3, <3>4 DEF Types
  <2> QED  BY <1>2, <2>1, <2>2 DEF Fits
<1>3. CASE (a <= 1 /\ b <= 1) \/ (a >= 2 /\ b >= 2)
  BY <1>3 DEF DetermineNewOperator, Fits
<1> QED  BY <1>1, <1>2, <1>3

LEMMA DefaultFits ==
  ASSUME NEW type \in Types, NEW n \in Nat, type = "text" => n <= 1
  PROVE  DefaultOperator(type, n) \in Fits(type, n)
<1>1. CASE type = "option"
  BY <1>1 DEF DefaultOperator, Fits, Single, Multiple
<1>2. CASE type = "multiOption"
  BY <1>2 DEF DefaultOperator, Fits, Single, Multiple
<1>3. CASE type = "text"
  BY <1>3 DEF DefaultOperator, Fits, Single
<1>4. CASE type \in {"number", "date"}
  BY <1>4 DEF DefaultOperator, Fits, Single, Multiple
<1> QED  BY <1>1, <1>2, <1>3, <1>4 DEF Types

(* The tabs of a number give the operator before the values. *)
LEMMA TabFits ==
  ASSUME NEW a \in Nat
  PROVE  /\ DetermineNewOperator("number", a, 2, "is between") \in Fits("number", 2)
         /\ DetermineNewOperator("number", a, 1, "is") \in Fits("number", 1)
BY DEF DetermineNewOperator, PluralForm, SingularForm, Fits, Single, Multiple, Comparisons

LEMMA FitsKnown ==
  ASSUME NEW type, NEW n PROVE Fits(type, n) \subseteq OperatorsOf(type)
BY DEF Fits, OperatorsOf

(* Two readings of the supported operators. *)
LEMMA SameReading ==
  ASSUME NEW type \in Types, NEW op \in Supported(type), NEW values, NEW v
  PROVE  Query(type, op, values, v) <=> Keeps(type, op, values, v)
<1>1. CASE type = "option"
  BY <1>1 DEF Supported, Query, Keeps, Negated
<1>2. CASE type = "multiOption"
  <2>1. op = "include"
    BY <1>2 DEF Supported
  <2>2. Query(type, op, values, v) <=> \E x \in v : x \in ToSet(values)
    BY <1>2, <2>1 DEF Query
  <2>3. Keeps(type, op, values, v) <=> ToSet(values) \cap v # {}
    BY <1>2, <2>1 DEF Keeps, Negated
  <2> QED  BY <2>2, <2>3
<1>3. CASE type = "number"
  BY <1>3 DEF Supported, Query, Keeps, OperatorsOf, Single, Multiple, Comparisons, Between
<1>4. CASE type = "date"
  BY <1>4 DEF Supported
<1>5. CASE type = "text"
  BY <1>5 DEF Supported, Query, Keeps, OperatorsOf, Single, Multiple
<1> QED  BY <1>1, <1>2, <1>3, <1>4, <1>5 DEF Types

-----------------------------------------------------------------------------
(* Values *)

LEMMA DroppedIs ==
  ASSUME NEW S, NEW s \in Seq(S), NEW P \in SUBSET DOMAIN s, P # {}
  PROVE  \E i \in P : /\ Dropped(s, P) \in Seq(S)
                      /\ Len(Dropped(s, P)) = Len(s) - 1
                      /\ \A j \in 1 .. Len(s) - 1 :
                           Dropped(s, P)[j] = IF j < i THEN s[j] ELSE s[j + 1]
<1> DEFINE i == CHOOSE k \in P : TRUE
<1>1. i \in P /\ i \in 1 .. Len(s)
  <2>1. i \in P
    OBVIOUS
  <2>2. DOMAIN s = 1 .. Len(s)
    OBVIOUS
  <2> QED  BY <2>1, <2>2
<1>2. Dropped(s, P) = SubSeq(s, 1, i - 1) \o SubSeq(s, i + 1, Len(s))
  BY DEF Dropped, RemoveAt
<1> HIDE DEF i
<1> DEFINE p == SubSeq(s, 1, i - 1)
           q == SubSeq(s, i + 1, Len(s))
<1>3. /\ p \in Seq(S) /\ Len(p) = i - 1
      /\ \A j \in 1 .. i - 1 : p[j] = s[j]
  BY <1>1
<1>4. /\ q \in Seq(S) /\ Len(q) = Len(s) - i
      /\ \A j \in 1 .. Len(s) - i : q[j] = s[i + j]
  BY <1>1
<1> HIDE DEF p, q
<1>5. p \o q \in Seq(S) /\ Len(p \o q) = Len(s) - 1
  BY <1>1, <1>3, <1>4
<1>6. ASSUME NEW j \in 1 .. Len(s) - 1
      PROVE  (p \o q)[j] = IF j < i THEN s[j] ELSE s[j + 1]
  <2>1. CASE j < i
    BY <1>1, <1>3, <1>4, <2>1
  <2>2. CASE j >= i
    <3> DEFINE k == j - (i - 1)
    <3>1. k \in 1 .. Len(s) - i /\ i + k = j + 1
      BY <1>1, <2>2
    <3>2. (p \o q)[j] = q[k]
      BY <1>1, <1>3, <1>4, <2>2
    <3>3. q[k] = s[i + k]
      <4> HIDE DEF k
      <4> QED  BY <1>4, <3>1
    <3>4. ~ (j < i)
      BY <1>1, <2>2
    <3> QED  BY <3>1, <3>2, <3>3, <3>4
  <2>3. i \in Int /\ j \in Int
    BY <1>1
  <2>4. j < i \/ j >= i
    BY <2>3
  <2> QED  BY <2>1, <2>2, <2>4
<1> QED  BY <1>1, <1>2, <1>5, <1>6 DEF p, q

LEMMA DroppedTyped ==
  ASSUME NEW S, NEW s \in Seq(S), NEW P \in SUBSET DOMAIN s
  PROVE  Dropped(s, P) \in Seq(S)
<1>1. CASE P = {}
  BY <1>1 DEF Dropped
<1>2. CASE P # {}
  BY <1>2, DroppedIs
<1> QED  BY <1>1, <1>2

LEMMA OptionValues ==
  ASSUME NEW type \in {"option", "multiOption"}
  PROVE  ValuesOf(type) = {s \in Seq(Options) \ {<<>>} : IsInjective(s)}
BY DEF ValuesOf

LEMMA OneOption ==
  ASSUME NEW type \in {"option", "multiOption"}, NEW v \in Options
  PROVE  <<v>> \in ValuesOf(type)
<1>1. <<v>> \in Seq(Options) /\ <<v>> # <<>> /\ DOMAIN <<v>> = {1}
  OBVIOUS
<1>2. IsInjective(<<v>>)
  BY <1>1 DEF IsInjective
<1> QED  BY <1>1, <1>2, OptionValues

LEMMA AddedOption ==
  ASSUME NEW type \in {"option", "multiOption"}, NEW v \in Options, NEW s \in ValuesOf(type)
  PROVE  AddUniq(s, v) \in ValuesOf(type)
<1>1. s \in Seq(Options) /\ s # <<>> /\ IsInjective(s)
  BY OptionValues
<1>2. CASE v \in ToSet(s)
  BY <1>2 DEF AddUniq
<1>3. CASE v \notin ToSet(s)
  <2>1. AddUniq(s, v) = Append(s, v)
    BY <1>3 DEF AddUniq
  <2>2. Append(s, v) \in Seq(Options) /\ Append(s, v) # <<>>
    BY <1>1
  <2>3. \A i \in DOMAIN s : s[i] # v
    BY <1>3 DEF ToSet
  <2>4. IsInjective(Append(s, v))
    BY <1>1, <2>3 DEF IsInjective
  <2> QED  BY <2>1, <2>2, <2>4, OptionValues
<1> QED  BY <1>2, <1>3

LEMMA RemovedOption ==
  ASSUME NEW type \in {"option", "multiOption"}, NEW v, NEW s \in ValuesOf(type),
         RemoveUniq(s, v) # <<>>
  PROVE  RemoveUniq(s, v) \in ValuesOf(type)
<1> DEFINE P == {i \in DOMAIN s : s[i] = v}
           r == RemoveUniq(s, v)
<1>1. s \in Seq(Options) /\ IsInjective(s)
  BY OptionValues
<1>2. r = Dropped(s, P) /\ P \in SUBSET DOMAIN s
  BY DEF RemoveUniq
<1>3. CASE P = {}
  BY <1>2, <1>3 DEF Dropped
<1>4. CASE P # {}
  <2>1. PICK i \in P : /\ Dropped(s, P) \in Seq(Options)
                       /\ Len(Dropped(s, P)) = Len(s) - 1
                       /\ \A j \in 1 .. Len(s) - 1 :
                            Dropped(s, P)[j] = IF j < i THEN s[j] ELSE s[j + 1]
    <3> HIDE DEF P, r
    <3> QED  BY <1>1, <1>2, <1>4, DroppedIs
  <2>2. i \in 1 .. Len(s)
    BY <1>1
  <2>3. r \in Seq(Options) /\ Len(r) = Len(s) - 1
    BY <1>2, <2>1
  <2>4. ASSUME NEW j \in DOMAIN r
        PROVE  /\ j \in 1 .. Len(s) - 1
               /\ r[j] = s[IF j < i THEN j ELSE j + 1]
               /\ (IF j < i THEN j ELSE j + 1) \in DOMAIN s
    <3> HIDE DEF P, r
    <3>1. j \in 1 .. Len(s) - 1
      BY <2>3
    <3>2. r[j] = IF j < i THEN s[j] ELSE s[j + 1]
      BY <1>2, <2>1, <3>1
    <3> QED  BY <1>1, <2>2, <3>1, <3>2
  <2>5. ASSUME NEW j \in DOMAIN r, NEW k \in DOMAIN r, r[j] = r[k]
        PROVE  j = k
    <3> HIDE DEF P, r
    <3>1. s[IF j < i THEN j ELSE j + 1] = s[IF k < i THEN k ELSE k + 1]
      BY <2>4, <2>5
    <3>2. (IF j < i THEN j ELSE j + 1) = (IF k < i THEN k ELSE k + 1)
      BY <1>1, <2>4, <3>1 DEF IsInjective
    <3> QED  BY <1>1, <2>2, <2>4, <3>2
  <2>6. IsInjective(r)
    BY <2>5 DEF IsInjective
  <2> QED  BY <2>3, <2>6, OptionValues
<1> QED  BY <1>3, <1>4

LEMMA OrderedBounds ==
  ASSUME NEW a \in Numerals, NEW b \in Numerals
  PROVE  CreateNumberRange(a, b) \in NumberValues /\ Len(CreateNumberRange(a, b)) = 2
BY DEF CreateNumberRange, NumberValues

LEMMA NumberLength ==
  ASSUME NEW s \in NumberValues
  PROVE  /\ Len(s) \in {1, 2} /\ s # <<>>
         /\ \A i \in 1 .. Len(s) : s[i] \in Numerals
         /\ s = IF Len(s) = 2 THEN <<s[1], s[2]>> ELSE <<s[1]>>
BY DEF NumberValues

LEMMA NumberSet == ValuesOf("number") = NumberValues
BY DEF ValuesOf

LEMMA TextSet == ValuesOf("text") = {<<w>> : w \in Texts}
BY DEF ValuesOf

LEMMA SomeValues ==
  ASSUME NEW type \in Types, NEW s \in ValuesOf(type)
  PROVE  Len(s) \in Nat /\ Len(s) >= 1 /\ s # <<>> /\ (type = "text" => Len(s) = 1)
<1>1. CASE type \in {"option", "multiOption"}
  BY <1>1, OptionValues
<1>2. CASE type = "number"
  BY <1>2, NumberLength DEF ValuesOf
<1>3. CASE type = "date"
  BY <1>3 DEF ValuesOf
<1>4. CASE type = "text"
  BY <1>4 DEF ValuesOf
<1> QED  BY <1>1, <1>2, <1>3, <1>4 DEF Types

LEMMA InOrder ==
  ASSUME NEW type \in Types, NEW s \in ValuesOf(type)
  PROVE  NewValues(type, s) \in ValuesOf(type) /\ Len(NewValues(type, s)) = Len(s)
<1>1. CASE type = "number" /\ Len(s) = 2
  <2>1. s[1] \in Numerals /\ s[2] \in Numerals
    BY <1>1, NumberLength DEF ValuesOf
  <2>2. NewValues(type, s) = CreateNumberRange(s[1], s[2])
    BY <1>1 DEF NewValues
  <2> QED  BY <1>1, <2>1, <2>2, OrderedBounds DEF ValuesOf
<1>2. CASE type = "date" /\ Len(s) = 2
  <2>1. PICK d \in Days, e \in Days : s = <<2 * d, 2 * e>>
    BY <1>2 DEF ValuesOf
  <2>2. NewValues(type, s) \in {<<2 * d, 2 * e>>, <<2 * e, 2 * d>>}
    BY <1>2, <2>1 DEF NewValues, CreateNumberRange
  <2>3. <<2 * d, 2 * e>> \in ValuesOf(type) /\ <<2 * e, 2 * d>> \in ValuesOf(type)
    BY <1>2 DEF ValuesOf
  <2>4. Len(NewValues(type, s)) = 2
    BY <2>2
  <2> QED  BY <1>2, <2>2, <2>3, <2>4
<1>3. CASE ~ (type \in {"number", "date"} /\ Len(s) = 2)
  BY <1>3 DEF NewValues
<1> QED  BY <1>1, <1>2, <1>3

-----------------------------------------------------------------------------
(* Filters *)

FilterFits(type, f) ==
  /\ f \in [operator : OperatorsOf(type), values : ValuesOf(type)]
  /\ f.operator \in Fits(type, Len(f.values))
FiltersFit(F) == DOMAIN F \subseteq Columns /\ \A c \in DOMAIN F : FilterFits(TypeOf[c], F[c])

(* Only the filter of c differs. *)
OnlyOf(c, F, G) ==
  \A d : d # c => (d \in DOMAIN G <=> d \in DOMAIN F) /\ (d \in DOMAIN F => G[d] = F[d])

LEMMA TypeKnown == \A c \in Columns : TypeOf[c] \in Types
BY FilterAssumption

LEMMA SingleOrMultiple ==
  ASSUME NEW type \in Types, NEW f, FilterFits(type, f)
  PROVE  f.operator \in Multiple(type) <=> Len(f.values) > 1
<1>1. Single(type) \cap Multiple(type) = {}
  BY DEF Types, Single, Multiple, Comparisons, Instants
<1> QED  BY <1>1 DEF FilterFits, Fits

LEMMA WithFits ==
  ASSUME NEW F, FiltersFit(F), NEW c \in Columns, NEW s \in ValuesOf(TypeOf[c]),
         NEW op \in Fits(TypeOf[c], Len(s))
  PROVE  FiltersFit(With(F, c, op, s))
<1> DEFINE G == With(F, c, op, s)
<1>1. DOMAIN G = DOMAIN F \cup {c} /\ G[c] = [operator |-> op, values |-> s]
  BY DEF With
<1>2. \A d \in DOMAIN F : d # c => G[d] = F[d]
  BY DEF With
<1>3. FilterFits(TypeOf[c], [operator |-> op, values |-> s])
  BY FitsKnown DEF FilterFits
<1> HIDE DEF G
<1>4. FiltersFit(G)
  BY <1>1, <1>2, <1>3 DEF FiltersFit
<1> QED  BY <1>4 DEF G

(* What a change of the values makes of a filter, and of its operator. *)
LEMMA ChangedOperator ==
  ASSUME NEW F, FiltersFit(F), NEW c \in DOMAIN F, NEW s \in ValuesOf(TypeOf[c])
  PROVE  LET op == DetermineNewOperator(TypeOf[c], Len(F[c].values), Len(s), F[c].operator)
         IN op \in Fits(TypeOf[c], Len(s)) /\ (op \in Negated <=> F[c].operator \in Negated)
<1>1. c \in Columns /\ TypeOf[c] \in Types /\ FilterFits(TypeOf[c], F[c])
  BY TypeKnown DEF FiltersFit
<1>2. F[c].values \in ValuesOf(TypeOf[c]) /\ F[c].operator \in Fits(TypeOf[c], Len(F[c].values))
  BY <1>1 DEF FilterFits
<1>3. /\ Len(F[c].values) \in Nat /\ Len(s) \in Nat
      /\ TypeOf[c] = "text" => Len(s) <= 1
  BY <1>1, <1>2, SomeValues
<1> QED  BY <1>1, <1>2, <1>3, OperatorFollows

LEMMA ChangedFits ==
  ASSUME NEW F, FiltersFit(F), NEW c \in Columns, NEW s \in ValuesOf(TypeOf[c])
  PROVE  FiltersFit(Changed(F, c, s))
<1>1. TypeOf[c] \in Types /\ Len(s) \in Nat /\ (TypeOf[c] = "text" => Len(s) <= 1)
  BY TypeKnown, SomeValues
<1>2. CASE c \in DOMAIN F
  BY <1>2, ChangedOperator, WithFits DEF Changed
<1>3. CASE c \notin DOMAIN F
  BY <1>1, <1>3, DefaultFits, WithFits DEF Changed
<1> QED  BY <1>2, <1>3

LEMMA ChangedValues ==
  ASSUME NEW F, NEW c, NEW s
  PROVE  c \in DOMAIN Changed(F, c, s) /\ Changed(F, c, s)[c].values = s
<1>1. DOMAIN Changed(F, c, s) = DOMAIN F \cup {c}
  BY DEF Changed, With
<1>2. Changed(F, c, s)[c].values = s
  BY DEF Changed, With
<1> QED  BY <1>1, <1>2

LEMMA ChangedOnly ==
  ASSUME NEW F, NEW c, NEW s
  PROVE  OnlyOf(c, F, Changed(F, c, s))
BY DEF Changed, With, OnlyOf

(* A change of the values keeps what every filter says of its rows. *)
SensesKept(F, G) ==
  \A d \in DOMAIN F \cap DOMAIN G : F[d].operator \in Negated <=> G[d].operator \in Negated

LEMMA ChangedKeepsSense ==
  ASSUME NEW F, FiltersFit(F), NEW c \in Columns, NEW s \in ValuesOf(TypeOf[c])
  PROVE  SensesKept(F, Changed(F, c, s))
<1> DEFINE G == Changed(F, c, s)
<1>1. ASSUME NEW d \in DOMAIN F, d # c PROVE G[d] = F[d]
  BY <1>1 DEF Changed, With
<1>2. ASSUME c \in DOMAIN F PROVE F[c].operator \in Negated <=> G[c].operator \in Negated
  <2>1. G[c].operator = DetermineNewOperator(TypeOf[c], Len(F[c].values), Len(s), F[c].operator)
    BY <1>2 DEF Changed, With
  <2> QED  BY <1>2, <2>1, ChangedOperator
<1> HIDE DEF G
<1>3. SensesKept(F, G)
  BY <1>1, <1>2 DEF SensesKept
<1> QED  BY <1>3 DEF G

LEMMA ValueSet ==
  ASSUME NEW F, FiltersFit(F), NEW c \in Columns, NEW s \in ValuesOf(TypeOf[c])
  PROVE  /\ FiltersFit(SetFilterValue(F, c, s))
         /\ SensesKept(F, SetFilterValue(F, c, s))
         /\ c \in DOMAIN SetFilterValue(F, c, s)
         /\ SetFilterValue(F, c, s)[c].values = NewValues(TypeOf[c], s)
         /\ OnlyOf(c, F, SetFilterValue(F, c, s))
<1>1. s # <<>> /\ NewValues(TypeOf[c], s) \in ValuesOf(TypeOf[c])
  BY TypeKnown, SomeValues, InOrder
<1>2. SetFilterValue(F, c, s) = Changed(F, c, NewValues(TypeOf[c], s))
  BY <1>1 DEF SetFilterValue
<1> DEFINE w == NewValues(TypeOf[c], s)
<1>3. FiltersFit(Changed(F, c, w))
  BY <1>1, ChangedFits
<1>4. SensesKept(F, Changed(F, c, w))
  BY <1>1, ChangedKeepsSense
<1>5. c \in DOMAIN Changed(F, c, w) /\ Changed(F, c, w)[c].values = w
  BY ChangedValues
<1>6. OnlyOf(c, F, Changed(F, c, w))
  BY ChangedOnly
<1> QED  BY <1>2, <1>3, <1>4, <1>5, <1>6

LEMMA OptionToggled ==
  ASSUME NEW F, FiltersFit(F), NEW c \in Columns, TypeOf[c] \in {"option", "multiOption"},
         NEW v \in Options,
         NEW G, G = IF c \in DOMAIN F /\ v \in ToSet(F[c].values)
                    THEN RemoveFilterValue(F, c, v) ELSE AddFilterValue(F, c, v)
  PROVE  FiltersFit(G) /\ SensesKept(F, G) /\ OnlyOf(c, F, G)
<1>1. ASSUME c \in DOMAIN F PROVE F[c].values \in ValuesOf(TypeOf[c])
  BY <1>1 DEF FiltersFit, FilterFits
<1>2. CASE c \in DOMAIN F /\ v \in ToSet(F[c].values)
  <2> DEFINE left == RemoveUniq(F[c].values, v)
  <2>1. CASE left = <<>>
    <3>1. G = Without(F, c)
      BY <1>2, <2>1 DEF RemoveFilterValue
    <3>2. DOMAIN G = DOMAIN F \ {c} /\ \A d \in DOMAIN F \ {c} : G[d] = F[d]
      BY <3>1 DEF Without
    <3> QED  BY <3>2 DEF FiltersFit, SensesKept, OnlyOf
  <2>2. CASE left # <<>>
    <3>1. G = Changed(F, c, left)
      BY <1>2, <2>2 DEF RemoveFilterValue
    <3>2. left \in ValuesOf(TypeOf[c])
      BY <1>1, <1>2, <2>2, RemovedOption
    <3> QED  BY <3>1, <3>2, ChangedFits, ChangedKeepsSense, ChangedOnly
  <2> QED  BY <2>1, <2>2
<1>3. CASE ~ (c \in DOMAIN F /\ v \in ToSet(F[c].values))
  <2> DEFINE more == IF c \in DOMAIN F THEN AddUniq(F[c].values, v) ELSE <<v>>
  <2>1. G = Changed(F, c, more)
    BY <1>3 DEF AddFilterValue
  <2>2. more \in ValuesOf(TypeOf[c])
    BY <1>1, AddedOption, OneOption
  <2> QED  BY <2>1, <2>2, ChangedFits, ChangedKeepsSense, ChangedOnly
<1> QED  BY <1>2, <1>3

(* The operator menu has the operators for as many values. *)
LEMMA OperatorSet ==
  ASSUME NEW F, FiltersFit(F), NEW c \in DOMAIN F,
         NEW op \in (IF InRange(F, c) THEN Multiple(TypeOf[c]) ELSE Single(TypeOf[c]))
  PROVE  /\ FiltersFit(SetFilterOperator(F, c, op))
         /\ OnlyOf(c, F, SetFilterOperator(F, c, op))
         /\ c \in DOMAIN SetFilterOperator(F, c, op)
         /\ SetFilterOperator(F, c, op)[c].values = F[c].values
<1> DEFINE G == SetFilterOperator(F, c, op)
<1>1. FilterFits(TypeOf[c], F[c]) /\ TypeOf[c] \in Types
  BY TypeKnown DEF FiltersFit
<1>2. op \in Fits(TypeOf[c], Len(F[c].values))
  BY <1>1, SingleOrMultiple DEF InRange, Fits
<1>3. /\ DOMAIN G = DOMAIN F
      /\ G[c] = [F[c] EXCEPT !.operator = op]
      /\ \A d \in DOMAIN F : d # c => G[d] = F[d]
  BY DEF SetFilterOperator
<1>4. G[c] = [operator |-> op, values |-> F[c].values]
  BY <1>1, <1>3 DEF FilterFits
<1>5. FilterFits(TypeOf[c], G[c])
  BY <1>1, <1>2, <1>4, FitsKnown DEF FilterFits
<1> HIDE DEF G
<1>6. FiltersFit(G)
  BY <1>3, <1>5 DEF FiltersFit
<1>7. OnlyOf(c, F, G) /\ c \in DOMAIN G /\ G[c].values = F[c].values
  BY <1>3, <1>4 DEF OnlyOf
<1> QED  BY <1>6, <1>7 DEF G

(* The tabs of a number: the operator first, which the values then fit. *)
LEMMA TabOperator ==
  ASSUME NEW E, NEW c \in DOMAIN E, TypeOf[c] = "number", NEW w \in ValuesOf("number"),
         DetermineNewOperator("number", Len(E[c].values), Len(w), E[c].operator)
           \in Fits("number", Len(w))
  PROVE  FilterFits("number", Changed(E, c, w)[c])
<1> DEFINE new == DetermineNewOperator("number", Len(E[c].values), Len(w), E[c].operator)
           f == [operator |-> new, values |-> w]
<1>1. Changed(E, c, w)[c] = f
  BY DEF Changed, With
<1>2. new \in OperatorsOf("number")
  BY FitsKnown
<1>3. f.operator = new /\ f.values = w
  OBVIOUS
<1> HIDE DEF new
<1>4. f \in [operator : OperatorsOf("number"), values : ValuesOf("number")]
  BY <1>2
<1> HIDE DEF f
<1> QED  BY <1>1, <1>3, <1>4 DEF FilterFits, new

LEMMA OperatorOf ==
  ASSUME NEW F, NEW c \in DOMAIN F, NEW type, FilterFits(type, F[c]), NEW op
  PROVE  LET E == SetFilterOperator(F, c, op)
         IN E[c].operator = op /\ E[c].values = F[c].values
<1>1. SetFilterOperator(F, c, op)[c] = [F[c] EXCEPT !.operator = op]
  BY DEF SetFilterOperator
<1>2. F[c] \in [operator : OperatorsOf(type), values : ValuesOf(type)]
  BY DEF FilterFits
<1>3. [F[c] EXCEPT !.operator = op] = [operator |-> op, values |-> F[c].values]
  BY <1>2
<1> QED  BY <1>1, <1>3

LEMMA OthersStay ==
  ASSUME NEW F, FiltersFit(F), NEW c \in Columns, NEW G, OnlyOf(c, F, G),
         DOMAIN G = DOMAIN F \cup {c}, FilterFits(TypeOf[c], G[c])
  PROVE  FiltersFit(G)
BY DEF FiltersFit, OnlyOf

LEMMA TabOnly ==
  ASSUME NEW F, NEW c, NEW op, NEW w
  PROVE  /\ DOMAIN Changed(SetFilterOperator(F, c, op), c, w) = DOMAIN F \cup {c}
         /\ OnlyOf(c, F, Changed(SetFilterOperator(F, c, op), c, w))
<1> DEFINE E == SetFilterOperator(F, c, op)
<1>1. DOMAIN E = DOMAIN F /\ \A d \in DOMAIN F : d # c => E[d] = F[d]
  BY DEF SetFilterOperator
<1> HIDE DEF E
<1>2. DOMAIN Changed(E, c, w) = DOMAIN E \cup {c}
  BY DEF Changed, With
<1>3. OnlyOf(c, E, Changed(E, c, w))
  BY ChangedOnly
<1>4. OnlyOf(c, F, Changed(E, c, w))
  BY <1>1, <1>3 DEF OnlyOf
<1> QED  BY <1>1, <1>2, <1>4 DEF E

LEMMA TabSet ==
  ASSUME NEW F, FiltersFit(F), NEW c \in Columns, TypeOf[c] = "number",
         NEW s \in NumberValues, NEW op,
         \A a \in Nat : DetermineNewOperator("number", a, Len(s), op) \in Fits("number", Len(s))
  PROVE  LET G == SetFilterValue(SetFilterOperator(F, c, op), c, s)
         IN /\ FiltersFit(G) /\ OnlyOf(c, F, G)
            /\ c \in DOMAIN G /\ G[c].values = NewValues("number", s)
<1> DEFINE E == SetFilterOperator(F, c, op)
           w == NewValues("number", s)
           G == Changed(E, c, w)
<1>1. s \in ValuesOf("number") /\ "number" \in Types
  BY NumberSet DEF Types
<1>2. w \in ValuesOf("number") /\ Len(w) = Len(s) /\ s # <<>>
  BY <1>1, InOrder, NumberLength
<1>3. SetFilterValue(E, c, s) = G
  BY <1>2 DEF SetFilterValue
<1>4. DOMAIN G = DOMAIN F \cup {c} /\ OnlyOf(c, F, G)
  BY TabOnly
<1>5. c \in DOMAIN G /\ G[c].values = w
  <2> HIDE DEF E, w
  <2> QED  BY ChangedValues
<1>6. CASE c \notin DOMAIN F
  <2>1. E = [d \in DOMAIN F |-> F[d]]
    BY <1>6 DEF SetFilterOperator
  <2>2. FiltersFit(E)
    BY <2>1 DEF FiltersFit
  <2>3. FiltersFit(G)
    <3> HIDE DEF E, w
    <3> QED  BY <1>2, <2>2, ChangedFits
  <2> QED  BY <1>3, <1>4, <1>5, <2>3
<1>7. CASE c \in DOMAIN F
  <2>1. FilterFits("number", F[c]) /\ F[c].values \in ValuesOf("number")
    BY <1>7 DEF FiltersFit, FilterFits
  <2>2. Len(F[c].values) \in Nat
    BY <1>1, <2>1, SomeValues
  <2>3. E[c].operator = op /\ E[c].values = F[c].values
    BY <1>7, <2>1, OperatorOf
  <2>4. c \in DOMAIN E
    BY <1>7 DEF SetFilterOperator
  <2>5. DetermineNewOperator("number", Len(F[c].values), Len(w), op) \in Fits("number", Len(w))
    BY <1>2, <2>2
  <2>6. FilterFits("number", G[c])
    <3> HIDE DEF E, w
    <3> QED  BY <1>2, <2>3, <2>4, <2>5, TabOperator
  <2>7. FiltersFit(G)
    <3> HIDE DEF G
    <3> QED  BY <1>4, <2>6, OthersStay
  <2> QED  BY <1>3, <1>4, <1>5, <2>7
<1> QED  BY <1>6, <1>7

-----------------------------------------------------------------------------
(* Queues of timers.  What a queue still has for a column: whether a timer *)
(* is waiting, and the last of them.                                       *)

Waiting(q, c) == \E i \in DOMAIN q : q[i].column = c
IsLast(q, c, i) == q[i].column = c /\ \A j \in DOMAIN q : j > i => q[j].column # c

Alike(t, u) == u = t \/ \E o : u = [t EXCEPT !.of = o]
LastsFrom(c, q, r) ==
  \A i \in DOMAIN r : IsLast(r, c, i) => \E k \in DOMAIN q : IsLast(q, c, k) /\ Alike(q[k], r[i])
SameFor(c, q, r) == LastsFrom(c, q, r) /\ (Waiting(r, c) <=> Waiting(q, c))

LEMMA SameAsItself ==
  ASSUME NEW q, NEW c PROVE SameFor(c, q, q)
BY DEF SameFor, LastsFrom, Alike

LEMMA AppendOther ==
  ASSUME NEW S, NEW q \in Seq(S), NEW t \in S, NEW c, t.column # c
  PROVE  SameFor(c, q, Append(q, t))
<1> DEFINE r == Append(q, t)
<1>1. /\ Len(q) \in Nat /\ DOMAIN q = 1 .. Len(q) /\ DOMAIN r = 1 .. Len(q) + 1
      /\ \A i \in 1 .. Len(q) : r[i] = q[i]
      /\ r[Len(q) + 1] = t
  OBVIOUS
<1> HIDE DEF r
<1>2. \A i \in DOMAIN r : r[i].column = c => i \in DOMAIN q /\ r[i] = q[i]
  BY <1>1
<1>3. Waiting(r, c) <=> Waiting(q, c)
  BY <1>1, <1>2 DEF Waiting
<1>4. ASSUME NEW i \in DOMAIN r, IsLast(r, c, i)
      PROVE  \E k \in DOMAIN q : IsLast(q, c, k) /\ Alike(q[k], r[i])
  BY <1>1, <1>2, <1>4 DEF IsLast, Alike
<1> QED  BY <1>3, <1>4 DEF SameFor, LastsFrom, r

LEMMA DroppedOther ==
  ASSUME NEW S, NEW q \in Seq(S), NEW P \in SUBSET DOMAIN q, NEW c,
         \A i \in P : q[i].column # c
  PROVE  SameFor(c, q, Dropped(q, P))
<1> DEFINE r == Dropped(q, P)
<1>1. CASE P = {}
  BY <1>1, SameAsItself DEF Dropped
<1>2. CASE P # {}
  <2>1. PICK i \in P : /\ r \in Seq(S) /\ Len(r) = Len(q) - 1
                       /\ \A j \in 1 .. Len(q) - 1 : r[j] = IF j < i THEN q[j] ELSE q[j + 1]
    BY <1>2, DroppedIs
  <2> HIDE DEF r
  <2>2. /\ Len(q) \in Nat /\ DOMAIN q = 1 .. Len(q) /\ i \in 1 .. Len(q)
        /\ DOMAIN r = 1 .. Len(q) - 1
    BY <2>1
  <2> DEFINE Old(j) == IF j < i THEN j ELSE j + 1
             New(k) == IF k < i THEN k ELSE k - 1
  <2>3. ASSUME NEW j \in DOMAIN r PROVE Old(j) \in DOMAIN q /\ r[j] = q[Old(j)]
    BY <2>1, <2>2
  <2>4. ASSUME NEW k \in DOMAIN q, k # i PROVE New(k) \in DOMAIN r /\ Old(New(k)) = k
    BY <2>2, <2>4
  <2>5. ASSUME NEW k \in DOMAIN q, q[k].column = c
        PROVE  New(k) \in DOMAIN r /\ Old(New(k)) = k /\ r[New(k)] = q[k]
    <3>1. k # i
      BY <2>1, <2>5
    <3>2. New(k) \in DOMAIN r /\ Old(New(k)) = k
      BY <2>4, <3>1
    <3>3. r[New(k)] = q[Old(New(k))]
      <4> HIDE DEF New, Old
      <4> QED  BY <2>3, <3>2
    <3> HIDE DEF New, Old
    <3> QED  BY <3>2, <3>3
  <2>6. Waiting(r, c) <=> Waiting(q, c)
    <3> HIDE DEF New, Old
    <3> QED  BY <2>3, <2>5 DEF Waiting
  <2>7. ASSUME NEW j \in DOMAIN r, IsLast(r, c, j)
        PROVE  \E k \in DOMAIN q : IsLast(q, c, k) /\ Alike(q[k], r[j])
    <3>1. Old(j) \in DOMAIN q /\ r[j] = q[Old(j)]
      BY <2>3
    <3>2. ASSUME NEW k \in DOMAIN q, k > Old(j), q[k].column = c PROVE FALSE
      <4>1. New(k) \in DOMAIN r /\ Old(New(k)) = k /\ r[New(k)] = q[k]
        BY <2>5, <3>2
      <4>2. New(k) > j
        BY <2>2, <3>2, <4>1
      <4> HIDE DEF New, Old
      <4> QED  BY <2>7, <3>2, <4>1, <4>2 DEF IsLast
    <3> HIDE DEF New, Old
    <3>3. IsLast(q, c, Old(j))
      BY <2>7, <3>1, <3>2 DEF IsLast
    <3>4. Alike(q[Old(j)], r[j])
      BY <3>1 DEF Alike
    <3> QED  BY <3>1, <3>3, <3>4
  <2> QED  BY <2>6, <2>7 DEF SameFor, LastsFrom, r
<1> QED  BY <1>1, <1>2

(* A new timer in place of another of its column. *)
LEMMA ReplacedOther ==
  ASSUME NEW S, NEW q \in Seq(S), NEW P \in SUBSET DOMAIN q, NEW t \in S, NEW c,
         t.column # c, \A i \in P : q[i].column # c
  PROVE  SameFor(c, q, Append(Dropped(q, P), t))
<1> DEFINE r == Dropped(q, P)
<1>1. r \in Seq(S) /\ SameFor(c, q, r)
  BY DroppedTyped, DroppedOther
<1> HIDE DEF r
<1>2. SameFor(c, r, Append(r, t))
  BY <1>1, AppendOther
<1> DEFINE w == Append(r, t)
<1>3. /\ Len(r) \in Nat /\ DOMAIN r = 1 .. Len(r) /\ DOMAIN w = 1 .. Len(r) + 1
      /\ \A i \in 1 .. Len(r) : w[i] = r[i]
      /\ w[Len(r) + 1] = t
  BY <1>1
<1> HIDE DEF w
<1>4. ASSUME NEW i \in DOMAIN w, IsLast(w, c, i)
      PROVE  \E k \in DOMAIN q : IsLast(q, c, k) /\ Alike(q[k], w[i])
  <2>1. i \in DOMAIN r /\ IsLast(r, c, i) /\ w[i] = r[i]
    BY <1>3, <1>4 DEF IsLast
  <2> QED  BY <1>1, <2>1 DEF SameFor, LastsFrom
<1> QED  BY <1>1, <1>2, <1>4 DEF SameFor, LastsFrom, r, w

LEMMA AppendOwn ==
  ASSUME NEW S, NEW q \in Seq(S), NEW t \in S, NEW c, t.column = c
  PROVE  /\ Waiting(Append(q, t), c)
         /\ \A i \in DOMAIN Append(q, t) : IsLast(Append(q, t), c, i) => Append(q, t)[i] = t
<1> DEFINE r == Append(q, t)
<1>1. Len(q) \in Nat /\ DOMAIN r = 1 .. Len(q) + 1 /\ r[Len(q) + 1] = t
  OBVIOUS
<1> HIDE DEF r
<1>2. Waiting(r, c)
  BY <1>1 DEF Waiting
<1>3. ASSUME NEW i \in DOMAIN r, IsLast(r, c, i) PROVE r[i] = t
  BY <1>1, <1>3 DEF IsLast
<1> QED  BY <1>2, <1>3 DEF r

LEMMA TailLasts ==
  ASSUME NEW S, NEW q \in Seq(S), q # <<>>, NEW c
  PROVE  /\ LastsFrom(c, q, Tail(q))
         /\ q[1].column # c => (Waiting(Tail(q), c) <=> Waiting(q, c))
         /\ ~ Waiting(Tail(q), c) /\ q[1].column = c => IsLast(q, c, 1)
<1> DEFINE r == Tail(q)
<1>1. /\ Len(q) \in Nat \ {0} /\ DOMAIN q = 1 .. Len(q) /\ DOMAIN r = 1 .. Len(q) - 1
      /\ \A i \in 1 .. Len(q) - 1 : r[i] = q[i + 1]
  OBVIOUS
<1> HIDE DEF r
<1>2. \A k \in DOMAIN q : k # 1 => k - 1 \in DOMAIN r /\ r[k - 1] = q[k] /\ k > 1
  BY <1>1
<1>3. \A i \in DOMAIN r : i + 1 \in DOMAIN q /\ r[i] = q[i + 1]
  BY <1>1
<1>4. ASSUME q[1].column # c PROVE Waiting(r, c) <=> Waiting(q, c)
  BY <1>2, <1>3, <1>4 DEF Waiting
<1>5. ASSUME ~ Waiting(r, c), q[1].column = c PROVE IsLast(q, c, 1)
  BY <1>1, <1>2, <1>5 DEF Waiting, IsLast
<1>6. ASSUME NEW i \in DOMAIN r, IsLast(r, c, i)
      PROVE  \E k \in DOMAIN q : IsLast(q, c, k) /\ Alike(q[k], r[i])
  <2>1. ASSUME NEW k \in DOMAIN q, k > i + 1, q[k].column = c PROVE FALSE
    <3>1. k - 1 \in DOMAIN r /\ r[k - 1] = q[k] /\ k - 1 > i
      BY <1>1, <1>2, <2>1
    <3> QED  BY <1>6, <2>1, <3>1 DEF IsLast
  <2>2. IsLast(q, c, i + 1)
    BY <1>3, <1>6, <2>1 DEF IsLast
  <2> QED  BY <1>3, <2>2 DEF Alike
<1> QED  BY <1>4, <1>5, <1>6 DEF LastsFrom, r

LEMMA LeftIs ==
  ASSUME NEW q, NEW from, NEW to
  PROVE  /\ DOMAIN Left(q, from, to) = DOMAIN q
         /\ \A i \in DOMAIN q : \/ Left(q, from, to)[i] = q[i]
                                \/ Left(q, from, to)[i] = [q[i] EXCEPT !.of = to]
BY DEF Left

LEMMA LeftSame ==
  ASSUME NEW q, NEW from, NEW to, NEW c,
         \A i \in DOMAIN q : [q[i] EXCEPT !.of = to].column = q[i].column
  PROVE  SameFor(c, q, Left(q, from, to))
<1> DEFINE r == Left(q, from, to)
<1>1. DOMAIN r = DOMAIN q
  BY LeftIs
<1>2. \A i \in DOMAIN q : r[i] = q[i] \/ r[i] = [q[i] EXCEPT !.of = to]
  BY LeftIs
<1> HIDE DEF r
<1>3. ASSUME NEW i \in DOMAIN q PROVE r[i].column = q[i].column /\ Alike(q[i], r[i])
  <2>1. CASE r[i] = q[i]
    BY <2>1 DEF Alike
  <2>2. CASE r[i] = [q[i] EXCEPT !.of = to]
    BY <2>2 DEF Alike
  <2> QED  BY <1>2, <2>1, <2>2
<1>4. SameFor(c, q, r)
  BY <1>1, <1>3 DEF SameFor, LastsFrom, Waiting, IsLast
<1> QED  BY <1>4 DEF r

(* Of the timers in M, one at most is waiting. *)
OneOf(q, M) == \A i, j \in DOMAIN q : q[i] \in M /\ q[j] \in M => i = j
NoneOf(q, M) == \A i \in DOMAIN q : q[i] \notin M

LEMMA DroppedOne ==
  ASSUME NEW S, NEW q \in Seq(S), NEW P \in SUBSET DOMAIN q, NEW M, OneOf(q, M)
  PROVE  /\ OneOf(Dropped(q, P), M)
         /\ P = {i \in DOMAIN q : q[i] \in M} => NoneOf(Dropped(q, P), M)
<1> DEFINE r == Dropped(q, P)
<1>1. CASE P = {}
  BY <1>1 DEF Dropped, NoneOf
<1>2. CASE P # {}
  <2>1. PICK i \in P : /\ r \in Seq(S) /\ Len(r) = Len(q) - 1
                       /\ \A j \in 1 .. Len(q) - 1 : r[j] = IF j < i THEN q[j] ELSE q[j + 1]
    BY <1>2, DroppedIs
  <2> HIDE DEF r
  <2>2. /\ Len(q) \in Nat /\ DOMAIN q = 1 .. Len(q) /\ i \in 1 .. Len(q)
        /\ DOMAIN r = 1 .. Len(q) - 1
    BY <2>1
  <2> DEFINE Old(j) == IF j < i THEN j ELSE j + 1
  <2>3. ASSUME NEW j \in DOMAIN r PROVE Old(j) \in DOMAIN q /\ r[j] = q[Old(j)] /\ Old(j) # i
    BY <2>1, <2>2
  <2>4. ASSUME NEW j \in DOMAIN r, NEW k \in DOMAIN r, Old(j) = Old(k) PROVE j = k
    BY <2>2, <2>4
  <2> HIDE DEF Old
  <2>5. OneOf(r, M)
    BY <2>3, <2>4 DEF OneOf
  <2>6. ASSUME P = {k \in DOMAIN q : q[k] \in M} PROVE NoneOf(r, M)
    BY <2>2, <2>3, <2>6 DEF OneOf, NoneOf
  <2> QED  BY <2>5, <2>6 DEF r
<1> QED  BY <1>1, <1>2

LEMMA AppendOne ==
  ASSUME NEW S, NEW q \in Seq(S), NEW t \in S, NEW M, OneOf(q, M), t \notin M \/ NoneOf(q, M)
  PROVE  OneOf(Append(q, t), M)
<1> DEFINE r == Append(q, t)
<1>1. /\ Len(q) \in Nat /\ DOMAIN q = 1 .. Len(q) /\ DOMAIN r = 1 .. Len(q) + 1
      /\ \A i \in 1 .. Len(q) : r[i] = q[i]
      /\ r[Len(q) + 1] = t
  OBVIOUS
<1> HIDE DEF r
<1>2. \A i \in DOMAIN r : i \in DOMAIN q \/ i = Len(q) + 1
  BY <1>1
<1>3. OneOf(r, M)
  BY <1>1, <1>2 DEF OneOf, NoneOf
<1> QED  BY <1>3 DEF r

LEMMA TailOne ==
  ASSUME NEW S, NEW q \in Seq(S), q # <<>>, NEW M, OneOf(q, M)
  PROVE  OneOf(Tail(q), M)
<1> DEFINE r == Tail(q)
<1>1. /\ Len(q) \in Nat \ {0} /\ DOMAIN q = 1 .. Len(q) /\ DOMAIN r = 1 .. Len(q) - 1
      /\ \A i \in 1 .. Len(q) - 1 : r[i] = q[i + 1]
  OBVIOUS
<1> HIDE DEF r
<1>2. \A i \in DOMAIN r : i + 1 \in DOMAIN q /\ r[i] = q[i + 1] /\ i \in Int
  BY <1>1
<1>3. OneOf(r, M)
  BY <1>2 DEF OneOf
<1> QED  BY <1>3 DEF r

-----------------------------------------------------------------------------
(* Timers *)

InputNames == {"text", "single", "min", "max"}
InputTimers ==
  [column : Columns, name : InputNames, value : Numbers \cup Texts,
   base : NumberValues \cup {<<>>}, of : Origins]
CallTimers == [column : Columns, values : NumberValues, of : {"control", "gone"}]

(* The timers there can be when the control of column o is open: those of  *)
(* a mounted control are of that column.                                   *)
InputFits(t, o) ==
  /\ t.of # "gone" => t.column = o
  /\ IF t.name = "text" THEN TypeOf[t.column] = "text" /\ t.value \in Texts
     ELSE TypeOf[t.column] = "number" /\ t.value \in Numbers
InputsOf(o) == {t \in InputTimers : InputFits(t, o)}
CallsOf(o) ==
  {t \in CallTimers : TypeOf[t.column] = "number" /\ (t.of # "gone" => t.column = o)}

(* The running timers of the open control's own inputs, and its own call. *)
Live(name) == {t \in InputTimers : t.of = "input" /\ t.name = name}
Own == {t \in CallTimers : t.of = "control"}

(* What the input timer gives in the end. *)
Result(t) ==
  IF t.name \in {"text", "single"} THEN <<t.value>>
  ELSE NewValues("number", Bounds(t.name, t.value, t.base))

LEMMA MovedInput ==
  ASSUME NEW t \in InputTimers, NEW o
  PROVE  LET u == [t EXCEPT !.of = o]
         IN /\ u.column = t.column /\ u.name = t.name
            /\ u.value = t.value /\ u.base = t.base
            /\ u.of = o
            /\ o \in Origins => u \in InputTimers
BY DEF InputTimers

LEMMA MovedCall ==
  ASSUME NEW t \in CallTimers, NEW o
  PROVE  LET u == [t EXCEPT !.of = o]
         IN /\ u.column = t.column /\ u.values = t.values
            /\ u.of = o
            /\ o \in {"control", "gone"} => u \in CallTimers
BY DEF CallTimers

LEMMA SameResult ==
  ASSUME NEW t \in InputTimers, NEW u, Alike(t, u)
  PROVE  Result(u) = Result(t)
<1>1. CASE u = t
  BY <1>1
<1>2. CASE \E o : u = [t EXCEPT !.of = o]
  <2>1. u.name = t.name /\ u.value = t.value /\ u.base = t.base
    BY <1>2, MovedInput
  <2> QED  BY <2>1 DEF Result
<1> QED  BY <1>1, <1>2 DEF Alike

LEMMA SameCall ==
  ASSUME NEW t \in CallTimers, NEW u, Alike(t, u)
  PROVE  u.values = t.values
<1>1. CASE u = t
  BY <1>1
<1>2. CASE \E o : u = [t EXCEPT !.of = o]
  BY <1>2, MovedCall
<1> QED  BY <1>1, <1>2 DEF Alike

LEMMA InputsClosed ==
  ASSUME NEW o, NEW q \in Seq(InputsOf(o))
  PROVE  Left(q, Origins, "gone") \in Seq(InputsOf(None))
<1> DEFINE r == Left(q, Origins, "gone")
<1>1. \A i \in DOMAIN q : q[i] \in InputTimers /\ InputFits(q[i], o) /\ q[i].of \in Origins
  BY DEF InputsOf, InputTimers
<1>2. r = [i \in DOMAIN q |-> [q[i] EXCEPT !.of = "gone"]]
  BY <1>1 DEF Left
<1>3. ASSUME NEW i \in DOMAIN q PROVE [q[i] EXCEPT !.of = "gone"] \in InputsOf(None)
  <2> DEFINE t == q[i]
             u == [t EXCEPT !.of = "gone"]
  <2>1. t \in InputTimers /\ InputFits(t, o)
    BY <1>1
  <2>2. /\ u.column = t.column /\ u.name = t.name
        /\ u.value = t.value /\ u.of = "gone" /\ u \in InputTimers
    <3> HIDE DEF t
    <3> QED  BY <2>1, MovedInput DEF Origins
  <2> HIDE DEF t, u
  <2>3. u \in InputsOf(None)
    BY <2>1, <2>2 DEF InputsOf, InputFits
  <2> QED  BY <2>3 DEF t, u
<1>4. Len(q) \in Nat /\ DOMAIN q = 1 .. Len(q)
  OBVIOUS
<1>5. r \in [1 .. Len(q) -> InputsOf(None)]
  BY <1>2, <1>3, <1>4
<1> QED  BY <1>4, <1>5

LEMMA InputsLeft ==
  ASSUME NEW o, NEW q \in Seq(InputsOf(o))
  PROVE  Left(q, {"input"}, "control") \in Seq(InputsOf(o))
<1> DEFINE r == Left(q, {"input"}, "control")
<1>1. \A i \in DOMAIN q : q[i] \in InputTimers /\ InputFits(q[i], o)
  BY DEF InputsOf
<1>2. DOMAIN r = DOMAIN q
  BY LeftIs
<1>3. ASSUME NEW i \in DOMAIN q PROVE r[i] \in InputsOf(o)
  <2> DEFINE t == q[i]
             u == [t EXCEPT !.of = "control"]
  <2>1. t \in InputTimers /\ InputFits(t, o)
    BY <1>1
  <2>2. /\ u.column = t.column /\ u.name = t.name
        /\ u.value = t.value /\ u.of = "control" /\ u \in InputTimers
    <3> HIDE DEF t
    <3> QED  BY <2>1, MovedInput DEF Origins
  <2>3. r[i] = IF t.of = "input" THEN u ELSE t
    BY DEF Left
  <2> HIDE DEF t, u, r
  <2>4. t.of = "input" => u \in InputsOf(o)
    BY <2>1, <2>2 DEF InputsOf, InputFits
  <2>5. t \in InputsOf(o)
    BY <2>1 DEF InputsOf
  <2> QED  BY <2>3, <2>4, <2>5
<1>4. Len(q) \in Nat /\ DOMAIN q = 1 .. Len(q)
  OBVIOUS
<1>5. r = [i \in DOMAIN q |-> r[i]]
  BY DEF Left
<1> HIDE DEF r
<1>6. r \in [1 .. Len(q) -> InputsOf(o)]
  BY <1>2, <1>3, <1>4, <1>5
<1> QED  BY <1>4, <1>6 DEF r

LEMMA CallsClosed ==
  ASSUME NEW o, NEW q \in Seq(CallsOf(o))
  PROVE  Left(q, Origins, "gone") \in Seq(CallsOf(None))
<1> DEFINE r == Left(q, Origins, "gone")
<1>1. \A i \in DOMAIN q : q[i] \in CallTimers /\ TypeOf[q[i].column] = "number" /\ q[i].of \in Origins
  BY DEF CallsOf, CallTimers, Origins
<1>2. r = [i \in DOMAIN q |-> [q[i] EXCEPT !.of = "gone"]]
  BY <1>1 DEF Left
<1>3. ASSUME NEW i \in DOMAIN q PROVE [q[i] EXCEPT !.of = "gone"] \in CallsOf(None)
  <2> DEFINE t == q[i]
             u == [t EXCEPT !.of = "gone"]
  <2>1. t \in CallTimers /\ TypeOf[t.column] = "number"
    BY <1>1
  <2>2. u.column = t.column /\ u.of = "gone" /\ u \in CallTimers
    <3> HIDE DEF t
    <3> QED  BY <2>1, MovedCall
  <2> HIDE DEF t, u
  <2>3. u \in CallsOf(None)
    BY <2>1, <2>2 DEF CallsOf
  <2> QED  BY <2>3 DEF t, u
<1>4. Len(q) \in Nat /\ DOMAIN q = 1 .. Len(q)
  OBVIOUS
<1>5. r \in [1 .. Len(q) -> CallsOf(None)]
  BY <1>2, <1>3, <1>4
<1> QED  BY <1>4, <1>5

(* A timer that was left behind is not live. *)
LEMMA LeftNotLive ==
  ASSUME NEW o, NEW q \in Seq(InputsOf(o)), NEW from, NEW to \in {"control", "gone"},
         NEW name, OneOf(q, Live(name))
  PROVE  OneOf(Left(q, from, to), Live(name))
<1> DEFINE r == Left(q, from, to)
<1>1. DOMAIN r = DOMAIN q
  BY LeftIs
<1>2. ASSUME NEW i \in DOMAIN q, r[i] \in Live(name) PROVE q[i] \in Live(name)
  <2>1. q[i] \in InputTimers
    BY DEF InputsOf
  <2>2. r[i] = q[i] \/ r[i] = [q[i] EXCEPT !.of = to]
    BY LeftIs
  <2>3. [q[i] EXCEPT !.of = to].of = to
    BY <2>1, MovedInput
  <2>4. r[i].of = "input"
    BY <1>2 DEF Live
  <2> HIDE DEF r
  <2> QED  BY <1>2, <2>2, <2>3, <2>4
<1> HIDE DEF r
<1>3. OneOf(r, Live(name))
  BY <1>1, <1>2 DEF OneOf
<1> QED  BY <1>3 DEF r

LEMMA LeftNotOwn ==
  ASSUME NEW o, NEW q \in Seq(CallsOf(o)), OneOf(q, Own)
  PROVE  OneOf(Left(q, Origins, "gone"), Own)
<1> DEFINE r == Left(q, Origins, "gone")
<1>1. DOMAIN r = DOMAIN q
  BY LeftIs
<1>2. ASSUME NEW i \in DOMAIN q, r[i] \in Own PROVE q[i] \in Own
  <2>1. q[i] \in CallTimers
    BY DEF CallsOf
  <2>2. r[i] = q[i] \/ r[i] = [q[i] EXCEPT !.of = "gone"]
    BY LeftIs
  <2>3. [q[i] EXCEPT !.of = "gone"].of = "gone"
    BY <2>1, MovedCall
  <2>4. r[i].of = "control"
    BY <1>2 DEF Own
  <2> HIDE DEF r
  <2> QED  BY <1>2, <2>2, <2>3, <2>4
<1> HIDE DEF r
<1>3. OneOf(r, Own)
  BY <1>1, <1>2 DEF OneOf
<1> QED  BY <1>3 DEF r

LEMMA InputsLeftSame ==
  ASSUME NEW o, NEW q \in Seq(InputsOf(o)), NEW from, NEW to, NEW c
  PROVE  SameFor(c, q, Left(q, from, to))
<1>1. \A i \in DOMAIN q : q[i] \in InputTimers
  BY DEF InputsOf
<1>2. \A i \in DOMAIN q : [q[i] EXCEPT !.of = to].column = q[i].column
  BY <1>1, MovedInput
<1> QED  BY <1>2, LeftSame

LEMMA CallsLeftSame ==
  ASSUME NEW o, NEW q \in Seq(CallsOf(o)), NEW from, NEW to, NEW c
  PROVE  SameFor(c, q, Left(q, from, to))
<1>1. \A i \in DOMAIN q : q[i] \in CallTimers
  BY DEF CallsOf
<1>2. \A i \in DOMAIN q : [q[i] EXCEPT !.of = to].column = q[i].column
  BY <1>1, MovedCall
<1> QED  BY <1>2, LeftSame

(* The values of the timers are numbers. *)
LEMMA BoundsTyped ==
  ASSUME NEW name \in {"min", "max"}, NEW v \in Numbers, NEW s \in NumberValues \cup {<<>>}
  PROVE  Bounds(name, v, s) \in NumberValues /\ Len(Bounds(name, v, s)) = 2
<1>1. At(s, 1) \in Numerals /\ At(s, 2) \in Numerals
  BY NumberLength DEF At, Numerals
<1>2. v \in Numerals
  BY DEF Numerals
<1> QED  BY <1>1, <1>2, OrderedBounds DEF Bounds

LEMMA RangeTyped ==
  ASSUME NEW s \in NumberValues
  PROVE  RangeFrom(s) \in NumberValues /\ Len(RangeFrom(s)) = 2
<1>1. /\ s[1] \in Numerals /\ (Len(s) = 2 => s[2] \in Numerals) /\ 0 \in Numerals
      /\ MinMax # <<>> => MinMax[1] \in Numerals /\ MinMax[2] \in Numerals
  BY NumberLength, FilterAssumption DEF Numerals
<1>2. \A a, b \in Numerals :
        CreateNumberRange(a, b) \in NumberValues /\ Len(CreateNumberRange(a, b)) = 2
  BY OrderedBounds
<1> QED  BY <1>1, <1>2 DEF RangeFrom

-----------------------------------------------------------------------------
(* The invariant *)

ControlsFit ==
  /\ open \in Columns \cup {None}
  /\ shown \in NumberValues \cup {<<>>} /\ base \in NumberValues \cup {<<>>}
  /\ NumberOpen => shown \in NumberValues

EntriesOf(type) == {<<>>} \cup (IF type \in {"number", "text"} THEN ValuesOf(type) ELSE {})
EntriesFit ==
  /\ entered \in [Columns -> {<<>>} \cup NumberValues \cup {<<w>> : w \in Texts}]
  /\ \A c \in Columns : entered[c] \in EntriesOf(TypeOf[c])
  /\ excused \subseteq Columns

InputsFit == inputs \in Seq(InputsOf(open)) /\ \A name \in InputNames : OneOf(inputs, Live(name))
CallsFit == calls \in Seq(CallsOf(open)) /\ OneOf(calls, Own)

(* The entry e of a column is there when nothing waits for the column, and *)
(* it is what the last timer that waits brings: an input's, or a call when *)
(* no input's does.                                                        *)
Shows(c, F, e) == IF e = <<>> THEN c \notin DOMAIN F ELSE c \in DOMAIN F /\ F[c].values = e
Arrives(c, F, I, C, e) ==
  /\ \A i \in DOMAIN I : IsLast(I, c, i) => Result(I[i]) = e
  /\ ~ Waiting(I, c) =>
       \A i \in DOMAIN C : IsLast(C, c, i) => NewValues("number", C[i].values) = e
  /\ ~ Waiting(I, c) /\ ~ Waiting(C, c) => Shows(c, F, e)

Followed(c) == TypeOf[c] \in {"number", "text"} /\ c \notin excused
EntriesArrive ==
  \A c \in Columns : Followed(c) => Arrives(c, filters, inputs, calls, entered[c])

TInv ==
  /\ FiltersFit(filters) /\ ControlsFit /\ EntriesFit
  /\ InputsFit /\ CallsFit /\ EntriesArrive

LEMMA PendingIsWaiting ==
  ASSUME NEW c PROVE Pending(c) <=> Waiting(inputs, c) \/ Waiting(calls, c)
BY DEF Pending, Waiting

(* What the invariant says of the columns that no step touched. *)
LEMMA Untouched ==
  ASSUME NEW c, NEW F, NEW G, NEW I, NEW J, NEW C, NEW D, NEW e, NEW o,
         Arrives(c, F, I, C, e),
         I \in Seq(InputsOf(o)), C \in Seq(CallsOf(o)),
         SameFor(c, I, J), SameFor(c, C, D), Shows(c, F, e) => Shows(c, G, e)
  PROVE  Arrives(c, G, J, D, e)
<1>1. ASSUME NEW i \in DOMAIN J, IsLast(J, c, i) PROVE Result(J[i]) = e
  <2>1. PICK k \in DOMAIN I : IsLast(I, c, k) /\ Alike(I[k], J[i])
    BY <1>1 DEF SameFor, LastsFrom
  <2>2. I[k] \in InputTimers
    BY <2>1 DEF InputsOf
  <2>3. Result(J[i]) = Result(I[k])
    BY <2>1, <2>2, SameResult
  <2> QED  BY <2>1, <2>3 DEF Arrives
<1>2. ASSUME ~ Waiting(J, c), NEW i \in DOMAIN D, IsLast(D, c, i)
      PROVE  NewValues("number", D[i].values) = e
  <2>1. PICK k \in DOMAIN C : IsLast(C, c, k) /\ Alike(C[k], D[i])
    BY <1>2 DEF SameFor, LastsFrom
  <2>2. C[k] \in CallTimers
    BY <2>1 DEF CallsOf
  <2>3. D[i].values = C[k].values
    BY <2>1, <2>2, SameCall
  <2>4. ~ Waiting(I, c)
    BY <1>2 DEF SameFor
  <2> QED  BY <2>1, <2>3, <2>4 DEF Arrives
<1>3. ~ Waiting(J, c) /\ ~ Waiting(D, c) => Shows(c, G, e)
  BY DEF SameFor, Arrives
<1> QED  BY <1>1, <1>2, <1>3 DEF Arrives

LEMMA ShowsElsewhere ==
  ASSUME NEW F, NEW G, NEW c, OnlyOf(c, F, G), NEW d, d # c, NEW e, Shows(d, F, e)
  PROVE  Shows(d, G, e)
BY DEF OnlyOf, Shows

LEMMA Starts == Init => TInv
<1> SUFFICES ASSUME Init PROVE TInv
  OBVIOUS
<1>1. FiltersFit(filters) /\ DOMAIN filters = {}
  BY DEF Init, FiltersFit
<1>2. ControlsFit
  BY DEF Init, ControlsFit, NumberOpen
<1>3. EntriesFit
  BY DEF Init, EntriesFit, EntriesOf
<1>4. InputsFit /\ DOMAIN inputs = {}
  BY DEF Init, InputsFit, OneOf
<1>5. CallsFit /\ DOMAIN calls = {}
  BY DEF Init, CallsFit, OneOf
<1>6. EntriesArrive
  BY <1>1, <1>4, <1>5 DEF Init, EntriesArrive, Arrives, Shows
<1> QED  BY <1>1, <1>2, <1>3, <1>4, <1>5, <1>6 DEF TInv

LEMMA ColumnTypes ==
  ASSUME NEW c \in Columns PROVE TypeOf[c] \in Types
BY TypeKnown

LEMMA FilterValues ==
  ASSUME FiltersFit(filters), NEW c \in DOMAIN filters
  PROVE  /\ c \in Columns
         /\ filters[c].values \in ValuesOf(TypeOf[c]) /\ filters[c].values # <<>>
<1>1. c \in Columns /\ FilterFits(TypeOf[c], filters[c])
  BY DEF FiltersFit
<1>2. filters[c].values \in ValuesOf(TypeOf[c])
  BY <1>1 DEF FilterFits
<1> QED  BY <1>1, <1>2, ColumnTypes, SomeValues

-----------------------------------------------------------------------------
(* What the steps do with the filters *)

LEMMA FirstInput ==
  ASSUME InputsFit, inputs # <<>>
  PROVE  inputs[1] \in InputTimers /\ InputFits(inputs[1], open)
<1>1. inputs \in Seq(InputsOf(open))
  BY DEF InputsFit
<1>2. inputs[1] \in InputsOf(open)
  BY <1>1
<1> QED  BY <1>2 DEF InputsOf

LEMMA FirstCall ==
  ASSUME CallsFit, calls # <<>>
  PROVE  calls[1] \in CallTimers /\ TypeOf[calls[1].column] = "number"
<1>1. calls \in Seq(CallsOf(open))
  BY DEF CallsFit
<1>2. calls[1] \in CallsOf(open)
  BY <1>1
<1> QED  BY <1>2 DEF CallsOf

(* The values are given to one column. *)
GivenTo(c, F, G, values) ==
  /\ FiltersFit(G) /\ OnlyOf(c, F, G)
  /\ c \in DOMAIN G /\ G[c].values = values

LEMMA DatesGiven ==
  ASSUME FiltersFit(filters), NEW c \in Columns, NEW from \in Days, NEW to \in Days,
         ChangeDateRange(c, from, to)
  PROVE  FiltersFit(filters') /\ SensesKept(filters, filters') /\ OnlyOf(c, filters, filters')
<1> DEFINE s == IF from = to THEN <<2 * from>> ELSE <<2 * from, 2 * to>>
<1>1. filters' = SetFilterValue(filters, c, s) /\ TypeOf[c] = "date"
  BY DEF ChangeDateRange
<1>2. s \in ValuesOf("date")
  BY DEF ValuesOf
<1> HIDE DEF s
<1> QED  BY <1>1, <1>2, ValueSet

LEMMA TextGiven ==
  ASSUME FiltersFit(filters), InputsFit, InputFires, inputs[1].name = "text"
  PROVE  /\ GivenTo(inputs[1].column, filters, filters', <<inputs[1].value>>)
         /\ SensesKept(filters, filters')
         /\ <<inputs[1].value>> # <<>> /\ inputs[1].column \in Columns
         /\ TypeOf[inputs[1].column] = "text" /\ UNCHANGED <<shown, calls>>
<1> DEFINE c == inputs[1].column
           s == <<inputs[1].value>>
<1>1. filters' = SetFilterValue(filters, c, s) /\ UNCHANGED <<shown, calls>>
  BY DEF InputFires
<1>2. c \in Columns /\ TypeOf[c] = "text" /\ inputs[1].value \in Texts
  BY FirstInput DEF InputFires, InputTimers, InputFits
<1>3. s \in ValuesOf(TypeOf[c]) /\ s # <<>>
  BY <1>2, TextSet
<1>4. NewValues(TypeOf[c], s) = s
  BY <1>2 DEF NewValues
<1> HIDE DEF c, s
<1>5. GivenTo(c, filters, filters', s) /\ SensesKept(filters, filters')
  BY <1>1, <1>2, <1>3, <1>4, ValueSet DEF GivenTo
<1> QED  BY <1>1, <1>2, <1>3, <1>5 DEF c, s

LEMMA CallGiven ==
  ASSUME FiltersFit(filters), CallsFit, CallFires
  PROVE  /\ GivenTo(calls[1].column, filters, filters', NewValues("number", calls[1].values))
         /\ SensesKept(filters, filters')
         /\ NewValues("number", calls[1].values) # <<>>
         /\ calls[1].column \in Columns /\ TypeOf[calls[1].column] = "number"
<1> DEFINE c == calls[1].column
           s == calls[1].values
<1>1. filters' = SetFilterValue(filters, c, s)
  BY DEF CallFires, Applied
<1>2. c \in Columns /\ TypeOf[c] = "number" /\ s \in NumberValues
  BY FirstCall DEF CallFires, CallTimers
<1> HIDE DEF c, s
<1>3. s \in ValuesOf(TypeOf[c]) /\ TypeOf[c] \in Types
  BY <1>2, NumberSet, ColumnTypes
<1>4. NewValues("number", s) # <<>>
  BY <1>2, <1>3, InOrder, SomeValues
<1>5. GivenTo(c, filters, filters', NewValues("number", s)) /\ SensesKept(filters, filters')
  BY <1>1, <1>2, <1>3, ValueSet DEF GivenTo
<1> QED  BY <1>2, <1>4, <1>5 DEF c, s

(* The values that a tab gives. *)
TabValues(c) == IF ~ InRange(filters, c) THEN RangeFrom(shown) ELSE <<shown[1]>>

LEMMA TabGiven ==
  ASSUME FiltersFit(filters), ControlsFit, NEW c \in Columns, ChangeType(c)
  PROVE  /\ GivenTo(c, filters, filters', NewValues("number", TabValues(c)))
         /\ TabValues(c) \in NumberValues /\ NewValues("number", TabValues(c)) # <<>>
         /\ NewValues("number", TabValues(c)) \in ValuesOf(TypeOf[c])
         /\ TypeOf[c] = "number" /\ open = c /\ shown' = TabValues(c)
<1> DEFINE s == TabValues(c)
           op == IF ~ InRange(filters, c) THEN "is between" ELSE "is"
<1>1. /\ open = c /\ TypeOf[c] = "number" /\ shown' = s
      /\ filters' = SetFilterValue(SetFilterOperator(filters, c, op), c, s)
  BY DEF ChangeType, TabValues
<1>2. shown \in NumberValues
  BY <1>1, FilterAssumption DEF ControlsFit, NumberOpen
<1>3. s \in NumberValues /\ Len(s) = IF ~ InRange(filters, c) THEN 2 ELSE 1
  <2>1. CASE ~ InRange(filters, c)
    BY <1>2, <2>1, RangeTyped DEF TabValues
  <2>2. CASE InRange(filters, c)
    <3>1. shown[1] \in Numerals
      BY <1>2, NumberLength
    <3>2. <<shown[1]>> \in NumberValues
      BY <3>1 DEF NumberValues
    <3> QED  BY <2>2, <3>2 DEF TabValues
  <2> QED  BY <2>1, <2>2
<1>4. \A a \in Nat : DetermineNewOperator("number", a, Len(s), op) \in Fits("number", Len(s))
  BY <1>3, TabFits
<1> HIDE DEF s, op
<1>5. GivenTo(c, filters, filters', NewValues("number", s))
  BY <1>1, <1>3, <1>4, TabSet DEF GivenTo
<1>6. NewValues("number", s) \in ValuesOf("number") /\ NewValues("number", s) # <<>>
  BY <1>3, NumberSet, InOrder, SomeValues DEF Types
<1> QED  BY <1>1, <1>3, <1>5, <1>6 DEF s

LEMMA OptionGiven ==
  ASSUME FiltersFit(filters), NEW c \in Columns, NEW v \in Options, ToggleOption(c, v)
  PROVE  FiltersFit(filters') /\ SensesKept(filters, filters') /\ OnlyOf(c, filters, filters')
<1>1. /\ TypeOf[c] \in {"option", "multiOption"}
      /\ filters' = IF c \in DOMAIN filters /\ v \in ToSet(filters[c].values)
                    THEN RemoveFilterValue(filters, c, v) ELSE AddFilterValue(filters, c, v)
  BY DEF ToggleOption, Filtered
<1> QED  BY <1>1, OptionToggled

LEMMA OperatorGiven ==
  ASSUME FiltersFit(filters), NEW c \in Columns, NEW op, ChangeOperator(c, op)
  PROVE  /\ GivenTo(c, filters, filters', filters[c].values)
         /\ c \in DOMAIN filters
<1>1. /\ c \in DOMAIN filters /\ filters' = SetFilterOperator(filters, c, op)
      /\ op \in IF InRange(filters, c) THEN Multiple(TypeOf[c]) ELSE Single(TypeOf[c])
  BY DEF ChangeOperator, Filtered, SameTarget
<1> QED  BY <1>1, OperatorSet DEF GivenTo

LEMMA FilterGone ==
  ASSUME FiltersFit(filters), NEW c \in Columns, RemoveFilter(c)
  PROVE  FiltersFit(filters') /\ OnlyOf(c, filters, filters') /\ c \notin DOMAIN filters'
<1>1. /\ DOMAIN filters' = DOMAIN filters \ {c}
      /\ \A d \in DOMAIN filters \ {c} : filters'[d] = filters[d]
  BY DEF RemoveFilter, Without
<1> QED  BY <1>1 DEF FiltersFit, OnlyOf

LEMMA FiltersGone ==
  ASSUME RemoveAllFilters
  PROVE  FiltersFit(filters') /\ DOMAIN filters' = {}
<1>1. filters' = <<>>
  BY DEF RemoveAllFilters
<1> QED  BY <1>1 DEF FiltersFit

(* Steps that have another effect than on the filters. *)
LEMMA FiltersUnchanged ==
  ASSUME \/ \E c \in Columns : OpenValue(c) \/ \E w \in Texts : TypeText(c, w)
         \/ \E c \in Columns, v \in Numbers : TypeNumber(c, v)
         \/ \E c \in Columns, name \in {"min", "max"}, v \in Numbers : TypeBound(c, name, v)
         \/ \E c \in Columns : \E s : Slide(c, s)
         \/ CloseValue \/ UNCHANGED vars
  PROVE  UNCHANGED filters
BY DEF OpenValue, TypeText, TypeNumber, TypeBound, Slide, CloseValue, vars

LEMMA FiltersKept ==
  ASSUME TInv, [Next]_vars
  PROVE  FiltersFit(filters')
<1> USE DEF TInv
<1>1. ASSUME NEW c \in Columns, OpenValue(c) PROVE FiltersFit(filters')
  BY <1>1, FiltersUnchanged
<1>2. ASSUME NEW c \in Columns, Edits(c) PROVE FiltersFit(filters')
  BY <1>2, FiltersUnchanged, OptionGiven, DatesGiven DEF Edits
<1>3. ASSUME NEW c \in Columns, ChangeType(c) PROVE FiltersFit(filters')
  BY <1>3, TabGiven DEF GivenTo
<1>4. ASSUME NEW c \in Columns, RemoveFilter(c) PROVE FiltersFit(filters')
  BY <1>4, FilterGone
<1>5. ASSUME NEW c \in Columns, NEW op, ChangeOperator(c, op) PROVE FiltersFit(filters')
  BY <1>5, OperatorGiven DEF GivenTo
<1>6. CASE RemoveAllFilters
  BY <1>6, FiltersGone
<1>7. CASE InputFires
  <2>1. CASE inputs[1].name = "text"
    BY <1>7, <2>1, TextGiven DEF GivenTo
  <2>2. CASE inputs[1].name # "text"
    <3>1. UNCHANGED filters
      BY <1>7, <2>2 DEF InputFires
    <3> QED  BY <3>1
  <2> QED  BY <2>1, <2>2
<1>8. CASE CallFires
  BY <1>8, CallGiven DEF GivenTo
<1>9. CASE CloseValue \/ UNCHANGED vars
  BY <1>9, FiltersUnchanged
<1> QED  BY <1>1, <1>2, <1>3, <1>4, <1>5, <1>6, <1>7, <1>8, <1>9 DEF Next, Timers

-----------------------------------------------------------------------------
(* What the steps do with the controls, the entries and the timers *)

(* The call that a number's input makes. *)
CallOf(t) == IF t.name = "single" THEN <<t.value>> ELSE Bounds(t.name, t.value, t.base)

LEMMA CallTyped ==
  ASSUME NEW t \in InputTimers, t.value \in Numbers, t.name # "text"
  PROVE  /\ CallOf(t) \in NumberValues
         /\ NewValues("number", CallOf(t)) = Result(t)
<1>1. t.name \in InputNames /\ t.base \in NumberValues \cup {<<>>}
  BY DEF InputTimers
<1>2. CASE t.name = "single"
  <2>1. <<t.value>> \in NumberValues
    BY DEF NumberValues, Numerals
  <2> QED  BY <1>2, <2>1 DEF CallOf, Result, NewValues
<1>3. CASE t.name \in {"min", "max"}
  BY <1>1, <1>3, BoundsTyped DEF CallOf, Result
<1> QED  BY <1>1, <1>2, <1>3 DEF InputNames

LEMMA InputCalls ==
  ASSUME InputsFit, InputFires, inputs[1].name # "text"
  PROVE  LET t == inputs[1]
             of == IF t.of = "gone" THEN "gone" ELSE "control"
         IN /\ t \in InputTimers /\ TypeOf[t.column] = "number" /\ t.column \in Columns
            /\ CallOf(t) \in NumberValues /\ NewValues("number", CallOf(t)) = Result(t)
            /\ t.of # "gone" => t.column = open
            /\ shown' = IF t.of = "gone" THEN shown ELSE CallOf(t)
            /\ Calls(t.column, CallOf(t), of)
            /\ UNCHANGED filters
<1> DEFINE t == inputs[1]
<1>1. /\ t \in InputTimers /\ t.value \in Numbers /\ TypeOf[t.column] = "number"
      /\ t.of # "gone" => t.column = open
  BY FirstInput DEF InputFires, InputFits
<1>2. /\ shown' = IF t.of = "gone" THEN shown ELSE CallOf(t)
      /\ Calls(t.column, CallOf(t), IF t.of = "gone" THEN "gone" ELSE "control")
      /\ UNCHANGED filters
  BY DEF InputFires, CallOf
<1>3. CallOf(t) \in NumberValues /\ NewValues("number", CallOf(t)) = Result(t)
  <2> HIDE DEF t
  <2> QED  BY <1>1, CallTyped DEF t
<1>4. t.column \in Columns
  BY <1>1 DEF InputTimers
<1> QED  BY <1>1, <1>2, <1>3, <1>4

LEMMA SlideTyped ==
  ASSUME NEW a \in Numbers
  PROVE  /\ <<a>> \in NumberValues /\ NewValues("number", <<a>>) = <<a>>
         /\ \A b \in Numbers : a <= b => /\ <<a, b>> \in NumberValues
                                         /\ NewValues("number", <<a, b>>) = <<a, b>>
<1>1. a \in Nat /\ a \in Numerals /\ a # Undefined
  BY FilterAssumption DEF Numerals
<1>2. <<a>> \in NumberValues /\ NewValues("number", <<a>>) = <<a>>
  BY <1>1 DEF NumberValues, NewValues
<1>3. ASSUME NEW b \in Numbers, a <= b
      PROVE  <<a, b>> \in NumberValues /\ NewValues("number", <<a, b>>) = <<a, b>>
  <2>1. b \in Nat /\ b \in Numerals /\ b # Undefined
    BY FilterAssumption DEF Numerals
  <2>2. NewValues("number", <<a, b>>) = CreateNumberRange(a, b)
    BY DEF NewValues
  <2>3. CreateNumberRange(a, b) = <<a, b>>
    BY <1>1, <1>3, <2>1 DEF CreateNumberRange, Less
  <2> QED  BY <1>1, <2>1, <2>2, <2>3 DEF NumberValues
<1> QED  BY <1>2, <1>3

LEMMA ControlsKept ==
  ASSUME TInv, [Next]_vars
  PROVE  ControlsFit'
<1> USE DEF TInv
<1>1. ASSUME NEW c \in Columns, OpenValue(c) PROVE ControlsFit'
  <2> DEFINE s == IF Filtered(c) THEN filters[c].values ELSE <<0, 0>>
  <2>1. /\ open' = c /\ shown' = IF TypeOf[c] = "number" THEN s ELSE <<>>
        /\ base' \in {s, <<>>} /\ (TypeOf[c] # "number" => base' = <<>>)
    BY <1>1 DEF OpenValue
  <2>2. TypeOf[c] = "number" => s \in NumberValues
    <3>1. <<0, 0>> \in NumberValues
      BY FilterAssumption DEF NumberValues, Numerals
    <3>2. ASSUME c \in DOMAIN filters, TypeOf[c] = "number" PROVE filters[c].values \in NumberValues
      BY <3>2, FilterValues, NumberSet
    <3> QED  BY <3>1, <3>2 DEF Filtered
  <2> HIDE DEF s
  <2> QED  BY <2>1, <2>2 DEF ControlsFit, NumberOpen
<1>2. CASE CloseValue
  BY <1>2 DEF CloseValue, ControlsFit, NumberOpen
<1>3. ASSUME NEW c \in Columns, NEW a \in Numbers, NEW b \in Numbers,
             Slide(c, <<a>>) \/ (a <= b /\ Slide(c, <<a, b>>))
      PROVE  ControlsFit'
  <2>1. shown' \in NumberValues /\ UNCHANGED <<open, base>>
    BY <1>3, SlideTyped DEF Slide
  <2> QED  BY <2>1 DEF ControlsFit, NumberOpen
<1>4. ASSUME NEW c \in Columns, ChangeType(c) PROVE ControlsFit'
  <2>1. shown' \in NumberValues /\ UNCHANGED open
    BY <1>4, TabGiven DEF ChangeType
  <2>2. base' \in {<<>>, base, shown'}
    BY <1>4, TabGiven DEF ChangeType, MountsInputs, TabValues
  <2> QED  BY <2>1, <2>2 DEF ControlsFit, NumberOpen
<1>5. CASE InputFires
  <2>1. UNCHANGED <<open, base>>
    BY <1>5 DEF InputFires
  <2>2. CASE inputs[1].name = "text"
    BY <1>5, <2>1, <2>2, TextGiven DEF ControlsFit, NumberOpen
  <2>3. CASE inputs[1].name # "text"
    <3>1. shown' = shown \/ shown' \in NumberValues
      BY <1>5, <2>3, InputCalls
    <3> QED  BY <2>1, <3>1 DEF ControlsFit, NumberOpen
  <2> QED  BY <2>2, <2>3
<1>6. CASE CallFires
  <2>1. UNCHANGED <<open, shown>>
    BY <1>6 DEF CallFires
  <2>2. base' \in {<<>>, base} \/ (NumberOpen /\ base' = shown)
    <3>1. \E F : MountsInputs(F, shown, base)
      BY <1>6 DEF CallFires
    <3> QED  BY <3>1 DEF MountsInputs
  <2> QED  BY <2>1, <2>2 DEF ControlsFit, NumberOpen
<1>7. ASSUME UNCHANGED controlVars PROVE ControlsFit'
  BY <1>7 DEF ControlsFit, NumberOpen, controlVars
<1>8. ASSUME NEW c \in Columns, Edits(c) PROVE ControlsFit'
  <2>1. CASE \E a, b \in Numbers : Slide(c, <<a>>) \/ (a <= b /\ Slide(c, <<a, b>>))
    BY <1>3, <2>1
  <2>2. CASE UNCHANGED controlVars
    BY <1>7, <2>2
  <2> QED  BY <1>8, <2>1, <2>2
           DEF Edits, ToggleOption, ChangeDateRange, TypeText, TypeNumber, TypeBound, controlVars
<1>9. ASSUME NEW c \in Columns, RemoveFilter(c) \/ \E op : ChangeOperator(c, op) PROVE ControlsFit'
  BY <1>7, <1>9 DEF RemoveFilter, ChangeOperator
<1>10. CASE RemoveAllFilters \/ UNCHANGED vars
  BY <1>7, <1>10 DEF RemoveAllFilters, vars
<1> QED  BY <1>1, <1>2, <1>4, <1>5, <1>6, <1>8, <1>9, <1>10 DEF Next, Timers

(* The entries that Enters and Removed leave. *)
LEMMA Entered ==
  ASSUME EntriesFit, NEW c \in Columns, NEW s \in EntriesOf(TypeOf[c]), NEW e \in {s, <<>>},
         entered' = [entered EXCEPT ![c] = e], excused' \subseteq excused \cup {c}
  PROVE  EntriesFit'
<1>1. e \in EntriesOf(TypeOf[c])
  BY DEF EntriesOf
<1>2. e \in {<<>>} \cup NumberValues \cup {<<w>> : w \in Texts}
  BY <1>1, NumberSet, TextSet DEF EntriesOf
<1> QED  BY <1>1, <1>2 DEF EntriesFit

LEMMA EntriesKept ==
  ASSUME TInv, [Next]_vars
  PROVE  EntriesFit'
<1> USE DEF TInv
<1>1. ASSUME UNCHANGED histVars PROVE EntriesFit'
  BY <1>1 DEF EntriesFit, histVars
<1>2. ASSUME NEW c \in Columns, OpenValue(c) PROVE EntriesFit'
  <2> DEFINE s == IF Filtered(c) THEN filters[c].values ELSE <<>>
  <2>1. s \in EntriesOf(TypeOf[c])
    BY <1>2, FilterValues DEF OpenValue, Filtered, EntriesOf
  <2>2. \/ entered' = [entered EXCEPT ![c] = s] /\ excused' \subseteq excused \cup {c}
        \/ UNCHANGED histVars
    BY <1>2 DEF OpenValue, Enters
  <2> HIDE DEF s
  <2> QED  BY <1>1, <2>1, <2>2, Entered
<1>3. ASSUME NEW c \in Columns, NEW w \in Texts, TypeText(c, w) PROVE EntriesFit'
  <2>1. <<w>> \in EntriesOf(TypeOf[c])
    BY <1>3, TextSet DEF TypeText, EntriesOf
  <2>2. \E e \in {<<w>>, <<>>} : entered' = [entered EXCEPT ![c] = e] /\ excused' \subseteq excused \cup {c}
    BY <1>3 DEF TypeText, Enters
  <2> QED  BY <2>1, <2>2, Entered
<1>4. ASSUME NEW c \in Columns, NEW v \in Numbers, TypeNumber(c, v) PROVE EntriesFit'
  <2>1. <<v>> \in EntriesOf(TypeOf[c])
    BY <1>4, SlideTyped, NumberSet DEF TypeNumber, EntriesOf
  <2>2. \E e \in {<<v>>, <<>>} : entered' = [entered EXCEPT ![c] = e] /\ excused' \subseteq excused \cup {c}
    BY <1>4 DEF TypeNumber, Enters
  <2> QED  BY <2>1, <2>2, Entered
<1>5. ASSUME NEW c \in Columns, NEW v \in Numbers, NEW name \in {"min", "max"}, TypeBound(c, name, v)
      PROVE  EntriesFit'
  <2>1. TypeOf[c] = "number" /\ entered[c] \in NumberValues \cup {<<>>}
    BY <1>5, NumberSet DEF TypeBound, EntriesFit, EntriesOf
  <2>2. Bounds(name, v, entered[c]) \in ValuesOf("number")
    BY <2>1, BoundsTyped, NumberSet
  <2> DEFINE s == NewValues("number", Bounds(name, v, entered[c]))
  <2>3. s \in EntriesOf(TypeOf[c])
    BY <2>1, <2>2, InOrder DEF EntriesOf, Types
  <2>4. \E e \in {s, <<>>} : entered' = [entered EXCEPT ![c] = e] /\ excused' \subseteq excused \cup {c}
    BY <1>5 DEF TypeBound, Enters
  <2> HIDE DEF s
  <2> QED  BY <2>3, <2>4, Entered
<1>6. ASSUME NEW c \in Columns, NEW s \in NumberValues, Slide(c, s) PROVE EntriesFit'
  <2>1. s \in EntriesOf(TypeOf[c])
    BY <1>6, NumberSet DEF Slide, EntriesOf
  <2>2. \E e \in {s, <<>>} : entered' = [entered EXCEPT ![c] = e] /\ excused' \subseteq excused \cup {c}
    BY <1>6 DEF Slide, Enters
  <2> QED  BY <2>1, <2>2, Entered
<1>7. ASSUME NEW c \in Columns, ChangeType(c) PROVE EntriesFit'
  <2> DEFINE s == NewValues("number", TabValues(c))
  <2>1. s \in EntriesOf(TypeOf[c])
    BY <1>7, TabGiven DEF EntriesOf
  <2>2. \E e \in {s, <<>>} : entered' = [entered EXCEPT ![c] = e] /\ excused' \subseteq excused \cup {c}
    BY <1>7 DEF ChangeType, TabValues, Enters
  <2> HIDE DEF s
  <2> QED  BY <2>1, <2>2, Entered
<1>8. ASSUME NEW S \in SUBSET Columns, Removed(S) PROVE EntriesFit'
  BY <1>8 DEF Removed, EntriesFit, EntriesOf
<1>9. ASSUME NEW c \in Columns, RemoveFilter(c) PROVE EntriesFit'
  BY <1>8, <1>9 DEF RemoveFilter
<1>10. CASE RemoveAllFilters
  BY <1>8, <1>10 DEF RemoveAllFilters
<1>11. ASSUME NEW c \in Columns, Edits(c) PROVE EntriesFit'
  <2>1. ASSUME NEW a \in Numbers, NEW b \in Numbers,
               Slide(c, <<a>>) \/ (a <= b /\ Slide(c, <<a, b>>))
        PROVE  EntriesFit'
    BY <1>6, <2>1, SlideTyped
  <2>2. ASSUME \/ \E v : ToggleOption(c, v)
               \/ \E from, to : ChangeDateRange(c, from, to)
        PROVE  EntriesFit'
    BY <1>1, <2>2 DEF ToggleOption, ChangeDateRange
  <2> QED  BY <1>3, <1>4, <1>5, <1>11, <2>1, <2>2 DEF Edits
<1>12. ASSUME \/ CloseValue \/ InputFires \/ CallFires \/ UNCHANGED vars
              \/ \E c, op : ChangeOperator(c, op)
       PROVE  EntriesFit'
  BY <1>1, <1>12 DEF CloseValue, InputFires, CallFires, ChangeOperator, vars
<1> QED  BY <1>2, <1>7, <1>9, <1>10, <1>11, <1>12 DEF Next, Timers

(* An input's new timer replaces the one of the same name. *)
LEMMA TypedFits ==
  ASSUME TInv, NEW c \in Columns, open = c, NEW name \in InputNames, NEW v \in Numbers \cup Texts,
         Typed(c, name, v), UNCHANGED open,
         IF name = "text" THEN TypeOf[c] = "text" /\ v \in Texts
         ELSE TypeOf[c] = "number" /\ v \in Numbers
  PROVE  InputsFit'
<1> DEFINE t == [column |-> c, name |-> name, value |-> v, base |-> base, of |-> "input"]
           P == TimerOf(c, name)
           r == Dropped(inputs, P)
<1>1. inputs \in Seq(InputsOf(open)) /\ \A n \in InputNames : OneOf(inputs, Live(n))
  BY DEF TInv, InputsFit
<1>2. t \in InputsOf(open) /\ t \in Live(name) /\ \A n \in InputNames : n # name => t \notin Live(n)
  <2>1. t \in InputTimers /\ t.of = "input" /\ t.name = name /\ t.column = c /\ t.value = v
    BY DEF TInv, ControlsFit, InputTimers, Origins
  <2> HIDE DEF t
  <2> QED  BY <2>1 DEF InputsOf, InputFits, Live
<1>3. P \in SUBSET DOMAIN inputs /\ P = {i \in DOMAIN inputs : inputs[i] \in Live(name)}
  <2>1. \A i \in DOMAIN inputs : inputs[i] \in InputsOf(open)
    BY <1>1
  <2>2. \A i \in DOMAIN inputs : inputs[i] \in Live(name) <=> i \in P
    BY <2>1 DEF TimerOf, Live, InputsOf, InputFits
  <2> QED  BY <2>2 DEF TimerOf
<1>4. inputs' = Append(r, t)
  BY DEF Typed
<1> HIDE DEF t, P
<1>5. r \in Seq(InputsOf(open))
  BY <1>1, <1>3, DroppedTyped
<1>6. \A n \in InputNames : OneOf(r, Live(n))
  BY <1>1, <1>3, DroppedOne
<1>7. NoneOf(r, Live(name))
  BY <1>1, <1>3, DroppedOne
<1> HIDE DEF r
<1>8. Append(r, t) \in Seq(InputsOf(open))
  BY <1>2, <1>5
<1>9. ASSUME NEW n \in InputNames PROVE OneOf(Append(r, t), Live(n))
  <2>1. t \notin Live(n) \/ NoneOf(r, Live(n))
    BY <1>2, <1>7
  <2> QED  BY <1>2, <1>5, <1>6, <2>1, AppendOne
<1> QED  BY <1>4, <1>8, <1>9 DEF InputsFit

(* A call replaces the control's own one. *)
LEMMA OwnCallIs ==
  ASSUME CallsFit
  PROVE  /\ OwnCall \in SUBSET DOMAIN calls
         /\ OwnCall = {i \in DOMAIN calls : calls[i] \in Own}
         /\ \A i \in OwnCall : calls[i].column = open
<1>1. \A i \in DOMAIN calls : calls[i] \in CallsOf(open)
  BY DEF CallsFit
<1>2. \A i \in DOMAIN calls : calls[i] \in Own <=> i \in OwnCall
  BY <1>1 DEF OwnCall, Own, CallsOf
<1>3. OwnCall \in SUBSET DOMAIN calls
  BY DEF OwnCall
<1>4. \A i \in OwnCall : calls[i].column = open
  BY <1>1 DEF OwnCall, CallsOf
<1> QED  BY <1>2, <1>3, <1>4

LEMMA CalledFits ==
  ASSUME TInv, NEW c \in Columns, TypeOf[c] = "number", NEW s \in NumberValues,
         NEW of \in {"control", "gone"}, of # "gone" => c = open,
         Calls(c, s, of), UNCHANGED open
  PROVE  CallsFit'
<1> DEFINE t == [column |-> c, values |-> s, of |-> of]
           P == IF of = "gone" THEN {} ELSE OwnCall
           r == Dropped(calls, P)
<1>1. calls \in Seq(CallsOf(open)) /\ OneOf(calls, Own)
  BY DEF TInv, CallsFit
<1>2. t \in CallsOf(open) /\ (of = "gone" => t \notin Own)
  <2>1. t \in CallTimers /\ t.of = of /\ t.column = c
    BY DEF CallTimers
  <2> HIDE DEF t
  <2> QED  BY <2>1 DEF CallsOf, Own
<1>3. P \in SUBSET DOMAIN calls /\ (of # "gone" => P = {i \in DOMAIN calls : calls[i] \in Own})
  BY OwnCallIs DEF TInv
<1>4. calls' = Append(r, t)
  BY DEF Calls
<1> HIDE DEF t, P
<1>5. r \in Seq(CallsOf(open))
  BY <1>1, <1>3, DroppedTyped
<1>6. OneOf(r, Own) /\ (of # "gone" => NoneOf(r, Own))
  BY <1>1, <1>3, DroppedOne
<1> HIDE DEF r
<1>7. Append(r, t) \in Seq(CallsOf(open))
  BY <1>2, <1>5
<1>8. OneOf(Append(r, t), Own)
  BY <1>2, <1>5, <1>6, AppendOne
<1> QED  BY <1>4, <1>7, <1>8 DEF CallsFit

(* With no control open, every timer was left behind. *)
LEMMA LeftBehind ==
  ASSUME NEW c
  PROVE  Seq(InputsOf(None)) \subseteq Seq(InputsOf(c)) /\ Seq(CallsOf(None)) \subseteq Seq(CallsOf(c))
<1>1. InputsOf(None) \subseteq InputsOf(c)
  BY FilterAssumption DEF InputsOf, InputFits, InputTimers
<1>2. CallsOf(None) \subseteq CallsOf(c)
  BY FilterAssumption DEF CallsOf, CallTimers
<1> QED  BY <1>1, <1>2

LEMMA InputsKept ==
  ASSUME TInv, [Next]_vars
  PROVE  InputsFit'
<1>0. inputs \in Seq(InputsOf(open)) /\ \A n \in InputNames : OneOf(inputs, Live(n))
  BY DEF TInv, InputsFit
<1>1. ASSUME UNCHANGED <<open, inputs>> PROVE InputsFit'
  BY <1>0, <1>1 DEF InputsFit
<1>2. ASSUME NEW c \in Columns, OpenValue(c) PROVE InputsFit'
  <2>1. open = None /\ inputs' = inputs
    BY <1>2 DEF OpenValue, timerVars
  <2> QED  BY <1>0, <2>1, LeftBehind DEF InputsFit
<1>3. CASE CloseValue
  <2>1. open' = None /\ inputs' = Left(inputs, Origins, "gone")
    BY <1>3 DEF CloseValue
  <2>2. inputs' \in Seq(InputsOf(None))
    BY <1>0, <2>1, InputsClosed
  <2>3. \A n \in InputNames : OneOf(inputs', Live(n))
    BY <1>0, <2>1, LeftNotLive
  <2> QED  BY <2>1, <2>2, <2>3 DEF InputsFit
<1>4. ASSUME UNCHANGED open, inputs' = Left(inputs, {"input"}, "control") PROVE InputsFit'
  <2>1. inputs' \in Seq(InputsOf(open))
    BY <1>0, <1>4, InputsLeft
  <2>2. \A n \in InputNames : OneOf(inputs', Live(n))
    BY <1>0, <1>4, LeftNotLive
  <2> QED  BY <1>4, <2>1, <2>2 DEF InputsFit
<1>5. CASE InputFires
  <2>1. UNCHANGED open /\ inputs # <<>> /\ inputs' = Tail(inputs)
    BY <1>5 DEF InputFires
  <2>2. \A n \in InputNames : OneOf(inputs', Live(n))
    BY <1>0, <2>1, TailOne
  <2>3. inputs' \in Seq(InputsOf(open))
    BY <1>0, <2>1
  <2> QED  BY <2>1, <2>2, <2>3 DEF InputsFit
<1>6. CASE CallFires
  <2>1. UNCHANGED open /\ (inputs' = inputs \/ inputs' = Left(inputs, {"input"}, "control"))
    BY <1>6 DEF CallFires
  <2> QED  BY <1>1, <1>4, <2>1
<1>7. ASSUME NEW c \in Columns, ChangeType(c) PROVE InputsFit'
  BY <1>4, <1>7 DEF ChangeType
<1>8. ASSUME NEW c \in Columns, NEW w \in Texts, TypeText(c, w) PROVE InputsFit'
  BY <1>8, TypedFits DEF TypeText, controlVars, InputNames
<1>9. ASSUME NEW c \in Columns, NEW v \in Numbers, TypeNumber(c, v) PROVE InputsFit'
  BY <1>9, TypedFits DEF TypeNumber, controlVars, InputNames
<1>10. ASSUME NEW c \in Columns, NEW name \in {"min", "max"}, NEW v \in Numbers, TypeBound(c, name, v)
       PROVE  InputsFit'
  BY <1>10, TypedFits DEF TypeBound, controlVars, InputNames
<1>11. ASSUME NEW c \in Columns, Edits(c) PROVE InputsFit'
  <2>1. ASSUME \/ \E v : ToggleOption(c, v) \/ Slide(c, v)
               \/ \E from, to : ChangeDateRange(c, from, to)
        PROVE  UNCHANGED <<open, inputs>>
    BY <2>1 DEF ToggleOption, ChangeDateRange, Slide, controlVars, timerVars
  <2> QED  BY <1>1, <1>8, <1>9, <1>10, <1>11, <2>1 DEF Edits
<1>12. ASSUME \/ RemoveAllFilters \/ UNCHANGED vars
              \/ \E c : RemoveFilter(c) \/ \E op : ChangeOperator(c, op)
       PROVE  UNCHANGED <<open, inputs>>
  BY <1>12 DEF RemoveAllFilters, RemoveFilter, ChangeOperator, vars, controlVars, timerVars
<1> QED  BY <1>1, <1>2, <1>3, <1>5, <1>6, <1>7, <1>11, <1>12 DEF Next, Timers

LEMMA CallsKept ==
  ASSUME TInv, [Next]_vars
  PROVE  CallsFit'
<1>0. calls \in Seq(CallsOf(open)) /\ OneOf(calls, Own)
  BY DEF TInv, CallsFit
<1>1. ASSUME UNCHANGED <<open, calls>> PROVE CallsFit'
  BY <1>0, <1>1 DEF CallsFit
<1>2. ASSUME NEW c \in Columns, OpenValue(c) PROVE CallsFit'
  <2>1. open = None /\ calls' = calls
    BY <1>2 DEF OpenValue, timerVars
  <2> QED  BY <1>0, <2>1, LeftBehind DEF CallsFit
<1>3. CASE CloseValue
  <2>1. open' = None /\ calls' = Left(calls, Origins, "gone")
    BY <1>3 DEF CloseValue
  <2> QED  BY <1>0, <2>1, CallsClosed, LeftNotOwn DEF CallsFit
<1>4. CASE InputFires
  <2>1. CASE inputs[1].name = "text"
    BY <1>1, <1>4, <2>1, TextGiven DEF TInv, InputFires
  <2>2. CASE inputs[1].name # "text"
    <3> DEFINE c == inputs[1].column
               of == IF inputs[1].of = "gone" THEN "gone" ELSE "control"
    <3>1. /\ c \in Columns /\ TypeOf[c] = "number" /\ CallOf(inputs[1]) \in NumberValues
          /\ inputs[1].of # "gone" => c = open
          /\ Calls(c, CallOf(inputs[1]), of)
      BY <1>4, <2>2, InputCalls DEF TInv
    <3>2. UNCHANGED open
      BY <1>4 DEF InputFires
    <3>3. of \in {"control", "gone"} /\ (of # "gone" => c = open)
      BY <3>1
    <3> HIDE DEF c, of
    <3> QED  BY <3>1, <3>2, <3>3, CalledFits
  <2> QED  BY <2>1, <2>2
<1>5. CASE CallFires
  <2>1. UNCHANGED open /\ calls # <<>> /\ calls' = Tail(calls)
    BY <1>5 DEF CallFires
  <2>2. OneOf(calls', Own)
    BY <1>0, <2>1, TailOne
  <2>3. calls' \in Seq(CallsOf(open))
    BY <1>0, <2>1
  <2> QED  BY <2>1, <2>2, <2>3 DEF CallsFit
<1>6. ASSUME NEW c \in Columns, ChangeType(c) PROVE CallsFit'
  <2>1. UNCHANGED open /\ calls' = Dropped(calls, OwnCall) /\ OwnCall \in SUBSET DOMAIN calls
    BY <1>6, OwnCallIs DEF ChangeType, TInv
  <2>2. OneOf(calls', Own)
    BY <1>0, <2>1, DroppedOne
  <2>3. calls' \in Seq(CallsOf(open))
    BY <1>0, <2>1, DroppedTyped
  <2> QED  BY <2>1, <2>2, <2>3 DEF CallsFit
<1>7. ASSUME NEW c \in Columns, NEW s \in NumberValues, Slide(c, s) PROVE CallsFit'
  BY <1>7, CalledFits DEF Slide
<1>8. ASSUME NEW c \in Columns, Edits(c) PROVE CallsFit'
  <2>1. ASSUME NEW a \in Numbers, NEW b \in Numbers,
               Slide(c, <<a>>) \/ (a <= b /\ Slide(c, <<a, b>>))
        PROVE  CallsFit'
    BY <1>7, <2>1, SlideTyped
  <2>2. ASSUME \/ \E v : ToggleOption(c, v) \/ TypeText(c, v) \/ TypeNumber(c, v)
               \/ \E from, to : ChangeDateRange(c, from, to) \/ TypeBound(c, from, to)
        PROVE  UNCHANGED <<open, calls>>
    BY <2>2 DEF ToggleOption, TypeText, TypeNumber, ChangeDateRange, TypeBound, controlVars, timerVars
  <2> QED  BY <1>1, <1>8, <2>1, <2>2 DEF Edits
<1>9. ASSUME \/ RemoveAllFilters \/ UNCHANGED vars
             \/ \E c : RemoveFilter(c) \/ \E op : ChangeOperator(c, op)
      PROVE  UNCHANGED <<open, calls>>
  BY <1>9 DEF RemoveAllFilters, RemoveFilter, ChangeOperator, vars, controlVars, timerVars
<1> QED  BY <1>1, <1>2, <1>3, <1>4, <1>5, <1>6, <1>8, <1>9 DEF Next, Timers

-----------------------------------------------------------------------------
(* The entries arrive *)

FollowedNext(d) == TypeOf[d] \in {"number", "text"} /\ d \notin excused'
ArrivesNext(d) == FollowedNext(d) => Arrives(d, filters', inputs', calls', entered'[d])

LEMMA StillArrives ==
  ASSUME TInv, NEW d \in Columns, FollowedNext(d) => Followed(d), entered'[d] = entered[d],
         SameFor(d, inputs, inputs'), SameFor(d, calls, calls'),
         Shows(d, filters, entered[d]) => Shows(d, filters', entered[d])
  PROVE  ArrivesNext(d)
<1>1. inputs \in Seq(InputsOf(open)) /\ calls \in Seq(CallsOf(open))
  BY DEF TInv, InputsFit, CallsFit
<1>2. ASSUME FollowedNext(d) PROVE Arrives(d, filters', inputs', calls', entered[d])
  <2>1. Arrives(d, filters, inputs, calls, entered[d])
    BY <1>2 DEF TInv, EntriesArrive
  <2> QED  BY <1>1, <2>1, Untouched
<1> QED  BY <1>2 DEF ArrivesNext

LEMMA AllArrive ==
  ASSUME \A d \in Columns : ArrivesNext(d)
  PROVE  EntriesArrive'
BY DEF ArrivesNext, EntriesArrive, Followed, FollowedNext

(* Nothing of the history changes but for one column. *)
HistOnly(c) ==
  \A d \in Columns : d # c => entered'[d] = entered[d] /\ (d \in excused' <=> d \in excused)

LEMMA EntersOnly ==
  ASSUME EntriesFit, NEW c \in Columns, NEW s,
         \/ entered' = [entered EXCEPT ![c] = s]
         \/ entered' = [entered EXCEPT ![c] = <<>>],
         excused' \in {excused \cup {c}, excused \ {c}}
  PROVE  HistOnly(c)
BY DEF HistOnly, EntriesFit

LEMMA ElsewhereArrives ==
  ASSUME TInv, NEW c, HistOnly(c), OnlyOf(c, filters, filters'), NEW d \in Columns, d # c,
         SameFor(d, inputs, inputs'), SameFor(d, calls, calls')
  PROVE  ArrivesNext(d)
<1>1. entered'[d] = entered[d] /\ (d \in excused' <=> d \in excused)
  BY DEF HistOnly
<1>2. FollowedNext(d) => Followed(d)
  BY <1>1 DEF Followed, FollowedNext
<1>3. Shows(d, filters, entered[d]) => Shows(d, filters', entered[d])
  BY ShowsElsewhere
<1> QED  BY <1>1, <1>2, <1>3, StillArrives

LEMMA Unmoved ==
  ASSUME NEW c PROVE OnlyOf(c, filters, filters)
BY DEF OnlyOf

(* Steps that change no more than options and dates, or where timers are. *)
LEMMA QuietArrives ==
  ASSUME TInv, UNCHANGED histVars, NEW d \in Columns,
         SameFor(d, inputs, inputs'), SameFor(d, calls, calls'),
         Followed(d) => (Shows(d, filters, entered[d]) => Shows(d, filters', entered[d]))
  PROVE  ArrivesNext(d)
<1>1. entered' = entered /\ (FollowedNext(d) <=> Followed(d))
  BY DEF histVars, Followed, FollowedNext
<1>2. CASE Followed(d)
  BY <1>1, <1>2, StillArrives
<1>3. CASE ~ Followed(d)
  BY <1>1, <1>3 DEF ArrivesNext
<1> QED  BY <1>2, <1>3

LEMMA OpenArrives ==
  ASSUME TInv, NEW c \in Columns, OpenValue(c)
  PROVE  EntriesArrive'
<1> DEFINE s == IF c \in DOMAIN filters THEN filters[c].values ELSE <<>>
<1>1. /\ filters' = filters /\ inputs' = inputs /\ calls' = calls
      /\ Pending(c) => UNCHANGED histVars
      /\ ~ Pending(c) => entered' = [entered EXCEPT ![c] = s] /\ excused' = excused \ {c}
  BY DEF OpenValue, Filtered, timerVars, Enters
<1>2. ASSUME NEW d \in Columns PROVE SameFor(d, inputs, inputs') /\ SameFor(d, calls, calls')
  BY <1>1, SameAsItself
<1>3. CASE Pending(c)
  <2>1. \A d \in Columns : ArrivesNext(d)
    BY <1>1, <1>2, <1>3, QuietArrives
  <2> QED  BY <2>1, AllArrive
<1>4. CASE ~ Pending(c)
  <2>1. HistOnly(c)
    <3> HIDE DEF s
    <3> QED  BY <1>1, <1>4, EntersOnly DEF TInv
  <2>2. ASSUME NEW d \in Columns, d # c PROVE ArrivesNext(d)
    BY <1>1, <1>2, <2>1, <2>2, Unmoved, ElsewhereArrives
  <2>3. entered'[c] = s
    BY <1>1, <1>4 DEF TInv, EntriesFit
  <2>4. Shows(c, filters, s)
    BY FilterValues DEF Shows, TInv
  <2>5. ~ Waiting(inputs, c) /\ ~ Waiting(calls, c)
    BY <1>4, PendingIsWaiting
  <2>6. Arrives(c, filters, inputs, calls, s)
    BY <2>4, <2>5 DEF Arrives, Waiting, IsLast
  <2>7. ArrivesNext(c)
    BY <1>1, <2>3, <2>6 DEF ArrivesNext
  <2> QED  BY <2>2, <2>7, AllArrive
<1> QED  BY <1>3, <1>4

LEMMA CloseArrives ==
  ASSUME TInv, CloseValue
  PROVE  EntriesArrive'
<1>1. /\ filters' = filters /\ UNCHANGED histVars
      /\ inputs' = Left(inputs, Origins, "gone") /\ calls' = Left(calls, Origins, "gone")
  BY DEF CloseValue
<1>2. ASSUME NEW d \in Columns PROVE ArrivesNext(d)
  <2>1. SameFor(d, inputs, inputs')
    BY <1>1, InputsLeftSame DEF TInv, InputsFit
  <2>2. SameFor(d, calls, calls')
    BY <1>1, CallsLeftSame DEF TInv, CallsFit
  <2> QED  BY <1>1, <2>1, <2>2, QuietArrives
<1> QED  BY <1>2, AllArrive

(* Options, dates and the operator menu. *)
LEMMA AtOnceArrives ==
  ASSUME TInv, UNCHANGED <<timerVars, histVars>>, NEW c \in Columns, OnlyOf(c, filters, filters'),
         \/ TypeOf[c] \notin {"number", "text"}
         \/ c \in DOMAIN filters /\ c \in DOMAIN filters' /\ filters'[c].values = filters[c].values
  PROVE  EntriesArrive'
<1>1. inputs' = inputs /\ calls' = calls
  BY DEF timerVars
<1>2. ASSUME NEW d \in Columns PROVE ArrivesNext(d)
  <2>1. SameFor(d, inputs, inputs') /\ SameFor(d, calls, calls')
    BY <1>1, SameAsItself
  <2>2. Followed(d) => (Shows(d, filters, entered[d]) => Shows(d, filters', entered[d]))
    <3>1. CASE d # c
      BY <3>1, ShowsElsewhere
    <3>2. CASE d = c
      BY <3>2 DEF Followed, Shows
    <3> QED  BY <3>1, <3>2
  <2> QED  BY <2>1, <2>2, QuietArrives
<1> QED  BY <1>2, AllArrive

LEMMA TypedArrives ==
  ASSUME TInv, NEW c \in Columns, open = c, NEW name \in InputNames, NEW v \in Numbers \cup Texts,
         Typed(c, name, v), UNCHANGED <<filters, calls>>, HistOnly(c),
         c \notin excused' =>
           entered'[c] = Result([column |-> c, name |-> name, value |-> v,
                                 base |-> base, of |-> "input"])
  PROVE  EntriesArrive'
<1> DEFINE t == [column |-> c, name |-> name, value |-> v, base |-> base, of |-> "input"]
           P == TimerOf(c, name)
           r == Dropped(inputs, P)
<1>1. inputs \in Seq(InputTimers)
  <2>1. inputs \in Seq(InputsOf(open)) /\ InputsOf(open) \subseteq InputTimers
    BY DEF TInv, InputsFit, InputsOf
  <2> QED  BY <2>1
<1>2. t \in InputTimers /\ t.column = c
  BY DEF TInv, ControlsFit, InputTimers, Origins
<1>3. P \in SUBSET DOMAIN inputs /\ \A i \in P : inputs[i].column = c
  BY DEF TimerOf
<1>4. inputs' = Append(r, t)
  BY DEF Typed
<1>5. c \notin excused' => entered'[c] = Result(t)
  OBVIOUS
<1> HIDE DEF t, P
<1>6. r \in Seq(InputTimers)
  BY <1>1, <1>3, DroppedTyped
<1>7. ASSUME NEW d \in Columns, d # c PROVE ArrivesNext(d)
  <2>1. SameFor(d, inputs, Append(Dropped(inputs, P), t))
    BY <1>1, <1>2, <1>3, <1>7, ReplacedOther
  <2>2. SameFor(d, calls, calls') /\ OnlyOf(c, filters, filters')
    BY SameAsItself, Unmoved
  <2> QED  BY <1>4, <1>7, <2>1, <2>2, ElsewhereArrives
<1> HIDE DEF r
<1>8. /\ Waiting(inputs', c)
      /\ \A i \in DOMAIN inputs' : IsLast(inputs', c, i) => inputs'[i] = t
  BY <1>2, <1>4, <1>6, AppendOwn
<1>9. ArrivesNext(c)
  BY <1>5, <1>8 DEF ArrivesNext, Arrives, FollowedNext
<1> QED  BY <1>7, <1>9, AllArrive

LEMMA TextTypedArrives ==
  ASSUME TInv, NEW c \in Columns, NEW w \in Texts, TypeText(c, w)
  PROVE  EntriesArrive'
<1>1. /\ open = c /\ Typed(c, "text", w) /\ UNCHANGED <<filters, calls>>
      /\ entered' \in {[entered EXCEPT ![c] = <<w>>], [entered EXCEPT ![c] = <<>>]}
      /\ excused' \in {excused \cup {c}, excused \ {c}}
      /\ c \notin excused' => entered' = [entered EXCEPT ![c] = <<w>>]
  BY DEF TypeText, Enters
<1>2. HistOnly(c)
  BY <1>1, EntersOnly DEF TInv
<1>3. c \notin excused' => entered'[c] = <<w>>
  BY <1>1 DEF TInv, EntriesFit
<1>4. Result([column |-> c, name |-> "text", value |-> w, base |-> base, of |-> "input"]) = <<w>>
  BY DEF Result
<1> QED  BY <1>1, <1>2, <1>3, <1>4, TypedArrives DEF InputNames

LEMMA NumberTypedArrives ==
  ASSUME TInv, NEW c \in Columns, NEW v \in Numbers, TypeNumber(c, v)
  PROVE  EntriesArrive'
<1>1. /\ open = c /\ Typed(c, "single", v) /\ UNCHANGED <<filters, calls>>
      /\ entered' \in {[entered EXCEPT ![c] = <<v>>], [entered EXCEPT ![c] = <<>>]}
      /\ excused' \in {excused \cup {c}, excused \ {c}}
      /\ c \notin excused' => entered' = [entered EXCEPT ![c] = <<v>>]
  BY DEF TypeNumber, Enters
<1>2. HistOnly(c)
  BY <1>1, EntersOnly DEF TInv
<1>3. c \notin excused' => entered'[c] = <<v>>
  BY <1>1 DEF TInv, EntriesFit
<1>4. Result([column |-> c, name |-> "single", value |-> v, base |-> base, of |-> "input"]) = <<v>>
  BY DEF Result
<1> QED  BY <1>1, <1>2, <1>3, <1>4, TypedArrives DEF InputNames

LEMMA BoundTypedArrives ==
  ASSUME TInv, NEW c \in Columns, NEW v \in Numbers, NEW name \in {"min", "max"},
         TypeBound(c, name, v)
  PROVE  EntriesArrive'
<1> DEFINE s == NewValues("number", Bounds(name, v, entered[c]))
<1>1. /\ open = c /\ Typed(c, name, v) /\ UNCHANGED <<filters, calls>>
      /\ entered' \in {[entered EXCEPT ![c] = s], [entered EXCEPT ![c] = <<>>]}
      /\ excused' \in {excused \cup {c}, excused \ {c}}
      /\ c \notin excused' => /\ entered' = [entered EXCEPT ![c] = s]
                              /\ OtherBound(name, base) = OtherBound(name, entered[c])
  BY DEF TypeBound, Enters
<1>2. HistOnly(c)
  <2> HIDE DEF s
  <2> QED  BY <1>1, EntersOnly DEF TInv
<1>3. c \notin excused' => entered'[c] = s
  BY <1>1 DEF TInv, EntriesFit
<1>4. OtherBound(name, base) = OtherBound(name, entered[c])
        => Bounds(name, v, base) = Bounds(name, v, entered[c])
  BY DEF OtherBound, Bounds
<1>5. Result([column |-> c, name |-> name, value |-> v, base |-> base, of |-> "input"])
        = NewValues("number", Bounds(name, v, base))
  BY DEF Result
<1>6. c \notin excused' =>
        entered'[c] = Result([column |-> c, name |-> name, value |-> v,
                              base |-> base, of |-> "input"])
  BY <1>1, <1>3, <1>4, <1>5
<1> QED  BY <1>1, <1>2, <1>6, TypedArrives DEF InputNames

(* A new call of c, in place of the control's own one or beside it. *)
LEMMA CalledElsewhere ==
  ASSUME CallsFit, NEW c \in Columns, NEW s \in NumberValues, NEW of \in {"control", "gone"},
         of # "gone" => c = open, Calls(c, s, of)
  PROVE  /\ \A d \in Columns : d # c => SameFor(d, calls, calls')
         /\ Waiting(calls', c)
         /\ \A i \in DOMAIN calls' : IsLast(calls', c, i) => calls'[i].values = s
<1> DEFINE t == [column |-> c, values |-> s, of |-> of]
           P == IF of = "gone" THEN {} ELSE OwnCall
           r == Dropped(calls, P)
<1>1. calls \in Seq(CallTimers)
  <2>1. calls \in Seq(CallsOf(open)) /\ CallsOf(open) \subseteq CallTimers
    BY DEF CallsFit, CallsOf
  <2> QED  BY <2>1
<1>2. t \in CallTimers /\ t.column = c /\ t.values = s
  BY DEF CallTimers
<1>3. P \in SUBSET DOMAIN calls /\ \A i \in P : calls[i].column = c
  BY OwnCallIs
<1>4. calls' = Append(r, t)
  BY DEF Calls
<1> HIDE DEF t, P
<1>5. r \in Seq(CallTimers)
  BY <1>1, <1>3, DroppedTyped
<1>6. ASSUME NEW d \in Columns, d # c PROVE SameFor(d, calls, calls')
  <2>1. SameFor(d, calls, Append(Dropped(calls, P), t))
    BY <1>1, <1>2, <1>3, <1>6, ReplacedOther
  <2> QED  BY <1>4, <2>1
<1> HIDE DEF r
<1>7. /\ Waiting(calls', c)
      /\ \A i \in DOMAIN calls' : IsLast(calls', c, i) => calls'[i] = t
  BY <1>2, <1>4, <1>5, AppendOwn
<1> QED  BY <1>2, <1>6, <1>7

LEMMA SlideArrives ==
  ASSUME TInv, NEW c \in Columns, NEW s \in NumberValues, NewValues("number", s) = s, Slide(c, s)
  PROVE  EntriesArrive'
<1>1. /\ open = c /\ Calls(c, s, "control") /\ filters' = filters /\ inputs' = inputs
      /\ entered' \in {[entered EXCEPT ![c] = s], [entered EXCEPT ![c] = <<>>]}
      /\ excused' \in {excused \cup {c}, excused \ {c}}
      /\ c \notin excused' => entered' = [entered EXCEPT ![c] = s] /\ ~ Waiting(inputs, c)
  BY DEF Slide, Enters, Waiting
<1>2. HistOnly(c)
  BY <1>1, EntersOnly DEF TInv
<1>3. /\ \A d \in Columns : d # c => SameFor(d, calls, calls')
      /\ Waiting(calls', c)
      /\ \A i \in DOMAIN calls' : IsLast(calls', c, i) => calls'[i].values = s
  BY <1>1, CalledElsewhere DEF TInv
<1>4. ASSUME NEW d \in Columns, d # c PROVE ArrivesNext(d)
  <2>1. SameFor(d, inputs, inputs') /\ OnlyOf(c, filters, filters')
    BY <1>1, SameAsItself, Unmoved
  <2> QED  BY <1>2, <1>3, <1>4, <2>1, ElsewhereArrives
<1>5. c \notin excused' => entered'[c] = s
  BY <1>1 DEF TInv, EntriesFit
<1>6. ASSUME FollowedNext(c) PROVE Arrives(c, filters', inputs', calls', entered'[c])
  <2>1. c \notin excused' /\ ~ Waiting(inputs', c) /\ entered'[c] = s
    BY <1>1, <1>5, <1>6 DEF FollowedNext
  <2> QED  BY <1>3, <2>1 DEF Arrives, Waiting, IsLast
<1>7. ArrivesNext(c)
  BY <1>6 DEF ArrivesNext
<1> QED  BY <1>4, <1>7, AllArrive

LEMMA HistSame ==
  ASSUME NEW c, entered' = entered, excused' = excused
  PROVE  HistOnly(c) /\ (FollowedNext(c) <=> Followed(c))
<1>1. HistOnly(c)
  BY DEF HistOnly
<1>2. FollowedNext(c) <=> Followed(c)
  BY DEF Followed, FollowedNext
<1> QED  BY <1>1, <1>2

(* What the first input timer leaves behind. *)
LEMMA InputGone ==
  ASSUME TInv, InputFires, NEW d \in Columns
  PROVE  /\ d # inputs[1].column => SameFor(d, inputs, inputs')
         /\ \A e : (\A i \in DOMAIN inputs : IsLast(inputs, d, i) => Result(inputs[i]) = e)
              => /\ \A i \in DOMAIN inputs' : IsLast(inputs', d, i) => Result(inputs'[i]) = e
                 /\ ~ Waiting(inputs', d) /\ d = inputs[1].column => Result(inputs[1]) = e
<1>1. inputs \in Seq(InputTimers) /\ inputs # <<>> /\ inputs' = Tail(inputs)
  <2>1. inputs \in Seq(InputsOf(open)) /\ InputsOf(open) \subseteq InputTimers
    BY DEF TInv, InputsFit, InputsOf
  <2> QED  BY <2>1 DEF InputFires
<1>2. /\ LastsFrom(d, inputs, inputs')
      /\ inputs[1].column # d => (Waiting(inputs', d) <=> Waiting(inputs, d))
      /\ ~ Waiting(inputs', d) /\ inputs[1].column = d => IsLast(inputs, d, 1)
  BY <1>1, TailLasts
<1>3. ASSUME NEW e, \A i \in DOMAIN inputs : IsLast(inputs, d, i) => Result(inputs[i]) = e,
             NEW i \in DOMAIN inputs', IsLast(inputs', d, i)
      PROVE  Result(inputs'[i]) = e
  <2>1. PICK k \in DOMAIN inputs : IsLast(inputs, d, k) /\ Alike(inputs[k], inputs'[i])
    BY <1>2, <1>3 DEF LastsFrom
  <2>2. inputs[k] \in InputTimers
    BY <1>1
  <2> QED  BY <1>3, <2>1, <2>2, SameResult
<1>4. 1 \in DOMAIN inputs
  BY <1>1
<1> QED  BY <1>2, <1>3, <1>4 DEF SameFor

LEMMA InputArrives ==
  ASSUME TInv, InputFires
  PROVE  EntriesArrive'
<1> DEFINE c == inputs[1].column
<1>1. HistOnly(c) /\ entered' = entered /\ (FollowedNext(c) <=> Followed(c))
  <2>1. entered' = entered /\ excused' = excused
    BY DEF InputFires, histVars
  <2> QED  BY <2>1, HistSame
<1>2. CASE inputs[1].name = "text"
  <2> DEFINE s == <<inputs[1].value>>
  <2>1. /\ GivenTo(c, filters, filters', s) /\ s # <<>>
        /\ c \in Columns /\ TypeOf[c] = "text" /\ calls' = calls
    BY <1>2, TextGiven DEF TInv
  <2>2. ASSUME NEW d \in Columns, d # c PROVE ArrivesNext(d)
    <3>1. SameFor(d, inputs, inputs') /\ SameFor(d, calls, calls')
      BY <2>1, <2>2, InputGone, SameAsItself
    <3> HIDE DEF c
    <3> QED  BY <1>1, <2>1, <2>2, <3>1, ElsewhereArrives DEF GivenTo
  <2>3. ASSUME FollowedNext(c) PROVE Arrives(c, filters', inputs', calls', entered'[c])
    <3>1. Arrives(c, filters, inputs, calls, entered[c])
      BY <1>1, <2>1, <2>3 DEF TInv, EntriesArrive
    <3>2. \A i \in DOMAIN calls : calls[i].column # c
      <4>1. \A i \in DOMAIN calls : calls[i] \in CallsOf(open)
        BY DEF TInv, CallsFit
      <4> QED  BY <2>1, <4>1 DEF CallsOf
    <3>3. Result(inputs[1]) = s
      BY <1>2 DEF Result
    <3>4. /\ \A i \in DOMAIN inputs' : IsLast(inputs', c, i) => Result(inputs'[i]) = entered[c]
          /\ ~ Waiting(inputs', c) => s = entered[c]
      BY <2>1, <3>1, <3>3, InputGone DEF Arrives
    <3>5. ~ Waiting(inputs', c) => Shows(c, filters', entered[c])
      BY <2>1, <3>4 DEF GivenTo, Shows
    <3> HIDE DEF c, s
    <3> QED  BY <1>1, <2>1, <3>2, <3>4, <3>5 DEF Arrives, IsLast
  <2>4. ArrivesNext(c)
    BY <2>3 DEF ArrivesNext
  <2> QED  BY <2>2, <2>4, AllArrive
<1>3. CASE inputs[1].name # "text"
  <2> DEFINE t == inputs[1]
             of == IF t.of = "gone" THEN "gone" ELSE "control"
  <2>1. /\ c \in Columns /\ CallOf(t) \in NumberValues
        /\ NewValues("number", CallOf(t)) = Result(t)
        /\ t.of # "gone" => c = open
        /\ Calls(c, CallOf(t), of) /\ filters' = filters
    BY <1>3, InputCalls DEF TInv
  <2>2. of \in {"control", "gone"} /\ (of # "gone" => c = open)
    BY <2>1
  <2>3. /\ \A d \in Columns : d # c => SameFor(d, calls, calls')
        /\ Waiting(calls', c)
        /\ \A i \in DOMAIN calls' : IsLast(calls', c, i) => calls'[i].values = CallOf(t)
    <3> HIDE DEF c, of
    <3> QED  BY <2>1, <2>2, CalledElsewhere DEF TInv
  <2>4. ASSUME NEW d \in Columns, d # c PROVE ArrivesNext(d)
    <3>1. SameFor(d, inputs, inputs') /\ SameFor(d, calls, calls') /\ OnlyOf(c, filters, filters')
      BY <2>1, <2>3, <2>4, InputGone, Unmoved
    <3> HIDE DEF c
    <3> QED  BY <1>1, <2>1, <2>4, <3>1, ElsewhereArrives
  <2>5. ASSUME FollowedNext(c) PROVE Arrives(c, filters', inputs', calls', entered'[c])
    <3>1. Arrives(c, filters, inputs, calls, entered[c])
      BY <1>1, <2>1, <2>5 DEF TInv, EntriesArrive
    <3>2. /\ \A i \in DOMAIN inputs' : IsLast(inputs', c, i) => Result(inputs'[i]) = entered[c]
          /\ ~ Waiting(inputs', c) => Result(t) = entered[c]
      BY <2>1, <3>1, InputGone DEF Arrives
    <3> HIDE DEF c, t
    <3> QED  BY <1>1, <2>1, <2>3, <3>2 DEF Arrives
  <2>6. ArrivesNext(c)
    BY <2>5 DEF ArrivesNext
  <2> QED  BY <2>4, <2>6, AllArrive
<1> QED  BY <1>2, <1>3

(* What the first call leaves behind. *)
LEMMA CallGone ==
  ASSUME TInv, CallFires, NEW d \in Columns
  PROVE  /\ d # calls[1].column => SameFor(d, calls, calls')
         /\ \A e : (\A i \in DOMAIN calls : IsLast(calls, d, i) => NewValues("number", calls[i].values) = e)
              => /\ \A i \in DOMAIN calls' : IsLast(calls', d, i) => NewValues("number", calls'[i].values) = e
                 /\ ~ Waiting(calls', d) /\ d = calls[1].column
                      => NewValues("number", calls[1].values) = e
<1>1. calls \in Seq(CallTimers) /\ calls # <<>> /\ calls' = Tail(calls)
  <2>1. calls \in Seq(CallsOf(open)) /\ CallsOf(open) \subseteq CallTimers
    BY DEF TInv, CallsFit, CallsOf
  <2> QED  BY <2>1 DEF CallFires
<1>2. /\ LastsFrom(d, calls, calls')
      /\ calls[1].column # d => (Waiting(calls', d) <=> Waiting(calls, d))
      /\ ~ Waiting(calls', d) /\ calls[1].column = d => IsLast(calls, d, 1)
  BY <1>1, TailLasts
<1>3. ASSUME NEW e, \A i \in DOMAIN calls :
                      IsLast(calls, d, i) => NewValues("number", calls[i].values) = e,
             NEW i \in DOMAIN calls', IsLast(calls', d, i)
      PROVE  NewValues("number", calls'[i].values) = e
  <2>1. PICK k \in DOMAIN calls : IsLast(calls, d, k) /\ Alike(calls[k], calls'[i])
    BY <1>2, <1>3 DEF LastsFrom
  <2>2. calls[k] \in CallTimers
    BY <1>1
  <2>3. calls'[i].values = calls[k].values
    BY <2>1, <2>2, SameCall
  <2> QED  BY <1>3, <2>1, <2>3
<1>4. 1 \in DOMAIN calls
  BY <1>1
<1> QED  BY <1>2, <1>3, <1>4 DEF SameFor

(* The timers of inputs that are kept, or leave their input. *)
LEMMA ResultsKept ==
  ASSUME InputsFit, inputs' = inputs \/ inputs' = Left(inputs, {"input"}, "control"), NEW d
  PROVE  /\ SameFor(d, inputs, inputs')
         /\ \A e : (\A i \in DOMAIN inputs : IsLast(inputs, d, i) => Result(inputs[i]) = e)
              => \A i \in DOMAIN inputs' : IsLast(inputs', d, i) => Result(inputs'[i]) = e
<1>1. inputs \in Seq(InputsOf(open)) /\ \A i \in DOMAIN inputs : inputs[i] \in InputTimers
  <2>1. inputs \in Seq(InputsOf(open))
    BY DEF InputsFit
  <2>2. \A i \in DOMAIN inputs : inputs[i] \in InputsOf(open)
    BY <2>1
  <2> QED  BY <2>1, <2>2 DEF InputsOf
<1>2. SameFor(d, inputs, inputs')
  BY <1>1, SameAsItself, InputsLeftSame
<1>3. ASSUME NEW e, \A i \in DOMAIN inputs : IsLast(inputs, d, i) => Result(inputs[i]) = e,
             NEW i \in DOMAIN inputs', IsLast(inputs', d, i)
      PROVE  Result(inputs'[i]) = e
  <2>1. PICK k \in DOMAIN inputs : IsLast(inputs, d, k) /\ Alike(inputs[k], inputs'[i])
    BY <1>2, <1>3 DEF SameFor, LastsFrom
  <2> QED  BY <1>1, <1>3, <2>1, SameResult
<1> QED  BY <1>2, <1>3

LEMMA CallArrives ==
  ASSUME TInv, CallFires
  PROVE  EntriesArrive'
<1> DEFINE c == calls[1].column
           s == NewValues("number", calls[1].values)
<1>1. HistOnly(c) /\ entered' = entered /\ (FollowedNext(c) <=> Followed(c))
  <2>1. entered' = entered /\ excused' = excused
    BY DEF CallFires, histVars
  <2> QED  BY <2>1, HistSame
<1>2. /\ GivenTo(c, filters, filters', s) /\ s # <<>>
      /\ c \in Columns /\ TypeOf[c] = "number"
  BY CallGiven DEF TInv
<1>3. inputs' = inputs \/ inputs' = Left(inputs, {"input"}, "control")
  BY DEF CallFires
<1>4. ASSUME NEW d \in Columns, d # c PROVE ArrivesNext(d)
  <2>1. SameFor(d, inputs, inputs') /\ SameFor(d, calls, calls')
    BY <1>3, <1>4, ResultsKept, CallGone DEF TInv
  <2> HIDE DEF c
  <2> QED  BY <1>1, <1>2, <1>4, <2>1, ElsewhereArrives DEF GivenTo
<1>5. ASSUME FollowedNext(c) PROVE Arrives(c, filters', inputs', calls', entered'[c])
  <2>1. Arrives(c, filters, inputs, calls, entered[c])
    BY <1>1, <1>2, <1>5 DEF TInv, EntriesArrive
  <2>2. /\ SameFor(c, inputs, inputs')
        /\ \A i \in DOMAIN inputs' : IsLast(inputs', c, i) => Result(inputs'[i]) = entered[c]
    BY <1>3, <2>1, ResultsKept DEF Arrives, TInv
  <2>3. ASSUME ~ Waiting(inputs', c)
        PROVE  /\ \A i \in DOMAIN calls' :
                    IsLast(calls', c, i) => NewValues("number", calls'[i].values) = entered[c]
               /\ ~ Waiting(calls', c) => s = entered[c]
    <3>1. ~ Waiting(inputs, c)
      BY <2>2, <2>3 DEF SameFor
    <3>2. \A i \in DOMAIN calls :
            IsLast(calls, c, i) => NewValues("number", calls[i].values) = entered[c]
      BY <2>1, <3>1 DEF Arrives
    <3> QED  BY <1>2, <3>2, CallGone
  <2>4. ~ Waiting(inputs', c) /\ ~ Waiting(calls', c) => Shows(c, filters', entered[c])
    BY <1>2, <2>3 DEF GivenTo, Shows
  <2> HIDE DEF c, s
  <2> QED  BY <1>1, <2>2, <2>3, <2>4 DEF Arrives
<1>6. ArrivesNext(c)
  BY <1>5 DEF ArrivesNext
<1> QED  BY <1>4, <1>6, AllArrive

LEMMA TabArrives ==
  ASSUME TInv, NEW c \in Columns, ChangeType(c)
  PROVE  EntriesArrive'
<1> DEFINE s == NewValues("number", TabValues(c))
<1>1. GivenTo(c, filters, filters', s) /\ s # <<>> /\ open = c
  BY TabGiven DEF TInv
<1>2. /\ inputs' = Left(inputs, {"input"}, "control") /\ calls' = Dropped(calls, OwnCall)
      /\ entered' \in {[entered EXCEPT ![c] = s], [entered EXCEPT ![c] = <<>>]}
      /\ excused' \in {excused \cup {c}, excused \ {c}}
      /\ c \notin excused' => /\ entered' = [entered EXCEPT ![c] = s]
                              /\ inputs = <<>> /\ Dropped(calls, OwnCall) = <<>>
  BY DEF ChangeType, Enters, TabValues
<1> HIDE DEF s
<1>3. HistOnly(c)
  BY <1>2, EntersOnly DEF TInv
<1>4. ASSUME NEW d \in Columns, d # c PROVE ArrivesNext(d)
  <2>1. SameFor(d, inputs, inputs')
    BY <1>2, ResultsKept DEF TInv
  <2>2. SameFor(d, calls, calls')
    <3>1. calls \in Seq(CallsOf(open)) /\ OwnCall \in SUBSET DOMAIN calls
      BY OwnCallIs DEF TInv, CallsFit
    <3>2. \A i \in OwnCall : calls[i].column # d
      BY <1>1, <1>4, OwnCallIs DEF TInv
    <3> QED  BY <1>2, <3>1, <3>2, DroppedOther
  <2> QED  BY <1>1, <1>3, <1>4, <2>1, <2>2, ElsewhereArrives DEF GivenTo
<1>5. ASSUME FollowedNext(c) PROVE Arrives(c, filters', inputs', calls', entered'[c])
  <2>1. c \notin excused'
    BY <1>5 DEF FollowedNext
  <2>2. entered'[c] = s
    BY <1>2, <2>1 DEF TInv, EntriesFit
  <2>3. DOMAIN inputs' = {} /\ DOMAIN calls' = {}
    BY <1>2, <2>1, LeftIs
  <2>4. Shows(c, filters', s)
    BY <1>1 DEF GivenTo, Shows
  <2> QED  BY <2>2, <2>3, <2>4 DEF Arrives
<1>6. ArrivesNext(c)
  BY <1>5 DEF ArrivesNext
<1> QED  BY <1>4, <1>6, AllArrive

LEMMA RemovedArrives ==
  ASSUME TInv, NEW S \in SUBSET Columns, Removed(S), UNCHANGED timerVars,
         NEW c \in S, c \notin DOMAIN filters'
  PROVE  ArrivesNext(c)
<1>1. entered'[c] = <<>> /\ (Pending(c) => c \in excused') /\ inputs' = inputs /\ calls' = calls
  BY DEF Removed, timerVars
<1>2. ASSUME FollowedNext(c) PROVE Arrives(c, filters', inputs', calls', entered'[c])
  <2>1. ~ Waiting(inputs, c) /\ ~ Waiting(calls, c)
    BY <1>1, <1>2, PendingIsWaiting DEF FollowedNext
  <2> QED  BY <1>1, <2>1 DEF Arrives, Waiting, IsLast, Shows
<1> QED  BY <1>2 DEF ArrivesNext

LEMMA RemoveArrives ==
  ASSUME TInv, NEW c \in Columns, RemoveFilter(c)
  PROVE  EntriesArrive'
<1>1. Removed({c}) /\ UNCHANGED timerVars
  BY DEF RemoveFilter
<1>2. OnlyOf(c, filters, filters') /\ c \notin DOMAIN filters'
  BY FilterGone DEF TInv
<1>3. HistOnly(c)
  BY <1>1 DEF Removed, HistOnly
<1>4. ASSUME NEW d \in Columns, d # c PROVE ArrivesNext(d)
  <2>1. SameFor(d, inputs, inputs') /\ SameFor(d, calls, calls')
    BY <1>1, SameAsItself DEF timerVars
  <2> QED  BY <1>2, <1>3, <1>4, <2>1, ElsewhereArrives
<1>5. ArrivesNext(c)
  BY <1>1, <1>2, RemovedArrives
<1> QED  BY <1>4, <1>5, AllArrive

LEMMA ArrivalKept ==
  ASSUME TInv, [Next]_vars
  PROVE  EntriesArrive'
<1>1. ASSUME NEW c \in Columns, NEW v \in Options, ToggleOption(c, v) PROVE EntriesArrive'
  <2>1. OnlyOf(c, filters, filters')
    BY <1>1, OptionGiven DEF TInv
  <2>2. TypeOf[c] \notin {"number", "text"} /\ UNCHANGED <<timerVars, histVars>>
    BY <1>1 DEF ToggleOption
  <2> QED  BY <2>1, <2>2, AtOnceArrives
<1>2. ASSUME NEW c \in Columns, NEW from \in Days, NEW to \in Days, ChangeDateRange(c, from, to)
      PROVE  EntriesArrive'
  <2>1. OnlyOf(c, filters, filters')
    BY <1>2, DatesGiven DEF TInv
  <2>2. TypeOf[c] \notin {"number", "text"} /\ UNCHANGED <<timerVars, histVars>>
    BY <1>2 DEF ChangeDateRange
  <2> QED  BY <2>1, <2>2, AtOnceArrives
<1>3. ASSUME NEW c \in Columns, NEW a \in Numbers, NEW b \in Numbers,
             Slide(c, <<a>>) \/ (a <= b /\ Slide(c, <<a, b>>))
      PROVE  EntriesArrive'
  BY <1>3, SlideTyped, SlideArrives
<1>4. ASSUME NEW c \in Columns, Edits(c) PROVE EntriesArrive'
  BY <1>1, <1>2, <1>3, <1>4, TextTypedArrives, NumberTypedArrives, BoundTypedArrives DEF Edits
<1>5. ASSUME NEW c \in Columns, NEW op, ChangeOperator(c, op) PROVE EntriesArrive'
  <2>1. GivenTo(c, filters, filters', filters[c].values) /\ c \in DOMAIN filters
    BY <1>5, OperatorGiven DEF TInv
  <2>2. UNCHANGED <<timerVars, histVars>>
    BY <1>5 DEF ChangeOperator
  <2> QED  BY <2>1, <2>2, AtOnceArrives DEF GivenTo
<1>6. CASE RemoveAllFilters
  <2>1. Removed(Columns) /\ UNCHANGED timerVars /\ DOMAIN filters' = {}
    BY <1>6, FiltersGone DEF RemoveAllFilters
  <2>2. \A c \in Columns : ArrivesNext(c)
    BY <2>1, RemovedArrives
  <2> QED  BY <2>2, AllArrive
<1>7. CASE UNCHANGED vars
  <2>1. UNCHANGED <<filters, inputs, calls, histVars>>
    BY <1>7 DEF vars, timerVars
  <2>2. \A d \in Columns : ArrivesNext(d)
    BY <2>1, SameAsItself, QuietArrives
  <2> QED  BY <2>2, AllArrive
<1> QED  BY <1>4, <1>5, <1>6, <1>7, OpenArrives, CloseArrives, InputArrives, CallArrives,
            TabArrives, RemoveArrives DEF Next, Timers

-----------------------------------------------------------------------------
(* What holds of the specification *)

LEMMA Steps ==
  ASSUME TInv, [Next]_vars
  PROVE  TInv'
BY FiltersKept, ControlsKept, EntriesKept, InputsKept, CallsKept, ArrivalKept DEF TInv

LEMMA AlwaysTInv == Spec => []TInv
<1>1. TInv /\ [Next]_vars => TInv'
  BY Steps
<1> QED  BY Starts, <1>1, PTL DEF Spec

LEMMA InvariantTypes ==
  ASSUME TInv PROVE TypeOK
<1>1. /\ DOMAIN filters \subseteq Columns
      /\ \A c \in DOMAIN filters :
           filters[c] \in [operator : OperatorsOf(TypeOf[c]), values : ValuesOf(TypeOf[c])]
  BY DEF TInv, FiltersFit, FilterFits
<1>2. /\ open \in Columns \cup {None}
      /\ shown \in NumberValues \cup {<<>>} /\ base \in NumberValues \cup {<<>>}
  BY DEF TInv, ControlsFit
<1>3. inputs \in Seq(InputTimers)
  <2>1. inputs \in Seq(InputsOf(open)) /\ InputsOf(open) \subseteq InputTimers
    BY DEF TInv, InputsFit, InputsOf
  <2> QED  BY <2>1
<1>4. calls \in Seq(CallTimers)
  <2>1. calls \in Seq(CallsOf(open)) /\ CallsOf(open) \subseteq CallTimers
    BY DEF TInv, CallsFit, CallsOf
  <2> QED  BY <2>1
<1>5. ASSUME NEW i \in DOMAIN inputs, NEW j \in DOMAIN inputs,
             inputs[i].of = "input", inputs[j].of = "input", inputs[i].name = inputs[j].name
      PROVE  i = j
  <2>1. inputs[i] \in InputTimers /\ inputs[j] \in InputTimers
    BY <1>3
  <2>2. inputs[i].name \in InputNames
    BY <2>1 DEF InputTimers
  <2>3. inputs[i] \in Live(inputs[i].name) /\ inputs[j] \in Live(inputs[i].name)
    BY <1>5, <2>1 DEF Live
  <2> QED  BY <2>2, <2>3 DEF TInv, InputsFit, OneOf
<1>6. ASSUME NEW i \in DOMAIN calls, NEW j \in DOMAIN calls,
             calls[i].of = "control", calls[j].of = "control"
      PROVE  i = j
  <2>1. calls[i] \in CallTimers /\ calls[j] \in CallTimers
    BY <1>4
  <2>2. calls[i] \in Own /\ calls[j] \in Own
    BY <1>6, <2>1 DEF Own
  <2> QED  BY <2>2 DEF TInv, CallsFit, OneOf
<1>7. /\ entered \in [Columns -> {<<>>} \cup NumberValues \cup {<<w>> : w \in Texts}]
      /\ excused \subseteq Columns
  BY DEF TInv, EntriesFit
<1> QED  BY <1>1, <1>2, <1>3, <1>4, <1>5, <1>6, <1>7 DEF TypeOK, InputTimers, InputNames, CallTimers

(* The types: the values and the operators of a filter are of its column's *)
(* type, an input has one timer that runs, and the control of a number one *)
(* call (operators.ts, debounced-input.tsx, debounce.ts).                  *)
THEOREM TypeCorrect == Spec => []TypeOK
<1>1. TInv => TypeOK
  BY InvariantTypes
<1> QED  BY AlwaysTInv, <1>1, PTL

(* However options, dates, inputs, tabs and late timers follow each other, *)
(* a filter has an operator for as many values as it has (filter-fns.ts    *)
(* throws on another).                                                     *)
THEOREM FiltersCanBeEvaluated == Spec => []OperatorFitsValues
<1>1. TInv => OperatorFitsValues
  BY DEF TInv, FiltersFit, FilterFits, Fits, OperatorFitsValues
<1> QED  BY AlwaysTInv, <1>1, PTL

(* When no timer runs, a number or text column is filtered by what the user *)
(* gave it last (debounced-input.tsx, filter-value.tsx), but for the columns *)
(* that are excused.                                                       *)
THEOREM LastEntriesArrive == Spec => []LastEntryShown
<1>1. ASSUME TInv PROVE LastEntryShown
  <2>1. ASSUME Settled, NEW c \in Columns, Followed(c) PROVE Shows(c, filters, entered[c])
    <3>1. Arrives(c, filters, inputs, calls, entered[c])
      BY <1>1, <2>1 DEF TInv, EntriesArrive
    <3>2. ~ Waiting(inputs, c) /\ ~ Waiting(calls, c)
      BY <2>1 DEF Settled, Waiting
    <3> QED  BY <3>1, <3>2 DEF Arrives
  <2> QED  BY <2>1 DEF LastEntryShown, Followed, Shows, Filtered
<1> QED  BY AlwaysTInv, <1>1, PTL

(* The query of useFilterQuery and the client-side functions keep the same *)
(* rows, for the operators both know.                                      *)
THEOREM QueriesAgree == Spec => []SupportedAgree
<1>1. ASSUME TInv PROVE SupportedAgree
  <2>1. ASSUME NEW c \in DOMAIN filters, filters[c].operator \in Supported(TypeOf[c])
        PROVE  AgreesOn(c)
    <3>1. TypeOf[c] \in Types
      BY <1>1, ColumnTypes DEF TInv, FiltersFit
    <3>2. \A v : Query(TypeOf[c], filters[c].operator, filters[c].values, v)
                   <=> Keeps(TypeOf[c], filters[c].operator, filters[c].values, v)
      BY <2>1, <3>1, SameReading
    <3> QED  BY <3>2 DEF AgreesOn
  <2> QED  BY <2>1 DEF SupportedAgree
<1> QED  BY AlwaysTInv, <1>1, PTL

(* No change of a filter's values turns it from including rows to excluding *)
(* them or back (determineNewOperator), but for the tabs of a number.      *)
SenseOnly ==
  \A c \in DOMAIN filters \cap DOMAIN filters' :
    filters[c].values # filters'[c].values /\ ~ ChangeType(c)
      => (filters[c].operator \in Negated <=> filters'[c].operator \in Negated)

LEMMA SenseStep ==
  ASSUME TInv, Next
  PROVE  SenseOnly
<1>1. ASSUME SensesKept(filters, filters') PROVE SenseOnly
  BY <1>1 DEF SensesKept, SenseOnly
<1>2. ASSUME UNCHANGED filters PROVE SenseOnly
  BY <1>2 DEF SenseOnly
<1>3. ASSUME NEW c \in Columns, Edits(c) PROVE SenseOnly
  BY <1>1, <1>2, <1>3, FiltersUnchanged, OptionGiven, DatesGiven DEF Edits, TInv
<1>4. ASSUME NEW c \in Columns, ChangeType(c) PROVE SenseOnly
  <2>1. OnlyOf(c, filters, filters')
    BY <1>4, TabGiven DEF TInv, GivenTo
  <2> QED  BY <1>4, <2>1 DEF SenseOnly, OnlyOf
<1>5. ASSUME NEW c \in Columns, RemoveFilter(c) PROVE SenseOnly
  <2>1. OnlyOf(c, filters, filters') /\ c \notin DOMAIN filters'
    BY <1>5, FilterGone DEF TInv
  <2> QED  BY <2>1 DEF SenseOnly, OnlyOf
<1>6. ASSUME NEW c \in Columns, NEW op, ChangeOperator(c, op) PROVE SenseOnly
  <2>1. OnlyOf(c, filters, filters') /\ filters'[c].values = filters[c].values
    BY <1>6, OperatorGiven DEF TInv, GivenTo
  <2> QED  BY <2>1 DEF SenseOnly, OnlyOf
<1>7. CASE RemoveAllFilters
  BY <1>7, FiltersGone DEF SenseOnly
<1>8. CASE InputFires
  <2>1. CASE inputs[1].name = "text"
    BY <1>1, <1>8, <2>1, TextGiven DEF TInv
  <2>2. CASE inputs[1].name # "text"
    <3>1. UNCHANGED filters
      BY <1>8, <2>2 DEF InputFires
    <3> QED  BY <1>2, <3>1
  <2> QED  BY <2>1, <2>2
<1>9. CASE CallFires
  BY <1>1, <1>9, CallGiven DEF TInv
<1>10. ASSUME CloseValue \/ \E c \in Columns : OpenValue(c) PROVE SenseOnly
  BY <1>2, <1>10, FiltersUnchanged
<1> QED  BY <1>3, <1>4, <1>5, <1>6, <1>7, <1>8, <1>9, <1>10 DEF Next, Timers

(* A change of values keeps the sense of a filter: determineNewOperator    *)
(* maps a negated operator to a negated one, whether the values grow or    *)
(* shrink, and at whatever time a late number or text is set.              *)
THEOREM ValuesKeepSense == Spec => NegationKept
<1>1. TInv /\ [Next]_vars => [SenseOnly]_vars
  BY SenseStep
<1> QED  BY AlwaysTInv, <1>1, PTL DEF Spec, NegationKept, SenseOnly
=============================================================================
