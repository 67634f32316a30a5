--------------------------- MODULE MCTableFilters ---------------------------
(* One column of each type; rows with every value that matters to them. *)
EXTENDS TableFilters

CONSTANTS cOption, cMulti, cNumber, cDate, cText, opt1, opt2, word1

MCTypeOf == (cOption :> "option") @@ (cMulti :> "multiOption") @@
            (cNumber :> "number") @@ (cDate :> "date") @@
            (cText :> "text")
MCOptions == {opt1, opt2}
MCRows == [type \in Types |->
  CASE type = "option" -> Options \cup {NoValue}
    [] type = "multiOption" -> SUBSET Options
    [] type = "number" -> 0 .. 3
    [] type = "date" -> 0 .. 5
    [] type = "text" -> SUBSET Words]
MCMinMax == <<0, 1>>
MCNoMinMax == <<>>
=============================================================================
