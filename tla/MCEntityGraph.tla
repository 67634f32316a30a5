--------------------------- MODULE MCEntityGraph ---------------------------
(* Small instances of EntityGraph: campuses 1 and 2, people 3 to 5.  The   *)
(* ids are ordered as the numbers (campus_... comes before person_...).    *)
EXTENDS EntityGraph

MCRank == [x \in Records |-> x]
=============================================================================
