----------------------------- MODULE MCOrgSync -----------------------------
(* An instance of OrgSync for TLC: people, who have webhooks and e-mail    *)
(* addresses, and campuses; the setup seeds one relationship and the sync  *)
(* of people finds another.                                                *)
EXTENDS OrgSync, TLC

CONSTANTS x1, x2, u1, Person, Campus, Phone

MCEntityOf == [k \in Kinds |-> 1]
MCPairsOf == (1 :> {<<Person, Campus>>}) @@ (2 :> {})
MCSeededPairs == {<<Person, Phone>>}
MCUserOf == (x1 :> u1) @@ (x2 :> u1)
=============================================================================
