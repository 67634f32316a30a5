--------------------------- MODULE MCMutationPush ---------------------------
(* A small instance of MutationPush for TLC: two mutations of one entity,  *)
(* the second refused by its mutator, and one that cannot be converted.    *)
EXTENDS MutationPush, TLC

CONSTANT e1

MCItemsOf == (1 :> {e1}) @@ (2 :> {e1}) @@ (3 :> {})
=============================================================================
