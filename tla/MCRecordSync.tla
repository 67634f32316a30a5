---------------------------- MODULE MCRecordSync ----------------------------
(* Small instances of RecordSync for TLC: two or three PCO records, one    *)
(* entity created locally.  A hook and the other activities mint different *)
(* ids for the same record; all ids are model values.                      *)
EXTENDS RecordSync, TLC

CONSTANTS m1, m2, m3, n1, n2, n3

ByOthers == (1 :> m1) @@ (2 :> m2) @@ (3 :> m3)
ByHook == (1 :> n1) @@ (2 :> n2) @@ (3 :> n3)
MCMintedId == [x \in ExternalIds |->
                 [w \in Workers |-> IF w \in Hooks THEN ByHook[x] ELSE ByOthers[x]]]
=============================================================================
