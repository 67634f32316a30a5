---------------------------- MODULE MCPcoClient ----------------------------
(***************************************************************************)
(* The two services PcoHttpClient asks before each request, in one         *)
(* instance for TLC: the tokens of an activity with two requests at a time *)
(* next to one with a single request, and the limiter of one layer.  They  *)
(* share no state, so that nothing is missed when one of them only moves   *)
(* while the other is at its beginning.                                    *)
(***************************************************************************)
EXTENDS TokenAuth, RateLimiter, TLC

CONSTANTS A, B, a1, a2, b1

MCLayerOf == (a1 :> A) @@ (a2 :> A) @@ (b1 :> B)

MCInit == Init /\ LimiterInit
MCNext ==
  \/ Next /\ sent = <<>> /\ UNCHANGED limiterVars
  \/ LimiterNext /\ issued = 0 /\ (\A f \in Fibers : step[f] = "idle") /\ UNCHANGED vars
MCSpec == MCInit /\ [][MCNext]_<<vars, limiterVars>> /\ Fairness
=============================================================================
