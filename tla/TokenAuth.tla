----------------------------- MODULE TokenAuth -----------------------------
(***************************************************************************)
(* Access tokens of one organisation's PCO connection (tokenAuthLive,      *)
(* tokenManagerLive, adapterConnect).  Every activity builds a layer of    *)
(* its own: a cached Ref with the token state, a lock for loading it from  *)
(* adapterTokens and a lock for refreshing it.  The requests of an         *)
(* activity are fibers of its layer.  PCO replaces a refresh token when it *)
(* is used.  A token state is the grant PCO issued, by number, and the     *)
(* user whose row it came from.                                            *)
(***************************************************************************)
EXTENDS Naturals

CONSTANTS
  Layers,       \* layers alive at the same time, one per running activity
  Fibers,       \* requests to PCO that ask for a token
  LayerOf,      \* the layer a request belongs to
  Users,        \* users who may connect the organisation
  None,         \* no fiber, no layer, no user
  MaxGrants,    \* bound: grants PCO issues
  FailureProne  \* layers that may fail half-way or be restarted

ASSUME LayerAssumption == LayerOf \in [Fibers -> Layers] /\ FailureProne \subseteq Layers
ASSUME NoneAssumption == None \notin Fibers /\ None \notin Layers
ASSUME GrantAssumption == MaxGrants \in Nat

Grants == 1 .. MaxGrants
NoToken == 0
States == [grant : Grants \cup {NoToken}, user : Users \cup {None}]
NoState == [grant |-> NoToken, user |-> None]
Steps == {"idle", "load lock", "load", "check", "refresh lock", "refresh", "save",
          "set", "granted"}

VARIABLES
  issued,       \* PCO: grants issued so far
  usedBy,       \* PCO: the layer that used up a grant's refresh token
  expired,      \* grants whose access token is within a minute of its end
  stored,       \* table adapterTokens, by user: its grant, NoToken for no row
  cache,        \* tokenCache of each layer: the fiber that made the Ref
  ref,          \* the Ref made by each fiber
  using,        \* tokenStateRef of each fiber, by the fiber that made it
  fresh,        \* newTokens of each fiber
  loadLock,     \* tokenLoadLock of each layer: its holder
  refreshLock,  \* tokenRefreshLock of each layer: its holder
  step,         \* the step each fiber is at
  lost          \* history: grants used up whose replacement was not kept

pcoVars == <<issued, usedBy, expired>>
lockVars == <<loadLock, refreshLock>>
vars == <<issued, usedBy, expired, stored, cache, ref, using, fresh, loadLock,
          refreshLock, step, lost>>

TypeOK ==
  /\ issued \in 0 .. MaxGrants
  /\ usedBy \in [Grants -> Layers \cup {None}]
  /\ expired \subseteq Grants
  /\ stored \in [Users -> Grants \cup {NoToken}]
  /\ cache \in [Layers -> Fibers \cup {None}]
  /\ ref \in [Fibers -> States]
  /\ using \in [Fibers -> Fibers \cup {None}]
  /\ fresh \in [Fibers -> Grants \cup {NoToken}]
  /\ loadLock \in [Layers -> Fibers \cup {None}]
  /\ refreshLock \in [Layers -> Fibers \cup {None}]
  /\ step \in [Fibers -> Steps]
  /\ lost \subseteq Grants

Init ==
  /\ issued = 0 /\ expired = {} /\ lost = {}
  /\ usedBy = [g \in Grants |-> None]
  /\ stored = [u \in Users |-> NoToken]
  /\ cache = [l \in Layers |-> None]
  /\ ref = [f \in Fibers |-> NoState]
  /\ using = [f \in Fibers |-> None]
  /\ fresh = [f \in Fibers |-> NoToken]
  /\ loadLock = [l \in Layers |-> None]
  /\ refreshLock = [l \in Layers |-> None]
  /\ step = [f \in Fibers |-> "idle"]

Goto(f, s) == step' = [step EXCEPT ![f] = s]
State(f) == ref[using[f]]      \* what Ref.get(tokenStateRef) returns
Waiting(f) == step[f] \notin {"idle", "granted"}

-----------------------------------------------------------------------------
(* PCO and the users of the organisation.                                  *)

(* adapterConnect: the code of a user's consent is exchanged for a grant,  *)
(* which is upserted as the user's row.                                    *)
Connect(u) ==
  /\ issued < MaxGrants
  /\ issued' = issued + 1
  /\ stored' = [stored EXCEPT ![u] = issued + 1]
  /\ UNCHANGED <<usedBy, expired, cache, ref, using, fresh, lockVars, step, lost>>

Expire(g) ==
  /\ g <= issued
  /\ expired' = expired \cup {g}
  /\ UNCHANGED <<issued, usedBy, stored, cache, ref, using, fresh, lockVars, step, lost>>

(* PCO takes a refresh token once and answers with a new grant. *)
Renew(f) ==
  /\ usedBy[State(f).grant] = None /\ issued < MaxGrants
  /\ issued' = issued + 1
  /\ usedBy' = [usedBy EXCEPT ![State(f).grant] = LayerOf[f]]

-----------------------------------------------------------------------------
(* getOrgTokenStateRef *)

UseCached(f) ==
  /\ using' = [using EXCEPT ![f] = cache[LayerOf[f]]]
  /\ Goto(f, "check")

GetValidAccessToken(f) ==
  /\ ~ Waiting(f)
  /\ IF cache[LayerOf[f]] # None
     THEN UseCached(f)
     ELSE Goto(f, "load lock") /\ UNCHANGED using
  /\ UNCHANGED <<pcoVars, stored, cache, ref, fresh, lockVars, lost>>

(* Broken variant: no double check after acquiring the lock. *)
NothingCached(l) == FALSE
CachedAfterLock(l) == cache[l] # None

AcquireLoadLock(f) ==
  LET l == LayerOf[f]
  IN /\ step[f] = "load lock" /\ loadLock[l] = None
     /\ IF CachedAfterLock(l)
        THEN UseCached(f) /\ UNCHANGED loadLock
        ELSE /\ loadLock' = [loadLock EXCEPT ![l] = f]
             /\ Goto(f, "load")
             /\ UNCHANGED using
     /\ UNCHANGED <<pcoVars, stored, cache, ref, fresh, refreshLock, lost>>

Release(lock, f) == [l \in Layers |-> IF lock[l] = f THEN None ELSE lock[l]]

(* The first row of the organisation's, in whatever order they come. *)
LoadTokenState(f) ==
  /\ step[f] = "load"
  /\ \E u \in Users :
       /\ stored[u] # NoToken
       /\ ref' = [ref EXCEPT ![f] = [grant |-> stored[u], user |-> u]]
  /\ cache' = [cache EXCEPT ![LayerOf[f]] = f]
  /\ using' = [using EXCEPT ![f] = f]
  /\ loadLock' = Release(loadLock, f)
  /\ Goto(f, "check")
  /\ UNCHANGED <<pcoVars, stored, fresh, refreshLock, lost>>

-----------------------------------------------------------------------------
(* The request's fiber ends: with a token, or with an error.  withPermits  *)
(* gives the locks back in either case.                                    *)

HandOut(f) ==
  /\ Goto(f, "granted")
  /\ using' = [using EXCEPT ![f] = None]

(* Broken variant: an error leaves the locks as they are. *)
KeepsLocks(lock, f) == lock
ReleasedByError(lock, f) == Release(lock, f)

EndInError(f) ==
  /\ Goto(f, "idle")
  /\ using' = [using EXCEPT ![f] = None]
  /\ fresh' = [fresh EXCEPT ![f] = NoToken]
  /\ loadLock' = ReleasedByError(loadLock, f)
  /\ refreshLock' = ReleasedByError(refreshLock, f)

LoadFails(f) ==
  /\ step[f] = "load" /\ \A u \in Users : stored[u] = NoToken
  /\ EndInError(f)
  /\ UNCHANGED <<pcoVars, stored, cache, ref, lost>>

-----------------------------------------------------------------------------
(* getValidAccessToken *)

CheckExpiry(f) ==
  /\ step[f] = "check"
  /\ IF State(f).grant \in expired
     THEN Goto(f, "refresh lock") /\ UNCHANGED using
     ELSE HandOut(f)
  /\ UNCHANGED <<pcoVars, stored, cache, ref, fresh, lockVars, lost>>

(* Broken variant: the refresh takes no lock. *)
AnyTime(l) == TRUE
RefreshLockFree(l) == refreshLock[l] = None
StillExpired(f) == State(f).grant \in expired

AcquireRefreshLock(f) ==
  LET l == LayerOf[f]
  IN /\ step[f] = "refresh lock" /\ RefreshLockFree(l)
     /\ IF StillExpired(f)
        THEN /\ refreshLock' = [refreshLock EXCEPT ![l] = f]
             /\ Goto(f, "refresh")
             /\ UNCHANGED using
        ELSE HandOut(f) /\ UNCHANGED refreshLock
     /\ UNCHANGED <<pcoVars, stored, cache, ref, fresh, loadLock, lost>>

RefreshToken(f) ==
  /\ step[f] = "refresh"
  /\ Renew(f)
  /\ fresh' = [fresh EXCEPT ![f] = issued + 1]
  /\ Goto(f, "save")
  /\ UNCHANGED <<expired, stored, cache, ref, using, lockVars, lost>>

(* PCO refuses a refresh token it has already replaced; at the bound       *)
(* MaxGrants it refuses every one.                                         *)
RefreshRefused(f) ==
  /\ step[f] = "refresh"
  /\ usedBy[State(f).grant] # None \/ issued = MaxGrants
  /\ EndInError(f)
  /\ UNCHANGED <<pcoVars, stored, cache, ref, lost>>

(* Broken variants: the state the refresh started from is saved, or the    *)
(* user's id in its place.                                                 *)
StateBefore(f) == State(f).grant
UserId(f) == State(f).user
NewState(f) == fresh[f]

SaveTokenState(f) ==
  /\ step[f] = "save"
  /\ stored' = [u \in Users |-> IF u = State(f).user /\ stored[u] # NoToken
                                THEN NewState(f) ELSE stored[u]]
  /\ Goto(f, "set")
  /\ UNCHANGED <<pcoVars, cache, ref, using, fresh, lockVars, lost>>

SetRef(f) ==
  /\ step[f] = "set"
  /\ ref' = [ref EXCEPT ![using[f]].grant = fresh[f]]
  /\ fresh' = [fresh EXCEPT ![f] = NoToken]
  /\ refreshLock' = Release(refreshLock, f)
  /\ HandOut(f)
  /\ UNCHANGED <<pcoVars, stored, cache, loadLock, lost>>

-----------------------------------------------------------------------------
(* A statement or a request fails; the answer of a refresh may be lost     *)
(* after PCO has acted on it.                                              *)
InFlight(f) == step[f] \in {"save", "set"}

Fail(f) ==
  /\ LayerOf[f] \in FailureProne /\ Waiting(f)
  /\ EndInError(f)
  /\ \/ /\ lost' = IF InFlight(f) THEN lost \cup {State(f).grant} ELSE lost
        /\ UNCHANGED <<issued, usedBy>>
     \/ /\ step[f] = "refresh" /\ Renew(f)
        /\ lost' = lost \cup {State(f).grant}
  /\ UNCHANGED <<expired, stored, cache, ref>>

(* The activity ends or stops with whatever its fibers were doing; the     *)
(* next one, or its retry, builds a new layer.                             *)
Restart(l) ==
  LET mine == {f \in Fibers : LayerOf[f] = l}
      Reset(fn, v) == [f \in Fibers |-> IF f \in mine THEN v ELSE fn[f]]
  IN /\ cache[l] # None \/ \E f \in mine : step[f] # "idle"
     /\ l \in FailureProne \/ \A f \in mine : ~ Waiting(f)
     /\ cache' = [cache EXCEPT ![l] = None]
     /\ loadLock' = [loadLock EXCEPT ![l] = None]
     /\ refreshLock' = [refreshLock EXCEPT ![l] = None]
     /\ ref' = Reset(ref, NoState)
     /\ using' = Reset(using, None)
     /\ fresh' = Reset(fresh, NoToken)
     /\ step' = Reset(step, "idle")
     /\ lost' = lost \cup {State(f).grant : f \in {m \in mine : InFlight(m)}}
     /\ UNCHANGED <<pcoVars, stored>>

-----------------------------------------------------------------------------
FiberStep(f) ==
  \/ AcquireLoadLock(f) \/ LoadTokenState(f) \/ LoadFails(f)
  \/ CheckExpiry(f) \/ AcquireRefreshLock(f) \/ RefreshToken(f) \/ RefreshRefused(f)
  \/ SaveTokenState(f) \/ SetRef(f)

Next ==
  \/ \E u \in Users : Connect(u)
  \/ \E g \in Grants : Expire(g)
  \/ \E f \in Fibers : GetValidAccessToken(f) \/ FiberStep(f) \/ Fail(f)
  \/ \E l \in Layers : Restart(l)

Spec == Init /\ [][Next]_vars

(* The runtime keeps running the fibers and gives a lock to those that     *)
(* wait for it in turn.                                                    *)
Fairness == \A f \in Fibers :
  WF_vars(FiberStep(f)) /\ SF_vars(AcquireLoadLock(f) \/ AcquireRefreshLock(f))
FairSpec == Spec /\ Fairness
-----------------------------------------------------------------------------
(* Properties *)

(* "Use a lock to ensure only one fiber loads the token for a new key":    *)
(* all the requests of a layer share one Ref, so that a refresh by one of  *)
(* them is seen by the others.                                             *)
OneRefPerLayer ==
  \A f \in Fibers : using[f] # None => using[f] = cache[LayerOf[f]]

(* A layer never sends a refresh token it has already used, unless the     *)
(* replacement was lost on the way to the Ref.                             *)
NoTokenSentTwice ==
  \A f \in Fibers : step[f] = "refresh" /\ usedBy[State(f).grant] = LayerOf[f]
    => State(f).grant \in lost

(* The refresh token in adapterTokens is one PCO still accepts, or its     *)
(* replacement is about to be saved, or was lost by a failure: layers that *)
(* refresh concurrently, restart or see a reconnection never store a used  *)
(* one.                                                                    *)
StoredGrantUsable ==
  \A u \in Users : stored[u] # NoToken =>
    \/ usedBy[stored[u]] = None
    \/ stored[u] \in lost
    \/ \E f \in Fibers : step[f] = "save" /\ State(f).grant = stored[u]

(* Every request for a token is answered, with a token or an error: no     *)
(* failure leaves a lock behind.                                           *)
RequestsAnswered == \A f \in Fibers : Waiting(f) ~> ~ Waiting(f)
=============================================================================
