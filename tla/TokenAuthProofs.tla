-------------------------- MODULE TokenAuthProofs --------------------------
(***************************************************************************)
(* Theorems about TokenAuth, for any number of layers, fibers, users and   *)
(* grants.                                                                 *)
(***************************************************************************)
EXTENDS TokenAuth, TLAPS

(* The steps of a fiber that has a Ref, that holds the refresh lock, and   *)
(* that holds tokens PCO has issued to it.                                 *)
HasRef == {"check", "refresh lock", "refresh", "save", "set"}
Refreshing == {"refresh", "save", "set"}
Renewed == {"save", "set"}

(* The cached Ref of a layer was made by a fiber of it from a row.         *)
CacheLoaded == \A l \in Layers : cache[l] # None =>
  /\ LayerOf[cache[l]] = l
  /\ ref[cache[l]].grant # NoToken
  /\ ref[cache[l]].user \in Users

HoldersHaveRef == \A f \in Fibers : step[f] \in HasRef => using[f] # None

(* The locks exclude: while one fiber of a layer loads, nothing is cached  *)
(* and no other loads; only one at a time refreshes.                       *)
LoadsAlone == \A f \in Fibers : step[f] = "load" =>
  loadLock[LayerOf[f]] = f /\ cache[LayerOf[f]] = None
RefreshesAlone == \A f \in Fibers : step[f] \in Refreshing => refreshLock[LayerOf[f]] = f

Shape ==
  CacheLoaded /\ OneRefPerLayer /\ HoldersHaveRef /\ LoadsAlone /\ RefreshesAlone

(* Every grant anybody knows of was issued. *)
Issued ==
  /\ \A u \in Users : stored[u] <= issued
  /\ \A f \in Fibers : ref[f].grant <= issued /\ fresh[f] <= issued
  /\ \A g \in Grants : usedBy[g] # None => g <= issued

(* The grant a fiber got for the one it used up is known to nobody else    *)
(* until it is saved, and not used by its own layer until it is in the Ref.*)
FreshHeld ==
  /\ \A f \in Fibers : step[f] \in Renewed =>
       fresh[f] # NoToken /\ usedBy[State(f).grant] = LayerOf[f]
  /\ \A f \in Fibers : step[f] = "save" =>
       /\ usedBy[fresh[f]] = None
       /\ \A u \in Users : stored[u] # fresh[f]
       /\ \A h \in Fibers : ref[h].grant # fresh[f]
  /\ \A f \in Fibers : step[f] = "set" => usedBy[fresh[f]] # LayerOf[f]
  /\ \A f, h \in Fibers : f # h /\ step[f] \in Renewed /\ step[h] \in Renewed =>
       fresh[f] # fresh[h]

(* Every grant belongs to one user, in the table, the Refs and on the way. *)
OwnedBy(owner) ==
  /\ \A u \in Users : stored[u] # NoToken => owner[stored[u]] = u
  /\ \A f \in Fibers : ref[f].grant # NoToken => owner[ref[f].grant] = ref[f].user
  /\ \A f \in Fibers : step[f] \in Renewed => owner[fresh[f]] = State(f).user
Owned == \E owner \in [Grants -> Users \cup {None}] : OwnedBy(owner)

(* The grant in a layer's Ref was used up by the layer only if a fiber is  *)
(* about to replace it, or the replacement was lost.                       *)
RefUsable == \A l \in Layers : cache[l] # None /\ usedBy[ref[cache[l]].grant] = l =>
  \/ ref[cache[l]].grant \in lost
  \/ \E f \in Fibers : LayerOf[f] = l /\ step[f] \in Renewed

Kept == Issued /\ FreshHeld /\ Owned /\ StoredGrantUsable /\ RefUsable

IInv == TypeOK /\ Shape /\ Kept

-----------------------------------------------------------------------------
(* Every token state is typed, the types are preserved.                    *)

(* A fiber that has a Ref has its layer's, with a grant of a user. *)
LEMMA RefHeld ==
  ASSUME TypeOK, Shape, NEW f \in Fibers, step[f] \in HasRef
  PROVE /\ using[f] \in Fibers /\ using[f] = cache[LayerOf[f]]
        /\ LayerOf[using[f]] = LayerOf[f]
        /\ State(f) \in States /\ State(f).grant \in Grants /\ State(f).user \in Users
<1>1. using[f] \in Fibers /\ using[f] = cache[LayerOf[f]] /\ LayerOf[f] \in Layers
  BY LayerAssumption DEF TypeOK, Shape, HoldersHaveRef, OneRefPerLayer
<1>2. LayerOf[using[f]] = LayerOf[f] /\ State(f).grant # NoToken /\ State(f).user \in Users
  BY <1>1, NoneAssumption DEF Shape, CacheLoaded, State
<1>3. State(f) \in States
  BY <1>1 DEF TypeOK, State
<1>. QED BY <1>1, <1>2, <1>3 DEF States

LEMMA ReleaseTyped ==
  ASSUME NEW lock \in [Layers -> Fibers \cup {None}], NEW f \in Fibers
  PROVE /\ Release(lock, f) \in [Layers -> Fibers \cup {None}]
        /\ \A l \in Layers : Release(lock, f)[l] = (IF lock[l] = f THEN None ELSE lock[l])
BY DEF Release

(* A fiber that ends in an error. *)
LEMMA EndInErrorTyped ==
  ASSUME TypeOK, NEW f \in Fibers, EndInError(f)
  PROVE /\ step' \in [Fibers -> Steps]
        /\ using' \in [Fibers -> Fibers \cup {None}]
        /\ fresh' \in [Fibers -> Grants \cup {NoToken}]
        /\ loadLock' \in [Layers -> Fibers \cup {None}]
        /\ refreshLock' \in [Layers -> Fibers \cup {None}]
BY ReleaseTyped DEF EndInError, ReleasedByError, Goto, Steps, TypeOK

LEMMA RenewTyped ==
  ASSUME TypeOK, NEW f \in Fibers, Renew(f)
  PROVE issued' \in 0 .. MaxGrants /\ issued + 1 \in Grants
        /\ usedBy' \in [Grants -> Layers \cup {None}]
<1>1. issued' \in 0 .. MaxGrants /\ issued + 1 \in Grants
  BY GrantAssumption DEF Renew, Grants, TypeOK
<1>2. usedBy \in [Grants -> Layers \cup {None}] /\ LayerOf[f] \in Layers
  BY LayerAssumption DEF TypeOK
<1>3. usedBy' = [usedBy EXCEPT ![State(f).grant] = LayerOf[f]]
  BY DEF Renew
<1>4. usedBy' \in [Grants -> Layers \cup {None}]
  BY <1>2, <1>3
<1>. QED BY <1>1, <1>4

LEMMA TypeStep == ASSUME TypeOK, Shape, [Next]_vars PROVE TypeOK'
<1>. USE LayerAssumption, GrantAssumption
<1>1. ASSUME NEW u \in Users, Connect(u) PROVE TypeOK'
  BY <1>1 DEF Connect, TypeOK, Grants, lockVars
<1>2. ASSUME NEW g \in Grants, Expire(g) PROVE TypeOK'
  BY <1>2 DEF Expire, TypeOK, lockVars
<1>3. ASSUME NEW f \in Fibers, GetValidAccessToken(f) PROVE TypeOK'
  BY <1>3 DEF GetValidAccessToken, UseCached, Goto, TypeOK, pcoVars, lockVars, Steps
<1>4. ASSUME NEW f \in Fibers, AcquireLoadLock(f) PROVE TypeOK'
  <2>1. LayerOf[f] \in Layers
    BY DEF TypeOK
  <2>2. CASE CachedAfterLock(LayerOf[f])
    <3>1. /\ using' = [using EXCEPT ![f] = cache[LayerOf[f]]] /\ step' = [step EXCEPT ![f] = "check"]
          /\ UNCHANGED <<pcoVars, stored, cache, ref, fresh, loadLock, refreshLock, lost>>
      BY <1>4, <2>2 DEF AcquireLoadLock, UseCached, Goto
    <3>. QED BY <2>1, <3>1 DEF TypeOK, pcoVars, Steps
  <2>3. CASE ~ CachedAfterLock(LayerOf[f])
    BY <1>4, <2>1, <2>3 DEF AcquireLoadLock, Goto, TypeOK, pcoVars, Steps
  <2>. QED BY <2>2, <2>3
<1>5. ASSUME NEW f \in Fibers, LoadTokenState(f) PROVE TypeOK'
  <2>1. /\ loadLock' \in [Layers -> Fibers \cup {None}]
        /\ UNCHANGED <<pcoVars, stored, fresh, refreshLock, lost>>
    BY <1>5, ReleaseTyped DEF LoadTokenState, TypeOK
  <2>2. PICK u \in Users : ref' = [ref EXCEPT ![f] = [grant |-> stored[u], user |-> u]]
    BY <1>5 DEF LoadTokenState
  <2>3. ref' \in [Fibers -> States]
    BY <2>2 DEF TypeOK, States
  <2>. QED BY <1>5, <2>1, <2>3 DEF LoadTokenState, Goto, TypeOK, pcoVars, Steps
<1>6. ASSUME NEW f \in Fibers, LoadFails(f) PROVE TypeOK'
  BY <1>6, EndInErrorTyped DEF LoadFails, TypeOK, pcoVars
<1>7. ASSUME NEW f \in Fibers, CheckExpiry(f) PROVE TypeOK'
  BY <1>7 DEF CheckExpiry, HandOut, Goto, TypeOK, pcoVars, lockVars, Steps
<1>8. ASSUME NEW f \in Fibers, AcquireRefreshLock(f) PROVE TypeOK'
  BY <1>8 DEF AcquireRefreshLock, HandOut, Goto, TypeOK, pcoVars, Steps
<1>9. ASSUME NEW f \in Fibers, RefreshToken(f) PROVE TypeOK'
  BY <1>9, RenewTyped DEF RefreshToken, Goto, TypeOK, lockVars, Steps
<1>10. ASSUME NEW f \in Fibers, RefreshRefused(f) PROVE TypeOK'
  BY <1>10, EndInErrorTyped DEF RefreshRefused, TypeOK, pcoVars
<1>11. ASSUME NEW f \in Fibers, SaveTokenState(f) PROVE TypeOK'
  BY <1>11 DEF SaveTokenState, NewState, Goto, TypeOK, pcoVars, lockVars, Steps
<1>12. ASSUME NEW f \in Fibers, SetRef(f) PROVE TypeOK'
  <2>1. using[f] \in Fibers
    BY <1>12, RefHeld DEF SetRef, HasRef
  <2>2. ref' \in [Fibers -> States]
    <3>1. [ref[using[f]] EXCEPT !.grant = fresh[f]] \in States
      BY <2>1 DEF TypeOK, States
    <3>. QED BY <1>12, <2>1, <3>1 DEF SetRef, TypeOK
  <2>3. refreshLock' \in [Layers -> Fibers \cup {None}]
    BY <1>12, ReleaseTyped DEF SetRef, TypeOK
  <2>. QED BY <1>12, <2>2, <2>3 DEF SetRef, HandOut, Goto, TypeOK, pcoVars, Steps
<1>13. ASSUME NEW f \in Fibers, Fail(f) PROVE TypeOK'
  <2>1. EndInError(f) /\ UNCHANGED <<expired, stored, cache, ref>>
    BY <1>13 DEF Fail
  <2>2. CASE lost' = (IF InFlight(f) THEN lost \cup {State(f).grant} ELSE lost) /\ UNCHANGED <<issued, usedBy>>
    <3>1. InFlight(f) => State(f).grant \in Grants
      BY RefHeld DEF InFlight, HasRef
    <3>. QED BY <2>1, <2>2, <3>1, EndInErrorTyped DEF TypeOK
  <2>3. CASE step[f] = "refresh" /\ Renew(f) /\ lost' = lost \cup {State(f).grant}
    <3>1. State(f).grant \in Grants
      BY <2>3, RefHeld DEF HasRef
    <3>. QED BY <2>1, <2>3, <3>1, EndInErrorTyped, RenewTyped DEF TypeOK
  <2>. QED BY <1>13, <2>2, <2>3 DEF Fail
<1>14. ASSUME NEW l \in Layers, Restart(l) PROVE TypeOK'
  <2>1. lost' \subseteq Grants
    <3>1. \A f \in Fibers : InFlight(f) => State(f).grant \in Grants
      BY RefHeld DEF InFlight, HasRef
    <3>. QED BY <1>14, <3>1 DEF Restart, TypeOK
  <2>2. /\ ref' \in [Fibers -> States] /\ using' \in [Fibers -> Fibers \cup {None}]
        /\ fresh' \in [Fibers -> Grants \cup {NoToken}] /\ step' \in [Fibers -> Steps]
    BY <1>14 DEF Restart, TypeOK, NoState, States, Steps
  <2>. QED BY <1>14, <2>1, <2>2 DEF Restart, TypeOK, pcoVars
<1>15. CASE UNCHANGED vars
  BY <1>15 DEF vars, TypeOK
<1>. QED
  BY <1>1, <1>2, <1>3, <1>4, <1>5, <1>6, <1>7, <1>8, <1>9, <1>10, <1>11, <1>12,
     <1>13, <1>14, <1>15 DEF Next, FiberStep

-----------------------------------------------------------------------------
(* The locks exclude and a layer has one Ref.                              *)

(* How the steps of a fiber move it, as seen by the locks: at is the step  *)
(* it goes to, made the Ref it goes with.                                  *)
Moves(f, at, made) ==
  /\ step' = [step EXCEPT ![f] = at]
  /\ using' = [using EXCEPT ![f] = made]

LEMMA MovedTo ==
  ASSUME TypeOK, NEW f \in Fibers, NEW at, NEW made, Moves(f, at, made)
  PROVE /\ step'[f] = at /\ using'[f] = made
        /\ \A h \in Fibers : h # f => step'[h] = step[h] /\ using'[h] = using[h]
BY DEF Moves, TypeOK

(* Where the steps are, for the locks. *)
LEMMA Places ==
  /\ \A s \in {"idle", "load lock", "granted"} : s \notin {"load"} \cup HasRef \cup Refreshing
  /\ \A s \in {"check", "refresh lock"} : s \in HasRef \ Refreshing
  /\ \A s \in {"save", "set", "refresh"} : s \in HasRef \cap Refreshing
  /\ "load" \notin HasRef \cup Refreshing
BY DEF HasRef, Refreshing

LEMMA ShapeStep == ASSUME TypeOK, Shape, FreshHeld, [Next]_vars PROVE Shape'
<1>. USE LayerAssumption, NoneAssumption
<1>. DEFINE Untouched == UNCHANGED <<cache, ref, loadLock, refreshLock>>
<1>1. ASSUME UNCHANGED <<step, using>>, Untouched PROVE Shape'
  BY <1>1 DEF Shape, CacheLoaded, OneRefPerLayer, HoldersHaveRef, LoadsAlone, RefreshesAlone
<1>2. ASSUME NEW f \in Fibers, NEW at, at # "load", Untouched,
             \/ Moves(f, at, using[f]) /\ (at \in HasRef => step[f] \in HasRef)
             \/ Moves(f, at, None) /\ at \notin HasRef
             \/ Moves(f, at, cache[LayerOf[f]]) /\ cache[LayerOf[f]] # None,
             at \in Refreshing => step[f] \in Refreshing
      PROVE Shape'
  <2>1. /\ step'[f] = at
        /\ \/ using'[f] = using[f] /\ (at \in HasRef => step[f] \in HasRef)
           \/ using'[f] = None /\ at \notin HasRef
           \/ using'[f] = cache[LayerOf[f]] /\ cache[LayerOf[f]] # None
        /\ \A h \in Fibers : h # f => step'[h] = step[h] /\ using'[h] = using[h]
    BY <1>2, MovedTo
  <2>2. CacheLoaded' /\ OneRefPerLayer' /\ HoldersHaveRef'
    BY <1>2, <2>1 DEF Shape, CacheLoaded, OneRefPerLayer, HoldersHaveRef
  <2>3. LoadsAlone' /\ RefreshesAlone'
    BY <1>2, <2>1 DEF Shape, LoadsAlone, RefreshesAlone
  <2>. QED BY <2>2, <2>3 DEF Shape
<1>3. ASSUME NEW u \in Users, Connect(u) PROVE Shape'
  BY <1>1, <1>3 DEF Connect, lockVars
<1>4. ASSUME NEW g \in Grants, Expire(g) PROVE Shape'
  BY <1>1, <1>4 DEF Expire, lockVars
<1>5. ASSUME NEW f \in Fibers, GetValidAccessToken(f) PROVE Shape'
  <2>1. CASE cache[LayerOf[f]] # None
    <3>1. Moves(f, "check", cache[LayerOf[f]]) /\ Untouched
      BY <1>5, <2>1 DEF GetValidAccessToken, UseCached, Goto, Moves, lockVars
    <3>. QED BY <1>2, <2>1, <3>1, Places
  <2>2. CASE cache[LayerOf[f]] = None
    <3>1. Moves(f, "load lock", using[f]) /\ Untouched
      BY <1>5, <2>2 DEF GetValidAccessToken, Goto, Moves, lockVars, TypeOK
    <3>. QED BY <1>2, <2>2, <3>1, Places
  <2>. QED BY <2>1, <2>2
<1>6. ASSUME NEW f \in Fibers, AcquireLoadLock(f) PROVE Shape'
  <2>1. CASE cache[LayerOf[f]] # None
    <3>1. Moves(f, "check", cache[LayerOf[f]]) /\ Untouched
      BY <1>6, <2>1 DEF AcquireLoadLock, CachedAfterLock, UseCached, Goto, Moves
    <3>. QED BY <1>2, <2>1, <3>1, Places
  <2>2. CASE cache[LayerOf[f]] = None
    <3>1. /\ step' = [step EXCEPT ![f] = "load"] /\ UNCHANGED <<using, cache, ref, refreshLock>>
          /\ loadLock[LayerOf[f]] = None /\ loadLock' = [loadLock EXCEPT ![LayerOf[f]] = f]
      BY <1>6, <2>2 DEF AcquireLoadLock, CachedAfterLock, Goto
    <3>2. step'[f] = "load" /\ \A h \in Fibers : h # f => step'[h] = step[h]
      BY <3>1 DEF TypeOK
    <3>3. CacheLoaded' /\ OneRefPerLayer' /\ HoldersHaveRef' /\ RefreshesAlone'
      BY <3>1, <3>2 DEF Shape, CacheLoaded, OneRefPerLayer, HoldersHaveRef, RefreshesAlone,
         HasRef, Refreshing
    <3>4. LoadsAlone'
      BY <2>2, <3>1, <3>2 DEF Shape, LoadsAlone, TypeOK
    <3>. QED BY <3>3, <3>4 DEF Shape
  <2>. QED BY <2>1, <2>2
<1>7. ASSUME NEW f \in Fibers, LoadTokenState(f) PROVE Shape'
  <2>1. PICK u \in Users :
          stored[u] # NoToken /\ ref' = [ref EXCEPT ![f] = [grant |-> stored[u], user |-> u]]
    BY <1>7 DEF LoadTokenState
  <2>2. /\ Moves(f, "check", f) /\ cache' = [cache EXCEPT ![LayerOf[f]] = f]
        /\ loadLock' = Release(loadLock, f) /\ UNCHANGED refreshLock
        /\ step[f] = "load"
    BY <1>7 DEF LoadTokenState, Goto, Moves
  <2>3. /\ step'[f] = "check" /\ using'[f] = f
        /\ \A h \in Fibers : h # f => step'[h] = step[h] /\ using'[h] = using[h]
    BY <2>2, MovedTo
  <2>4. /\ cache'[LayerOf[f]] = f
        /\ \A l \in Layers : l # LayerOf[f] => cache'[l] = cache[l]
        /\ ref'[f].grant # NoToken /\ ref'[f].user \in Users
        /\ \A h \in Fibers : h # f => ref'[h] = ref[h]
    BY <2>1, <2>2 DEF TypeOK
  <2>5. loadLock[LayerOf[f]] = f /\ cache[LayerOf[f]] = None
    BY <2>2 DEF Shape, LoadsAlone
  <2>6. CacheLoaded'
    BY <2>4 DEF Shape, CacheLoaded, TypeOK
  <2>7. OneRefPerLayer' /\ HoldersHaveRef'
    <3>1. ASSUME NEW h \in Fibers, using'[h] # None PROVE using'[h] = cache'[LayerOf[h]]
      BY <2>3, <2>4, <2>5, <3>1 DEF Shape, OneRefPerLayer
    <3>. QED BY <2>3, <3>1 DEF Shape, OneRefPerLayer, HoldersHaveRef
  <2>8. LoadsAlone'
    <3>1. ASSUME NEW h \in Fibers, step'[h] = "load"
          PROVE loadLock'[LayerOf[h]] = h /\ cache'[LayerOf[h]] = None
      <4>1. h # f /\ step[h] = "load" /\ LayerOf[h] \in Layers
        BY <2>3, <3>1
      <4>2. loadLock[LayerOf[h]] = h /\ cache[LayerOf[h]] = None /\ LayerOf[h] # LayerOf[f]
        BY <2>5, <4>1 DEF Shape, LoadsAlone
      <4>. QED BY <2>2, <2>4, <4>1, <4>2 DEF Release
    <3>. QED BY <3>1 DEF LoadsAlone
  <2>9. RefreshesAlone'
    BY <2>2, <2>3 DEF Shape, RefreshesAlone, Refreshing
  <2>. QED BY <2>6, <2>7, <2>8, <2>9 DEF Shape
<1>8. ASSUME NEW f \in Fibers, EndInError(f), UNCHANGED <<cache, ref>> PROVE Shape'
  <2>1. /\ step'[f] = "idle" /\ using'[f] = None
        /\ \A h \in Fibers : h # f => step'[h] = step[h] /\ using'[h] = using[h]
    BY <1>8, MovedTo DEF EndInError, Goto, Moves
  <2>2. /\ \A l \in Layers : loadLock[l] # f => loadLock'[l] = loadLock[l]
        /\ \A l \in Layers : refreshLock[l] # f => refreshLock'[l] = refreshLock[l]
    BY <1>8 DEF EndInError, ReleasedByError, Release
  <2>3. CacheLoaded' /\ OneRefPerLayer' /\ HoldersHaveRef'
    BY <1>8, <2>1 DEF Shape, CacheLoaded, OneRefPerLayer, HoldersHaveRef, HasRef
  <2>4. LoadsAlone' /\ RefreshesAlone'
    <3>1. "idle" \notin Refreshing /\ "idle" # "load"
      BY Places
    <3>2. ASSUME NEW h \in Fibers, step'[h] \in Refreshing \/ step'[h] = "load"
          PROVE h # f /\ step'[h] = step[h] /\ LayerOf[h] \in Layers
      BY <2>1, <3>1, <3>2
    <3>3. LoadsAlone'
      <4>1. ASSUME NEW h \in Fibers, step'[h] = "load"
            PROVE loadLock'[LayerOf[h]] = h /\ cache'[LayerOf[h]] = None
        <5>1. loadLock[LayerOf[h]] = h /\ cache[LayerOf[h]] = None
          BY <3>2, <4>1 DEF Shape, LoadsAlone
        <5>. QED BY <1>8, <2>2, <3>2, <4>1, <5>1
      <4>. QED BY <4>1 DEF LoadsAlone
    <3>4. RefreshesAlone'
      <4>1. ASSUME NEW h \in Fibers, step'[h] \in Refreshing
            PROVE refreshLock'[LayerOf[h]] = h
        <5>1. refreshLock[LayerOf[h]] = h
          BY <3>2, <4>1 DEF Shape, RefreshesAlone
        <5>. QED BY <2>2, <3>2, <4>1, <5>1
      <4>. QED BY <4>1 DEF RefreshesAlone
    <3>. QED BY <3>3, <3>4
  <2>. QED BY <2>3, <2>4 DEF Shape
<1>9. ASSUME NEW f \in Fibers, CheckExpiry(f) PROVE Shape'
  <2>1. step[f] = "check" /\ Untouched
        /\ (Moves(f, "refresh lock", using[f]) \/ Moves(f, "granted", None))
    BY <1>9 DEF CheckExpiry, HandOut, Goto, Moves, lockVars, TypeOK
  <2>. QED BY <1>2, <2>1, Places
<1>10. ASSUME NEW f \in Fibers, AcquireRefreshLock(f) PROVE Shape'
  <2>1. CASE StillExpired(f)
    <3>1. /\ step[f] = "refresh lock" /\ step' = [step EXCEPT ![f] = "refresh"]
          /\ UNCHANGED <<using, cache, ref, loadLock>> /\ refreshLock[LayerOf[f]] = None
          /\ refreshLock' = [refreshLock EXCEPT ![LayerOf[f]] = f]
      BY <1>10, <2>1 DEF AcquireRefreshLock, RefreshLockFree, Goto
    <3>2. step'[f] = "refresh" /\ \A h \in Fibers : h # f => step'[h] = step[h]
      BY <3>1 DEF TypeOK
    <3>3. CacheLoaded' /\ OneRefPerLayer' /\ HoldersHaveRef' /\ LoadsAlone'
      BY <3>1, <3>2 DEF Shape, CacheLoaded, OneRefPerLayer, HoldersHaveRef, LoadsAlone, HasRef
    <3>4. RefreshesAlone'
      BY <3>1, <3>2 DEF Shape, RefreshesAlone, TypeOK
    <3>. QED BY <3>3, <3>4 DEF Shape
  <2>2. CASE ~ StillExpired(f)
    <3>1. Moves(f, "granted", None) /\ Untouched
      BY <1>10, <2>2 DEF AcquireRefreshLock, HandOut, Goto, Moves
    <3>. QED BY <1>2, <3>1, Places
  <2>. QED BY <2>1, <2>2
<1>11. ASSUME NEW f \in Fibers, RefreshToken(f) PROVE Shape'
  <2>1. step[f] = "refresh" /\ Moves(f, "save", using[f]) /\ Untouched
    BY <1>11 DEF RefreshToken, Goto, Moves, lockVars, TypeOK
  <2>. QED BY <1>2, <2>1, Places
<1>12. ASSUME NEW f \in Fibers, SaveTokenState(f) PROVE Shape'
  <2>1. step[f] = "save" /\ Moves(f, "set", using[f]) /\ Untouched
    BY <1>12 DEF SaveTokenState, Goto, Moves, lockVars, TypeOK
  <2>. QED BY <1>2, <2>1, Places
<1>13. ASSUME NEW f \in Fibers, SetRef(f) PROVE Shape'
  <2>1. /\ step[f] = "set" /\ Moves(f, "granted", None) /\ UNCHANGED <<cache, loadLock>>
        /\ ref' = [ref EXCEPT ![using[f]].grant = fresh[f]]
        /\ refreshLock' = Release(refreshLock, f)
    BY <1>13 DEF SetRef, HandOut, Goto, Moves
  <2>0. fresh[f] # NoToken
    BY <2>1 DEF FreshHeld, Renewed
  <2>2. /\ step'[f] = "granted" /\ using'[f] = None
        /\ \A h \in Fibers : h # f => step'[h] = step[h] /\ using'[h] = using[h]
    BY <2>1, MovedTo
  <2>3. \A h \in Fibers : /\ ref'[h].user = ref[h].user
                          /\ (ref'[h].grant = ref[h].grant \/ ref'[h].grant # NoToken)
    BY <2>0, <2>1 DEF TypeOK, States
  <2>4. CacheLoaded'
    BY <2>1, <2>3 DEF Shape, CacheLoaded, TypeOK
  <2>5. OneRefPerLayer' /\ HoldersHaveRef' /\ LoadsAlone'
    <3>1. "granted" \notin HasRef /\ "granted" # "load"
      BY Places
    <3>. QED BY <2>1, <2>2, <3>1 DEF Shape, OneRefPerLayer, HoldersHaveRef, LoadsAlone
  <2>7. \A l \in Layers : refreshLock[l] # f => refreshLock'[l] = refreshLock[l]
    BY <2>1 DEF Release
  <2>6. RefreshesAlone'
    <3>1. "granted" \notin Refreshing
      BY Places
    <3>2. ASSUME NEW h \in Fibers, step'[h] \in Refreshing PROVE refreshLock'[LayerOf[h]] = h
      <4>1. h # f /\ step[h] \in Refreshing /\ LayerOf[h] \in Layers
        BY <2>2, <3>1, <3>2
      <4>. QED BY <2>7, <4>1 DEF Shape, RefreshesAlone
    <3>. QED BY <3>2 DEF RefreshesAlone
  <2>. QED BY <2>4, <2>5, <2>6 DEF Shape
<1>14. ASSUME NEW l \in Layers, Restart(l) PROVE Shape'
  <2>1. /\ \A k \in Layers : cache'[k] = IF k = l THEN None ELSE cache[k]
        /\ \A k \in Layers : k # l => loadLock'[k] = loadLock[k] /\ refreshLock'[k] = refreshLock[k]
    BY <1>14 DEF Restart, TypeOK
  <2>2. \A f \in Fibers :
          /\ LayerOf[f] = l => using'[f] = None /\ step'[f] = "idle"
          /\ LayerOf[f] # l => using'[f] = using[f] /\ step'[f] = step[f] /\ ref'[f] = ref[f]
    BY <1>14 DEF Restart, TypeOK
  <2>3. CacheLoaded'
    BY <2>1, <2>2 DEF Shape, CacheLoaded, TypeOK
  <2>4. OneRefPerLayer' /\ HoldersHaveRef'
    BY <2>1, <2>2 DEF Shape, OneRefPerLayer, HoldersHaveRef, HasRef
  <2>5. LoadsAlone' /\ RefreshesAlone'
    BY <2>1, <2>2 DEF Shape, LoadsAlone, RefreshesAlone, Refreshing
  <2>. QED BY <2>3, <2>4, <2>5 DEF Shape
<1>15. CASE UNCHANGED vars
  BY <1>1, <1>15 DEF vars
<1>. QED
  BY <1>3, <1>4, <1>5, <1>6, <1>7, <1>8, <1>9, <1>10, <1>11, <1>12, <1>13, <1>14, <1>15
     DEF Next, FiberStep, LoadFails, RefreshRefused, Fail

-----------------------------------------------------------------------------
(* What becomes of the grants.                                             *)

(* A fiber that holds new tokens: its Ref's state is its layer's, and it   *)
(* is the only one of its layer.                                           *)
LEMMA RenewedAlone ==
  ASSUME TypeOK, Shape, NEW f \in Fibers, step[f] \in Refreshing
  PROVE /\ using[f] \in Fibers /\ using[f] = cache[LayerOf[f]] /\ State(f) = ref[using[f]]
        /\ State(f).grant \in Grants /\ State(f).user \in Users
        /\ \A h \in Fibers : h # f /\ step[h] \in Refreshing => LayerOf[h] # LayerOf[f]
<1>1. step[f] \in HasRef
  BY Places DEF Refreshing
<1>2. \A h \in Fibers : h # f /\ step[h] \in Refreshing => LayerOf[h] # LayerOf[f]
  BY DEF Shape, RefreshesAlone
<1>. QED BY <1>1, <1>2, RefHeld DEF State

(* Steps that issue and store nothing: fibers that hold new tokens stay or *)
(* leave them to the lost ones, Refs stay or vanish with their layer.      *)
LEMMA KeptWithoutRenewal ==
  ASSUME TypeOK, Shape, Kept, UNCHANGED <<issued, usedBy, stored>>, lost \subseteq lost',
         \A h \in Fibers : step'[h] \in Renewed =>
            /\ step'[h] = step[h] /\ using'[h] = using[h] /\ fresh'[h] = fresh[h]
            /\ ref'[using[h]] = ref[using[h]],
         \A h \in Fibers : step[h] \in Renewed => step'[h] = step[h] \/ State(h).grant \in lost',
         \A h \in Fibers : ref'[h] = ref[h] \/ ref'[h] = NoState,
         \A h \in Fibers : fresh'[h] \in {fresh[h], NoToken},
         \A l \in Layers : cache'[l] # None => cache'[l] = cache[l] /\ ref'[cache[l]] = ref[cache[l]]
  PROVE Kept'
<1>0. \A h \in Fibers : step'[h] \in Renewed => State(h)' = State(h)
  BY DEF State
<1>1. Issued'
  BY DEF Kept, Issued, NoState, NoToken, TypeOK
<1>2. FreshHeld'
  <2>1. \A f \in Fibers : step'[f] \in Renewed =>
          fresh'[f] # NoToken /\ usedBy[State(f)'.grant] = LayerOf[f]
    BY <1>0 DEF Kept, FreshHeld
  <2>2. \A f \in Fibers : step'[f] = "save" =>
          /\ usedBy[fresh'[f]] = None /\ \A u \in Users : stored[u] # fresh'[f]
          /\ \A h \in Fibers : ref'[h].grant # fresh'[f]
    <3>1. SUFFICES ASSUME NEW f \in Fibers, step'[f] = "save"
                   PROVE /\ usedBy[fresh'[f]] = None /\ \A u \in Users : stored[u] # fresh'[f]
                         /\ \A h \in Fibers : ref'[h].grant # fresh'[f]
      OBVIOUS
    <3>2. step[f] = "save" /\ fresh'[f] = fresh[f] /\ fresh[f] # NoToken
      BY <3>1 DEF Renewed, Kept, FreshHeld
    <3>. QED BY <3>2 DEF Kept, FreshHeld, NoState
  <2>3. \A f \in Fibers : step'[f] = "set" => usedBy[fresh'[f]] # LayerOf[f]
    BY DEF Kept, FreshHeld, Renewed
  <2>4. \A f, h \in Fibers : f # h /\ step'[f] \in Renewed /\ step'[h] \in Renewed =>
          fresh'[f] # fresh'[h]
    BY DEF Kept, FreshHeld
  <2>. QED BY <2>1, <2>2, <2>3, <2>4 DEF FreshHeld
<1>3. Owned'
  <2>1. PICK owner \in [Grants -> Users \cup {None}] : OwnedBy(owner)
    BY DEF Kept, Owned
  <2>2. OwnedBy(owner)'
    BY <1>0, <2>1 DEF OwnedBy, NoState
  <2>. QED BY <2>2 DEF Owned
<1>4. StoredGrantUsable'
  <2>1. ASSUME NEW f \in Fibers, step[f] = "save"
        PROVE State(f).grant \in lost' \/ (step'[f] = "save" /\ (State(f).grant)' = State(f).grant)
    <3>1. State(f).grant \in lost' \/ step'[f] = "save"
      BY <2>1 DEF Renewed
    <3>2. step'[f] = "save" => (State(f).grant)' = State(f).grant
      BY <1>0 DEF Renewed
    <3>. QED BY <3>1, <3>2
  <2>. QED BY <2>1 DEF Kept, StoredGrantUsable
<1>5. RefUsable'
  <2>1. SUFFICES ASSUME NEW l \in Layers, cache'[l] # None, usedBy[ref'[cache'[l]].grant] = l
                 PROVE \/ ref'[cache'[l]].grant \in lost'
                       \/ \E f \in Fibers : LayerOf[f] = l /\ step'[f] \in Renewed
    BY DEF RefUsable
  <2>2. cache'[l] = cache[l] /\ ref'[cache'[l]] = ref[cache[l]]
    BY <2>1
  <2>3. CASE ref[cache[l]].grant \in lost
    BY <2>2, <2>3
  <2>4. ASSUME NEW f \in Fibers, LayerOf[f] = l, step[f] \in Renewed
        PROVE ref[cache[l]].grant \in lost' \/ step'[f] \in Renewed
    <3>1. State(f) = ref[cache[l]]
      BY <2>4, RenewedAlone DEF Renewed, Refreshing
    <3>. QED BY <2>4, <3>1
  <2>. QED BY <2>1, <2>2, <2>3, <2>4 DEF Kept, RefUsable
<1>. QED BY <1>1, <1>2, <1>3, <1>4, <1>5 DEF Kept

(* The grant PCO issues next is known to nobody. *)
LEMMA NextGrantUnknown ==
  ASSUME TypeOK, Issued, issued < MaxGrants
  PROVE /\ issued + 1 \in Grants /\ issued + 1 # NoToken /\ usedBy[issued + 1] = None
        /\ \A u \in Users : stored[u] # issued + 1
        /\ \A f \in Fibers : ref[f].grant # issued + 1 /\ fresh[f] # issued + 1
<1>1. issued \in Nat /\ issued + 1 \in Grants /\ issued + 1 # NoToken
  BY GrantAssumption DEF TypeOK, Grants, NoToken
<1>2. /\ \A u \in Users : stored[u] \in Nat
      /\ \A f \in Fibers : ref[f].grant \in Nat /\ fresh[f] \in Nat
  BY GrantAssumption DEF TypeOK, Grants, States, NoToken
<1>3. ~ (issued + 1 <= issued)
  BY <1>1
<1>. QED BY <1>1, <1>2, <1>3 DEF Issued

LEMMA KeptByConnect == ASSUME TypeOK, Shape, Kept, NEW u \in Users, Connect(u) PROVE Kept'
<1>1. /\ issued' = issued + 1 /\ stored' = [stored EXCEPT ![u] = issued + 1]
      /\ UNCHANGED <<usedBy, cache, ref, using, fresh, step, lost>>
      /\ issued < MaxGrants
  BY DEF Connect
<1>2. /\ issued + 1 \in Grants /\ issued + 1 # NoToken /\ usedBy[issued + 1] = None
      /\ \A v \in Users : stored[v] # issued + 1
      /\ \A f \in Fibers : ref[f].grant # issued + 1 /\ fresh[f] # issued + 1
  BY <1>1, NextGrantUnknown DEF Kept
<1>3. \A v \in Users : stored'[v] = IF v = u THEN issued + 1 ELSE stored[v]
  BY <1>1 DEF TypeOK
<1>4. \A f \in Fibers : State(f)' = State(f)
  BY <1>1 DEF State
<1>5. Issued'
  <2>1. \A n \in Nat : n <= issued => n <= issued + 1
    BY GrantAssumption DEF TypeOK
  <2>2. /\ \A v \in Users : stored[v] \in Nat
        /\ \A f \in Fibers : ref[f].grant \in Nat /\ fresh[f] \in Nat
        /\ \A g \in Grants : g \in Nat
        /\ issued + 1 <= issued + 1
    BY GrantAssumption DEF TypeOK, Grants, States, NoToken
  <2>. QED BY <1>1, <1>3, <2>1, <2>2 DEF Kept, Issued
<1>6. FreshHeld'
  <2>1. \A f \in Fibers : step[f] = "save" => \A v \in Users : stored'[v] # fresh[f]
    BY <1>2, <1>3 DEF Kept, FreshHeld
  <2>. QED BY <1>1, <1>4, <2>1 DEF Kept, FreshHeld
<1>7. Owned'
  <2>1. PICK owner \in [Grants -> Users \cup {None}] : OwnedBy(owner)
    BY DEF Kept, Owned
  <2>2. PICK next \in [Grants -> Users \cup {None}] : next = [owner EXCEPT ![issued + 1] = u]
    BY <2>1
  <2>3. next[issued + 1] = u /\ \A g \in Grants : g # issued + 1 => next[g] = owner[g]
    BY <1>2, <2>1, <2>2
  <2>4. \A f \in Fibers : step[f] \in Renewed => fresh[f] \in Grants
    BY DEF Kept, FreshHeld, TypeOK
  <2>5. OwnedBy(next)'
    <3>1. \A v \in Users : stored'[v] # NoToken => next[stored'[v]] = v
      BY <1>2, <1>3, <2>1, <2>3 DEF OwnedBy, TypeOK
    <3>2. \A f \in Fibers : ref[f].grant # NoToken => next[ref[f].grant] = ref[f].user
      BY <1>2, <2>1, <2>3 DEF OwnedBy, TypeOK, States
    <3>3. \A f \in Fibers : step[f] \in Renewed => next[fresh[f]] = State(f).user
      BY <1>2, <2>1, <2>3, <2>4 DEF OwnedBy
    <3>. QED BY <1>1, <1>4, <3>1, <3>2, <3>3 DEF OwnedBy
  <2>. QED BY <2>5 DEF Owned
<1>8. StoredGrantUsable'
  <2>1. ASSUME NEW v \in Users, stored'[v] # NoToken
        PROVE \/ usedBy[stored'[v]] = None \/ stored'[v] \in lost
              \/ \E f \in Fibers : step[f] = "save" /\ State(f).grant = stored'[v]
    BY <1>2, <1>3, <2>1 DEF Kept, StoredGrantUsable
  <2>. QED BY <1>1, <1>4, <2>1 DEF StoredGrantUsable
<1>9. RefUsable'
  BY <1>1 DEF Kept, RefUsable
<1>. QED BY <1>5, <1>6, <1>7, <1>8, <1>9 DEF Kept

LEMMA KeptByLoad == ASSUME TypeOK, Shape, Kept, NEW f \in Fibers, LoadTokenState(f) PROVE Kept'
<1>1. PICK u \in Users :
        stored[u] # NoToken /\ ref' = [ref EXCEPT ![f] = [grant |-> stored[u], user |-> u]]
  BY DEF LoadTokenState
<1>2. /\ step[f] = "load" /\ Moves(f, "check", f) /\ cache' = [cache EXCEPT ![LayerOf[f]] = f]
      /\ UNCHANGED <<issued, usedBy, stored, fresh, lost>>
  BY DEF LoadTokenState, Goto, Moves, pcoVars
<1>3. /\ step'[f] = "check"
      /\ \A h \in Fibers : h # f => step'[h] = step[h] /\ using'[h] = using[h]
  BY <1>2, MovedTo
<1>4. /\ ref'[f] = [grant |-> stored[u], user |-> u]
      /\ \A h \in Fibers : h # f => ref'[h] = ref[h]
      /\ LayerOf[f] \in Layers /\ cache'[LayerOf[f]] = f
      /\ \A l \in Layers : l # LayerOf[f] => cache'[l] = cache[l]
  BY <1>1, <1>2, LayerAssumption DEF TypeOK
<1>5. cache[LayerOf[f]] = None
  BY <1>2 DEF Shape, LoadsAlone
<1>6. \A h \in Fibers : step'[h] \in Renewed =>
        h # f /\ step[h] \in Renewed /\ step'[h] = step[h] /\ State(h)' = State(h)
  <2>1. SUFFICES ASSUME NEW h \in Fibers, step'[h] \in Renewed
                 PROVE h # f /\ step[h] \in Renewed /\ step'[h] = step[h] /\ State(h)' = State(h)
    OBVIOUS
  <2>2. h # f /\ step[h] \in Renewed /\ step'[h] = step[h] /\ using'[h] = using[h]
    BY <1>3, <2>1 DEF Renewed
  <2>3. using[h] = cache[LayerOf[h]] /\ using[h] \in Fibers /\ LayerOf[using[h]] = LayerOf[h]
    BY <2>2, RefHeld DEF Renewed, HasRef
  <2>4. using[h] # f
    BY <1>5, <2>3, NoneAssumption
  <2>. QED BY <1>4, <2>2, <2>3, <2>4 DEF State
<1>7. \A h \in Fibers : step[h] \in Renewed => step'[h] = step[h]
  BY <1>2, <1>3 DEF Renewed
<1>8. Issued'
  BY <1>2, <1>4 DEF Kept, Issued
<1>9. FreshHeld'
  <2>1. ASSUME NEW h \in Fibers, step'[h] = "save"
        PROVE step[h] = "save" /\ \A k \in Fibers : ref'[k].grant # fresh[h]
    BY <1>4, <1>6, <2>1 DEF Kept, FreshHeld, Renewed
  <2>2. \A h \in Fibers : step'[h] = "set" => step[h] = "set"
    BY <1>6 DEF Renewed
  <2>. QED BY <1>2, <1>6, <2>1, <2>2 DEF Kept, FreshHeld
<1>10. Owned'
  <2>1. PICK owner \in [Grants -> Users \cup {None}] : OwnedBy(owner)
    BY DEF Kept, Owned
  <2>2. OwnedBy(owner)'
    BY <1>1, <1>2, <1>4, <1>6, <2>1 DEF OwnedBy
  <2>. QED BY <2>2 DEF Owned
<1>11. StoredGrantUsable'
  <2>1. \A h \in Fibers : step[h] = "save" => step'[h] = "save" /\ State(h)' = State(h)
    BY <1>6, <1>7 DEF Renewed
  <2>. QED BY <1>2, <2>1 DEF Kept, StoredGrantUsable
<1>12. RefUsable'
  <2>1. SUFFICES ASSUME NEW l \in Layers, cache'[l] # None, usedBy[ref'[cache'[l]].grant] = l
                 PROVE \/ ref'[cache'[l]].grant \in lost
                       \/ \E h \in Fibers : LayerOf[h] = l /\ step'[h] \in Renewed
    BY <1>2 DEF RefUsable
  <2>2. CASE l = LayerOf[f]
    <3>1. usedBy[stored[u]] = l /\ ref'[cache'[l]].grant = stored[u]
      BY <1>4, <2>1, <2>2
    <3>2. ASSUME NEW h \in Fibers, step[h] = "save", State(h).grant = stored[u] PROVE FALSE
      <4>1. LayerOf[h] = l /\ using[h] \in Fibers /\ using[h] = cache[LayerOf[h]]
        BY <3>1, <3>2, RefHeld DEF Kept, FreshHeld, Renewed, HasRef
      <4>. QED BY <1>5, <2>2, <4>1, NoneAssumption
    <3>. QED BY <1>1, <3>1, <3>2, NoneAssumption DEF Kept, StoredGrantUsable
  <2>3. CASE l # LayerOf[f]
    <3>1. cache'[l] = cache[l] /\ cache[l] # f /\ cache[l] \in Fibers
      BY <1>4, <2>1, <2>3 DEF Shape, CacheLoaded, TypeOK
    <3>2. ref'[cache'[l]] = ref[cache[l]]
      BY <1>4, <3>1
    <3>. QED BY <1>7, <2>1, <3>1, <3>2 DEF Kept, RefUsable
  <2>. QED BY <2>2, <2>3
<1>. QED BY <1>8, <1>9, <1>10, <1>11, <1>12 DEF Kept

(* PCO renews the grant of a fiber's state: the grants known before stay   *)
(* as they were, but for the one that is used up.                          *)
LEMMA RenewEffect ==
  ASSUME TypeOK, Shape, Kept, NEW f \in Fibers, step[f] = "refresh", Renew(f)
  PROVE LET g == State(f).grant
        IN /\ g \in Grants /\ usedBy[g] = None /\ g <= issued /\ LayerOf[f] \in Layers
           /\ issued' = issued + 1 /\ issued < MaxGrants
           /\ usedBy'[g] = LayerOf[f]
           /\ \A i \in Grants : i # g => usedBy'[i] = usedBy[i]
<1>1. State(f).grant \in Grants /\ State(f).grant <= issued
  BY RenewedAlone DEF Refreshing, Kept, Issued
<1>2. /\ usedBy[State(f).grant] = None /\ issued' = issued + 1 /\ issued < MaxGrants
      /\ usedBy' = [usedBy EXCEPT ![State(f).grant] = LayerOf[f]]
  BY DEF Renew
<1>3. usedBy \in [Grants -> Layers \cup {None}]
  BY DEF TypeOK
<1>. QED BY <1>1, <1>2, <1>3, LayerAssumption

(* Both ways it happens: the answer arrives, or it is lost.                *)
LEMMA KeptByRenewal ==
  ASSUME TypeOK, Shape, Kept, NEW f \in Fibers, step[f] = "refresh", Renew(f),
         UNCHANGED <<stored, cache, ref>>,
         \A h \in Fibers : h # f => step'[h] = step[h] /\ using'[h] = using[h] /\ fresh'[h] = fresh[h],
         \/ step'[f] = "save" /\ using'[f] = using[f] /\ fresh'[f] = issued + 1 /\ lost' = lost
         \/ step'[f] = "idle" /\ fresh'[f] = NoToken /\ lost' = lost \cup {State(f).grant}
  PROVE Kept'
<1>. DEFINE g == State(f).grant  l == LayerOf[f]
<1>1. /\ g \in Grants /\ usedBy[g] = None /\ g <= issued /\ l \in Layers
      /\ issued' = issued + 1 /\ issued < MaxGrants
      /\ usedBy'[g] = l /\ \A i \in Grants : i # g => usedBy'[i] = usedBy[i]
  BY RenewEffect
<1>2. /\ issued + 1 \in Grants /\ issued + 1 # NoToken /\ usedBy[issued + 1] = None
      /\ \A v \in Users : stored[v] # issued + 1
      /\ \A h \in Fibers : ref[h].grant # issued + 1 /\ fresh[h] # issued + 1
  BY <1>1, NextGrantUnknown DEF Kept
<1>3. using[f] \in Fibers /\ using[f] = cache[l] /\ g = ref[cache[l]].grant /\ State(f).user \in Users
  BY RenewedAlone DEF Refreshing
<1>4. \A h \in Fibers : step'[h] \in Renewed =>
        /\ State(h)' = State(h)
        /\ h # f => step[h] \in Renewed /\ LayerOf[h] # l /\ State(h).grant \in Grants /\ fresh[h] \in Grants
  <2>1. SUFFICES ASSUME NEW h \in Fibers, step'[h] \in Renewed
                 PROVE /\ State(h)' = State(h)
                       /\ h # f => /\ step[h] \in Renewed /\ LayerOf[h] # l
                                   /\ State(h).grant \in Grants /\ fresh[h] \in Grants
    OBVIOUS
  <2>2. using'[h] = using[h]
    BY <2>1 DEF Renewed
  <2>3. ASSUME h # f PROVE /\ step[h] \in Renewed /\ LayerOf[h] # l
                           /\ State(h).grant \in Grants /\ fresh[h] \in Grants
    <3>1. step[h] \in Renewed
      BY <2>1, <2>3
    <3>2. fresh[h] \in Grants
      BY <3>1 DEF Kept, FreshHeld, TypeOK
    <3>. QED BY <2>3, <3>1, <3>2, RenewedAlone DEF Refreshing, Renewed
  <2>. QED BY <2>2, <2>3 DEF State
<1>5. Issued'
  <2>1. /\ \A n \in Nat : n <= issued => n <= issued + 1
        /\ issued + 1 <= issued + 1
    BY GrantAssumption DEF TypeOK
  <2>2. /\ \A v \in Users : stored[v] \in Nat
        /\ \A h \in Fibers : ref[h].grant \in Nat /\ fresh[h] \in Nat
        /\ \A i \in Grants : i \in Nat
    BY GrantAssumption DEF TypeOK, Grants, States, NoToken
  <2>3. \A h \in Fibers : fresh'[h] <= issued + 1
    <3>1. NoToken <= issued + 1
      BY GrantAssumption DEF NoToken, TypeOK
    <3>. QED BY <2>1, <2>2, <3>1 DEF Kept, Issued
  <2>4. \A i \in Grants : usedBy'[i] # None => i <= issued + 1
    BY <1>1, <2>1, <2>2 DEF Kept, Issued
  <2>. QED BY <1>1, <2>1, <2>2, <2>3, <2>4 DEF Kept, Issued
<1>6. FreshHeld'
  <2>1. ASSUME NEW h \in Fibers, step'[h] \in Renewed
        PROVE fresh'[h] # NoToken /\ usedBy'[State(h).grant] = LayerOf[h]
    <3>1. CASE h = f
      BY <1>1, <1>2, <2>1, <3>1 DEF Renewed
    <3>2. CASE h # f
      BY <1>1, <1>4, <2>1, <3>2, NoneAssumption, LayerAssumption DEF Kept, FreshHeld
    <3>. QED BY <3>1, <3>2
  <2>2. ASSUME NEW h \in Fibers, step'[h] = "save"
        PROVE /\ usedBy'[fresh'[h]] = None
              /\ \A u \in Users : stored[u] # fresh'[h]
              /\ \A k \in Fibers : ref[k].grant # fresh'[h]
    <3>1. CASE h = f
      <4>1. fresh'[h] = issued + 1 /\ issued + 1 # g
        BY <1>2, <1>3, <2>2, <3>1 DEF State
      <4>. QED BY <1>1, <1>2, <4>1
    <3>2. CASE h # f
      <4>1. step[h] = "save" /\ fresh'[h] = fresh[h] /\ fresh[h] \in Grants
        BY <1>4, <2>2, <3>2 DEF Renewed
      <4>2. fresh[h] # g
        BY <1>3, <4>1 DEF Kept, FreshHeld
      <4>. QED BY <1>1, <4>1, <4>2 DEF Kept, FreshHeld
    <3>. QED BY <3>1, <3>2
  <2>3. ASSUME NEW h \in Fibers, step'[h] = "set" PROVE usedBy'[fresh'[h]] # LayerOf[h]
    <3>1. h # f
      BY <2>3
    <3>2. step[h] = "set" /\ fresh'[h] = fresh[h] /\ fresh[h] \in Grants /\ LayerOf[h] # l
      BY <1>4, <2>3, <3>1 DEF Renewed
    <3>. QED BY <1>1, <3>2 DEF Kept, FreshHeld
  <2>4. ASSUME NEW h \in Fibers, NEW k \in Fibers, h # k, step'[h] \in Renewed, step'[k] \in Renewed
        PROVE fresh'[h] # fresh'[k]
    <3>1. CASE h = f
      BY <1>2, <2>4, <3>1 DEF Renewed
    <3>2. CASE k = f
      BY <1>2, <2>4, <3>2 DEF Renewed
    <3>3. CASE h # f /\ k # f
      BY <1>4, <2>4, <3>3 DEF Kept, FreshHeld
    <3>. QED BY <3>1, <3>2, <3>3
  <2>. QED BY <1>4, <2>1, <2>2, <2>3, <2>4 DEF FreshHeld
<1>7. Owned'
  <2>1. PICK owner \in [Grants -> Users \cup {None}] : OwnedBy(owner)
    BY DEF Kept, Owned
  <2>2. PICK next \in [Grants -> Users \cup {None}] : next = [owner EXCEPT ![issued + 1] = State(f).user]
    BY <1>3, <2>1
  <2>3. next[issued + 1] = State(f).user /\ \A i \in Grants : i # issued + 1 => next[i] = owner[i]
    BY <1>2, <2>1, <2>2
  <2>4. OwnedBy(next)'
    <3>1. \A v \in Users : stored[v] # NoToken => next[stored[v]] = v
      BY <1>2, <2>1, <2>3 DEF OwnedBy, TypeOK
    <3>2. \A h \in Fibers : ref[h].grant # NoToken => next[ref[h].grant] = ref[h].user
      BY <1>2, <2>1, <2>3 DEF OwnedBy, TypeOK, States
    <3>3. ASSUME NEW h \in Fibers, step'[h] \in Renewed PROVE next[fresh'[h]] = State(h).user
      <4>1. CASE h = f
        BY <2>3, <3>3, <4>1 DEF Renewed
      <4>2. CASE h # f
        BY <1>2, <1>4, <2>1, <2>3, <3>3, <4>2 DEF OwnedBy
      <4>. QED BY <4>1, <4>2
    <3>. QED BY <1>4, <3>1, <3>2, <3>3 DEF OwnedBy
  <2>. QED BY <2>4 DEF Owned
<1>8. StoredGrantUsable'
  <2>1. ASSUME NEW v \in Users, stored[v] # NoToken
        PROVE \/ usedBy'[stored[v]] = None \/ stored[v] \in lost'
              \/ \E h \in Fibers : step'[h] = "save" /\ (State(h).grant)' = stored[v]
    <3>1. stored[v] \in Grants
      BY <2>1 DEF TypeOK
    <3>2. CASE stored[v] = g
      <4>1. CASE step'[f] = "save"
        BY <1>4, <3>2, <4>1 DEF Renewed
      <4>. QED BY <3>2, <4>1
    <3>3. CASE stored[v] # g
      <4>1. usedBy'[stored[v]] = usedBy[stored[v]] /\ lost \subseteq lost'
        BY <1>1, <3>1, <3>3
      <4>2. ASSUME NEW h \in Fibers, step[h] = "save", State(h).grant = stored[v]
            PROVE step'[h] = "save" /\ (State(h).grant)' = stored[v]
        <5>1. step'[h] = "save"
          BY <4>2
        <5>. QED BY <1>4, <4>2, <5>1 DEF Renewed
      <4>. QED BY <2>1, <4>1, <4>2 DEF Kept, StoredGrantUsable
    <3>. QED BY <3>2, <3>3
  <2>. QED BY <2>1 DEF StoredGrantUsable
<1>9. RefUsable'
  <2>1. SUFFICES ASSUME NEW k \in Layers, cache[k] # None, usedBy'[ref[cache[k]].grant] = k
                 PROVE \/ ref[cache[k]].grant \in lost'
                       \/ \E h \in Fibers : LayerOf[h] = k /\ step'[h] \in Renewed
    BY DEF RefUsable
  <2>2. ref[cache[k]].grant \in Grants
    BY <2>1 DEF Shape, CacheLoaded, TypeOK, States
  <2>3. CASE k = l
    BY <1>3, <2>3 DEF Renewed
  <2>4. CASE k # l
    <3>1. usedBy[ref[cache[k]].grant] = k /\ lost \subseteq lost'
      BY <1>1, <2>1, <2>2, <2>4
    <3>2. \A h \in Fibers : LayerOf[h] = k /\ step[h] \in Renewed => step'[h] = step[h]
      BY <2>4
    <3>. QED BY <2>1, <3>1, <3>2 DEF Kept, RefUsable
  <2>. QED BY <2>3, <2>4
<1>. QED BY <1>5, <1>6, <1>7, <1>8, <1>9 DEF Kept

LEMMA KeptBySave == ASSUME TypeOK, Shape, Kept, NEW f \in Fibers, SaveTokenState(f) PROVE Kept'
<1>1. /\ step[f] = "save" /\ Moves(f, "set", using[f])
      /\ UNCHANGED <<issued, usedBy, cache, ref, fresh, lost>>
      /\ stored' = [u \in Users |-> IF u = State(f).user /\ stored[u] # NoToken
                                    THEN fresh[f] ELSE stored[u]]
  BY DEF SaveTokenState, NewState, Goto, Moves, pcoVars, TypeOK
<1>2. /\ step'[f] = "set" /\ \A h \in Fibers : h # f => step'[h] = step[h]
      /\ \A h \in Fibers : using'[h] = using[h]
  BY <1>1, MovedTo
<1>3. \A h \in Fibers : State(h)' = State(h)
  BY <1>1, <1>2 DEF State
<1>4. \A h \in Fibers : step'[h] \in Renewed <=> step[h] \in Renewed
  BY <1>1, <1>2 DEF Renewed
<1>5. /\ fresh[f] # NoToken /\ usedBy[fresh[f]] = None /\ fresh[f] \in Grants
      /\ LayerOf[f] \in Layers /\ State(f).grant \in Grants
  BY <1>1, LayerAssumption, RenewedAlone DEF Kept, FreshHeld, Renewed, Refreshing, TypeOK
<1>6. Issued'
  BY <1>1 DEF Kept, Issued
<1>7. FreshHeld'
  <2>1. ASSUME NEW h \in Fibers, step'[h] = "save"
        PROVE step[h] = "save" /\ \A u \in Users : stored'[u] # fresh[h]
    <3>1. h # f /\ step[h] = "save"
      BY <1>2, <2>1
    <3>2. fresh[h] # fresh[f]
      BY <1>1, <3>1 DEF Kept, FreshHeld, Renewed
    <3>. QED BY <1>1, <3>1, <3>2 DEF Kept, FreshHeld
  <2>2. ASSUME NEW h \in Fibers, step'[h] = "set" PROVE usedBy[fresh[h]] # LayerOf[h]
    <3>1. CASE h = f
      BY <1>5, <3>1, NoneAssumption
    <3>2. CASE h # f
      BY <1>2, <2>2, <3>2 DEF Kept, FreshHeld
    <3>. QED BY <3>1, <3>2
  <2>3. \A h \in Fibers : step'[h] \in Renewed =>
          fresh[h] # NoToken /\ usedBy[State(h).grant] = LayerOf[h]
    BY <1>4 DEF Kept, FreshHeld
  <2>4. \A h, k \in Fibers : h # k /\ step'[h] \in Renewed /\ step'[k] \in Renewed =>
          fresh[h] # fresh[k]
    BY <1>4 DEF Kept, FreshHeld
  <2>5. \A h \in Fibers : step'[h] = "save" =>
          usedBy[fresh[h]] = None /\ \A k \in Fibers : ref[k].grant # fresh[h]
    BY <2>1 DEF Kept, FreshHeld
  <2>. QED BY <1>1, <1>3, <2>1, <2>2, <2>3, <2>4, <2>5 DEF FreshHeld
<1>8. PICK owner \in [Grants -> Users \cup {None}] : OwnedBy(owner)
  BY DEF Kept, Owned
<1>9. owner[fresh[f]] = State(f).user
  BY <1>1, <1>8 DEF OwnedBy, Renewed
<1>10. Owned'
  <2>1. \A u \in Users : stored'[u] # NoToken => owner[stored'[u]] = u
    BY <1>1, <1>8, <1>9 DEF OwnedBy
  <2>2. \A h \in Fibers : step'[h] \in Renewed => owner[fresh[h]] = State(h).user
    BY <1>4, <1>8 DEF OwnedBy
  <2>3. OwnedBy(owner)'
    BY <1>1, <1>3, <1>8, <2>1, <2>2 DEF OwnedBy
  <2>. QED BY <2>3 DEF Owned
<1>11. StoredGrantUsable'
  <2>1. ASSUME NEW v \in Users, stored'[v] # NoToken
        PROVE \/ usedBy[stored'[v]] = None \/ stored'[v] \in lost
              \/ \E h \in Fibers : step'[h] = "save" /\ State(h).grant = stored'[v]
    <3>1. CASE v = State(f).user /\ stored[v] # NoToken
      BY <1>1, <1>5, <3>1
    <3>2. CASE ~ (v = State(f).user /\ stored[v] # NoToken)
      <4>1. stored'[v] = stored[v] /\ v # State(f).user
        BY <1>1, <2>1, <3>2
      <4>2. State(f).grant # stored[v]
        <5>1. owner[State(f).grant] = State(f).user
          BY <1>1, <1>5, <1>8, RenewedAlone DEF OwnedBy, Refreshing, NoToken, Grants
        <5>. QED BY <1>8, <2>1, <4>1, <5>1 DEF OwnedBy
      <4>3. \A h \in Fibers : step[h] = "save" /\ State(h).grant = stored[v] => step'[h] = "save"
        BY <1>2, <4>2
      <4>. QED BY <2>1, <4>1, <4>3 DEF Kept, StoredGrantUsable
    <3>. QED BY <3>1, <3>2
  <2>. QED BY <1>1, <1>3, <2>1 DEF StoredGrantUsable
<1>12. RefUsable'
  BY <1>1, <1>4 DEF Kept, RefUsable
<1>. QED BY <1>6, <1>7, <1>10, <1>11, <1>12 DEF Kept

LEMMA KeptBySetRef == ASSUME TypeOK, Shape, Kept, NEW f \in Fibers, SetRef(f) PROVE Kept'
<1>. DEFINE r == using[f]
<1>1. /\ step[f] = "set" /\ Moves(f, "granted", None)
      /\ ref' = [ref EXCEPT ![r].grant = fresh[f]]
      /\ fresh' = [fresh EXCEPT ![f] = NoToken]
      /\ UNCHANGED <<issued, usedBy, stored, cache, lost>>
  BY DEF SetRef, HandOut, Goto, Moves, pcoVars
<1>2. /\ step'[f] = "granted"
      /\ \A h \in Fibers : h # f => step'[h] = step[h] /\ using'[h] = using[h]
  BY <1>1, MovedTo
<1>3. /\ r \in Fibers /\ r = cache[LayerOf[f]] /\ LayerOf[f] \in Layers /\ LayerOf[r] = LayerOf[f]
      /\ State(f) = ref[r]
  BY <1>1, LayerAssumption, RefHeld DEF HasRef, State
<1>4. /\ ref'[r].grant = fresh[f] /\ ref'[r].user = ref[r].user
      /\ \A k \in Fibers : k # r => ref'[k] = ref[k]
  BY <1>1, <1>3 DEF TypeOK, States
<1>5. fresh'[f] = NoToken /\ \A h \in Fibers : h # f => fresh'[h] = fresh[h]
  BY <1>1 DEF TypeOK
<1>6. /\ fresh[f] # NoToken /\ usedBy[fresh[f]] # LayerOf[f] /\ step[f] \in Renewed
  BY <1>1 DEF Kept, FreshHeld, Renewed
<1>7. ASSUME NEW h \in Fibers, step'[h] \in Renewed
      PROVE /\ h # f /\ step[h] \in Renewed /\ step'[h] = step[h] /\ fresh'[h] = fresh[h]
            /\ State(h)' = State(h) /\ fresh[h] # fresh[f]
  <2>1. h # f /\ step[h] \in Renewed
    BY <1>2, <1>7 DEF Renewed
  <2>2. LayerOf[h] # LayerOf[f] /\ using[h] \in Fibers /\ LayerOf[using[h]] = LayerOf[h]
    <3>1. step[h] \in HasRef /\ step[h] \in Refreshing /\ step[f] \in Refreshing
      BY <1>6, <2>1 DEF Renewed, HasRef, Refreshing
    <3>. QED BY <2>1, <3>1, RefHeld, RenewedAlone
  <2>3. using'[h] = using[h] /\ using[h] # r
    BY <1>2, <1>3, <2>1, <2>2
  <2>4. State(h)' = State(h)
    BY <1>4, <2>2, <2>3 DEF State
  <2>. QED BY <1>2, <1>5, <1>6, <2>1, <2>4 DEF Kept, FreshHeld
<1>8. Issued'
  <2>1. \A k \in Fibers : ref'[k].grant <= issued
    BY <1>4 DEF Kept, Issued
  <2>2. \A k \in Fibers : fresh'[k] <= issued
    <3>1. NoToken <= issued
      BY GrantAssumption DEF TypeOK, NoToken
    <3>. QED BY <1>5, <3>1 DEF Kept, Issued
  <2>. QED BY <1>1, <2>1, <2>2 DEF Kept, Issued
<1>9. FreshHeld'
  <2>1. \A h \in Fibers : step'[h] \in Renewed =>
          fresh'[h] # NoToken /\ usedBy[(State(h).grant)'] = LayerOf[h]
    BY <1>7 DEF Kept, FreshHeld
  <2>2. ASSUME NEW h \in Fibers, step'[h] = "save"
        PROVE /\ usedBy[fresh'[h]] = None
              /\ \A u \in Users : stored[u] # fresh'[h]
              /\ \A k \in Fibers : ref'[k].grant # fresh'[h]
    <3>1. step[h] = "save" /\ fresh'[h] = fresh[h] /\ fresh[h] # fresh[f]
      BY <1>7, <2>2 DEF Renewed
    <3>. QED BY <1>4, <3>1 DEF Kept, FreshHeld
  <2>3. \A h \in Fibers : step'[h] = "set" => usedBy[fresh'[h]] # LayerOf[h]
    BY <1>7 DEF Kept, FreshHeld, Renewed
  <2>4. \A h, k \in Fibers : h # k /\ step'[h] \in Renewed /\ step'[k] \in Renewed =>
          fresh'[h] # fresh'[k]
    BY <1>7 DEF Kept, FreshHeld
  <2>. QED BY <1>1, <2>1, <2>2, <2>3, <2>4 DEF FreshHeld
<1>10. Owned'
  <2>1. PICK owner \in [Grants -> Users \cup {None}] : OwnedBy(owner)
    BY DEF Kept, Owned
  <2>2. \A k \in Fibers : ref'[k].grant # NoToken => owner[ref'[k].grant] = ref'[k].user
    <3>1. owner[fresh[f]] = ref[r].user
      BY <1>3, <1>6, <2>1 DEF OwnedBy
    <3>. QED BY <1>4, <2>1, <3>1 DEF OwnedBy
  <2>3. \A h \in Fibers : step'[h] \in Renewed => owner[fresh'[h]] = (State(h).user)'
    BY <1>7, <2>1 DEF OwnedBy
  <2>4. OwnedBy(owner)'
    BY <1>1, <2>1, <2>2, <2>3 DEF OwnedBy
  <2>. QED BY <2>4 DEF Owned
<1>11. StoredGrantUsable'
  <2>1. ASSUME NEW h \in Fibers, step[h] = "save"
        PROVE step'[h] = "save" /\ (State(h).grant)' = State(h).grant
    <3>1. step'[h] = "save"
      BY <1>1, <1>2, <2>1
    <3>. QED BY <1>7, <3>1 DEF Renewed
  <2>. QED BY <1>1, <2>1 DEF Kept, StoredGrantUsable
<1>12. RefUsable'
  <2>1. SUFFICES ASSUME NEW k \in Layers, cache[k] # None, usedBy[ref'[cache[k]].grant] = k
                 PROVE \/ ref'[cache[k]].grant \in lost
                       \/ \E h \in Fibers : LayerOf[h] = k /\ step'[h] \in Renewed
    BY <1>1 DEF RefUsable
  <2>2. k # LayerOf[f]
    BY <1>3, <1>4, <1>6, <2>1
  <2>3. cache[k] \in Fibers /\ cache[k] # r
    BY <1>3, <2>1, <2>2 DEF Shape, CacheLoaded, TypeOK
  <2>4. \A h \in Fibers : LayerOf[h] = k => step'[h] = step[h]
    BY <1>2, <2>2
  <2>. QED BY <1>4, <2>1, <2>3, <2>4 DEF Kept, RefUsable
<1>. QED BY <1>8, <1>9, <1>10, <1>11, <1>12 DEF Kept

-----------------------------------------------------------------------------
(* The invariant.                                                          *)

LEMMA InvariantInitially == Init => IInv
<1>. SUFFICES ASSUME Init PROVE IInv
  OBVIOUS
<1>1. TypeOK
  BY GrantAssumption DEF Init, TypeOK, States, NoState, Steps
<1>2. Shape
  BY LayerAssumption, NoneAssumption DEF Init, Shape, CacheLoaded, OneRefPerLayer, HoldersHaveRef,
     LoadsAlone, RefreshesAlone, HasRef, Refreshing
<1>3. Issued
  BY DEF Init, Issued, NoState, NoToken
<1>4. FreshHeld /\ RefUsable /\ StoredGrantUsable
  BY DEF Init, FreshHeld, RefUsable, StoredGrantUsable, Renewed
<1>5. Owned
  <2>1. [i \in Grants |-> None] \in [Grants -> Users \cup {None}]
    OBVIOUS
  <2>2. OwnedBy([i \in Grants |-> None])
    BY DEF Init, OwnedBy, NoState, NoToken, Renewed
  <2>. QED BY <2>1, <2>2 DEF Owned
<1>. QED BY <1>1, <1>2, <1>3, <1>4, <1>5 DEF IInv, Kept

LEMMA KeptStep == ASSUME TypeOK, Shape, Kept, [Next]_vars PROVE Kept'
<1>1. ASSUME UNCHANGED <<issued, usedBy, stored, cache, ref, lost>>, NEW f \in Fibers,
             step[f] \notin Renewed, step'[f] \notin Renewed, fresh'[f] \in {fresh[f], NoToken},
             \A h \in Fibers : h # f =>
                step'[h] = step[h] /\ using'[h] = using[h] /\ fresh'[h] = fresh[h]
      PROVE Kept'
  <2>1. \A h \in Fibers : step'[h] \in Renewed => h # f
    BY <1>1
  <2>2. \A h \in Fibers : step[h] \in Renewed => h # f
    BY <1>1
  <2>. QED BY <1>1, <2>1, <2>2, KeptWithoutRenewal
<1>2. ASSUME NEW g \in Grants, Expire(g) PROVE Kept'
  BY <1>2, KeptWithoutRenewal DEF Expire
<1>3. ASSUME NEW f \in Fibers,
             \/ GetValidAccessToken(f) \/ AcquireLoadLock(f) \/ CheckExpiry(f) \/ AcquireRefreshLock(f)
      PROVE Kept'
  <2>1. /\ UNCHANGED <<issued, usedBy, stored, cache, ref, fresh, lost>>
        /\ step[f] \in Steps \ Renewed
    BY <1>3 DEF GetValidAccessToken, AcquireLoadLock, CheckExpiry, AcquireRefreshLock, Waiting,
       pcoVars, Steps, Renewed
  <2>2. \/ using' = using \/ using' = [using EXCEPT ![f] = None]
        \/ using' = [using EXCEPT ![f] = cache[LayerOf[f]]]
    BY <1>3 DEF GetValidAccessToken, AcquireLoadLock, CheckExpiry, AcquireRefreshLock, UseCached, HandOut
  <2>3. \/ step' = [step EXCEPT ![f] = "check"] \/ step' = [step EXCEPT ![f] = "load lock"]
        \/ step' = [step EXCEPT ![f] = "load"] \/ step' = [step EXCEPT ![f] = "refresh lock"]
        \/ step' = [step EXCEPT ![f] = "refresh"] \/ step' = [step EXCEPT ![f] = "granted"]
    BY <1>3 DEF GetValidAccessToken, AcquireLoadLock, CheckExpiry, AcquireRefreshLock, UseCached,
       HandOut, Goto
  <2>4. step'[f] \notin Renewed
    BY <2>3 DEF Renewed, TypeOK
  <2>5. \A h \in Fibers : h # f => step'[h] = step[h] /\ using'[h] = using[h] /\ fresh'[h] = fresh[h]
    BY <2>1, <2>2, <2>3 DEF TypeOK
  <2>. QED BY <1>1, <2>1, <2>4, <2>5
<1>4. ASSUME NEW f \in Fibers, EndInError(f)
      PROVE /\ step'[f] = "idle" /\ fresh'[f] = NoToken
            /\ \A h \in Fibers : h # f =>
                 step'[h] = step[h] /\ using'[h] = using[h] /\ fresh'[h] = fresh[h]
  BY <1>4 DEF EndInError, Goto, TypeOK
<1>5. ASSUME NEW f \in Fibers, LoadFails(f) \/ RefreshRefused(f) PROVE Kept'
  <2>1. /\ EndInError(f) /\ UNCHANGED <<issued, usedBy, stored, cache, ref, lost>>
        /\ step[f] \notin Renewed
    BY <1>5 DEF LoadFails, RefreshRefused, pcoVars, Renewed
  <2>. QED BY <1>1, <1>4, <2>1 DEF Renewed
<1>6. ASSUME NEW f \in Fibers, RefreshToken(f) PROVE Kept'
  <2>1. /\ step[f] = "refresh" /\ Renew(f) /\ UNCHANGED <<stored, cache, ref, using, lost>>
        /\ fresh' = [fresh EXCEPT ![f] = issued + 1] /\ step' = [step EXCEPT ![f] = "save"]
    BY <1>6 DEF RefreshToken, Goto
  <2>2. /\ step'[f] = "save" /\ fresh'[f] = issued + 1
        /\ \A h \in Fibers : h # f => step'[h] = step[h] /\ using'[h] = using[h] /\ fresh'[h] = fresh[h]
    BY <2>1 DEF TypeOK
  <2>. QED BY <2>1, <2>2, KeptByRenewal
<1>7. ASSUME NEW f \in Fibers, Fail(f) PROVE Kept'
  <2>1. EndInError(f) /\ UNCHANGED <<expired, stored, cache, ref>>
    BY <1>7 DEF Fail
  <2>2. CASE step[f] = "refresh" /\ Renew(f) /\ lost' = lost \cup {State(f).grant}
    BY <1>4, <2>1, <2>2, KeptByRenewal
  <2>3. CASE /\ lost' = IF InFlight(f) THEN lost \cup {State(f).grant} ELSE lost
             /\ UNCHANGED <<issued, usedBy>>
    <3>1. lost \subseteq lost' /\ (step[f] \in Renewed => State(f).grant \in lost')
      BY <2>3 DEF InFlight, Renewed
    <3>2. "idle" \notin Renewed
      BY DEF Renewed
    <3>3. \A h \in Fibers : step'[h] \in Renewed => h # f
      BY <1>4, <2>1, <3>2
    <3>4. \A h \in Fibers : step[h] \in Renewed => step'[h] = step[h] \/ State(h).grant \in lost'
      BY <1>4, <2>1, <3>1
    <3>. QED BY <1>4, <2>1, <2>3, <3>1, <3>3, <3>4, KeptWithoutRenewal
  <2>. QED BY <1>7, <2>2, <2>3 DEF Fail
<1>8. ASSUME NEW l \in Layers, Restart(l) PROVE Kept'
  <2>1. /\ UNCHANGED <<issued, usedBy, stored>>
        /\ lost' = lost \cup {State(f).grant : f \in {m \in {k \in Fibers : LayerOf[k] = l} : InFlight(m)}}
        /\ \A k \in Layers : cache'[k] = IF k = l THEN None ELSE cache[k]
    BY <1>8 DEF Restart, pcoVars, TypeOK
  <2>2. \A h \in Fibers :
          /\ LayerOf[h] = l => step'[h] = "idle" /\ fresh'[h] = NoToken /\ ref'[h] = NoState
          /\ LayerOf[h] # l => /\ step'[h] = step[h] /\ using'[h] = using[h]
                               /\ fresh'[h] = fresh[h] /\ ref'[h] = ref[h]
    BY <1>8 DEF Restart
  <2>3. \A h \in Fibers : step[h] \in Renewed => step'[h] = step[h] \/ State(h).grant \in lost'
    BY <2>1, <2>2 DEF InFlight, Renewed
  <2>4. ASSUME NEW h \in Fibers, step'[h] \in Renewed
        PROVE /\ step'[h] = step[h] /\ using'[h] = using[h] /\ fresh'[h] = fresh[h]
              /\ ref'[using[h]] = ref[using[h]]
    <3>1. LayerOf[h] # l
      BY <2>2, <2>4 DEF Renewed
    <3>2. using[h] \in Fibers /\ LayerOf[using[h]] = LayerOf[h]
      BY <2>2, <2>4, <3>1, RefHeld DEF HasRef, Renewed
    <3>. QED BY <2>2, <3>1, <3>2
  <2>5. ASSUME NEW k \in Layers, cache'[k] # None PROVE cache'[k] = cache[k] /\ ref'[cache[k]] = ref[cache[k]]
    <3>1. k # l /\ cache'[k] = cache[k]
      BY <2>1, <2>5
    <3>2. cache[k] \in Fibers /\ LayerOf[cache[k]] = k
      BY <2>5, <3>1 DEF Shape, CacheLoaded, TypeOK
    <3>. QED BY <2>2, <3>1, <3>2
  <2>. QED BY <2>1, <2>2, <2>3, <2>4, <2>5, KeptWithoutRenewal
<1>9. CASE UNCHANGED vars
  BY <1>9, KeptWithoutRenewal DEF vars
<1>. QED
  BY <1>2, <1>3, <1>5, <1>6, <1>7, <1>8, <1>9, KeptByConnect, KeptByLoad, KeptBySave, KeptBySetRef
     DEF Next, FiberStep

(* Whatever the fibers of all the layers do, each failing or restarted at   *)
(* any moment, the invariant keeps holding.                                *)
THEOREM InvariantHolds == Spec => []IInv
<1>1. IInv /\ [Next]_vars => IInv'
  BY TypeStep, ShapeStep, KeptStep DEF IInv, Kept
<1>. QED BY InvariantInitially, <1>1, PTL DEF Spec

(* The state of the token services is well typed. *)
THEOREM TypeCorrect == Spec => []TypeOK
<1>1. IInv => TypeOK
  BY DEF IInv
<1>. QED BY InvariantHolds, <1>1, PTL

(* All the requests of a layer share one Ref, however many ask at once.    *)
THEOREM LayersHaveOneRef == Spec => []OneRefPerLayer
<1>1. IInv => OneRefPerLayer
  BY DEF IInv, Shape
<1>. QED BY InvariantHolds, <1>1, PTL

(* What adapterTokens holds stays usable: a refresh token PCO has taken is *)
(* about to be replaced by the fiber that sent it, or its replacement was  *)
(* lost by a failure.                                                      *)
THEOREM StoredGrantsStayUsable == Spec => []StoredGrantUsable
<1>1. IInv => StoredGrantUsable
  BY DEF IInv, Kept
<1>. QED BY InvariantHolds, <1>1, PTL

(* The second look under the refresh lock suffices: a layer sends no       *)
(* refresh token twice, unless a failure lost what it got for it.          *)
THEOREM NoTokenIsSentTwice == Spec => []NoTokenSentTwice
<1>1. IInv => NoTokenSentTwice
  <2>1. SUFFICES ASSUME IInv, NEW f \in Fibers, step[f] = "refresh",
                        usedBy[State(f).grant] = LayerOf[f]
                 PROVE State(f).grant \in lost
    BY DEF NoTokenSentTwice
  <2>2. /\ using[f] \in Fibers /\ using[f] = cache[LayerOf[f]] /\ State(f) = ref[using[f]]
        /\ \A h \in Fibers : h # f /\ step[h] \in Refreshing => LayerOf[h] # LayerOf[f]
    BY <2>1, RenewedAlone DEF IInv, Refreshing
  <2>3. \A h \in Fibers : step[h] \in Renewed => LayerOf[h] # LayerOf[f]
    BY <2>1, <2>2 DEF Renewed, Refreshing
  <2>. QED BY <2>1, <2>2, <2>3, LayerAssumption, NoneAssumption DEF IInv, Kept, RefUsable
<1>. QED BY InvariantHolds, <1>1, PTL
=============================================================================
