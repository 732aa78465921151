------------------------- MODULE TokenServiceProofs -------------------------
(* Theorems about TokenService, for any requests, users, validities and     *)
(* bounds.                                                                  *)
EXTENDS TokenService, TLAPS

-----------------------------------------------------------------------------
(* The inductive invariant.                                                *)

\* Where r is says what it holds, and what it holds is its user's.
Shape(r) ==
    /\ at[r] = "idle" <=> user[r] = None
    /\ presented[r] # None <=> (at[r] # "idle" /\ call[r] = "refresh")
    /\ call[r] = "grant" => at[r] \notin {"read", "details", "getOld"}
    /\ call[r] = "refresh" => at[r] \notin {"get", "reuse"}
    /\ at[r] \in {"reuse", "removeAccess"} => old[r] # None
    /\ at[r] = "removeRefresh" /\ call[r] = "grant" => old[r] # None
    /\ at[r] \in {"idle", "get", "read", "details", "getOld"} => old[r] = None
    /\ at[r] \in {"storeAccess", "storeRefresh"} <=> made[r] # None
    /\ old[r] # None => old[r].user = user[r] /\ old[r].refresh.user = user[r]
    /\ made[r] # None => made[r].user = user[r] /\ made[r].refresh.user = user[r]
    /\ presented[r] # None => presented[r].user = user[r]

ShapeInv ==
    /\ \A r \in Requests : Shape(r)
    /\ \A u \in Users : current[u] # None => current[u].user = u /\ current[u].refresh.user = u

\* While requests do not overlap, r knows what the store holds.
Knows(r) ==
    /\ at[r] \in {"reuse", "removeAccess"} => current[user[r]] = old[r]
    /\ at[r] = "removeAccess" /\ call[r] = "grant" => IsExpired(old[r])
    /\ at[r] \in {"removeRefresh", "make", "storeAccess"} => current[user[r]] = None
    /\ at[r] = "storeRefresh" => current[user[r]] = made[r]
    /\ at[r] = "details" => presented[r] \in refresh

Refreshable(u) ==
    \/ current[u] = None
    \/ current[u].refresh \in refresh
    \/ \E r \in Requests : at[r] = "storeRefresh" /\ user[r] = u

SoloInv ==
    /\ ~overlapped =>
          /\ \A r, q \in Requests : Busy(r) /\ Busy(q) => r = q
          /\ \A r \in Requests : Knows(r)
          /\ NoStrayAccess
    /\ ~overlapped /\ ~broken => \A u \in Users : Refreshable(u)
    /\ NothingNeedsOverlap

\* A UUID yet to come is in no refresh token.
SerialInv ==
    enhancer = "none" =>
        /\ \A t \in used \union refresh : t.serial < serial
        /\ \A u \in Users : current[u] # None => current[u].refresh.serial < serial
        /\ \A r \in Requests :
              /\ presented[r] # None => presented[r].serial < serial
              /\ old[r] # None => old[r].refresh.serial < serial
              /\ made[r] # None => made[r].refresh.serial < serial

\* What r holds is no used token, and what a refresh is about to store is known
\* to nobody else.
Unspent(r) ==
    /\ made[r] # None => made[r].refresh \notin used
    /\ call[r] = "grant" /\ old[r] # None => old[r].refresh \notin used
    /\ call[r] = "refresh" /\ made[r] # None =>
          /\ made[r].refresh \notin refresh
          /\ \A q \in Requests : presented[q] # made[r].refresh
          /\ \A q \in Requests \ {r} : made[q] # None => made[q].refresh # made[r].refresh
    /\ call[r] = "refresh" /\ at[r] = "removeAccess" =>
          \/ current[user[r]] \in {None, old[r]}
          \/ current[user[r]].refresh # presented[r]
    /\ call[r] = "refresh" /\ at[r] = "removeRefresh" =>
          (current[user[r]] # None => current[user[r]].refresh # presented[r])

UsedInv ==
    /\ ~grantRaced =>
          \A r, q \in Requests : Busy(r) /\ Busy(q) /\ call[r] = "grant" => r = q
    /\ ~grantRaced /\ enhancer = "none" =>
          /\ used \cap refresh = {}
          /\ \A u \in Users : current[u] # None => current[u].refresh \notin used
          /\ \A r \in Requests : Unspent(r)

TokenInv == TypeOK /\ ShapeInv /\ SoloInv /\ SerialInv /\ UsedInv

-----------------------------------------------------------------------------
LEMMA TokenInit == Init => TokenInv
<1> SUFFICES ASSUME Init PROVE TokenInv
  OBVIOUS
<1> USE DEF Init
<1>1. TypeOK
  BY DEF TypeOK
<1>2. ShapeInv
  BY DEF ShapeInv, Shape
<1>3. SoloInv
  BY DEF SoloInv, Knows, Refreshable, NoStrayAccess, NothingNeedsOverlap, Busy
<1>4. SerialInv
  BY DEF SerialInv
<1>5. UsedInv
  BY DEF UsedInv, Unspent, Busy
<1> QED
  BY <1>1, <1>2, <1>3, <1>4, <1>5 DEF TokenInv

-----------------------------------------------------------------------------
(* Types.                                                                  *)

LEMMA MadeType ==
    ASSUME TypeOK, ShapeInv, NEW r \in Requests, at[r] = "make"
    PROVE  /\ user[r] \in Users
           /\ RefreshToMake(r) \in Refreshes
           /\ RefreshToMake(r).user = user[r]
           /\ [user |-> user[r], expires |-> now + AccessValidity,
               serial |-> UniqueAccess(r), refresh |-> RefreshToMake(r)] \in Accesses
<1>1. user[r] \in Users
  BY DEF TypeOK, ShapeInv, Shape
<1>2. now + AccessValidity \in Nat /\ now + RefreshValidity \in Nat /\ Unique \in Nat /\ UniqueAccess(r) \in Nat
  BY TimesAreNat DEF TypeOK, Unique, UniqueAccess
<1>3. NewRefresh(r) \in Refreshes /\ NewRefresh(r).user = user[r]
  BY <1>1, <1>2 DEF NewRefresh, Refreshes
<1>4. old[r] # None => old[r].refresh \in Refreshes /\ old[r].refresh.user = user[r]
  BY DEF TypeOK, ShapeInv, Shape, Accesses
<1>5. RefreshToMake(r) \in Refreshes /\ RefreshToMake(r).user = user[r]
  BY <1>3, <1>4 DEF RefreshToMake, KeepsRefresh
<1> QED
  BY <1>1, <1>2, <1>5 DEF Accesses

LEMMA TypeStep == TypeOK /\ ShapeInv /\ Next => TypeOK'
<1> SUFFICES ASSUME TypeOK, ShapeInv, Next PROVE TypeOK'
  OBVIOUS
<1>1. CASE Tick
  BY <1>1 DEF Tick, TypeOK, locals, store
<1>2. ASSUME NEW r \in Requests, NEW u \in Users, Grant(r, u) PROVE TypeOK'
  BY <1>2 DEF Grant, Enter, TypeOK, store, Steps
<1>3. ASSUME NEW r \in Requests, NEW t \in refresh \union used, Refresh(r, t) PROVE TypeOK'
  <2>1. t \in Refreshes /\ t.user \in Users
    BY DEF TypeOK, Refreshes
  <2> QED
    BY <1>3, <2>1 DEF Refresh, Enter, TypeOK, store, Steps
<1>4. ASSUME NEW r \in Requests, Refuse(r) PROVE TypeOK'
  BY <1>4 DEF Refuse, TypeOK, locals, store
<1>5. ASSUME NEW r \in Requests, Break(r) PROVE TypeOK'
  BY <1>5 DEF Break, Leave, TypeOK, store
<1>6. ASSUME NEW r \in Requests, Step(r) PROVE TypeOK'
  <2>1. Busy(r) => user[r] \in Users
    BY DEF TypeOK, ShapeInv, Shape, Busy
  <2>2. CASE GetExisting(r) \/ GetOld(r)
    BY <2>1, <2>2 DEF GetExisting, GetOld, GoOn, TypeOK, store, Busy, Steps
  <2>3. CASE Reuse(r)
    <3>1. old[r] \in Accesses
      BY <2>3 DEF Reuse, TypeOK, ShapeInv, Shape
    <3> QED
      BY <2>3, <3>1 DEF Reuse, Leave, TypeOK
  <2>4. CASE ReadRefresh(r) \/ ReadDetails(r)
    BY <2>4 DEF ReadRefresh, ReadDetails, GoOn, Leave, TypeOK, store, Steps
  <2>5. CASE RemoveAccess(r)
    BY <2>5 DEF RemoveAccess, GoOn, TypeOK, Steps
  <2>6. CASE RemoveRefresh(r)
    <3>1. call[r] = "refresh" => presented[r] \in Refreshes
      BY <2>6 DEF RemoveRefresh, TypeOK, ShapeInv, Shape
    <3> QED
      BY <2>6, <3>1 DEF RemoveRefresh, GoOn, TypeOK, Steps
  <2>7. CASE Make(r)
    BY <2>7, MadeType DEF Make, GoOn, TypeOK, store, Steps
  <2>8. CASE StoreAccess(r)
    <3>1. made[r] \in Accesses
      BY <2>8 DEF StoreAccess, TypeOK, ShapeInv, Shape
    <3> QED
      BY <2>8, <3>1 DEF StoreAccess, GoOn, TypeOK, Steps
  <2>9. CASE StoreRefresh(r)
    <3>1. made[r].refresh \in Refreshes
      BY <2>9 DEF StoreRefresh, TypeOK, ShapeInv, Shape, Accesses
    <3> QED
      BY <2>9, <3>1 DEF StoreRefresh, Leave, TypeOK
  <2> QED
    BY <1>6, <2>2, <2>3, <2>4, <2>5, <2>6, <2>7, <2>8, <2>9 DEF Step
<1> QED
  BY <1>1, <1>2, <1>3, <1>4, <1>5, <1>6 DEF Next

-----------------------------------------------------------------------------
(* Shape.                                                                  *)

\* A request moves alone: q's locals stay as they are.
Stays(q) ==
    /\ at'[q] = at[q] /\ call'[q] = call[q] /\ user'[q] = user[q]
    /\ presented'[q] = presented[q] /\ old'[q] = old[q] /\ made'[q] = made[q]

\* r makes some step of its own.
Moves(r) ==
    \/ \E u \in Users : Grant(r, u)
    \/ \E t \in refresh \union used : Refresh(r, t)
    \/ Refuse(r)
    \/ Break(r)
    \/ Step(r)

LEMMA OthersStay ==
    ASSUME TypeOK, NEW r \in Requests, Moves(r)
    PROVE  \A q \in Requests \ {r} : Stays(q)
<1> TAKE q \in Requests \ {r}
<1>1. CASE (\E u \in Users : Grant(r, u)) \/ (\E t \in refresh \union used : Refresh(r, t))
  BY <1>1 DEF Grant, Refresh, Enter, Stays, TypeOK
<1>2. CASE Refuse(r) \/ Break(r)
  BY <1>2 DEF Refuse, Break, Leave, Stays, TypeOK, locals
<1>3. CASE GetExisting(r) \/ Reuse(r) \/ ReadRefresh(r) \/ ReadDetails(r) \/ GetOld(r)
  BY <1>3 DEF GetExisting, Reuse, ReadRefresh, ReadDetails, GetOld, GoOn, Leave, Stays, TypeOK
<1>4. CASE RemoveAccess(r) \/ RemoveRefresh(r) \/ Make(r) \/ StoreAccess(r) \/ StoreRefresh(r)
  BY <1>4 DEF RemoveAccess, RemoveRefresh, Make, StoreAccess, StoreRefresh, GoOn, Leave,
              Stays, TypeOK
<1> QED
  BY <1>1, <1>2, <1>3, <1>4 DEF Moves, Step

LEMMA ShapeStays ==
    ASSUME NEW q \in Requests, Shape(q), Stays(q) PROVE Shape(q)'
BY DEF Shape, Stays

LEMMA ShapeMoves ==
    ASSUME TypeOK, ShapeInv, NEW r \in Requests, Moves(r) PROVE Shape(r)'
<1>1. Shape(r)
  BY DEF ShapeInv
<1>2. \A u \in Users : current[u] # None => current[u].user = u /\ current[u].refresh.user = u
  BY DEF ShapeInv
<1>3. user[r] # None => user[r] \in Users
  BY DEF TypeOK
<1>4. CASE \E u \in Users : Grant(r, u)
  BY <1>1, <1>4, NoneIsNoToken DEF Grant, Enter, Busy, Shape, TypeOK
<1>5. CASE \E t \in refresh \union used : Refresh(r, t)
  <2>1. PICK t \in refresh \union used : Refresh(r, t)
    BY <1>5
  <2>2. t \in Refreshes /\ t # None /\ t.user \in Users /\ t.user # None
    BY NoneIsNoToken DEF TypeOK, Refreshes
  <2> QED
    BY <1>1, <2>1, <2>2 DEF Refresh, Enter, Busy, Shape, TypeOK
<1>6. CASE Refuse(r)
  BY <1>1, <1>6 DEF Refuse, Shape, locals
<1>7. ASSUME NEW a, Leave(r, a) PROVE Shape(r)'
  BY <1>7, <1>1 DEF Leave, Shape, TypeOK
<1>8. CASE Break(r) \/ Reuse(r) \/ StoreRefresh(r)
  BY <1>7, <1>8 DEF Break, Reuse, StoreRefresh
<1>9. CASE GetExisting(r) \/ GetOld(r)
  BY <1>1, <1>2, <1>3, <1>9 DEF GetExisting, GetOld, GoOn, Shape, TypeOK
<1>10. CASE ReadRefresh(r) \/ ReadDetails(r)
  BY <1>1, <1>7, <1>10 DEF ReadRefresh, ReadDetails, GoOn, Shape, TypeOK
<1>11. CASE RemoveAccess(r) \/ RemoveRefresh(r)
  BY <1>1, <1>11 DEF RemoveAccess, RemoveRefresh, GoOn, Shape, TypeOK
<1>12. CASE Make(r)
  <2> DEFINE m == [user |-> user[r], expires |-> now + AccessValidity,
                   serial |-> UniqueAccess(r), refresh |-> RefreshToMake(r)]
  <2>1. m \in Accesses /\ m # None /\ m.user = user[r] /\ m.refresh.user = user[r]
    BY <1>12, MadeType, NoneIsNoToken DEF Make
  <2>2. made'[r] = m
    BY <1>12 DEF Make, TypeOK
  <2> HIDE DEF m
  <2> QED
    BY <1>1, <1>12, <2>1, <2>2 DEF Make, GoOn, Shape, TypeOK
<1>13. CASE StoreAccess(r)
  BY <1>1, <1>13 DEF StoreAccess, GoOn, Shape, TypeOK
<1> QED
  BY <1>4, <1>5, <1>6, <1>8, <1>9, <1>10, <1>11, <1>12, <1>13 DEF Moves, Step

\* How a move changes the store.
LEMMA StoreMoves ==
    ASSUME TypeOK, ShapeInv, NEW r \in Requests, Moves(r)
    PROVE  \/ UNCHANGED current
           \/ /\ at[r] = "reuse" /\ current' = [current EXCEPT ![user[r]] = old[r]]
           \/ /\ at[r] = "removeAccess"
              /\ current' = [current EXCEPT ![user[r]] = IF @ = old[r] THEN None ELSE @]
           \/ /\ at[r] = "storeAccess" /\ current' = [current EXCEPT ![user[r]] = made[r]]
<1>1. CASE (\E u \in Users : Grant(r, u)) \/ (\E t \in refresh \union used : Refresh(r, t))
  BY <1>1 DEF Grant, Refresh, Enter, store
<1>2. CASE Refuse(r) \/ Break(r)
  BY <1>2 DEF Refuse, Break, store
<1>3. CASE Step(r)
  BY <1>3 DEF Step, GetExisting, Reuse, ReadRefresh, ReadDetails, GetOld, RemoveAccess,
              RemoveRefresh, Make, StoreAccess, StoreRefresh, store
<1> QED
  BY <1>1, <1>2, <1>3 DEF Moves

LEMMA ShapeStep == TypeOK /\ ShapeInv /\ Next => ShapeInv'
<1> SUFFICES ASSUME TypeOK, ShapeInv, Next PROVE ShapeInv'
  OBVIOUS
<1>1. CASE Tick
  BY <1>1 DEF Tick, ShapeInv, Shape, locals, store
<1>2. ASSUME NEW r \in Requests, Moves(r) PROVE ShapeInv'
  <2>1. \A q \in Requests : Shape(q)'
    BY <1>2, OthersStay, ShapeStays, ShapeMoves DEF ShapeInv
  <2>2. ASSUME NEW u \in Users, current'[u] # None
        PROVE  current'[u].user = u /\ current'[u].refresh.user = u
    BY <1>2, <2>2, StoreMoves DEF ShapeInv, Shape, TypeOK
  <2> QED
    BY <2>1, <2>2 DEF ShapeInv
<1> QED
  BY <1>1, <1>2 DEF Next, Moves

-----------------------------------------------------------------------------
(* Requests that do not overlap.                                           *)

\* A request that moves, and is not just refused, is the only busy one.
LEMMA Alone ==
    ASSUME TypeOK, SoloInv, NEW r \in Requests, Moves(r), ~Refuse(r), ~overlapped'
    PROVE  /\ ~overlapped
           /\ \A q \in Requests \ {r} : at[q] = "idle" /\ at'[q] = "idle"
<1>1. CASE (\E u \in Users : Grant(r, u)) \/ (\E t \in refresh \union used : Refresh(r, t))
  <2>1. ~overlapped /\ \A q \in Requests : ~Busy(q)
    BY <1>1 DEF Grant, Refresh, Enter
  <2> QED
    BY <2>1, OthersStay DEF Busy, Stays
<1>2. CASE Break(r) \/ Step(r)
  <2>1. Busy(r)
    BY <1>2 DEF Break, Step, GetExisting, Reuse, ReadRefresh, ReadDetails, GetOld, RemoveAccess,
                RemoveRefresh, Make, StoreAccess, StoreRefresh, Busy
  <2>2. CASE Break(r)
    BY <2>1, <2>2, OthersStay DEF Break, Leave, SoloInv, Busy, Stays
  <2>3. CASE Step(r)
    <3>1. ~overlapped
      BY <2>3 DEF Step, GetExisting, Reuse, ReadRefresh, ReadDetails, GetOld, RemoveAccess,
                  RemoveRefresh, Make, StoreAccess, StoreRefresh, GoOn, Leave
    <3> QED
      BY <2>1, <3>1, OthersStay DEF SoloInv, Busy, Stays
  <2> QED
    BY <1>2, <2>2, <2>3
<1> QED
  BY <1>1, <1>2 DEF Moves

\* What r knows after a step that it made alone.
LEMMA KnowsMoves ==
    ASSUME TypeOK, ShapeInv, NEW r \in Requests, Moves(r), Knows(r)
    PROVE  Knows(r)'
<1>1. user[r] # None => user[r] \in Users
  BY DEF TypeOK
<1>2. Shape(r)
  BY DEF ShapeInv
<1>3. CASE \E u \in Users : Grant(r, u)
  BY <1>3 DEF Grant, Enter, Knows, TypeOK
<1>4. CASE \E t \in refresh \union used : Refresh(r, t)
  BY <1>4 DEF Refresh, Enter, Knows, TypeOK
<1>5. CASE Refuse(r)
  BY <1>5 DEF Refuse, Knows, locals, store, IsExpired
<1>6. ASSUME NEW a, Leave(r, a) PROVE Knows(r)'
  BY <1>6 DEF Leave, Knows, TypeOK
<1>7. CASE Break(r) \/ Reuse(r) \/ StoreRefresh(r)
  BY <1>6, <1>7 DEF Break, Reuse, StoreRefresh
<1>8. CASE GetExisting(r) \/ GetOld(r)
  BY <1>1, <1>2, <1>8 DEF GetExisting, GetOld, GoOn, Knows, Shape, TypeOK, store, IsExpired
<1>9. CASE ReadRefresh(r) \/ ReadDetails(r)
  BY <1>6, <1>9 DEF ReadRefresh, ReadDetails, GoOn, Knows, TypeOK, store
<1>10. CASE RemoveAccess(r)
  BY <1>1, <1>2, <1>10 DEF RemoveAccess, GoOn, Knows, Shape, TypeOK
<1>11. CASE RemoveRefresh(r)
  BY <1>11 DEF RemoveRefresh, GoOn, Knows, TypeOK
<1>12. CASE Make(r)
  BY <1>12 DEF Make, GoOn, Knows, TypeOK, store
<1>13. CASE StoreAccess(r)
  BY <1>1, <1>2, <1>13 DEF StoreAccess, GoOn, Knows, Shape, TypeOK
<1> QED
  BY <1>3, <1>4, <1>5, <1>7, <1>8, <1>9, <1>10, <1>11, <1>12, <1>13 DEF Moves, Step

LEMMA StrayMoves ==
    ASSUME TypeOK, ShapeInv, NEW r \in Requests, Moves(r), Knows(r),
           \A t \in access : current[t.user] = t,
           NEW t \in access'
    PROVE  current'[t.user] = t
<1>1. Busy(r) => user[r] \in Users
  BY DEF TypeOK, ShapeInv, Shape, Busy
<1>2. Shape(r)
  BY DEF ShapeInv
<1>3. t \in access => t.user \in Users
  BY DEF TypeOK, Accesses
<1>4. CASE (\E u \in Users : Grant(r, u)) \/ (\E s \in refresh \union used : Refresh(r, s))
  BY <1>4 DEF Grant, Refresh, Enter, store
<1>5. CASE Refuse(r) \/ Break(r)
  BY <1>5 DEF Refuse, Break, store
<1>6. CASE GetExisting(r) \/ ReadRefresh(r) \/ ReadDetails(r) \/ GetOld(r) \/ Make(r)
  BY <1>6 DEF GetExisting, ReadRefresh, ReadDetails, GetOld, Make, store
<1>7. CASE RemoveRefresh(r) \/ StoreRefresh(r)
  BY <1>7 DEF RemoveRefresh, StoreRefresh
<1>8. CASE Reuse(r)
  BY <1>1, <1>2, <1>3, <1>8 DEF Reuse, Knows, Shape, TypeOK, Busy
<1>9. CASE RemoveAccess(r)
  BY <1>1, <1>2, <1>3, <1>9 DEF RemoveAccess, Knows, Shape, TypeOK, Busy
<1>10. CASE StoreAccess(r)
  BY <1>1, <1>2, <1>3, <1>10, NoneIsNoToken DEF StoreAccess, Knows, Shape, TypeOK, Busy
<1> QED
  BY <1>4, <1>5, <1>6, <1>7, <1>8, <1>9, <1>10 DEF Moves, Step

LEMMA RefreshableMoves ==
    ASSUME TypeOK, ShapeInv, NEW r \in Requests, Moves(r), Knows(r), ~broken',
           \A q \in Requests \ {r} : at[q] = "idle" /\ at'[q] = "idle",
           NEW u \in Users, Refreshable(u)
    PROVE  Refreshable(u)'
<1>1. Busy(r) => user[r] \in Users
  BY DEF TypeOK, ShapeInv, Shape, Busy
<1>2. Shape(r)
  BY DEF ShapeInv
<1>3. CASE (\E v \in Users : Grant(r, v)) \/ (\E s \in refresh \union used : Refresh(r, s))
  BY <1>3 DEF Grant, Refresh, Enter, store, Refreshable, Busy
<1>4. CASE Refuse(r)
  BY <1>4 DEF Refuse, store, locals, Refreshable
<1>5. ~Break(r)
  BY DEF Break
<1>6. CASE GetExisting(r) \/ ReadRefresh(r) \/ ReadDetails(r) \/ GetOld(r) \/ Make(r)
  <2>1. Refreshable(u) /\ at[r] # "storeRefresh"
    BY <1>6 DEF GetExisting, ReadRefresh, ReadDetails, GetOld, Make
  <2>2. UNCHANGED <<current, refresh>>
    BY <1>6 DEF GetExisting, ReadRefresh, ReadDetails, GetOld, Make, store
  <2> QED
    BY <2>1, <2>2 DEF Refreshable
<1>7. CASE Reuse(r)
  BY <1>1, <1>7 DEF Reuse, Knows, Refreshable, TypeOK
<1>8. CASE RemoveAccess(r)
  BY <1>1, <1>8 DEF RemoveAccess, Knows, Refreshable, TypeOK
<1>9. CASE RemoveRefresh(r)
  <2>1. current[u] # None => u # user[r] /\ current[u].refresh.user = u
    BY <1>9 DEF RemoveRefresh, Knows, ShapeInv
  <2>2. (IF call[r] = "refresh" THEN presented[r] ELSE old[r].refresh).user = user[r]
    BY <1>2, <1>9 DEF RemoveRefresh, Shape, TypeOK
  <2> QED
    BY <1>9, <2>1, <2>2 DEF RemoveRefresh, Refreshable
<1>10. CASE StoreAccess(r)
  <2>1. CASE u = user[r]
    BY <1>10, <2>1 DEF StoreAccess, GoOn, Refreshable, TypeOK
  <2>2. CASE u # user[r]
    BY <1>10, <2>2 DEF StoreAccess, Refreshable, TypeOK
  <2> QED
    BY <2>1, <2>2
<1>11. CASE StoreRefresh(r)
  <2>1. current' = current /\ refresh \subseteq refresh' /\ made[r].refresh \in refresh'
    BY <1>11 DEF StoreRefresh
  <2>2. CASE u = user[r]
    BY <1>11, <2>1, <2>2 DEF StoreRefresh, Knows, Refreshable
  <2>3. CASE u # user[r]
    BY <2>1, <2>3 DEF Refreshable
  <2> QED
    BY <2>2, <2>3
<1> QED
  BY <1>3, <1>4, <1>5, <1>6, <1>7, <1>8, <1>9, <1>10, <1>11 DEF Moves, Step

LEMMA NothingMoves ==
    ASSUME TypeOK, SoloInv, NEW r \in Requests, Moves(r)
    PROVE  NothingNeedsOverlap'
<1> USE DEF NothingNeedsOverlap
<1>1. \A q \in Requests : reply[q] = "nothing" => overlapped
  BY DEF SoloInv
<1>2. CASE (\E u \in Users : Grant(r, u)) \/ (\E t \in refresh \union used : Refresh(r, t))
  BY <1>1, <1>2 DEF Grant, Refresh, Enter, TypeOK
<1>3. CASE Refuse(r) \/ Break(r)
  BY <1>1, <1>3 DEF Refuse, Break, Leave, TypeOK
<1>4. CASE GetExisting(r) \/ GetOld(r) \/ RemoveAccess(r) \/ RemoveRefresh(r) \/ Make(r)
           \/ StoreAccess(r)
  BY <1>1, <1>4 DEF GetExisting, GetOld, RemoveAccess, RemoveRefresh, Make, StoreAccess, GoOn
<1>5. CASE Reuse(r) \/ ReadRefresh(r) \/ StoreRefresh(r)
  BY <1>1, <1>5 DEF Reuse, ReadRefresh, StoreRefresh, GoOn, Leave, TypeOK
<1>6. CASE ReadDetails(r)
  <2>1. overlapped \/ presented[r] \in refresh
    BY <1>6 DEF ReadDetails, SoloInv, Knows
  <2> QED
    BY <1>1, <1>6, <2>1 DEF ReadDetails, GoOn, Leave, TypeOK
<1> QED
  BY <1>2, <1>3, <1>4, <1>5, <1>6 DEF Moves, Step

\* What has happened is not forgotten.
LEMMA HistoryMoves ==
    ASSUME TypeOK, NEW r \in Requests, Moves(r)
    PROVE  (overlapped => overlapped') /\ (broken => broken') /\ (grantRaced => grantRaced')
<1>1. CASE (\E u \in Users : Grant(r, u)) \/ (\E t \in refresh \union used : Refresh(r, t))
  BY <1>1 DEF Grant, Refresh, Enter, TypeOK
<1>2. CASE Refuse(r) \/ Break(r)
  BY <1>2 DEF Refuse, Break, Leave
<1>3. CASE Step(r)
  BY <1>3 DEF Step, GetExisting, Reuse, ReadRefresh, ReadDetails, GetOld, RemoveAccess,
              RemoveRefresh, Make, StoreAccess, StoreRefresh, GoOn, Leave
<1> QED
  BY <1>1, <1>2, <1>3 DEF Moves

LEMMA SoloMoves ==
    ASSUME TypeOK, ShapeInv, SoloInv, NEW r \in Requests, Moves(r), ~Refuse(r)
    PROVE  SoloInv'
<1>1. NothingNeedsOverlap'
  BY NothingMoves
<1>2. ASSUME ~overlapped'
      PROVE  /\ \A p, q \in Requests : Busy(p)' /\ Busy(q)' => p = q
             /\ \A q \in Requests : Knows(q)'
             /\ NoStrayAccess'
             /\ ~broken' => \A u \in Users : Refreshable(u)'
  <2>1. /\ ~overlapped
        /\ \A q \in Requests \ {r} : at[q] = "idle" /\ at'[q] = "idle"
    BY <1>2, Alone
  <2>2. /\ Knows(r)
        /\ \A t \in access : current[t.user] = t
        /\ ~broken => \A u \in Users : Refreshable(u)
    BY <2>1 DEF SoloInv, NoStrayAccess
  <2>3. \A p, q \in Requests : Busy(p)' /\ Busy(q)' => p = q
    BY <2>1 DEF Busy
  <2>4. \A q \in Requests : Knows(q)'
    <3>1. \A q \in Requests \ {r} : Knows(q)'
      BY <2>1 DEF Knows
    <3> QED
      BY <3>1, <2>2, KnowsMoves
  <2>5. NoStrayAccess'
    BY <2>2, StrayMoves DEF NoStrayAccess
  <2>6. ASSUME ~broken', NEW u \in Users PROVE Refreshable(u)'
    BY <2>1, <2>2, <2>6, HistoryMoves, RefreshableMoves
  <2> QED
    BY <2>3, <2>4, <2>5, <2>6
<1> QED
  BY <1>1, <1>2 DEF SoloInv

LEMMA SoloStep == TypeOK /\ ShapeInv /\ SoloInv /\ Next => SoloInv'
<1> SUFFICES ASSUME TypeOK, ShapeInv, SoloInv, Next PROVE SoloInv'
  OBVIOUS
<1>1. CASE Tick
  <2>1. /\ UNCHANGED <<at, reply, access, current, refresh, overlapped, broken>>
        /\ UNCHANGED <<call, user, presented, old, made>>
        /\ now' = now + 1
    BY <1>1 DEF Tick, locals, store
  <2>2. \A r \in Requests : Knows(r) => Knows(r)'
    <3> TAKE r \in Requests
    <3>1. at[r] = "removeAccess" => old[r].expires \in Nat
      BY DEF TypeOK, ShapeInv, Shape, Accesses
    <3> QED
      BY <2>1, <3>1 DEF Knows, IsExpired, TypeOK
  <2> QED
    BY <2>1, <2>2 DEF SoloInv, Busy, NoStrayAccess, Refreshable, NothingNeedsOverlap
<1>2. ASSUME NEW r \in Requests, Refuse(r) PROVE SoloInv'
  <2>1. UNCHANGED <<now, at, locals, store, overlapped, broken>>
    BY <1>2 DEF Refuse
  <2>2. NothingNeedsOverlap'
    BY <1>2, NothingMoves DEF Moves
  <2> QED
    BY <2>1, <2>2 DEF SoloInv, Busy, Knows, IsExpired, NoStrayAccess, Refreshable, locals, store
<1>3. ASSUME NEW r \in Requests, Moves(r), ~Refuse(r) PROVE SoloInv'
  BY <1>3, SoloMoves
<1> QED
  BY <1>1, <1>2, <1>3 DEF Next, Moves

-----------------------------------------------------------------------------
(* UUIDs, and tokens that were used.                                       *)

Removes(r) ==
    /\ at[r] = "removeRefresh" /\ call[r] = "refresh"
    /\ made'[r] = made[r]
    /\ used' = used \union {presented[r]} /\ presented[r] \notin refresh'
    /\ refresh' \subseteq refresh /\ current' = current

Stores(r) ==
    /\ at[r] = "storeRefresh" /\ made'[r] = None
    /\ used' = used /\ refresh' = refresh \union {made[r].refresh} /\ current' = current

Makes(r) ==
    /\ at[r] = "make" /\ at'[r] = "storeAccess" /\ call'[r] = call[r]
    /\ made'[r] # None /\ made'[r].refresh = RefreshToMake(r)
    /\ serial' = serial + 1
    /\ used' = used /\ refresh' = refresh /\ current' = current

\* The steps that use, store or make a token.
Adds(r) == Removes(r) \/ Stores(r) \/ Makes(r)

\* What a move of r does to tokens.
LEMMA Effects ==
    ASSUME TypeOK, ShapeInv, NEW r \in Requests, Moves(r)
    PROVE  /\ enhancer' = enhancer
           /\ serial' \in {serial, serial + 1}
           /\ \/ Adds(r)
              \/ /\ used' = used /\ refresh' \subseteq refresh
                 /\ made'[r] \in {made[r], None}
           /\ presented'[r] \in {presented[r], None} \union refresh \union used
           /\ \/ old'[r] \in {old[r], None}
              \/ old'[r] = current[user[r]] /\ at[r] \in {"get", "getOld"} /\ current' = current
           /\ call'[r] # call[r] => old'[r] = None /\ made'[r] = None /\ at'[r] \in {"get", "read"}
<1>1. Shape(r) /\ Shape(r)'
  BY ShapeMoves DEF ShapeInv
<1>2. CASE (\E u \in Users : Grant(r, u)) \/ (\E t \in refresh \union used : Refresh(r, t))
  BY <1>1, <1>2 DEF Grant, Refresh, Enter, Busy, Shape, store, TypeOK
<1>3. CASE Refuse(r)
  BY <1>3 DEF Refuse, locals, store
<1>4. CASE Break(r)
  BY <1>4 DEF Break, Leave, store, TypeOK
<1>5. CASE GetExisting(r) \/ GetOld(r)
  BY <1>5 DEF GetExisting, GetOld, GoOn, store, TypeOK
<1>6. CASE ReadRefresh(r) \/ ReadDetails(r)
  BY <1>6 DEF ReadRefresh, ReadDetails, GoOn, Leave, store, TypeOK
<1>7. CASE Reuse(r) \/ RemoveAccess(r) \/ StoreAccess(r)
  BY <1>7 DEF Reuse, RemoveAccess, StoreAccess, GoOn, Leave, TypeOK
<1>8. CASE RemoveRefresh(r)
  BY <1>8 DEF RemoveRefresh, GoOn, Adds, Removes, TypeOK
<1>9. CASE Make(r)
  <2> DEFINE m == [user |-> user[r], expires |-> now + AccessValidity,
                   serial |-> UniqueAccess(r), refresh |-> RefreshToMake(r)]
  <2>1. m # None /\ m.refresh = RefreshToMake(r)
    BY <1>9, MadeType, NoneIsNoToken DEF Make
  <2>2. made'[r] = m
    BY <1>9 DEF Make, TypeOK
  <2> HIDE DEF m
  <2>3. Makes(r)
    BY <1>9, <2>1, <2>2 DEF Make, GoOn, Makes, store, TypeOK
  <2> QED
    BY <1>9, <2>3 DEF Make, GoOn, Adds
<1>10. CASE StoreRefresh(r)
  BY <1>10 DEF StoreRefresh, Leave, Adds, Stores, TypeOK
<1> QED
  BY <1>2, <1>3, <1>4, <1>5, <1>6, <1>7, <1>8, <1>9, <1>10 DEF Moves, Step

\* The refresh token that r is about to make is kept by a grant, or new.
LEMMA KeptOrNew ==
    ASSUME TypeOK, NEW r \in Requests, enhancer = "none"
    PROVE  \/ call[r] = "grant" /\ old[r] # None /\ RefreshToMake(r) = old[r].refresh
           \/ RefreshToMake(r).serial = serial
BY DEF RefreshToMake, KeepsRefresh, NewRefresh, Unique

LEMMA SerialMoves ==
    ASSUME TypeOK, ShapeInv, SerialInv, NEW r \in Requests, Moves(r)
    PROVE  SerialInv'
<1> SUFFICES ASSUME enhancer = "none" PROVE SerialInv'
  BY Effects DEF SerialInv
<1> USE DEF SerialInv
<1>1. serial \in Nat /\ serial' >= serial /\ serial' \in Nat
  BY Effects DEF TypeOK
<1>2. refresh \subseteq Refreshes /\ used \subseteq Refreshes /\ \A t \in Refreshes : t.serial \in Nat
  BY DEF TypeOK, Refreshes
<1>3. /\ Shape(r)
      /\ user[r] # None => user[r] \in Users
      /\ presented[r] # None => presented[r].serial < serial
      /\ old[r] # None => old[r].refresh.serial < serial
      /\ made[r] # None => made[r].refresh.serial < serial
  BY DEF ShapeInv, TypeOK
<1>4. /\ presented[r] # None => presented[r].serial \in Nat
      /\ old[r] # None => old[r].refresh.serial \in Nat
      /\ made[r] # None => made[r].refresh.serial \in Nat
      /\ \A u \in Users : current[u] # None => current[u].refresh.serial \in Nat
  BY DEF TypeOK, Accesses, Refreshes
<1>5. \A t \in used' \union refresh' : t.serial < serial'
  <2>1. CASE Removes(r)
    BY <1>1, <1>2, <1>3, <1>4, <2>1 DEF Removes, Shape
  <2>2. CASE Stores(r)
    BY <1>1, <1>2, <1>3, <1>4, <2>2 DEF Stores, Shape
  <2>3. CASE used' = used /\ refresh' \subseteq refresh
    BY <1>1, <1>2, <2>3
  <2> QED
    BY <2>1, <2>2, <2>3, Effects DEF Adds, Makes
<1>6. ASSUME NEW u \in Users, current'[u] # None PROVE current'[u].refresh.serial < serial'
  <2>1. current'[u] \in {current[u], old[r], made[r]}
    BY <1>6, StoreMoves DEF TypeOK
  <2> QED
    BY <1>1, <1>3, <1>4, <1>6, <2>1
<1>7. presented'[r] # None => presented'[r].serial < serial'
  BY <1>1, <1>2, <1>3, <1>4, Effects
<1>8. old'[r] # None => old'[r].refresh.serial < serial'
  <2>1. CASE old'[r] \in {old[r], None}
    BY <1>1, <1>3, <1>4, <2>1
  <2>2. CASE old'[r] = current[user[r]] /\ at[r] \in {"get", "getOld"}
    BY <1>1, <1>3, <1>4, <2>2 DEF Shape
  <2> QED
    BY <2>1, <2>2, Effects
<1>9. made'[r] # None => made'[r].refresh.serial < serial'
  <2>1. CASE made'[r] \in {made[r], None}
    BY <1>1, <1>3, <1>4, <2>1
  <2>2. CASE Makes(r)
    BY <1>1, <1>3, <1>4, <2>2, KeptOrNew DEF Makes
  <2> QED
    BY <2>1, <2>2, Effects DEF Adds, Removes, Stores
<1>10. ASSUME NEW q \in Requests \ {r}
       PROVE  /\ presented'[q] # None => presented'[q].serial < serial'
              /\ old'[q] # None => old'[q].refresh.serial < serial'
              /\ made'[q] # None => made'[q].refresh.serial < serial'
  <2>1. Stays(q)
    BY OthersStay
  <2>2. /\ presented[q] # None => presented[q].serial \in Nat
        /\ old[q] # None => old[q].refresh.serial \in Nat
        /\ made[q] # None => made[q].refresh.serial \in Nat
    BY DEF TypeOK, Accesses, Refreshes
  <2> QED
    BY <1>1, <2>1, <2>2 DEF Stays
<1> QED
  BY <1>5, <1>6, <1>7, <1>8, <1>9, <1>10

\* No grant is busy beside another request.
LEMMA RaceMoves ==
    ASSUME TypeOK, UsedInv, NEW r \in Requests, Moves(r), ~grantRaced',
           NEW p \in Requests, NEW q \in Requests,
           Busy(p)', Busy(q)', call'[p] = "grant"
    PROVE  p = q
<1>1. ~grantRaced
  BY HistoryMoves DEF TypeOK
<1>2. \A x, y \in Requests : Busy(x) /\ Busy(y) /\ call[x] = "grant" => x = y
  BY <1>1 DEF UsedInv
<1>3. \A x \in Requests \ {r} : Stays(x)
  BY OthersStay
<1>4. CASE (\E u \in Users : Grant(r, u)) \/ (\E t \in refresh \union used : Refresh(r, t))
  <2>1. \A x \in Requests : ~(Busy(x) /\ "grant" \in {call'[r], call[x]})
    BY <1>4 DEF Grant, Refresh, Enter, TypeOK
  <2> QED
    BY <1>2, <1>3, <2>1 DEF Busy, Stays
<1>5. CASE Refuse(r)
  BY <1>2, <1>5 DEF Refuse, Busy, locals
<1>6. CASE Break(r) \/ Step(r)
  <2>1. Busy(r) /\ call' = call
    BY <1>6 DEF Break, Step, GetExisting, Reuse, ReadRefresh, ReadDetails, GetOld, RemoveAccess,
                RemoveRefresh, Make, StoreAccess, StoreRefresh, Busy, GoOn, Leave
  <2> QED
    BY <1>2, <1>3, <2>1 DEF Busy, Stays
<1> QED
  BY <1>4, <1>5, <1>6 DEF Moves

\* What holds before a move of r while no grant has raced.
Quiet ==
    /\ TypeOK /\ ShapeInv /\ SerialInv
    /\ enhancer = "none"
    /\ used \cap refresh = {}
    /\ \A u \in Users : current[u] # None => current[u].refresh \notin used
    /\ \A q \in Requests : Unspent(q)
    /\ \A p, q \in Requests : Busy(p) /\ Busy(q) /\ call[p] = "grant" => p = q

\* The token that r makes is none of those that are known, unless r is a grant
\* that keeps the one of its user's expired access token.
LEMMA MakesNew ==
    ASSUME Quiet, NEW r \in Requests, Makes(r)
    PROVE  /\ made'[r].refresh \notin used
           /\ \/ call[r] = "grant"
              \/ /\ made'[r].refresh \notin refresh
                 /\ \A q \in Requests : presented[q] # made'[r].refresh
                 /\ \A q \in Requests : made[q] # None => made[q].refresh # made'[r].refresh
<1>1. CASE call[r] = "grant" /\ old[r] # None /\ RefreshToMake(r) = old[r].refresh
  BY <1>1 DEF Quiet, Unspent, Makes
<1>2. CASE RefreshToMake(r).serial = serial
  <2>1. /\ \A t \in used \union refresh : t.serial < serial
        /\ \A q \in Requests : /\ presented[q] # None => presented[q].serial < serial
                               /\ made[q] # None => made[q].refresh.serial < serial
    BY DEF Quiet, SerialInv
  <2>2. serial \in Nat /\ RefreshToMake(r) \in Refreshes
    BY MadeType DEF Quiet, TypeOK, Makes
  <2>3. made'[r].refresh.serial = serial /\ made'[r].refresh # None
    BY <1>2, <2>2, NoneIsNoToken DEF Makes
  <2> QED
    BY <2>1, <2>2, <2>3
<1> QED
  BY <1>1, <1>2, KeptOrNew DEF Quiet

LEMMA UsedNotStored ==
    ASSUME Quiet, NEW r \in Requests, Moves(r) PROVE used' \cap refresh' = {}
<1>1. CASE Removes(r)
  BY <1>1 DEF Removes, Quiet
<1>2. CASE Stores(r)
  BY <1>2 DEF Stores, Quiet, Unspent, ShapeInv, Shape
<1>3. CASE used' = used /\ refresh' \subseteq refresh
  BY <1>3 DEF Quiet
<1> QED
  BY <1>1, <1>2, <1>3, Effects DEF Adds, Makes, Quiet

LEMMA CurrentUnused ==
    ASSUME Quiet, NEW r \in Requests, Moves(r), NEW u \in Users, current'[u] # None
    PROVE  current'[u].refresh \notin used'
<1> USE DEF Quiet
<1>1. Shape(r) /\ Unspent(r) /\ (current[u] # None => current[u].refresh.user = u)
  BY DEF ShapeInv
<1>2. CASE Removes(r)
  <2>1. presented[r].user = user[r] /\ presented[r] # None
    BY <1>1, <1>2 DEF Removes, Shape
  <2> QED
    BY <1>1, <1>2, <2>1 DEF Removes, Unspent
<1>3. CASE used' = used
  <2>1. \/ current'[u] = current[u]
        \/ current'[u] = old[r] /\ at[r] = "reuse"
        \/ current'[u] = made[r] /\ at[r] = "storeAccess"
    BY StoreMoves DEF TypeOK
  <2>2. at[r] = "reuse" => call[r] = "grant"
    BY <1>1 DEF Shape, TypeOK
  <2>3. /\ old[r] # None /\ at[r] = "reuse" => old[r].refresh \notin used
        /\ made[r] # None => made[r].refresh \notin used
        /\ current[u] # None => current[u].refresh \notin used
    BY <1>1, <2>2 DEF Unspent
  <2> QED
    BY <1>3, <2>1, <2>3
<1> QED
  BY <1>2, <1>3, Effects DEF Adds, Stores, Makes

\* A grant that holds something has the service to itself.
LEMMA GrantAlone ==
    ASSUME Quiet, NEW r \in Requests, NEW q \in Requests \ {r},
           at[r] # "idle", at[q] # "idle"
    PROVE  call[r] = "refresh" /\ call[q] = "refresh"
BY DEF Quiet, Busy, TypeOK

LEMMA UnspentStays ==
    ASSUME Quiet, NEW r \in Requests, Moves(r), NEW q \in Requests \ {r}
    PROVE  Unspent(q)'
<1>1. Stays(q) /\ Shape(q) /\ Unspent(q) /\ Shape(r) /\ Unspent(r)
  BY OthersStay DEF Quiet, ShapeInv
<1>2. call[q] \in {"grant", "refresh"}
  BY DEF Quiet, TypeOK
<1>3. ASSUME made[q] # None PROVE made[q].refresh \notin used'
  <2>1. CASE Removes(r)
    <3>1. call[q] = "refresh"
      BY <1>1, <1>3, <2>1, GrantAlone DEF Removes, Shape
    <3> QED
      BY <1>1, <1>3, <2>1, <3>1 DEF Removes, Unspent
  <2>2. CASE used' = used
    BY <1>1, <1>3, <2>2 DEF Unspent
  <2> QED
    BY <2>1, <2>2, Effects DEF Quiet, Adds, Stores, Makes
<1>4. ASSUME call[q] = "grant", old[q] # None PROVE old[q].refresh \notin used'
  <2>1. at[r] = "idle"
    BY <1>1, <1>4, GrantAlone DEF Shape
  <2>2. used' = used
    BY <2>1, Effects DEF Quiet, Adds, Removes, Stores, Makes
  <2> QED
    BY <1>1, <1>4, <2>2 DEF Unspent
<1>5. ASSUME call[q] = "refresh", made[q] # None
      PROVE  /\ made[q].refresh \notin refresh'
             /\ \A x \in Requests : presented'[x] # made[q].refresh
             /\ \A x \in Requests \ {q} : made'[x] # None => made'[x].refresh # made[q].refresh
  <2>1. /\ made[q].refresh \notin refresh \union used
        /\ made[q].refresh # None
        /\ \A x \in Requests : presented[x] # made[q].refresh
        /\ \A x \in Requests \ {q} : made[x] # None => made[x].refresh # made[q].refresh
    <3>1. made[q].refresh # None
      BY <1>5, NoneIsNoToken DEF Quiet, TypeOK, Accesses
    <3> QED
      BY <1>1, <1>5, <3>1 DEF Unspent
  <2>2. made[q].refresh \notin refresh'
    <3>1. CASE Stores(r)
      BY <1>1, <2>1, <3>1 DEF Stores, Shape
    <3> QED
      BY <2>1, <3>1, Effects DEF Quiet, Adds, Removes, Makes
  <2>3. \A x \in Requests : presented'[x] # made[q].refresh
    <3>1. presented'[r] # made[q].refresh
      BY <2>1, Effects DEF Quiet
    <3>2. \A x \in Requests \ {r} : presented'[x] = presented[x]
      BY OthersStay DEF Quiet, Stays
    <3> QED
      BY <2>1, <3>1, <3>2
  <2>4. ASSUME made'[r] # None PROVE made'[r].refresh # made[q].refresh
    <3>1. CASE Makes(r)
      <4>1. call[r] = "refresh"
        BY <1>1, <1>5, <3>1, GrantAlone DEF Makes, Shape
      <4> QED
        BY <1>5, <3>1, <4>1, MakesNew
    <3>2. CASE made'[r] = made[r]
      BY <2>1, <2>4, <3>2
    <3> QED
      BY <2>4, <3>1, <3>2, Effects DEF Quiet, Adds, Removes, Stores
  <2>5. \A x \in Requests \ {r} : made'[x] = made[x]
    BY OthersStay DEF Quiet, Stays
  <2> QED
    BY <2>1, <2>2, <2>3, <2>4, <2>5
<1>6. ASSUME call[q] = "refresh", at[q] \in {"removeAccess", "removeRefresh"}
      PROVE  \/ current'[user[q]] \in {None, current[user[q]]}
             \/ current'[user[q]].refresh # presented[q]
  <2>1. user[q] \in Users
    BY <1>1, <1>6 DEF Quiet, TypeOK, Shape
  <2>2. CASE at[r] = "storeAccess" /\ current' = [current EXCEPT ![user[r]] = made[r]]
    <3>1. call[r] = "refresh" /\ made[r] # None
      BY <1>1, <1>6, <2>2, GrantAlone DEF Shape
    <3>2. made[r].refresh # presented[q]
      BY <1>1, <3>1 DEF Unspent
    <3> QED
      BY <2>1, <2>2, <3>2 DEF Quiet, TypeOK
  <2>3. at[r] # "reuse"
    BY <1>1, <1>6, GrantAlone DEF Shape
  <2>4. CASE current' = [current EXCEPT ![user[r]] = IF @ = old[r] THEN None ELSE @]
    BY <2>1, <2>4 DEF Quiet, TypeOK
  <2> QED
    BY <2>2, <2>3, <2>4, StoreMoves DEF Quiet
<1> QED
  BY <1>1, <1>3, <1>4, <1>5, <1>6 DEF Unspent, Stays

\* A refresh comes to the removals by reading, or by removing, the old token.
LEMMA Removals ==
    ASSUME Quiet, NEW r \in Requests, Moves(r), call'[r] = "refresh",
           at'[r] \in {"removeAccess", "removeRefresh"}
    PROVE  /\ GetOld(r) \/ RemoveAccess(r)
           /\ call[r] = "refresh"
<1> USE DEF Quiet
<1>1. Shape(r) /\ call[r] \in {"grant", "refresh"}
  BY DEF ShapeInv, TypeOK
<1>2. CASE (\E u \in Users : Grant(r, u)) \/ (\E t \in refresh \union used : Refresh(r, t))
  BY <1>2 DEF Grant, Refresh, Enter, TypeOK
<1>3. CASE Refuse(r)
  BY <1>3 DEF Refuse, Busy
<1>4. ASSUME NEW a, Leave(r, a) PROVE at'[r] = "idle"
  BY <1>4 DEF Leave, TypeOK
<1>5. CASE Break(r) \/ Reuse(r) \/ StoreRefresh(r)
  BY <1>4, <1>5 DEF Break, Reuse, StoreRefresh
<1>6. CASE GetExisting(r)
  BY <1>1, <1>6 DEF GetExisting, GoOn, Shape
<1>7. CASE ReadRefresh(r) \/ ReadDetails(r)
  BY <1>4, <1>7 DEF ReadRefresh, ReadDetails, GoOn, TypeOK
<1>8. CASE RemoveRefresh(r) \/ Make(r) \/ StoreAccess(r)
  BY <1>8 DEF RemoveRefresh, Make, StoreAccess, GoOn, TypeOK
<1>9. CASE GetOld(r) \/ RemoveAccess(r)
  BY <1>9 DEF GetOld, RemoveAccess, GoOn
<1> QED
  BY <1>2, <1>3, <1>5, <1>6, <1>7, <1>8, <1>9 DEF Moves, Step

LEMMA UnspentMoves ==
    ASSUME Quiet, NEW r \in Requests, Moves(r)
    PROVE  Unspent(r)'
<1>1. Shape(r) /\ Unspent(r)
  BY DEF Quiet, ShapeInv
<1>2. user[r] # None => user[r] \in Users
  BY DEF Quiet, TypeOK
<1>3. ASSUME made'[r] # None PROVE made'[r].refresh \notin used'
  <2>1. CASE Makes(r)
    BY <2>1, MakesNew DEF Makes
  <2>2. CASE used' = used /\ made'[r] = made[r]
    BY <1>1, <1>3, <2>2 DEF Unspent
  <2>3. ~Removes(r)
    BY <1>1, <1>3 DEF Removes, Shape
  <2> QED
    BY <1>3, <2>1, <2>2, <2>3, Effects DEF Quiet, Adds, Stores
<1>4. ASSUME call'[r] = "grant", old'[r] # None PROVE old'[r].refresh \notin used'
  <2>1. call[r] = "grant"
    BY <1>4, Effects DEF Quiet
  <2>2. used' = used
    BY <2>1, Effects DEF Quiet, Adds, Removes, Stores, Makes
  <2>3. CASE old'[r] = old[r]
    BY <1>1, <1>4, <2>1, <2>2, <2>3 DEF Unspent
  <2>4. CASE old'[r] = current[user[r]] /\ at[r] \in {"get", "getOld"}
    BY <1>1, <1>2, <1>4, <2>2, <2>4 DEF Quiet, Shape
  <2> QED
    BY <1>4, <2>3, <2>4, Effects DEF Quiet
<1>5. ASSUME call'[r] = "refresh", made'[r] # None
      PROVE  /\ made'[r].refresh \notin refresh'
             /\ \A x \in Requests : presented'[x] # made'[r].refresh
             /\ \A x \in Requests \ {r} : made'[x] # None => made'[x].refresh # made'[r].refresh
  <2>1. call[r] = "refresh"
    BY <1>5, Effects DEF Quiet
  <2>2. /\ made'[r].refresh \notin refresh \union used
        /\ \A x \in Requests : presented[x] # made'[r].refresh
        /\ \A x \in Requests \ {r} : made[x] # None => made[x].refresh # made'[r].refresh
        /\ refresh' \subseteq refresh
    <3>1. CASE Makes(r)
      BY <2>1, <3>1, MakesNew DEF Makes
    <3>2. CASE made'[r] = made[r] /\ refresh' \subseteq refresh
      BY <1>1, <1>5, <2>1, <3>2 DEF Unspent
    <3> QED
      BY <1>5, <3>1, <3>2, Effects DEF Quiet, Adds, Removes, Stores
  <2>3. \A x \in Requests \ {r} : made'[x] = made[x] /\ presented'[x] = presented[x]
    BY OthersStay DEF Quiet, Stays
  <2>4. made'[r].refresh # None
    <3>1. Moves(r) => Next
      BY DEF Moves, Next
    <3>2. TypeOK'
      BY <3>1, TypeStep DEF Quiet
    <3> QED
      BY <1>5, <3>2, NoneIsNoToken DEF TypeOK, Accesses
  <2>5. presented'[r] # made'[r].refresh
    BY <2>2, <2>4, Effects DEF Quiet
  <2> QED
    BY <2>2, <2>3, <2>5
<1>6. ASSUME call'[r] = "refresh", at'[r] \in {"removeAccess", "removeRefresh"}
      PROVE  /\ at'[r] = "removeAccess" => current'[user'[r]] \in {None, old'[r]}
             /\ at'[r] = "removeRefresh" =>
                   (current'[user'[r]] # None => current'[user'[r]].refresh # presented'[r])
  <2>1. call[r] = "refresh"
    BY <1>6, Removals
  <2>2. CASE GetOld(r)
    BY <1>1, <1>2, <2>2 DEF GetOld, GoOn, Shape, store, Quiet, TypeOK
  <2>3. CASE RemoveAccess(r)
    <3>1. \/ current[user[r]] \in {None, old[r]}
          \/ current[user[r]].refresh # presented[r]
      BY <1>1, <2>1, <2>3 DEF RemoveAccess, Unspent
    <3>2. user[r] \in Users
      BY <1>1, <1>2, <2>3 DEF RemoveAccess, Shape
    <3> QED
      BY <2>3, <3>1, <3>2 DEF RemoveAccess, GoOn, Quiet, TypeOK
  <2> QED
    BY <1>6, <2>2, <2>3, Removals
<1> QED
  BY <1>3, <1>4, <1>5, <1>6 DEF Unspent

LEMMA UsedMoves ==
    ASSUME TypeOK, ShapeInv, SerialInv, UsedInv, NEW r \in Requests, Moves(r)
    PROVE  UsedInv'
<1>1. ~grantRaced' =>
        \A p, q \in Requests : Busy(p)' /\ Busy(q)' /\ call'[p] = "grant" => p = q
  BY RaceMoves
<1>2. ASSUME ~grantRaced', enhancer' = "none"
      PROVE  /\ used' \cap refresh' = {}
             /\ \A u \in Users : current'[u] # None => current'[u].refresh \notin used'
             /\ \A q \in Requests : Unspent(q)'
  <2>1. Quiet
    BY <1>2, HistoryMoves, Effects DEF Quiet, UsedInv
  <2> QED
    BY <2>1, UsedNotStored, CurrentUnused, UnspentStays, UnspentMoves
<1> QED
  BY <1>1, <1>2 DEF UsedInv, Busy

-----------------------------------------------------------------------------
(* The invariant, and what follows from it.                                *)

LEMMA TokenStep == TokenInv /\ [Next]_vars => TokenInv'
<1> SUFFICES ASSUME TokenInv, [Next]_vars PROVE TokenInv'
  OBVIOUS
<1> USE DEF TokenInv
<1>1. CASE UNCHANGED vars
  BY <1>1 DEF vars, locals, store, TypeOK, ShapeInv, Shape, SoloInv, Busy, Knows, IsExpired,
              Refreshable, NoStrayAccess, NothingNeedsOverlap, SerialInv, UsedInv, Unspent
<1>2. CASE Next
  <2>1. TypeOK' /\ ShapeInv' /\ SoloInv'
    BY <1>2, TypeStep, ShapeStep, SoloStep
  <2>2. CASE Tick
    BY <2>1, <2>2 DEF Tick, locals, store, SerialInv, UsedInv, Unspent, Busy
  <2>3. ASSUME NEW r \in Requests, Moves(r) PROVE SerialInv' /\ UsedInv'
    BY <2>3, SerialMoves, UsedMoves
  <2> QED
    BY <1>2, <2>1, <2>2, <2>3 DEF Next, Moves
<1> QED
  BY <1>1, <1>2

LEMMA TokenInvariant == Spec => []TokenInv
<1>1. Init => TokenInv
  BY TokenInit
<1>2. TokenInv /\ [Next]_vars => TokenInv'
  BY TokenStep
<1> QED
  BY <1>1, <1>2, PTL DEF Spec

\* Every variable keeps its type.
THEOREM TokenTypes == Spec => []TypeOK
<1>1. TokenInv => TypeOK
  BY DEF TokenInv
<1> QED
  BY <1>1, TokenInvariant, PTL

\* While requests do not overlap, RemoveAccessToken always finds the token that
\* is replaced: none is left that is accepted and that nothing removes.
THEOREM StrayAccess == Spec => []NoStrayAccess
<1>1. TokenInv => NoStrayAccess
  BY DEF TokenInv, SoloInv, NoStrayAccess
<1> QED
  BY <1>1, TokenInvariant, PTL

\* A refresh token with a UUID is used once, whatever breaks off and however
\* refreshes race, as long as no grant runs beside another request.
THEOREM UsedStay == Spec => []UsedStaysUsed
<1>1. TokenInv => UsedStaysUsed
  BY DEF TokenInv, UsedInv, UsedStaysUsed
<1> QED
  BY <1>1, TokenInvariant, PTL

\* Who holds an access token can refresh it, once no request is under way, unless
\* requests overlapped or one broke off.
THEOREM CurrentRefresh == Spec => []CurrentIsRefreshable
<1>1. TokenInv => CurrentIsRefreshable
  BY DEF TokenInv, SoloInv, CurrentIsRefreshable, Refreshable, Busy
<1> QED
  BY <1>1, TokenInvariant, PTL

\* The answer that is neither a token nor an error comes only of an overlap.
THEOREM NothingOverlap == Spec => []NothingNeedsOverlap
<1>1. TokenInv => NothingNeedsOverlap
  BY DEF TokenInv, SoloInv
<1> QED
  BY <1>1, TokenInvariant, PTL

\* As long as no two requests overlapped, a password grant never replaces an
\* access token that has not expired.
THEOREM LiveKept == Spec => LiveTokenIsKept
<1> DEFINE Kept == \A u \in Users :
          ~overlapped /\ current[u] # None /\ ~IsExpired(current[u]) /\ current'[u] # current[u] =>
              \E r \in Requests : call[r] = "refresh" /\ user[r] = u /\ Busy(r)
<1>1. TokenInv /\ [Next]_vars => [Kept]_vars
  <2> SUFFICES ASSUME TokenInv, Next, NEW u \in Users, ~overlapped,
                      current[u] # None, ~IsExpired(current[u]), current'[u] # current[u]
               PROVE  \E r \in Requests : call[r] = "refresh" /\ user[r] = u /\ Busy(r)
    OBVIOUS
  <2>1. ~Tick
    BY DEF Tick, store
  <2>2. PICK r \in Requests : Moves(r)
    BY <2>1 DEF Next, Moves
  <2>3. TypeOK /\ ShapeInv /\ Shape(r) /\ Knows(r)
    BY DEF TokenInv, ShapeInv, SoloInv
  <2>4. at[r] = "removeAccess" /\ user[r] = u /\ current[u] = old[r]
    BY <2>2, <2>3, StoreMoves DEF Knows, TypeOK
  <2>5. call[r] = "refresh"
    BY <2>3, <2>4 DEF Knows, TypeOK
  <2> QED
    BY <2>4, <2>5 DEF Busy
<1> QED
  BY <1>1, TokenInvariant, PTL DEF Spec, LiveTokenIsKept

-----------------------------------------------------------------------------
(* Sessions.  What the refinement needs to know beyond TokenInv: whose the  *)
(* tokens in the store are, and what a request still knows of the old       *)
(* session when it is about to complete the new one.                        *)

Stored == \A u \in Users : current[u] # None => current[u] \in access

\* t belongs to an access token, or is the one that is removed next.
Owned(t) ==
    \/ current[t.user] # None /\ current[t.user].refresh = t
    \/ \E r \in Requests :
          at[r] = "removeRefresh" /\ user[r] = t.user /\ old[r] # None /\ old[r].refresh = t

\* What r carries of the old session, and that what it made is recent.
Carries(r) ==
    /\ call[r] = "refresh" /\ at[r] \in {"details", "getOld", "removeAccess"} =>
          current[user[r]] # None /\ current[user[r]].refresh = presented[r]
    /\ call[r] = "refresh" /\ Replacing(r) => old[r] # None /\ old[r].refresh = presented[r]
    /\ call[r] = "grant" /\ Replacing(r) /\ old[r] # None => IsExpired(old[r])
    /\ made[r] # None => made[r].expires <= now + AccessValidity
    /\ made[r] # None =>
          \/ /\ made[r].refresh.expires <= now + RefreshValidity
             /\ old[r] = None \/ call[r] = "refresh" \/ IsExpired(old[r].refresh)
          \/ call[r] = "grant" /\ old[r] # None /\ made[r].refresh = old[r].refresh

SessionInv ==
    /\ Stored
    /\ Intact => (\A t \in refresh : Owned(t)) /\ (\A r \in Requests : Carries(r))

LEMMA SessionInit == Init => SessionInv
BY DEF Init, SessionInv, Stored, Carries, Replacing

LEMMA StoredMoves ==
    ASSUME TypeOK, ShapeInv, Stored, NEW r \in Requests, Moves(r)
    PROVE  Stored'
<1> SUFFICES ASSUME NEW u \in Users, current'[u] # None PROVE current'[u] \in access'
  BY DEF Stored
<1>1. Shape(r) /\ (Busy(r) => user[r] \in Users)
  BY DEF TypeOK, ShapeInv, Shape, Busy
<1>2. CASE (\E v \in Users : Grant(r, v)) \/ (\E t \in refresh \union used : Refresh(r, t))
  BY <1>2 DEF Grant, Refresh, Enter, store, Stored
<1>3. CASE Refuse(r) \/ Break(r)
  BY <1>3 DEF Refuse, Break, store, Stored
<1>4. CASE GetExisting(r) \/ ReadRefresh(r) \/ ReadDetails(r) \/ GetOld(r) \/ Make(r)
  BY <1>4 DEF GetExisting, ReadRefresh, ReadDetails, GetOld, Make, store, Stored
<1>5. CASE RemoveRefresh(r) \/ StoreRefresh(r)
  BY <1>5 DEF RemoveRefresh, StoreRefresh, Stored
<1>6. CASE Reuse(r)
  BY <1>1, <1>6 DEF Reuse, Stored, TypeOK
<1>7. CASE RemoveAccess(r)
  <2>1. current'[u] = current[u] /\ current[u] # old[r]
    <3>1. CASE u = user[r]
      BY <1>7, <3>1 DEF RemoveAccess, TypeOK
    <3>2. CASE u # user[r]
      <4>1. current'[u] = current[u]
        BY <1>7, <3>2 DEF RemoveAccess, TypeOK
      <4> QED
        BY <1>1, <1>7, <3>2, <4>1 DEF RemoveAccess, ShapeInv, Shape
    <3> QED
      BY <3>1, <3>2
  <2> QED
    BY <1>7, <2>1 DEF RemoveAccess, Stored
<1>8. CASE StoreAccess(r)
  BY <1>1, <1>8 DEF StoreAccess, Stored, TypeOK
<1> QED
  BY <1>2, <1>3, <1>4, <1>5, <1>6, <1>7, <1>8 DEF Moves, Step

\* What r carries after a step that it made alone.
LEMMA CarriesMoves ==
    ASSUME TypeOK, ShapeInv, NEW r \in Requests, Moves(r), Knows(r), Carries(r),
           \A q \in Requests \ {r} : at[q] = "idle",
           \A t \in refresh : Owned(t)
    PROVE  Carries(r)'
<1>1. user[r] # None => user[r] \in Users
  BY DEF TypeOK
<1>2. Shape(r)
  BY DEF ShapeInv
<1>3. CASE (\E u \in Users : Grant(r, u)) \/ (\E t \in refresh \union used : Refresh(r, t))
  BY <1>2, <1>3 DEF Grant, Refresh, Enter, Carries, Replacing, Busy, Shape, TypeOK
<1>4. CASE Refuse(r)
  BY <1>4 DEF Refuse, Carries, Replacing, locals, store, IsExpired
<1>5. ASSUME NEW a, Leave(r, a) PROVE Carries(r)'
  BY <1>5 DEF Leave, Carries, Replacing, TypeOK
<1>6. CASE Break(r) \/ Reuse(r) \/ StoreRefresh(r)
  BY <1>5, <1>6 DEF Break, Reuse, StoreRefresh
<1>7. CASE GetExisting(r)
  BY <1>1, <1>2, <1>7 DEF GetExisting, GoOn, Carries, Replacing, Shape, TypeOK, store, IsExpired
<1>8. CASE GetOld(r)
  BY <1>1, <1>2, <1>8 DEF GetOld, GoOn, Carries, Replacing, Shape, TypeOK, store, IsExpired
<1>9. CASE ReadRefresh(r)
  <2>1. presented[r] \in refresh => current[user[r]] # None /\ current[user[r]].refresh = presented[r]
    <3>1. at[r] = "read" /\ presented[r].user = user[r]
      BY <1>2, <1>9 DEF ReadRefresh, Shape, TypeOK
    <3>2. \A q \in Requests : at[q] # "removeRefresh"
      BY <3>1
    <3> QED
      BY <3>1, <3>2 DEF Owned
  <2> QED
    BY <1>2, <1>5, <1>9, <2>1 DEF ReadRefresh, GoOn, Carries, Replacing, Shape, TypeOK, store
<1>10. CASE ReadDetails(r)
  BY <1>2, <1>5, <1>10 DEF ReadDetails, GoOn, Carries, Replacing, Shape, TypeOK, store
<1>11. CASE RemoveAccess(r)
  BY <1>1, <1>2, <1>11 DEF RemoveAccess, GoOn, Carries, Knows, Replacing, Shape, TypeOK, IsExpired
<1>12. CASE RemoveRefresh(r)
  BY <1>2, <1>12 DEF RemoveRefresh, GoOn, Carries, Replacing, Shape, TypeOK, IsExpired
<1>13. CASE StoreAccess(r)
  BY <1>2, <1>13 DEF StoreAccess, GoOn, Carries, Replacing, Shape, TypeOK, IsExpired
<1>14. CASE Make(r)
  <2> DEFINE m == [user |-> user[r], expires |-> now + AccessValidity,
                   serial |-> UniqueAccess(r), refresh |-> RefreshToMake(r)]
  <2>1. made' = [made EXCEPT ![r] = m]
    BY <1>14 DEF Make
  <2>2. m.expires = now + AccessValidity /\ m.refresh = RefreshToMake(r)
    OBVIOUS
  <2>3. made'[r] = m
    BY <2>1 DEF TypeOK
  <2> HIDE DEF m
  <2>4. /\ at'[r] = "storeAccess" /\ at[r] = "make" /\ call'[r] = call[r] /\ old'[r] = old[r]
        /\ presented'[r] = presented[r] /\ now' = now
    BY <1>14 DEF Make, GoOn, TypeOK
  <2>5. \/ call[r] = "grant" /\ old[r] # None /\ RefreshToMake(r) = old[r].refresh
        \/ /\ RefreshToMake(r).expires = now + RefreshValidity
           /\ old[r] = None \/ call[r] = "refresh" \/ IsExpired(old[r].refresh)
    BY DEF RefreshToMake, KeepsRefresh, NewRefresh, TypeOK
  <2>6. now + AccessValidity <= now + AccessValidity /\ now + RefreshValidity <= now + RefreshValidity
    BY TimesAreNat DEF TypeOK
  <2> QED
    BY <2>2, <2>3, <2>4, <2>5, <2>6 DEF Carries, Replacing, IsExpired
<1> QED
  BY <1>3, <1>4, <1>6, <1>7, <1>8, <1>9, <1>10, <1>11, <1>12, <1>13, <1>14 DEF Moves, Step

\* Every refresh token in the store has an owner after a step made alone.
LEMMA OwnedMoves ==
    ASSUME TypeOK, ShapeInv, NEW r \in Requests, Moves(r), Knows(r), Carries(r), ~broken',
           \A q \in Requests \ {r} : at[q] = "idle",
           \A t \in refresh : Owned(t),
           NEW t \in refresh'
    PROVE  Owned(t)'
<1>1. Shape(r)
  BY DEF ShapeInv
<1>2. Busy(r) => user[r] \in Users
  BY <1>1 DEF TypeOK, Shape, Busy
<1>3. ASSUME t \in refresh
      PROVE  /\ t.user \in Users
             /\ \/ current[t.user] # None /\ current[t.user].refresh = t
                \/ /\ at[r] = "removeRefresh" /\ user[r] = t.user
                   /\ old[r] # None /\ old[r].refresh = t
  <2>1. t.user \in Users
    BY <1>3 DEF TypeOK, Refreshes
  <2>2. \A q \in Requests : at[q] = "removeRefresh" => q = r
    OBVIOUS
  <2> QED
    BY <1>3, <2>1, <2>2 DEF Owned
<1>4. CASE (\E u \in Users : Grant(r, u)) \/ (\E x \in refresh \union used : Refresh(r, x))
  <2>1. UNCHANGED <<current, refresh>> /\ at[r] = "idle"
    BY <1>4 DEF Grant, Refresh, Enter, store, Busy
  <2> QED
    BY <1>3, <2>1 DEF Owned
<1>5. CASE Refuse(r)
  <2>1. UNCHANGED <<current, refresh>> /\ at[r] = "idle"
    BY <1>5 DEF Refuse, store, Busy
  <2> QED
    BY <1>3, <2>1 DEF Owned
<1>6. ~Break(r)
  BY DEF Break
<1>7. CASE GetExisting(r) \/ ReadRefresh(r) \/ ReadDetails(r) \/ GetOld(r) \/ Make(r)
  <2>1. UNCHANGED <<current, refresh>> /\ at[r] # "removeRefresh"
    BY <1>7 DEF GetExisting, ReadRefresh, ReadDetails, GetOld, Make, store
  <2> QED
    BY <1>3, <2>1 DEF Owned
<1>8. CASE Reuse(r)
  <2>1. UNCHANGED <<current, refresh>> /\ at[r] # "removeRefresh"
    BY <1>2, <1>8 DEF Reuse, Knows, TypeOK, Busy
  <2> QED
    BY <1>3, <2>1 DEF Owned
<1>9. CASE RemoveAccess(r)
  <2>1. /\ refresh' = refresh /\ at[r] = "removeAccess" /\ at'[r] = "removeRefresh"
        /\ user'[r] = user[r] /\ old'[r] = old[r] /\ old[r] # None
        /\ current[user[r]] = old[r]
    BY <1>1, <1>9 DEF RemoveAccess, GoOn, Knows, Shape, TypeOK
  <2>2. CASE t.user = user[r]
    BY <1>3, <2>1, <2>2 DEF Owned
  <2>3. CASE t.user # user[r]
    <3>1. t.user \in Users => current'[t.user] = current[t.user]
      BY <1>9, <2>3 DEF RemoveAccess, TypeOK
    <3> QED
      BY <1>3, <2>1, <2>3, <3>1 DEF Owned
  <2> QED
    BY <2>2, <2>3
<1>10. CASE RemoveRefresh(r)
  <2>1. /\ current' = current /\ t \in refresh
        /\ t # IF call[r] = "refresh" THEN presented[r] ELSE old[r].refresh
    BY <1>10 DEF RemoveRefresh
  <2>2. call[r] = "refresh" => old[r].refresh = presented[r]
    BY <1>10 DEF RemoveRefresh, Carries, Replacing
  <2>3. t # old[r].refresh
    BY <2>1, <2>2
  <2> QED
    BY <1>3, <2>1, <2>3 DEF Owned
<1>11. CASE StoreAccess(r)
  <2>1. refresh' = refresh /\ at[r] = "storeAccess" /\ current[user[r]] = None
    BY <1>11 DEF StoreAccess, Knows
  <2>2. t.user # user[r] /\ t.user \in Users /\ current[t.user] # None /\ current[t.user].refresh = t
    BY <1>3, <2>1
  <2>3. current'[t.user] = current[t.user]
    BY <1>11, <2>2 DEF StoreAccess, TypeOK
  <2> QED
    BY <2>2, <2>3 DEF Owned
<1>12. CASE StoreRefresh(r)
  <2>1. /\ current' = current /\ at[r] = "storeRefresh" /\ current[user[r]] = made[r]
        /\ made[r] # None /\ made[r].refresh.user = user[r]
        /\ t \in refresh \/ t = made[r].refresh
    BY <1>1, <1>12 DEF StoreRefresh, Knows, Shape
  <2> QED
    BY <1>3, <2>1 DEF Owned
<1> QED
  BY <1>4, <1>5, <1>6, <1>7, <1>8, <1>9, <1>10, <1>11, <1>12 DEF Moves, Step

LEMMA SessionStep == TokenInv /\ SessionInv /\ [Next]_vars => SessionInv'
<1> SUFFICES ASSUME TokenInv, SessionInv, [Next]_vars PROVE SessionInv'
  OBVIOUS
<1> USE DEF TokenInv
<1>1. CASE UNCHANGED vars
  BY <1>1 DEF vars, locals, store, SessionInv, Stored, Owned, Carries, Replacing, Intact, IsExpired
<1>2. CASE Tick
  <2>1. /\ UNCHANGED <<at, access, current, refresh, overlapped, broken>>
        /\ UNCHANGED <<call, user, presented, old, made>>
        /\ now' = now + 1
    BY <1>2 DEF Tick, locals, store
  <2>2. \A r \in Requests : Carries(r) => Carries(r)'
    <3> TAKE r \in Requests
    <3>1. /\ old[r] # None => old[r].expires \in Nat /\ old[r].refresh.expires \in Nat
          /\ made[r] # None => made[r].expires \in Nat /\ made[r].refresh.expires \in Nat
      BY DEF TypeOK, Accesses, Refreshes
    <3>2. now \in Nat /\ AccessValidity \in Nat /\ RefreshValidity \in Nat
      BY TimesAreNat DEF TypeOK
    <3> QED
      BY <2>1, <3>1, <3>2 DEF Carries, Replacing, IsExpired
  <2>3. \A t : Owned(t) => Owned(t)'
    BY <2>1 DEF Owned
  <2> QED
    BY <2>1, <2>2, <2>3 DEF SessionInv, Stored, Intact
<1>3. ASSUME NEW r \in Requests, Moves(r) PROVE SessionInv'
  <2>1. Stored'
    BY <1>3, StoredMoves DEF SessionInv
  <2>2. CASE Refuse(r)
    BY <2>1, <2>2 DEF Refuse, locals, store, SessionInv, Owned, Carries, Replacing, Intact, IsExpired
  <2>3. ASSUME ~Refuse(r), Intact'
        PROVE  (\A t \in refresh' : Owned(t)') /\ (\A q \in Requests : Carries(q)')
    <3>1. Intact /\ ~overlapped /\ ~overlapped' /\ ~broken'
      BY <1>3, <2>3, HistoryMoves DEF Intact
    <3>2. \A q \in Requests \ {r} : at[q] = "idle" /\ at'[q] = "idle"
      BY <1>3, <2>3, <3>1, Alone
    <3>3. Knows(r) /\ Carries(r) /\ \A t \in refresh : Owned(t)
      BY <3>1 DEF SoloInv, SessionInv
    <3>4. \A t \in refresh' : Owned(t)'
      BY <1>3, <3>1, <3>2, <3>3, OwnedMoves
    <3>5. Carries(r)'
      BY <1>3, <3>2, <3>3, CarriesMoves
    <3>6. ASSUME NEW q \in Requests \ {r} PROVE Carries(q)'
      <4>1. made'[q] = None
        BY <1>3, <3>2, ShapeStep DEF ShapeInv, Shape, Next, Moves
      <4> QED
        BY <3>2, <4>1 DEF Carries, Replacing
    <3> QED
      BY <3>4, <3>5, <3>6
  <2> QED
    BY <2>1, <2>2, <2>3 DEF SessionInv
<1> QED
  BY <1>1, <1>2, <1>3 DEF Next, Moves

LEMMA SessionInvariant == Spec => [](TokenInv /\ SessionInv)
<1> QED
  BY TokenInit, TokenStep, SessionInit, SessionStep, PTL DEF Spec

\* Where no request is replacing the session of u, the store holds of u the
\* access token it finds by the details with its refresh token, or nothing.
LEMMA HoldsOne ==
    ASSUME TokenInv, SessionInv, Intact, NEW u \in Users,
           \A r \in Requests : ~(Replacing(r) /\ user[r] = u)
    PROVE  IF current[u] = None
           THEN \A t \in access \union refresh : t.user # u
           ELSE Whole(u)
<1> USE DEF TokenInv
<1>1. ASSUME NEW t \in access, t.user = u PROVE current[u] = t
  BY <1>1 DEF SoloInv, NoStrayAccess, Intact
<1>2. ASSUME NEW t \in refresh, t.user = u PROVE current[u] # None /\ current[u].refresh = t
  BY <1>2 DEF SessionInv, Owned, Replacing
<1>3. \A t \in access : t # None
  BY NoneIsNoToken DEF TypeOK
<1>4. CASE current[u] = None
  BY <1>1, <1>2, <1>3, <1>4
<1>5. CASE current[u] # None
  <2>1. current[u] \in access /\ current[u].user = u
    BY <1>5 DEF SessionInv, Stored, ShapeInv
  <2>2. current[u].refresh \in refresh /\ current[u].refresh.user = u
    BY <1>5 DEF SoloInv, Refreshable, Intact, Replacing, ShapeInv
  <2>3. {t \in access : t.user = u} = {current[u]}
    BY <1>1, <2>1
  <2>4. {t \in refresh : t.user = u} = {current[u].refresh}
    BY <1>2, <2>2
  <2> QED
    BY <1>5, <2>3, <2>4 DEF Whole
<1> QED
  BY <1>4, <1>5

\* Between requests the store holds of every user one session and nothing else.
OneSession ==
    Intact /\ (\A r \in Requests : ~Busy(r)) =>
        \A u \in Users :
            IF current[u] = None
            THEN \A t \in access \union refresh : t.user # u
            ELSE Whole(u)

\* Whatever was granted, reused or refreshed, no token is left in the store that
\* its user's next refresh does not take back.
THEOREM SessionsAreWhole == Spec => []OneSession
<1>1. TokenInv /\ SessionInv => OneSession
  <2> SUFFICES ASSUME TokenInv, SessionInv, Intact, \A r \in Requests : ~Busy(r), NEW u \in Users
               PROVE  IF current[u] = None
                      THEN \A t \in access \union refresh : t.user # u
                      ELSE Whole(u)
    BY DEF OneSession
  <2>1. \A r \in Requests : ~(Replacing(r) /\ user[r] = u)
    BY DEF Busy, Replacing
  <2> QED
    BY <2>1, HoldsOne
<1> QED
  BY <1>1, SessionInvariant, PTL

-----------------------------------------------------------------------------
(* The token service implements Sessions.                                  *)

\* The abstract state as r sees it, when no other request is under way.
SeenBy(r) == [u \in Users |-> IF Replacing(r) /\ user[r] = u THEN old[r] ELSE current[u]]
AskedBy(r) == IF Admitted(r) THEN presented[r] ELSE None

Alike(r) ==
    Intact /\ (\A q \in Requests \ {r} : at[q] = "idle") =>
        SessionMap = SeenBy(r) /\ AdmittedMap = AskedBy(r)

Views == \A r \in Requests : Alike(r)

LEMMA View == TokenInv /\ SessionInv => Views
<1> SUFFICES ASSUME TokenInv, SessionInv, Intact, NEW r \in Requests,
                    \A q \in Requests \ {r} : at[q] = "idle"
             PROVE  SessionMap = SeenBy(r) /\ AdmittedMap = AskedBy(r)
  BY DEF Views, Alike
<1>1. Busy(r) => Under = r
  BY DEF Under, Busy
<1>2. \A q \in Requests : Replacing(q) \/ Admitted(q) => q = r /\ Busy(r)
  BY DEF Replacing, Admitted, Busy
<1>3. ASSUME NEW u \in Users
      PROVE  SessionOf(u) = IF Replacing(r) /\ user[r] = u THEN old[r] ELSE current[u]
  <2>1. CASE Replacing(r) /\ user[r] = u
    BY <1>1, <1>2, <2>1 DEF SessionOf
  <2>2. CASE ~(Replacing(r) /\ user[r] = u)
    <3>1. \A q \in Requests : ~(Replacing(q) /\ user[q] = u)
      BY <1>2, <2>2
    <3>2. current[u] # None => Whole(u)
      BY <3>1, HoldsOne
    <3>3. Whole(u) => current[u] # None
      BY DEF Whole
    <3> QED
      BY <2>2, <3>1, <3>2, <3>3 DEF SessionOf
  <2> QED
    BY <2>1, <2>2
<1>4. SessionMap = SeenBy(r)
  BY <1>3 DEF SessionMap, SeenBy
<1>5. AdmittedMap = AskedBy(r)
  BY <1>1, <1>2 DEF AdmittedMap, AskedBy
<1> QED
  BY <1>4, <1>5

LEMMA ViewNext == TokenInv' /\ SessionInv' => Views'
BY View, PTL

\* A step of which the abstract state shows nothing.
LEMMA Unseen ==
    ASSUME SessionMap' = SessionMap, AdmittedMap' = AdmittedMap, Intact' = Intact, now' = now
    PROVE  UNCHANGED Promise!vars
BY DEF Promise!vars

\* What a step that leaves the service intact is taken in: r is the only
\* request, and the abstract state is what r sees before it and after it.
InTurn(r) ==
    /\ TypeOK /\ Shape(r) /\ Knows(r) /\ Carries(r)
    /\ \A t \in refresh : Owned(t)
    /\ \A q \in Requests \ {r} : at[q] = "idle"
    /\ Intact /\ Intact'
    /\ SessionMap = SeenBy(r) /\ SessionMap' = SeenBy(r)'
    /\ AdmittedMap = AskedBy(r) /\ AdmittedMap' = AskedBy(r)'

LEMMA TakesTurn ==
    ASSUME TokenInv, SessionInv, TokenInv', SessionInv',
           NEW r \in Requests, Moves(r), ~Refuse(r), Intact'
    PROVE  InTurn(r)
<1> USE DEF TokenInv
<1>1. Intact /\ ~overlapped /\ ~overlapped'
  BY HistoryMoves DEF Intact
<1>2. \A q \in Requests \ {r} : at[q] = "idle" /\ at'[q] = "idle"
  BY <1>1, Alone
<1>3. Knows(r) /\ Carries(r) /\ Shape(r) /\ \A t \in refresh : Owned(t)
  BY <1>1 DEF SoloInv, ShapeInv, SessionInv
<1>4. SessionMap = SeenBy(r) /\ AdmittedMap = AskedBy(r)
  BY <1>1, <1>2, View DEF Views, Alike
<1>5. SessionMap' = SeenBy(r)' /\ AdmittedMap' = AskedBy(r)'
  BY <1>2, ViewNext DEF Views, Alike
<1> QED
  BY <1>1, <1>2, <1>3, <1>4, <1>5 DEF InTurn

\* r sees what it saw.
LEMMA SeesTheSame ==
    ASSUME NEW r \in Requests, InTurn(r), UNCHANGED now,
           \A u \in Users : SeenBy(r)'[u] = SeenBy(r)[u],
           AskedBy(r)' = AskedBy(r)
    PROVE  UNCHANGED Promise!vars
<1>1. SeenBy(r)' = SeenBy(r)
  BY DEF SeenBy
<1> QED
  BY <1>1, Unseen DEF InTurn

\* What is looked up, taken away or made is not seen from outside.
LEMMA StepsUnseen ==
    ASSUME NEW r \in Requests, InTurn(r),
           \/ \E u \in Users : Grant(r, u)
           \/ \E t \in refresh \union used : Refresh(r, t)
           \/ GetExisting(r) \/ Reuse(r) \/ ReadDetails(r) \/ GetOld(r)
           \/ RemoveAccess(r) \/ RemoveRefresh(r) \/ Make(r) \/ StoreAccess(r)
    PROVE  UNCHANGED Promise!vars
<1> USE DEF InTurn
<1>1. CASE \E u \in Users : Grant(r, u)
  <2>1. /\ UNCHANGED <<now, current, old>> /\ at[r] = "idle" /\ at'[r] = "get"
        /\ call'[r] = "grant"
    BY <1>1 DEF Grant, Enter, Busy, store, TypeOK
  <2> QED
    BY <2>1, SeesTheSame DEF SeenBy, AskedBy, Replacing, Admitted
<1>2. CASE \E t \in refresh \union used : Refresh(r, t)
  <2>1. /\ UNCHANGED <<now, current, old>> /\ at[r] = "idle" /\ at'[r] = "read"
    BY <1>2 DEF Refresh, Enter, Busy, store, TypeOK
  <2> QED
    BY <2>1, SeesTheSame DEF SeenBy, AskedBy, Replacing, Admitted
<1>3. CASE GetExisting(r)
  <2>1. /\ UNCHANGED <<now, current, user, call>> /\ at[r] = "get"
        /\ at'[r] \in {"make", "removeAccess", "reuse"}
        /\ at'[r] = "make" => current[user[r]] = None
        /\ old'[r] = current[user[r]] /\ call[r] = "grant"
    BY <1>3 DEF GetExisting, GoOn, store, Shape, TypeOK
  <2> QED
    BY <2>1, SeesTheSame DEF SeenBy, AskedBy, Replacing, Admitted
<1>4. CASE Reuse(r)
  <2>1. /\ UNCHANGED <<now, current, call>> /\ at[r] = "reuse" /\ at'[r] = "idle"
        /\ call[r] = "grant"
    BY <1>4 DEF Reuse, Leave, Knows, Shape, TypeOK
  <2> QED
    BY <2>1, SeesTheSame DEF SeenBy, AskedBy, Replacing, Admitted
<1>5. CASE ReadDetails(r)
  <2>1. /\ UNCHANGED <<now, current, user, call, presented>> /\ at[r] = "details"
        /\ at'[r] = "getOld"
    BY <1>5 DEF ReadDetails, GoOn, Knows, store, TypeOK
  <2> QED
    BY <2>1, SeesTheSame DEF SeenBy, AskedBy, Replacing, Admitted
<1>6. CASE GetOld(r)
  <2>1. /\ UNCHANGED <<now, current, user, call, presented>> /\ at[r] = "getOld"
        /\ call[r] = "refresh" /\ at'[r] = "removeAccess"
    BY <1>6 DEF GetOld, GoOn, Carries, Shape, store, TypeOK
  <2> QED
    BY <2>1, SeesTheSame DEF SeenBy, AskedBy, Replacing, Admitted
<1>7. CASE RemoveAccess(r)
  <2>1. /\ UNCHANGED <<now, user, call, presented, old>> /\ at[r] = "removeAccess"
        /\ at'[r] = "removeRefresh" /\ current[user[r]] = old[r]
        /\ \A u \in Users \ {user[r]} : current'[u] = current[u]
    BY <1>7 DEF RemoveAccess, GoOn, Knows, TypeOK
  <2> QED
    BY <2>1, SeesTheSame DEF SeenBy, AskedBy, Replacing, Admitted
<1>8. CASE RemoveRefresh(r) \/ Make(r) \/ StoreAccess(r)
  <2>1. /\ UNCHANGED <<now, user, call, presented, old>>
        /\ at[r] \in {"removeRefresh", "make", "storeAccess"}
        /\ at'[r] \in {"make", "storeAccess", "storeRefresh"}
        /\ \A u \in Users \ {user[r]} : current'[u] = current[u]
    BY <1>8 DEF RemoveRefresh, Make, StoreAccess, GoOn, store, TypeOK
  <2> QED
    BY <2>1, SeesTheSame DEF SeenBy, AskedBy, Replacing, Admitted
<1> QED
  BY <1>1, <1>2, <1>3, <1>4, <1>5, <1>6, <1>7, <1>8

\* A refresh token that is valid is that of its user's session.
LEMMA StepRead ==
    ASSUME NEW r \in Requests, InTurn(r), ReadRefresh(r)
    PROVE  [Promise!Next]_(Promise!vars)
<1> USE DEF InTurn
<1> DEFINE u == user[r]
<1>1. /\ at[r] = "read" /\ UNCHANGED <<now, current>>
      /\ u \in Users /\ presented[r] # None /\ presented[r].user = u
      /\ call[r] = "refresh"
  BY DEF ReadRefresh, Leave, GoOn, store, Shape, TypeOK
<1>2. CASE presented[r] \in refresh /\ ~IsExpired(presented[r])
  <2>1. at'[r] = "details" /\ UNCHANGED <<user, call, presented, old>>
    BY <1>2 DEF ReadRefresh, GoOn, TypeOK
  <2>2. current[u] # None /\ current[u].refresh = presented[r]
    BY <1>1, <1>2 DEF Owned
  <2>3. SeenBy(r)' = SeenBy(r) /\ SeenBy(r)[u] = current[u]
    BY <1>1, <2>1 DEF SeenBy, Replacing
  <2>4. AskedBy(r) = None /\ AskedBy(r)' = presented[r]
    BY <1>1, <2>1 DEF AskedBy, Admitted
  <2>5. Promise!Admit(u)
    BY <1>1, <1>2, <2>2, <2>3, <2>4 DEF Promise!Admit, Promise!IsExpired, IsExpired
  <2> QED
    BY <1>1, <2>5 DEF Promise!Next
<1>3. CASE ~(presented[r] \in refresh /\ ~IsExpired(presented[r]))
  <2>1. at'[r] = "idle"
    BY <1>3 DEF ReadRefresh, Leave, TypeOK
  <2> QED
    BY <1>1, <2>1, SeesTheSame DEF SeenBy, AskedBy, Replacing, Admitted
<1> QED
  BY <1>2, <1>3

\* The session is replaced when its refresh token is stored.
LEMMA StepComplete ==
    ASSUME NEW r \in Requests, InTurn(r), StoreRefresh(r)
    PROVE  Promise!Next
<1> USE DEF InTurn
<1> DEFINE u == user[r]
<1>1. /\ at[r] = "storeRefresh" /\ at'[r] = "idle" /\ UNCHANGED <<now, current, call>>
  BY DEF StoreRefresh, Leave, TypeOK
<1>2. /\ u \in Users /\ current[u] = made[r] /\ made[r] # None /\ made[r] \in Accesses
      /\ made[r].user = u /\ made[r].refresh.user = u
      /\ made[r].expires <= now + AccessValidity
  BY <1>1 DEF Knows, Carries, Shape, TypeOK
<1>3. /\ SessionMap \in [Users -> Accesses \union {None}]
      /\ SessionMap[u] = old[r]
      /\ SessionMap' = [SessionMap EXCEPT ![u] = made[r]]
  <2>1. SeenBy(r)[u] = old[r] /\ SeenBy(r)' = [SeenBy(r) EXCEPT ![u] = made[r]]
    BY <1>1, <1>2 DEF SeenBy, Replacing
  <2>2. SeenBy(r) \in [Users -> Accesses \union {None}]
    BY DEF SeenBy, TypeOK
  <2> QED
    BY <2>1, <2>2
<1>4. SessionMap'[u] = made[r]
  BY <1>2, <1>3
<1>5. Promise!Begin(u)
  BY <1>2, <1>3, <1>4 DEF Promise!Begin, Promise!Accesses, Promise!Refreshes, Accesses, Refreshes
<1>6. AdmittedMap' = None
  BY <1>1 DEF AskedBy, Admitted
<1>7. CASE call[r] = "grant"
  <2>1. AdmittedMap = None
    BY <1>7 DEF AskedBy, Admitted
  <2>2. old[r] # None => IsExpired(old[r])
    BY <1>1, <1>7 DEF Carries, Replacing
  <2>3. \/ made[r].refresh.expires <= now + RefreshValidity /\ (old[r] # None => IsExpired(old[r].refresh))
        \/ old[r] # None /\ made[r].refresh = old[r].refresh
    BY <1>2, <1>7 DEF Carries
  <2>4. Promise!Open(u)
    BY <1>1, <1>3, <1>4, <1>5, <1>6, <2>1, <2>2, <2>3
       DEF Promise!Open, Promise!NewRefresh, Promise!IsExpired, IsExpired
  <2> QED
    BY <1>2, <2>4 DEF Promise!Next
<1>8. CASE call[r] = "refresh"
  <2>1. AdmittedMap = presented[r]
    BY <1>1, <1>8 DEF AskedBy, Admitted
  <2>2. old[r] # None /\ old[r].refresh = presented[r]
    BY <1>1, <1>8 DEF Carries, Replacing
  <2>3. made[r].refresh.expires <= now + RefreshValidity
    BY <1>2, <1>8 DEF Carries
  <2>4. Promise!Renew(u)
    BY <1>1, <1>3, <1>4, <1>5, <1>6, <2>1, <2>2, <2>3
       DEF Promise!Renew, Promise!NewRefresh
  <2> QED
    BY <1>2, <2>4 DEF Promise!Next
<1> QED
  BY <1>7, <1>8 DEF TypeOK

\* Requests that overlap, or one that breaks off, end the promise for good.
LEMMA StepDisturbed ==
    ASSUME TypeOK, NEW r \in Requests, Moves(r), ~Intact'
    PROVE  [Promise!Next]_(Promise!vars)
<1>1. now' = now
  BY DEF Moves, Grant, Refresh, Enter, Refuse, Break, Step, GetExisting, Reuse, ReadRefresh,
         ReadDetails, GetOld, RemoveAccess, RemoveRefresh, Make, StoreAccess, StoreRefresh,
         GoOn, Leave
<1>2. SessionMap' = [u \in Users |-> None] /\ AdmittedMap' = None
  BY DEF SessionMap, AdmittedMap
<1>3. CASE Intact
  <2>1. Promise!Disturb
    BY <1>1, <1>2, <1>3 DEF Promise!Disturb
  <2> QED
    BY <2>1 DEF Promise!Next
<1>4. CASE ~Intact
  <2>1. SessionMap = [u \in Users |-> None] /\ AdmittedMap = None
    BY <1>4 DEF SessionMap, AdmittedMap
  <2>2. Intact' = Intact
    BY <1>4 DEF Intact
  <2>3. SessionMap' = SessionMap /\ AdmittedMap' = AdmittedMap
    BY <1>2, <2>1
  <2>4. UNCHANGED Promise!vars
    BY <1>1, <2>2, <2>3, Unseen
  <2> QED
    BY <2>4
<1> QED
  BY <1>3, <1>4

\* As long as requests come one at a time and none breaks off, what the service
\* does in ten store operations, and may be seen to do between any two of them,
\* is to open sessions and to renew them by their own refresh tokens.
THEOREM Implementation == Spec => ImplementsSessions
<1>1. Init => Promise!Init
  <2> SUFFICES ASSUME Init PROVE Promise!Init
    OBVIOUS
  <2>1. \A r \in Requests : ~Replacing(r) /\ ~Admitted(r)
    BY DEF Init, Replacing, Admitted
  <2>2. \A u \in Users : SessionOf(u) = None
    BY <2>1 DEF Init, SessionOf, Whole
  <2> QED
    BY <2>1, <2>2 DEF Init, Promise!Init, Intact, SessionMap, AdmittedMap
<1>2. ASSUME TokenInv, SessionInv, TokenInv', SessionInv', [Next]_vars
      PROVE  [Promise!Next]_(Promise!vars)
  <2>1. CASE UNCHANGED <<at, call, user, presented, old, store, overlapped, broken>>
    <3>1. SessionMap' = SessionMap /\ AdmittedMap' = AdmittedMap /\ Intact' = Intact
      BY <2>1 DEF SessionMap, AdmittedMap, Intact, SessionOf, Whole, Replacing, Admitted, Under,
                  Busy, store
    <3>2. CASE now' = now
      BY <3>1, <3>2, Unseen
    <3>3. CASE now' = now + 1
      <4>1. Promise!Tick
        BY <3>1, <3>3 DEF Promise!Tick
      <4> QED
        BY <4>1 DEF Promise!Next
    <3>4. now' = now \/ now' = now + 1
      BY <1>2 DEF Next, Tick, Grant, Refresh, Enter, Refuse, Break, Step, GetExisting, Reuse,
                  ReadRefresh, ReadDetails, GetOld, RemoveAccess, RemoveRefresh, Make,
                  StoreAccess, StoreRefresh, GoOn, Leave, vars
    <3> QED
      BY <3>2, <3>3, <3>4
  <2>2. CASE Tick \/ UNCHANGED vars
    BY <2>1, <2>2 DEF Tick, vars, locals
  <2>3. ASSUME NEW r \in Requests, Moves(r) PROVE [Promise!Next]_(Promise!vars)
    <3>1. CASE Refuse(r)
      BY <2>1, <3>1 DEF Refuse, locals
    <3>2. CASE ~Intact'
      BY <1>2, <2>3, <3>2, StepDisturbed DEF TokenInv
    <3>3. CASE ~Refuse(r) /\ Intact'
      <4>1. InTurn(r)
        BY <1>2, <2>3, <3>3, TakesTurn
      <4>2. ~Break(r)
        BY <3>3 DEF Break, Intact
      <4> QED
        BY <2>3, <3>3, <4>1, <4>2, StepsUnseen, StepRead, StepComplete DEF Moves, Step
    <3> QED
      BY <3>1, <3>2, <3>3
  <2> QED
    BY <1>2, <2>2, <2>3 DEF Next, Moves
<1> QED
  BY <1>1, <1>2, SessionInvariant, PTL DEF Spec, ImplementsSessions, Promise!Spec
=============================================================================
