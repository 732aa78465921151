---------------------------- MODULE TokenService ----------------------------
(***************************************************************************)
(* DefaultTokenService over a TokenStore that stores: the creation, reuse  *)
(* and refresh of tokens by several requests at once.  main.go wires the   *)
(* service to a store whose operations panic (see OAuthService); this is   *)
(* the same service over the store its interface describes (external).     *)
(*                                                                         *)
(* A step is one call of the store; a request may end between two of them, *)
(* because a store operation panics and net/http recovers.  A token is     *)
(* what it is made of.  Without an enhancer it has a UUID, which the JWT   *)
(* enhancer overwrites with its signed claims: the client with the user,   *)
(* the expiry in whole seconds and, in an access token, the refresh token  *)
(* with its exact expiry.  So a refresh token has nothing that is unique,  *)
(* and an access token only what its refresh token brings along.           *)
(***************************************************************************)
EXTENDS Naturals

CONSTANTS
    Requests,         \* connections; each carries one request after another
    Users,            \* OAuth2Details: a user together with a client
    AccessValidity,   \* AccessTokenValiditySeconds of the client
    RefreshValidity,  \* RefreshTokenValiditySeconds
    MaxNow,           \* bound: seconds
    MaxSerial,        \* bound: creations
    None

ASSUME TimesAreNat == {AccessValidity, RefreshValidity, MaxNow, MaxSerial} \subseteq Nat

Refreshes == [user : Users, expires : Nat, serial : Nat]
Accesses == [user : Users, expires : Nat, serial : Nat, refresh : Refreshes]
ASSUME NoneIsNoToken == None \notin Refreshes \union Accesses \union Users

VARIABLES
    enhancer,   \* "jwt", or "none": the token keeps its UUID
    now,        \* seconds
    serial,     \* the next UUID
    at,         \* at[r]: the store call that r makes next, or "idle"
    call,       \* call[r]: "grant" (CreateAccessToken) or "refresh"
    user,       \* user[r]: oauth2Details
    presented,  \* presented[r]: the refresh token of the request
    old,        \* old[r]: the access token that GetAccessToken returned
    made,       \* made[r]: the new access token, with its refresh token
    reply,      \* reply[r]: what the last request on r was answered
    access,     \* the store: access tokens, by value
    current,    \* the store: current[u], the access token by details
    refresh,    \* the store: refresh tokens
    used,       \* history: refresh tokens removed because they were used
    overlapped, \* history: two requests were in the service at once
    grantRaced, \* history: one of two such requests was a grant
    broken      \* history: a request ended between two store calls

locals == <<call, user, presented, old, made>>
store == <<access, current, refresh>>
vars == <<enhancer, now, serial, at, locals, reply, store, used, overlapped, grantRaced, broken>>

Init ==
    /\ enhancer \in {"none", "jwt"}
    /\ now = 0
    /\ serial = 1
    /\ at = [r \in Requests |-> "idle"]
    /\ call = [r \in Requests |-> "grant"]
    /\ user = [r \in Requests |-> None]
    /\ presented = [r \in Requests |-> None]
    /\ old = [r \in Requests |-> None]
    /\ made = [r \in Requests |-> None]
    /\ reply = [r \in Requests |-> "none"]
    /\ access = {}
    /\ current = [u \in Users |-> None]
    /\ refresh = {}
    /\ used = {}
    /\ overlapped = FALSE
    /\ grantRaced = FALSE
    /\ broken = FALSE

\* OAuth2Token.IsExpired.
IsExpired(t) == t.expires < now

Tick ==
    /\ now < MaxNow
    /\ now' = now + 1
    /\ UNCHANGED <<enhancer, serial, at, locals, reply, store, used, overlapped, grantRaced, broken>>

-----------------------------------------------------------------------------
(* The granters: a request comes in, and goes.                             *)

Busy(r) == at[r] # "idle"

\* r enters the service at step s with call c, alone or beside another request.
Enter(r, s, c) ==
    /\ ~Busy(r)
    /\ at' = [at EXCEPT ![r] = s]
    /\ call' = [call EXCEPT ![r] = c]
    /\ reply' = [reply EXCEPT ![r] = "none"]
    /\ overlapped' = (overlapped \/ \E q \in Requests : Busy(q))
    /\ grantRaced' = (grantRaced \/ \E q \in Requests : Busy(q) /\ "grant" \in {c, call[q]})
    /\ UNCHANGED <<enhancer, now, serial, old, made, store, used, broken>>

\* The password grant of a user whose password is right.
Grant(r, u) ==
    /\ Enter(r, "get", "grant")
    /\ user' = [user EXCEPT ![r] = u]
    /\ UNCHANGED presented

\* The refresh grant with a token that is, or was, in the store.
Refresh(r, t) ==
    /\ Enter(r, "read", "refresh")
    /\ user' = [user EXCEPT ![r] = t.user]
    /\ presented' = [presented EXCEPT ![r] = t]

\* An unknown user, a wrong password, or no token: the granter refuses.
Refuse(r) ==
    /\ ~Busy(r)
    /\ reply' = [reply EXCEPT ![r] = "error"]
    /\ UNCHANGED <<enhancer, now, serial, at, locals, store, used, overlapped, grantRaced, broken>>

\* r is answered a and forgets its locals.
Leave(r, a) ==
    /\ at' = [at EXCEPT ![r] = "idle"]
    /\ reply' = [reply EXCEPT ![r] = a]
    /\ user' = [user EXCEPT ![r] = None]
    /\ presented' = [presented EXCEPT ![r] = None]
    /\ old' = [old EXCEPT ![r] = None]
    /\ made' = [made EXCEPT ![r] = None]
    /\ UNCHANGED <<enhancer, now, serial, call, overlapped, grantRaced>>

\* r goes on to step s.
GoOn(r, s) ==
    /\ at' = [at EXCEPT ![r] = s]
    /\ UNCHANGED <<enhancer, now, call, user, presented, reply, overlapped, grantRaced, broken>>

\* A store operation panics: what was done stays done.
Break(r) ==
    /\ Busy(r)
    /\ Leave(r, "none")
    /\ broken' = TRUE
    /\ UNCHANGED <<store, used>>

-----------------------------------------------------------------------------
(* CreateAccessToken.                                                      *)

\* Mutant of GetExisting: the error of GetAccessToken is not looked at.
GetExistingUnchecked(r) ==
    /\ at[r] = "get"
    /\ old' = [old EXCEPT ![r] = current[user[r]]]
    /\ GoOn(r, IF current[user[r]] # None /\ IsExpired(current[user[r]])
               THEN "removeAccess" ELSE "reuse")
    /\ UNCHANGED <<serial, made, store, used>>

\* GetAccessToken: none yet, one to reuse, or one that has expired.
GetExisting(r) ==
    /\ at[r] = "get"
    /\ old' = [old EXCEPT ![r] = current[user[r]]]
    /\ GoOn(r, IF current[user[r]] = None THEN "make"
               ELSE IF IsExpired(current[user[r]]) THEN "removeAccess" ELSE "reuse")
    /\ UNCHANGED <<serial, made, store, used>>

\* StoreAccessToken of the token that exists, which is also the answer.
Reuse(r) ==
    /\ at[r] = "reuse"
    /\ access' = access \union {old[r]}
    /\ current' = [current EXCEPT ![user[r]] = old[r]]
    /\ Leave(r, "token")
    /\ UNCHANGED <<refresh, used, broken>>

-----------------------------------------------------------------------------
(* RefreshAccessToken.                                                     *)

\* Mutant of ReadRefresh: the token is taken out where it is read.
ReadRefreshAndRemove(r) ==
    /\ at[r] = "read"
    /\ refresh' = refresh \ {presented[r]}
    /\ IF presented[r] \in refresh /\ ~IsExpired(presented[r])
       THEN GoOn(r, "details") /\ UNCHANGED <<serial, old, made>>
       ELSE Leave(r, "error") /\ UNCHANGED broken
    /\ UNCHANGED <<access, current, used>>

\* ReadRefreshToken and IsExpired.
ReadRefresh(r) ==
    /\ at[r] = "read"
    /\ IF presented[r] \in refresh /\ ~IsExpired(presented[r])
       THEN GoOn(r, "details") /\ UNCHANGED <<serial, old, made>>
       ELSE Leave(r, "error") /\ UNCHANGED broken
    /\ UNCHANGED <<store, used>>

\* ReadOAuth2DetailsForRefreshToken; its error is one of an inner scope, so
\* without details the answer is neither a token nor an error.
ReadDetails(r) ==
    /\ at[r] = "details"
    /\ IF presented[r] \in refresh
       THEN GoOn(r, "getOld") /\ UNCHANGED <<serial, old, made>>
       ELSE Leave(r, "nothing") /\ UNCHANGED broken
    /\ UNCHANGED <<store, used>>

\* Mutant of GetOld: the access token in use is left to expire.
GetOldAndKeep(r) ==
    /\ at[r] = "getOld"
    /\ old' = [old EXCEPT ![r] = current[user[r]]]
    /\ GoOn(r, "removeRefresh")
    /\ UNCHANGED <<serial, made, store, used>>

\* GetAccessToken of those details.
GetOld(r) ==
    /\ at[r] = "getOld"
    /\ old' = [old EXCEPT ![r] = current[user[r]]]
    /\ GoOn(r, IF current[user[r]] = None THEN "removeRefresh" ELSE "removeAccess")
    /\ UNCHANGED <<serial, made, store, used>>

-----------------------------------------------------------------------------
(* What both do.                                                           *)

\* RemoveAccessToken.
RemoveAccess(r) ==
    /\ at[r] = "removeAccess"
    /\ access' = access \ {old[r]}
    /\ current' = [current EXCEPT ![user[r]] = IF @ = old[r] THEN None ELSE @]
    /\ GoOn(r, "removeRefresh")
    /\ UNCHANGED <<serial, old, made, refresh, used>>

\* Mutant of RemoveRefresh: a used token is left to expire.
RemoveRefreshNot(r) ==
    /\ at[r] = "removeRefresh"
    /\ UNCHANGED refresh
    /\ used' = IF call[r] = "refresh" THEN used \union {presented[r]} ELSE used
    /\ GoOn(r, "make")
    /\ UNCHANGED <<serial, old, made, access, current>>

\* RemoveRefreshToken: of the expired access token, or the one presented.
RemoveRefresh(r) ==
    /\ at[r] = "removeRefresh"
    /\ refresh' = refresh \ {IF call[r] = "refresh" THEN presented[r] ELSE old[r].refresh}
    /\ used' = IF call[r] = "refresh" THEN used \union {presented[r]} ELSE used
    /\ GoOn(r, "make")
    /\ UNCHANGED <<serial, old, made, access, current>>

\* A grant keeps the refresh token of an expired access token while it lasts.
KeepsRefresh(r) == call[r] = "grant" /\ old[r] # None /\ ~IsExpired(old[r].refresh)

\* What tells a new token from others with the same claims (see above).
Unique == IF enhancer = "jwt" THEN 0 ELSE serial
UniqueAccess(r) == IF enhancer = "jwt" /\ KeepsRefresh(r) THEN 0 ELSE serial

\* createRefreshToken.
NewRefresh(r) ==
    [user |-> user[r], expires |-> now + RefreshValidity, serial |-> Unique]

RefreshToMake(r) == IF KeepsRefresh(r) THEN old[r].refresh ELSE NewRefresh(r)

\* createAccessToken, with the refresh token it is given.
Make(r) ==
    /\ at[r] = "make"
    /\ serial < MaxSerial
    /\ serial' = serial + 1
    /\ made' = [made EXCEPT ![r] =
                  [user |-> user[r], expires |-> now + AccessValidity,
                   serial |-> UniqueAccess(r), refresh |-> RefreshToMake(r)]]
    /\ GoOn(r, "storeAccess")
    /\ UNCHANGED <<old, store, used>>

\* StoreAccessToken of the new token.
StoreAccess(r) ==
    /\ at[r] = "storeAccess"
    /\ access' = access \union {made[r]}
    /\ current' = [current EXCEPT ![user[r]] = made[r]]
    /\ GoOn(r, "storeRefresh")
    /\ UNCHANGED <<serial, old, made, refresh, used>>

\* Mutant of StoreRefresh: a refresh token that was kept counts as stored.
StoreRefreshIfNew(r) ==
    /\ at[r] = "storeRefresh"
    /\ refresh' = IF old[r] # None /\ made[r].refresh = old[r].refresh
                  THEN refresh ELSE refresh \union {made[r].refresh}
    /\ Leave(r, "token")
    /\ UNCHANGED <<access, current, used, broken>>

\* StoreRefreshToken; then the new token is the answer.
StoreRefresh(r) ==
    /\ at[r] = "storeRefresh"
    /\ refresh' = refresh \union {made[r].refresh}
    /\ Leave(r, "token")
    /\ UNCHANGED <<access, current, used, broken>>

-----------------------------------------------------------------------------
Step(r) ==
    \/ GetExisting(r)
    \/ Reuse(r)
    \/ ReadRefresh(r)
    \/ ReadDetails(r)
    \/ GetOld(r)
    \/ RemoveAccess(r)
    \/ RemoveRefresh(r)
    \/ Make(r)
    \/ StoreAccess(r)
    \/ StoreRefresh(r)

Next ==
    \/ Tick
    \/ \E r \in Requests :
          \/ \E u \in Users : Grant(r, u)
          \/ \E t \in refresh \union used : Refresh(r, t)
          \/ Refuse(r)
          \/ Break(r)
          \/ Step(r)

Spec == Init /\ [][Next]_vars

-----------------------------------------------------------------------------
(* Properties.  Most say what requests that do not overlap rely on: each   *)
(* of them is lost when two run side by side, since no step is guarded.    *)

Steps == {"get", "reuse", "read", "details", "getOld", "removeAccess",
          "removeRefresh", "make", "storeAccess", "storeRefresh"}

\* Every variable keeps its type.
TypeOK ==
    /\ enhancer \in {"none", "jwt"}
    /\ now \in Nat /\ serial \in Nat
    /\ at \in [Requests -> Steps \union {"idle"}]
    /\ call \in [Requests -> {"grant", "refresh"}]
    /\ user \in [Requests -> Users \union {None}]
    /\ presented \in [Requests -> Refreshes \union {None}]
    /\ old \in [Requests -> Accesses \union {None}]
    /\ made \in [Requests -> Accesses \union {None}]
    /\ reply \in [Requests -> {"none", "error", "nothing", "token"}]
    /\ access \subseteq Accesses
    /\ current \in [Users -> Accesses \union {None}]
    /\ refresh \subseteq Refreshes
    /\ used \subseteq Refreshes
    /\ overlapped \in BOOLEAN /\ grantRaced \in BOOLEAN /\ broken \in BOOLEAN

\* A user's access token that is still accepted is the one that the next
\* refresh will take back: none is left over that nothing can remove.
NoStrayAccess ==
    ~overlapped => \A t \in access : current[t.user] = t

\* With UUIDs a refresh token that was used is never accepted again, whatever is
\* granted, reused or breaks off afterwards, and though other refreshes raced
\* with its own.  (A grant that raced may store it once more; and two refresh
\* tokens made for one user within a second are the same JWT, so a refresh may
\* put back the token that it has just removed.)
UsedStaysUsed ==
    ~grantRaced /\ enhancer = "none" => used \cap refresh = {}

\* Whoever was given an access token can refresh it, between requests, unless
\* one broke off between removing the old tokens and storing the new.
CurrentIsRefreshable ==
    ~overlapped /\ ~broken /\ (\A r \in Requests : ~Busy(r)) =>
        \A u \in Users : current[u] # None => current[u].refresh \in refresh

\* A refresh that is answered with neither a token nor an error met another
\* request that removed its token between the two reads.
NothingNeedsOverlap == \A r \in Requests : reply[r] = "nothing" => overlapped

\* As long as no two requests of any user have overlapped, an access token that
\* has not expired is replaced only by a refresh: password grants keep returning
\* it.  (Two grants at once that both find an expired token do replace each
\* other's new one.)
LiveTokenIsKept ==
    [][\A u \in Users :
          ~overlapped /\ current[u] # None /\ ~IsExpired(current[u]) /\ current'[u] # current[u] =>
              \E r \in Requests : call[r] = "refresh" /\ user[r] = u /\ Busy(r)]_vars

-----------------------------------------------------------------------------
(* The refinement.                                                         *)

Intact == ~overlapped /\ ~broken

\* The request under way, of which there is one at most while Intact.
Under == CHOOSE r \in Requests : Busy(r)

\* r has taken the old access token away and the new tokens are not complete.
Replacing(r) == at[r] \in {"removeRefresh", "make", "storeAccess", "storeRefresh"}

\* A session is all that the store holds of u.
Whole(u) ==
    /\ current[u] # None
    /\ {t \in access : t.user = u} = {current[u]}
    /\ {t \in refresh : t.user = u} = {current[u].refresh}

\* The session of u is what the store holds of it, and what the store held
\* while a request replaces it.
SessionOf(u) ==
    IF \E r \in Requests : Replacing(r) /\ user[r] = u THEN old[Under]
    ELSE IF Whole(u) THEN current[u] ELSE None

\* r has read its refresh token and found it valid.
Admitted(r) == call[r] = "refresh" /\ at[r] \notin {"idle", "read"}

SessionMap == [u \in Users |-> IF Intact THEN SessionOf(u) ELSE None]
AdmittedMap ==
    IF Intact /\ \E r \in Requests : Admitted(r) THEN presented[Under] ELSE None

Promise == INSTANCE Sessions WITH
    session <- SessionMap, admitted <- AdmittedMap, intact <- Intact

\* As long as requests come one at a time and none breaks off, the service is
\* the one of Sessions.tla: the store's ten operations amount to sessions that
\* are opened and renewed at once, by nothing but their own refresh token, and
\* a refresh that was accepted is carried out.
ImplementsSessions == Promise!Spec
=============================================================================
