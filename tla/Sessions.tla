------------------------------ MODULE Sessions ------------------------------
(***************************************************************************)
(* What clients of the token service rely on, said without a store or its  *)
(* operations: a user has at most one session, which is an access token    *)
(* with its refresh token.  A session is opened when there is none that    *)
(* lasts, and renewed by its own refresh token and no other; either takes  *)
(* the place of the old session at once, and no request is left half done. *)
(* TokenService.tla implements it, as long as requests come one at a time  *)
(* and none breaks off.                                                    *)
(***************************************************************************)
EXTENDS Naturals

CONSTANTS Users, AccessValidity, RefreshValidity, None

Refreshes == [user : Users, expires : Nat, serial : Nat]
Accesses == [user : Users, expires : Nat, serial : Nat, refresh : Refreshes]

VARIABLES
    now,       \* seconds
    session,   \* session[u]: the access token that stands for u's session
    admitted,  \* the refresh token whose renewal was promised
    intact     \* no request has overlapped another or broken off

vars == <<now, session, admitted, intact>>

IsExpired(t) == t.expires < now

Init ==
    /\ now = 0
    /\ session = [u \in Users |-> None]
    /\ admitted = None
    /\ intact = TRUE

\* From here on u's session is one whose access token was made by now.
Begin(u) ==
    /\ session'[u] \in Accesses
    /\ session'[u].user = u
    /\ session'[u].refresh.user = u
    /\ session'[u].expires <= now + AccessValidity
    /\ session' = [session EXCEPT ![u] = session'[u]]

\* Its refresh token, too, was made by now.
NewRefresh(u) == session'[u].refresh.expires <= now + RefreshValidity

\* A user without a session, or with an access token that has expired, logs in.
\* A refresh token stays with the user for as long as it lasts.
Open(u) ==
    /\ intact
    /\ admitted = None
    /\ session[u] # None => IsExpired(session[u])
    /\ Begin(u)
    /\ \/ session[u] # None /\ session'[u].refresh = session[u].refresh
       \/ (session[u] # None => IsExpired(session[u].refresh)) /\ NewRefresh(u)
    /\ UNCHANGED <<now, admitted, intact>>

\* The refresh token of u's session is accepted before it expires.
Admit(u) ==
    /\ admitted = None
    /\ session[u] # None
    /\ ~IsExpired(session[u].refresh)
    /\ admitted' = session[u].refresh
    /\ UNCHANGED <<now, session, intact>>

\* What was accepted is done: a new session takes the place of the old one.
Renew(u) ==
    /\ session[u] # None
    /\ admitted = session[u].refresh
    /\ Begin(u)
    /\ NewRefresh(u)
    /\ admitted' = None
    /\ UNCHANGED <<now, intact>>

\* Requests overlap, or one breaks off: nothing is promised any more.
Disturb ==
    /\ intact
    /\ intact' = FALSE
    /\ session' = [u \in Users |-> None]
    /\ admitted' = None
    /\ UNCHANGED now

Tick ==
    /\ now' = now + 1
    /\ UNCHANGED <<session, admitted, intact>>

Next ==
    \/ Tick
    \/ Disturb
    \/ \E u \in Users : Open(u) \/ Admit(u) \/ Renew(u)

Spec == Init /\ [][Next]_vars
=============================================================================
