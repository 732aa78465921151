---------------------------- MODULE OAuthService ----------------------------
(***************************************************************************)
(* The endpoints of oauth-service as main.go wires them: the token         *)
(* endpoint (HTTP), the check endpoint (HTTP) and the check endpoint       *)
(* (gRPC) in front of DefaultTokenService over JwtTokenStore.              *)
(*                                                                         *)
(* An HTTP request first has its client looked up in the database, then is *)
(* decoded, then passes the rate limiter, which all three endpoints share, *)
(* and the client middleware; a gRPC request meets the limiter only.       *)
(*                                                                         *)
(* A JWT is not stored anywhere.  Of one with a good signature only its    *)
(* expiry counts, so it is that expiry, in seconds; it was signed by an    *)
(* earlier build or by another holder of the key.  Time runs in half       *)
(* seconds, because two tests of the expiry differ within a second: the    *)
(* JWT library compares whole seconds, IsExpired compares exactly.         *)
(***************************************************************************)
EXTENDS Integers

CONSTANTS
    Requests,     \* connections; each carries one request after another
    Expiries,     \* the expiries of the well-signed tokens, in seconds
    Burst,        \* the limiter's burst (100); it refills one token a second
    MaxNow,       \* bound: half seconds per behaviour
    None          \* no reply yet

ASSUME ExpiriesAreNat == Expiries \subseteq Nat
ASSUME BurstIsNat == Burst \in Nat /\ MaxNow \in Nat

Absent == -2      \* the request carries no token
Forged == -1      \* a token whose signature or encoding is wrong
Tokens == Expiries \union {Absent, Forged}

Kinds == {"password", "refresh_token", "other", "no_grant", "check", "rpc"}
TokenKinds == {"refresh_token", "check", "rpc"}   \* those that read a token
Replies == {"error", "refused", "nothing", "valid", "dropped"}
ASSUME NoneIsNoReply == None \notin Replies

VARIABLES
    now,       \* wall-clock time in half seconds
    bucket,    \* the limiter's tokens, in halves
    up,        \* the process has not panicked
    at,        \* at[r]: where request r is
    kind,      \* kind[r]: its endpoint, and for the token endpoint its grant
    token,     \* token[r]: the token it presents
    client,    \* client[r]: its client was found and the secret matched
    reply,     \* reply[r]: the reply to the last request on r
    admitted,  \* history: requests the limiter let through
    rejected,  \* history: tokens that Extract has refused
    spent      \* history: refresh tokens RemoveRefreshToken was called for

requestVars == <<at, kind, token, client, reply>>
vars == <<now, bucket, up, at, kind, token, client, reply, admitted, rejected, spent>>

Init ==
    /\ now = 0
    /\ bucket = 2 * Burst
    /\ up = TRUE
    /\ at = [r \in Requests |-> "idle"]
    /\ kind = [r \in Requests |-> "other"]
    /\ token = [r \in Requests |-> Absent]
    /\ client = [r \in Requests |-> FALSE]
    /\ reply = [r \in Requests |-> None]
    /\ admitted = 0
    /\ rejected = {}
    /\ spent = {}

-----------------------------------------------------------------------------
(* Tokens, as they read at the current time.                               *)

\* Extract: a good signature, and the current second is not past the expiry.
Readable(t) == t \in Expiries /\ now < 2 * (t + 1)

\* OAuth2Token.IsExpired: the instant of expiry lies in the past.
IsExpired(t) == 2 * t < now

-----------------------------------------------------------------------------
(* Time.                                                                   *)

\* Half a second passes; the limiter refills up to its burst.
Tick ==
    /\ now < MaxNow
    /\ now' = now + 1
    /\ bucket' = IF bucket < 2 * Burst THEN bucket + 1 ELSE bucket
    /\ UNCHANGED <<up, requestVars, admitted, rejected, spent>>

-----------------------------------------------------------------------------
(* Transport and middleware.                                               *)

\* The request on r ends with the reply a; what it carried is forgotten.
Return(r, a) ==
    /\ at' = [at EXCEPT ![r] = "idle"]
    /\ reply' = [reply EXCEPT ![r] = a]
    /\ kind' = [kind EXCEPT ![r] = "other"]
    /\ token' = [token EXCEPT ![r] = Absent]
    /\ client' = [client EXCEPT ![r] = FALSE]

\* r goes on to step s.
GoOn(r, s) ==
    /\ at' = [at EXCEPT ![r] = s]
    /\ UNCHANGED <<kind, token, client, reply>>

\* A request comes in: over HTTP its client is looked up, gRPC has none.
Arrive(r) ==
    /\ at[r] = "idle"
    /\ \E k \in Kinds, t \in Tokens :
          /\ t # Absent => k \in TokenKinds
          /\ kind' = [kind EXCEPT ![r] = k]
          /\ token' = [token EXCEPT ![r] = t]
          /\ at' = [at EXCEPT ![r] = IF k = "rpc" THEN "limiter" ELSE "client"]
    /\ reply' = [reply EXCEPT ![r] = None]
    /\ UNCHANGED <<now, bucket, up, client, admitted, rejected, spent>>

\* makeClientAuthorizationContext: credentials that match, or not (the error
\* is only remembered), or a row that panics in a type assertion, which
\* net/http recovers by dropping the connection.
LookUp(r) ==
    /\ at[r] = "client"
    /\ \/ /\ \E ok \in BOOLEAN : client' = [client EXCEPT ![r] = ok]
          /\ at' = [at EXCEPT ![r] = "limiter"]
          /\ UNCHANGED <<kind, token, reply>>
       \/ Return(r, "dropped")
    /\ UNCHANGED <<now, bucket, up, admitted, rejected, spent>>

\* decodeOathRequest wants a grant type, decodeCheckTokenRequest a token.
Decodes(r) ==
    /\ kind[r] # "no_grant"
    /\ kind[r] = "check" => token[r] # Absent

\* A request that cannot be decoded never gets to the limiter.
BadRequest(r) ==
    /\ at[r] = "limiter"
    /\ ~Decodes(r)
    /\ Return(r, "error")
    /\ UNCHANGED <<now, bucket, up, admitted, rejected, spent>>

\* bkt.Allow() is false.
LimitExceeded(r) ==
    /\ at[r] = "limiter"
    /\ Decodes(r)
    /\ bucket < 2
    /\ Return(r, "error")
    /\ UNCHANGED <<now, bucket, up, admitted, rejected, spent>>

\* Mutant of Admit: the gRPC endpoint has no limiter of its own.
AdmitRpcFree(r) ==
    /\ at[r] = "limiter"
    /\ Decodes(r)
    /\ bucket >= 2
    /\ bucket' = IF kind[r] = "rpc" THEN bucket ELSE bucket - 2
    /\ admitted' = admitted + 1
    /\ IF kind[r] = "rpc" \/ client[r] THEN GoOn(r, "service") ELSE Return(r, "error")
    /\ UNCHANGED <<now, up, rejected, spent>>

\* Mutant of Admit: the token endpoint is built without its client middleware.
AdmitAnyone(r) ==
    /\ at[r] = "limiter"
    /\ Decodes(r)
    /\ bucket >= 2
    /\ bucket' = bucket - 2
    /\ admitted' = admitted + 1
    /\ IF kind[r] # "check" \/ client[r] THEN GoOn(r, "service") ELSE Return(r, "error")
    /\ UNCHANGED <<now, up, rejected, spent>>

\* bkt.Allow() takes a token, then the middleware of the HTTP endpoints wants
\* a client: a request without one has paid too.
Admit(r) ==
    /\ at[r] = "limiter"
    /\ Decodes(r)
    /\ bucket >= 2
    /\ bucket' = bucket - 2
    /\ admitted' = admitted + 1
    /\ IF kind[r] = "rpc" \/ client[r] THEN GoOn(r, "service") ELSE Return(r, "error")
    /\ UNCHANGED <<now, up, rejected, spent>>

-----------------------------------------------------------------------------
(* DefaultTokenService and the granters.                                   *)

\* What Extract refuses is remembered as rejected.
Extract(r) ==
    rejected' = IF Readable(token[r]) THEN rejected ELSE rejected \union {token[r]}

\* GetOAuth2DetailsByAccessToken, over HTTP and gRPC.
Check(r) ==
    /\ at[r] = "service"
    /\ kind[r] \in {"check", "rpc"}
    /\ Return(r, IF Readable(token[r]) THEN "valid" ELSE "refused")
    /\ Extract(r)
    /\ UNCHANGED <<now, bucket, up, admitted, spent>>

\* ComposeTokenGranter knows no such grant.
Unsupported(r) ==
    /\ at[r] = "service"
    /\ kind[r] = "other"
    /\ Return(r, "refused")
    /\ UNCHANGED <<now, bucket, up, admitted, rejected, spent>>

\* The password grant: no username or password, a failed CheckUser, a user
\* without an id; with an instance of the user service the call ends the
\* process (DecoratorInvoke, see Gateway.tla), so CreateAccessToken is never
\* reached.
GrantPassword(r) ==
    /\ at[r] = "service"
    /\ kind[r] = "password"
    /\ \/ Return(r, "refused") /\ UNCHANGED up
       \/ up' = FALSE /\ UNCHANGED requestVars
    /\ UNCHANGED <<now, bucket, admitted, rejected, spent>>

\* RefreshAccessToken up to IsExpired.
ReadRefreshToken(r) ==
    /\ at[r] = "service"
    /\ kind[r] = "refresh_token"
    /\ IF token[r] # Absent THEN Extract(r) ELSE UNCHANGED rejected
    /\ IF Readable(token[r]) /\ ~IsExpired(token[r])
       THEN GoOn(r, "details")
       ELSE Return(r, "refused")
    /\ UNCHANGED <<now, bucket, up, admitted, spent>>

\* Mutant of ReadDetails: the second read does not verify the token again.
ReadDetailsUnverified(r) ==
    /\ at[r] = "details"
    /\ Return(r, "dropped")
    /\ spent' = spent \union {token[r]}
    /\ UNCHANGED <<now, bucket, up, admitted, rejected>>

\* RefreshAccessToken from ReadOAuth2DetailsForRefreshToken on.  A second read
\* that fails is an error of an inner scope: the outer one returns no token
\* and no error.  One that succeeds is followed by RemoveRefreshToken, which
\* panics, so nothing is created.
ReadDetails(r) ==
    /\ at[r] = "details"
    /\ Extract(r)
    /\ IF Readable(token[r])
       THEN Return(r, "dropped") /\ spent' = spent \union {token[r]}
       ELSE Return(r, "nothing") /\ UNCHANGED spent
    /\ UNCHANGED <<now, bucket, up, admitted>>

-----------------------------------------------------------------------------
Handle(r) ==
    \/ LookUp(r)
    \/ BadRequest(r)
    \/ LimitExceeded(r)
    \/ Admit(r)
    \/ Check(r)
    \/ Unsupported(r)
    \/ GrantPassword(r)
    \/ ReadRefreshToken(r)
    \/ ReadDetails(r)

Next ==
    \/ Tick
    \/ up /\ \E r \in Requests : Arrive(r) \/ Handle(r)

Spec == Init /\ [][Next]_vars

-----------------------------------------------------------------------------
(* Properties.                                                             *)

\* Every variable keeps its type; a request is in the service only if its
\* client is known or it came over gRPC, and reads details only for a refresh
\* with a well-signed token; between requests a connection holds nothing.
TypeOK ==
    /\ now \in 0..MaxNow
    /\ bucket \in 0..(2 * Burst)
    /\ up \in BOOLEAN
    /\ at \in [Requests -> {"idle", "client", "limiter", "service", "details"}]
    /\ kind \in [Requests -> Kinds]
    /\ token \in [Requests -> Tokens]
    /\ client \in [Requests -> BOOLEAN]
    /\ reply \in [Requests -> {None} \union Replies]
    /\ admitted \in Nat
    /\ rejected \in SUBSET Tokens
    /\ spent \in SUBSET Expiries
    /\ \A r \in Requests :
          /\ at[r] \in {"service", "details"} => client[r] \/ kind[r] = "rpc"
          /\ at[r] = "idle" => token[r] = Absent /\ ~client[r]
          /\ at[r] # "idle" => reply[r] = None
          /\ at[r] = "details" => kind[r] = "refresh_token" /\ token[r] \in Expiries

\* The three endpoints together never let through more than the burst and one
\* request per elapsed second, whoever asks and however the requests race.
LimiterBound == 2 * admitted + bucket <= 2 * Burst + now

\* A token that could not be read once (Extract: forged, or expired by the whole
\* seconds of the JWT library) is never taken again by any endpoint, at a check,
\* at a refresh, or at the second read of a refresh that had begun before.  The
\* refusal of IsExpired, which compares instants, is not meant: within the second
\* of its expiry a token that a refresh refuses for it is valid at a check.
ExpiryIsFinal ==
    [][\A r \in Requests :
          (\/ at[r] = "service" /\ reply'[r] = "valid"
           \/ at[r] = "service" /\ at'[r] = "details"
           \/ at[r] = "details" /\ token[r] \in spent' /\ reply'[r] = "dropped")
             => token[r] \notin rejected]_vars
=============================================================================
