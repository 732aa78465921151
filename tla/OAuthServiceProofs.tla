------------------------- MODULE OAuthServiceProofs -------------------------
(***************************************************************************)
(* Theorems about OAuthService for every set of requests and expiries and  *)
(* every burst.  The type invariant and the bound on the limiter are       *)
(* inductive; that expiry is final rests on RejectedIsPast.                *)
(***************************************************************************)
EXTENDS OAuthService, TLAPS

-----------------------------------------------------------------------------
(* Types.                                                                  *)

LEMMA TypeInit == Init => TypeOK
BY BurstIsNat DEF Init, TypeOK, Kinds, Tokens

LEMMA TypeReturn ==
    ASSUME TypeOK, NEW r \in Requests, NEW a \in Replies, Return(r, a),
           now' = now, bucket' \in 0..(2 * Burst), up' = up, admitted' \in Nat,
           rejected' \in SUBSET Tokens, spent' \in SUBSET Expiries
    PROVE  TypeOK'
<1>1. /\ at' \in [Requests -> {"idle", "client", "limiter", "service", "details"}]
      /\ kind' \in [Requests -> Kinds]
      /\ token' \in [Requests -> Tokens]
      /\ reply' \in [Requests -> {None} \union Replies]
  BY DEF TypeOK, Return, Kinds, Tokens
<1>2. client' \in [Requests -> BOOLEAN]
  BY DEF TypeOK, Return
<1>3. ASSUME NEW q \in Requests
      PROVE  /\ at'[q] \in {"service", "details"} => client'[q] \/ kind'[q] = "rpc"
             /\ at'[q] = "idle" => token'[q] = Absent /\ ~client'[q]
             /\ at'[q] # "idle" => reply'[q] = None
             /\ at'[q] = "details" => kind'[q] = "refresh_token" /\ token'[q] \in Expiries
  BY DEF TypeOK, Return
<1> QED
  BY <1>1, <1>2, <1>3 DEF TypeOK

LEMMA TypeTransport ==
    ASSUME TypeOK, NEW r \in Requests
    PROVE  /\ Arrive(r) => TypeOK'
           /\ LookUp(r) \/ BadRequest(r) \/ LimitExceeded(r) => TypeOK'
           /\ Admit(r) => TypeOK'
<1> USE BurstIsNat DEF TypeOK
<1>1. ASSUME Arrive(r)
      PROVE  TypeOK'
  BY <1>1, NoneIsNoReply DEF Arrive
<1>2. ASSUME LookUp(r)
      PROVE  TypeOK'
  <2>1. CASE Return(r, "dropped")
    BY <1>2, <2>1, TypeReturn DEF LookUp, Replies
  <2>2. CASE at' = [at EXCEPT ![r] = "limiter"]
    BY <1>2, <2>2 DEF LookUp, Return
  <2> QED
    BY <1>2, <2>1, <2>2 DEF LookUp
<1>3. ASSUME BadRequest(r) \/ LimitExceeded(r)
      PROVE  TypeOK'
  BY <1>3, TypeReturn DEF BadRequest, LimitExceeded, Replies
<1>4. ASSUME Admit(r)
      PROVE  TypeOK'
  <2>1. bucket' \in 0..(2 * Burst) /\ admitted' \in Nat
    BY <1>4 DEF Admit
  <2>2. CASE kind[r] = "rpc" \/ client[r]
    BY <1>4, <2>1, <2>2 DEF Admit, GoOn
  <2>3. CASE ~(kind[r] = "rpc" \/ client[r])
    BY <1>4, <2>1, <2>3, TypeReturn DEF Admit, Replies
  <2> QED
    BY <2>2, <2>3
<1> QED
  BY <1>1, <1>2, <1>3, <1>4

LEMMA TypeService ==
    ASSUME TypeOK, NEW r \in Requests
    PROVE  /\ Check(r) \/ Unsupported(r) => TypeOK'
           /\ GrantPassword(r) => TypeOK'
           /\ ReadRefreshToken(r) \/ ReadDetails(r) => TypeOK'
<1>0. /\ now' = now => now' \in 0..MaxNow
      /\ bucket' = bucket => bucket' \in 0..(2 * Burst)
      /\ admitted' = admitted => admitted' \in Nat
      /\ rejected \in SUBSET Tokens /\ spent \in SUBSET Expiries /\ token[r] \in Tokens
  BY DEF TypeOK
<1>1. ASSUME Check(r)
      PROVE  TypeOK'
  <2>1. rejected' \in SUBSET Tokens
    BY <1>0, <1>1 DEF Check, Extract
  <2> QED
    BY <1>0, <1>1, <2>1, TypeReturn DEF Check, Replies
<1>2. ASSUME Unsupported(r)
      PROVE  TypeOK'
  BY <1>0, <1>2, TypeReturn DEF Unsupported, Replies
<1>3. ASSUME GrantPassword(r)
      PROVE  TypeOK'
  <2>1. CASE up' = FALSE /\ UNCHANGED requestVars
    BY <1>3, <2>1 DEF TypeOK, GrantPassword, requestVars
  <2>2. CASE Return(r, "refused") /\ UNCHANGED up
    BY <1>0, <1>3, <2>2, TypeReturn DEF GrantPassword, Replies
  <2> QED
    BY <1>3, <2>1, <2>2 DEF GrantPassword
<1>4. ASSUME ReadRefreshToken(r)
      PROVE  TypeOK'
  <2>1. rejected' \in SUBSET Tokens
    BY <1>0, <1>4 DEF ReadRefreshToken, Extract
  <2>2. CASE Return(r, "refused")
    BY <1>0, <1>4, <2>1, <2>2, TypeReturn DEF ReadRefreshToken, Replies
  <2>3. CASE GoOn(r, "details") /\ Readable(token[r])
    BY <1>4, <2>1, <2>3 DEF TypeOK, ReadRefreshToken, GoOn, Readable
  <2> QED
    BY <1>4, <2>2, <2>3 DEF ReadRefreshToken
<1>5. ASSUME ReadDetails(r)
      PROVE  TypeOK'
  <2>1. rejected' \in SUBSET Tokens
    BY <1>0, <1>5 DEF ReadDetails, Extract
  <2>2. spent' \in SUBSET Expiries
    BY <1>0, <1>5 DEF ReadDetails, Readable
  <2>3. Return(r, "dropped") \/ Return(r, "nothing")
    BY <1>5 DEF ReadDetails
  <2> QED
    BY <1>0, <1>5, <2>1, <2>2, <2>3, TypeReturn DEF ReadDetails, Replies
<1> QED
  BY <1>1, <1>2, <1>3, <1>4, <1>5

LEMMA TypeStep == TypeOK /\ [Next]_vars => TypeOK'
<1> SUFFICES ASSUME TypeOK, [Next]_vars
             PROVE  TypeOK'
  OBVIOUS
<1>1. CASE Tick
  BY <1>1, BurstIsNat DEF TypeOK, Tick, requestVars
<1>2. ASSUME NEW r \in Requests, Arrive(r) \/ Handle(r)
      PROVE  TypeOK'
  BY <1>2, TypeTransport, TypeService DEF Handle
<1>3. CASE UNCHANGED vars
  BY <1>3 DEF TypeOK, vars
<1> QED
  BY <1>1, <1>2, <1>3 DEF Next

\* The type invariant: no request reaches the service over HTTP without a
\* known client, and a connection between requests holds no credentials.
THEOREM ServiceTypes == Spec => []TypeOK
BY TypeInit, TypeStep, PTL DEF Spec

-----------------------------------------------------------------------------
(* The limiter.                                                            *)

LEMMA LimiterStep == TypeOK /\ LimiterBound /\ [Next]_vars => LimiterBound'
<1> SUFFICES ASSUME TypeOK, LimiterBound, [Next]_vars
             PROVE  LimiterBound'
  OBVIOUS
<1> USE BurstIsNat DEF TypeOK, LimiterBound
<1>1. CASE Tick
  BY <1>1 DEF Tick
<1>2. ASSUME NEW r \in Requests, Admit(r)
      PROVE  LimiterBound'
  BY <1>2 DEF Admit
<1>3. ASSUME NEW r \in Requests,
             \/ Arrive(r) \/ LookUp(r) \/ BadRequest(r) \/ LimitExceeded(r) \/ Check(r)
             \/ Unsupported(r) \/ GrantPassword(r) \/ ReadRefreshToken(r) \/ ReadDetails(r)
      PROVE  LimiterBound'
  <2>1. UNCHANGED <<now, bucket, admitted>>
    BY <1>3 DEF Arrive, LookUp, BadRequest, LimitExceeded, Check, Unsupported,
                GrantPassword, ReadRefreshToken, ReadDetails
  <2> QED
    BY <2>1
<1>4. CASE UNCHANGED vars
  BY <1>4 DEF vars
<1> QED
  BY <1>1, <1>2, <1>3, <1>4 DEF Next, Handle

\* All endpoints together let through at most the burst plus one request per
\* elapsed second.
THEOREM LimiterHolds == Spec => []LimiterBound
<1>1. Init => LimiterBound
  BY BurstIsNat DEF Init, LimiterBound
<1> QED
  BY <1>1, LimiterStep, ServiceTypes, PTL DEF Spec

-----------------------------------------------------------------------------
(* Expiry.                                                                 *)

\* What Extract refused once it refuses at every later moment.
RejectedIsPast == \A t \in rejected : ~Readable(t)

LEMMA RejectedStep == TypeOK /\ RejectedIsPast /\ [Next]_vars => RejectedIsPast'
<1> SUFFICES ASSUME TypeOK, RejectedIsPast, [Next]_vars
             PROVE  RejectedIsPast'
  OBVIOUS
<1> USE ExpiriesAreNat, BurstIsNat DEF TypeOK, RejectedIsPast, Readable
<1>1. CASE Tick
  <2>1. ASSUME NEW t \in Expiries, ~(now < 2 * (t + 1))
        PROVE  ~(now' < 2 * (t + 1))
    <3>1. now \in Nat /\ now' = now + 1 /\ t \in Nat
      BY <1>1 DEF Tick
    <3> QED
      BY <2>1, <3>1
  <2> QED
    BY <1>1, <2>1 DEF Tick
<1>2. ASSUME NEW r \in Requests, Check(r) \/ ReadRefreshToken(r) \/ ReadDetails(r)
      PROVE  RejectedIsPast'
  <2>1. now' = now
    BY <1>2 DEF Check, ReadRefreshToken, ReadDetails
  <2>2. \A t \in rejected' : t \in rejected \/ ~Readable(t)
    BY <1>2 DEF Check, ReadRefreshToken, ReadDetails, Extract
  <2> QED
    BY <2>1, <2>2
<1>3. ASSUME NEW r \in Requests,
             \/ Arrive(r) \/ LookUp(r) \/ BadRequest(r) \/ LimitExceeded(r)
             \/ Admit(r) \/ Unsupported(r) \/ GrantPassword(r)
      PROVE  RejectedIsPast'
  BY <1>3 DEF Arrive, LookUp, BadRequest, LimitExceeded, Admit, Unsupported, GrantPassword
<1>4. CASE UNCHANGED vars
  BY <1>4 DEF vars
<1> QED
  BY <1>1, <1>2, <1>3, <1>4 DEF Next, Handle

LEMMA OnlyOwnSteps ==
    ASSUME TypeOK, NEW q \in Requests, NEW r \in Requests, q # r, Arrive(q) \/ Handle(q)
    PROVE  at'[r] = at[r] /\ reply'[r] = reply[r]
<1> USE DEF TypeOK
<1>1. CASE Arrive(q)
  BY <1>1 DEF Arrive
<1>5. CASE LookUp(q)
  BY <1>5 DEF LookUp, Return
<1>2. CASE BadRequest(q) \/ LimitExceeded(q) \/ Check(q) \/ Unsupported(q)
  BY <1>2 DEF BadRequest, LimitExceeded, Check, Unsupported, Return
<1>3. CASE Admit(q) \/ ReadRefreshToken(q) \/ ReadDetails(q)
  BY <1>3 DEF Admit, ReadRefreshToken, ReadDetails, Return, GoOn
<1>4. CASE GrantPassword(q)
  BY <1>4 DEF GrantPassword, Return, requestVars
<1> QED
  BY <1>1, <1>2, <1>3, <1>4, <1>5 DEF Handle

\* A token that was refused as unreadable once is refused from then on, by
\* every endpoint and at the second read of a refresh.
THEOREM ExpiryFinal == Spec => ExpiryIsFinal
<1> DEFINE Takes(r) ==
      \/ at[r] = "service" /\ reply'[r] = "valid"
      \/ at[r] = "service" /\ at'[r] = "details"
      \/ at[r] = "details" /\ token[r] \in spent' /\ reply'[r] = "dropped"
<1>1. ASSUME TypeOK, RejectedIsPast, [Next]_vars, NEW r \in Requests, Takes(r)
      PROVE  token[r] \notin rejected
  <2> SUFFICES Readable(token[r])
    BY <1>1 DEF RejectedIsPast
  <2>1. at[r] # "idle" /\ reply[r] = None /\ reply[r] \notin Replies
    BY <1>1, NoneIsNoReply DEF TypeOK
  <2>2. at'[r] # at[r] \/ reply'[r] # reply[r]
    BY <1>1, <2>1 DEF Replies
  <2>3. ~(Tick \/ UNCHANGED vars)
    BY <2>2 DEF Tick, requestVars, vars
  <2>4. PICK q \in Requests : Arrive(q) \/ Handle(q)
    BY <1>1, <2>3 DEF Next
  <2>5. q = r
    BY <1>1, <2>2, <2>4, OnlyOwnSteps
  <2>6. ~Unsupported(r) /\ ~GrantPassword(r)
    BY <1>1, <2>1, <2>2 DEF Unsupported, GrantPassword, Return, requestVars, TypeOK
  <2>7. Check(r) \/ ReadRefreshToken(r) \/ ReadDetails(r)
    BY <1>1, <2>1, <2>4, <2>5, <2>6
       DEF Handle, Arrive, LookUp, BadRequest, LimitExceeded, Admit
  <2> QED
    BY <1>1, <2>1, <2>7 DEF TypeOK, Check, ReadRefreshToken, ReadDetails, Return
<1>2. TypeOK /\ RejectedIsPast /\ [Next]_vars
         => [\A r \in Requests : Takes(r) => token[r] \notin rejected]_vars
  BY <1>1
<1>3. Init => RejectedIsPast
  BY DEF Init, RejectedIsPast
<1> QED
  BY <1>2, <1>3, RejectedStep, ServiceTypes, PTL DEF Spec, ExpiryIsFinal
=============================================================================
