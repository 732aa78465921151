---------------------------- MODULE GatewayProofs ----------------------------
(***************************************************************************)
(* Theorems about Gateway for every set of requests, services and          *)
(* instances.  The composition uses the discovery client as Discovery      *)
(* says, so what DiscoveryProofs shows holds in it (InnerDiscovery); the   *)
(* rest relates the work of a request to the list it was given, through    *)
(* the inductive invariant GatewayInv.                                     *)
(***************************************************************************)
EXTENDS Gateway, DiscoveryProofs

-----------------------------------------------------------------------------
(* The discovery client inside the gateway.                                *)

LEMMA DiscoverySteps ==
    ASSUME RequestTypeOK, [GatewayNext]_gatewayVars
    PROVE  [Next]_vars
<1>1. CASE UNCHANGED gatewayVars
  BY <1>1 DEF gatewayVars
<1>2. ASSUME NEW r \in Callers, Arrive(r) \/ Refuse(r) \/ Timeout(r) \/ GoOn(r)
      PROVE  UNCHANGED vars
  BY <1>2 DEF Arrive, AnswerAtOnce, Filter, Route, Do, Refuse, Timeout, GoOn, Forbid, Reply, Allow
<1>3. ASSUME NEW r \in Callers, Work(r)
      PROVE  [Next]_vars
  <2>1. CASE CallDiscover(r)
    <3>1. target[r] \in Services
      BY <2>1 DEF CallDiscover, RequestTypeOK
    <3> QED
      BY <2>1, <3>1 DEF CallDiscover, Next
  <2>2. CASE ~CallDiscover(r)
    BY <1>3, <2>2 DEF Work, NobodyThere, Invoke, Proxy, SendFails, Answered, CopyBody
  <2> QED
    BY <2>1, <2>2
<1>4. ASSUME NEW r \in Callers, InDiscovery(r)
      PROVE  Next
  BY <1>4 DEF InDiscovery, Next
<1>5. ASSUME NEW s \in Services, Watches(s) \/ CatalogChange(s)
      PROVE  Next
  BY <1>5 DEF Watches, Next
<1> QED
  BY <1>1, <1>2, <1>3, <1>4, <1>5 DEF GatewayNext

-----------------------------------------------------------------------------
(* Types.                                                                  *)

\* A step of the handler, the timer, or the work outside DiscoverServices.
LEMMA RequestTypeLocal ==
    ASSUME TypeOK, RequestTypeOK, NEW r \in Callers
    PROVE  /\ Arrive(r) => RequestTypeOK'
           /\ Refuse(r) \/ Timeout(r) \/ GoOn(r) => RequestTypeOK'
           /\ NobodyThere(r) \/ Invoke(r) \/ Proxy(r) => RequestTypeOK'
           /\ SendFails(r) \/ Answered(r) \/ CopyBody(r) => RequestTypeOK'
<1> USE DEF RequestTypeOK, Statuses, vars
<1>1. ASSUME Arrive(r)
      PROVE  RequestTypeOK'
  <2>1. CASE AnswerAtOnce(r)
    BY <2>1 DEF AnswerAtOnce, Idle
  <2>2. ASSUME NEW h \in {"route", "filter"}, NEW s \in Services, Do(r, h, s), Fresh(r)
        PROVE  RequestTypeOK'
    BY <2>2, NoneIsNoService DEF Do, Idle, Fresh
  <2> QED
    BY <1>1, <2>1, <2>2, OAuthIsService DEF Arrive, Filter, Route
<1>2. ASSUME Refuse(r) \/ Timeout(r) \/ GoOn(r)
      PROVE  RequestTypeOK'
  <2>1. ASSUME NEW s \in Services, Allow(r, s)
        PROVE  RequestTypeOK'
    BY <2>1, NoneIsNoService DEF Allow, Do
  <2> QED
    BY <1>2, <2>1 DEF Refuse, Finish, Timeout, GoOn, Forbid, Reply, SendHeader
<1>3. ASSUME Panic, UNCHANGED vars
      PROVE  RequestTypeOK'
  BY <1>3 DEF Panic
<1>4. ASSUME NEW o \in {"ok", "failed"}, Finish(r, o), run[r] \in {"discover", "send", "body"},
             pc[r] = "idle", UNCHANGED <<vars, status>>
      PROVE  RequestTypeOK'
  BY <1>4 DEF Finish
<1>5. ASSUME NobodyThere(r) \/ Invoke(r) \/ Proxy(r)
      PROVE  RequestTypeOK'
  <2>1. CASE Proxy(r)
    BY <2>1 DEF Proxy, Discovered
  <2> QED
    BY <1>3, <1>4, <1>5, <2>1 DEF NobodyThere, Invoke, Discovered
<1>6. ASSUME SendFails(r) \/ Answered(r) \/ CopyBody(r)
      PROVE  RequestTypeOK'
  <2>1. CASE Answered(r)
    <3>1. CASE Panic
      BY <1>3, <2>1, <3>1 DEF Answered
    <3> QED
      BY <2>1, <3>1 DEF Answered
  <2> QED
    BY <1>3, <1>4, <1>6, <2>1 DEF SendFails, CopyBody
<1> QED
  BY <1>1, <1>2, <1>5, <1>6

\* A step that Discovery takes too.
LEMMA RequestTypeShared ==
    ASSUME TypeOK, RequestTypeOK
    PROVE  /\ \A r \in Callers : CallDiscover(r) \/ InDiscovery(r) => RequestTypeOK'
           /\ \A s \in Services :
                 Watches(s) \/ (CatalogChange(s) /\ UNCHANGED requestVars)
                    => RequestTypeOK'
<1> USE DEF RequestTypeOK, TypeOK
<1>1. ASSUME NEW r \in Callers, CallDiscover(r)
      PROVE  RequestTypeOK'
  BY <1>1, NoneIsNoService DEF CallDiscover, LoadHit, LoadMiss, Return
<1>2. ASSUME NEW r \in Callers, InDiscovery(r)
      PROVE  RequestTypeOK'
  BY <1>2 DEF InDiscovery, requestVars, Lock, RecheckHit, RecheckMiss, Query, Store, Return
<1>3. ASSUME NEW s \in Services,
             Watches(s) \/ (CatalogChange(s) /\ UNCHANGED requestVars)
      PROVE  RequestTypeOK'
  BY <1>3 DEF Watches, requestVars, WatchReply, WatchError, WatchHandle, Handled,
              CatalogChange, clientVars
<1> QED
  BY <1>1, <1>2, <1>3

LEMMA GatewayTypeStep ==
    ASSUME GatewayTypeOK, [GatewayNext]_gatewayVars
    PROVE  GatewayTypeOK'
<1>1. TypeOK'
  BY DiscoverySteps, TypeStep DEF GatewayTypeOK
<1>2. RequestTypeOK'
  <2> USE DEF GatewayTypeOK
  <2>1. CASE UNCHANGED gatewayVars
    BY <2>1 DEF gatewayVars, requestVars, vars, RequestTypeOK
  <2>2. ASSUME NEW r \in Callers,
               Arrive(r) \/ Refuse(r) \/ Work(r) \/ Timeout(r) \/ GoOn(r)
                  \/ InDiscovery(r)
        PROVE  RequestTypeOK'
    BY <2>2, RequestTypeLocal, RequestTypeShared DEF Work
  <2>3. ASSUME NEW s \in Services,
               Watches(s) \/ (CatalogChange(s) /\ UNCHANGED requestVars)
        PROVE  RequestTypeOK'
    BY <2>3, RequestTypeShared
  <2> QED
    BY <2>1, <2>2, <2>3 DEF GatewayNext
<1> QED
  BY <1>1, <1>2 DEF GatewayTypeOK

LEMMA GatewayTypeInit == GatewayInit => GatewayTypeOK
BY TypeInit DEF GatewayInit, GatewayTypeOK, RequestTypeOK, Init

\* The type invariant of the composition: the work of a request is in
\* DiscoverServices for the service hystrix.Do was given, and nowhere else.
THEOREM GatewayTypes == GatewaySpec => []GatewayTypeOK
BY GatewayTypeInit, GatewayTypeStep, PTL DEF GatewaySpec

\* What DiscoveryProofs shows of Spec holds in the composition.
LEMMA InnerDiscovery == GatewaySpec => Spec
<1>1. GatewayInit => Init
  BY DEF GatewayInit
<1>2. GatewayTypeOK /\ [GatewayNext]_gatewayVars => [Next]_vars
  BY DiscoverySteps DEF GatewayTypeOK
<1> QED
  BY <1>1, <1>2, GatewayTypes, PTL DEF GatewaySpec, Spec

-----------------------------------------------------------------------------
(* Work and lists.                                                         *)

\* Work that has left DiscoverServices has a list, of a service that is still
\* in the cache; work that ended well had one with an instance.  Work whose
\* proxy wrote has a header, and so has every routed request whose Do ended
\* well; what is still running has no such outcome.
WorkIsFed ==
    \A r \in Callers :
        /\ Discovered(r) => result[r] # None /\ Cached(target[r])
        /\ run[r] \in {"send", "body"} => /\ result[r] \notin {None, {}}
                                          /\ Cached(target[r])
        /\ "ok" \in outcomes[r] => /\ result[r] \notin {None, {}}
                                  /\ Cached(target[r])
        /\ run[r] = "body" => status[r] # None
        /\ "ok" \in outcomes[r] /\ handler[r] # "filter" => status[r] # None
        /\ ChecksToken(r) /\ run[r] # "none" => target[r] = OAuth

Fed == WorkIsFed /\ NoEmptyReply /\ UpstreamHeaderIsEarned

\* The inductive invariant of the composition.
GatewayInv == GatewayTypeOK /\ DiscoveryInv /\ Fed

LEMMA CachedStays ==
    ASSUME DiscoveryInv, [Next]_vars, NEW s \in Services, Cached(s)
    PROVE  Cached(s)'
<1> USE DEF DiscoveryInv, TypeOK, Cached
<1>1. ASSUME NEW c \in Callers, NEW t \in Services, LoadHit(c, t) \/ LoadMiss(c, t)
      PROVE  Cached(s)'
  BY <1>1 DEF LoadHit, LoadMiss
<1>2. ASSUME NEW c \in Callers, Lock(c) \/ RecheckHit(c) \/ RecheckMiss(c) \/ Query(c)
      PROVE  Cached(s)'
  BY <1>2 DEF Lock, RecheckHit, RecheckMiss, Query
<1>3. ASSUME NEW c \in Callers, Store(c)
      PROVE  Cached(s)'
  <2>1. Initial(c) # None
    BY <1>3, NoneIsNoList DEF Store, Initial, Lists
  <2> QED
    BY <1>3, <2>1 DEF Store
<1>4. ASSUME NEW t \in Services, WatchReply(t) \/ WatchError(t) \/ CatalogChange(t)
      PROVE  Cached(s)'
  BY <1>4 DEF WatchReply, WatchError, CatalogChange, clientVars
<1>5. ASSUME NEW t \in Services, WatchHandle(t)
      PROVE  Cached(s)'
  <2>1. Passing(reply[t]) # None
    BY NoneIsNoList DEF Passing
  <2> QED
    BY <1>5, <2>1 DEF WatchHandle
<1>6. CASE UNCHANGED vars
  BY <1>6 DEF vars
<1> QED
  BY <1>1, <1>2, <1>3, <1>4, <1>5, <1>6 DEF Next

LEMMA FedLocal ==
    ASSUME GatewayInv, NEW r \in Callers
    PROVE  /\ Arrive(r) => Fed'
           /\ Refuse(r) \/ Timeout(r) \/ GoOn(r) => Fed'
           /\ NobodyThere(r) \/ Invoke(r) \/ Proxy(r) => Fed'
           /\ SendFails(r) \/ Answered(r) \/ CopyBody(r) => Fed'
<1> USE DEF GatewayInv, GatewayTypeOK, RequestTypeOK, Fed, WorkIsFed, NoEmptyReply,
            UpstreamHeaderIsEarned, Discovered, Cached, ChecksToken, vars
<1>1. ASSUME Arrive(r)
      PROVE  Fed'
  <2>1. CASE AnswerAtOnce(r)
    BY <2>1, NoneIsNoStatus DEF Statuses, AnswerAtOnce, Idle
  <2>2. ASSUME NEW h \in {"route", "filter"}, NEW s \in Services, Do(r, h, s), Fresh(r),
               h = "filter" => s = OAuth
        PROVE  Fed'
    BY <2>2, NoneIsNoStatus DEF Statuses, Do, Idle, Fresh
  <2> QED
    BY <1>1, <2>1, <2>2, OAuthIsService DEF Arrive, Filter, Route
<1>2. ASSUME Refuse(r) \/ Timeout(r)
      PROVE  Fed'
  BY <1>2 DEF Refuse, Finish, Timeout
<1>3. ASSUME GoOn(r)
      PROVE  Fed'
  <2>1. CASE Forbid(r) \/ Reply(r)
    BY <2>1, NoneIsNoStatus DEF Statuses, Forbid, Reply, SendHeader
  <2>2. ASSUME NEW s \in Services, Allow(r, s)
        PROVE  Fed'
    BY <2>2, NoneIsNoStatus DEF Statuses, Allow, Do
  <2> QED
    BY <1>3, <2>1, <2>2 DEF GoOn
<1>4. ASSUME Panic, UNCHANGED vars
      PROVE  Fed'
  BY <1>4 DEF Panic
<1>5. ASSUME Finish(r, "failed"), run[r] \in {"discover", "send", "body"},
             pc[r] = "idle", UNCHANGED <<vars, status>>, status[r] = "upstream" => run[r] = "body"
      PROVE  Fed'
  BY <1>5 DEF Finish
<1>6. ASSUME NobodyThere(r) \/ Invoke(r) \/ Proxy(r)
      PROVE  Fed'
  <2>1. CASE Proxy(r)
    BY <2>1 DEF Proxy
  <2>2. ASSUME Invoke(r), Finish(r, "ok"), UNCHANGED status
        PROVE  Fed'
    BY <2>2, NoneIsNoStatus DEF Statuses, Invoke, Finish
  <2> QED
    BY <1>4, <1>5, <1>6, <2>1, <2>2 DEF NobodyThere, Invoke
<1>7. ASSUME SendFails(r) \/ Answered(r) \/ CopyBody(r)
      PROVE  Fed'
  <2>1. CASE Answered(r)
    <3>1. CASE Panic
      BY <1>4, <2>1, <3>1 DEF Answered
    <3> QED
      BY <2>1, <3>1, NoneIsNoStatus DEF Statuses, Answered
  <2>2. ASSUME CopyBody(r), Finish(r, "ok"), UNCHANGED status
        PROVE  Fed'
    BY <2>2 DEF CopyBody, Finish
  <2> QED
    BY <1>4, <1>5, <1>7, <2>1, <2>2 DEF SendFails, CopyBody
<1> QED
  BY <1>1, <1>2, <1>3, <1>6, <1>7

LEMMA FedShared ==
    ASSUME GatewayInv, [Next]_vars
    PROVE  /\ \A r \in Callers : CallDiscover(r) \/ InDiscovery(r) => Fed'
           /\ \A s \in Services :
                 Watches(s) \/ (CatalogChange(s) /\ UNCHANGED requestVars) => Fed'
<1> USE DEF GatewayInv, GatewayTypeOK, RequestTypeOK, TypeOK, Fed, WorkIsFed, NoEmptyReply,
            UpstreamHeaderIsEarned, Discovered, ChecksToken
<1>1. \A s \in Services : Cached(s) => Cached(s)'
  BY CachedStays
<1>2. ASSUME NEW r \in Callers, CallDiscover(r)
      PROVE  Fed'
  <2>1. target[r] \in Services
    BY <1>2 DEF CallDiscover
  <2>2. CASE LoadHit(r, target[r])
    BY <1>2, <2>1, <2>2 DEF CallDiscover, LoadHit, Return, Cached
  <2>3. CASE LoadMiss(r, target[r])
    BY <1>2, <2>1, <2>3 DEF CallDiscover, LoadMiss, Cached
  <2> QED
    BY <1>2, <2>2, <2>3 DEF CallDiscover
<1>3. ASSUME NEW r \in Callers, Lock(r) \/ RecheckHit(r) \/ RecheckMiss(r) \/ Query(r) \/ Store(r),
             UNCHANGED requestVars
      PROVE  Fed'
  <2>1. pc[r] # "idle" /\ run[r] = "discover" /\ target[r] = svc[r] /\ svc[r] \in Services
    BY <1>3 DEF Lock, RecheckHit, RecheckMiss, Query, Store
  <2>2. \A q \in Callers : q # r => pc'[q] = pc[q] /\ result'[q] = result[q]
    BY <1>3 DEF Lock, RecheckHit, RecheckMiss, Query, Store, Return
  <2>3. pc'[r] = "idle" => result'[r] # None /\ Cached(target[r])'
    <3>1. CASE RecheckHit(r)
      BY <2>1, <3>1, <1>3 DEF RecheckHit, Return, Cached, requestVars
    <3>2. CASE Store(r)
      <4>1. Initial(r) # None
        BY NoneIsNoList DEF Initial, Lists
      <4> QED
        BY <2>1, <3>2, <4>1, <1>3 DEF Store, Return, Cached, requestVars
    <3> QED
      BY <2>1, <3>1, <3>2, <1>3 DEF Lock, RecheckMiss, Query
  <2> QED
    BY <1>1, <1>3, <2>1, <2>2, <2>3 DEF requestVars
<1>4. ASSUME NEW s \in Services, Watches(s) \/ (CatalogChange(s) /\ UNCHANGED requestVars)
      PROVE  Fed'
  <2>1. UNCHANGED <<pc, result, requestVars>>
    BY <1>4 DEF Watches, WatchReply, WatchError, WatchHandle, Handled, CatalogChange, clientVars
  <2> QED
    BY <1>1, <2>1 DEF requestVars
<1> QED
  BY <1>2, <1>3, <1>4 DEF InDiscovery

LEMMA FedStep ==
    ASSUME GatewayInv, [GatewayNext]_gatewayVars
    PROVE  Fed'
<1>0. [Next]_vars
  BY DiscoverySteps DEF GatewayInv, GatewayTypeOK
<1>1. CASE UNCHANGED gatewayVars
  BY <1>1 DEF gatewayVars, requestVars, vars, GatewayInv, Fed, WorkIsFed, NoEmptyReply,
              UpstreamHeaderIsEarned, Discovered, Cached, ChecksToken
<1>2. ASSUME NEW r \in Callers,
             Arrive(r) \/ Refuse(r) \/ Work(r) \/ Timeout(r) \/ GoOn(r)
                \/ InDiscovery(r)
      PROVE  Fed'
  BY <1>0, <1>2, FedLocal, FedShared DEF Work
<1>3. ASSUME NEW s \in Services, Watches(s) \/ (CatalogChange(s) /\ UNCHANGED requestVars)
      PROVE  Fed'
  BY <1>0, <1>3, FedShared
<1> QED
  BY <1>1, <1>2, <1>3 DEF GatewayNext

LEMMA FedInit == GatewayInit => Fed
BY NoneIsNoStatus DEF GatewayInit, Fed, WorkIsFed, NoEmptyReply, UpstreamHeaderIsEarned,
                      Discovered, ChecksToken, Statuses

LEMMA GatewayInductive == GatewaySpec => []GatewayInv
<1>1. GatewaySpec => []DiscoveryInv
  BY InnerDiscovery, Inductive, PTL
<1>2. GatewayTypeOK /\ DiscoveryInv /\ Fed /\ [GatewayNext]_gatewayVars => Fed'
  BY FedStep DEF GatewayInv
<1> QED
  BY <1>1, <1>2, FedInit, GatewayTypes, PTL DEF GatewaySpec, GatewayInv

\* Only Allow takes a request from the filter to its route.
LEMMA PassIsAllow ==
    ASSUME RequestTypeOK, [GatewayNext]_gatewayVars, NEW r \in Callers,
           handler[r] = "filter", handler'[r] = "route"
    PROVE  "ok" \in outcomes[r]
<1> USE DEF RequestTypeOK
<1>1. ASSUME NEW q \in Callers, Arrive(q)
      PROVE  FALSE
  BY <1>1 DEF Arrive, AnswerAtOnce, Filter, Route, Fresh, Do, Idle
<1>2. ASSUME NEW q \in Callers, Refuse(q) \/ Timeout(q) \/ Work(q) \/ InDiscovery(q)
      PROVE  FALSE
  BY <1>2 DEF Refuse, Timeout, Work, CallDiscover, NobodyThere, Invoke, Proxy, SendFails,
              Answered, CopyBody, Finish, Panic, InDiscovery, requestVars
<1>3. ASSUME NEW q \in Callers, GoOn(q)
      PROVE  "ok" \in outcomes[r]
  BY <1>3 DEF GoOn, Forbid, Reply, Allow, Do
<1>4. ASSUME NEW s \in Services, Watches(s) \/ (CatalogChange(s) /\ UNCHANGED requestVars)
      PROVE  FALSE
  BY <1>4 DEF Watches, requestVars
<1>5. CASE UNCHANGED gatewayVars
  BY <1>5 DEF gatewayVars, requestVars
<1> QED
  BY <1>1, <1>2, <1>3, <1>4, <1>5 DEF GatewayNext

\* No handler returns without a header of its own or of the proxy.
THEOREM NeverEmpty == GatewaySpec => []NoEmptyReply
<1>1. GatewayInv => NoEmptyReply
  BY DEF GatewayInv, Fed
<1> QED
  BY <1>1, GatewayInductive, PTL

\* A header of an instance was written by work that had a list with one, and
\* never by the check of a token.
THEOREM HeaderEarned == GatewaySpec => []UpstreamHeaderIsEarned
<1>1. GatewayInv => UpstreamHeaderIsEarned
  BY DEF GatewayInv, Fed
<1> QED
  BY <1>1, GatewayInductive, PTL

\* The filter lets a request in only behind a check that found an instance of
\* the OAuth service and ended.
THEOREM FilterNeeds == GatewaySpec => FilterNeedsOAuth
<1> DEFINE Needed(r) == handler[r] = "filter" /\ handler'[r] = "route" =>
       /\ run[r] = "ended"
       /\ result[r] \notin {None, {}}
       /\ Cached(OAuth)
<1>1. ASSUME GatewayInv, [GatewayNext]_gatewayVars, NEW r \in Callers,
             handler[r] = "filter", handler'[r] = "route"
      PROVE  Needed(r)
  <2>1. "ok" \in outcomes[r]
    BY <1>1, PassIsAllow DEF GatewayInv, GatewayTypeOK
  <2>2. target[r] = OAuth
    BY <1>1, <2>1 DEF GatewayInv, GatewayTypeOK, RequestTypeOK, Fed, WorkIsFed, ChecksToken
  <2> QED
    BY <1>1, <2>1, <2>2 DEF GatewayInv, GatewayTypeOK, RequestTypeOK, Fed, WorkIsFed
<1>2. GatewayInv /\ [GatewayNext]_gatewayVars => [\A r \in Callers : Needed(r)]_gatewayVars
  BY <1>1
<1> QED
  BY <1>2, GatewayInductive, PTL DEF GatewaySpec, FilterNeedsOAuth

\* After the leak a service without an entry is never routed to again, however
\* many requests for it arrive and time out.
THEOREM LeakStarves == GatewaySpec => LeakStarvesService
<1> DEFINE Starved(s) == Leaked /\ ~Cached(s) =>
       /\ Leaked' /\ ~Cached(s)'
       /\ \A r \in Callers : target'[r] = s => run'[r] \notin {"send", "body"}
<1>1. ASSUME GatewayInv, GatewayInv', [GatewayNext]_gatewayVars, NEW s \in Services,
             Leaked, ~Cached(s)
      PROVE  Starved(s)
  <2>1. [Next]_vars
    BY <1>1, DiscoverySteps DEF GatewayInv, GatewayTypeOK
  <2>2. Leaked' /\ ~Cached(s)'
    BY <1>1, <2>1, LeakStep DEF GatewayInv
  <2>3. ASSUME NEW r \in Callers, target'[r] = s, run'[r] \in {"send", "body"}
        PROVE  FALSE
    <3>1. Cached(target[r])'
      BY <1>1, <2>3 DEF GatewayInv, Fed, WorkIsFed
    <3> QED
      BY <2>2, <2>3, <3>1 DEF Cached
  <2> QED
    BY <2>2, <2>3
<1>2. GatewayInv /\ GatewayInv' /\ [GatewayNext]_gatewayVars
         => [\A s \in Services : Starved(s)]_gatewayVars
  BY <1>1
<1> QED
  BY <1>2, GatewayInductive, PTL DEF GatewaySpec, LeakStarvesService
=============================================================================
