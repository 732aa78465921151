------------------------------ MODULE Gateway ------------------------------
(***************************************************************************)
(* The gateway's request path, composed with the discovery client it       *)
(* shares: HystrixRouter.ServeHTTP and preFilter (gateway/router), and     *)
(* DecoratorInvoke (pkg/client), which preFilter reaches through           *)
(* CheckToken.                                                             *)
(*                                                                         *)
(* A request is served by two goroutines.  Its handler decides, and hands  *)
(* the work to hystrix.Do; hystrix (external) runs the work in a goroutine *)
(* of its own, beside a timer.  The handler goes on with the first outcome *)
(* it sees, and work that lost to the timer goes on too.                   *)
(* That goroutine is the caller in DiscoverServices, so a request here is  *)
(* a caller of Discovery.tla, and every step of Discovery is a step here.  *)
(*                                                                         *)
(* A panic in the goroutine of hystrix is recovered by nobody: it ends the *)
(* process.                                                                *)
(***************************************************************************)
EXTENDS Discovery

CONSTANT OAuth      \* the service CheckToken calls

Statuses == {"ok", "forbidden", "upstream", "error"}

ASSUME OAuthIsService == OAuth \in Services
ASSUME NoneIsNoStatus == None \notin Statuses

VARIABLES
    handler,   \* handler[r]: where the handler of r is
    run,       \* run[r]: where the goroutine hystrix started for r is
    target,    \* target[r]: the service that goroutine calls, None before
    outcomes,  \* outcomes[r]: the outcomes of Do that wait for the handler
    status,    \* status[r]: the header sent to the client, None before
    up         \* the process has not panicked

requestVars == <<handler, run, target, outcomes, status, up>>
gatewayVars == <<vars, requestVars>>

GatewayInit ==
    /\ Init
    /\ handler = [r \in Callers |-> "idle"]
    /\ run = [r \in Callers |-> "none"]
    /\ target = [r \in Callers |-> None]
    /\ outcomes = [r \in Callers |-> {}]
    /\ status = [r \in Callers |-> None]
    /\ up = TRUE

-----------------------------------------------------------------------------
(* ServeHTTP, up to hystrix.Do.                                            *)

\* A new request on the connection of r.  The connection is free when the
\* last reply is out; if the work behind it goes on, the next request comes on
\* another connection.
Idle(r) == handler[r] \in {"idle", "replied"} /\ run[r] \in {"none", "ended"}

\* /health is answered at once, and so is a path that is neither permitted
\* nor comes with a token.
AnswerAtOnce(r) ==
    /\ Idle(r)
    /\ handler' = [handler EXCEPT ![r] = "replied"]
    /\ run' = [run EXCEPT ![r] = "none"]
    /\ target' = [target EXCEPT ![r] = None]
    /\ outcomes' = [outcomes EXCEPT ![r] = {}]
    /\ \E st \in {"ok", "forbidden"} : status' = [status EXCEPT ![r] = st]
    /\ UNCHANGED <<vars, up>>

\* hystrix.Do: the handler waits at h, a goroutine calls s.
Do(r, h, s) ==
    /\ handler' = [handler EXCEPT ![r] = h]
    /\ run' = [run EXCEPT ![r] = "start"]
    /\ target' = [target EXCEPT ![r] = s]
    /\ outcomes' = [outcomes EXCEPT ![r] = {}]
    /\ UNCHANGED <<vars, up>>

\* A new request has no header yet.
Fresh(r) == Idle(r) /\ status' = [status EXCEPT ![r] = None]

\* A permitted path: ServeHTTP goes on to the service the path names.
Route(r, s) == Fresh(r) /\ Do(r, "route", s)

\* Any other path with a token: preFilter asks the OAuth service first.
Filter(r) == Fresh(r) /\ Do(r, "filter", OAuth)

\* CheckToken returned no error, preFilter is true: ServeHTTP goes on to the
\* service the path names, with a second hystrix.Do.
Allow(r, s) ==
    /\ handler[r] = "filter"
    /\ "ok" \in outcomes[r]
    /\ Do(r, "route", s)
    /\ UNCHANGED status

\* The work of r is the token check of preFilter: only a filtered request is
\* forbidden, also after its handler has gone.
ChecksToken(r) == handler[r] = "filter" \/ status[r] = "forbidden"

-----------------------------------------------------------------------------
(* The goroutine of hystrix.                                               *)

\* The work ends with outcome o; the timer may have offered another before.
Finish(r, o) ==
    /\ run' = [run EXCEPT ![r] = "ended"]
    /\ outcomes' = [outcomes EXCEPT ![r] = @ \union {o}]
    /\ UNCHANGED <<handler, target, up>>

\* Nothing recovers a panic of this goroutine, or a fatal error of the runtime.
Panic == up' = FALSE /\ UNCHANGED <<handler, run, target, outcomes, status>>

\* An open circuit or the lack of a ticket: the work is not started.
Refuse(r) ==
    /\ run[r] = "start"
    /\ Finish(r, "failed")
    /\ UNCHANGED <<vars, status>>

\* Mutant of CallDiscover: the route looks the OAuth service up.
CallDiscoverOAuth(r) ==
    /\ run[r] = "start"
    /\ LoadHit(r, OAuth) \/ LoadMiss(r, OAuth)
    /\ run' = [run EXCEPT ![r] = "discover"]
    /\ UNCHANGED <<handler, target, outcomes, status, up>>

\* The work begins with DiscoverServices.
CallDiscover(r) ==
    /\ run[r] = "start"
    /\ LoadHit(r, target[r]) \/ LoadMiss(r, target[r])
    /\ run' = [run EXCEPT ![r] = "discover"]
    /\ UNCHANGED <<handler, target, outcomes, status, up>>

\* DiscoverServices returned the list result[r] to this goroutine.
Discovered(r) == run[r] = "discover" /\ pc[r] = "idle"

\* Mutant of NobodyThere: the error of SelectBalance is swallowed as well.
NobodyThereSilently(r) ==
    /\ Discovered(r)
    /\ result[r] = {}
    /\ Finish(r, "ok")
    /\ UNCHANGED <<vars, status>>

\* No instance: Discover and SelectBalance return an error, so does the work.
NobodyThere(r) ==
    /\ Discovered(r)
    /\ result[r] = {}
    /\ Finish(r, "failed")
    /\ UNCHANGED <<vars, status>>

\* DecoratorInvoke with an instance: one without an RPC port is an error; an
\* error of grpc.Dial is dropped, and the work returns nil without a call; the
\* call itself panics: the interceptor has genTracer(nil), nil, and calls it.
Invoke(r) ==
    /\ Discovered(r)
    /\ ChecksToken(r)
    /\ result[r] # {}
    /\ \/ Finish(r, "failed") /\ UNCHANGED status
       \/ Finish(r, "ok") /\ UNCHANGED status
       \/ Panic
    /\ UNCHANGED vars

\* Mutant of Proxy: the error of Discover is ignored.
ProxyAnyway(r) ==
    /\ Discovered(r)
    /\ ~ChecksToken(r)
    /\ run' = [run EXCEPT ![r] = "send"]
    /\ UNCHANGED <<vars, handler, target, outcomes, status, up>>

\* ServeHTTP's work with an instance: the reverse proxy sends the request.
Proxy(r) ==
    /\ Discovered(r)
    /\ ~ChecksToken(r)
    /\ result[r] # {}
    /\ run' = [run EXCEPT ![r] = "send"]
    /\ UNCHANGED <<vars, handler, target, outcomes, status, up>>

\* Mutant of SendFails: errorHandle does not keep the error.
SendFailsSilently(r) ==
    /\ run[r] = "send"
    /\ Finish(r, "ok")
    /\ UNCHANGED <<vars, status>>

\* Mutant of SendFails: the work is done again, as long as it fails.
SendFailsAndRetries(r) ==
    /\ run[r] = "send"
    /\ run' = [run EXCEPT ![r] = "start"]
    /\ UNCHANGED <<vars, handler, target, outcomes, status, up>>

\* The transport fails, at the latest when the handler's return cancels the
\* request: errorHandle only keeps the error, and the work returns it.
SendFails(r) ==
    /\ run[r] = "send"
    /\ Finish(r, "failed")
    /\ UNCHANGED <<vars, status>>

\* The instance answers: the proxy writes its header, unless one was sent.  A
\* handler that has given up sends its own through the same ResponseWriter: a
\* map of headers read and written side by side, which may end the process.
Answered(r) ==
    /\ run[r] = "send"
    /\ \/ /\ run' = [run EXCEPT ![r] = "body"]
          /\ status' = [status EXCEPT ![r] = IF @ = None THEN "upstream" ELSE @]
          /\ UNCHANGED <<handler, target, outcomes, up>>
       \/ status[r] # None /\ Panic
    /\ UNCHANGED vars

\* The proxy copies the body to the client.  A failed copy, the client or the
\* instance gone or the handler's return, is a panic (http.ErrAbortHandler).
CopyBody(r) ==
    /\ run[r] = "body"
    /\ \/ Finish(r, "ok") /\ UNCHANGED status
       \/ Panic
    /\ UNCHANGED vars

-----------------------------------------------------------------------------
(* The timer of hystrix and the rest of the handler.                       *)

Waiting(r) == handler[r] \in {"route", "filter"}

\* Mutant of Timeout: hystrix waits for work that has begun.
TimeoutBeforeStart(r) ==
    /\ Waiting(r)
    /\ run[r] = "start"
    /\ "failed" \notin outcomes[r]
    /\ outcomes' = [outcomes EXCEPT ![r] = @ \union {"failed"}]
    /\ UNCHANGED <<vars, handler, run, target, status, up>>

\* One second has passed.  The work is not told.
Timeout(r) ==
    /\ Waiting(r)
    /\ "failed" \notin outcomes[r]
    /\ outcomes' = [outcomes EXCEPT ![r] = @ \union {"failed"}]
    /\ UNCHANGED <<vars, handler, run, target, status, up>>

\* Send st as the header, if none was sent.
SendHeader(r, st) == status' = [status EXCEPT ![r] = IF @ = None THEN st ELSE @]

\* preFilter is false, also after the work's own outcome: 403.
Forbid(r) ==
    /\ handler[r] = "filter"
    /\ "failed" \in outcomes[r]
    /\ handler' = [handler EXCEPT ![r] = "replied"]
    /\ SendHeader(r, "forbidden")
    /\ UNCHANGED <<vars, run, target, outcomes, up>>

\* Do returns: an error becomes a 500 with the fallback text, anything else
\* leaves the reply to what the proxy wrote.
Reply(r) ==
    /\ handler[r] = "route"
    /\ \/ "ok" \in outcomes[r] /\ UNCHANGED status
       \/ "failed" \in outcomes[r] /\ SendHeader(r, "error")
    /\ handler' = [handler EXCEPT ![r] = "replied"]
    /\ UNCHANGED <<vars, run, target, outcomes, up>>

-----------------------------------------------------------------------------
(* The composition: every step of the discovery client, as long as the     *)
(* process is up; Consul does not depend on it.                            *)

InDiscovery(r) ==
    /\ Lock(r) \/ RecheckHit(r) \/ RecheckMiss(r) \/ Query(r) \/ Store(r)
    /\ UNCHANGED requestVars

Watches(s) ==
    /\ WatchReply(s) \/ WatchError(s) \/ WatchHandle(s)
    /\ UNCHANGED requestVars

Work(r) ==
    \/ CallDiscover(r)
    \/ NobodyThere(r)
    \/ Invoke(r)
    \/ Proxy(r)
    \/ SendFails(r)
    \/ Answered(r)
    \/ CopyBody(r)

Arrive(r) == AnswerAtOnce(r) \/ Filter(r) \/ \E s \in Services : Route(r, s)

\* The handler goes on with an outcome of hystrix.Do.
GoOn(r) == Forbid(r) \/ Reply(r) \/ \E s \in Services : Allow(r, s)

GatewayNext ==
    \/ /\ up
       /\ \/ \E r \in Callers :
                \/ Arrive(r)
                \/ Refuse(r)
                \/ Work(r)
                \/ Timeout(r)
                \/ GoOn(r)
                \/ InDiscovery(r)
          \/ \E s \in Services : Watches(s)
    \/ \E s \in Services : CatalogChange(s) /\ UNCHANGED requestVars

GatewaySpec == GatewayInit /\ [][GatewayNext]_gatewayVars

\* The Go scheduler runs what can run, the timer fires, a transport ends with
\* an answer or an error (the handler's return cancels what would hang).
GatewayFairness ==
    \A r \in Callers :
        /\ WF_gatewayVars(up /\ Timeout(r))
        /\ WF_gatewayVars(up /\ GoOn(r))
        /\ WF_gatewayVars(up /\ Work(r))
        /\ SF_gatewayVars(up /\ InDiscovery(r))

FairGateway == GatewaySpec /\ GatewayFairness

-----------------------------------------------------------------------------
(* Properties.                                                             *)

RequestTypeOK ==
    /\ handler \in [Callers -> {"idle", "filter", "route", "replied"}]
    /\ run \in [Callers -> {"none", "start", "discover", "send", "body", "ended"}]
    /\ target \in [Callers -> {None} \union Services]
    /\ outcomes \in [Callers -> SUBSET {"ok", "failed"}]
    /\ status \in [Callers -> {None} \union Statuses]
    /\ up \in BOOLEAN
    /\ \A r \in Callers :
          /\ target[r] = None <=> run[r] = "none"
          /\ pc[r] # "idle" => run[r] = "discover" /\ svc[r] = target[r]
          /\ "ok" \in outcomes[r] => run[r] = "ended"

\* Every variable keeps its type, the work of a request has a service exactly
\* from hystrix.Do on, only work in DiscoverServices has a place there, and
\* work that is still running has not ended well.
GatewayTypeOK == TypeOK /\ RequestTypeOK

\* No handler returns without a header of its own or of the proxy (net/http
\* would turn that into an empty 200): a failure of the transport, which the
\* proxy does not report to the client, always comes back as an error of Do.
NoEmptyReply == \A r \in Callers : handler[r] = "replied" => status[r] # None

\* A client sees a header of an instance only if its work was given a list
\* that names one.  While the token is being checked no header is out, and the
\* goroutine of a check never proxies, also one whose handler has sent its 403.
UpstreamHeaderIsEarned ==
    \A r \in Callers :
        /\ status[r] = "upstream" => /\ run[r] \in {"body", "ended"}
                                     /\ result[r] \notin {None, {}}
        /\ handler[r] = "filter" => status[r] = None
        /\ ChecksToken(r) => run[r] \notin {"send", "body"}

\* A request that needs its token checked goes on only if the check found an
\* instance of the OAuth service and then ended: no list, an empty one, a full
\* circuit or a check that is still stuck lets nobody in.  (A dial that failed
\* does, which is Invoke's second outcome.)
FilterNeedsOAuth ==
    [][\A r \in Callers :
          handler[r] = "filter" /\ handler'[r] = "route" =>
             /\ run[r] = "ended"
             /\ result[r] \notin {None, {}}
             /\ Cached(OAuth)]_gatewayVars

\* Once the mutex has leaked, a service without an entry is lost for good: no
\* timeout, retry or later request brings it back, and none of its requests is
\* ever sent to an instance.
LeakStarvesService ==
    [][\A s \in Services :
          Leaked /\ ~Cached(s) =>
             /\ Leaked' /\ ~Cached(s)'
             /\ \A r \in Callers :
                   target'[r] = s => run'[r] \notin {"send", "body"}]_gatewayVars

\* Every request that waits for hystrix is answered, also when its work is
\* stuck behind a leaked mutex, unless the process panics first.
RequestsAnswered == \A r \in Callers : Waiting(r) ~> handler[r] = "replied" \/ ~up

\* The goroutine of a request ends, unless the mutex leaks or the process
\* panics: a timeout abandons it but does not keep it from ending.
WorkEndsUnlessLeaked ==
    \A r \in Callers : run[r] = "start" ~> run[r] = "ended" \/ Leaked \/ ~up

\* VIOLATED by the code.  Work that fails is an error of Do and a fallback:
\* no failure of a call ends the process.
FailureFallsBack == up
=============================================================================
