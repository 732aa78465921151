------------------------------ MODULE Discovery ------------------------------
(***************************************************************************)
(* The client side of service discovery: KitDiscoveryClient of             *)
(* pkg/discover, shared by every goroutine of a process that looks a       *)
(* service up (the reverse proxy of the gateway, the gRPC clients).        *)
(*                                                                         *)
(*   callers    goroutines inside DiscoverServices.  A call that misses    *)
(*              the cache takes the mutex, looks again, starts the watch   *)
(*              goroutine of the service, asks Consul for the catalogue    *)
(*              and stores what it got.                                    *)
(*   watchers   one goroutine per service that blocks on Consul and stores *)
(*              the healthy instances whenever the answer changes.         *)
(*   catalog    Consul itself (external): what it knows of each service.   *)
(*                                                                         *)
(* Every step between two accesses to shared state is an action of its     *)
(* own: the two Loads, the Lock, the query and its Store, the arrival of a *)
(* watch result and its Store.  A sync.Map operation is atomic.            *)
(***************************************************************************)
EXTENDS Naturals

CONSTANTS
    Callers,      \* goroutines that call DiscoverServices
    Services,     \* service names
    Instances,    \* instances that may register, under any name
    MaxChanges,   \* bound: catalogue changes per behaviour
    None,         \* no entry, no result, no answer
    Free          \* the mutex is not held

ASSUME FreeIsNoCaller == Free \notin Callers

Health == {"absent", "passing", "critical"}
View == [Instances -> Health]   \* what Consul answers about one service

ASSUME NoneIsNoList == \A l \in SUBSET Instances : l # None
ASSUME NoneIsNoView == \A v \in View : v # None
ASSUME NoneIsNoService == None \notin Services
ASSUME MaxChangesIsNat == MaxChanges \in Nat

\* Query with passingOnly = false: every registered instance.
Registered(v) == {i \in Instances : v[i] # "absent"}

\* The filter of the watch handler: AggregatedStatus() == HealthPassing.
Passing(v) == {i \in Instances : v[i] = "passing"}

VARIABLES
    instancesMap, \* instancesMap[s]: the cached list of s, None when no key
    mutex,        \* the caller that locked it last and did not unlock it
    pc,           \* pc[c]: where c is in DiscoverServices
    svc,          \* svc[c]: the service c asks for, None outside a call
    resp,         \* resp[c]: the answer to c's query, None when it failed
    result,       \* result[c]: what c's last finished call returned
    watchers,     \* watchers[s]: watch goroutines started for s
    lastResult,   \* lastResult[s]: what the watch plan handled last
    resync,       \* resync[s]: a failed poll made the plan forget its index
    reply,        \* reply[s]: a watch result on its way to the handler
    catalog,      \* catalog[s]: Consul's view of s
    changes,      \* catalogue changes so far
    overwritten   \* history: the initial Store of s undid a delivery

clientVars == <<instancesMap, mutex, pc, svc, resp, result>>
watchVars == <<watchers, lastResult, resync, reply>>
consulVars == <<catalog, changes>>
vars == <<instancesMap, mutex, pc, svc, resp, result,
          watchers, lastResult, resync, reply, catalog, changes, overwritten>>

Init ==
    /\ instancesMap = [s \in Services |-> None]
    /\ mutex = Free
    /\ pc = [c \in Callers |-> "idle"]
    /\ svc = [c \in Callers |-> None]
    /\ resp = [c \in Callers |-> None]
    /\ result = [c \in Callers |-> None]
    /\ watchers = [s \in Services |-> 0]
    /\ lastResult = [s \in Services |-> None]
    /\ resync = [s \in Services |-> FALSE]
    /\ reply = [s \in Services |-> None]
    /\ catalog \in [Services -> View]
    /\ changes = 0
    /\ overwritten = [s \in Services |-> FALSE]

-----------------------------------------------------------------------------
(* DiscoverServices, called by c for s.                                    *)

Cached(s) == instancesMap[s] # None

\* Mutant of Return: the caller leaves but still counts as waiting.
ReturnStillAsking(c, l) ==
    /\ pc' = [pc EXCEPT ![c] = "idle"]
    /\ result' = [result EXCEPT ![c] = l]
    /\ UNCHANGED svc

\* Leave DiscoverServices with the list l.
Return(c, l) ==
    /\ pc' = [pc EXCEPT ![c] = "idle"]
    /\ svc' = [svc EXCEPT ![c] = None]
    /\ result' = [result EXCEPT ![c] = l]

\* The first Load finds the key: the call ends without touching the mutex.
LoadHit(c, s) ==
    /\ pc[c] = "idle"
    /\ Cached(s)
    /\ Return(c, instancesMap[s])
    /\ UNCHANGED <<instancesMap, mutex, resp, watchVars, consulVars, overwritten>>

\* The first Load misses: c is about to lock.
LoadMiss(c, s) ==
    /\ pc[c] = "idle"
    /\ ~Cached(s)
    /\ pc' = [pc EXCEPT ![c] = "lock"]
    /\ svc' = [svc EXCEPT ![c] = s]
    /\ result' = [result EXCEPT ![c] = None]
    /\ UNCHANGED <<instancesMap, mutex, resp, watchVars, consulVars, overwritten>>

\* Mutant of Lock: TryLock whose outcome is ignored.
LockAnyway(c) ==
    /\ pc[c] = "lock"
    /\ mutex' = c
    /\ pc' = [pc EXCEPT ![c] = "recheck"]
    /\ UNCHANGED <<instancesMap, svc, resp, result, watchVars, consulVars, overwritten>>

\* mutex.Lock()
Lock(c) ==
    /\ pc[c] = "lock"
    /\ mutex = Free
    /\ mutex' = c
    /\ pc' = [pc EXCEPT ![c] = "recheck"]
    /\ UNCHANGED <<instancesMap, svc, resp, result, watchVars, consulVars, overwritten>>

\* The second Load finds the key: the call returns above the line that
\* defers Unlock, so the mutex stays locked.
RecheckHit(c) ==
    /\ pc[c] = "recheck"
    /\ Cached(svc[c])
    /\ Return(c, instancesMap[svc[c]])
    /\ UNCHANGED <<instancesMap, mutex, resp, watchVars, consulVars, overwritten>>

\* Mutant of RecheckMiss: no second Load, every caller that missed fills.
FillWithoutRecheck(c) ==
    /\ pc[c] = "recheck"
    /\ watchers' = [watchers EXCEPT ![svc[c]] = @ + 1]
    /\ pc' = [pc EXCEPT ![c] = "query"]
    /\ UNCHANGED <<instancesMap, mutex, svc, resp, result, lastResult, resync, reply,
                   consulVars, overwritten>>

\* The second Load misses too: start the watch goroutine, defer Unlock.
RecheckMiss(c) ==
    /\ pc[c] = "recheck"
    /\ ~Cached(svc[c])
    /\ watchers' = [watchers EXCEPT ![svc[c]] = @ + 1]
    /\ pc' = [pc EXCEPT ![c] = "query"]
    /\ UNCHANGED <<instancesMap, mutex, svc, resp, result, lastResult, resync, reply,
                   consulVars, overwritten>>

\* client.Service(name, "", false, nil): Consul answers, or the call fails.
Query(c) ==
    /\ pc[c] = "query"
    /\ \E r \in {Registered(catalog[svc[c]]), None} : resp' = [resp EXCEPT ![c] = r]
    /\ pc' = [pc EXCEPT ![c] = "store"]
    /\ UNCHANGED <<instancesMap, mutex, svc, result, watchVars, consulVars, overwritten>>

\* The list DiscoverServices stores and returns: an empty one after an error.
Initial(c) == IF resp[c] = None THEN {} ELSE resp[c]

\* Mutant of Store: ask again, under the mutex, until Consul answers.
StoreOrAskAgain(c) ==
    /\ pc[c] = "store"
    /\ IF resp[c] = None
       THEN /\ pc' = [pc EXCEPT ![c] = "query"]
            /\ UNCHANGED <<instancesMap, mutex, svc, result, overwritten>>
       ELSE /\ instancesMap' = [instancesMap EXCEPT ![svc[c]] = resp[c]]
            /\ overwritten' = [overwritten EXCEPT ![svc[c]] =
                                 /\ lastResult[svc[c]] # None
                                 /\ resp[c] # Passing(lastResult[svc[c]])]
            /\ mutex' = Free
            /\ Return(c, resp[c])
    /\ resp' = [resp EXCEPT ![c] = None]
    /\ UNCHANGED <<watchVars, consulVars>>

\* Store the initial list whatever a delivery stored meanwhile; the deferred
\* Unlock runs; return the list.
Store(c) ==
    /\ pc[c] = "store"
    /\ instancesMap' = [instancesMap EXCEPT ![svc[c]] = Initial(c)]
    /\ overwritten' = [overwritten EXCEPT ![svc[c]] =
                         /\ lastResult[svc[c]] # None
                         /\ Initial(c) # Passing(lastResult[svc[c]])]
    /\ mutex' = Free
    /\ Return(c, Initial(c))
    /\ resp' = [resp EXCEPT ![c] = None]
    /\ UNCHANGED <<watchVars, consulVars>>

-----------------------------------------------------------------------------
(* The watch goroutine of s: plan.Run polls Consul and calls the handler.  *)

\* Consul answers a blocking query.  The plan drops an answer equal to the
\* one it handled last, unless it lost its index to a failed poll.
WatchReply(s) ==
    /\ watchers[s] > 0
    /\ reply[s] = None
    /\ lastResult[s] # catalog[s] \/ resync[s]
    /\ reply' = [reply EXCEPT ![s] = catalog[s]]
    /\ UNCHANGED <<clientVars, watchers, lastResult, resync, consulVars, overwritten>>

\* A poll fails: the plan forgets its index and polls again.
WatchError(s) ==
    /\ watchers[s] > 0
    /\ reply[s] = None
    /\ resync' = [resync EXCEPT ![s] = TRUE]
    /\ UNCHANGED <<clientVars, watchers, lastResult, reply, consulVars, overwritten>>

\* What the plan and the handler do with an answer, apart from the cache.
Handled(s) ==
    /\ reply[s] # None
    /\ lastResult' = [lastResult EXCEPT ![s] = reply[s]]
    /\ resync' = [resync EXCEPT ![s] = FALSE]
    /\ reply' = [reply EXCEPT ![s] = None]
    /\ overwritten' = [overwritten EXCEPT ![s] = FALSE]
    /\ UNCHANGED <<mutex, pc, svc, resp, result, watchers, consulVars>>

\* Mutant of WatchHandle: it leaves the cache alone when nobody is healthy.
HandleUnlessEmpty(s) ==
    /\ Handled(s)
    /\ IF Passing(reply[s]) = {}
       THEN UNCHANGED instancesMap
       ELSE instancesMap' = [instancesMap EXCEPT ![s] = Passing(reply[s])]

\* plan.Handler: keep the passing instances; nobody online is an empty list.
WatchHandle(s) ==
    /\ Handled(s)
    /\ instancesMap' = [instancesMap EXCEPT ![s] = Passing(reply[s])]

-----------------------------------------------------------------------------
(* Consul (external): an instance registers, deregisters, or changes health. *)

CatalogChange(s) ==
    /\ changes < MaxChanges
    /\ \E i \in Instances, h \in Health :
          /\ catalog[s][i] # h
          /\ catalog' = [catalog EXCEPT ![s][i] = h]
    /\ changes' = changes + 1
    /\ UNCHANGED <<clientVars, watchVars, overwritten>>

-----------------------------------------------------------------------------
Next ==
    \/ \E c \in Callers, s \in Services : LoadHit(c, s) \/ LoadMiss(c, s)
    \/ \E c \in Callers :
          \/ Lock(c)
          \/ RecheckHit(c)
          \/ RecheckMiss(c)
          \/ Query(c)
          \/ Store(c)
    \/ \E s \in Services :
          \/ WatchReply(s)
          \/ WatchError(s)
          \/ WatchHandle(s)
          \/ CatalogChange(s)

Spec == Init /\ [][Next]_vars

\* The scheduler runs every goroutine that can run; Lock is granted to a
\* waiter again and again refused (Go's mutex hands over to a starving waiter);
\* Consul answers every request, if only with an error, and polls that keep
\* failing do not keep a successful one away forever.  Nobody has to call
\* DiscoverServices and Consul's catalogue need not change.
Fairness ==
    /\ \A c \in Callers :
          /\ SF_vars(Lock(c))
          /\ WF_vars(RecheckHit(c) \/ RecheckMiss(c))
          /\ WF_vars(Query(c))
          /\ WF_vars(Store(c))
    /\ \A s \in Services :
          /\ WF_vars(WatchReply(s))
          /\ WF_vars(WatchHandle(s))

FairSpec == Spec /\ Fairness

-----------------------------------------------------------------------------
(* Type invariant.                                                         *)

Lists == SUBSET Instances

\* Every variable keeps its type; a caller has a service exactly while it is
\* inside DiscoverServices.
TypeOK ==
    /\ instancesMap \in [Services -> {None} \union Lists]
    /\ mutex \in Callers \union {Free}
    /\ pc \in [Callers -> {"idle", "lock", "recheck", "query", "store"}]
    /\ svc \in [Callers -> Services \union {None}]
    /\ \A c \in Callers : svc[c] = None <=> pc[c] = "idle"
    /\ resp \in [Callers -> {None} \union Lists]
    /\ result \in [Callers -> {None} \union Lists]
    /\ watchers \in [Services -> Nat]
    /\ lastResult \in [Services -> {None} \union View]
    /\ resync \in [Services -> BOOLEAN]
    /\ reply \in [Services -> {None} \union View]
    /\ catalog \in [Services -> View]
    /\ changes \in 0..MaxChanges
    /\ overwritten \in [Services -> BOOLEAN]

-----------------------------------------------------------------------------
(* Safety.                                                                 *)

\* c is between Lock and its deferred Unlock, or before the second Load.
Critical(c) == pc[c] \in {"recheck", "query", "store"}

\* c has started the watch of s and has not stored the initial list yet.
Fills(c, s) == pc[c] \in {"query", "store"} /\ svc[c] = s

\* The initial Store of s is done.
Warm(s) == Cached(s) /\ \A c \in Callers : ~Fills(c, s)

\* The mutex is locked and nobody is left who will unlock it.
Leaked == mutex # Free /\ ~Critical(mutex)

\* The critical section has one caller at a time, who holds the mutex, so
\* two callers never fill two services, or one service twice, side by side.
OneFillAtATime == \A c \in Callers : Critical(c) => mutex = c

\* However calls, fills and deliveries interleave, at most one watch goroutine
\* is ever started for a service, and no service gets a cache entry that
\* nobody watches: DiscoverServices looks again under the mutex.
WatchedOnce ==
    \A s \in Services :
        /\ watchers[s] <= 1
        /\ Cached(s) => watchers[s] = 1

\* Once the initial Store of s is done no later call can touch the entry of s:
\* it stays, and only a delivery of the watch replaces it.  So the initial list
\* can undo a delivery (overwritten) once in the life of the process, no more.
OnlyWatchChangesWarm ==
    [][\A s \in Services :
          Warm(s) =>
             /\ Warm(s)'
             /\ instancesMap'[s] # instancesMap[s]
                   => reply[s] # None /\ instancesMap'[s] = Passing(reply[s])
             /\ overwritten'[s] => overwritten[s]]_vars

\* A leaked mutex is never recovered: no call takes it again, and a service
\* that had no entry when it leaked never gets one.
LeakIsPermanent ==
    [][Leaked => /\ Leaked'
                 /\ \A s \in Services : ~Cached(s) => ~Cached(s)']_vars

\* DiscoverServices is the cache of ServiceCache.tla: a service is cold until
\* a caller starts its watch, filling until the initial Store, warm after it.
Phase(s) ==
    IF \E c \in Callers : Fills(c, s) THEN "filling"
    ELSE IF Cached(s) THEN "warm" ELSE "cold"

Promise == INSTANCE ServiceCache WITH
    phase <- [s \in Services |-> Phase(s)],
    view <- instancesMap,
    asked <- svc,
    answer <- result

\* Every behaviour of DiscoverServices is one ServiceCache allows: one fill
\* per service, one at a time, by a caller that asked, and every answer the
\* view of its moment.
ImplementsServiceCache == Promise!Spec

-----------------------------------------------------------------------------
(* Liveness, under FairSpec.                                               *)

\* A call returns unless the mutex leaks: losing the race to the mutex or an
\* error of Consul never keeps a caller waiting.
CallsReturnUnlessLeaked ==
    \A c \in Callers : pc[c] # "idle" ~> pc[c] = "idle" \/ Leaked

\* Once Consul's catalogue stops changing, the cache of every service comes to
\* hold its healthy instances, failed polls included, unless the initial Store
\* undid the delivery.
CacheConverges ==
    <>[](\A s \in Services :
            Cached(s) /\ ~overwritten[s] => instancesMap[s] = Passing(catalog[s]))
=============================================================================
