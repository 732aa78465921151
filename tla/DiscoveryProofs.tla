--------------------------- MODULE DiscoveryProofs ---------------------------
(***************************************************************************)
(* Theorems about Discovery for every set of callers, services and         *)
(* instances.  TypeOK and OneFillAtATime are inductive; what is known of   *)
(* the watch goroutines needs the strengthening Watching below.            *)
(***************************************************************************)
EXTENDS Discovery, TLAPS

-----------------------------------------------------------------------------
(* Types.                                                                  *)

LEMMA ListsOfViews == \A v \in View : Passing(v) \in Lists /\ Registered(v) \in Lists
BY DEF View, Passing, Registered, Lists

LEMMA TypeInit == Init => TypeOK
BY FreeIsNoCaller, MaxChangesIsNat DEF Init, TypeOK

LEMMA TypeCaller ==
    ASSUME TypeOK, NEW c \in Callers
    PROVE  /\ \A s \in Services : LoadHit(c, s) \/ LoadMiss(c, s) => TypeOK'
           /\ Lock(c) \/ RecheckHit(c) \/ RecheckMiss(c) => TypeOK'
           /\ Query(c) \/ Store(c) => TypeOK'
<1> USE NoneIsNoService
<1>1. ASSUME NEW s \in Services, LoadHit(c, s)
      PROVE  TypeOK'
  BY <1>1 DEF TypeOK, LoadHit, Return, Cached, watchVars, consulVars
<1>2. ASSUME NEW s \in Services, LoadMiss(c, s)
      PROVE  TypeOK'
  BY <1>2 DEF TypeOK, LoadMiss, Cached, watchVars, consulVars
<1>3. ASSUME Lock(c)
      PROVE  TypeOK'
  BY <1>3 DEF TypeOK, Lock, watchVars, consulVars
<1>4. ASSUME RecheckHit(c)
      PROVE  TypeOK'
  BY <1>4 DEF TypeOK, RecheckHit, Return, Cached, watchVars, consulVars
<1>5. ASSUME RecheckMiss(c)
      PROVE  TypeOK'
  BY <1>5 DEF TypeOK, RecheckMiss, consulVars
<1>6. ASSUME Query(c)
      PROVE  TypeOK'
  BY <1>6, ListsOfViews DEF TypeOK, Query, watchVars, consulVars
<1>7. ASSUME Store(c)
      PROVE  TypeOK'
  <2>1. Initial(c) \in Lists
    BY DEF TypeOK, Initial, Lists
  <2> QED
    BY <1>7, <2>1 DEF TypeOK, Store, Return, watchVars, consulVars
<1> QED
  BY <1>1, <1>2, <1>3, <1>4, <1>5, <1>6, <1>7

LEMMA TypeWatch ==
    ASSUME TypeOK, NEW s \in Services
    PROVE  /\ WatchReply(s) \/ WatchError(s) \/ WatchHandle(s) => TypeOK'
           /\ CatalogChange(s) => TypeOK'
<1>1. ASSUME WatchReply(s)
      PROVE  TypeOK'
  BY <1>1 DEF TypeOK, WatchReply, clientVars, consulVars
<1>2. ASSUME WatchError(s)
      PROVE  TypeOK'
  BY <1>2 DEF TypeOK, WatchError, clientVars, consulVars
<1>3. ASSUME WatchHandle(s)
      PROVE  TypeOK'
  BY <1>3, ListsOfViews DEF TypeOK, WatchHandle, Handled, consulVars
<1>4. ASSUME CatalogChange(s)
      PROVE  TypeOK'
  <2>1. PICK i \in Instances, h \in Health :
           catalog' = [catalog EXCEPT ![s][i] = h]
    BY <1>4 DEF CatalogChange
  <2>2. catalog' \in [Services -> View]
    BY <2>1 DEF TypeOK, View
  <2> QED
    BY <1>4, <2>2, MaxChangesIsNat DEF TypeOK, CatalogChange, clientVars, watchVars
<1> QED
  BY <1>1, <1>2, <1>3, <1>4

\* Every step keeps the types.
LEMMA TypeStep == TypeOK /\ [Next]_vars => TypeOK'
<1> SUFFICES ASSUME TypeOK, [Next]_vars
             PROVE  TypeOK'
  OBVIOUS
<1>1. CASE UNCHANGED vars
  BY <1>1 DEF TypeOK, vars
<1>2. CASE Next
  BY <1>2, TypeCaller, TypeWatch DEF Next
<1> QED
  BY <1>1, <1>2

\* The type invariant: a caller has a service exactly while it is inside
\* DiscoverServices, the cache holds lists and nothing else.
THEOREM TypeCorrect == Spec => []TypeOK
BY TypeInit, TypeStep, PTL DEF Spec

-----------------------------------------------------------------------------
(* Mutual exclusion.  A leaked mutex does not break it: it blocks Lock.     *)

LEMMA ExclusionStep == TypeOK /\ OneFillAtATime /\ [Next]_vars => OneFillAtATime'
<1> SUFFICES ASSUME TypeOK, OneFillAtATime, [Next]_vars,
                    NEW c \in Callers, Critical(c)'
             PROVE  mutex' = c
  BY DEF OneFillAtATime
<1> USE DEF TypeOK, OneFillAtATime, Critical
<1>1. ASSUME NEW d \in Callers, NEW s \in Services, LoadHit(d, s) \/ LoadMiss(d, s)
      PROVE  mutex' = c
  BY <1>1 DEF LoadHit, LoadMiss, Return
<1>2. ASSUME NEW d \in Callers, Lock(d)
      PROVE  mutex' = c
  BY <1>2, FreeIsNoCaller DEF Lock
<1>3. ASSUME NEW d \in Callers, RecheckHit(d) \/ RecheckMiss(d)
      PROVE  mutex' = c
  BY <1>3 DEF RecheckHit, RecheckMiss, Return
<1>4. ASSUME NEW d \in Callers, Query(d)
      PROVE  mutex' = c
  BY <1>4 DEF Query
<1>5. ASSUME NEW d \in Callers, Store(d)
      PROVE  mutex' = c
  BY <1>5 DEF Store, Return
<1>6. ASSUME NEW s \in Services, WatchReply(s) \/ WatchError(s) \/ WatchHandle(s)
      PROVE  mutex' = c
  BY <1>6 DEF WatchReply, WatchError, WatchHandle, Handled, clientVars
<1>7. ASSUME NEW s \in Services, CatalogChange(s)
      PROVE  mutex' = c
  BY <1>7 DEF CatalogChange, clientVars
<1>8. CASE UNCHANGED vars
  BY <1>8 DEF vars
<1> QED
  BY <1>1, <1>2, <1>3, <1>4, <1>5, <1>6, <1>7, <1>8 DEF Next

\* The critical section of DiscoverServices has at most one caller, who holds the
\* mutex, whether or not another one left it locked.
THEOREM Exclusion == Spec => []OneFillAtATime
<1>1. Init => OneFillAtATime
  BY DEF Init, OneFillAtATime, Critical
<1> QED
  BY <1>1, ExclusionStep, TypeCorrect, PTL DEF Spec

-----------------------------------------------------------------------------
(* The watch goroutines.  WatchedOnce is not inductive: RecheckMiss starts *)
(* a watch because the service has no entry, and what tells that nobody    *)
(* watches it yet is that a watched service has an entry or a caller about *)
(* to store one.                                                           *)

Watching ==
    \A s \in Services :
        /\ watchers[s] \in {0, 1}
        /\ watchers[s] = 0 => /\ ~Cached(s)
                              /\ lastResult[s] = None
                              /\ reply[s] = None
                              /\ \A c \in Callers : ~Fills(c, s)
        /\ watchers[s] = 1 => Cached(s) \/ \E c \in Callers : Fills(c, s)

DiscoveryInv == TypeOK /\ OneFillAtATime /\ Watching

LEMMA WatchingCaller ==
    ASSUME DiscoveryInv, NEW c \in Callers
    PROVE  /\ \A s \in Services : LoadHit(c, s) \/ LoadMiss(c, s) => Watching'
           /\ Lock(c) \/ RecheckHit(c) \/ RecheckMiss(c) => Watching'
           /\ Query(c) \/ Store(c) => Watching'
<1> USE DEF DiscoveryInv, TypeOK, Watching, Cached, Fills
<1>1. ASSUME NEW s \in Services, LoadHit(c, s)
      PROVE  Watching'
  BY <1>1 DEF LoadHit, Return, watchVars
<1>2. ASSUME NEW s \in Services, LoadMiss(c, s)
      PROVE  Watching'
  BY <1>2 DEF LoadMiss, watchVars
<1>3. ASSUME Lock(c)
      PROVE  Watching'
  BY <1>3 DEF Lock, watchVars
<1>4. ASSUME RecheckHit(c)
      PROVE  Watching'
  BY <1>4 DEF RecheckHit, Return, watchVars
<1>5. ASSUME RecheckMiss(c)
      PROVE  Watching'
  <2>1. svc[c] \in Services /\ ~Cached(svc[c])
    BY <1>5 DEF RecheckMiss
  <2>2. \A d \in Callers : pc[d] \notin {"query", "store"}
    BY <1>5 DEF RecheckMiss, OneFillAtATime, Critical
  <2>3. watchers[svc[c]] = 0
    BY <2>1, <2>2
  <2> QED
    BY <1>5, <2>1, <2>2, <2>3 DEF RecheckMiss
<1>6. ASSUME Query(c)
      PROVE  Watching'
  BY <1>6 DEF Query, watchVars
<1>7. ASSUME Store(c)
      PROVE  Watching'
  <2>1. Initial(c) # None /\ svc[c] \in Services
    BY <1>7, NoneIsNoList DEF Store, Initial, Lists
  <2> QED
    BY <1>7, <2>1 DEF Store, Return, watchVars
<1> QED
  BY <1>1, <1>2, <1>3, <1>4, <1>5, <1>6, <1>7

LEMMA WatchingWatch ==
    ASSUME DiscoveryInv, NEW s \in Services
    PROVE  /\ WatchReply(s) \/ WatchError(s) \/ WatchHandle(s) => Watching'
           /\ CatalogChange(s) => Watching'
<1> USE DEF DiscoveryInv, TypeOK, Watching, Cached, Fills
<1>1. ASSUME WatchReply(s)
      PROVE  Watching'
  BY <1>1 DEF WatchReply, clientVars
<1>2. ASSUME WatchError(s)
      PROVE  Watching'
  BY <1>2 DEF WatchError, clientVars
<1>3. ASSUME WatchHandle(s)
      PROVE  Watching'
  <2>1. Passing(reply[s]) # None
    BY NoneIsNoList DEF Passing
  <2> QED
    BY <1>3, <2>1 DEF WatchHandle, Handled
<1>4. ASSUME CatalogChange(s)
      PROVE  Watching'
  BY <1>4 DEF CatalogChange, clientVars, watchVars
<1> QED
  BY <1>1, <1>2, <1>3, <1>4

\* The inductive invariant of the module.
LEMMA Inductive == Spec => []DiscoveryInv
<1>1. Init => Watching
  BY DEF Init, Watching, Cached, Fills
<1>2. DiscoveryInv /\ [Next]_vars => Watching'
  <2> SUFFICES ASSUME DiscoveryInv, [Next]_vars
               PROVE  Watching'
    OBVIOUS
  <2>1. CASE UNCHANGED vars
    BY <2>1 DEF DiscoveryInv, Watching, Cached, Fills, vars
  <2>2. CASE Next
    BY <2>2, WatchingCaller, WatchingWatch DEF Next
  <2> QED
    BY <2>1, <2>2
<1>3. Init => DiscoveryInv
  BY <1>1, TypeInit DEF DiscoveryInv, Init, OneFillAtATime, Critical
<1>4. DiscoveryInv /\ [Next]_vars => DiscoveryInv'
  BY <1>2, TypeStep, ExclusionStep DEF DiscoveryInv
<1> QED
  BY <1>3, <1>4, PTL DEF Spec

\* At most one watch goroutine is ever started for a service, and every
\* service in the cache has one.
THEOREM WatchUnique == Spec => []WatchedOnce
<1>1. DiscoveryInv => WatchedOnce
  BY DEF DiscoveryInv, Watching, WatchedOnce, Cached
<1> QED
  BY <1>1, Inductive, PTL

-----------------------------------------------------------------------------
(* The cache and the watch.                                                *)

\* After the initial Store, no call of DiscoverServices changes the entry of a
\* service: only the watch does, and no delivery is undone any more.
THEOREM WarmIsWatched == Spec => OnlyWatchChangesWarm
<1> DEFINE Kept(s) ==
       Warm(s) => /\ Warm(s)'
                  /\ instancesMap'[s] # instancesMap[s]
                        => reply[s] # None /\ instancesMap'[s] = Passing(reply[s])
                  /\ overwritten'[s] => overwritten[s]
<1>1. ASSUME DiscoveryInv, DiscoveryInv', [Next]_vars, NEW s \in Services, Warm(s)
      PROVE  Kept(s)
  <2> USE <1>1 DEF DiscoveryInv, TypeOK, Warm, Cached, Fills
  <2>1. ASSUME NEW c \in Callers, NEW t \in Services, LoadHit(c, t) \/ LoadMiss(c, t)
        PROVE  Kept(s)
    BY <2>1 DEF LoadHit, LoadMiss, Return
  <2>2. ASSUME NEW c \in Callers, Lock(c) \/ RecheckHit(c) \/ RecheckMiss(c) \/ Query(c)
        PROVE  Kept(s)
    BY <2>2 DEF Lock, RecheckHit, RecheckMiss, Query, Return
  <2>3. ASSUME NEW c \in Callers, Store(c)
        PROVE  Kept(s)
    BY <2>3 DEF Store, Return
  <2>4. ASSUME NEW t \in Services, WatchReply(t) \/ WatchError(t) \/ CatalogChange(t)
        PROVE  Kept(s)
    BY <2>4 DEF WatchReply, WatchError, CatalogChange, clientVars
  <2>5. ASSUME NEW t \in Services, WatchHandle(t)
        PROVE  Kept(s)
    <3>1. Passing(reply[t]) # None
      BY NoneIsNoList DEF Passing
    <3> QED
      BY <2>5, <3>1 DEF WatchHandle, Handled
  <2>6. CASE UNCHANGED vars
    BY <2>6 DEF vars
  <2> QED
    BY <2>1, <2>2, <2>3, <2>4, <2>5, <2>6 DEF Next
<1>2. DiscoveryInv /\ DiscoveryInv' /\ [Next]_vars => [\A s \in Services : Kept(s)]_vars
  BY <1>1
<1> QED
  BY <1>2, Inductive, PTL DEF Spec, OnlyWatchChangesWarm

-----------------------------------------------------------------------------
(* The leak.                                                               *)

LEMMA LeakStep ==
    ASSUME DiscoveryInv, [Next]_vars, Leaked
    PROVE  Leaked' /\ \A s \in Services : ~Cached(s) => ~Cached(s)'
<1> DEFINE Stuck == Leaked' /\ \A s \in Services : ~Cached(s) => ~Cached(s)'
<1>1. \A c \in Callers : ~Critical(c)
  BY DEF DiscoveryInv, OneFillAtATime, Leaked
<1>2. mutex \in Callers /\ mutex # Free
  BY DEF DiscoveryInv, TypeOK, Leaked
<1>3. \A s \in Services : ~Cached(s) => reply[s] = None
  BY <1>1 DEF DiscoveryInv, Watching, Fills, Critical
<1> USE <1>1, <1>2 DEF DiscoveryInv, TypeOK, Leaked, Critical, Cached
<1>4. ASSUME NEW c \in Callers, NEW t \in Services, LoadHit(c, t) \/ LoadMiss(c, t)
      PROVE  Stuck
  BY <1>4 DEF LoadHit, LoadMiss, Return
<1>5. ASSUME NEW c \in Callers,
             Lock(c) \/ RecheckHit(c) \/ RecheckMiss(c) \/ Query(c) \/ Store(c)
      PROVE  Stuck
  BY <1>5 DEF Lock, RecheckHit, RecheckMiss, Query, Store
<1>6. ASSUME NEW t \in Services, WatchReply(t) \/ WatchError(t) \/ CatalogChange(t)
      PROVE  Stuck
  BY <1>6 DEF WatchReply, WatchError, CatalogChange, clientVars
<1>7. ASSUME NEW t \in Services, WatchHandle(t)
      PROVE  Stuck
  BY <1>3, <1>7 DEF WatchHandle, Handled
<1>8. CASE UNCHANGED vars
  BY <1>8 DEF vars
<1> QED
  BY <1>4, <1>5, <1>6, <1>7, <1>8 DEF Next

\* Once DiscoverServices returned with the mutex locked, it stays locked, and
\* no service that was unknown then is ever cached: every call for it waits
\* forever.
THEOREM LeakForever == Spec => LeakIsPermanent
<1> DEFINE Stuck == Leaked => /\ Leaked'
                              /\ \A s \in Services : ~Cached(s) => ~Cached(s)'
<1>1. DiscoveryInv /\ [Next]_vars => [Stuck]_vars
  BY LeakStep
<1> QED
  BY <1>1, Inductive, PTL DEF Spec, LeakIsPermanent

-----------------------------------------------------------------------------
(* Discovery implements ServiceCache.                                      *)

PhaseMap == [s \in Services |-> Phase(s)]

LEMMA PhaseValues ==
    ASSUME NEW s \in Services
    PROVE  /\ PhaseMap[s] = Phase(s)
           /\ Phase(s) = "filling" <=> \E c \in Callers : Fills(c, s)
           /\ Phase(s) = "cold" <=> ~Cached(s) /\ \A c \in Callers : ~Fills(c, s)
           /\ Phase(s) = "warm" <=> Warm(s)
BY DEF PhaseMap, Phase, Warm

LEMMA PhaseFrame ==
    ASSUME \A s \in Services : (Cached(s) <=> Cached(s)'),
           \A s \in Services, c \in Callers : (Fills(c, s) <=> Fills(c, s)')
    PROVE  PhaseMap' = PhaseMap
<1>1. \A s \in Services : Phase(s)' = Phase(s)
  BY DEF Phase
<1> QED
  BY <1>1 DEF PhaseMap

LEMMA StepLoad ==
    ASSUME DiscoveryInv, NEW c \in Callers, NEW s \in Services,
           LoadHit(c, s) \/ LoadMiss(c, s)
    PROVE  Promise!AskKnown(c, s) \/ Promise!Ask(c, s)
<1> USE DEF DiscoveryInv, TypeOK
<1>1. PhaseMap' = PhaseMap
  <2>1. \A t \in Services : (Cached(t) <=> Cached(t)')
    BY DEF LoadHit, LoadMiss, Cached
  <2>2. \A t \in Services, d \in Callers : (Fills(d, t) <=> Fills(d, t)')
    BY DEF LoadHit, LoadMiss, Return, Fills
  <2> QED
    BY <2>1, <2>2, PhaseFrame
<1>2. CASE LoadHit(c, s)
  <2>1. svc' = svc
    BY <1>2 DEF LoadHit, Return
  <2> QED
    BY <1>1, <1>2, <2>1 DEF LoadHit, Return, Cached, Promise!AskKnown, PhaseMap
<1>3. CASE LoadMiss(c, s)
  BY <1>1, <1>3 DEF LoadMiss, Promise!Ask, PhaseMap
<1> QED
  BY <1>2, <1>3

LEMMA StepLock ==
    ASSUME DiscoveryInv, NEW c \in Callers, Lock(c) \/ Query(c)
    PROVE  UNCHANGED Promise!vars
<1> USE DEF DiscoveryInv, TypeOK
<1>1. \A t \in Services : (Cached(t) <=> Cached(t)')
  BY DEF Lock, Query, Cached
<1>2. \A t \in Services, d \in Callers : (Fills(d, t) <=> Fills(d, t)')
  BY DEF Lock, Query, Fills
<1>3. PhaseMap' = PhaseMap
  BY <1>1, <1>2, PhaseFrame
<1> QED
  BY <1>3 DEF Lock, Query, Promise!vars, PhaseMap

LEMMA StepRecheckHit ==
    ASSUME DiscoveryInv, NEW c \in Callers, RecheckHit(c)
    PROVE  Promise!Answer(c)
<1> USE DEF DiscoveryInv, TypeOK
<1>1. \A t \in Services : (Cached(t) <=> Cached(t)')
  BY DEF RecheckHit, Cached
<1>2. \A t \in Services, d \in Callers : (Fills(d, t) <=> Fills(d, t)')
  BY DEF RecheckHit, Return, Fills
<1>3. PhaseMap' = PhaseMap
  BY <1>1, <1>2, PhaseFrame
<1> QED
  BY <1>3 DEF RecheckHit, Return, Cached, Promise!Answer, PhaseMap

LEMMA StepRecheckMiss ==
    ASSUME DiscoveryInv, NEW c \in Callers, RecheckMiss(c)
    PROVE  Promise!Open(c)
<1> USE DEF DiscoveryInv, TypeOK
<1>1. svc[c] \in Services /\ svc[c] # None
  BY NoneIsNoService DEF RecheckMiss
<1>2. \A d \in Callers, t \in Services : ~Fills(d, t)
  BY DEF RecheckMiss, OneFillAtATime, Critical, Fills
<1>3. PhaseMap[svc[c]] = "cold" /\ \A t \in Services : PhaseMap[t] # "filling"
  BY <1>1, <1>2, PhaseValues DEF RecheckMiss
<1>4. PhaseMap' = [PhaseMap EXCEPT ![svc[c]] = "filling"]
  <2>1. ASSUME NEW t \in Services, t = svc[c]
        PROVE  Phase(t)' = "filling"
    BY <1>1, <2>1 DEF RecheckMiss, Phase, Fills
  <2>2. ASSUME NEW t \in Services, t # svc[c]
        PROVE  Phase(t)' = Phase(t)
    BY <1>2, <2>2 DEF RecheckMiss, Phase, Fills, Cached
  <2> QED
    BY <1>1, <2>1, <2>2 DEF PhaseMap
<1> QED
  BY <1>1, <1>3, <1>4 DEF RecheckMiss, Promise!Open, PhaseMap

LEMMA StepStore ==
    ASSUME DiscoveryInv, NEW c \in Callers, Store(c)
    PROVE  Initial(c) \in SUBSET Instances /\ Promise!Fill(c, Initial(c))
<1> USE DEF DiscoveryInv, TypeOK
<1>1. svc[c] \in Services /\ svc[c] # None /\ Fills(c, svc[c])
  BY NoneIsNoService DEF Store, Fills
<1>2. Initial(c) \in Lists /\ Initial(c) # None
  BY NoneIsNoList DEF Initial, Lists
<1>3. \A d \in Callers \ {c}, t \in Services : ~Fills(d, t)
  BY DEF Store, OneFillAtATime, Critical, Fills
<1>4. PhaseMap[svc[c]] = "filling"
  BY <1>1, PhaseValues
<1>5. PhaseMap' = [PhaseMap EXCEPT ![svc[c]] = "warm"]
  <2>1. \A d \in Callers, t \in Services : ~Fills(d, t)'
    BY <1>3 DEF Store, Return, Fills
  <2>2. ASSUME NEW t \in Services, t = svc[c]
        PROVE  Phase(t)' = "warm"
    BY <1>2, <2>1, <2>2 DEF Store, Phase, Cached
  <2>3. ASSUME NEW t \in Services, t # svc[c]
        PROVE  Phase(t)' = Phase(t)
    BY <1>1, <1>3, <2>1, <2>3 DEF Store, Phase, Fills, Cached
  <2> QED
    BY <1>1, <2>2, <2>3 DEF PhaseMap
<1> QED
  BY <1>1, <1>2, <1>4, <1>5 DEF Store, Return, Lists, Promise!Fill, PhaseMap

LEMMA StepWatch ==
    ASSUME DiscoveryInv, NEW s \in Services, WatchHandle(s)
    PROVE  /\ Passing(reply[s]) \in SUBSET Instances
           /\ Promise!Deliver(s, Passing(reply[s]))
<1> USE DEF DiscoveryInv, TypeOK
<1>1. Passing(reply[s]) \in SUBSET Instances /\ Passing(reply[s]) # None
  BY NoneIsNoList DEF Passing
<1>2. Cached(s) \/ \E c \in Callers : Fills(c, s)
  BY DEF WatchHandle, Handled, Watching
<1>3. PhaseMap[s] # "cold"
  BY <1>2, PhaseValues
<1>4. PhaseMap' = PhaseMap
  <2>1. ASSUME NEW t \in Services
        PROVE  Phase(t)' = Phase(t)
    BY <1>1, <1>2 DEF WatchHandle, Handled, Phase, Fills, Cached
  <2> QED
    BY <2>1 DEF PhaseMap
<1> QED
  BY <1>1, <1>3, <1>4 DEF WatchHandle, Handled, Promise!Deliver, PhaseMap

LEMMA StepOther ==
    ASSUME DiscoveryInv, NEW s \in Services,
           WatchReply(s) \/ WatchError(s) \/ CatalogChange(s)
    PROVE  UNCHANGED Promise!vars
BY DEF WatchReply, WatchError, CatalogChange, clientVars, Promise!vars, Phase, Fills, Cached

\* DiscoverServices is the cache its callers expect: one fill per service, one
\* at a time, and every answer the view of the moment it was given.
THEOREM Refinement == Spec => ImplementsServiceCache
<1>1. Init => Promise!Init
  BY DEF Init, Promise!Init, Phase, Fills, Cached
<1>2. ASSUME DiscoveryInv, [Next]_vars
      PROVE  [Promise!Next]_(Promise!vars)
  <2>1. ASSUME NEW c \in Callers, NEW s \in Services, LoadHit(c, s) \/ LoadMiss(c, s)
        PROVE  Promise!Next
    BY <1>2, <2>1, StepLoad DEF Promise!Next
  <2>2. ASSUME NEW c \in Callers, Lock(c) \/ Query(c)
        PROVE  UNCHANGED Promise!vars
    BY <1>2, <2>2, StepLock
  <2>3. ASSUME NEW c \in Callers, RecheckHit(c) \/ RecheckMiss(c)
        PROVE  Promise!Next
    BY <1>2, <2>3, StepRecheckHit, StepRecheckMiss DEF Promise!Next
  <2>4. ASSUME NEW c \in Callers, Store(c)
        PROVE  Promise!Next
    BY <1>2, <2>4, StepStore DEF Promise!Next
  <2>5. ASSUME NEW s \in Services, WatchHandle(s)
        PROVE  Promise!Next
    BY <1>2, <2>5, StepWatch DEF Promise!Next
  <2>6. ASSUME NEW s \in Services, WatchReply(s) \/ WatchError(s) \/ CatalogChange(s)
        PROVE  UNCHANGED Promise!vars
    BY <1>2, <2>6, StepOther
  <2>7. CASE UNCHANGED vars
    BY <2>7 DEF vars, Promise!vars, Phase, Fills, Cached
  <2> QED
    BY <1>2, <2>1, <2>2, <2>3, <2>4, <2>5, <2>6, <2>7 DEF Next
<1> QED
  BY <1>1, <1>2, Inductive, PTL DEF Spec, ImplementsServiceCache, Promise!Spec
=============================================================================
