# SecondKill: a verification project in TLA+

SecondKill is a flash-sale backend in Go: an API gateway, an OAuth service, an administration service (sk-admin)
and shared packages. It has no specification of its own. The modules here are read from its code, TLC checks them on
small instances, and TLAPS proves what matters most for every value of the constants.
Paths below are relative to the repository's root; line numbers are those of the commit modelled.

## 1. Inventory

The system is a set of server processes. Each one finds the others through a Consul agent, and sk-admin talks to
ZooKeeper and to MySQL.

| Component | State | Operations | Hard about it | Module |
| --- | --- | --- | --- | --- |
| Service discovery client, `pkg/discover/kit_discovery_client.go` | `instancesMap` (sync.Map: service to list), `mutex`, one watch goroutine per service | `DiscoverServices`, the watch handler | unlocked stores beside a locked fill, an early return with the mutex locked, a late answer over a newer one | `Discovery`, `ServiceCache` |
| Gateway request path, `gateway/router/route.go` | per request: its handler, the goroutine of `hystrix.Do`, the ResponseWriter they share | `ServeHTTP`, `preFilter` | a timer that abandons work which goes on and shares the ResponseWriter, panics outside net/http's recover | `Gateway` |
| RPC client, `pkg/client` | none of its own | `DecoratorInvoke`, `CheckToken`, `CheckUser` | runs inside `hystrix.Do`, calls a nil tracer, drops the error of `grpc.Dial` | `Gateway` (in part) |
| Load balancing, `pkg/loadbalance` | `CurWeight` in the instances of a cached list | `SelectBalance` of three balancers, of which only the random one is instantiated | a state that is never reset and lives in lists the watch replaces | `Balance`; `Gateway` uses the random one |
| OAuth endpoints and middleware, `oauth-service/{endpoint,transport,plugins}`, `main.go` | the rate limiter's bucket; per request its client and token | token, check (HTTP), check (gRPC) | one limiter for three endpoints, the order of the middlewares | `OAuthService` |
| Token service, `oauth-service/service/token_service.go` | the `TokenStore`: access tokens, the one of each user, refresh tokens (as wired none: a JWT carries its own state) | `CreateAccessToken`, `RefreshAccessToken`, check | up to six store calls per request and no lock, panics between them, tokens that equal each other, time passing between the reads of one token | `TokenService`, `Sessions`; `OAuthService` as wired |
| Activity publication, `sk-admin/service/activity.go` | one ZooKeeper node with a list and a version | `syncToZk`, `loadProductFromZk` | read, append, write back by several administrators through a store that fails | `ActivitySync` |
| Process lifecycle, `oauth-service/main.go`, `gateway/main.go`, `pkg/discover/discover_init.go` | goroutines, an error channel, the entry in Consul | start, `Register`, serve, signal, `DeRegister`, exit | exit while `Register` is under way, lost answers, crashes and restarts, requests of a dead process that arrive under its next life | `Lifecycle` |
| Configuration at startup, `pkg/bootstrap`, `pkg/config`, `gateway/config`, `oauth-service/config`, `pkg/mysql` | viper's global configuration and the variables decoded from it | package `init`, `LoadRemoteConfig`, `Sub`, `InitMysql` | a remote load that first empties what it replaces, errors that are only logged, nil pointers, an order fixed by imports, sk-admin's config package that nothing imports | `Startup` |
| Products and activity lists, `sk-admin/{service,model}`, `pkg/mysql` | MySQL tables | `CreateProduct`, `GetProductList`, `CreateActivity`, `GetActivityList` | one statement each | not modelled |

How they interact:

- A request at the gateway is a call of `ServeHTTP`. Unless its path is permitted it first asks the OAuth service
  (`preFilter` to `CheckToken` to `DecoratorInvoke`); both that call and the proxied one run in a goroutine of hystrix,
  and both begin with `DiscoverServices`. So the gateway's requests are the callers of the discovery client.
- Before any `main`, the initialisers read the local configuration, build the discovery client from it and look the
  configuration server up through that client; what they leave behind is what `Lifecycle` registers.
- The discovery client gets the healthy instances of a service from Consul, by one query and then by a watch.
- A server process puts itself into Consul (`Register`) and takes itself out (`DeRegister`). Consul's catalogue, which
  `Discovery` takes as its environment, is the result of what `Lifecycle` models.
- A panic in a goroutine that net/http did not start ends the process: the `up` of `Gateway` and `OAuthService`
  becoming FALSE is the `Crash` of `Lifecycle`.
- sk-admin publishes to ZooKeeper; the consumer of that node is not in the repository.

What makes each component correct, in words:

- discovery: one watch and one fill per service, a cache that follows the watch, calls that return, convergence to Consul;
- gateway: every request is answered, with the error if its work failed and with an instance's header only if an
  instance was called; without an instance of the OAuth service nothing passes the filter; a failed call never ends the
  process;
- OAuth: the limiter bounds what all endpoints together let through, nobody unknown is served, a token that could not be
  read once stays unreadable;
- tokens: a refresh token is used once, every access token in the store is one its user can replace, who has one can refresh it;
- balancing: every instance gets its weight's share of each round, and what it is owed stays bounded;
- startup: a server that comes up can register, under an address of its own; a load of remote settings is all or nothing;
- publication: what was reported as published is there, and what one writer may drop of another's is bounded;
- lifecycle: who serves is in Consul, who left is not, who is asked to stop stops.

PROJECT.json lists the hazards behind these sentences, each at its line, with the properties aimed at it.

## 2. Modules

| Module | What it is | Uses |
| --- | --- | --- |
| `ServiceCache` | abstract: what callers of `DiscoverServices` rely on | |
| `Discovery` | the discovery client, its watches, Consul | implements `ServiceCache` |
| `Gateway` | requests, hystrix, proxy, token check | extends `Discovery` |
| `OAuthService` | endpoints, limiter, tokens, time | |
| `ActivitySync` | `syncToZk` beside a failing ZooKeeper | |
| `Lifecycle` | main goroutines, signals, registration, Consul's entries | |
| `Startup` | the initialisers over viper's configuration, up to the open database | |
| `Sessions` | abstract: what clients of the token service rely on | |
| `TokenService` | creation, reuse and refresh of tokens over a store | implements `Sessions` |
| `Balance` | the three balancers over lists that are replaced | |
| `DiscoveryProofs`, `GatewayProofs`, `OAuthServiceProofs`, `ActivitySyncProofs`, `LifecycleProofs`, `StartupProofs`, `TokenServiceProofs`, `BalanceProofs` | theorems | the module of their name |
| `MCDiscovery`, `MCGateway`, `MCOAuthService`, `MCActivitySync`, `MCLifecycle`, `MCStartup`, `MCTokenService`, `MCBalance` | instances for TLC | the module of their name |

An action is one step between two accesses to shared state. A definition marked "Mutant of X" is a plausible wrong
version of the action X below it; nothing uses it unless X is replaced by it to see a property fail.

### Discovery

`pc[c]` places a caller in `DiscoverServices`. `LoadHit` and `LoadMiss` are the first Load (lines 77-79), `Lock` line 81,
`RecheckHit` and `RecheckMiss` the second Load (83-88) with the start of the watch goroutine and the deferred Unlock,
`Query` and `Store` the catalogue query and the Store with the Unlock (119-134). `RecheckHit` leaves with the mutex locked
because line 84 returns above line 118. `WatchReply`, `WatchError` and `WatchHandle` are the plan's poll and the handler
(89-116); the plan delivers only an answer that differs from the last one, unless a failed poll made it forget its index.
`catalog` is Consul and `CatalogChange` what happens to it. `overwritten` is a history variable: the initial Store of a
service came after a delivery and disagrees with it.

Two things the code does wrong appear in the properties as the only exceptions they allow. After `RecheckHit` every call for
a service without an entry waits forever (`CallsReturnUnlessLeaked`; `LeakIsPermanent` and, in the gateway,
`LeakStarvesService` say what follows). And a late initial Store may bring back an instance that the watch had dropped,
which nothing corrects until Consul's answer changes again (`CacheConverges` excepts a service that is `overwritten`). That this
cannot happen to a service later than its initial Store is `OnlyWatchChangesWarm`.

`ServiceCache` says the same without mutexes, goroutines or Consul: a service is cold, filled once by a caller that asked,
one service at a time, and warm from then on; every answer is the view of its moment. The refinement mapping is in
`Discovery` (`Phase`, `Promise`).

### Gateway

Each member of `Callers` is a connection that carries one request after another. `handler[r]` is the goroutine of net/http,
`run[r]` that of hystrix, which is the caller in `Discovery`; `outcomes[r]` holds what hystrix offers to the handler, the
work's result and the timer's, in whichever order. `status[r]` is the header the client got: the first to write it wins.
`Invoke` is the token check: an instance without an RPC port is an error, an error of `grpc.Dial` is dropped and the work
returns nil without a call, and any call reaches the nil tracer and panics. So a check that "succeeds" has asked nobody:
`Allow` lets such a request through the filter to a second `hystrix.Do`. What the code does keep is in `FilterNeedsOAuth`:
the check has at least found an instance of the OAuth service, and has ended, so the request has one work at a time.
`SendFails`, `Answered` and `CopyBody` are the reverse proxy, whose `errorHandle` keeps the error and writes nothing.
`GatewayNext` interleaves these with every step of `Discovery`.

The concurrent use of one ResponseWriter by the handler and the abandoned proxy is a data race in Go. The model keeps who
writes the header first and, in `Answered`, the fatal error that two users of the header map may cause. It has no bodies, so
not what the proxy writes after the handler has returned. A request that timed out after the proxy
sent the instance's header keeps that header, with the fallback text behind what the proxy wrote: `UpstreamHeaderIsEarned`
allows it, and no property forbids it.

### OAuthService

`at[r]` places a request: the client lookup, the limiter (with the decoding before it), the service, and the second read of
a refresh. A token is its expiry. Time advances in half seconds because two tests of the expiry disagree within a second:
the JWT library compares whole seconds, `IsExpired` instants. `CreateAccessToken` is not here: no request of `main.go`'s
wiring reaches it, since `CheckUser` never yields a user (its RPC panics in hystrix's goroutine or fails) and
`RemoveRefreshToken` panics ("implement me") before a refresh creates anything, in spite of the comment above it that says
the used token is removed (token_service.go:210): the token stays good until it expires.

`rejected` records what `Extract` could not read. What `IsExpired` refuses is not in it: within the second of its expiry a
token that a refresh refuses is still valid at a check, in the code and in the model.

### TokenService

The same service over a store that does what the `TokenStore` interface says (token_service.go:241-261), which is the
external part: `access` and `refresh` hold tokens by value, `current` finds a user's access token by its details. Every store
call is a step, so two requests interleave between any two of them, and `Break` ends a request at any one, as a panic in the
store does. `Grant` and `Refresh` are the granters, `Refuse` their errors; `GetExisting`, `Reuse` and the steps from
`RemoveAccess` to `StoreRefresh` are `CreateAccessToken`, `ReadRefresh`, `ReadDetails`, `GetOld` and the same last steps
`RefreshAccessToken`. A user stands for user and client together.

A token is what it is made of. With the JWT enhancer a refresh token has nothing unique in it (`sign` overwrites its UUID,
line 325, and the expiry counts seconds), so two of one user made within a second are the same string and a refresh can put
back the token it has just removed: `UsedStaysUsed` therefore speaks of tokens with a UUID. A grant that raced with a refresh
(it read the expired access token before, and stores its refresh token after) revives a used token as well, which
`grantRaced` excepts. `overlapped`, `grantRaced`, `broken` and `used` are history variables.

`Sessions` says what this amounts to, without a store: a user has at most one session, an access token with its refresh
token. `Open` begins one where there is none that lasts, and may keep a refresh token that does; `Admit` accepts the refresh
token of the session that stands, before it expires; `Renew`, which must follow it, puts a new session in the place of the
old one; `Disturb` ends all promises. The mapping (`ImplementsSessions`): u's session is the access token in `current` if it
and its refresh token are all that the store holds of u (`Whole`), and none otherwise; while a request is between
`RemoveAccess` and `StoreRefresh` it is the one that the request has taken away (`old`). So `StoreRefresh` is `Open` or
`Renew`, a successful `ReadRefresh` is `Admit`, and everything else is a stutter. Overlapping requests, or one that breaks off,
are `Disturb`: nothing in the code guards against either. What outlasts a break is `NoStrayAccess`, what outlasts refreshes
that race is `UsedStaysUsed`.
Left behind in the store, a token would make the session not `Whole` and so break the refinement, as would a refresh that
was admitted and then answered with nothing.

### Startup

`stage` walks through the initialisers in the order the imports fix: bootstrap's four sections, the discovery client, the
trace section and tracer of `pkg/config`, then in gateway and oauth-service the service's own package: the remote
load, `auth` in the gateway, `mysql` and `trace` once more in oauth-service, which then opens its database. sk-admin has a config package that looks like oauth-service's,
but nothing imports it: after the tracer of `pkg/config` comes its main, which opens the database with an empty `MysqlConfig`,
and it may have no client for Consul. `settings` is viper's configuration, `parsed` the variables
decoded from it. A section is missing, or has some of its fields and decodes or does not; a decoded field remembers whether
the local file or the configuration server gave it. `pkg/config`'s own `init` compares the function `LoadRemoteConfig` to nil
instead of calling it, so it loads nothing. Environment variables that override a key of a section count as part of it.

### Balance

`weight[i]` and `cur[i]` are `Weight` and `CurWeight` of the i-th instance of the cached list, `Replace` a list that takes its
place, with new instances. `SelectAny` is `RandomBalance` and `SuffleBalance` (the first of a random permutation),
`SelectWeighted` the round robin. Selections are one at a time: the round robin takes no lock, but nothing instantiates it,
so no code has two callers of it. `Total` is the loop's `total`, a recursive function over the positions (`Sums`).

What the round robin promises is that a round of `Total` selections gives each instance its `Weight` of them. That does not
rest on every debt being less than a selection: over the weights 1, 1, 1, 1, 4, 4 the last instance falls a whole selection
behind (`CurWeight` reaches `Total`), and longer lists go further. What holds for every list is that nobody is a whole
selection *ahead* and that all debts cancel out, which leaves nobody more than n - 1 selections behind (`CurStaysSmall`) and
makes every debt vanish at the end of a round (`RoundsAreExact`).

### ActivitySync

`znode` is the node with its version. `Load` and `LoadNothing` are `loadProductFromZk` and the append, `CheckExists`,
`Set`, `Create` and `PutFails` the rest of `syncToZk`. `Set` passes `flags`, that is 0, where ZooKeeper expects the version.
That leaves room for one loss: a writer whose Get failed starts from an empty list and may drop the one product of a first
`Create`. `EmptyLoadDropsOne` says that it is never more; a writer whose Get succeeded drops nothing (`LoadedWriteExtends`).
Nothing in the repository calls `syncToZk` yet (`CreateActivity` logs "syncTozk" and does not), so the model is of the
function as it stands.

### Lifecycle

`main[p]`, `http[p]`, `other[p]` and `sig[p]` are the four goroutines; `call[p][g]` is a request to Consul on its way, or its
answer. `Perform` and `Lose` are Consul. A request whose process ends goes on in `late`, and `Arrive` performs it or not at any
later moment, also under the next life of the server, for whose start the code waits for nothing. `leftover[p]` remembers, as
history, what was in `late` when p was last started. Two things follow that the code does not prevent: a `DeRegister` of the last
life takes the entry of the serving one, and a `Register` of the last life puts an entry back after a clean exit. The first is
what `ServingIsRegistered`, the second what `CleanExitUnregisters` excepts, by `leftover`; both fail without that exception.
A late `Register` under a serving life, and a late `DeRegister` before a clean exit, are covered. `IdOf` is the instance id: the
configured one, or a new UUID in every call, also in `DeRegister`. The gateway registers once in main and once more in the
goroutine that then fails to listen on "9090", an address without a port: as built, the gateway always deregisters and
exits. `Gateway` therefore models the handler that would run behind a working listener.

Real Consul refuses a check whose Interval is "15", without a unit. Whether Consul accepts a registration is left open
here (`Perform` or `Lose`), so both a Consul that refuses every registration and one that accepts them are covered.

## 3. Runs

| Run | Instance | Shows |
| --- | --- | --- |
| `discovery` | 2 callers, 2 services of which one changes twice, 1 instance | one watch per service, only the watch changes a filled entry, the leak is permanent, `ServiceCache` is implemented; calls return unless the mutex leaks, the cache converges unless the initial Store undid a delivery |
| `gateway_safety` | 2 connections, the OAuth service and one that changes once, 1 instance | replies match the work, nothing passes the filter without an instance of the OAuth service, a leak starves a service |
| `gateway_liveness` | the same, without deliveries | every request is answered; work ends unless leak or panic |
| `startup` | 3 programs, sections of 2 fields, at most 2 defective sections in the local file, any answer | a gateway or oauth-service that comes up can register; early settings are local; an unreadable answer ends the start; a load is whole |
| `token_service` | 2 requests of 1 user, access tokens of 1 second, refresh tokens of 2, 3 creations | no stray access token, used tokens stay used, access tokens can be refreshed; while requests come one at a time `Sessions` is implemented |
| `balance` | every list of up to 3 instances with weights up to 2, one of 4, one of 6; 12 selections from each | `CurWeight` is a debt within bounds that do not depend on time; every round is exact |
| `oauth` | 2 connections, expiries 0 and 1, burst 2, 5 half seconds | limiter, admission, no token is read again that could not be read |
| `activity_sync` | 3 administrators, 3 products, faulty ZooKeeper | at most two products are ever published; a loaded write drops nothing, a write after a failed Get at most one product |
| `lifecycle` | a gateway without an id, an oauth-service with one and two lives | who serves is registered and a clean exit leaves no entry, late requests of an earlier life excepted; who is asked to stop stops; Consul's entries converge |

Runs that are expected to find a violation; each is a disagreement between the code and what a comment or a test says:

| Run | Property | What happens |
| --- | --- | --- |
| `activity_lost` | `SyncedIsPublished` | the third product reported as stored is not, its Set has version 0 |
| `gateway_crash` | `FailureFallsBack` | a token check with a reachable OAuth instance, or a body that breaks off, ends the gateway |
| `lifecycle_exit` | `ExitUnregisters` | a signal during `Register`: DeRegister is performed first and the exited process stays in Consul |

### Bounds, and why they are enough

- Callers, connections, administrators: the races are between two goroutines (a winner and a loser of the mutex, a handler
  and its work, a reader and a writer). A caller that waits behind the leak is one of these two in a later call, since
  calls repeat. `activity_sync` has a third administrator.
- Services: two, so that one can be cached while the other is not. More services only repeat this.
- Instances: one; lists matter to the properties as empty, equal or different. The proofs are for any set.
- `MaxChanges`: a stale answer needs one change, a correction of it another.
- `MCDiscovery`: the instances of one service are healthy and its polls succeed (`Steady`), those of the other do
  everything. `CatalogChange` and `WatchError`, which this bounds, have no fairness, so what remains are fair behaviours.
- `MCGateway`: every instance is healthy at the start, the OAuth service stays as it is, the instance of the other may
  leave and the watch delivers that (`OneMoves`); the liveness run leaves out deliveries (`Silent`). The watches have no
  fairness there, so what remains are fair behaviours.
- `MCOAuthService`: a burst of two is exhausted by two connections; 5 half seconds pass both expiries and the second in
  which the two tests of the expiry disagree.
- `MCLifecycle`: one process is up at a time (`InTurn`), beside what the earlier ones left in Consul and on the way there.
  Processes meet nowhere else, and only under one id, which these do not share; the safety theorems are for any number at once.
  Two lives of the oauth-service, so that one follows a crash or an exit with requests still under way; the second only where
  no gateway has run, since the two leave each other's entries alone.
- `MCStartup`: the initialisers decode one section after another and none looks at two, so two defective sections are every
  pair of causes; two fields are enough for a section that comes from both sources.
- `MCTokenService`: no grant beside another request (`NoGrantRaceSpec`), which leaves refreshes that race with each other and
  everything that breaks off; what it leaves out is what the properties except, types apart. The theorems are about `Spec`
  without that bound. One user, since the steps of two users share nothing; the three creations are a grant and two refreshes.
- `MCBalance`: twelve selections are two rounds or more of every list but the one of four with 9 (one) and the one of six,
  1, 1, 1, 1, 4, 4 (one), which is there because an instance falls a whole selection behind in it. The theorems are for any list.
- Symmetry is used in runs without liveness properties only.

Deadlock is not checked where the program may stop: after a panic, at the clock's bound, when every process is
down, and in `discovery`, where a leaked mutex stops everybody once the catalogue has used up its changes.

### Fairness, and why the code justifies it

- `FairSpec` of `Discovery`: weak fairness of each step of a goroutine that runs (the Go scheduler) and of the watch, strong
  fairness of `Lock` (Go's mutex hands over to a starving waiter). No fairness of calls, failed polls or catalogue changes.
- `FairGateway`: the timer fires, the handler goes on with an outcome it has (`GoOn`), the work goes on (a
  transport ends in an answer or an error because the handler's return cancels its request), a caller gets through `DiscoverServices` if it can again and again.
- `FairSpec` of `Lifecycle`: goroutines run, Consul answers a request or it fails, a request of a process that is gone arrives or
  is lost (`Arrive`), and Consul drops an entry whose check
  stays critical (`DeregisterCriticalServiceAfter`). Starts, crashes, signals and failing servers have none.

## 4. Theorems

Every theorem is about the specification without fairness, for all values of the constants under their named assumptions.

| Module | Theorems | Inductive invariant, and why it is needed |
| --- | --- | --- |
| `DiscoveryProofs` | `TypeCorrect`, `Exclusion`, `WatchUnique`, `WarmIsWatched`, `LeakForever`, `Refinement` | `DiscoveryInv`: types, `OneFillAtATime`, and `Watching`: a watch exists exactly for services that are cached or being filled. Without it nothing says that a caller past the second Load is the first to start the watch. |
| `GatewayProofs` | `GatewayTypes`, `NeverEmpty`, `HeaderEarned`, `FilterNeeds`, `LeakStarves` | `GatewayInv`: types, `DiscoveryInv`, and `Fed`: what a request's goroutine reached says what list it was given and what the handler can see. Every step of the gateway is a step or a stutter of `Discovery` (lemma `InnerDiscovery`), so its invariant carries over. |
| `OAuthServiceProofs` | `ServiceTypes`, `LimiterHolds`, `ExpiryFinal` | `RejectedIsPast`: a token that could not be read is one that no later moment can read. |
| `ActivitySyncProofs` | `SyncTypes`, `TwoPublished`, `DropsOne`, `Extends` | `SyncInv`: relates the version, the length of the list, and what each administrator loaded to the node it will write. |
| `StartupProofs` | `StartupTypes`, `UpRegistrable`, `EarlyLocal`, `UnreadableEnds`, `LoadWhole` | `StartInv`: what each stage has behind it: which sections are decoded and from where, that past the load there is a client, that sk-admin never gets there, and that after an unreadable answer nothing is left to decode. |
| `TokenServiceProofs` | `TokenTypes`, `StrayAccess`, `UsedStay`, `CurrentRefresh`, `NothingOverlap`, `LiveKept`, `SessionsAreWhole`, `Implementation` | `TokenInv`: types; `ShapeInv`, what a request holds at each step; `SoloInv`, what a request that is alone knows of the store; `SerialInv`, every UUID is older than the next; `UsedInv`, no step under way will store a used token. The last two carry `UsedStaysUsed` through refreshes that race. For the last two theorems also `SessionInv`: a user's access token is in the store, every stored refresh token belongs to one or is removed next (`Owned`), and what a request holds is the session it replaces, with tokens made by now (`Carries`). |
| `BalanceProofs` | `BalanceTypes`, `Debts`, `DebtsBalance`, `SmallDebts`, `ExactRounds`, `NoWeightIsDrained` | `BalanceInv`: types; `CurIsDebt`, which ties `CurWeight` to the history of selections, of which the code keeps nothing; `DebtsCancel`, they sum to zero; `NobodyAhead`, each is more than -Total. That the chosen instance can pay follows from the sum: after the loop it is Total, so the highest is positive. The lemmas about sums (`SumsAbove`, `SumsBelow`, `SumsCombine`) are inductions over the loop. |
| `LifecycleProofs` | `LifecycleTypes`, `CleanExit`, `ServingFound` | `LifecycleInv`: an id of one's own names one server in every entry and in every late request (`OwnEntries`); what is still late of a server's earlier lives is what was late when it was started (`LeftAt`); who is about to serve is entered (`ServingAt`); who is leaving without a race has no Register under way (`LeavingAt`). |

Assumptions on the constants say that the markers (`None`, `Free`) are not among the values they stand beside, that bounds
or lists are of natural numbers, and in `Lifecycle` that a configured instance id is never a service name with a UUID.

Only model-checked: the liveness properties (`CallsReturnUnlessLeaked`, `CacheConverges`, `RequestsAnswered`,
`WorkEndsUnlessLeaked`, `StopsWhenAsked`, `RegistryConverges`), since liveness under fairness and ENABLED are beyond the prover
used here, and the violations. Every invariant and every action property of a run is also a theorem. Five properties are proved
and in no run, since others that are checked imply them or fail with them: `OneFillAtATime`, `LiveTokenIsKept`,
`NothingNeedsOverlap`, `OneSession`, `NoWeightNoRequest`. Both refinements, of `ServiceCache` and of
`Sessions`, are proved step by step: the initial states map to initial states, every step to a step or a stutter.

The library's induction theorems take an operator as their parameter, which the provers cannot instantiate. What the
recursive function `Sums` adds up is proved all the same: lemma `Induction` of `BalanceProofs` speaks of a set of numbers
instead of a predicate, and follows from the order of the naturals being well-founded. No module uses a RECURSIVE operator.

## 5. Not modelled

- Products and activity lists (`sk-admin/{service,model}`): one SQL statement each, and nothing calls them; `sk-admin`'s main
  opens the database and ZooKeeper and ends. What a wrong column name would do (`model/client.go:41` and `:65`) needs the
  database's schema, which is not in the repository.
- `CheckUser` beyond `DecoratorInvoke`: the same call for another service; only a test makes it.
- Two callers of the round robin that race on `CurWeight`: no code instantiates it.
- Two processes with one configured instance id: the one that exits first removes the other's entry. The code does nothing
  about it, so there is nothing to check.
- `Lifecycle` as the environment of `Discovery`: the catalogue of `Discovery` changes freely, which covers whatever `Lifecycle`
  does to it; that its convergence and that of the cache add up to a gateway that routes to serving processes is not stated.
- `sk-admin/config`: nothing imports it, so no program runs it.
- What the abandoned proxy writes into a body after its handler has returned (`Gateway`).
- Hazards that the code is exposed to and no property can forbid, since the code does not prevent them: the late initial Store
  (`overwritten`), late requests of an earlier life (`leftover`), requests that overlap or break off in the token service
  (`overlapped`, `grantRaced`, `broken`), refresh tokens of one second that are the same JWT, the two tests of a token's expiry
  that disagree within a second, the gateway's lost signal, a token check that succeeds because its Dial failed. The models
  have all of them, the properties say what holds beside them, and the entries of PROJECT.json carry a note.
- Tracing, logging, metrics, JSON and protobuf, generated code (`pb`), the `viper` demo.

## 6. Plan

Done, in this order: `ServiceCache` and `Discovery`; `ActivitySync`; `Gateway` over `Discovery`; `OAuthService`; `Lifecycle`;
`Startup`; `TokenService`; `Balance`; `Sessions`; each with its proofs.

What could follow: the composition of `Lifecycle` with `Discovery`, its abstract side being `CatalogChange`; a refinement of an
abstract request and reply specification by `Gateway`; `Balance` with two callers, once the code has them.
