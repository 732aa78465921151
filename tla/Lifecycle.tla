------------------------------ MODULE Lifecycle ------------------------------
(***************************************************************************)
(* The life of a server process beside Consul: main of oauth-service and   *)
(* of gateway, Register and DeRegister of pkg/discover.                    *)
(*                                                                         *)
(* A process has its main goroutine and three others: one registers the    *)
(* process and serves HTTP, one serves a second port (gRPC, or the metrics *)
(* of hystrix), one waits for a signal.  Each ends by sending on an        *)
(* unbuffered channel; main takes the first value, deregisters the process *)
(* and leaves, whatever the others are doing.  The gateway registers once  *)
(* more before it starts them.                                             *)
(*                                                                         *)
(* Consul (external) may perform a request and lose its answer, refuse it, *)
(* or get to it after the process is gone and the next life of the server  *)
(* has begun: nothing makes a new process wait for what the last one sent. *)
(* Consul asks /health of every entry and drops one that stays critical    *)
(* (DeregisterCriticalServiceAfter).                                       *)
(***************************************************************************)
EXTENDS Naturals

CONSTANTS
    Servers,      \* processes, each on an address of its own
    Gateways,     \* those that run the gateway; the others run oauth-service
    InstanceId,   \* InstanceId[p]: the configured instance id, None without
    MaxStarts,    \* bound: starts of each server
    None

ASSUME GatewaysAreServers == Gateways \subseteq Servers
ASSUME MaxStartsIsNat == MaxStarts \in Nat

Goroutines == {"main", "http"}   \* those that call Consul
Calls == {"none", "register", "deregister", "ok", "failed"}
Uses == Goroutines \union {"exit"}
Ops == {"register", "deregister"}

\* A configured id is never a service name with a UUID.
ASSUME ConfiguredIdsDiffer == \A p \in Servers : InstanceId[p] \notin Servers \X Nat \X Uses

VARIABLES
    main,      \* main[p]: "down" (never started, or died), "exited", or where main is
    http,      \* http[p]: the goroutine that registers and serves
    other,     \* other[p]: the goroutine of the second port
    sig,       \* sig[p]: the goroutine that waits for a signal
    call,      \* call[p][g]: g's request to Consul, or its answer
    late,      \* requests on their way to Consul from processes that are gone
    registry,  \* Consul's entries: an id and the server it stands for
    starts,    \* starts[p]: how often p was started
    signalled, \* history: p got a signal in this life
    raced,     \* history: p's last DeRegister began before its Register was answered
    leftover   \* history: what p's earlier lives had on the way when it was started

vars == <<main, http, other, sig, call, late, registry, starts, signalled, raced, leftover>>

Init ==
    /\ main = [p \in Servers |-> "down"]
    /\ http = [p \in Servers |-> "off"]
    /\ other = [p \in Servers |-> "off"]
    /\ sig = [p \in Servers |-> "off"]
    /\ call = [p \in Servers |-> [g \in Goroutines |-> "none"]]
    /\ late = {}
    /\ registry = {}
    /\ starts = [p \in Servers |-> 0]
    /\ signalled = [p \in Servers |-> FALSE]
    /\ raced = [p \in Servers |-> FALSE]
    /\ leftover = [p \in Servers |-> {}]

Up(p) == main[p] \notin {"down", "exited"}

\* Mutant of IdOf: DeRegister never looks at the configuration.
IdOfFreshAtExit(p, use) ==
    IF InstanceId[p] # None /\ use # "exit" THEN InstanceId[p] ELSE <<p, starts[p], use>>

\* The id of a request of p: the configured one, or the service name with a
\* UUID that is new in every call.
IdOf(p, use) == IF InstanceId[p] # None THEN InstanceId[p] ELSE <<p, starts[p], use>>

-----------------------------------------------------------------------------
(* Start, and the two ways to end.                                         *)

\* The three goroutines begin.
Launch(p) ==
    /\ http' = [http EXCEPT ![p] = "start"]
    /\ other' = [other EXCEPT ![p] = "up"]
    /\ sig' = [sig EXCEPT ![p] = "start"]

\* p is started, whatever of its earlier lives is still on the way to Consul:
\* the gateway calls Register, oauth-service launches its goroutines.
Start(p) ==
    /\ ~Up(p)
    /\ starts[p] < MaxStarts
    /\ starts' = [starts EXCEPT ![p] = @ + 1]
    /\ IF p \in Gateways
       THEN /\ main' = [main EXCEPT ![p] = "register"]
            /\ call' = [call EXCEPT ![p]["main"] = "register"]
            /\ UNCHANGED <<http, other, sig>>
       ELSE /\ main' = [main EXCEPT ![p] = "wait"]
            /\ Launch(p)
            /\ UNCHANGED call
    /\ raced' = [raced EXCEPT ![p] = FALSE]
    /\ leftover' = [leftover EXCEPT ![p] = {d.op : d \in {e \in late : e.server = p}}]
    /\ UNCHANGED <<late, registry, signalled>>

Sent(p, g) == call[p][g] \in Ops

\* The request of g, as it goes on without its process.
Request(p, g) ==
    [op |-> call[p][g], server |-> p, life |-> starts[p],
     id |-> IdOf(p, IF call[p][g] = "register" THEN g ELSE "exit")]

\* p ends as m with all its goroutines; what it sent to Consul stays sent.
End(p, m) ==
    /\ main' = [main EXCEPT ![p] = m]
    /\ http' = [http EXCEPT ![p] = "off"]
    /\ other' = [other EXCEPT ![p] = "off"]
    /\ sig' = [sig EXCEPT ![p] = "off"]
    /\ call' = [call EXCEPT ![p] = [g \in Goroutines |-> "none"]]
    /\ late' = late \union {Request(p, g) : g \in {h \in Goroutines : Sent(p, h)}}
    /\ signalled' = [signalled EXCEPT ![p] = FALSE]
    /\ UNCHANGED <<registry, starts, raced, leftover>>

\* The process is killed, or a goroutine panics: a handler's work (see
\* FailureFallsBack in Gateway.tla) or a failed Register, panic(0).
Crash(p) == Up(p) /\ End(p, "down")

-----------------------------------------------------------------------------
(* Register and the HTTP server.                                           *)

\* gateway: the first Register succeeded.  (A failure is a panic: Crash.)
FirstRegistered(p) ==
    /\ main[p] = "register"
    /\ call[p]["main"] = "ok"
    /\ main' = [main EXCEPT ![p] = "wait"]
    /\ call' = [call EXCEPT ![p]["main"] = "none"]
    /\ Launch(p)
    /\ UNCHANGED <<late, registry, starts, signalled, raced, leftover>>

\* Mutant of CallRegister: Register runs beside ListenAndServe.
CallRegisterAndGoOn(p) ==
    /\ http[p] = "start"
    /\ http' = [http EXCEPT ![p] = "listen"]
    /\ call' = [call EXCEPT ![p]["http"] = "register"]
    /\ UNCHANGED <<main, other, sig, late, registry, starts, signalled, raced, leftover>>

\* The HTTP goroutine calls Register.
CallRegister(p) ==
    /\ http[p] = "start"
    /\ http' = [http EXCEPT ![p] = "register"]
    /\ call' = [call EXCEPT ![p]["http"] = "register"]
    /\ UNCHANGED <<main, other, sig, late, registry, starts, signalled, raced, leftover>>

\* Mutant of Registered: a failed Register is only logged.
RegisteredOrNot(p) ==
    /\ http[p] = "register"
    /\ call[p]["http"] \in {"ok", "failed"}
    /\ http' = [http EXCEPT ![p] = "listen"]
    /\ call' = [call EXCEPT ![p]["http"] = "none"]
    /\ UNCHANGED <<main, other, sig, late, registry, starts, signalled, raced, leftover>>

\* Register succeeded.
Registered(p) ==
    /\ http[p] = "register"
    /\ call[p]["http"] = "ok"
    /\ http' = [http EXCEPT ![p] = "listen"]
    /\ call' = [call EXCEPT ![p]["http"] = "none"]
    /\ UNCHANGED <<main, other, sig, late, registry, starts, signalled, raced, leftover>>

\* Register failed: panic(0) ends the process, with or without an entry.
RegisterFails(p) ==
    /\ \/ main[p] = "register" /\ call[p]["main"] = "failed"
       \/ http[p] = "register" /\ call[p]["http"] = "failed"
    /\ End(p, "down")

\* ListenAndServe: the port is bound, or not.  The gateway's address "9090"
\* has no port, so there it never is.
Listen(p) ==
    /\ http[p] = "listen"
    /\ \E h \in {"send"} \union (IF p \in Gateways THEN {} ELSE {"serve"}) :
          http' = [http EXCEPT ![p] = h]
    /\ UNCHANGED <<main, other, sig, call, late, registry, starts, signalled, raced, leftover>>

\* A server stops with an error (for the second port also: it never started).
ServerFails(p) ==
    /\ \/ /\ http[p] = "serve"
          /\ http' = [http EXCEPT ![p] = "send"]
          /\ UNCHANGED other
       \/ /\ other[p] = "up"
          /\ other' = [other EXCEPT ![p] = "send"]
          /\ UNCHANGED http
    /\ UNCHANGED <<main, sig, call, late, registry, starts, signalled, raced, leftover>>

-----------------------------------------------------------------------------
(* Signals.                                                                *)

\* The signal goroutine calls Notify, then waits on its channel.
Notify(p) ==
    /\ sig[p] \in {"start", "notified"}
    /\ sig' = [sig EXCEPT ![p] = IF @ = "start" THEN "notified" ELSE "waiting"]
    /\ UNCHANGED <<main, http, other, call, late, registry, starts, signalled, raced, leftover>>

\* Before Notify a signal kills the process.
SignalKills(p) ==
    /\ main[p] = "register" \/ sig[p] = "start"
    /\ End(p, "down")

\* Mutant of Signal: oauth-service too has a channel without a buffer.
SignalUnbuffered(p) ==
    /\ sig[p] \in {"notified", "waiting"}
    /\ signalled' = [signalled EXCEPT ![p] = TRUE]
    /\ sig' = [sig EXCEPT ![p] = IF @ = "notified" THEN @ ELSE "send"]
    /\ UNCHANGED <<main, http, other, call, late, registry, starts, raced, leftover>>

\* A signal after Notify.  The channel of oauth-service keeps it until the
\* goroutine takes it; the gateway's has no buffer, and a signal that finds
\* nobody waiting is lost.
Signal(p) ==
    /\ sig[p] \in {"notified", "waiting"}
    /\ signalled' = [signalled EXCEPT ![p] = TRUE]
    /\ sig' = [sig EXCEPT ![p] = IF @ = "notified" /\ p \in Gateways THEN @ ELSE "send"]
    /\ UNCHANGED <<main, http, other, call, late, registry, starts, raced, leftover>>

-----------------------------------------------------------------------------
(* The end of main.                                                        *)

\* main takes the value of one goroutine and calls DeRegister.
Receive(p) ==
    /\ main[p] = "wait"
    /\ \/ http[p] = "send" /\ http' = [http EXCEPT ![p] = "off"] /\ UNCHANGED <<other, sig>>
       \/ other[p] = "send" /\ other' = [other EXCEPT ![p] = "off"] /\ UNCHANGED <<http, sig>>
       \/ sig[p] = "send" /\ sig' = [sig EXCEPT ![p] = "off"] /\ UNCHANGED <<http, other>>
    /\ main' = [main EXCEPT ![p] = "deregister"]
    /\ call' = [call EXCEPT ![p]["main"] = "deregister"]
    /\ raced' = [raced EXCEPT ![p] = http[p] \in {"start", "register"}]
    /\ UNCHANGED <<late, registry, starts, signalled, leftover>>

\* DeRegister is answered: main returns, or panics after a failure.
Exit(p) ==
    /\ main[p] = "deregister"
    /\ \/ call[p]["main"] = "ok" /\ End(p, "exited")
       \/ call[p]["main"] = "failed" /\ End(p, "down")

-----------------------------------------------------------------------------
(* Consul (external).                                                      *)

\* What a request does to the registry: an entry replaces one with the same id.
Effect(d) ==
    {e \in registry : e.id # d.id}
       \union (IF d.op = "register" THEN {[id |-> d.id, server |-> d.server]} ELSE {})

Answer(p, g, a) == call' = [call EXCEPT ![p][g] = a]

\* Consul performs the request of g.  The answer may get lost.
Perform(p, g) ==
    /\ Sent(p, g)
    /\ registry' = Effect(Request(p, g))
    /\ \E a \in {"ok", "failed"} : Answer(p, g, a)
    /\ UNCHANGED <<main, http, other, sig, late, starts, signalled, raced, leftover>>

\* Consul refuses the request, or never gets it.
Lose(p, g) ==
    /\ Sent(p, g)
    /\ Answer(p, g, "failed")
    /\ UNCHANGED <<main, http, other, sig, late, registry, starts, signalled, raced, leftover>>

\* A request of a process that is gone is performed or not; nobody hears of it.
Arrive(d) ==
    /\ d \in late
    /\ late' = late \ {d}
    /\ registry' \in {Effect(d), registry}
    /\ UNCHANGED <<main, http, other, sig, call, starts, signalled, raced, leftover>>

\* Listening follows an accepted Register at once, long before the time after
\* which Consul drops an entry.
AboutToServe(p) == http[p] \in {"listen", "serve"} \/ call[p]["http"] = "ok"

\* Mutant of Reap: the registration does not ask for it.
ReapNever(e) == e \notin registry /\ UNCHANGED vars

\* The health check of an entry has failed for longer than
\* DeregisterCriticalServiceAfter.
Reap(e) ==
    /\ e \in registry
    /\ ~AboutToServe(e.server)
    /\ registry' = registry \ {e}
    /\ UNCHANGED <<main, http, other, sig, call, late, starts, signalled, raced, leftover>>

-----------------------------------------------------------------------------
Step(p) ==
    \/ FirstRegistered(p)
    \/ CallRegister(p)
    \/ Registered(p)
    \/ RegisterFails(p)
    \/ Listen(p)
    \/ Notify(p)
    \/ Receive(p)
    \/ Exit(p)

Next ==
    \/ \E p \in Servers :
          \/ Start(p)
          \/ Crash(p)
          \/ Step(p)
          \/ ServerFails(p)
          \/ SignalKills(p)
          \/ Signal(p)
          \/ \E g \in Goroutines : Perform(p, g) \/ Lose(p, g)
    \/ \E d \in late : Arrive(d)
    \/ \E e \in registry : Reap(e)

Spec == Init /\ [][Next]_vars

\* Every goroutine that can run does, Consul answers or the request fails, and
\* drops what stays critical.  Nothing makes a process start, crash or get a
\* signal, or a server fail.
Fairness ==
    \A p \in Servers :
        /\ WF_vars(FirstRegistered(p))
        /\ WF_vars(CallRegister(p))
        /\ WF_vars(Registered(p))
        /\ WF_vars(RegisterFails(p))
        /\ WF_vars(Listen(p))
        /\ WF_vars(Notify(p))
        /\ WF_vars(Receive(p))
        /\ WF_vars(Exit(p))
        /\ \A g \in Goroutines : WF_vars(Perform(p, g) \/ Lose(p, g))
        /\ WF_vars(\E d \in late : d.server = p /\ Arrive(d))
        /\ WF_vars(\E e \in registry : e.server = p /\ Reap(e))

FairSpec == Spec /\ Fairness

-----------------------------------------------------------------------------
(* Properties.                                                             *)

Ids == {InstanceId[p] : p \in Servers} \union (Servers \X Nat \X Uses)

\* A process that is not up has no goroutines and no calls, and a goroutine has
\* a request or an answer only where it waits for one.
Coherent(p) ==
    /\ ~Up(p) => /\ http[p] = "off" /\ other[p] = "off" /\ sig[p] = "off"
                 /\ call[p]["main"] = "none" /\ call[p]["http"] = "none"
    /\ main[p] = "register" => http[p] = "off" /\ call[p]["main"] # "deregister"
    /\ main[p] = "wait" => call[p]["main"] = "none"
    /\ Up(p) => (call[p]["http"] = "none" <=> http[p] # "register")
    /\ call[p]["http"] # "deregister"

\* Every variable keeps its type, and no goroutine outlives its process or goes
\* on without an answer it waits for.
TypeOK ==
    /\ main \in [Servers -> {"down", "exited", "register", "wait", "deregister"}]
    /\ http \in [Servers -> {"off", "start", "register", "listen", "serve", "send"}]
    /\ other \in [Servers -> {"off", "up", "send"}]
    /\ sig \in [Servers -> {"off", "start", "notified", "waiting", "send"}]
    /\ call \in [Servers -> [Goroutines -> Calls]]
    /\ late \subseteq [op : Ops, server : Servers, life : Nat, id : Ids]
    /\ registry \subseteq [id : Ids, server : Servers]
    /\ starts \in [Servers -> 0..MaxStarts]
    /\ signalled \in [Servers -> BOOLEAN]
    /\ raced \in [Servers -> BOOLEAN]
    /\ leftover \in [Servers -> SUBSET Ops]
    /\ \A p \in Servers : Coherent(p)

\* p's id is configured, and configured for no other server.
OwnId(p) ==
    /\ InstanceId[p] # None
    /\ \A q \in Servers \ {p} : InstanceId[q] # InstanceId[p]

Entered(p) == \E e \in registry : e.server = p

\* A process that left through DeRegister, with an id of its own, has no entry
\* in Consul, not even one an earlier life left there, however its answers were
\* lost.  There are two exceptions: its DeRegister overtook its own Register, or
\* a Register of an earlier life was still on the way when it was started.
CleanExitUnregisters ==
    \A p \in Servers :
        OwnId(p) /\ main[p] = "exited" /\ ~raced[p] /\ "register" \notin leftover[p]
            => ~Entered(p)

\* A process that serves HTTP, with an id of its own, is in Consul until it
\* begins to deregister, whatever its earlier lives left in Consul and whatever
\* Register of theirs comes late.  The exception: a DeRegister of an earlier
\* life was still on the way when it was started, and takes its entry away.
ServingIsRegistered ==
    \A p \in Servers :
        OwnId(p) /\ main[p] = "wait" /\ http[p] = "serve" /\ "deregister" \notin leftover[p]
            => [id |-> InstanceId[p], server |-> p] \in registry

\* A process with a failed server or a signal to end it does end, though the
\* other goroutines stay blocked on the channel, one signal may get lost, and
\* Consul may refuse to deregister it.
StopsWhenAsked ==
    \A p \in Servers :
        signalled[p] \/ http[p] = "send" \/ other[p] = "send" ~> ~Up(p)

\* Once no process starts or ends any more, Consul lists only processes that
\* serve: entries of crashed ones, entries under lost UUIDs and entries that
\* came after the DeRegister are dropped.
RegistryConverges == <>[](\A e \in registry : http[e.server] = "serve")

\* VIOLATED by the code.  A process that left through DeRegister, with an id of
\* its own, has no entry in Consul.  The HTTP goroutine's Register is not
\* stopped and can be performed after the DeRegister.
ExitUnregisters ==
    \A p \in Servers : OwnId(p) /\ main[p] = "exited" => ~Entered(p)
=============================================================================
