--------------------------- MODULE LifecycleProofs ---------------------------
(***************************************************************************)
(* Theorems about Lifecycle for every set of servers, however their        *)
(* instance ids are configured, and every number of starts.                *)
(*                                                                         *)
(* The argument: an id of its own stands for one server in every request   *)
(* and every entry (OwnEntries), so only a server's own requests, those of *)
(* its earlier lives included, and Consul's Reap touch its entry.  What    *)
(* earlier lives still have on the way was there when the process was      *)
(* started (LeftAt).  Reap spares a server that is about to serve          *)
(* (ServingAt), and main's DeRegister is the last request of a life that   *)
(* had no Register under way when main called it (LeavingAt).              *)
(***************************************************************************)
EXTENDS Lifecycle, TLAPS

-----------------------------------------------------------------------------
(* Types.                                                                  *)

LEMMA TypeInit == Init => TypeOK
BY MaxStartsIsNat DEF Init, TypeOK, Coherent, Goroutines, Calls, Ops, Up

LEMMA CallUpdate ==
    ASSUME TypeOK, NEW p \in Servers, NEW g \in Goroutines, NEW a \in Calls,
           call' = [call EXCEPT ![p][g] = a]
    PROVE  /\ call' \in [Servers -> [Goroutines -> Calls]]
           /\ \A q \in Servers, h \in Goroutines :
                 call'[q][h] = IF q = p /\ h = g THEN a ELSE call[q][h]
<1>1. call \in [Servers -> [Goroutines -> Calls]]
  BY DEF TypeOK
<1>2. call' = [call EXCEPT ![p] = [call[p] EXCEPT ![g] = a]]
  BY <1>1
<1>3. [call[p] EXCEPT ![g] = a] \in [Goroutines -> Calls]
  BY <1>1
<1> QED
  BY <1>1, <1>2, <1>3

\* What is left of a process that no step touches.
LEMMA CoherentFrame ==
    ASSUME NEW q \in Servers, Coherent(q),
           main'[q] = main[q], http'[q] = http[q], other'[q] = other[q], sig'[q] = sig[q],
           call'[q]["main"] = call[q]["main"], call'[q]["http"] = call[q]["http"]
    PROVE  Coherent(q)'
BY DEF Coherent, Up

LEMMA TypeStart ==
    ASSUME TypeOK, NEW p \in Servers, Start(p)
    PROVE  TypeOK'
<1>0. /\ "main" \in Goroutines /\ "http" \in Goroutines /\ "register" \in Calls
      /\ call[p]["main"] = "none" /\ call[p]["http"] = "none"
  BY DEF Goroutines, Calls, Start, TypeOK, Coherent
<1>1. starts' \in [Servers -> 0..MaxStarts]
  BY MaxStartsIsNat DEF TypeOK, Start
<1>2. raced' \in [Servers -> BOOLEAN] /\ signalled' \in [Servers -> BOOLEAN]
  BY DEF TypeOK, Start
<1>a. late' \subseteq [op : Ops, server : Servers, life : Nat, id : Ids]
  BY DEF TypeOK, Start
<1>b. leftover' \in [Servers -> SUBSET Ops]
  <2>1. {d.op : d \in {e \in late : e.server = p}} \subseteq Ops
    BY DEF TypeOK
  <2> QED
    BY <2>1 DEF TypeOK, Start
<1>3. CASE p \in Gateways
  <2>1. call' = [call EXCEPT ![p]["main"] = "register"]
    BY <1>3 DEF Start
  <2>2. /\ call' \in [Servers -> [Goroutines -> Calls]]
        /\ \A q \in Servers, h \in Goroutines :
              call'[q][h] = IF q = p /\ h = "main" THEN "register" ELSE call[q][h]
    BY <1>0, <2>1, CallUpdate
  <2>3. main' = [main EXCEPT ![p] = "register"] /\ UNCHANGED <<http, other, sig, registry>>
    BY <1>3 DEF Start
  <2>4. ASSUME NEW q \in Servers
        PROVE  Coherent(q)'
    <3>1. CASE q # p
      BY <1>0, <2>2, <2>3, <3>1, CoherentFrame DEF TypeOK
    <3>2. CASE q = p
      BY <1>0, <2>2, <2>3, <3>2 DEF TypeOK, Coherent, Up, Start
    <3> QED
      BY <3>1, <3>2
  <2> QED
    BY <1>1, <1>2, <1>a, <1>b, <2>2, <2>3, <2>4 DEF TypeOK
<1>4. CASE p \notin Gateways
  <2>1. main' = [main EXCEPT ![p] = "wait"] /\ UNCHANGED <<call, registry>> /\ Launch(p)
    BY <1>4 DEF Start
  <2>2. ASSUME NEW q \in Servers
        PROVE  Coherent(q)'
    <3>1. CASE q # p
      BY <2>1, <3>1, CoherentFrame DEF TypeOK, Launch
    <3>2. CASE q = p
      BY <1>0, <2>1, <3>2 DEF TypeOK, Coherent, Up, Launch
    <3> QED
      BY <3>1, <3>2
  <2> QED
    BY <1>1, <1>2, <1>a, <1>b, <2>1, <2>2 DEF TypeOK, Launch
<1> QED
  BY <1>3, <1>4

\* A step that waits for no answer.
LEMMA TypeQuiet ==
    ASSUME TypeOK, NEW p \in Servers,
           Listen(p) \/ ServerFails(p) \/ Notify(p) \/ Signal(p)
    PROVE  TypeOK'
<1>0. /\ http \in [Servers -> {"off", "start", "register", "listen", "serve", "send"}]
      /\ other \in [Servers -> {"off", "up", "send"}]
      /\ sig \in [Servers -> {"off", "start", "notified", "waiting", "send"}]
      /\ signalled \in [Servers -> BOOLEAN]
  BY DEF TypeOK
<1>1. UNCHANGED <<main, call, late, registry, starts, raced, leftover>>
  BY DEF Listen, ServerFails, Notify, Signal
<1>2. http' \in [Servers -> {"off", "start", "register", "listen", "serve", "send"}]
  <2>1. http' = http \/ \E h \in {"send", "serve"} : http' = [http EXCEPT ![p] = h]
    BY DEF Listen, ServerFails, Notify, Signal
  <2> QED
    BY <1>0, <2>1
<1>3. /\ other' \in [Servers -> {"off", "up", "send"}]
      /\ sig' \in [Servers -> {"off", "start", "notified", "waiting", "send"}]
  <2>1. other' = other \/ other' = [other EXCEPT ![p] = "send"]
    BY DEF Listen, ServerFails, Notify, Signal
  <2>2. sig' = sig \/ \E h \in {"notified", "waiting", "send"} : sig' = [sig EXCEPT ![p] = h]
    BY <1>0 DEF Listen, ServerFails, Notify, Signal
  <2> QED
    BY <1>0, <2>1, <2>2
<1>4. signalled' \in [Servers -> BOOLEAN]
  BY <1>0 DEF Listen, ServerFails, Notify, Signal
<1>5. ASSUME NEW q \in Servers
      PROVE  Coherent(q)'
  <2>1. /\ http[q] = "off" => http'[q] = "off"
        /\ http[q] = "register" <=> http'[q] = "register"
        /\ other[q] = "off" => other'[q] = "off"
        /\ sig[q] = "off" => sig'[q] = "off"
    BY DEF TypeOK, Listen, ServerFails, Notify, Signal
  <2> QED
    BY <1>1, <2>1 DEF TypeOK, Coherent, Up
<1> QED
  BY <1>1, <1>2, <1>3, <1>4, <1>5 DEF TypeOK

\* A step that sends a request or takes an answer and goes on.
LEMMA TypeCalls ==
    ASSUME TypeOK, NEW p \in Servers
    PROVE  /\ FirstRegistered(p) => TypeOK'
           /\ CallRegister(p) \/ Registered(p) => TypeOK'
           /\ Receive(p) => TypeOK'
<1>0. "main" \in Goroutines /\ "http" \in Goroutines /\ {"none", "register", "deregister"} \subseteq Calls
  BY DEF Goroutines, Calls
<1>2. ASSUME FirstRegistered(p)
      PROVE  TypeOK'
  <2>0. call' = [call EXCEPT ![p]["main"] = "none"]
    BY <1>2 DEF FirstRegistered
  <2>1. /\ call' \in [Servers -> [Goroutines -> Calls]]
        /\ \A q \in Servers, h \in Goroutines :
              call'[q][h] = IF q = p /\ h = "main" THEN "none" ELSE call[q][h]
    BY <1>0, <2>0, CallUpdate
  <2>2. ASSUME NEW q \in Servers
        PROVE  Coherent(q)'
    <3>1. CASE q # p
      BY <1>0, <1>2, <2>1, <3>1, CoherentFrame DEF TypeOK, FirstRegistered, Launch
    <3>2. CASE q = p
      <4>1. main'[p] = "wait" /\ http'[p] = "start"
        BY <1>2 DEF TypeOK, FirstRegistered, Launch
      <4>2. call'[p]["main"] = "none" /\ call'[p]["http"] = call[p]["http"]
        BY <1>0, <2>1
      <4>3. call[p]["http"] = "none"
        BY <1>2 DEF TypeOK, Coherent, Up, FirstRegistered
      <4> QED
        BY <3>2, <4>1, <4>2, <4>3 DEF Coherent, Up
    <3> QED
      BY <3>1, <3>2
  <2> QED
    BY <1>2, <2>1, <2>2 DEF TypeOK, FirstRegistered, Launch
<1>3. ASSUME CallRegister(p) \/ Registered(p)
      PROVE  TypeOK'
  <2>1. PICK a \in {"register", "none"} : call' = [call EXCEPT ![p]["http"] = a]
    BY <1>3 DEF CallRegister, Registered
  <2>2. /\ call' \in [Servers -> [Goroutines -> Calls]]
        /\ \A q \in Servers, h \in Goroutines :
              call'[q][h] = IF q = p /\ h = "http" THEN a ELSE call[q][h]
    BY <1>0, <2>1, CallUpdate
  <2>3. call'[p]["http"] = "none" <=> http'[p] # "register"
    BY <1>0, <1>3, <2>2 DEF TypeOK, CallRegister, Registered
  <2>4. ASSUME NEW q \in Servers
        PROVE  Coherent(q)'
    <3>1. CASE q # p
      BY <1>0, <1>3, <2>2, <3>1, CoherentFrame DEF TypeOK, CallRegister, Registered
    <3>2. CASE q = p
      BY <1>0, <1>3, <2>2, <2>3, <3>2 DEF TypeOK, Coherent, Up, CallRegister, Registered
    <3> QED
      BY <3>1, <3>2
  <2> QED
    BY <1>3, <2>2, <2>4 DEF TypeOK, CallRegister, Registered
<1>6. ASSUME Receive(p)
      PROVE  TypeOK'
  <2>0. call' = [call EXCEPT ![p]["main"] = "deregister"]
    BY <1>6 DEF Receive
  <2>1. /\ call' \in [Servers -> [Goroutines -> Calls]]
        /\ \A q \in Servers, h \in Goroutines :
              call'[q][h] = IF q = p /\ h = "main" THEN "deregister" ELSE call[q][h]
    BY <1>0, <2>0, CallUpdate
  <2>2. raced' \in [Servers -> BOOLEAN]
    <3>1. (http[p] \in {"start", "register"}) \in BOOLEAN
      OBVIOUS
    <3> QED
      BY <1>6, <3>1 DEF TypeOK, Receive
  <2>3. /\ http' \in [Servers -> {"off", "start", "register", "listen", "serve", "send"}]
        /\ other' \in [Servers -> {"off", "up", "send"}]
        /\ sig' \in [Servers -> {"off", "start", "notified", "waiting", "send"}]
        /\ http[p] = "register" <=> http'[p] = "register"
    BY <1>6 DEF TypeOK, Receive
  <2>4. ASSUME NEW q \in Servers
        PROVE  Coherent(q)'
    <3>1. CASE q # p
      BY <1>0, <1>6, <2>1, <3>1, CoherentFrame DEF TypeOK, Receive
    <3>2. CASE q = p
      <4>1. main[p] = "wait" /\ main'[p] = "deregister"
        BY <1>6 DEF TypeOK, Receive
      <4>2. call'[p]["main"] = "deregister" /\ call'[p]["http"] = call[p]["http"]
        BY <1>0, <2>1
      <4> QED
        BY <2>3, <3>2, <4>1, <4>2 DEF TypeOK, Coherent, Up
    <3> QED
      BY <3>1, <3>2
  <2> QED
    BY <1>6, <2>1, <2>2, <2>3, <2>4 DEF TypeOK, Receive
<1> QED
  BY <1>2, <1>3, <1>6

\* A request is one of p's, whether p is still there or not.
LEMMA RequestType ==
    ASSUME TypeOK, NEW p \in Servers, NEW g \in Goroutines, Sent(p, g)
    PROVE  Request(p, g) \in [op : Ops, server : Servers, life : Nat, id : Ids]
<1>1. starts[p] \in Nat
  BY MaxStartsIsNat DEF TypeOK
<1>2. ASSUME NEW use \in Uses
      PROVE  IdOf(p, use) \in Ids
  BY <1>1 DEF IdOf, Ids
<1>3. (IF call[p][g] = "register" THEN g ELSE "exit") \in Uses
  BY DEF Uses
<1> QED
  BY <1>1, <1>2, <1>3 DEF Request, Sent

LEMMA TypeEnd ==
    ASSUME TypeOK, NEW p \in Servers, NEW m \in {"down", "exited"}, End(p, m)
    PROVE  TypeOK'
<1>1. late' \subseteq [op : Ops, server : Servers, life : Nat, id : Ids]
  BY RequestType DEF TypeOK, End
<1>2. /\ call' \in [Servers -> [Goroutines -> Calls]]
      /\ call'[p]["main"] = "none" /\ call'[p]["http"] = "none"
      /\ \A q \in Servers \ {p} : call'[q] = call[q]
  BY DEF TypeOK, End, Goroutines, Calls
<1>3. ASSUME NEW q \in Servers
      PROVE  Coherent(q)'
  <2>1. CASE q # p
    BY <1>2, <2>1, CoherentFrame DEF TypeOK, End
  <2>2. CASE q = p
    BY <1>2, <2>2 DEF TypeOK, End, Coherent, Up
  <2> QED
    BY <2>1, <2>2
<1> QED
  BY <1>1, <1>2, <1>3 DEF TypeOK, End

LEMMA EffectType ==
    ASSUME TypeOK, NEW d \in [op : Ops, server : Servers, life : Nat, id : Ids]
    PROVE  Effect(d) \subseteq [id : Ids, server : Servers]
BY DEF TypeOK, Effect

LEMMA TypeConsul ==
    ASSUME TypeOK
    PROVE  /\ \A p \in Servers, g \in Goroutines : Perform(p, g) \/ Lose(p, g) => TypeOK'
           /\ \A d \in late : Arrive(d) => TypeOK'
<1>1. ASSUME NEW p \in Servers, NEW g \in Goroutines, Perform(p, g) \/ Lose(p, g)
      PROVE  TypeOK'
  <2>1. registry' \subseteq [id : Ids, server : Servers]
    BY <1>1, RequestType, EffectType DEF Perform, Lose, TypeOK
  <2>0. {"ok", "failed"} \subseteq Calls
    BY DEF Calls
  <2>2. PICK a \in {"ok", "failed"} : Answer(p, g, a)
    BY <1>1 DEF Perform, Lose
  <2>3. /\ call' \in [Servers -> [Goroutines -> Calls]]
        /\ \A q \in Servers, h \in Goroutines :
              call'[q][h] = IF q = p /\ h = g THEN a ELSE call[q][h]
    BY <2>2, CallUpdate, <2>0 DEF Answer
  <2>4. Sent(p, g) /\ UNCHANGED <<main, http, other, sig>>
    BY <1>1 DEF Perform, Lose
  <2>5. ASSUME NEW q \in Servers
        PROVE  Coherent(q)'
    <3>1. CASE q # p
      BY <2>3, <2>4, <3>1, CoherentFrame DEF TypeOK, Goroutines
    <3>2. CASE q = p
      BY <2>3, <2>4, <3>2 DEF TypeOK, Coherent, Goroutines, Ops, Sent, Up
    <3> QED
      BY <3>1, <3>2
  <2> QED
    BY <1>1, <2>1, <2>3, <2>5 DEF TypeOK, Perform, Lose
<1>2. ASSUME NEW d \in late, Arrive(d)
      PROVE  TypeOK'
  <2>1. registry' \subseteq [id : Ids, server : Servers]
    BY <1>2, EffectType DEF Arrive, TypeOK
  <2> QED
    BY <1>2, <2>1 DEF TypeOK, Coherent, Up, Arrive
<1> QED
  BY <1>1, <1>2

LEMMA TypeStep == TypeOK /\ [Next]_vars => TypeOK'
<1> SUFFICES ASSUME TypeOK, [Next]_vars
             PROVE  TypeOK'
  OBVIOUS
<1>1. ASSUME NEW p \in Servers, Step(p) \/ Start(p) \/ ServerFails(p) \/ Signal(p)
      PROVE  TypeOK'
  BY <1>1, TypeStart, TypeQuiet, TypeCalls, TypeEnd DEF Step, RegisterFails, Exit
<1>2. ASSUME NEW p \in Servers, Crash(p) \/ SignalKills(p)
      PROVE  TypeOK'
  BY <1>2, TypeEnd DEF Crash, SignalKills
<1>3. ASSUME NEW p \in Servers, NEW g \in Goroutines, Perform(p, g) \/ Lose(p, g)
      PROVE  TypeOK'
  BY <1>3, TypeConsul
<1>6. ASSUME NEW d \in late, Arrive(d)
      PROVE  TypeOK'
  BY <1>6, TypeConsul
<1>4. ASSUME NEW e \in registry, Reap(e)
      PROVE  TypeOK'
  BY <1>4 DEF TypeOK, Coherent, Up, Reap
<1>5. CASE UNCHANGED vars
  BY <1>5 DEF TypeOK, Coherent, Up, vars
<1> QED
  BY <1>1, <1>2, <1>3, <1>4, <1>5, <1>6 DEF Next

\* The type invariant: goroutines end with their process, and none goes on
\* without the answer it waits for.
THEOREM LifecycleTypes == Spec => []TypeOK
<1> QED
  BY TypeInit, TypeStep, PTL DEF Spec

-----------------------------------------------------------------------------
(* The inductive invariant.                                                *)

OwnEntries ==
    \A p \in Servers : OwnId(p) =>
        /\ \A e \in registry : e.server = p <=> e.id = InstanceId[p]
        /\ \A d \in late : d.server = p <=> d.id = InstanceId[p]

LeftAt(p) == Up(p) => \A d \in late : d.server = p => d.op \in leftover[p]

ServingAt(p) ==
    OwnId(p) /\ main[p] = "wait" /\ AboutToServe(p) /\ "deregister" \notin leftover[p]
        => [id |-> InstanceId[p], server |-> p] \in registry

LeavingAt(p) ==
    OwnId(p) /\ ~raced[p] /\ "register" \notin leftover[p] =>
        /\ main[p] = "deregister" =>
              /\ http[p] \notin {"start", "register"}
              /\ call[p]["main"] # "register"
              /\ call[p]["main"] = "ok" => ~Entered(p)
        /\ main[p] = "exited" =>
              /\ \A d \in late : d.server = p => d.op # "register"
              /\ ~Entered(p)

LifecycleInv ==
    /\ TypeOK
    /\ OwnEntries
    /\ \A p \in Servers : LeftAt(p) /\ ServingAt(p) /\ LeavingAt(p)

LEMMA OwnIds ==
    ASSUME TypeOK, NEW p \in Servers, OwnId(p), NEW q \in Servers, NEW use \in Uses
    PROVE  IdOf(q, use) = InstanceId[p] <=> q = p
<1>1. CASE q = p
  BY <1>1 DEF OwnId, IdOf
<1>2. CASE q # p /\ InstanceId[q] # None
  BY <1>2 DEF OwnId, IdOf
<1>3. CASE q # p /\ InstanceId[q] = None
  <2>1. starts[q] \in Nat
    BY MaxStartsIsNat DEF TypeOK
  <2>2. IdOf(q, use) \in Servers \X Nat \X Uses
    BY <1>3, <2>1 DEF IdOf
  <2> QED
    BY <1>3, <2>2, ConfiguredIdsDiffer
<1> QED
  BY <1>1, <1>2, <1>3

\* A request speaks of p exactly if it is p's.
LEMMA OwnRequest ==
    ASSUME TypeOK, NEW p \in Servers, OwnId(p), NEW q \in Servers, NEW g \in Goroutines
    PROVE  /\ Request(q, g).server = q /\ Request(q, g).op = call[q][g]
           /\ Request(q, g).id = InstanceId[p] <=> q = p
<1>1. (IF call[q][g] = "register" THEN g ELSE "exit") \in Uses
  BY DEF Uses
<1> QED
  BY <1>1, OwnIds DEF Request

\* A step of a process that sends nothing late.
LEMMA LateSame ==
    ASSUME NEW q \in Servers,
           \/ Start(q) \/ FirstRegistered(q) \/ CallRegister(q) \/ Registered(q) \/ Listen(q)
           \/ ServerFails(q) \/ Notify(q) \/ Signal(q) \/ Receive(q)
           \/ \E g \in Goroutines : Perform(q, g) \/ Lose(q, g)
    PROVE  late' = late
BY DEF Start, FirstRegistered, CallRegister, Registered, Listen, ServerFails, Notify, Signal,
   Receive, Perform, Lose

LEMMA LateEnd ==
    ASSUME NEW q \in Servers, NEW m, End(q, m), NEW d \in late', d \notin late
    PROVE  \E g \in Goroutines : Sent(q, g) /\ d = Request(q, g)
BY DEF End

\* A step of the processes other than a request performed by Consul.
LEMMA RegistrySame ==
    ASSUME NEW q \in Servers,
           \/ Start(q) \/ Crash(q) \/ Step(q) \/ ServerFails(q) \/ SignalKills(q) \/ Signal(q)
           \/ \E g \in Goroutines : Lose(q, g)
    PROVE  registry' = registry
BY DEF Step, Start, Crash, End, FirstRegistered, CallRegister, Registered, RegisterFails, Listen,
   ServerFails, Notify, SignalKills, Signal, Receive, Exit, Lose

LEMMA OwnEntriesStep ==
    ASSUME TypeOK, OwnEntries, [Next]_vars
    PROVE  OwnEntries'
<1> SUFFICES ASSUME NEW p \in Servers, OwnId(p)
             PROVE  /\ \A e \in registry' : e.server = p <=> e.id = InstanceId[p]
                    /\ \A d \in late' : d.server = p <=> d.id = InstanceId[p]
  BY DEF OwnEntries, OwnId
<1>1. ASSUME NEW q \in Servers,
             \/ Start(q) \/ Crash(q) \/ Step(q) \/ ServerFails(q) \/ SignalKills(q) \/ Signal(q)
             \/ \E g \in Goroutines : Perform(q, g) \/ Lose(q, g)
      PROVE  \A d \in late' : d.server = p <=> d.id = InstanceId[p]
  <2>1. ASSUME NEW d \in late', d \notin late
        PROVE  d.server = p <=> d.id = InstanceId[p]
    <3>1. PICK m : End(q, m)
      BY <1>1, <2>1, LateSame DEF Crash, Step, RegisterFails, SignalKills, Exit
    <3>2. PICK g \in Goroutines : d = Request(q, g)
      BY <2>1, <3>1, LateEnd
    <3> QED
      BY <3>2, OwnRequest
  <2> QED
    BY <2>1 DEF OwnEntries
<1>2. ASSUME NEW q \in Servers, NEW g \in Goroutines, Perform(q, g)
      PROVE  \A e \in registry' : e.server = p <=> e.id = InstanceId[p]
  BY <1>2, OwnRequest DEF Perform, Effect, OwnEntries
<1>3. ASSUME NEW d \in late, Arrive(d)
      PROVE  /\ \A e \in registry' : e.server = p <=> e.id = InstanceId[p]
             /\ \A e \in late' : e.server = p <=> e.id = InstanceId[p]
  BY <1>3 DEF Arrive, Effect, OwnEntries
<1>4. ASSUME NEW e \in registry, Reap(e)
      PROVE  registry' \subseteq registry /\ late' = late
  BY <1>4 DEF Reap
<1>5. CASE UNCHANGED vars
  BY <1>5 DEF vars, OwnEntries
<1> QED
  BY <1>1, <1>2, <1>3, <1>4, <1>5, RegistrySame DEF Next, OwnEntries

\* A step of another server leaves p alone.
LEMMA OtherServer ==
    ASSUME TypeOK, NEW p \in Servers, NEW q \in Servers, q # p,
           \/ Start(q) \/ Crash(q) \/ Step(q) \/ ServerFails(q) \/ SignalKills(q) \/ Signal(q)
           \/ \E g \in Goroutines : Perform(q, g) \/ Lose(q, g)
    PROVE  /\ main'[p] = main[p] /\ http'[p] = http[p] /\ call'[p] = call[p]
           /\ raced'[p] = raced[p] /\ leftover'[p] = leftover[p]
           /\ \A d \in late' : d.server = p => d \in late
<1>1. CASE Start(q)
  <2>1. /\ main'[p] = main[p] /\ raced'[p] = raced[p] /\ leftover'[p] = leftover[p]
        /\ late' = late
    BY <1>1 DEF TypeOK, Start
  <2>2. http'[p] = http[p]
    BY <1>1 DEF TypeOK, Start, Launch
  <2>3. call'[p] = call[p]
    BY <1>1 DEF TypeOK, Start
  <2> QED
    BY <2>1, <2>2, <2>3
<1>2. ASSUME NEW m, End(q, m)
      PROVE  /\ main'[p] = main[p] /\ http'[p] = http[p] /\ call'[p] = call[p]
             /\ raced'[p] = raced[p] /\ leftover'[p] = leftover[p]
             /\ \A d \in late' : d.server = p => d \in late
  BY <1>2 DEF TypeOK, End, Request
<1>3. CASE FirstRegistered(q) \/ CallRegister(q) \/ Registered(q)
  BY <1>3 DEF TypeOK, FirstRegistered, Launch, CallRegister, Registered
<1>4. CASE Listen(q) \/ ServerFails(q) \/ Notify(q) \/ Signal(q)
  BY <1>4 DEF TypeOK, Listen, ServerFails, Notify, Signal
<1>5. CASE Receive(q)
  BY <1>5 DEF TypeOK, Receive
<1>6. ASSUME NEW g \in Goroutines, Perform(q, g) \/ Lose(q, g)
      PROVE  /\ main'[p] = main[p] /\ http'[p] = http[p] /\ call'[p] = call[p]
             /\ raced'[p] = raced[p] /\ leftover'[p] = leftover[p] /\ late' = late
  BY <1>6 DEF TypeOK, Perform, Lose, Answer
<1> QED
  BY <1>1, <1>2, <1>3, <1>4, <1>5, <1>6 DEF Crash, Step, RegisterFails, SignalKills, Exit

\* A request under another id leaves the entry of p alone, and one of another
\* server makes none for p.
LEMMA EffectOnOthers ==
    ASSUME NEW p \in Servers, NEW d
    PROVE  /\ d.id # InstanceId[p] /\ [id |-> InstanceId[p], server |-> p] \in registry
                 => [id |-> InstanceId[p], server |-> p] \in Effect(d)
           /\ ~Entered(p) /\ (d.server # p \/ d.op # "register")
                 => \A e \in Effect(d) : e.server # p
BY DEF Effect, Entered

\* The entries of p after a step of another server.
LEMMA EntriesOfOthers ==
    ASSUME TypeOK, NEW p \in Servers, OwnId(p), NEW q \in Servers, q # p,
           NEW g \in Goroutines, Perform(q, g)
    PROVE  /\ [id |-> InstanceId[p], server |-> p] \in registry
                 => [id |-> InstanceId[p], server |-> p] \in registry'
           /\ ~Entered(p) => ~Entered(p)'
<1>1. Request(q, g).server # p /\ Request(q, g).id # InstanceId[p]
  BY OwnRequest
<1> QED
  BY <1>1, EffectOnOthers DEF Perform, Entered

LEMMA LeftStep ==
    ASSUME LifecycleInv, [Next]_vars, NEW p \in Servers
    PROVE  LeftAt(p)'
<1>0. TypeOK /\ LeftAt(p) /\ Coherent(p)
  BY DEF LifecycleInv, TypeOK
<1>1. ASSUME NEW q \in Servers, q # p,
             \/ Start(q) \/ Crash(q) \/ Step(q) \/ ServerFails(q) \/ SignalKills(q) \/ Signal(q)
             \/ \E g \in Goroutines : Perform(q, g) \/ Lose(q, g)
      PROVE  LeftAt(p)'
  BY <1>0, <1>1, OtherServer DEF LeftAt, Up
<1>2. CASE Start(p)
  <2>1. leftover'[p] = {d.op : d \in {e \in late : e.server = p}} /\ late' = late
    BY <1>0, <1>2 DEF TypeOK, Start
  <2> QED
    BY <2>1 DEF LeftAt
<1>3. ASSUME NEW m \in {"down", "exited"}, End(p, m)
      PROVE  LeftAt(p)'
  BY <1>0, <1>3 DEF TypeOK, End, LeftAt, Up
<1>4. CASE \/ FirstRegistered(p) \/ CallRegister(p) \/ Registered(p) \/ Listen(p)
           \/ ServerFails(p) \/ Notify(p) \/ Signal(p) \/ Receive(p)
           \/ \E g \in Goroutines : Perform(p, g) \/ Lose(p, g)
  <2>1. late' = late
    BY <1>4, LateSame
  <2>2. leftover' = leftover
    BY <1>4 DEF FirstRegistered, CallRegister, Registered, Listen, ServerFails, Notify, Signal,
                Receive, Perform, Lose
  <2>3. Up(p)' => Up(p)
    BY <1>4 DEF FirstRegistered, CallRegister, Registered, Listen, ServerFails, Notify, Signal,
                Receive, Perform, Lose, Up
  <2> QED
    BY <1>0, <2>1, <2>2, <2>3 DEF LeftAt
<1>5. ASSUME NEW d \in late, Arrive(d)
      PROVE  LeftAt(p)'
  BY <1>0, <1>5 DEF Arrive, LeftAt, Up
<1>6. ASSUME NEW e \in registry, Reap(e)
      PROVE  LeftAt(p)'
  BY <1>0, <1>6 DEF Reap, LeftAt, Up
<1>7. CASE UNCHANGED vars
  BY <1>0, <1>7 DEF vars, LeftAt, Up
<1> QED
  BY <1>1, <1>2, <1>3, <1>4, <1>5, <1>6, <1>7
  DEF Next, Step, Crash, SignalKills, RegisterFails, Exit

LEMMA ServingStep ==
    ASSUME LifecycleInv, [Next]_vars, NEW p \in Servers
    PROVE  ServingAt(p)'
<1> DEFINE entry == [id |-> InstanceId[p], server |-> p]
<1> SUFFICES ASSUME OwnId(p), main'[p] = "wait", AboutToServe(p)', "deregister" \notin leftover'[p]
             PROVE  entry \in registry'
  BY DEF ServingAt, OwnId
<1>0. /\ TypeOK /\ OwnEntries /\ Coherent(p) /\ LeftAt(p) /\ ServingAt(p)
      /\ "main" \in Goroutines /\ "http" \in Goroutines
      /\ {"none", "register", "deregister"} \subseteq Calls
  BY DEF LifecycleInv, TypeOK, Goroutines, Calls
<1>1. ASSUME NEW q \in Servers, q # p,
             \/ Start(q) \/ Crash(q) \/ Step(q) \/ ServerFails(q) \/ SignalKills(q) \/ Signal(q)
             \/ \E g \in Goroutines : Perform(q, g) \/ Lose(q, g)
      PROVE  entry \in registry'
  <2>1. main[p] = "wait" /\ AboutToServe(p) /\ "deregister" \notin leftover[p]
    BY <1>0, <1>1, OtherServer DEF AboutToServe
  <2>2. entry \in registry
    BY <1>0, <2>1 DEF ServingAt
  <2> QED
    BY <1>0, <1>1, <2>2, EntriesOfOthers, RegistrySame
<1>2. CASE Start(p)
  <2>1. p \notin Gateways /\ http'[p] = "start" /\ call' = call
    BY <1>0, <1>2 DEF TypeOK, Start, Launch
  <2> QED
    BY <1>0, <1>2, <2>1 DEF Start, AboutToServe, Coherent
<1>3. ASSUME NEW m \in {"down", "exited"}, End(p, m)
      PROVE  FALSE
  BY <1>0, <1>3 DEF TypeOK, End
<1>4. CASE FirstRegistered(p)
  <2>1. http'[p] = "start" /\ call'[p]["http"] = call[p]["http"]
    BY <1>0, <1>4 DEF TypeOK, FirstRegistered, Launch
  <2> QED
    BY <1>0, <1>4, <2>1 DEF FirstRegistered, AboutToServe, Coherent, Up
<1>5. CASE CallRegister(p)
  <2>1. http'[p] = "register" /\ call'[p]["http"] = "register"
    BY <1>0, <1>5 DEF TypeOK, CallRegister
  <2> QED
    BY <2>1 DEF AboutToServe
<1>6. CASE Registered(p)
  BY <1>0, <1>6 DEF Registered, AboutToServe, ServingAt
<1>7. CASE Listen(p) \/ ServerFails(p) \/ Notify(p) \/ Signal(p)
  <2>1. /\ main' = main /\ call' = call /\ registry' = registry
        /\ leftover' = leftover
        /\ http'[p] \in {"listen", "serve"} => http[p] \in {"listen", "serve"}
    BY <1>0, <1>7 DEF TypeOK, Listen, ServerFails, Notify, Signal
  <2> QED
    BY <1>0, <2>1 DEF AboutToServe, ServingAt
<1>8. CASE Receive(p)
  BY <1>0, <1>8 DEF TypeOK, Receive
<1>9. ASSUME NEW g \in Goroutines, Perform(p, g)
      PROVE  entry \in registry'
  <2>1. main[p] = "wait" /\ call[p]["main"] = "none"
    BY <1>0, <1>9 DEF Perform, Coherent
  <2>2. g = "http" /\ call[p][g] = "register"
    BY <1>0, <1>9, <2>1 DEF Perform, Sent, Ops, Coherent, Goroutines
  <2>3. /\ Request(p, g).id = InstanceId[p] /\ Request(p, g).server = p
        /\ Request(p, g).op = "register"
    BY <1>0, <2>2, OwnRequest
  <2> QED
    BY <1>9, <2>3 DEF Perform, Effect
<1>10. ASSUME NEW g \in Goroutines, Lose(p, g)
       PROVE  entry \in registry'
  <2>1. main' = main /\ http' = http /\ registry' = registry /\ leftover' = leftover
    BY <1>10 DEF Lose
  <2>2. call'[p]["http"] = "ok" => call[p]["http"] = "ok"
    BY <1>0, <1>10 DEF TypeOK, Lose, Answer
  <2> QED
    BY <1>0, <2>1, <2>2 DEF AboutToServe, ServingAt
<1>13. ASSUME NEW d \in late, Arrive(d)
       PROVE  entry \in registry'
  <2>1. entry \in registry /\ Up(p) /\ "deregister" \notin leftover[p]
    BY <1>0, <1>13 DEF Arrive, AboutToServe, ServingAt, Up
  <2>2. d.op \in Ops
    BY <1>0, <1>13 DEF TypeOK
  <2>3. CASE d.server = p
    <3>1. d.op = "register" /\ d.id = InstanceId[p]
      BY <1>0, <1>13, <2>1, <2>2, <2>3 DEF LeftAt, OwnEntries, Ops
    <3> QED
      BY <1>13, <2>1, <2>3, <3>1 DEF Arrive, Effect
  <2>4. CASE d.server # p
    <3>1. d.id # InstanceId[p]
      BY <1>0, <1>13, <2>4 DEF OwnEntries
    <3> QED
      BY <1>13, <2>1, <3>1, EffectOnOthers DEF Arrive
  <2> QED
    BY <2>3, <2>4
<1>11. ASSUME NEW e \in registry, Reap(e)
       PROVE  entry \in registry'
  <2>1. main[p] = "wait" /\ AboutToServe(p) /\ "deregister" \notin leftover[p]
    BY <1>11 DEF Reap, AboutToServe
  <2>2. entry \in registry /\ e.server # p
    BY <1>0, <1>11, <2>1 DEF Reap, ServingAt
  <2> QED
    BY <1>11, <2>2 DEF Reap
<1>12. CASE UNCHANGED vars
  BY <1>0, <1>12 DEF vars, AboutToServe, ServingAt
<1> QED
  BY <1>1, <1>2, <1>3, <1>4, <1>5, <1>6, <1>7, <1>8, <1>9, <1>10, <1>11, <1>12, <1>13
  DEF Next, Step, Crash, SignalKills, RegisterFails, Exit

LEMMA LeavingStep ==
    ASSUME LifecycleInv, [Next]_vars, NEW p \in Servers
    PROVE  LeavingAt(p)'
<1> SUFFICES ASSUME OwnId(p)
             PROVE  LeavingAt(p)'
  BY DEF LeavingAt, OwnId
<1>0. /\ TypeOK /\ OwnEntries /\ Coherent(p) /\ LeftAt(p) /\ LeavingAt(p)
      /\ "main" \in Goroutines /\ "http" \in Goroutines
      /\ {"none", "register", "deregister"} \subseteq Calls
  BY DEF LifecycleInv, TypeOK, Goroutines, Calls
<1>1. ASSUME NEW q \in Servers, q # p,
             \/ Start(q) \/ Crash(q) \/ Step(q) \/ ServerFails(q) \/ SignalKills(q) \/ Signal(q)
             \/ \E g \in Goroutines : Perform(q, g) \/ Lose(q, g)
      PROVE  LeavingAt(p)'
  <2>1. ~Entered(p) => ~Entered(p)'
    BY <1>0, <1>1, EntriesOfOthers, RegistrySame DEF Entered
  <2> QED
    BY <1>0, <1>1, <2>1, OtherServer DEF LeavingAt
<1>2. CASE Start(p)
  <2>1. main'[p] \in {"register", "wait"}
    BY <1>0, <1>2 DEF TypeOK, Start
  <2> QED
    BY <2>1 DEF LeavingAt
<1>3. ASSUME End(p, "down")
      PROVE  LeavingAt(p)'
  <2>1. main'[p] = "down"
    BY <1>0, <1>3 DEF TypeOK, End
  <2> QED
    BY <2>1 DEF LeavingAt
<1>4. CASE main[p] = "deregister" /\ call[p]["main"] = "ok" /\ End(p, "exited")
  <2>1. /\ main'[p] = "exited" /\ raced'[p] = raced[p] /\ registry' = registry
        /\ leftover'[p] = leftover[p]
    BY <1>0, <1>4 DEF TypeOK, End
  <2>2. http[p] # "register" => late' = late
    <3>1. http[p] # "register" => \A g \in Goroutines : ~Sent(p, g)
      BY <1>0, <1>4 DEF Coherent, Up, Sent, Ops, Goroutines
    <3> QED
      BY <1>4, <3>1 DEF End
  <2>3. Up(p)
    BY <1>4 DEF Up
  <2> QED
    BY <1>0, <1>4, <2>1, <2>2, <2>3 DEF LeavingAt, LeftAt, Entered
<1>5. CASE FirstRegistered(p)
  <2>1. main'[p] = "wait"
    BY <1>0, <1>5 DEF TypeOK, FirstRegistered
  <2> QED
    BY <2>1 DEF LeavingAt
<1>6. CASE CallRegister(p) \/ Registered(p)
  <2>1. http[p] \in {"start", "register"} /\ UNCHANGED <<main, raced, registry, leftover>>
    BY <1>6 DEF CallRegister, Registered
  <2>2. main[p] # "exited"
    BY <1>0, <2>1 DEF Coherent, Up
  <2> QED
    BY <1>0, <2>1, <2>2 DEF LeavingAt
<1>7. CASE Listen(p) \/ ServerFails(p) \/ Notify(p) \/ Signal(p)
  <2>1. /\ UNCHANGED <<main, call, late, raced, leftover, registry>>
        /\ http'[p] \in {"start", "register"} => http[p] \in {"start", "register"}
    BY <1>0, <1>7 DEF TypeOK, Listen, ServerFails, Notify, Signal
  <2> QED
    BY <1>0, <2>1 DEF LeavingAt, Entered
<1>8. CASE Receive(p)
  <2>1. main'[p] = "deregister" /\ call'[p]["main"] = "deregister"
    BY <1>0, <1>8 DEF TypeOK, Receive
  <2>2. ~raced'[p] => http[p] \notin {"start", "register"}
    BY <1>0, <1>8 DEF TypeOK, Receive
  <2>3. http'[p] \in {http[p], "off"}
    BY <1>0, <1>8 DEF TypeOK, Receive
  <2> QED
    BY <2>1, <2>2, <2>3 DEF LeavingAt
<1>9. ASSUME NEW g \in Goroutines, Perform(p, g), ~raced[p], "register" \notin leftover[p],
             main[p] \in {"deregister", "exited"}
      PROVE  LeavingAt(p)'
  <2>1. main[p] = "deregister" /\ call[p]["main"] # "register" /\ call[p]["http"] = "none"
    BY <1>0, <1>9 DEF Perform, Sent, Ops, LeavingAt, Coherent, Up, Goroutines
  <2>2. g = "main" /\ call[p][g] = "deregister"
    BY <1>9, <2>1 DEF Perform, Sent, Ops, Goroutines
  <2>3. Request(p, g).id = InstanceId[p] /\ Request(p, g).op = "deregister"
    BY <1>0, <2>2, OwnRequest
  <2>4. ~Entered(p)'
    BY <1>0, <1>9, <2>3 DEF Perform, Effect, OwnEntries, Entered
  <2>5. /\ UNCHANGED <<main, http, raced, leftover>>
        /\ call'[p]["main"] \in {"ok", "failed"}
    BY <1>0, <1>9, <2>1, <2>2 DEF TypeOK, Perform, Answer
  <2> QED
    BY <1>0, <1>9, <2>1, <2>4, <2>5 DEF LeavingAt
<1>10. ASSUME NEW g \in Goroutines, Perform(p, g),
              \/ raced[p] \/ "register" \in leftover[p]
              \/ main[p] \notin {"deregister", "exited"}
       PROVE  LeavingAt(p)'
  BY <1>10 DEF Perform, LeavingAt
<1>11. ASSUME NEW g \in Goroutines, Lose(p, g)
       PROVE  LeavingAt(p)'
  <2>1. UNCHANGED <<main, http, late, raced, leftover, registry>>
    BY <1>11 DEF Lose
  <2>2. call'[p]["main"] \in {call[p]["main"], "failed"}
    BY <1>0, <1>11 DEF TypeOK, Lose, Answer
  <2> QED
    BY <1>0, <2>1, <2>2 DEF LeavingAt, Entered
<1>14. ASSUME NEW d \in late, Arrive(d)
       PROVE  LeavingAt(p)'
  <2>1. /\ UNCHANGED <<main, http, call, raced, leftover>>
        /\ late' \subseteq late /\ registry' \in {Effect(d), registry}
    BY <1>14 DEF Arrive
  <2>2. ASSUME ~raced[p], "register" \notin leftover[p], ~Entered(p),
               main[p] \in {"deregister", "exited"}
        PROVE  ~Entered(p)'
    <3>1. d.server # p \/ d.op # "register"
      BY <1>0, <1>14, <2>2 DEF LeftAt, LeavingAt, Up
    <3> QED
      BY <2>1, <2>2, <3>1, EffectOnOthers DEF Entered
  <2> QED
    BY <1>0, <2>1, <2>2 DEF LeavingAt
<1>12. ASSUME NEW e \in registry, Reap(e)
       PROVE  LeavingAt(p)'
  BY <1>0, <1>12 DEF Reap, LeavingAt, Entered
<1>13. CASE UNCHANGED vars
  BY <1>0, <1>13 DEF vars, LeavingAt, Entered
<1> QED
  BY <1>1, <1>2, <1>3, <1>4, <1>5, <1>6, <1>7, <1>8, <1>9, <1>10, <1>11, <1>12, <1>13, <1>14
  DEF Next, Step, Crash, SignalKills, RegisterFails, Exit

LEMMA Inductive == Spec => []LifecycleInv
<1>1. Init => LifecycleInv
  <2>1. ASSUME Init, NEW p \in Servers
        PROVE  LeftAt(p) /\ ServingAt(p) /\ LeavingAt(p)
    <3>1. main[p] = "down"
      BY <2>1 DEF Init
    <3> QED
      BY <3>1 DEF LeftAt, ServingAt, LeavingAt, Up
  <2> QED
    BY <2>1, TypeInit DEF Init, LifecycleInv, OwnEntries
<1>2. LifecycleInv /\ [Next]_vars => LifecycleInv'
  BY TypeStep, OwnEntriesStep, LeftStep, ServingStep, LeavingStep DEF LifecycleInv
<1> QED
  BY <1>1, <1>2, PTL DEF Spec

\* A clean exit leaves no entry in Consul, for every interleaving in which
\* main's DeRegister began after the Register was answered and no Register of an
\* earlier life was on its way when this one began.
THEOREM CleanExit == Spec => []CleanExitUnregisters
<1>1. LifecycleInv => CleanExitUnregisters
  BY DEF LifecycleInv, LeavingAt, CleanExitUnregisters
<1> QED
  BY <1>1, Inductive, PTL

\* A process that serves HTTP is found in Consul, whatever its earlier lives left
\* there or sent, if no DeRegister of theirs was on its way when it was started.
THEOREM ServingFound == Spec => []ServingIsRegistered
<1>1. LifecycleInv => ServingIsRegistered
  BY DEF LifecycleInv, ServingAt, AboutToServe, ServingIsRegistered
<1> QED
  BY <1>1, Inductive, PTL
=============================================================================
