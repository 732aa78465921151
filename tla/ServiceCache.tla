---------------------------- MODULE ServiceCache ----------------------------
(***************************************************************************)
(* What callers of DiscoverServices rely on, said without mutexes, watch   *)
(* goroutines or Consul: every service has one view that is filled once,   *)
(* by a caller that asked for it, one service at a time; from then on only *)
(* deliveries replace the view, and every answer is the view of its        *)
(* moment.  Discovery.tla implements it.                                   *)
(*                                                                         *)
(* Nothing here promises that an answer comes: the code does not keep that *)
(* promise (see CallsReturnUnlessLeaked in Discovery.tla).                 *)
(***************************************************************************)
CONSTANTS Callers, Services, Instances, None

VARIABLES
    phase,   \* phase[s]: "cold", "filling" or "warm"
    view,    \* view[s]: the instances known for s, None before any are
    asked,   \* asked[c]: the service c waits for, None when c waits for none
    answer   \* answer[c]: what c's last finished call returned

vars == <<phase, view, asked, answer>>

Init ==
    /\ phase = [s \in Services |-> "cold"]
    /\ view = [s \in Services |-> None]
    /\ asked = [c \in Callers |-> None]
    /\ answer = [c \in Callers |-> None]

\* A caller asks for a service whose view may not be known yet.
Ask(c, s) ==
    /\ asked[c] = None
    /\ asked' = [asked EXCEPT ![c] = s]
    /\ answer' = [answer EXCEPT ![c] = None]
    /\ UNCHANGED <<phase, view>>

\* A caller asks for a service whose view is known and has it at once.
AskKnown(c, s) ==
    /\ asked[c] = None
    /\ view[s] # None
    /\ answer' = [answer EXCEPT ![c] = view[s]]
    /\ UNCHANGED <<phase, view, asked>>

\* A waiting caller finds that the view has become known.
Answer(c) ==
    /\ asked[c] # None
    /\ view[asked[c]] # None
    /\ answer' = [answer EXCEPT ![c] = view[asked[c]]]
    /\ asked' = [asked EXCEPT ![c] = None]
    /\ UNCHANGED <<phase, view>>

\* The one fill of a service begins; no other fill is under way.
Open(c) ==
    /\ asked[c] # None
    /\ phase[asked[c]] = "cold"
    /\ \A s \in Services : phase[s] # "filling"
    /\ phase' = [phase EXCEPT ![asked[c]] = "filling"]
    /\ UNCHANGED <<view, asked, answer>>

\* The fill ends: its caller leaves with the view it put in place.
Fill(c, v) ==
    /\ asked[c] # None
    /\ phase[asked[c]] = "filling"
    /\ phase' = [phase EXCEPT ![asked[c]] = "warm"]
    /\ view' = [view EXCEPT ![asked[c]] = v]
    /\ answer' = [answer EXCEPT ![c] = v]
    /\ asked' = [asked EXCEPT ![c] = None]

\* News of a service that is being, or has been, filled.
Deliver(s, v) ==
    /\ phase[s] # "cold"
    /\ view' = [view EXCEPT ![s] = v]
    /\ UNCHANGED <<phase, asked, answer>>

Next ==
    \/ \E c \in Callers, s \in Services : Ask(c, s) \/ AskKnown(c, s)
    \/ \E c \in Callers : Answer(c) \/ Open(c)
    \/ \E c \in Callers, v \in SUBSET Instances : Fill(c, v)
    \/ \E s \in Services, v \in SUBSET Instances : Deliver(s, v)

Spec == Init /\ [][Next]_vars
=============================================================================
