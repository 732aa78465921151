------------------------------ MODULE MCGateway ------------------------------
(* The model-checking instances of Gateway: see the MCGateway*.cfg files.   *)
EXTENDS Gateway, TLC

\* Requests are interchangeable in safety checks; services are not (OAuth).
Symmetry == Permutations(Callers)

\* Bound: every behaviour begins with every instance registered and healthy.
HealthyInit ==
    /\ GatewayInit
    /\ \A s \in Services, i \in Instances : catalog[s][i] = "passing"

\* Bound: the watch of s has nothing to deliver, and its polls do not fail.
Silent(s) == ~resync[s] /\ reply[s] = None

\* Bound: the OAuth service stays as it is; an instance of another one may
\* leave, and the watch delivers that.  Failed polls are left to Discovery.
OneMoves ==
    /\ Silent(OAuth)
    /\ \A i \in Instances : catalog[OAuth][i] = "passing"
    /\ \A s \in Services \ {OAuth}, i \in Instances :
          ~resync[s] /\ catalog[s][i] \in {"passing", "absent"}

SafetySpec == HealthyInit /\ [][GatewayNext /\ OneMoves']_gatewayVars

\* The fair behaviours without deliveries: the watches have no fairness in
\* GatewayFairness, so what remains are fair behaviours.
QuietSpec ==
    /\ HealthyInit
    /\ [][GatewayNext /\ \A s \in Services : Silent(s)']_gatewayVars
    /\ GatewayFairness
=============================================================================
