----------------------------- MODULE MCDiscovery -----------------------------
(* The model-checking instance of Discovery: see MCDiscovery.cfg.           *)
EXTENDS Discovery

CONSTANT Moving     \* bound: the services whose instances come and go
ASSUME MovingAreServices == Moving \subseteq Services

\* The instances of the other services are healthy, and their polls succeed.
Steady ==
    \A s \in Services \ Moving :
        /\ ~resync[s]
        /\ \A i \in Instances : catalog[s][i] = "passing"

\* The steps this leaves out have no fairness in Fairness, so the behaviours
\* that remain are fair ones.
SteadyInit == Init /\ Steady
SteadySpec == SteadyInit /\ [][Next /\ Steady']_vars /\ Fairness
=============================================================================
