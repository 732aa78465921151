----------------------------- MODULE MCLifecycle -----------------------------
(* The model-checking instances of Lifecycle: see the MCLifecycle*.cfg      *)
(* files.                                                                   *)
EXTENDS Lifecycle

\* Every server has a configured id of its own.
OwnIds == [p \in Servers |-> p]

\* Only oauth-service has a configured id.
OAuthIds == [p \in Servers |-> IF p \in Gateways THEN None ELSE p]

\* Bound: one process is up at a time, beside what its predecessors left in
\* Consul and on the way there; a gateway is not started again, and the others
\* have a second life only where no gateway has run.
InTurn ==
    /\ \A p, q \in Servers : p # q => ~Up(p) \/ ~Up(q)
    /\ \A p \in Gateways :
          /\ starts[p] <= 1
          /\ starts[p] = 1 => \A q \in Servers \ Gateways : starts[q] <= 1

\* Start, the action this bounds, has no fairness in Fairness, so the
\* behaviours that remain are fair ones.
InTurnSpec == Init /\ [][Next /\ InTurn']_vars /\ Fairness
=============================================================================
