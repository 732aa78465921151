--------------------------- MODULE MCTokenService ---------------------------
(* The model-checking instance of TokenService: see MCTokenService.cfg.    *)
EXTENDS TokenService, TLC

\* Requests are interchangeable in safety checks.
Symmetry == Permutations(Requests)

\* Bound: no grant beside another request.  What it leaves out is what the
\* properties, TypeOK apart, say nothing of.
NoGrantRace == ~grantRaced
NoGrantRaceSpec == Init /\ [][Next /\ NoGrantRace']_vars
=============================================================================
