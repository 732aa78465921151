--------------------------- MODULE MCActivitySync ---------------------------
(* Model-checking instances of ActivitySync: see the MCActivity*.cfg files.  *)
EXTENDS ActivitySync, TLC

\* Administrators and products are interchangeable in safety checks.
Symmetry == Permutations(Admins) \union Permutations(Products)
=============================================================================
