--------------------------- MODULE MCOAuthService ---------------------------
(* Model-checking instances of OAuthService: see the MCOAuth*.cfg files.    *)
EXTENDS OAuthService, TLC

Symmetry == Permutations(Requests)
=============================================================================
