------------------------------ MODULE MCBalance ------------------------------
(* The model-checking instance of Balance: see MCBalance.cfg.               *)
EXTENDS Balance

\* Every list of up to three instances with weights up to two, one of four with
\* weights that differ much, and the shortest kind of list on which an instance
\* falls behind by a whole selection.
ShortLists ==
    UNION {[1..n -> 0..2] : n \in 0..3} \union {<<5, 1, 1, 2>>, <<1, 1, 1, 1, 4, 4>>}
=============================================================================
