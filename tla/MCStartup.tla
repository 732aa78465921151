------------------------------ MODULE MCStartup ------------------------------
(* The model-checking instance of Startup: see MCStartup.cfg.               *)
EXTENDS Startup

Whole == [has |-> Fields, decodes |-> TRUE]
PartForms == {[has |-> {f}, decodes |-> d] : f \in Fields, d \in BOOLEAN}

Written == {Whole, Missing} \union PartForms

\* Bound: at most two sections of the local file are not whole.
MCLocalFiles ==
    {[[x \in Sections |-> Whole] EXCEPT ![s] = a, ![t] = b] :
        s \in Sections, t \in Sections, a \in Written, b \in Written}

\* Bound: the sections that no program reads again are not in the answer.
MCAnswers ==
    {[s \in Sections |-> IF s \in BootSections THEN Missing ELSE a[s]] :
        a \in [{"trace", "mysql", "auth"} -> Written]}
=============================================================================
