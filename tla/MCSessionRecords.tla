-------------------------- MODULE MCSessionRecords --------------------------
(***************************************************************************)
(* Two sessions; two texts that differ in case and a third one; two        *)
(* contexts, so that one text can be two claims.                           *)
(***************************************************************************)
EXTENDS SessionRecords

CONSTANTS s1, s2, k1, k2, low, cap, other

MCSessions == {s1, s2}
MCContexts == {k1, k2}
MCTexts == {low, cap, other}
MCUnits == [s \in MCSessions |->
    [text : MCTexts, ctx : {k1}] \cup {[text |-> low, ctx |-> k2]}]
MCForm == [t \in MCTexts |-> IF t = cap THEN low ELSE t]

MCMaxUnits == [s \in MCSessions |-> IF s = s1 THEN 2 ELSE 1]
=============================================================================
