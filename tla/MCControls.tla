----------------------------- MODULE MCControls -----------------------------
(***************************************************************************)
(* Two sessions with a claim each that comes and goes; the index may find  *)
(* the two near, and the second session can move to another scope.         *)
(***************************************************************************)
EXTENDS Controls

CONSTANTS s1, s2, p, q, A, B

MCSessions == {s1, s2}
MCContexts == {p, q}
MCTexts == {A, B}
MCUnits == [s \in MCSessions |->
    IF s = s1 THEN [text : {A}, ctx : {p}] ELSE [text : {B}, ctx : {p, q}]]
MCForm == [t \in MCTexts |-> t]
MCMaxUnits == [s \in MCSessions |-> 1]
=============================================================================
