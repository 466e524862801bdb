--------------------------- MODULE MCFailoverProxy --------------------------
(***************************************************************************)
(* Two calls, one of which can be answered while the other waits, and      *)
(* enough servers to see a remote one, a local one and its restart.        *)
(***************************************************************************)
EXTENDS FailoverProxy, TLC

CONSTANTS a, b

MCCalls == {a, b}
MCCall == {a}
Interchangeable == Permutations(MCCalls)
=============================================================================
