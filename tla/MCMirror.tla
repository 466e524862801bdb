------------------------------ MODULE MCMirror ------------------------------
(***************************************************************************)
(* Two transfers at once, of a store with two commits.                     *)
(***************************************************************************)
EXTENDS Mirror, TLC

CONSTANTS r1, r2, x, y, sync1, sync2
MCRecords == {r1}
MCTexts == {x, y}
MCSyncs == {sync1, sync2}
Interchangeable == Permutations(MCSyncs) \cup Permutations(MCTexts)
=============================================================================
