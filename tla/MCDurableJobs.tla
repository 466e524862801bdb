---------------------------- MODULE MCDurableJobs ---------------------------
(***************************************************************************)
(* Two calls at a time over two revisions of the source: one holds a row   *)
(* the other wants, and the source can go away, change and change back.    *)
(***************************************************************************)
EXTENDS DurableJobsProperties, TLC

CONSTANTS w1, w2, v1, v2

MCWorkers == {w1, w2}
MCRevisions == {v1, v2}
MCBoth == {"heuristic", "anthropic"}
MCCloud == {"anthropic"}
MCLocal == {"heuristic"}

\* Neither workers nor revisions are told apart.
Interchangeable == Permutations(MCWorkers) \cup Permutations(MCRevisions)
=============================================================================
