------------------------- MODULE MCStoreTransactions ------------------------
(***************************************************************************)
(* Two threads and three objects, two of them in one thread: contention    *)
(* for the lock, and a thread that commits through one object inside the   *)
(* transaction of another, where only the fingerprint protects the file.   *)
(***************************************************************************)
EXTENDS StoreTransactions, TLC

CONSTANTS t1, t2, d1, d2, d3, e1, e2

MCThreads == {t1, t2}
MCObjects == {d1, d2, d3}
MCThreadOf == [d \in MCObjects |-> IF d = d3 THEN t2 ELSE t1]
MCEdits == {e1, e2}

\* Edits are interchangeable, and so are the two objects of the first thread.
Interchangeable == Permutations(MCEdits) \cup Permutations({d1, d2})
=============================================================================
