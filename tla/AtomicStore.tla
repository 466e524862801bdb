----------------------------- MODULE AtomicStore ----------------------------
(***************************************************************************)
(* The canonical JSON store as its users see it: a generation counter and  *)
(* the set of edits the document reflects.  A commit is one step; it adds  *)
(* edits to everything committed before it and counts one generation.      *)
(***************************************************************************)
EXTENDS Naturals

CONSTANT Edits      \* the changes that callers make to the document

VARIABLE store      \* the document: its generation and the edits it reflects

Document == [gen : Nat, edits : SUBSET Edits]

Init == store = [gen |-> 0, edits |-> {}]

Commit(new) ==
    store' = [gen |-> store.gen + 1, edits |-> store.edits \cup new]

Next == \E new \in SUBSET Edits : Commit(new)

Spec == Init /\ [][Next]_store
=============================================================================
