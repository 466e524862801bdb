----------------------------- MODULE WriterLock -----------------------------
(***************************************************************************)
(* What a caller of napmem_storage.store_lock relies on: one thread at a   *)
(* time owns the store, the owner may enter again without waiting, leaving *)
(* an inner block keeps the lock, and the death of the owner's process     *)
(* gives it back.  How the in-process mutex and the lock file are combined *)
(* to provide this is the business of StoreLock.                           *)
(***************************************************************************)
EXTENDS Naturals

CONSTANTS Threads,   \* every thread that may write the store
          Free       \* the owner of an unowned lock

VARIABLES owner,     \* the thread inside the lock, or Free
          nesting    \* how many with-blocks the owner is inside

vars == <<owner, nesting>>

Init == owner = Free /\ nesting = 0

Grab(t) ==
    /\ owner = Free
    /\ owner' = t
    /\ nesting' = 1

Reenter(t) ==
    /\ owner = t
    /\ nesting' = nesting + 1
    /\ UNCHANGED owner

LeaveInner(t) ==
    /\ owner = t
    /\ nesting > 1
    /\ nesting' = nesting - 1
    /\ UNCHANGED owner

LeaveOutermost(t) ==
    /\ owner = t
    /\ nesting = 1
    /\ owner' = Free
    /\ nesting' = 0

\* The process of the owner dies inside the lock.
OwnerDies(t) ==
    /\ owner = t
    /\ owner' = Free
    /\ nesting' = 0

Next == \E t \in Threads :
    Grab(t) \/ Reenter(t) \/ LeaveInner(t) \/ LeaveOutermost(t) \/ OwnerDies(t)

Spec == Init /\ [][Next]_vars
=============================================================================
