----------------------------- MODULE StoreLock ------------------------------
(***************************************************************************)
(* napmem_storage.store_lock: a context manager that serialises writers of *)
(* one store across threads and processes.  A thread first takes a mutex   *)
(* private to its process, then an advisory lock on a sidecar file that    *)
(* the kernel gives back when the process dies; both waits are bounded by  *)
(* the caller's timeout.  A thread-local table makes the lock reentrant.   *)
(*                                                                         *)
(* Time is abstracted: a wait may run out whenever what it waits for is    *)
(* taken.  The body of the with-block is the caller's and is not modelled. *)
(***************************************************************************)
EXTENDS Naturals

CONSTANTS Threads,      \* every thread that may write the store
          Processes,    \* the processes they live in
          ProcOf,       \* the process of each thread
          Free,         \* not a thread: nobody holds the mutex or the file
          MaxNesting    \* bound on nested with-blocks of one thread

ASSUME LockConstants ==
    /\ ProcOf \in [Threads -> Processes]
    /\ Free \notin Threads
    /\ MaxNesting \in Nat \ {0}

VARIABLES pc,       \* where each thread is inside store_lock
          held,     \* _HELD.paths: the thread already owns this store
          nesting,  \* with-blocks of this store the thread is inside
          mutex,    \* _LOCKS[path] of each process: its owner or Free
          flock     \* the owner of the lock on the sidecar file, or Free

vars == <<pc, held, nesting, mutex, flock>>

Init ==
    /\ pc = [t \in Threads |-> "out"]
    /\ held = [t \in Threads |-> FALSE]
    /\ nesting = [t \in Threads |-> 0]
    /\ mutex = [p \in Processes |-> Free]
    /\ flock = Free
-----------------------------------------------------------------------------
\* The table that makes the lock reentrant is local to the thread.  Mutant:
\* local to the process.
AlreadyHeldInProcess(t) ==
    \E u \in Threads : ProcOf[u] = ProcOf[t] /\ held[u]

AlreadyHeld(t) == held[t]

\* The caller enters a with-block for the first time: it must wait.
Want(t) ==
    /\ pc[t] = "out"
    /\ ~AlreadyHeld(t)
    /\ pc' = [pc EXCEPT ![t] = "mutex"]
    /\ UNCHANGED <<held, nesting, mutex, flock>>

\* A with-block that finds the path in the table runs its body at once.
EnterHeld(t) ==
    /\ pc[t] \in {"out", "in"}
    /\ AlreadyHeld(t)
    /\ nesting[t] < MaxNesting
    /\ pc' = [pc EXCEPT ![t] = "in"]
    /\ nesting' = [nesting EXCEPT ![t] = @ + 1]
    /\ UNCHANGED <<held, mutex, flock>>

TakeMutex(t) ==
    /\ pc[t] = "mutex"
    /\ mutex[ProcOf[t]] = Free
    /\ mutex' = [mutex EXCEPT ![ProcOf[t]] = t]
    /\ pc' = [pc EXCEPT ![t] = "flock"]
    /\ UNCHANGED <<held, nesting, flock>>

\* mutex.acquire(timeout) gives up; nothing was taken.
MutexTimeout(t) ==
    /\ pc[t] = "mutex"
    /\ mutex[ProcOf[t]] # Free
    /\ pc' = [pc EXCEPT ![t] = "out"]
    /\ UNCHANGED <<held, nesting, mutex, flock>>

\* Mutant: a shared instead of an exclusive lock on the file.
TakeFlockShared(t) ==
    /\ pc[t] = "flock"
    /\ flock' = t
    /\ held' = [held EXCEPT ![t] = TRUE]
    /\ nesting' = [nesting EXCEPT ![t] = 1]
    /\ pc' = [pc EXCEPT ![t] = "in"]
    /\ UNCHANGED mutex

TakeFlock(t) ==
    /\ pc[t] = "flock"
    /\ flock = Free
    /\ flock' = t
    /\ held' = [held EXCEPT ![t] = TRUE]
    /\ nesting' = [nesting EXCEPT ![t] = 1]
    /\ pc' = [pc EXCEPT ![t] = "in"]
    /\ UNCHANGED mutex

\* The polling loop sees the file locked past the deadline: the finally
\* clause closes the descriptor and still has to release the mutex.  Mutants:
\* the mutex is forgotten; the loop has no deadline.
FlockTimeoutLeaks(t) ==
    /\ pc[t] = "flock"
    /\ flock # Free
    /\ pc' = [pc EXCEPT ![t] = "out"]
    /\ UNCHANGED <<held, nesting, mutex, flock>>

FlockWaitsForever(t) == FALSE

FlockTimeout(t) ==
    /\ pc[t] = "flock"
    /\ flock # Free
    /\ pc' = [pc EXCEPT ![t] = "unmutex"]
    /\ UNCHANGED <<held, nesting, mutex, flock>>

\* The sidecar cannot be created, is not a regular file, or cannot be locked
\* for another reason: the same finally clause runs.
SidecarFails(t) ==
    /\ pc[t] = "flock"
    /\ pc' = [pc EXCEPT ![t] = "unmutex"]
    /\ UNCHANGED <<held, nesting, mutex, flock>>

\* An inner with-block ends: it only resumes the outer one.
LeaveInner(t) ==
    /\ pc[t] = "in"
    /\ nesting[t] > 1
    /\ nesting' = [nesting EXCEPT ![t] = @ - 1]
    /\ UNCHANGED <<pc, held, mutex, flock>>

\* The outermost block ends, normally or by an exception.
LeaveOutermost(t) ==
    /\ pc[t] = "in"
    /\ nesting[t] = 1
    /\ nesting' = [nesting EXCEPT ![t] = 0]
    /\ held' = [held EXCEPT ![t] = FALSE]
    /\ pc' = [pc EXCEPT ![t] = "unflock"]
    /\ UNCHANGED <<mutex, flock>>

ReleaseFlock(t) ==
    /\ pc[t] = "unflock"
    /\ flock' = Free
    /\ pc' = [pc EXCEPT ![t] = "unmutex"]
    /\ UNCHANGED <<held, nesting, mutex>>

ReleaseMutex(t) ==
    /\ pc[t] = "unmutex"
    /\ mutex' = [mutex EXCEPT ![ProcOf[t]] = Free]
    /\ pc' = [pc EXCEPT ![t] = "out"]
    /\ UNCHANGED <<held, nesting, flock>>

\* A process dies: its memory is gone and the kernel closes its descriptors.
Crash(p) ==
    LET dead == {t \in Threads : ProcOf[t] = p} IN
    /\ pc' = [t \in Threads |-> IF t \in dead THEN "out" ELSE pc[t]]
    /\ held' = [t \in Threads |-> IF t \in dead THEN FALSE ELSE held[t]]
    /\ nesting' = [t \in Threads |-> IF t \in dead THEN 0 ELSE nesting[t]]
    /\ mutex' = [mutex EXCEPT ![p] = Free]
    /\ flock' = IF flock \in dead THEN Free ELSE flock

Acquire(t) ==
    \/ TakeMutex(t) \/ MutexTimeout(t)
    \/ TakeFlock(t) \/ FlockTimeout(t) \/ SidecarFails(t)

Release(t) == ReleaseFlock(t) \/ ReleaseMutex(t)

Next ==
    \/ \E t \in Threads :
          Want(t) \/ EnterHeld(t) \/ Acquire(t)
          \/ LeaveInner(t) \/ LeaveOutermost(t) \/ Release(t)
    \/ \E p \in Processes : Crash(p)

Spec == Init /\ [][Next]_vars

\* A thread inside store_lock keeps running and its deadline passes; a caller
\* inside the with-block may stay there for ever.
Fairness == \A t \in Threads :
    /\ WF_vars(TakeMutex(t) \/ MutexTimeout(t))
    /\ WF_vars(TakeFlock(t) \/ FlockTimeout(t))
    /\ WF_vars(Release(t))

FairSpec == Spec /\ Fairness
-----------------------------------------------------------------------------
TypeOK ==
    /\ pc \in [Threads -> {"out", "mutex", "flock", "in", "unflock", "unmutex"}]
    /\ held \in [Threads -> BOOLEAN]
    /\ nesting \in [Threads -> Nat]
    /\ mutex \in [Processes -> Threads \cup {Free}]
    /\ flock \in Threads \cup {Free}

\* Two threads, of one process or of two, are never inside the same store's
\* lock together (store_lock's "Serialize threads and processes").
MutualExclusion == \A t, u \in Threads :
    pc[t] = "in" /\ pc[u] = "in" => t = u

\* No way out of store_lock - a timeout of either wait, a sidecar that cannot
\* be opened, an inner block, a death of the process - leaves the mutex or the
\* file locked by a thread that will not release it, and the reentrancy table
\* never says more than the file lock does.
NoLeakedLock ==
    /\ flock # Free => pc[flock] \in {"in", "unflock"}
    /\ \A p \in Processes : mutex[p] # Free =>
          /\ ProcOf[mutex[p]] = p
          /\ pc[mutex[p]] \in {"flock", "in", "unflock", "unmutex"}
    /\ \A t \in Threads : held[t] <=> pc[t] = "in"

\* A caller that wants the lock gets it or gets StoreLockTimeout, even when
\* the present owner never leaves its block.
BoundedWait == \A t \in Threads :
    pc[t] \in {"mutex", "flock"} ~> pc[t] \in {"in", "out"}
-----------------------------------------------------------------------------
\* The owner a caller can observe: the thread running a with-block body.
observedOwner == IF flock # Free /\ pc[flock] = "in" THEN flock ELSE Free
observedNesting == IF observedOwner = Free THEN 0 ELSE nesting[flock]

Abstract == INSTANCE WriterLock WITH owner <- observedOwner,
                                     nesting <- observedNesting

\* The mutex, the sidecar and the thread-local table together behave as one
\* reentrant lock that survives the death of its owner's process.
ImplementsWriterLock == Abstract!Spec
=============================================================================
