-------------------------- MODULE StoreLock_proofs --------------------------
(***************************************************************************)
(* Proofs about StoreLock for any number of threads and processes.         *)
(***************************************************************************)
EXTENDS StoreLock, TLAPS

\* The properties together, with what makes them inductive: a thread past the
\* file lock owns it, and a thread past the mutex owns its process's mutex.
LockInv ==
    /\ TypeOK
    /\ NoLeakedLock
    /\ \A t \in Threads :
          /\ pc[t] \in {"in", "unflock"} <=> flock = t
          /\ pc[t] \in {"flock", "in", "unflock", "unmutex"}
                <=> mutex[ProcOf[t]] = t
          /\ nesting[t] > 0 <=> pc[t] = "in"

\* Initially nobody waits for or holds anything.
LEMMA LockInvInit == Init => LockInv
  BY LockConstants
  DEF Init, LockInv, TypeOK, NoLeakedLock

\* Every step of store_lock, and a crash, keeps the locks and the program
\* counters in agreement.
LEMMA LockInvStep == LockInv /\ [Next]_vars => LockInv'
<1> SUFFICES ASSUME LockInv, [Next]_vars PROVE LockInv'
  OBVIOUS
<1> USE LockConstants DEF LockInv, TypeOK, NoLeakedLock
<1>1. ASSUME NEW t \in Threads, Want(t) PROVE LockInv'
  BY <1>1 DEF Want, AlreadyHeld
<1>2. ASSUME NEW t \in Threads, EnterHeld(t) PROVE LockInv'
  BY <1>2 DEF EnterHeld, AlreadyHeld
<1>3. ASSUME NEW t \in Threads, TakeMutex(t) PROVE LockInv'
  BY <1>3 DEF TakeMutex
<1>4. ASSUME NEW t \in Threads, MutexTimeout(t) PROVE LockInv'
  BY <1>4 DEF MutexTimeout
<1>5. ASSUME NEW t \in Threads, TakeFlock(t) PROVE LockInv'
  BY <1>5 DEF TakeFlock
<1>6. ASSUME NEW t \in Threads, FlockTimeout(t) PROVE LockInv'
  BY <1>6 DEF FlockTimeout
<1>7. ASSUME NEW t \in Threads, SidecarFails(t) PROVE LockInv'
  BY <1>7 DEF SidecarFails
<1>8. ASSUME NEW t \in Threads, LeaveInner(t) PROVE LockInv'
  BY <1>8 DEF LeaveInner
<1>9. ASSUME NEW t \in Threads, LeaveOutermost(t) PROVE LockInv'
  BY <1>9 DEF LeaveOutermost
<1>10. ASSUME NEW t \in Threads, ReleaseFlock(t) PROVE LockInv'
  BY <1>10 DEF ReleaseFlock
<1>11. ASSUME NEW t \in Threads, ReleaseMutex(t) PROVE LockInv'
  BY <1>11 DEF ReleaseMutex
<1>12. ASSUME NEW p \in Processes, Crash(p) PROVE LockInv'
  <2>1. TypeOK'
    BY <1>12 DEF Crash
  <2>2. \A t \in Threads :
          IF ProcOf[t] = p
          THEN pc'[t] = "out" /\ held'[t] = FALSE /\ nesting'[t] = 0
          ELSE pc'[t] = pc[t] /\ held'[t] = held[t] /\ nesting'[t] = nesting[t]
    BY <1>12 DEF Crash
  <2>3. /\ mutex' = [mutex EXCEPT ![p] = Free]
        /\ flock \in Threads /\ ProcOf[flock] = p => flock' = Free
        /\ ~(flock \in Threads /\ ProcOf[flock] = p) => flock' = flock
    BY <1>12 DEF Crash
  <2>4. NoLeakedLock'
    BY <2>2, <2>3
  <2>5. \A t \in Threads :
          /\ pc'[t] \in {"in", "unflock"} <=> flock' = t
          /\ pc'[t] \in {"flock", "in", "unflock", "unmutex"}
                <=> mutex'[ProcOf[t]] = t
          /\ nesting'[t] > 0 <=> pc'[t] = "in"
    BY <2>2, <2>3
  <2> QED
    BY <2>1, <2>4, <2>5
<1>13. CASE UNCHANGED vars
  BY <1>13 DEF vars
<1> QED
  BY <1>1, <1>2, <1>3, <1>4, <1>5, <1>6, <1>7, <1>8, <1>9, <1>10, <1>11,
     <1>12, <1>13 DEF Next, Acquire, Release

\* The invariant holds throughout every behaviour.
THEOREM LockInvariant == Spec => []LockInv
  BY LockInvInit, LockInvStep, PTL DEF Spec

\* Two threads are never inside the lock of one store together, for any
\* number of threads spread over any number of processes.
THEOREM LockMutualExclusion == Spec => []MutualExclusion
<1>1. LockInv => MutualExclusion
  BY LockConstants DEF LockInv, TypeOK, MutualExclusion
<1> QED
  BY <1>1, LockInvariant, PTL

\* No exit path of store_lock, and no crash, leaves a mutex or the file lock
\* with a thread that will not release it.
THEOREM LockNeverLeaks == Spec => []NoLeakedLock
<1>1. LockInv => NoLeakedLock
  BY DEF LockInv
<1> QED
  BY <1>1, LockInvariant, PTL
-----------------------------------------------------------------------------
\* The observed owner of a lock is the thread inside a with-block.
LEMMA ObservedOwner ==
  ASSUME LockInv
  PROVE  /\ \A t \in Threads : observedOwner = t <=> pc[t] = "in"
         /\ observedOwner \in Threads \cup {Free}
         /\ \A t \in Threads :
               pc[t] = "in" => observedNesting = nesting[t]
         /\ observedOwner = Free => observedNesting = 0
  BY LockConstants
  DEF LockInv, TypeOK, NoLeakedLock, observedOwner, observedNesting

\* Every step of the two-level lock is a step of the abstract lock, or leaves
\* its owner and its nesting alone.
LEMMA LockRefinesStep ==
  LockInv /\ LockInv' /\ [Next]_vars => [Abstract!Next]_Abstract!vars
<1> SUFFICES ASSUME LockInv, LockInv', [Next]_vars
             PROVE  [Abstract!Next]_Abstract!vars
  OBVIOUS
<1>a. /\ \A t \in Threads : observedOwner' = t <=> pc'[t] = "in"
      /\ observedOwner' \in Threads \cup {Free}
      /\ \A t \in Threads : pc'[t] = "in" => observedNesting' = nesting'[t]
      /\ observedOwner' = Free => observedNesting' = 0
  BY LockConstants
  DEF LockInv, TypeOK, NoLeakedLock, observedOwner, observedNesting
<1>b. /\ \A t \in Threads : observedOwner = t <=> pc[t] = "in"
      /\ observedOwner \in Threads \cup {Free}
      /\ \A t \in Threads : pc[t] = "in" => observedNesting = nesting[t]
      /\ observedOwner = Free => observedNesting = 0
  BY ObservedOwner
<1> DEFINE Same == observedOwner' = observedOwner
                   /\ observedNesting' = observedNesting
<1>c. Same => [Abstract!Next]_Abstract!vars
  BY DEF Abstract!vars
<1>d. /\ pc \in [Threads -> {"out", "mutex", "flock", "in", "unflock", "unmutex"}]
      /\ nesting \in [Threads -> Nat]
      /\ Free \notin Threads
  BY LockConstants DEF LockInv, TypeOK
<1>1. ASSUME NEW t \in Threads, Want(t) PROVE Same
  BY <1>1, <1>a, <1>b, <1>d DEF Want
<1>2. ASSUME NEW t \in Threads, EnterHeld(t) PROVE Abstract!Reenter(t)
  <2>1. pc[t] = "in" /\ pc'[t] = "in" /\ nesting'[t] = nesting[t] + 1
    BY <1>2, <1>d DEF EnterHeld, AlreadyHeld, LockInv, NoLeakedLock, TypeOK
  <2> QED
    BY <2>1, <1>a, <1>b DEF Abstract!Reenter
<1>3. ASSUME NEW t \in Threads, TakeMutex(t) PROVE Same
  BY <1>3, <1>a, <1>b, <1>d DEF TakeMutex
<1>4. ASSUME NEW t \in Threads, MutexTimeout(t) PROVE Same
  BY <1>4, <1>a, <1>b, <1>d DEF MutexTimeout
<1>5. ASSUME NEW t \in Threads, TakeFlock(t) PROVE Abstract!Grab(t)
  <2>1. pc'[t] = "in" /\ nesting'[t] = 1 /\ observedOwner = Free
    BY <1>5, <1>d DEF TakeFlock, observedOwner
  <2> QED
    BY <2>1, <1>a, <1>b DEF Abstract!Grab
<1>6. ASSUME NEW t \in Threads, FlockTimeout(t) PROVE Same
  BY <1>6, <1>a, <1>b, <1>d DEF FlockTimeout
<1>7. ASSUME NEW t \in Threads, SidecarFails(t) PROVE Same
  BY <1>7, <1>a, <1>b, <1>d DEF SidecarFails
<1>8. ASSUME NEW t \in Threads, LeaveInner(t) PROVE Abstract!LeaveInner(t)
  <2>1. /\ pc[t] = "in" /\ pc'[t] = "in"
        /\ nesting[t] > 1 /\ nesting'[t] = nesting[t] - 1
    BY <1>8, <1>d DEF LeaveInner
  <2> QED
    BY <2>1, <1>a, <1>b DEF Abstract!LeaveInner
<1>9. ASSUME NEW t \in Threads, LeaveOutermost(t)
      PROVE Abstract!LeaveOutermost(t)
  <2>1. /\ pc[t] = "in" /\ nesting[t] = 1
        /\ \A u \in Threads : pc'[u] # "in"
    BY <1>9, <1>d DEF LeaveOutermost, LockInv, TypeOK, NoLeakedLock
  <2>2. observedOwner' = Free
    BY <2>1, <1>a
  <2> QED
    BY <2>1, <2>2, <1>a, <1>b DEF Abstract!LeaveOutermost
<1>10. ASSUME NEW t \in Threads, Release(t) PROVE Same
  BY <1>10, <1>a, <1>b, <1>d DEF Release, ReleaseFlock, ReleaseMutex
<1>11. ASSUME NEW p \in Processes, Crash(p)
       PROVE [Abstract!Next]_Abstract!vars
  <2>1. CASE \E t \in Threads : pc[t] = "in" /\ ProcOf[t] = p
    <3>1. PICK t \in Threads : pc[t] = "in" /\ ProcOf[t] = p
      BY <2>1
    <3>2. \A u \in Threads : pc'[u] # "in"
      BY <3>1, <1>11, <1>d DEF Crash, LockInv, TypeOK, NoLeakedLock
    <3>3. Abstract!OwnerDies(t)
      BY <3>1, <3>2, <1>a, <1>b DEF Abstract!OwnerDies
    <3> QED
      BY <3>3 DEF Abstract!Next
  <2>2. CASE \A t \in Threads : pc[t] = "in" => ProcOf[t] # p
    <3>1. \A t \in Threads :
            (pc'[t] = "in" <=> pc[t] = "in")
            /\ (pc[t] = "in" => nesting'[t] = nesting[t])
      BY <2>2, <1>11, <1>d DEF Crash
    <3>2. Same
      BY <3>1, <1>a, <1>b
    <3> QED
      BY <3>2, <1>c
  <2> QED
    BY <2>1, <2>2
<1>12. CASE UNCHANGED vars
  <2>1. Same
    BY <1>12, <1>a, <1>b DEF vars
  <2> QED
    BY <2>1, <1>c
<1> HIDE DEF Same
<1> QED
  BY <1>1, <1>2, <1>3, <1>4, <1>5, <1>6, <1>7, <1>8, <1>9, <1>10, <1>11,
     <1>12, <1>c DEF Next, Acquire, Abstract!Next

\* Mutex, sidecar and thread-local table implement one reentrant lock that
\* is given back when its owner's process dies.
THEOREM LockRefinement == Spec => ImplementsWriterLock
<1>1. Init => Abstract!Init
  BY DEF Init, Abstract!Init, observedOwner, observedNesting
<1> QED
  BY <1>1, LockRefinesStep, LockInvariant, PTL
  DEF Spec, ImplementsWriterLock, Abstract!Spec
=============================================================================
