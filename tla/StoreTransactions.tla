-------------------------- MODULE StoreTransactions -------------------------
(***************************************************************************)
(* MemoryPyramidDistiller's persistence layer over napmem_storage: objects *)
(* that hold the whole document in memory, a transaction() that encloses   *)
(* read, change and commit in the store lock, and a save() that compares   *)
(* the file with the fingerprint the object last saw before replacing it.  *)
(*                                                                         *)
(* A document is abstracted to its generation and the set of edits it      *)
(* reflects; its fingerprint is the document itself (the bytes carry the   *)
(* generation, so two commits never share a digest).  The store lock is    *)
(* the one that StoreLock implements, reduced to its owner.  A thread may  *)
(* own several objects over one file and nest their transactions.          *)
(***************************************************************************)
EXTENDS Naturals

CONSTANTS Threads,    \* the threads that use the store, each in its process
          Objects,    \* MemoryPyramidDistiller instances
          ThreadOf,   \* the thread that uses each object
          Edits,      \* the changes that callers make in memory
          Free,       \* the owner of the unowned store lock
          MaxGen      \* bound on the generations committed

ASSUME TransactionConstants ==
    /\ ThreadOf \in [Objects -> Threads]
    /\ Free \notin Threads
    /\ MaxGen \in Nat

VARIABLES
    store,        \* the file: its generation and the edits it reflects
    lock,         \* the thread that owns the store lock, or Free
    data,         \* self.data of each object
    persisted,    \* self._persisted_data
    seen,         \* self._seen_fingerprint
    seenGen,      \* self._seen_generation
    within,       \* {} outside transaction(), else the objects of the thread
                  \* in one, from the outermost to this object itself
    previous,     \* the copy transaction() restores when its body raises
    original,     \* the fingerprint transaction() started from
    phase         \* how far a save() of the object has come

\* Bookkeeping for the properties, read by no action.
VARIABLES issued,     \* edits made so far
          acked,      \* edits covered by a save() that returned
          discarded   \* edits undone by an exception or lost with a process

code == <<store, lock, data, persisted, seen, seenGen,
          within, previous, original, phase>>
history == <<issued, acked, discarded>>
vars == <<code, history>>

Document == [gen : Nat, edits : SUBSET Edits]
Empty == [gen |-> 0, edits |-> {}]
AtGen(doc, g) == [gen |-> g, edits |-> doc.edits]
WithEdit(doc, e) == [gen |-> doc.gen, edits |-> doc.edits \cup {e}]

Init ==
    /\ store = Empty
    /\ lock = Free
    /\ data = [d \in Objects |-> Empty]
    /\ persisted = [d \in Objects |-> Empty]
    /\ seen = [d \in Objects |-> Empty]
    /\ seenGen = [d \in Objects |-> 0]
    /\ within = [d \in Objects |-> {}]
    /\ previous = [d \in Objects |-> Empty]
    /\ original = [d \in Objects |-> Empty]
    /\ phase = [d \in Objects |-> "idle"]
    /\ issued = {} /\ acked = {} /\ discarded = {}
-----------------------------------------------------------------------------
Open(d) == within[d] # {}

Mine(d) == {o \in Objects : ThreadOf[o] = ThreadOf[d]}

\* The thread is between two operations: none of its objects is mid-save.
Ready(d) == \A o \in Mine(d) : phase[o] = "idle"

\* store_lock lets the thread in: at once if it is inside already.  Mutant:
\* nobody waits.
EnterUnlocked(t) == TRUE

MayEnter(t) == lock \in {Free, t}

\* Leaving a block gives the lock back unless the thread is in an outer one.
\* Mutant: leaving any block does.
UnlockedByInner(d) == Free

LockAfter(d) ==
    IF \E o \in Mine(d) \ {d} : Open(o) THEN lock ELSE Free

\* transaction() blocks nest: only the innermost of a thread can end.
Innermost(d) ==
    Open(d) /\ \A o \in Mine(d) : within[o] \subseteq within[d]

Enclosing(d) == {d} \cup {o \in Mine(d) : Open(o)}

Dirty(d) == data[d] # persisted[d]

\* refresh() refuses to reload over uncommitted changes (StoreConflict).
\* Mutant: it does not.
RefreshAnyway(d) == TRUE

RefreshAllowed(d) == store # seen[d] => ~Dirty(d)

\* refresh() of an object: reload it when another commit is on disk.
Refreshed(d) == IF store # seen[d] THEN store ELSE data[d]

Reload(d) ==
    IF store # seen[d]
    THEN /\ data' = [data EXCEPT ![d] = store]
         /\ persisted' = [persisted EXCEPT ![d] = store]
         /\ seen' = [seen EXCEPT ![d] = store]
         /\ seenGen' = [seenGen EXCEPT ![d] = store.gen]
    ELSE UNCHANGED <<data, persisted, seen, seenGen>>

\* refresh() called by a reader, without the lock.
Refresh(d) ==
    /\ Ready(d)
    /\ store # seen[d]
    /\ RefreshAllowed(d)
    /\ Reload(d)
    /\ UNCHANGED <<store, lock, within, previous, original, phase, history>>

\* transaction() is entered: lock, refresh, remember what to restore.  A
\* transaction of an object that is in one already only runs its body.
Begin(d) ==
    /\ Ready(d)
    /\ ~Open(d)
    /\ MayEnter(ThreadOf[d])
    /\ RefreshAllowed(d)
    /\ lock' = ThreadOf[d]
    /\ Reload(d)
    /\ previous' = [previous EXCEPT ![d] = Refreshed(d)]
    /\ original' = [original EXCEPT ![d] = store]
    /\ within' = [within EXCEPT ![d] = Enclosing(d)]
    /\ UNCHANGED <<store, phase, history>>

\* The caller changes the document in memory, inside a transaction or not.
Edit(d, e) ==
    /\ Ready(d)
    /\ e \notin issued
    /\ issued' = issued \cup {e}
    /\ data' = [data EXCEPT ![d] = WithEdit(@, e)]
    /\ UNCHANGED <<store, lock, persisted, seen, seenGen, within, previous,
                   original, phase, acked, discarded>>

\* The body returns: what it did not save stays in memory.
End(d) ==
    /\ Ready(d)
    /\ Innermost(d)
    /\ within' = [within EXCEPT ![d] = {}]
    /\ lock' = LockAfter(d)
    /\ UNCHANGED <<store, data, persisted, seen, seenGen, previous, original,
                   phase, history>>

\* What the object holds after its transaction raised: the copy taken at the
\* start, or the last commit if the body has committed since.  Mutants: always
\* the copy; nothing is restored.
RolledBackToStart(d) == previous[d]
NotRolledBack(d) == data[d]

RolledBack(d) ==
    IF seen[d] = original[d] THEN previous[d] ELSE persisted[d]

\* The body raises, or a save() in it does and the body does not catch it.
Raise(d) ==
    /\ Ready(d)
    /\ Innermost(d)
    /\ data' = [data EXCEPT ![d] = RolledBack(d)]
    /\ within' = [within EXCEPT ![d] = {}]
    /\ lock' = LockAfter(d)
    /\ discarded' = discarded \cup
          (data[d].edits \ (previous[d].edits \cup store.edits))
    /\ UNCHANGED <<store, persisted, seen, seenGen, previous, original, phase,
                   issued, acked>>
-----------------------------------------------------------------------------
\* save() takes the lock (inside a transaction it has it already) and checks
\* the generation in memory and the fingerprint on disk.  When a check fails
\* it raises StoreConflict and nothing has changed.
SaveAllowed(d) == data[d].gen = seenGen[d] /\ store = seen[d]

SaveBegin(d) ==
    /\ Ready(d)
    /\ MayEnter(ThreadOf[d])
    /\ SaveAllowed(d)
    /\ store.gen < MaxGen
    /\ lock' = ThreadOf[d]
    /\ data' = [data EXCEPT ![d] = AtGen(@, @.gen + 1)]
    /\ phase' = [phase EXCEPT ![d] = "checked"]
    /\ UNCHANGED <<store, persisted, seen, seenGen, within, previous, original,
                   history>>

\* atomic_write compares the fingerprint once more and writes a temporary.
WriteTemporary(d) ==
    /\ phase[d] = "checked"
    /\ store = seen[d]
    /\ phase' = [phase EXCEPT ![d] = "written"]
    /\ UNCHANGED <<store, lock, data, persisted, seen, seenGen, within,
                   previous, original, history>>

\* os.replace makes the commit visible; a failure to sync the directory
\* afterwards is logged and changes nothing.
Replace(d) ==
    /\ phase[d] = "written"
    /\ store' = data[d]
    /\ phase' = [phase EXCEPT ![d] = "replaced"]
    /\ UNCHANGED <<lock, data, persisted, seen, seenGen, within, previous,
                   original, history>>

SaveLockAfter(d) == IF Open(d) THEN lock ELSE LockAfter(d)

\* atomic_write raises before os.replace: the comparison failed, the disk is
\* full, the file cannot be written.  save() puts the generation back.
WriteFails(d) ==
    /\ phase[d] \in {"checked", "written"}
    /\ data' = [data EXCEPT ![d] = AtGen(@, @.gen - 1)]
    /\ phase' = [phase EXCEPT ![d] = "idle"]
    /\ lock' = SaveLockAfter(d)
    /\ UNCHANGED <<store, persisted, seen, seenGen, within, previous, original,
                   history>>

\* save() records the digest of the bytes it wrote and returns.
SaveEnd(d) ==
    /\ phase[d] = "replaced"
    /\ seen' = [seen EXCEPT ![d] = data[d]]
    /\ seenGen' = [seenGen EXCEPT ![d] = data[d].gen]
    /\ persisted' = [persisted EXCEPT ![d] = data[d]]
    /\ phase' = [phase EXCEPT ![d] = "idle"]
    /\ lock' = SaveLockAfter(d)
    /\ acked' = acked \cup data[d].edits
    /\ UNCHANGED <<store, data, within, previous, original, issued, discarded>>
-----------------------------------------------------------------------------
\* The process dies and is started again: its objects load the file anew.
Crash(t) ==
    LET dead == {d \in Objects : ThreadOf[d] = t}
        Anew(f, v) == [d \in Objects |-> IF d \in dead THEN v ELSE f[d]]
    IN
    /\ lock' = IF lock = t THEN Free ELSE lock
    /\ data' = Anew(data, store)
    /\ persisted' = Anew(persisted, store)
    /\ seen' = Anew(seen, store)
    /\ seenGen' = Anew(seenGen, store.gen)
    /\ within' = Anew(within, {})
    /\ phase' = Anew(phase, "idle")
    /\ discarded' = discarded \cup
          ((UNION {data[d].edits : d \in dead}) \ store.edits)
    /\ UNCHANGED <<store, previous, original, issued, acked>>

Step(d) ==
    \/ Refresh(d) \/ Begin(d) \/ End(d) \/ Raise(d)
    \/ SaveBegin(d) \/ WriteTemporary(d) \/ Replace(d)
    \/ WriteFails(d) \/ SaveEnd(d)
    \/ \E e \in Edits : Edit(d, e)

Next == (\E d \in Objects : Step(d)) \/ (\E t \in Threads : Crash(t))

Spec == Init /\ [][Next]_vars
-----------------------------------------------------------------------------
\* The open transactions of a thread form a chain, in which ending one never
\* leaves another enclosed in it.
Nesting == \A d \in Objects :
    /\ Open(d) => d \in within[d]
    /\ \A o \in within[d] : o \in Mine(d) /\ Open(o)
    /\ \A o \in Mine(d) : d \in within[o] /\ o \in within[d] => o = d

\* Every variable has its shape, and transactions nest.
TypeOK ==
    /\ store \in Document
    /\ lock \in Threads \cup {Free}
    /\ data \in [Objects -> Document]
    /\ persisted \in [Objects -> Document]
    /\ seen \in [Objects -> Document]
    /\ seenGen \in [Objects -> Nat]
    /\ within \in [Objects -> SUBSET Objects]
    /\ previous \in [Objects -> Document]
    /\ original \in [Objects -> Document]
    /\ phase \in [Objects -> {"idle", "checked", "written", "replaced"}]
    /\ issued \subseteq Edits
    /\ acked \subseteq Edits
    /\ discarded \subseteq Edits
    /\ Nesting

\* An edit whose save() returned is in every later version of the file, no
\* matter which objects of which threads write it next ("A stale direct save
\* fails with StoreConflict").
NoLostUpdate == acked \subseteq store.edits

\* An edit is in the file, or in the memory of some object, or its loss was
\* announced by an exception or a crash: refresh() never drops uncommitted
\* changes silently.
EveryEditAccounted == \A e \in issued :
    \/ e \in store.edits
    \/ e \in discarded
    \/ \E d \in Objects : e \in data[d].edits

\* What a raising transaction undid is never committed afterwards, by this
\* object or another, even when the body had committed something before.
FailedLeavesNoTrace == discarded \cap store.edits = {}

\* No history of conflicts, failed writes and rollbacks leaves an object that
\* can never save again: while no other commit intervened, an object between
\* operations passes both checks of save().
NeverWedged == \A d \in Objects :
    phase[d] = "idle" /\ seen[d] = store => SaveAllowed(d)

Abstract == INSTANCE AtomicStore

\* Transactions, direct saves, failures and crashes together only ever extend
\* the document by whole commits, one generation each.
ImplementsAtomicStore == Abstract!Spec
-----------------------------------------------------------------------------
\* The strengthening that makes the properties above inductive: first what
\* holds of one object, then of the system.

\* An object in a transaction or a save: its thread owns the lock.
LockHeld(d) == Open(d) \/ phase[d] # "idle" => lock = ThreadOf[d]

\* The three records of the last commit an object saw agree, and are part of
\* what is on disk.
LastSeen(d) ==
    /\ persisted[d] = seen[d]
    /\ seenGen[d] = seen[d].gen
    /\ seen[d] # store => seen[d].gen < store.gen
    /\ seen[d].edits \subseteq store.edits

\* Memory extends what was last seen, with the generation save() relies on.
Memory(d) ==
    /\ seen[d].edits \subseteq data[d].edits
    /\ phase[d] = "idle" => data[d].gen = seen[d].gen
    /\ phase[d] # "idle" => data[d].gen = seen[d].gen + 1

\* The file stands still under a save until os.replace.
SaveInProgress(d) ==
    /\ phase[d] \in {"checked", "written"} => store = seen[d]
    /\ phase[d] = "replaced" => store = data[d]

\* The copy that a raising transaction restores fits what it started from.
Savepoint(d) == Open(d) =>
    /\ previous[d].edits \subseteq data[d].edits
    /\ original[d] = seen[d] =>
          /\ previous[d].gen = seen[d].gen
          /\ seen[d].edits \subseteq previous[d].edits
    /\ original[d] # seen[d] =>
          /\ original[d].gen < seen[d].gen
          /\ previous[d].edits \subseteq seen[d].edits

\* A thread is in at most one save.
OneSave == \A d, o \in Objects :
    ThreadOf[d] = ThreadOf[o] /\ phase[d] # "idle" /\ phase[o] # "idle" => o = d

\* Nothing is in the file or in memory that no caller made, and no lost edit
\* survives anywhere.
OnlyIssued ==
    /\ store.edits \subseteq issued
    /\ discarded \subseteq issued
    /\ \A d \in Objects : data[d].edits \subseteq issued \ discarded

\* An edit that is not in the file yet is in the memory of one object only.
Private == \A d, o \in Objects : d # o =>
    data[d].edits \cap data[o].edits \subseteq store.edits

\* The inductive invariant of the persistence layer.
IInv ==
    /\ TypeOK
    /\ \A d \in Objects :
          LockHeld(d) /\ LastSeen(d) /\ Memory(d) /\ SaveInProgress(d)
          /\ Savepoint(d)
    /\ OneSave
    /\ OnlyIssued
    /\ Private
    /\ NoLostUpdate
    /\ EveryEditAccounted
    /\ FailedLeavesNoTrace
=============================================================================
