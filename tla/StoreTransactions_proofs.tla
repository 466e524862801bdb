---------------------- MODULE StoreTransactions_proofs ----------------------
(***************************************************************************)
(* Proofs about StoreTransactions, for any number of threads, objects and  *)
(* edits: IInv is inductive, it implies the safety properties, and every   *)
(* step is a step of AtomicStore or leaves the file alone.                 *)
(*                                                                         *)
(* There is one lemma per action, with one step per conjunct of IInv.  The *)
(* conjuncts that speak of one object are shown for an arbitrary object o; *)
(* most of the work is in Savepoint (an object may have saved inside the   *)
(* transaction that now fails) and in Private (edits that only one object  *)
(* has are the ones a rollback or a crash may lose).                       *)
(***************************************************************************)
EXTENDS StoreTransactions, TLAPS

\* A reader that reloads another commit keeps the invariant: it had no
\* uncommitted changes, so what it forgets is on disk.
LEMMA RefreshStep ==
  ASSUME IInv, NEW d \in Objects, Refresh(d)
  PROVE  IInv'
<1>1. TypeOK'
  <2>1. Nesting'
    BY DEF IInv, TypeOK, Nesting, Open, Refresh
  <2>2. store.gen \in Nat
    BY DEF IInv, TypeOK, Document
  <2> QED
    BY <2>1, <2>2 DEF IInv, TypeOK, history, Refresh, Reload
<1>2. ASSUME NEW o \in Objects PROVE LockHeld(o)'
  BY DEF IInv, LockHeld, Refresh, Open
<1>3. ASSUME NEW o \in Objects PROVE LastSeen(o)'
  BY DEF IInv, TypeOK, LastSeen, Refresh, Reload
<1>4. ASSUME NEW o \in Objects PROVE Memory(o)'
  BY DEF IInv, TypeOK, Memory, Refresh, Reload, Ready, Mine
<1>5. ASSUME NEW o \in Objects PROVE SaveInProgress(o)'
  BY DEF IInv, SaveInProgress, Refresh, Ready, Mine, TypeOK, Reload
<1>6. ASSUME NEW o \in Objects PROVE Savepoint(o)'
  <2>1. CASE o = d /\ Open(d)
    <3>1. seen[d].gen < store.gen /\ seen[d].edits \subseteq store.edits
      BY DEF IInv, LastSeen, Refresh
    <3>2. data[d] = seen[d]
      BY DEF IInv, LastSeen, Refresh, RefreshAllowed, Dirty
    <3>3. original[d] = seen[d] \/ original[d].gen < seen[d].gen
      BY <2>1 DEF IInv, Savepoint
    <3>4. original[d].gen \in Nat /\ seen[d].gen \in Nat /\ store.gen \in Nat
      BY DEF IInv, TypeOK, Document
    <3>5. original[d] # store /\ original[d].gen < store.gen
      BY <3>1, <3>3, <3>4
    <3>6. previous[d].edits \subseteq store.edits
      BY <2>1, <3>1, <3>2 DEF IInv, Savepoint
    <3> QED
      BY <2>1, <3>5, <3>6 DEF IInv, TypeOK, Savepoint, Refresh, Reload
  <2>2. CASE o # d
    BY <2>2 DEF IInv, TypeOK, Savepoint, Refresh, Reload, Open
  <2>3. CASE ~Open(o)
    BY <2>3 DEF Savepoint, Refresh, Open
  <2> QED
    BY <2>1, <2>2, <2>3
<1>7. OneSave'
  BY DEF IInv, OneSave, Refresh
<1>8. OnlyIssued'
  <2>1. \A o \in Objects : data'[o].edits = data[o].edits
                           \/ data'[o].edits = store.edits
    BY DEF IInv, TypeOK, Refresh, Reload
  <2>2. discarded \cap store.edits = {}
    BY DEF IInv, FailedLeavesNoTrace
  <2> QED
    BY <2>1, <2>2 DEF IInv, OnlyIssued, Refresh, history
<1>9. Private'
  <2>1. \A o \in Objects : data'[o].edits = data[o].edits
                           \/ data'[o].edits = store.edits
    BY DEF IInv, TypeOK, Refresh, Reload
  <2> QED
    BY <2>1 DEF IInv, Private, Refresh
<1>10. NoLostUpdate'
  BY DEF IInv, NoLostUpdate, Refresh, history
<1>11. EveryEditAccounted'
  <2>1. \A o \in Objects : data[o].edits \subseteq data'[o].edits \cup store.edits
    BY DEF IInv, TypeOK, LastSeen, Refresh, Reload, RefreshAllowed, Dirty
  <2> QED
    BY <2>1 DEF IInv, EveryEditAccounted, history, Refresh
<1>12. FailedLeavesNoTrace'
  BY DEF IInv, FailedLeavesNoTrace, Refresh, history
<1> QED
  BY <1>1, <1>2, <1>3, <1>4, <1>5, <1>6, <1>7, <1>8, <1>9, <1>10, <1>11, <1>12
  DEF IInv

\* Entering transaction(): the thread gets the lock only when no object of
\* another thread is in a block, and the savepoint is taken after the refresh.
LEMMA BeginStep ==
  ASSUME IInv, NEW d \in Objects, Begin(d)
  PROVE  IInv'
<1>1. TypeOK'
  <2>1. Nesting'
    <3>1. within \in [Objects -> SUBSET Objects] /\ within[d] = {}
          /\ within' = [within EXCEPT ![d] = Enclosing(d)]
      BY DEF IInv, TypeOK, Begin, Open
    <3> QED
      BY <3>1 DEF IInv, TypeOK, Nesting, Open, Mine, Enclosing
  <2>2. store.gen \in Nat
    BY DEF IInv, TypeOK, Document
  <2>3. Refreshed(d) \in Document
    BY DEF IInv, TypeOK, Refreshed
  <2>4. Enclosing(d) \in SUBSET Objects
    BY DEF Enclosing, Mine
  <2>5. ThreadOf[d] \in Threads
    BY TransactionConstants
  <2> QED
    BY <2>1, <2>2, <2>3, <2>4, <2>5 DEF IInv, TypeOK, history, Begin, Reload
<1>2. ASSUME NEW o \in Objects PROVE LockHeld(o)'
  <2>1. CASE ThreadOf[o] = ThreadOf[d]
    BY <2>1 DEF LockHeld, Begin
  <2>2. CASE ThreadOf[o] # ThreadOf[d]
    <3>1. lock # ThreadOf[o]
      BY <2>2, TransactionConstants DEF Begin, MayEnter
    <3>2. ~Open(o) /\ phase[o] = "idle"
      BY <3>1 DEF IInv, LockHeld
    <3> QED
      BY <2>2, <3>2 DEF IInv, LockHeld, Open, Begin
  <2> QED
    BY <2>1, <2>2
<1>3. ASSUME NEW o \in Objects PROVE LastSeen(o)'
  BY DEF IInv, TypeOK, LastSeen, Begin, Reload
<1>4. ASSUME NEW o \in Objects PROVE Memory(o)'
  BY DEF IInv, TypeOK, Memory, Begin, Reload, Ready, Mine
<1>5. ASSUME NEW o \in Objects PROVE SaveInProgress(o)'
  BY DEF IInv, SaveInProgress, Begin, Ready, Mine, TypeOK, Reload
<1>6. ASSUME NEW o \in Objects PROVE Savepoint(o)'
  BY DEF IInv, TypeOK, Savepoint, Memory, Begin, Reload, Refreshed, Ready,
         Mine, Open
<1>7. OneSave'
  BY DEF IInv, OneSave, Begin
<1>8. OnlyIssued'
  <2>1. \A o \in Objects : data'[o].edits = data[o].edits
                           \/ data'[o].edits = store.edits
    BY DEF IInv, TypeOK, Begin, Reload
  <2>2. discarded \cap store.edits = {}
    BY DEF IInv, FailedLeavesNoTrace
  <2> QED
    BY <2>1, <2>2 DEF IInv, OnlyIssued, Begin, history
<1>9. Private'
  <2>1. \A o \in Objects : data'[o].edits = data[o].edits
                           \/ data'[o].edits = store.edits
    BY DEF IInv, TypeOK, Begin, Reload
  <2> QED
    BY <2>1 DEF IInv, Private, Begin
<1>10. NoLostUpdate'
  BY DEF IInv, NoLostUpdate, Begin, history
<1>11. EveryEditAccounted'
  <2>1. \A o \in Objects : data[o].edits \subseteq data'[o].edits \cup store.edits
    BY DEF IInv, TypeOK, LastSeen, Begin, Reload, RefreshAllowed, Dirty
  <2> QED
    BY <2>1 DEF IInv, EveryEditAccounted, history, Begin
<1>12. FailedLeavesNoTrace'
  BY DEF IInv, FailedLeavesNoTrace, Begin, history
<1> QED
  BY <1>1, <1>2, <1>3, <1>4, <1>5, <1>6, <1>7, <1>8, <1>9, <1>10, <1>11, <1>12
  DEF IInv

\* Leaving transaction() normally: only the innermost block ends, and the lock
\* goes with the last block of the thread.
LEMMA EndStep ==
  ASSUME IInv, NEW d \in Objects, End(d)
  PROVE  IInv'
<1>1. TypeOK'
  <2>1. Nesting'
    BY DEF Nesting, Open, Mine, IInv, TypeOK, End, Innermost
  <2> QED
    BY <2>1 DEF IInv, TypeOK, history, End, LockAfter
<1>2. ASSUME NEW o \in Objects PROVE LockHeld(o)'
  BY DEF IInv, TypeOK, LockHeld, End, Mine, Open, Ready, LockAfter, Innermost
<1>3. ASSUME NEW o \in Objects PROVE LastSeen(o)'
  BY DEF IInv, LastSeen, End
<1>4. ASSUME NEW o \in Objects PROVE Memory(o)'
  BY DEF IInv, Memory, End
<1>5. ASSUME NEW o \in Objects PROVE SaveInProgress(o)'
  BY DEF IInv, SaveInProgress, End
<1>6. ASSUME NEW o \in Objects PROVE Savepoint(o)'
  BY DEF IInv, Savepoint, End, Open
<1>7. OneSave'
  BY DEF IInv, OneSave, End
<1>8. OnlyIssued'
  BY DEF IInv, OnlyIssued, End, history
<1>9. Private'
  BY DEF IInv, Private, End
<1>10. NoLostUpdate'
  BY DEF IInv, NoLostUpdate, End, history
<1>11. EveryEditAccounted'
  BY DEF IInv, EveryEditAccounted, End, history
<1>12. FailedLeavesNoTrace'
  BY DEF IInv, FailedLeavesNoTrace, End, history
<1> QED
  BY <1>1, <1>2, <1>3, <1>4, <1>5, <1>6, <1>7, <1>8, <1>9, <1>10, <1>11, <1>12
  DEF IInv

\* A transaction that raises: what the object goes back to is what it had at
\* the start or what its body has committed, and nothing else loses an edit.
LEMMA RaiseStep ==
  ASSUME IInv, NEW d \in Objects, Raise(d)
  PROVE  IInv'
<1>1. TypeOK'
  <2>1. Nesting'
    BY DEF IInv, TypeOK, Nesting, Open, Mine, Raise, Innermost
  <2>2. RolledBack(d) \in Document
    BY DEF IInv, TypeOK, RolledBack
  <2>3. data[d].edits \subseteq Edits
    BY DEF IInv, TypeOK, Document
  <2> QED
    BY <2>1, <2>2, <2>3 DEF IInv, TypeOK, Raise, LockAfter
<1>2. ASSUME NEW o \in Objects PROVE LockHeld(o)'
  BY DEF IInv, TypeOK, LockHeld, Raise, Mine, Open, Ready, LockAfter, Innermost
<1>3. ASSUME NEW o \in Objects PROVE LastSeen(o)'
  BY DEF IInv, LastSeen, Raise
<1>4. ASSUME NEW o \in Objects PROVE Memory(o)'
  <2>1. CASE o = d
    <3>1. RolledBack(d).gen = seen[d].gen /\ seen[d].edits \subseteq RolledBack(d).edits
      BY DEF IInv, LastSeen, Savepoint, RolledBack, Raise, Innermost
    <3>2. phase[d] = "idle"
      BY DEF Raise, Ready, Mine
    <3> QED
      BY <2>1, <3>1, <3>2 DEF IInv, Memory, Raise
  <2>2. CASE o # d
    BY <2>2 DEF IInv, Memory, Raise
  <2> QED
    BY <2>1, <2>2
<1>5. ASSUME NEW o \in Objects PROVE SaveInProgress(o)'
  BY DEF IInv, SaveInProgress, Raise, Ready, Mine
<1>6. ASSUME NEW o \in Objects PROVE Savepoint(o)'
  BY DEF IInv, Savepoint, LastSeen, Raise, RolledBack, Open
<1>7. OneSave'
  BY DEF IInv, OneSave, Raise
<1>8. OnlyIssued'
  <2>1. /\ RolledBack(d).edits \subseteq data[d].edits
        /\ RolledBack(d).edits \subseteq previous[d].edits \cup store.edits
    BY DEF IInv, LastSeen, Memory, Savepoint, RolledBack, Raise, Innermost
  <2>2. \A o \in Objects : data'[o] = IF o = d THEN RolledBack(d) ELSE data[o]
    BY DEF IInv, TypeOK, Raise
  <2> DEFINE lost == data[d].edits \ (previous[d].edits \cup store.edits)
  <2>3. lost \subseteq issued /\ lost \cap RolledBack(d).edits = {}
    BY <2>1 DEF IInv, OnlyIssued
  <2>4. \A o \in Objects : o # d => lost \cap data[o].edits = {}
    BY DEF IInv, Private
  <2>5. \A o \in Objects : data'[o].edits \subseteq issued \ (discarded \cup lost)
    BY <2>1, <2>2, <2>3, <2>4 DEF IInv, OnlyIssued
  <2> QED
    BY <2>3, <2>5 DEF IInv, OnlyIssued, Raise
<1>9. Private'
  <2>1. \A o \in Objects : data'[o].edits \subseteq data[o].edits
    BY DEF IInv, LastSeen, Memory, Savepoint, RolledBack, Raise, Innermost
  <2> QED
    BY <2>1 DEF IInv, Private, Raise
<1>10. NoLostUpdate'
  BY DEF IInv, NoLostUpdate, Raise
<1>11. EveryEditAccounted'
  <2>1. data[d].edits \cap previous[d].edits \subseteq RolledBack(d).edits \cup store.edits
    BY DEF IInv, LastSeen, Savepoint, RolledBack, Raise, Innermost
  <2>2. \A o \in Objects : data'[o] = IF o = d THEN RolledBack(d) ELSE data[o]
    BY DEF IInv, TypeOK, Raise
  <2> QED
    BY <2>1, <2>2 DEF IInv, EveryEditAccounted, Raise
<1>12. FailedLeavesNoTrace'
  BY DEF IInv, FailedLeavesNoTrace, Raise
<1> QED
  BY <1>1, <1>2, <1>3, <1>4, <1>5, <1>6, <1>7, <1>8, <1>9, <1>10, <1>11, <1>12
  DEF IInv

\* save() with its checks passed: the generation in memory is one ahead.
LEMMA SaveBeginStep ==
  ASSUME IInv, NEW d \in Objects, SaveBegin(d)
  PROVE  IInv'
<1>1. TypeOK'
  <2>1. Nesting'
    BY DEF IInv, TypeOK, Nesting, Open, SaveBegin
  <2>2. AtGen(data[d], data[d].gen + 1) \in Document
    BY DEF IInv, TypeOK, Document, AtGen
  <2>3. ThreadOf[d] \in Threads
    BY TransactionConstants
  <2> QED
    BY <2>1, <2>2, <2>3 DEF IInv, TypeOK, history, SaveBegin
<1>2. ASSUME NEW o \in Objects PROVE LockHeld(o)'
  <2>1. CASE ThreadOf[o] = ThreadOf[d]
    BY <2>1 DEF LockHeld, SaveBegin
  <2>2. CASE ThreadOf[o] # ThreadOf[d]
    <3>1. lock # ThreadOf[o]
      BY <2>2, TransactionConstants DEF SaveBegin, MayEnter
    <3>2. ~Open(o) /\ phase[o] = "idle"
      BY <3>1 DEF IInv, LockHeld
    <3> QED
      BY <2>2, <3>2 DEF IInv, LockHeld, Open, SaveBegin
  <2> QED
    BY <2>1, <2>2
<1>3. ASSUME NEW o \in Objects PROVE LastSeen(o)'
  BY DEF IInv, LastSeen, SaveBegin
<1>4. ASSUME NEW o \in Objects PROVE Memory(o)'
  BY DEF IInv, TypeOK, Memory, SaveBegin, AtGen, Ready, Mine
<1>5. ASSUME NEW o \in Objects PROVE SaveInProgress(o)'
  BY DEF IInv, SaveInProgress, SaveBegin, SaveAllowed, Ready, Mine
<1>6. ASSUME NEW o \in Objects PROVE Savepoint(o)'
  BY DEF IInv, Savepoint, SaveBegin, AtGen, Open
<1>7. OneSave'
  BY DEF IInv, OneSave, SaveBegin, Mine, Ready
<1>8. OnlyIssued'
  BY DEF IInv, OnlyIssued, SaveBegin, AtGen, history
<1>9. Private'
  BY DEF IInv, Private, SaveBegin, AtGen
<1>10. NoLostUpdate'
  BY DEF IInv, NoLostUpdate, SaveBegin, history
<1>11. EveryEditAccounted'
  BY DEF IInv, EveryEditAccounted, SaveBegin, AtGen, history
<1>12. FailedLeavesNoTrace'
  BY DEF IInv, FailedLeavesNoTrace, SaveBegin, history
<1> QED
  BY <1>1, <1>2, <1>3, <1>4, <1>5, <1>6, <1>7, <1>8, <1>9, <1>10, <1>11, <1>12
  DEF IInv

\* Writing the temporary file changes nothing that the invariant sees.
LEMMA WriteTemporaryStep ==
  ASSUME IInv, NEW d \in Objects, WriteTemporary(d)
  PROVE  IInv'
<1>1. TypeOK'
  <2>1. Nesting'
    BY DEF Nesting, Open, IInv, TypeOK, WriteTemporary
  <2> QED
    BY <2>1 DEF IInv, TypeOK, history, WriteTemporary
<1>2. ASSUME NEW o \in Objects PROVE LockHeld(o)'
  BY DEF IInv, LockHeld, WriteTemporary, Open
<1>3. ASSUME NEW o \in Objects PROVE LastSeen(o)'
  BY DEF IInv, LastSeen, WriteTemporary
<1>4. ASSUME NEW o \in Objects PROVE Memory(o)'
  BY DEF IInv, Memory, WriteTemporary
<1>5. ASSUME NEW o \in Objects PROVE SaveInProgress(o)'
  BY DEF IInv, SaveInProgress, WriteTemporary
<1>6. ASSUME NEW o \in Objects PROVE Savepoint(o)'
  BY DEF IInv, Savepoint, WriteTemporary, Open
<1>7. OneSave'
  BY DEF IInv, OneSave, WriteTemporary
<1>8. OnlyIssued'
  BY DEF IInv, OnlyIssued, WriteTemporary, history
<1>9. Private'
  BY DEF IInv, Private, WriteTemporary
<1>10. NoLostUpdate'
  BY DEF IInv, NoLostUpdate, WriteTemporary, history
<1>11. EveryEditAccounted'
  BY DEF IInv, EveryEditAccounted, WriteTemporary, history
<1>12. FailedLeavesNoTrace'
  BY DEF IInv, FailedLeavesNoTrace, WriteTemporary, history
<1> QED
  BY <1>1, <1>2, <1>3, <1>4, <1>5, <1>6, <1>7, <1>8, <1>9, <1>10, <1>11, <1>12
  DEF IInv

\* os.replace: memory is the whole of the file plus new edits, so nothing that
\* was acknowledged is lost, and others now have an older fingerprint.
LEMMA ReplaceStep ==
  ASSUME IInv, NEW d \in Objects, Replace(d)
  PROVE  IInv'
<1>1. TypeOK'
  <2>1. Nesting'
    BY DEF Nesting, Open, IInv, TypeOK, Replace
  <2> QED
    BY <2>1 DEF IInv, TypeOK, history, Replace
<1>2. ASSUME NEW o \in Objects PROVE LockHeld(o)'
  BY DEF IInv, LockHeld, Replace, Open
<1>3. ASSUME NEW o \in Objects PROVE LastSeen(o)'
  <2>1. store'.gen = store.gen + 1 /\ store.edits \subseteq store'.edits
    BY DEF IInv, Memory, SaveInProgress, Replace
  <2>2. seen[o].gen \in Nat /\ store.gen \in Nat
    BY DEF IInv, TypeOK, Document
  <2> QED
    BY <2>1, <2>2 DEF IInv, LastSeen, Replace
<1>4. ASSUME NEW o \in Objects PROVE Memory(o)'
  BY DEF IInv, Memory, Replace
<1>5. ASSUME NEW o \in Objects PROVE SaveInProgress(o)'
  <2>1. CASE o = d
    BY <2>1 DEF IInv, TypeOK, Replace, SaveInProgress
  <2>2. CASE o # d
    <3>1. phase[o] # "idle" => ThreadOf[o] = ThreadOf[d]
      BY DEF IInv, LockHeld, Replace
    <3>2. phase'[o] = "idle"
      BY <2>2, <3>1 DEF IInv, OneSave, Replace
    <3> QED
      BY <3>2 DEF SaveInProgress
  <2> QED
    BY <2>1, <2>2
<1>6. ASSUME NEW o \in Objects PROVE Savepoint(o)'
  BY DEF IInv, Savepoint, Replace, Open
<1>7. OneSave'
  BY DEF IInv, OneSave, Replace
<1>8. OnlyIssued'
  BY DEF IInv, OnlyIssued, Replace, history
<1>9. Private'
  BY DEF IInv, Private, Memory, SaveInProgress, Replace
<1>10. NoLostUpdate'
  BY DEF IInv, NoLostUpdate, SaveInProgress, Memory, Replace, history
<1>11. EveryEditAccounted'
  BY DEF IInv, EveryEditAccounted, Memory, SaveInProgress, Replace, history
<1>12. FailedLeavesNoTrace'
  BY DEF IInv, FailedLeavesNoTrace, OnlyIssued, Replace, history
<1> QED
  BY <1>1, <1>2, <1>3, <1>4, <1>5, <1>6, <1>7, <1>8, <1>9, <1>10, <1>11, <1>12
  DEF IInv

\* A write that fails puts the generation back to the one last seen.
LEMMA WriteFailsStep ==
  ASSUME IInv, NEW d \in Objects, WriteFails(d)
  PROVE  IInv'
<1>1. TypeOK'
  <2>1. Nesting'
    BY DEF IInv, TypeOK, Nesting, Open, WriteFails
  <2>2. AtGen(data[d], data[d].gen - 1) \in Document
    BY DEF IInv, TypeOK, Document, AtGen, Memory, WriteFails
  <2> QED
    BY <2>1, <2>2
    DEF IInv, TypeOK, history, WriteFails, SaveLockAfter, LockAfter
<1>2. ASSUME NEW o \in Objects PROVE LockHeld(o)'
  BY DEF IInv, TypeOK, LockHeld, WriteFails, SaveLockAfter, Open, OneSave,
         LockAfter, Mine
<1>3. ASSUME NEW o \in Objects PROVE LastSeen(o)'
  BY DEF IInv, LastSeen, WriteFails
<1>4. ASSUME NEW o \in Objects PROVE Memory(o)'
  BY TransactionConstants
  DEF IInv, TypeOK, Memory, LastSeen, SaveInProgress, WriteFails, AtGen
<1>5. ASSUME NEW o \in Objects PROVE SaveInProgress(o)'
  BY DEF IInv, SaveInProgress, WriteFails
<1>6. ASSUME NEW o \in Objects PROVE Savepoint(o)'
  BY DEF IInv, Savepoint, WriteFails, AtGen, Open
<1>7. OneSave'
  BY DEF IInv, OneSave, WriteFails
<1>8. OnlyIssued'
  BY DEF IInv, OnlyIssued, WriteFails, AtGen, history
<1>9. Private'
  BY DEF IInv, Private, WriteFails, AtGen
<1>10. NoLostUpdate'
  BY DEF IInv, NoLostUpdate, WriteFails, history
<1>11. EveryEditAccounted'
  BY DEF IInv, EveryEditAccounted, WriteFails, AtGen, history
<1>12. FailedLeavesNoTrace'
  BY DEF IInv, FailedLeavesNoTrace, WriteFails, history
<1> QED
  BY <1>1, <1>2, <1>3, <1>4, <1>5, <1>6, <1>7, <1>8, <1>9, <1>10, <1>11, <1>12
  DEF IInv

\* save() returns: the object has seen its own commit.
LEMMA SaveEndStep ==
  ASSUME IInv, NEW d \in Objects, SaveEnd(d)
  PROVE  IInv'
<1>1. TypeOK'
  <2>1. Nesting'
    BY DEF IInv, TypeOK, Nesting, Open, SaveEnd
  <2>2. data[d].gen \in Nat /\ data[d].edits \subseteq Edits
    BY DEF IInv, TypeOK, Document
  <2> QED
    BY <2>1, <2>2 DEF IInv, TypeOK, SaveEnd, SaveLockAfter, LockAfter
<1>2. ASSUME NEW o \in Objects PROVE LockHeld(o)'
  BY DEF IInv, TypeOK, LockHeld, SaveEnd, SaveLockAfter, Open, OneSave,
         LockAfter, Mine
<1>3. ASSUME NEW o \in Objects PROVE LastSeen(o)'
  BY DEF IInv, TypeOK, LastSeen, SaveInProgress, SaveEnd
<1>4. ASSUME NEW o \in Objects PROVE Memory(o)'
  BY DEF IInv, TypeOK, Memory, SaveEnd
<1>5. ASSUME NEW o \in Objects PROVE SaveInProgress(o)'
  BY DEF IInv, SaveInProgress, SaveEnd
<1>6. ASSUME NEW o \in Objects PROVE Savepoint(o)'
  <2>1. CASE o = d /\ Open(d)
    <3>1. data[d].gen = seen[d].gen + 1 /\ seen[d].edits \subseteq data[d].edits
      BY DEF IInv, Memory, SaveEnd
    <3>2. original[d] = seen[d] \/ original[d].gen < seen[d].gen
      BY <2>1 DEF IInv, Savepoint
    <3>3. original[d].gen \in Nat /\ seen[d].gen \in Nat
      BY DEF IInv, TypeOK, Document
    <3>4. original[d] # data[d] /\ original[d].gen < data[d].gen
      BY <3>1, <3>2, <3>3
    <3>5. previous[d].edits \subseteq data[d].edits
      BY <2>1 DEF IInv, Savepoint
    <3> QED
      BY <2>1, <3>4, <3>5 DEF IInv, Savepoint, SaveEnd
  <2>2. CASE o # d
    BY <2>2 DEF IInv, Savepoint, SaveEnd, Open
  <2>3. CASE ~Open(o)
    BY <2>3 DEF Savepoint, SaveEnd, Open
  <2> QED
    BY <2>1, <2>2, <2>3
<1>7. OneSave'
  BY DEF IInv, OneSave, SaveEnd
<1>8. OnlyIssued'
  BY DEF IInv, OnlyIssued, SaveEnd
<1>9. Private'
  BY DEF IInv, Private, SaveEnd
<1>10. NoLostUpdate'
  BY DEF IInv, NoLostUpdate, SaveInProgress, SaveEnd
<1>11. EveryEditAccounted'
  BY DEF IInv, EveryEditAccounted, SaveEnd
<1>12. FailedLeavesNoTrace'
  BY DEF IInv, FailedLeavesNoTrace, SaveEnd
<1> QED
  BY <1>1, <1>2, <1>3, <1>4, <1>5, <1>6, <1>7, <1>8, <1>9, <1>10, <1>11, <1>12
  DEF IInv

\* An edit in memory belongs to one object until it is committed.
LEMMA EditStep ==
  ASSUME IInv, NEW d \in Objects, NEW e \in Edits, Edit(d, e)
  PROVE  IInv'
<1>1. TypeOK'
  <2>1. Nesting'
    BY DEF IInv, TypeOK, Nesting, Open, Edit
  <2>2. WithEdit(data[d], e) \in Document
    BY DEF IInv, TypeOK, Document, WithEdit
  <2> QED
    BY <2>1, <2>2 DEF IInv, TypeOK, Edit
<1>2. ASSUME NEW o \in Objects PROVE LockHeld(o)'
  BY DEF IInv, LockHeld, Edit, Open
<1>3. ASSUME NEW o \in Objects PROVE LastSeen(o)'
  BY DEF IInv, LastSeen, Edit
<1>4. ASSUME NEW o \in Objects PROVE Memory(o)'
  BY DEF IInv, Memory, Edit, WithEdit
<1>5. ASSUME NEW o \in Objects PROVE SaveInProgress(o)'
  BY DEF IInv, SaveInProgress, Edit, Ready, Mine
<1>6. ASSUME NEW o \in Objects PROVE Savepoint(o)'
  BY DEF IInv, Savepoint, Edit, WithEdit, Open
<1>7. OneSave'
  BY DEF IInv, OneSave, Edit
<1>8. OnlyIssued'
  BY DEF IInv, OnlyIssued, Edit, WithEdit
<1>9. Private'
  BY DEF IInv, Private, OnlyIssued, Edit, WithEdit
<1>10. NoLostUpdate'
  BY DEF IInv, NoLostUpdate, Edit
<1>11. EveryEditAccounted'
  BY DEF IInv, TypeOK, EveryEditAccounted, Edit, WithEdit
<1>12. FailedLeavesNoTrace'
  BY DEF IInv, FailedLeavesNoTrace, Edit
<1> QED
  BY <1>1, <1>2, <1>3, <1>4, <1>5, <1>6, <1>7, <1>8, <1>9, <1>10, <1>11, <1>12
  DEF IInv

\* A process that dies loses its objects' uncommitted edits and nothing else;
\* its objects start from the file.
LEMMA CrashStep ==
  ASSUME IInv, NEW t \in Threads, Crash(t)
  PROVE  IInv'
<1> DEFINE dead == {d \in Objects : ThreadOf[d] = t}
<1> DEFINE lost == (UNION {data[d].edits : d \in dead}) \ store.edits
<1>0. /\ \A d \in dead :
           /\ data'[d] = store /\ persisted'[d] = store /\ seen'[d] = store
           /\ seenGen'[d] = store.gen /\ within'[d] = {} /\ phase'[d] = "idle"
      /\ \A d \in Objects \ dead :
           /\ data'[d] = data[d] /\ persisted'[d] = persisted[d]
           /\ seen'[d] = seen[d] /\ seenGen'[d] = seenGen[d]
           /\ within'[d] = within[d] /\ phase'[d] = phase[d]
      /\ discarded' = discarded \cup lost
      /\ lock' = IF lock = t THEN Free ELSE lock
      /\ UNCHANGED <<store, previous, original, issued, acked>>
  BY DEF Crash
<1> HIDE DEF lost
<1>1. TypeOK'
  <2>1. Nesting'
    BY <1>0 DEF IInv, TypeOK, Nesting, Open, Mine
  <2>2. store.gen \in Nat
    BY DEF IInv, TypeOK, Document
  <2>3. lost \subseteq Edits
    BY DEF lost, IInv, TypeOK, Document
  <2>4. /\ data' \in [Objects -> Document] /\ persisted' \in [Objects -> Document]
        /\ seen' \in [Objects -> Document] /\ seenGen' \in [Objects -> Nat]
        /\ within' \in [Objects -> SUBSET Objects]
        /\ phase' \in [Objects -> {"idle", "checked", "written", "replaced"}]
    BY <2>2 DEF IInv, TypeOK, Crash
  <2> QED
    BY <1>0, <2>1, <2>3, <2>4 DEF IInv, TypeOK
<1>2. ASSUME NEW d \in Objects PROVE LockHeld(d)'
  BY <1>0 DEF IInv, LockHeld, Open
<1>3. ASSUME NEW d \in Objects PROVE LastSeen(d)'
  BY <1>0 DEF IInv, LastSeen
<1>4. ASSUME NEW d \in Objects PROVE Memory(d)'
  BY <1>0 DEF IInv, Memory
<1>5. ASSUME NEW d \in Objects PROVE SaveInProgress(d)'
  BY <1>0 DEF IInv, SaveInProgress
<1>6. ASSUME NEW d \in Objects PROVE Savepoint(d)'
  BY <1>0 DEF IInv, Savepoint, Open
<1>7. OneSave'
  BY <1>0 DEF IInv, OneSave
<1>8. OnlyIssued'
  <2>1. lost \subseteq issued
    BY DEF lost, IInv, OnlyIssued
  <2>2. \A d \in Objects \ dead : lost \cap data[d].edits = {}
    BY DEF lost, IInv, Private
  <2>3. \A d \in Objects : data'[d].edits \subseteq issued \ (discarded \cup lost)
    BY <1>0, <2>1, <2>2 DEF lost, IInv, OnlyIssued, FailedLeavesNoTrace
  <2> QED
    BY <1>0, <2>1, <2>3 DEF IInv, OnlyIssued
<1>9. Private'
  BY <1>0 DEF IInv, Private
<1>10. NoLostUpdate'
  BY <1>0 DEF IInv, NoLostUpdate
<1>11. EveryEditAccounted'
  BY <1>0 DEF lost, IInv, EveryEditAccounted
<1>12. FailedLeavesNoTrace'
  BY <1>0 DEF lost, IInv, FailedLeavesNoTrace
<1> QED
  BY <1>1, <1>2, <1>3, <1>4, <1>5, <1>6, <1>7, <1>8, <1>9, <1>10, <1>11, <1>12
  DEF IInv

\* The invariant holds when every object has loaded the empty store.
LEMMA IInvInit == Init => IInv
  BY DEF Init, Empty, IInv, TypeOK, Document, Nesting, Open, LockHeld,
         LastSeen, Memory, SaveInProgress, Savepoint, OneSave, OnlyIssued,
         Private, NoLostUpdate, EveryEditAccounted, FailedLeavesNoTrace

\* The invariant depends on the variables of the specification only.
LEMMA StutterStep == IInv /\ UNCHANGED vars => IInv'
  BY DEF vars, code, history, IInv, TypeOK, Nesting, Open, LockHeld, LastSeen,
         Memory, SaveInProgress, Savepoint, OneSave, OnlyIssued, Private,
         NoLostUpdate, EveryEditAccounted, FailedLeavesNoTrace

\* The inductive invariant of the persistence layer holds in every reachable
\* state of every instance.
THEOREM StoreInvariant == Spec => []IInv
<1>1. IInv /\ [Next]_vars => IInv'
  BY RefreshStep, BeginStep, EndStep, RaiseStep, SaveBeginStep,
     WriteTemporaryStep, ReplaceStep, WriteFailsStep, SaveEndStep, EditStep,
     CrashStep, StutterStep DEF Next, Step
<1> QED
  BY <1>1, IInvInit, PTL DEF Spec

\* Type correctness, and the nesting of transaction() blocks of a thread.
THEOREM StoreTypeOK == Spec => []TypeOK
<1>1. IInv => TypeOK
  BY DEF IInv
<1> QED
  BY <1>1, StoreInvariant, PTL

\* An edit covered by a save() that returned is in every later version of the
\* file: save() never overwrites a commit it has not seen.
THEOREM StoreNoLostUpdate == Spec => []NoLostUpdate
<1>1. IInv => NoLostUpdate
  BY DEF IInv
<1> QED
  BY <1>1, StoreInvariant, PTL

\* refresh() and transaction() never drop uncommitted changes silently.
THEOREM StoreEveryEditAccounted == Spec => []EveryEditAccounted
<1>1. IInv => EveryEditAccounted
  BY DEF IInv
<1> QED
  BY <1>1, StoreInvariant, PTL

\* What transaction() rolled back is never committed later, by any object.
THEOREM StoreFailedLeavesNoTrace == Spec => []FailedLeavesNoTrace
<1>1. IInv => FailedLeavesNoTrace
  BY DEF IInv
<1> QED
  BY <1>1, StoreInvariant, PTL

\* No history of failed saves and rollbacks makes a later save() of an
\* up-to-date object fail its generation check.
THEOREM StoreNeverWedged == Spec => []NeverWedged
<1>1. IInv => NeverWedged
  BY DEF IInv, NeverWedged, SaveAllowed, LastSeen, Memory
<1> QED
  BY <1>1, StoreInvariant, PTL

\* os.replace is a commit of the abstract store: one generation, and all the
\* edits committed before.
LEMMA ReplaceCommits ==
  ASSUME IInv, NEW d \in Objects, Replace(d)
  PROVE  Abstract!Commit(data[d].edits)
<1>1. /\ data[d] \in [gen : Nat, edits : SUBSET Edits]
      /\ data[d].gen = store.gen + 1
      /\ store.edits \subseteq data[d].edits
  BY DEF IInv, TypeOK, Document, Memory, SaveInProgress, Replace
<1>2. data[d] = [gen |-> store.gen + 1, edits |-> store.edits \cup data[d].edits]
  BY <1>1
<1> QED
  BY <1>2 DEF Abstract!Commit, Replace

\* No other action changes the file.
LEMMA StoreRefinesStep == IInv /\ [Next]_vars => [Abstract!Next]_store
<1> SUFFICES ASSUME IInv, [Next]_vars, store' # store
             PROVE  Abstract!Next
  OBVIOUS
<1>1. PICK d \in Objects : Replace(d)
  BY DEF Next, Step, Refresh, Begin, Edit, End, Raise, SaveBegin,
         WriteTemporary, WriteFails, SaveEnd, Crash, vars, code
<1>2. data[d].edits \in SUBSET Edits
  BY DEF IInv, TypeOK, Document
<1> QED
  BY <1>1, <1>2, ReplaceCommits DEF Abstract!Next

\* Transactions, direct saves, failures and crashes implement the atomic
\* store.
THEOREM StoreRefinement == Spec => ImplementsAtomicStore
<1>1. Init => Abstract!Init
  BY DEF Init, Empty, Abstract!Init
<1> QED
  BY <1>1, StoreRefinesStep, StoreInvariant, PTL
  DEF Spec, ImplementsAtomicStore, Abstract!Spec
=============================================================================
