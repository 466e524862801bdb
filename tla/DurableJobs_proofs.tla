------------------------- MODULE DurableJobs_proofs -------------------------
(***************************************************************************)
(* Proofs about DurableJobs, for any number of jobs, calls, revisions,     *)
(* faults and commands: its type invariant, three safety invariants, two   *)
(* action properties, and that it implements JobLedger.                    *)
(*                                                                         *)
(* The promises are not inductive: whether a receipt is true depends on    *)
(* what its call found out several steps before.  IInv adds what a call    *)
(* knows and keeps knowing while others step: the row it leases (Leased,   *)
(* OnRow), the source and marker under the store lock (Fenced), the        *)
(* requests still to be sent (Paid), and what the state of a row says of   *)
(* the store and of the controls (Known, Control).                         *)
(***************************************************************************)
EXTENDS DurableJobsProperties, FiniteSetTheorems, TLAPS

\* A lease is that of the row its call works on; a row that is about to be sent
\* is queued until the intent is on disk.
Leased(w) == \A j \in Jobs : rows[j].owner = w =>
    /\ call[w].job = j
    /\ call[w].named
    /\ call[w].pc = "submit" => rows[j].state = "queued"

\* A call works on a row that was inserted; only a commit has no worker name.
OnRow(w) ==
    /\ call[w].pc # "idle" => Row(w).state # "absent"
    /\ ~call[w].named => call[w].pc \in {"enter", "read", "apply", "ack"}

\* What a commit has found out holds as long as it has the store lock, and its
\* acknowledgment comes after the marker.
Fenced(w) ==
    /\ call[w].pc \in {"read", "apply"} =>
          /\ call[w].job \notin applied
          /\ source \in since \cup {Missing}
    /\ call[w].pc = "apply" => Row(w).rev \in since /\ ~excluded
    /\ call[w].pc = "ack" => call[w].job \in applied

\* A row has a revision, and no marker before it is inserted; a purge closes it,
\* and all others as well until the exclusion is over.
Known(j) ==
    /\ rows[j].state = "absent" => j \notin applied
    /\ rows[j].state # "absent" => rows[j].rev \in Revisions
    /\ rows[j].error = "purged" => rows[j].state = "cancelled"
    /\ rows[j].state = "committed" => j \in applied
    /\ coverage = "complete" => rows[j].state \notin Active

\* The calls that are about to send a job are paid for, and so is the next one
\* when the row is queued, or not yet inserted.
Sending(j) == {w \in Workers : call[w].pc = "call" /\ call[w].job = j}
Due(j) == IF rows[j].state \in {"absent", "queued"} THEN 1 ELSE 0
Paid(j) ==
    /\ IsFiniteSet(Sending(j))
    /\ credit[j] >= Cardinality(Sending(j)) + Due(j)

Control ==
    /\ excluded => content = Nothing
    /\ coverage = "complete" => excluded \/ lock = Operator

IInv ==
    /\ TypeOK
    /\ \A w \in Workers : Leased(w) /\ OnRow(w) /\ Fenced(w)
    /\ \A j \in Jobs : Known(j) /\ Paid(j)
    /\ Control
-----------------------------------------------------------------------------
\* What a call that ends leaves of its lock, and what it does not touch.
CallEnds(w) ==
    /\ call[w].pc # "idle"
    /\ lock' = IF lock = w THEN NoOne ELSE lock
    /\ since' = IF lock = w THEN {} ELSE since
    /\ faults' \in 0..MaxFaults /\ ops' \in 0..MaxOps
    /\ UNCHANGED <<source, document, history>>

LEMMA Constants ==
  /\ \A j \in Jobs : j \in Nat /\ j # 0
  /\ NoOne \notin Workers /\ Nobody \notin Workers /\ Operator \notin Workers
  /\ NoOne # Nobody /\ NoOne # Operator
  /\ Missing \notin Revisions /\ Nothing \notin Jobs
BY JobConstants DEF Jobs

LEMMA RowOfCall ==
  ASSUME TypeOK, NEW w \in Workers, call[w].pc # "idle"
  PROVE  call[w].job \in Jobs
BY DEF TypeOK, CallType

LEMMA PaidWhenFewerSend ==
  ASSUME NEW j \in Jobs, Paid(j), credit[j] \in Int, credit'[j] = credit[j],
         Sending(j)' \subseteq Sending(j),
         rows'[j].state \in {"absent", "queued"} => rows[j].state \in {"absent", "queued"}
  PROVE  Paid(j)'
<1>1. /\ IsFiniteSet(Sending(j)')
      /\ Cardinality(Sending(j)') <= Cardinality(Sending(j))
  BY FS_Subset DEF Paid
<1>2. Cardinality(Sending(j)') \in Nat /\ Cardinality(Sending(j)) \in Nat
  BY <1>1, FS_CardinalityType DEF Paid
<1>3. Due(j)' <= Due(j) /\ Due(j) \in {0, 1} /\ Due(j)' \in {0, 1}
  BY DEF Due
<1> QED
  BY <1>1, <1>2, <1>3 DEF Paid

LEMMA FinishedRow ==
  ASSUME NEW row \in RowType, NEW state \in States, NEW error \in Errors,
         NEW batch \in Batches
  PROVE  /\ Finished(row, state, error, batch) \in RowType
         /\ Finished(row, state, error, batch).state = state
         /\ Finished(row, state, error, batch).error = error
         /\ Finished(row, state, error, batch).owner = NoOne
         /\ Finished(row, state, error, batch).rev = row.rev
<1>1. "none" \in Batches
  BY DEF Batches
<1> QED
  BY <1>1 DEF Finished, RowType

LEMMA FinishStep ==
  ASSUME IInv, NEW w \in Workers, CallEnds(w),
         NEW state \in {"ready", "submitted", "committed", "stale", "failed"},
         NEW error \in {"none", "unknown", "other"},
         NEW batch \in {"none", "handle"},
         Finish(w, state, error, batch),
         state = "committed" => call[w].job \in applied
  PROVE  IInv'
<1> DEFINE n == call[w].job
<1>0. state \in States /\ error \in Errors /\ batch \in Batches /\ error # "purged"
      /\ state \notin {"absent", "queued"}
  BY DEF States, Errors, Batches, Active, Terminal
<1>1. /\ n \in Jobs /\ rows[n] \in RowType /\ rows[n].state # "absent"
      /\ call' = [call EXCEPT ![w] = Idle]
  BY DEF IInv, TypeOK, OnRow, CallEnds, Finish, CallType, Row
<1>2. \/ rows' = rows
      \/ /\ rows' = [rows EXCEPT ![n] = Finished(rows[n], state, error, batch)]
         /\ MayFinish(w, state)
  BY DEF Finish
<1>3. \A j \in Jobs :
       /\ rows'[j].rev = rows[j].rev
       /\ \/ rows'[j] = rows[j]
          \/ /\ j = n /\ MayFinish(w, state)
             /\ rows'[j].state = state /\ rows'[j].error = error
             /\ rows'[j].owner = NoOne
  BY <1>0, <1>1, <1>2, FinishedRow DEF IInv, TypeOK
<1>4. MayFinish(w, state) =>
         /\ rows[n].state \in Active \cup {state}
         /\ call[w].named => rows[n].owner = w
  BY DEF MayFinish, Row
<1>5. \A j \in Jobs : rows[j].owner = w => j = n /\ rows'[j].owner = NoOne
  <2> SUFFICES ASSUME NEW j \in Jobs, rows[j].owner = w
               PROVE  j = n /\ rows'[j].owner = NoOne
    OBVIOUS
  <2>1. j = n /\ rows[j].state \in Active
    BY Constants DEF IInv, Leased, TypeOK
  <2>2. MayFinish(w, state)
    BY <2>1 DEF MayFinish, Row, Active, Terminal
  <2> QED
    BY <2>1, <2>2, <1>0, <1>1, FinishedRow DEF Finish, IInv, TypeOK
<1>6. rows' \in [Jobs -> RowType] /\ call' \in [Workers -> CallType]
  BY <1>0, <1>1, <1>2, FinishedRow DEF IInv, TypeOK, CallType, Idle, Places
<1>7. \A u \in Workers : call'[u] = IF u = w THEN Idle ELSE call[u]
  BY <1>1 DEF IInv, TypeOK
<1>8. TypeOK'
  <2>1. \A u \in Workers : lock' = u <=> call'[u].pc \in {"read", "apply"}
    BY <1>7, Constants DEF IInv, TypeOK, Idle, CallEnds
  <2>2. \A u \in Workers : call'[u].pc = "idle" <=> call'[u].job = 0
    BY <1>7 DEF IInv, TypeOK, Idle
  <2>3. \A j \in Jobs : rows'[j].owner # NoOne => rows'[j].state \in Active
    BY <1>3 DEF IInv, TypeOK
  <2>4. lock' \in Workers \cup {NoOne, Operator} /\ since' \subseteq Revisions
    BY DEF IInv, TypeOK, CallEnds
  <2> QED
    BY <1>6, <2>1, <2>2, <2>3, <2>4 DEF IInv, TypeOK, CallEnds, document, history
<1>9. ASSUME NEW u \in Workers PROVE Leased(u)' /\ OnRow(u)' /\ Fenced(u)'
  <2>1. CASE u = w
    BY <2>1, <1>3, <1>5, <1>7, Constants DEF Leased, OnRow, Fenced, Idle
  <2>2. CASE u # w
    <3>1. call'[u] = call[u]
      BY <2>2, <1>7
    <3>2. Leased(u)'
      BY <3>1, <1>3, Constants DEF IInv, Leased
    <3>3. OnRow(u)'
      BY <3>1, <1>0, <1>3, RowOfCall DEF IInv, OnRow, Row
    <3>4. call[u].pc \in {"read", "apply"} => since' = since
      BY <2>2 DEF IInv, TypeOK, CallEnds
    <3>5. Fenced(u)'
      BY <3>1, <3>4, <1>3, RowOfCall DEF IInv, Fenced, Row, CallEnds, document
    <3> QED
      BY <3>2, <3>3, <3>5
  <2> QED
    BY <2>1, <2>2
<1>10. ASSUME NEW j \in Jobs PROVE Known(j)' /\ Paid(j)'
  <2>1. Known(j)'
    BY <1>0, <1>1, <1>3, <1>4 DEF IInv, Known, CallEnds, document, Active
  <2>2. Paid(j)'
    <3>1. Sending(j)' \subseteq Sending(j)
      BY <1>7 DEF Sending, Idle
    <3>2. credit[j] \in Int /\ credit'[j] = credit[j]
      BY DEF IInv, TypeOK, CallEnds, history
    <3> QED
      BY <3>1, <3>2, <1>0, <1>3, PaidWhenFewerSend DEF IInv
  <2> QED
    BY <2>1, <2>2
<1>11. Control'
  BY Constants DEF IInv, Control, CallEnds, document
<1> QED
  BY <1>8, <1>9, <1>10, <1>11 DEF IInv

LEMMA AbandonStep ==
  ASSUME IInv, NEW w \in Workers, CallEnds(w), Abandon(w)
  PROVE  IInv'
<1>1. \A u \in Workers : call'[u] = IF u = w THEN Idle ELSE call[u]
  BY DEF IInv, TypeOK, Abandon
<1>2. \A j \in Jobs :
         rows'[j] = IF rows[j].owner = w THEN [rows[j] EXCEPT !.owner = Nobody]
                    ELSE rows[j]
  BY DEF Abandon
<1>3. rows' \in [Jobs -> RowType] /\ call' \in [Workers -> CallType]
  <2>1. ASSUME NEW row \in RowType
        PROVE  [row EXCEPT !.owner = Nobody] \in RowType
    BY DEF RowType
  <2>2. Idle \in CallType
    BY DEF Idle, CallType, Places
  <2> QED
    BY <2>1, <2>2 DEF IInv, TypeOK, Abandon
<1>4. \A j \in Jobs :
         /\ rows'[j].state = rows[j].state /\ rows'[j].error = rows[j].error
         /\ rows'[j].rev = rows[j].rev
         /\ rows'[j].owner = IF rows[j].owner = w THEN Nobody ELSE rows[j].owner
  BY <1>2 DEF IInv, TypeOK, RowType
<1>5. TypeOK'
  <2>1. \A u \in Workers : lock' = u <=> call'[u].pc \in {"read", "apply"}
    BY <1>1, Constants DEF IInv, TypeOK, Idle, CallEnds
  <2>2. \A u \in Workers : call'[u].pc = "idle" <=> call'[u].job = 0
    BY <1>1 DEF IInv, TypeOK, Idle
  <2>3. \A j \in Jobs : rows'[j].owner # NoOne => rows'[j].state \in Active
    BY <1>4, Constants DEF IInv, TypeOK
  <2>4. lock' \in Workers \cup {NoOne, Operator} /\ since' \subseteq Revisions
    BY DEF IInv, TypeOK, CallEnds
  <2> QED
    BY <1>3, <2>1, <2>2, <2>3, <2>4 DEF IInv, TypeOK, CallEnds, document, history
<1>6. ASSUME NEW u \in Workers PROVE Leased(u)' /\ OnRow(u)' /\ Fenced(u)'
  <2>1. CASE u = w
    BY <2>1, <1>1, <1>4, Constants DEF Leased, OnRow, Fenced, Idle
  <2>2. CASE u # w
    <3>1. call'[u] = call[u]
      BY <2>2, <1>1
    <3>2. Leased(u)'
      BY <3>1, <1>4, Constants DEF IInv, Leased
    <3>3. OnRow(u)'
      BY <3>1, <1>4, RowOfCall DEF IInv, OnRow, Row
    <3>4. call[u].pc \in {"read", "apply"} => since' = since
      BY <2>2 DEF IInv, TypeOK, CallEnds
    <3>5. Fenced(u)'
      BY <3>1, <3>4, <1>4, RowOfCall DEF IInv, Fenced, Row, CallEnds, document
    <3> QED
      BY <3>2, <3>3, <3>5
  <2> QED
    BY <2>1, <2>2
<1>7. ASSUME NEW j \in Jobs PROVE Known(j)' /\ Paid(j)'
  <2>1. Known(j)'
    BY <1>4 DEF IInv, Known, CallEnds, document
  <2>2. Paid(j)'
    <3>1. Sending(j)' \subseteq Sending(j)
      BY <1>1 DEF Sending, Idle
    <3>2. credit[j] \in Int /\ credit'[j] = credit[j]
      BY DEF IInv, TypeOK, CallEnds, history
    <3> QED
      BY <3>1, <3>2, <1>4, PaidWhenFewerSend DEF IInv
  <2> QED
    BY <2>1, <2>2
<1>8. Control'
  BY Constants DEF IInv, Control, CallEnds, document
<1> QED
  BY <1>5, <1>6, <1>7, <1>8 DEF IInv

\* The operator or an enqueue puts a row in the place of another: the call that
\* had it has lost its lease.
LEMMA RowStep ==
  ASSUME IInv, NEW n \in Jobs, NEW row \in RowType,
         rows' = [rows EXCEPT ![n] = row],
         UNCHANGED <<call, source, document, locking, purged>>,
         faults' \in 0..MaxFaults, ops' \in 0..MaxOps,
         row.owner = NoOne, row.state # "absent", row.rev \in Revisions,
         rows[n].state = "absent" \/ row.rev = rows[n].rev,
         row.error = "purged" => row.state = "cancelled",
         row.state = "committed" => n \in applied,
         row.state \in Active => coverage # "complete",
         credit' = [credit EXCEPT ![n] = @ + IF row.state = "queued" THEN 1 - Due(n) ELSE 0]
  PROVE  IInv'
<1>1. \A j \in Jobs : rows'[j] = IF j = n THEN row ELSE rows[j]
  BY DEF IInv, TypeOK
<1>2. \A w \in Workers : call[w].pc # "idle" => call[w].job \in Jobs
  BY RowOfCall DEF IInv
<1>3. TypeOK'
  <2>1. rows' \in [Jobs -> RowType]
    BY DEF IInv, TypeOK
  <2>2. \A j \in Jobs : rows'[j].owner # NoOne => rows'[j].state \in Active
    BY <1>1 DEF IInv, TypeOK
  <2>3. credit' \in [Jobs -> Int]
    BY DEF IInv, TypeOK, Due
  <2> QED
    BY <2>1, <2>2, <2>3 DEF IInv, TypeOK, document, locking
<1>4. ASSUME NEW w \in Workers PROVE Leased(w)' /\ OnRow(w)' /\ Fenced(w)'
  <2>1. Leased(w)'
    BY <1>1, Constants DEF IInv, Leased
  <2>2. OnRow(w)'
    BY <1>1, <1>2 DEF IInv, OnRow, Row
  <2>3. Fenced(w)'
    BY <1>1, <1>2 DEF IInv, OnRow, Fenced, Row, document, locking
  <2> QED
    BY <2>1, <2>2, <2>3
<1>5. ASSUME NEW j \in Jobs PROVE Known(j)' /\ Paid(j)'
  <2>1. Known(j)'
    BY <1>1 DEF IInv, Known, document
  <2>2. Paid(j)'
    <3>1. Sending(j)' = Sending(j)
      BY DEF Sending
    <3>2. Cardinality(Sending(j)) \in Nat
      BY FS_CardinalityType DEF IInv, Paid
    <3>3. credit'[j] - Due(j)' >= credit[j] - Due(j)
      BY <1>1 DEF IInv, TypeOK, Due
    <3>4. credit[j] \in Int /\ credit'[j] \in Int /\ Due(j) \in Int /\ Due(j)' \in Int
      BY <1>3 DEF IInv, TypeOK, Due
    <3> QED
      BY <3>1, <3>2, <3>3, <3>4 DEF IInv, Paid
  <2> QED
    BY <2>1, <2>2
<1>6. Control'
  BY DEF IInv, Control, document, locking
<1> QED
  BY <1>3, <1>4, <1>5, <1>6 DEF IInv

LEMMA NoRowTyped == NoRow \in RowType
<1>1. "none" \in Batches /\ "none" \in Errors /\ "absent" \in States
      /\ 0 \in 0..MaxAttempts
  BY JobConstants DEF Batches, Errors, States
<1> QED
  BY <1>1 DEF NoRow, RowType

LEMMA EnqueueStep ==
  ASSUME IInv, NEW rev \in Revisions, NEW b \in Backends, Enqueue(rev, b)
  PROVE  IInv'
<1> DEFINE row == [NoRow EXCEPT !.state = "queued", !.rev = rev, !.backend = b]
<1>1. PICK n \in Jobs : NextRow(n) /\ rows' = [rows EXCEPT ![n] = row]
  BY DEF Enqueue
<1>2. row \in RowType
  <2>1. "queued" \in States
    BY DEF States, Active
  <2> QED
    BY <2>1, NoRowTyped DEF RowType
<1>3. row.state = "queued" /\ row.rev = rev /\ row.owner = NoOne /\ row.error = "none"
  BY DEF NoRow
<1>4. rows[n].state = "absent"
  BY <1>1, Constants DEF NextRow
<1>5. coverage # "complete"
  BY JobConstants DEF Enqueue, Admitted, IInv, Control
<1>6. credit' = [credit EXCEPT ![n] = @ + IF row.state = "queued" THEN 1 - Due(n) ELSE 0]
  BY <1>3, <1>4 DEF Due, Enqueue, history, IInv, TypeOK
<1>7. faults' \in 0..MaxFaults /\ ops' \in 0..MaxOps
  BY DEF Enqueue, budget, IInv, TypeOK
<1> HIDE DEF row
<1> QED
  BY <1>1, <1>2, <1>3, <1>4, <1>5, <1>6, <1>7, RowStep DEF Enqueue, history

LEMMA CancelStep ==
  ASSUME IInv, NEW j \in Jobs, Cancel(j)
  PROVE  IInv'
<1> DEFINE row == Finished(rows[j], "cancelled", "other", "none")
<1>1. /\ rows[j] \in RowType /\ rows[j].state # "absent"
      /\ rows' = [rows EXCEPT ![j] = row]
  BY DEF Cancel, Active, IInv, TypeOK
<1>2. /\ row \in RowType
      /\ row.state = "cancelled" /\ row.error = "other" /\ row.owner = NoOne
      /\ row.rev = rows[j].rev
  BY <1>1, FinishedRow DEF States, Terminal, Errors, Batches
<1>3. faults' \in 0..MaxFaults /\ ops' \in 0..MaxOps
  BY JobConstants DEF Cancel, Command, IInv, TypeOK
<1>4. credit' = [credit EXCEPT ![j] = @ + IF row.state = "queued" THEN 1 - Due(j) ELSE 0]
  BY <1>2 DEF Cancel, history, IInv, TypeOK
<1>5. row.rev \in Revisions
  BY <1>1, <1>2 DEF IInv, Known
<1> HIDE DEF row
<1> QED
  BY <1>1, <1>2, <1>3, <1>4, <1>5, RowStep DEF Cancel, history, Active

LEMMA RetryStep ==
  ASSUME IInv, NEW j \in Jobs, Retry(j)
  PROVE  IInv'
<1> DEFINE row == Finished(rows[j], "queued", "none", "none")
<1>1. /\ rows[j] \in RowType /\ rows[j].state \notin {"absent", "queued"}
      /\ rows' = [rows EXCEPT ![j] = row]
  BY DEF Retry, MayRetry, IInv, TypeOK
<1>2. /\ row \in RowType
      /\ row.state = "queued" /\ row.error = "none" /\ row.owner = NoOne
      /\ row.rev = rows[j].rev
  BY <1>1, FinishedRow DEF States, Active, Errors, Batches
<1>3. faults' \in 0..MaxFaults /\ ops' \in 0..MaxOps
  BY JobConstants DEF Retry, Command, IInv, TypeOK
<1>4. credit' = [credit EXCEPT ![j] = @ + IF row.state = "queued" THEN 1 - Due(j) ELSE 0]
  BY <1>1, <1>2 DEF Due, Retry, IInv, TypeOK
<1>5. row.rev \in Revisions
  BY <1>1, <1>2 DEF IInv, Known
<1>6. coverage # "complete"
  BY JobConstants DEF Retry, Admitted, IInv, Control
<1> HIDE DEF row
<1> QED
  BY <1>1, <1>2, <1>3, <1>4, <1>5, <1>6, RowStep DEF Retry

LEMMA PruneStep ==
  ASSUME IInv, NEW j \in Jobs, Prune(j)
  PROVE  IInv'
<1> DEFINE row == [NoRow EXCEPT !.state = "pruned", !.rev = rows[j].rev]
<1>1. /\ rows[j] \in RowType /\ rows[j].state # "absent"
      /\ rows' = [rows EXCEPT ![j] = row]
  BY DEF Prune, Terminal, IInv, TypeOK
<1>2. row.state = "pruned" /\ row.rev = rows[j].rev /\ row.owner = NoOne /\ row.error = "none"
  BY DEF NoRow
<1>3. row.rev \in Revisions
  BY <1>1, <1>2 DEF IInv, Known
<1>4. row \in RowType
  <2>1. "pruned" \in States
    BY DEF States
  <2> QED
    BY <1>3, <2>1, NoRowTyped DEF RowType
<1>5. faults' \in 0..MaxFaults /\ ops' \in 0..MaxOps
  BY JobConstants DEF Prune, Command, IInv, TypeOK
<1>6. credit' = [credit EXCEPT ![j] = @ + IF row.state = "queued" THEN 1 - Due(j) ELSE 0]
  BY <1>2 DEF Prune, history, IInv, TypeOK
<1> HIDE DEF row
<1> QED
  BY <1>1, <1>2, <1>3, <1>4, <1>5, <1>6, RowStep DEF Prune, history, Active

LEMMA ClaimStep ==
  ASSUME IInv, NEW w \in Workers, NEW kind \in Kinds, NEW lapsed \in SUBSET Jobs,
         Claim(w, kind, lapsed),
         faults' \in 0..MaxFaults, ops' \in 0..MaxOps
  PROVE  IInv'
<1> DEFINE failing == {j \in Jobs : Exhausted(rows[j]) /\ Leasable(j, lapsed)}
           found == {j \in Jobs \ failing :
                        Wanted(rows[j], kind) /\ Leasable(j, lapsed)
                        /\ ~Exhausted(rows[j])}
           oldest == {j \in found : \A k \in found : j <= k}
           n == CHOOSE j \in oldest : TRUE
<1>1. /\ call[w].pc = "idle"
      /\ rows' = [j \in Jobs |->
            IF j \in failing THEN Finished(rows[j], "failed", "other", "none")
            ELSE IF j \in oldest THEN Claimed(rows[j], w) ELSE rows[j]]
      /\ call' = [call EXCEPT ![w] =
            IF oldest = {} THEN Idle ELSE [Idle EXCEPT !.pc = kind, !.job = n]]
      /\ UNCHANGED <<source, document, locking, history>>
  BY DEF Claim
<1>2. \A j \in oldest : j = n /\ j \in Jobs /\ j \notin failing
  <2>1. \A j, k \in oldest : j = k
    BY Constants
  <2> QED
    BY <2>1
<1>3. \A j \in failing : rows[j].state = "queued"
  BY DEF Exhausted
<1>4. \A j \in oldest : rows[j].state \in {"queued", "submitted", "ready"}
  BY DEF Wanted
<1>5. \A j \in oldest : kind = "submit" => rows[j].state = "queued"
  BY DEF Wanted
<1>6. ASSUME NEW j \in oldest
      PROVE  /\ Claimed(rows[j], w) \in RowType
             /\ Claimed(rows[j], w).owner = w
             /\ Claimed(rows[j], w).state = rows[j].state
             /\ Claimed(rows[j], w).error = rows[j].error
             /\ Claimed(rows[j], w).rev = rows[j].rev
  <2>1. rows[j] \in RowType /\ ~Exhausted(rows[j])
    BY DEF IInv, TypeOK
  <2>2. rows[j].state = "queued" => rows[j].attempts + 1 \in 0..MaxAttempts
    <3>1. rows[j].attempts \in 0..MaxAttempts
      BY <2>1 DEF RowType
    <3>2. rows[j].state = "queued" => ~(rows[j].attempts >= MaxAttempts)
      BY <2>1 DEF Exhausted
    <3> QED
      BY <3>1, <3>2, JobConstants
  <2>3. CASE rows[j].state = "queued"
    BY <2>1, <2>2, <2>3 DEF Claimed, RowType
  <2>4. CASE rows[j].state # "queued"
    BY <2>1, <2>4 DEF Claimed, RowType
  <2> QED
    BY <2>3, <2>4
<1>7. ASSUME NEW j \in failing
      PROVE  LET row == Finished(rows[j], "failed", "other", "none") IN
             /\ row \in RowType /\ row.state = "failed" /\ row.error = "other"
             /\ row.owner = NoOne /\ row.rev = rows[j].rev
  BY FinishedRow DEF IInv, TypeOK, States, Terminal, Errors, Batches
<1> HIDE DEF failing, oldest, n
<1>8. \A j \in Jobs :
         \/ rows'[j] = rows[j] /\ j \notin oldest
         \/ /\ j \in failing /\ j \notin oldest /\ rows[j].state = "queued"
            /\ rows'[j].state = "failed" /\ rows'[j].error = "other"
            /\ rows'[j].owner = NoOne /\ rows'[j].rev = rows[j].rev
         \/ /\ j \in oldest /\ j = n /\ rows[j].state \in Active
            /\ rows'[j].state = rows[j].state /\ rows'[j].error = rows[j].error
            /\ rows'[j].owner = w /\ rows'[j].rev = rows[j].rev
  BY <1>1, <1>2, <1>3, <1>4, <1>6, <1>7 DEF Active
<1>9. rows' \in [Jobs -> RowType]
  BY <1>1, <1>6, <1>7 DEF IInv, TypeOK
<1>10. /\ \A u \in Workers : u # w => call'[u] = call[u]
       /\ call'[w].named /\ call'[w].pc \notin {"read", "apply", "call", "ack"}
       /\ oldest = {} => call'[w] = Idle
       /\ oldest # {} => call'[w].pc = kind /\ call'[w].job = n /\ n \in oldest
       /\ call' \in [Workers -> CallType]
  <2>1. oldest # {} => n \in oldest /\ n \in Jobs
    BY <1>2
  <2>2. Idle \in CallType /\ Idle.named /\ kind \in Places
        /\ kind \notin {"read", "apply", "call", "ack", "idle"}
    BY DEF Idle, CallType, Places, Kinds
  <2>3. oldest # {} => [Idle EXCEPT !.pc = kind, !.job = n] \in CallType
    BY <2>1, <2>2 DEF CallType
  <2> QED
    BY <1>1, <2>1, <2>2, <2>3 DEF IInv, TypeOK, Idle
<1>11. TypeOK'
  <2>1. \A u \in Workers : lock' = u <=> call'[u].pc \in {"read", "apply"}
    BY <1>1, <1>10 DEF IInv, TypeOK, locking
  <2>2. \A u \in Workers : call'[u].pc = "idle" <=> call'[u].job = 0
    BY <1>2, <1>10, Constants DEF IInv, TypeOK, Idle, Kinds
  <2>3. \A j \in Jobs : rows'[j].owner # NoOne => rows'[j].state \in Active
    BY <1>8 DEF IInv, TypeOK
  <2> QED
    BY <1>1, <1>9, <1>10, <2>1, <2>2, <2>3
    DEF IInv, TypeOK, document, locking, history
<1>12. ASSUME NEW u \in Workers PROVE Leased(u)' /\ OnRow(u)' /\ Fenced(u)'
  <2>1. CASE u = w
    <3>1. \A j \in Jobs : rows[j].owner # w
      BY <1>1, Constants DEF IInv, TypeOK, Leased
    <3>2. Leased(w)'
      BY <3>1, <1>2, <1>5, <1>8, <1>10, Constants DEF Leased
    <3>3. OnRow(w)'
      BY <1>2, <1>8, <1>10 DEF OnRow, Row, Idle, Active
    <3>4. Fenced(w)'
      BY <1>10 DEF Fenced
    <3> QED
      BY <2>1, <3>2, <3>3, <3>4
  <2>2. CASE u # w
    <3>1. call'[u] = call[u]
      BY <2>2, <1>10
    <3>2. Leased(u)'
      BY <2>2, <3>1, <1>8, Constants DEF IInv, Leased
    <3>3. OnRow(u)'
      BY <3>1, <1>8, RowOfCall DEF IInv, OnRow, Row
    <3>4. Fenced(u)'
      BY <3>1, <1>1, <1>8, RowOfCall DEF IInv, Fenced, Row, document, locking
    <3> QED
      BY <3>2, <3>3, <3>4
  <2> QED
    BY <2>1, <2>2
<1>13. ASSUME NEW j \in Jobs PROVE Known(j)' /\ Paid(j)'
  <2>1. Known(j)'
    BY <1>1, <1>8 DEF IInv, Known, document, Active
  <2>2. Paid(j)'
    <3>1. Sending(j)' \subseteq Sending(j)
      BY <1>10 DEF Sending
    <3>2. credit[j] \in Int /\ credit'[j] = credit[j]
      BY <1>1 DEF IInv, TypeOK, history
    <3> QED
      BY <3>1, <3>2, <1>8, PaidWhenFewerSend DEF IInv, Active
  <2> QED
    BY <2>1, <2>2
<1>14. Control'
  BY <1>1 DEF IInv, Control, document, locking
<1> QED
  BY <1>11, <1>12, <1>13, <1>14 DEF IInv

LEMMA ClaimAnyStep ==
  ASSUME IInv, NEW w \in Workers, NEW kind \in Kinds,
         ClaimFree(w, kind) \/ ClaimFromLate(w, kind)
  PROVE  IInv'
<1>1. faults' \in 0..MaxFaults /\ ops' \in 0..MaxOps
  BY JobConstants DEF ClaimFree, ClaimFromLate, budget, Fault, IInv, TypeOK
<1>2. \E lapsed \in SUBSET Jobs : Claim(w, kind, lapsed)
  BY DEF ClaimFree, ClaimFromLate
<1> QED
  BY <1>1, <1>2, ClaimStep

\* The intent: the row was queued, so that the request is paid for.
LEMMA SubmitIntentStep ==
  ASSUME IInv, NEW w \in Workers, SubmitIntent(w)
  PROVE  IInv'
<1> DEFINE n == call[w].job
<1>1. /\ n \in Jobs /\ call[w].pc = "submit" /\ call[w].named
      /\ faults' \in 0..MaxFaults /\ ops' \in 0..MaxOps
  BY RowOfCall DEF SubmitIntent, IInv, OnRow, budget, TypeOK
<1>2. CASE MayFinish(w, "submitted")
  <2>1. /\ rows' = [rows EXCEPT ![n] = Outbound(@)]
        /\ call' = [call EXCEPT ![w].pc = "call"]
        /\ UNCHANGED <<source, document, locking, history>>
    BY <1>2 DEF SubmitIntent, Goto
  <2>2. rows[n].owner = w /\ rows[n].state = "queued"
    BY <1>1, <1>2 DEF MayFinish, Row, IInv, Leased
  <2>3. /\ Outbound(rows[n]) \in RowType
        /\ Outbound(rows[n]).state = "submitted" /\ Outbound(rows[n]).error = "none"
        /\ Outbound(rows[n]).owner = w /\ Outbound(rows[n]).rev = rows[n].rev
    <3>1. rows[n] \in RowType /\ "submitted" \in States /\ "none" \in Errors
          /\ "intent" \in Batches
      BY <1>1 DEF IInv, TypeOK, States, Active, Errors, Batches
    <3> QED
      BY <2>2, <3>1 DEF Outbound, RowType
  <2>4. \A j \in Jobs : rows'[j] = IF j = n THEN Outbound(rows[n]) ELSE rows[j]
    BY <1>1, <2>1 DEF IInv, TypeOK
  <2>5. /\ \A u \in Workers : u # w => call'[u] = call[u]
        /\ call'[w].pc = "call" /\ call'[w].job = n /\ call'[w].named
        /\ call' \in [Workers -> CallType]
    BY <1>1, <2>1 DEF IInv, TypeOK, CallType, Places
  <2>6. TypeOK'
    <3>1. rows' \in [Jobs -> RowType]
      BY <2>1, <2>3 DEF IInv, TypeOK
    <3>2. \A u \in Workers : lock' = u <=> call'[u].pc \in {"read", "apply"}
      BY <1>1, <2>1, <2>5 DEF IInv, TypeOK, locking
    <3>3. \A u \in Workers : call'[u].pc = "idle" <=> call'[u].job = 0
      BY <1>1, <2>5, Constants DEF IInv, TypeOK
    <3>4. \A j \in Jobs : rows'[j].owner # NoOne => rows'[j].state \in Active
      BY <2>3, <2>4 DEF IInv, TypeOK, Active
    <3> QED
      BY <1>1, <2>1, <2>5, <3>1, <3>2, <3>3, <3>4
      DEF IInv, TypeOK, document, locking, history
  <2>7. ASSUME NEW u \in Workers PROVE Leased(u)' /\ OnRow(u)' /\ Fenced(u)'
    <3>1. Leased(u)'
      BY <1>1, <2>2, <2>3, <2>4, <2>5 DEF IInv, Leased
    <3>2. OnRow(u)'
      BY <1>1, <2>3, <2>4, <2>5, RowOfCall DEF IInv, OnRow, Row
    <3>3. Fenced(u)'
      BY <2>1, <2>3, <2>4, <2>5, RowOfCall DEF IInv, Fenced, Row, document, locking
    <3> QED
      BY <3>1, <3>2, <3>3
  <2>8. ASSUME NEW j \in Jobs PROVE Known(j)' /\ Paid(j)'
    <3>1. Known(j)'
      BY <1>1, <2>1, <2>2, <2>3, <2>4 DEF IInv, Known, document, Active
    <3>2. CASE j = n
      <4>1. Sending(j)' = Sending(j) \cup {w} /\ w \notin Sending(j)
        BY <3>2, <1>1, <2>5 DEF Sending
      <4>2. /\ IsFiniteSet(Sending(j)')
            /\ Cardinality(Sending(j)') = Cardinality(Sending(j)) + 1
            /\ Cardinality(Sending(j)) \in Nat
        BY <1>1, <4>1, FS_AddElement, FS_CardinalityType DEF IInv, Paid
      <4>3. Due(j) = 1 /\ Due(j)' = 0
        BY <3>2, <2>2, <2>3, <2>4 DEF Due
      <4>4. credit'[j] = credit[j] /\ credit[j] \in Int
        BY <1>1, <2>1 DEF IInv, TypeOK, history
      <4> QED
        BY <3>1, <4>2, <4>3, <4>4 DEF IInv, Paid
    <3>3. CASE j # n
      <4>1. Sending(j)' \subseteq Sending(j)
        BY <3>3, <2>5 DEF Sending
      <4>2. credit[j] \in Int /\ credit'[j] = credit[j]
        BY <2>1 DEF IInv, TypeOK, history
      <4> QED
        BY <3>1, <3>3, <4>1, <4>2, <2>4, PaidWhenFewerSend DEF IInv
    <3> QED
      BY <3>2, <3>3
  <2>9. Control'
    BY <2>1 DEF IInv, Control, document, locking
  <2> QED
    BY <2>6, <2>7, <2>8, <2>9 DEF IInv
<1>3. CASE ~MayFinish(w, "submitted")
  <2>1. Finish(w, "failed", "other", "none") /\ CallEnds(w)
    BY <1>1, <1>3 DEF SubmitIntent, CallEnds, IInv, TypeOK, locking
  <2> QED
    BY <2>1, FinishStep
<1> QED
  BY <1>2, <1>3

\* One request is sent, and one less is paid for.
LEMMA SendStep ==
  ASSUME IInv, NEW w \in Workers, Send(w)
  PROVE  IInv'
<1> DEFINE n == call[w].job
<1>1. /\ n \in Jobs /\ call[w].pc = "call"
      /\ call' = [call EXCEPT ![w].pc = "called"]
      /\ credit' = [credit EXCEPT ![n] = @ - 1]
      /\ UNCHANGED <<rows, source, document, locking, budget, purged>>
  BY RowOfCall DEF Send, Goto, IInv
<1>2. /\ \A u \in Workers : u # w => call'[u] = call[u]
      /\ call'[w].pc = "called" /\ call'[w].job = n /\ call'[w].named = call[w].named
      /\ call' \in [Workers -> CallType]
  BY <1>1 DEF IInv, TypeOK, CallType, Places
<1>3. TypeOK'
  <2>1. \A u \in Workers : lock' = u <=> call'[u].pc \in {"read", "apply"}
    BY <1>1, <1>2 DEF IInv, TypeOK, locking
  <2>2. \A u \in Workers : call'[u].pc = "idle" <=> call'[u].job = 0
    BY <1>1, <1>2, Constants DEF IInv, TypeOK
  <2>3. credit' \in [Jobs -> Int]
    BY <1>1 DEF IInv, TypeOK
  <2> QED
    BY <1>1, <1>2, <2>1, <2>2, <2>3 DEF IInv, TypeOK, document, locking, budget
<1>4. ASSUME NEW u \in Workers PROVE Leased(u)' /\ OnRow(u)' /\ Fenced(u)'
  <2>1. Leased(u)'
    BY <1>1, <1>2 DEF IInv, Leased
  <2>2. OnRow(u)'
    BY <1>1, <1>2 DEF IInv, OnRow, Row
  <2>3. Fenced(u)'
    BY <1>1, <1>2 DEF IInv, Fenced, Row, document, locking
  <2> QED
    BY <2>1, <2>2, <2>3
<1>5. ASSUME NEW j \in Jobs PROVE Known(j)' /\ Paid(j)'
  <2>1. Known(j)'
    BY <1>1 DEF IInv, Known, document
  <2>2. CASE j = n
    <3>1. Sending(j)' = Sending(j) \ {w} /\ w \in Sending(j)
      BY <2>2, <1>1, <1>2 DEF Sending
    <3>2. /\ IsFiniteSet(Sending(j)')
          /\ Cardinality(Sending(j)') = Cardinality(Sending(j)) - 1
          /\ Cardinality(Sending(j)) \in Nat
      BY <1>1, <3>1, FS_RemoveElement, FS_CardinalityType DEF IInv, Paid
    <3>3. credit'[j] = credit[j] - 1 /\ credit[j] \in Int
      BY <2>2, <1>1 DEF IInv, TypeOK
    <3>4. Due(j)' = Due(j) /\ Due(j) \in {0, 1}
      BY <1>1 DEF Due
    <3> QED
      BY <2>1, <3>2, <3>3, <3>4 DEF IInv, Paid
  <2>3. CASE j # n
    <3>1. Sending(j)' \subseteq Sending(j)
      BY <2>3, <1>2 DEF Sending
    <3>2. credit[j] \in Int /\ credit'[j] = credit[j]
      BY <2>3, <1>1 DEF IInv, TypeOK
    <3> QED
      BY <2>1, <3>1, <3>2, <1>1, PaidWhenFewerSend DEF IInv
  <2> QED
    BY <2>2, <2>3
<1>6. Control'
  BY <1>1 DEF IInv, Control, document, locking
<1> QED
  BY <1>3, <1>4, <1>5, <1>6 DEF IInv

LEMMA CommitByIdStep ==
  ASSUME IInv, NEW w \in Workers, NEW n \in Jobs, CommitById(w, n)
  PROVE  IInv'
<1>1. /\ call[w].pc = "idle" /\ rows[n].state = "ready"
      /\ call' = [call EXCEPT ![w] = [pc |-> "enter", job |-> n, named |-> FALSE]]
      /\ UNCHANGED <<rows, source, document, locking, history>>
      /\ faults' \in 0..MaxFaults /\ ops' \in 0..MaxOps
  BY JobConstants DEF CommitById, Command, IInv, TypeOK
<1>2. /\ \A u \in Workers : u # w => call'[u] = call[u]
      /\ call'[w].pc = "enter" /\ call'[w].job = n
      /\ call' \in [Workers -> CallType]
  BY <1>1 DEF IInv, TypeOK, CallType, Places, Kinds
<1>3. TypeOK'
  <2>1. \A u \in Workers : lock' = u <=> call'[u].pc \in {"read", "apply"}
    BY <1>1, <1>2 DEF IInv, TypeOK, locking
  <2>2. \A u \in Workers : call'[u].pc = "idle" <=> call'[u].job = 0
    BY <1>1, <1>2, Constants DEF IInv, TypeOK
  <2> QED
    BY <1>1, <1>2, <2>1, <2>2 DEF IInv, TypeOK, document, locking, history
<1>4. ASSUME NEW u \in Workers PROVE Leased(u)' /\ OnRow(u)' /\ Fenced(u)'
  <2>1. Leased(u)'
    BY <1>1, <1>2, Constants DEF IInv, TypeOK, Leased
  <2>2. OnRow(u)'
    BY <1>1, <1>2 DEF IInv, OnRow, Row
  <2>3. Fenced(u)'
    BY <1>1, <1>2 DEF IInv, Fenced, Row, document, locking
  <2> QED
    BY <2>1, <2>2, <2>3
<1>5. ASSUME NEW j \in Jobs PROVE Known(j)' /\ Paid(j)'
  <2>1. Known(j)'
    BY <1>1 DEF IInv, Known, document
  <2>2. Sending(j)' \subseteq Sending(j)
    BY <1>2 DEF Sending
  <2>3. credit[j] \in Int /\ credit'[j] = credit[j]
    BY <1>1 DEF IInv, TypeOK, history
  <2> QED
    BY <2>1, <2>2, <2>3, <1>1, PaidWhenFewerSend DEF IInv
<1>6. Control'
  BY <1>1 DEF IInv, Control, document, locking
<1> QED
  BY <1>3, <1>4, <1>5, <1>6 DEF IInv

\* A commit that goes on touches no row; what it must know is given to it.
LEMMA CommitGoesOn ==
  ASSUME IInv, NEW w \in Workers, NEW pc \in {"read", "apply", "ack"},
         call[w].pc \in {"enter", "read", "apply"}, Goto(w, pc),
         UNCHANGED <<rows, source, excluded, coverage, history>>,
         faults' \in 0..MaxFaults, ops' \in 0..MaxOps,
         lock' \in Workers \cup {NoOne, Operator}, since' \subseteq Revisions,
         content' \in Jobs \cup {Nothing}, applied' \subseteq Jobs,
         applied \subseteq applied', applied' \subseteq applied \cup {call[w].job},
         \A u \in Workers \ {w} : (lock' = u <=> lock = u) /\ (lock = u => since' = since),
         lock' = w <=> pc \in {"read", "apply"},
         \A u \in Workers \ {w} : lock = u => applied' = applied,
         Fenced(w)',
         excluded => content' = Nothing,
         coverage = "complete" => lock # Operator \/ lock' = Operator
  PROVE  IInv'
<1>1. /\ call' \in [Workers -> CallType]
      /\ \A u \in Workers : u # w => call'[u] = call[u]
      /\ call'[w].pc = pc /\ call'[w].job = call[w].job
      /\ call'[w].named = call[w].named
      /\ call[w].job \in Jobs
  BY RowOfCall DEF IInv, TypeOK, CallType, Goto, Places
<1>2. TypeOK'
  <2>1. \A u \in Workers : lock' = u <=> call'[u].pc \in {"read", "apply"}
    BY <1>1 DEF IInv, TypeOK
  <2>2. \A u \in Workers : call'[u].pc = "idle" <=> call'[u].job = 0
    BY <1>1, Constants DEF IInv, TypeOK
  <2> QED
    BY <1>1, <2>1, <2>2 DEF IInv, TypeOK, history
<1>3. ASSUME NEW u \in Workers PROVE Leased(u)' /\ OnRow(u)' /\ Fenced(u)'
  <2>1. Leased(u)'
    BY <1>1 DEF IInv, Leased
  <2>2. OnRow(u)'
    BY <1>1 DEF IInv, OnRow, Row
  <2>3. Fenced(u)'
    BY <1>1 DEF IInv, TypeOK, Fenced, Row
  <2> QED
    BY <2>1, <2>2, <2>3
<1>4. ASSUME NEW j \in Jobs PROVE Known(j)' /\ Paid(j)'
  <2>1. Known(j)'
    BY <1>1 DEF IInv, OnRow, Known, Row
  <2>2. Sending(j)' \subseteq Sending(j)
    BY <1>1 DEF Sending
  <2>3. credit[j] \in Int /\ credit'[j] = credit[j]
    BY DEF IInv, TypeOK, history
  <2> QED
    BY <2>1, <2>2, <2>3, PaidWhenFewerSend DEF IInv
<1>5. Control'
  BY DEF IInv, Control
<1> QED
  BY <1>2, <1>3, <1>4, <1>5 DEF IInv

LEMMA CommitEnterStep ==
  ASSUME IInv, NEW w \in Workers, CommitEnter(w)
  PROVE  IInv'
<1>1. /\ call[w].pc = "enter" /\ lock = NoOne
      /\ UNCHANGED <<source, document, budget, history>>
      /\ faults' \in 0..MaxFaults /\ ops' \in 0..MaxOps
  BY DEF CommitEnter, budget, IInv, TypeOK
<1>2. ASSUME UNCHANGED locking
      PROVE  CallEnds(w)
  BY <1>1, <1>2, Constants DEF CallEnds, locking
<1>3. CASE Abandon(w) /\ UNCHANGED locking
  BY <1>2, <1>3, AbandonStep
<1>4. CASE /\ AlreadyApplied(w) /\ Finish(w, "committed", "none", "none")
           /\ UNCHANGED locking
  BY <1>2, <1>4, FinishStep DEF AlreadyApplied
<1>5. CASE /\ ~AlreadyApplied(w) /\ lock' = w /\ since' = {source} \ {Missing}
           /\ Goto(w, "read") /\ UNCHANGED rows
  <2>1. Fenced(w)'
    BY <1>1, <1>5 DEF AlreadyApplied, Fenced, Goto, IInv, TypeOK, CallType, document
  <2>2. since' \subseteq Revisions
    BY <1>5 DEF IInv, TypeOK
  <2>3. /\ content' \in Jobs \cup {Nothing} /\ applied' \subseteq Jobs
        /\ excluded => content' = Nothing
        /\ coverage = "complete" => lock # Operator
    BY <1>1, JobConstants DEF IInv, TypeOK, Control, document
  <2> QED
    BY <1>1, <1>5, <2>1, <2>2, <2>3, Constants, CommitGoesOn DEF document
<1> QED
  BY <1>3, <1>4, <1>5 DEF CommitEnter

LEMMA CommitReadStep ==
  ASSUME IInv, NEW w \in Workers, CommitRead(w)
  PROVE  IInv'
<1>1. /\ call[w].pc = "read" /\ SourceCurrent(w) /\ Goto(w, "apply") /\ lock = w
      /\ UNCHANGED <<rows, source, document, locking, history>>
      /\ faults' \in 0..MaxFaults /\ ops' \in 0..MaxOps
  BY DEF CommitRead, budget, IInv, TypeOK
<1>2. Fenced(w)'
  <2>1. /\ call'[w].pc = "apply" /\ call'[w].job = call[w].job
        /\ call[w].job \in Jobs
    BY <1>1, RowOfCall DEF Goto, IInv, TypeOK, CallType
  <2>2. Row(w).rev \in Revisions /\ Row(w).rev = source /\ ~excluded
    BY <1>1, <2>1 DEF SourceCurrent, IInv, OnRow, Known, Row
  <2>3. call[w].job \notin applied /\ source \in since \cup {Missing}
    BY <1>1 DEF IInv, Fenced
  <2> QED
    BY <1>1, <2>1, <2>2, <2>3, Constants DEF Fenced, Row, document, locking
<1> QED
  BY <1>1, <1>2, Constants, CommitGoesOn DEF IInv, TypeOK, Control, document, locking

LEMMA CommitApplyStep ==
  ASSUME IInv, NEW w \in Workers, CommitApply(w)
  PROVE  IInv'
<1>1. /\ call[w].pc = "apply" /\ Goto(w, "ack") /\ lock = w
      /\ content' = call[w].job /\ applied' = applied \cup {call[w].job}
      /\ lock' = NoOne /\ since' = {} /\ call[w].job \in Jobs /\ ~excluded
      /\ UNCHANGED <<rows, source, excluded, coverage, history>>
      /\ faults' \in 0..MaxFaults /\ ops' \in 0..MaxOps
  BY RowOfCall DEF CommitApply, Unlock, budget, IInv, TypeOK, Fenced
<1>2. Fenced(w)'
  BY <1>1 DEF Fenced, Goto, IInv, TypeOK, CallType
<1> QED
  BY <1>1, <1>2, Constants, CommitGoesOn DEF IInv, TypeOK

\* The steps in which a call ends: with _finish, or without.
LEMMA EndingStep ==
  ASSUME IInv, NEW w \in Workers,
         \/ Extract(w) \/ SubmitDone(w) \/ PollPending(w) \/ PollDone(w)
         \/ CommitTimeout(w) \/ CommitRefused(w) \/ IngestFails(w)
         \/ CommitAck(w) \/ Crash(w)
  PROVE  IInv'
<1>1. faults' \in 0..MaxFaults /\ ops' \in 0..MaxOps
  BY JobConstants DEF Extract, SubmitDone, PollPending, PollDone, CommitTimeout,
     CommitRefused, IngestFails, CommitAck, Crash, Fault, budget, IInv, TypeOK
<1>2. ASSUME call[w].pc \notin {"idle", "read", "apply"}, UNCHANGED locking,
             UNCHANGED <<source, document, history>>
      PROVE  CallEnds(w)
  BY <1>1, <1>2 DEF CallEnds, locking, IInv, TypeOK
<1>3. ASSUME call[w].pc \in {"read", "apply"}, Unlock,
             UNCHANGED <<source, document, history>>
      PROVE  CallEnds(w)
  BY <1>1, <1>3 DEF CallEnds, Unlock, IInv, TypeOK
<1>4. CASE Extract(w)
  <2>1. CallEnds(w)
    BY <1>2, <1>4 DEF Extract
  <2> QED
    BY <2>1, <1>4, FinishStep DEF Extract
<1>5. CASE SubmitDone(w)
  <2>1. CallEnds(w)
    BY <1>2, <1>5 DEF SubmitDone
  <2> QED
    BY <2>1, <1>5, FinishStep DEF SubmitDone
<1>6. CASE PollPending(w)
  <2>1. CallEnds(w)
    BY <1>2, <1>6 DEF PollPending
  <2> QED
    BY <2>1, <1>6, FinishStep DEF PollPending
<1>7. CASE PollDone(w)
  <2>1. CallEnds(w)
    BY <1>2, <1>7 DEF PollDone
  <2> QED
    BY <2>1, <1>7, FinishStep DEF PollDone
<1>8. CASE CommitTimeout(w)
  <2>1. CallEnds(w)
    BY <1>2, <1>8 DEF CommitTimeout
  <2> QED
    BY <2>1, <1>8, AbandonStep DEF CommitTimeout
<1>9. CASE CommitRefused(w)
  <2>1. CallEnds(w)
    BY <1>3, <1>9 DEF CommitRefused
  <2> QED
    BY <2>1, <1>9, FinishStep DEF CommitRefused
<1>10. CASE IngestFails(w)
  <2>1. CallEnds(w)
    BY <1>3, <1>10 DEF IngestFails
  <2> QED
    BY <2>1, <1>10, FinishStep, AbandonStep DEF IngestFails
<1>11. CASE CommitAck(w)
  <2>1. CallEnds(w)
    BY <1>2, <1>11 DEF CommitAck
  <2>2. call[w].job \in applied
    BY <1>11 DEF CommitAck, IInv, Fenced
  <2> QED
    BY <2>1, <2>2, <1>11, FinishStep DEF CommitAck
<1>12. CASE Crash(w)
  <2>1. CallEnds(w)
    BY <1>1, <1>12 DEF Crash, Unlock, CallEnds, locking
  <2> QED
    BY <2>1, <1>12, AbandonStep DEF Crash
<1> QED
  BY <1>4, <1>5, <1>6, <1>7, <1>8, <1>9, <1>10, <1>11, <1>12

\* A privacy control takes the lock; whether or not it purges the queue, no row
\* that is left is opened by it.
LEMMA ControlPurgeStep ==
  ASSUME IInv, ControlPurge
  PROVE  IInv'
<1>1. /\ lock = NoOne /\ lock' = Operator /\ ~excluded
      /\ UNCHANGED <<call, source, content, applied, excluded, since, credit>>
      /\ faults' \in 0..MaxFaults /\ ops' \in 0..MaxOps
      /\ \A w \in Workers : call[w].pc \notin {"read", "apply"}
  BY JobConstants DEF ControlPurge, Command, IInv, TypeOK
<1>2. \A j \in Jobs :
         /\ rows'[j].rev = rows[j].rev
         /\ \/ rows'[j] = rows[j] /\ coverage' = "pending"
            \/ /\ rows'[j] = rows[j] /\ rows[j].state \in {"absent", "pruned"}
            \/ /\ rows[j].state \notin {"absent", "pruned"}
               /\ rows'[j].state = "cancelled" /\ rows'[j].owner = NoOne
  <2>1. "cancelled" \in States /\ "purged" \in Errors /\ "none" \in Batches
    BY DEF States, Terminal, Errors, Batches
  <2> QED
    BY <2>1, FinishedRow DEF ControlPurge, Purged, IInv, TypeOK
<1>3. TypeOK'
  <2>1. rows' \in [Jobs -> RowType]
    <3>1. "cancelled" \in States /\ "purged" \in Errors /\ "none" \in Batches
      BY DEF States, Terminal, Errors, Batches
    <3> QED
      BY <3>1, FinishedRow DEF ControlPurge, Purged, IInv, TypeOK
  <2>2. \A j \in Jobs : rows'[j].owner # NoOne => rows'[j].state \in Active
    BY <1>2 DEF IInv, TypeOK
  <2>3. \A w \in Workers : lock' = w <=> call'[w].pc \in {"read", "apply"}
    BY <1>1, Constants
  <2>4. coverage' \in {"none", "complete", "pending"} /\ purged' \subseteq Jobs
    BY DEF ControlPurge, IInv, TypeOK
  <2> QED
    BY <1>1, <2>1, <2>2, <2>3, <2>4 DEF IInv, TypeOK
<1>4. ASSUME NEW w \in Workers PROVE Leased(w)' /\ OnRow(w)' /\ Fenced(w)'
  <2>1. Leased(w)'
    BY <1>1, <1>2, Constants DEF IInv, Leased
  <2>2. OnRow(w)'
    BY <1>1, <1>2, RowOfCall DEF IInv, OnRow, Row
  <2>3. Fenced(w)'
    BY <1>1 DEF IInv, Fenced
  <2> QED
    BY <2>1, <2>2, <2>3
<1>5. ASSUME NEW j \in Jobs PROVE Known(j)' /\ Paid(j)'
  <2>1. Known(j)'
    BY <1>1, <1>2 DEF IInv, Known, Active
  <2>2. Sending(j)' \subseteq Sending(j)
    BY <1>1 DEF Sending
  <2>3. credit[j] \in Int /\ credit'[j] = credit[j]
    BY <1>1 DEF IInv, TypeOK
  <2> QED
    BY <2>1, <2>2, <2>3, <1>2, PaidWhenFewerSend DEF IInv
<1>6. Control'
  BY <1>1 DEF Control
<1> QED
  BY <1>3, <1>4, <1>5, <1>6 DEF IInv

\* The rest of a control, its undoing, and changes of the source leave the queue
\* alone, and no commit is in its transaction when the exclusion changes.
LEMMA QueueAlone ==
  ASSUME IInv, UNCHANGED <<queue, applied, history>>,
         faults' \in 0..MaxFaults, ops' \in 0..MaxOps,
         \/ ControlSave \/ ControlFails \/ Include
         \/ \E rev \in Revisions \cup {Missing} : SourceChange(rev)
  PROVE  IInv'
<1>1. /\ source' \in Revisions \cup {Missing} /\ since' \subseteq Revisions
      /\ content' \in Jobs \cup {Nothing} /\ excluded' \in BOOLEAN
      /\ coverage' \in {"none", "complete", "pending"}
      /\ lock' \in {lock, NoOne}
      /\ \A w \in Workers : lock' = w <=> lock = w
      /\ coverage' \in {coverage, "none"}
      /\ excluded' => content' = Nothing
      /\ coverage' = "complete" => excluded' \/ lock' = Operator
  <2>1. /\ source \in Revisions \cup {Missing} /\ since \subseteq Revisions
        /\ content \in Jobs \cup {Nothing} /\ excluded \in BOOLEAN
        /\ coverage \in {"none", "complete", "pending"}
        /\ excluded => content = Nothing
        /\ coverage = "complete" => excluded \/ lock = Operator
    BY DEF IInv, TypeOK, Control
  <2>2. CASE ControlSave
    BY <2>1, <2>2, Constants DEF ControlSave
  <2>3. CASE ControlFails
    BY <2>1, <2>3, Constants DEF ControlFails
  <2>4. CASE Include
    BY <2>1, <2>4, Constants DEF Include, locking
  <2>5. CASE \E rev \in Revisions \cup {Missing} : SourceChange(rev)
    <3> PICK rev \in Revisions \cup {Missing} : SourceChange(rev)
      BY <2>5
    <3> QED
      BY <2>1 DEF SourceChange, document
  <2> QED
    BY <2>2, <2>3, <2>4, <2>5
<1>2. \A w \in Workers : lock = w =>
         /\ excluded' = excluded /\ since \subseteq since'
         /\ source' \in since' \cup {Missing} \/ source' = source
  <2> SUFFICES ASSUME NEW w \in Workers, lock = w
               PROVE  /\ excluded' = excluded /\ since \subseteq since'
                      /\ source' \in since' \cup {Missing} \/ source' = source
    OBVIOUS
  <2>1. ~ControlSave /\ ~ControlFails /\ ~Include
    BY Constants DEF ControlSave, ControlFails, Include
  <2>2. PICK rev \in Revisions \cup {Missing} : SourceChange(rev)
    BY <2>1
  <2>3. source' = rev /\ since' = (since \cup {rev}) \ {Missing} /\ excluded' = excluded
    BY <2>2 DEF SourceChange, document
  <2>4. since \subseteq Revisions
    BY DEF IInv, TypeOK
  <2> QED
    BY <2>3, <2>4, Constants
<1>3. TypeOK'
  BY <1>1 DEF IInv, TypeOK, queue, history
<1>4. ASSUME NEW w \in Workers PROVE Leased(w)' /\ OnRow(w)' /\ Fenced(w)'
  <2>1. Leased(w)' /\ OnRow(w)'
    BY DEF IInv, Leased, OnRow, Row, queue
  <2>2. call[w].pc \in {"read", "apply"} <=> lock = w
    BY DEF IInv, TypeOK
  <2>3. Fenced(w)'
    BY <1>2, <2>2 DEF IInv, Fenced, Row, queue
  <2> QED
    BY <2>1, <2>3
<1>5. ASSUME NEW j \in Jobs PROVE Known(j)' /\ Paid(j)'
  <2>1. Known(j)'
    BY <1>1 DEF IInv, Known, queue
  <2>2. Sending(j)' \subseteq Sending(j)
    BY DEF Sending, queue
  <2>3. credit[j] \in Int /\ credit'[j] = credit[j]
    BY DEF IInv, TypeOK, history
  <2> QED
    BY <2>1, <2>2, <2>3, PaidWhenFewerSend DEF IInv, queue
<1>6. Control'
  BY <1>1 DEF Control
<1> QED
  BY <1>3, <1>4, <1>5, <1>6 DEF IInv

LEMMA OperateStep ==
  ASSUME IInv, Operate
  PROVE  IInv'
<1>1. CASE ControlSave
  BY <1>1, QueueAlone DEF ControlSave, budget, IInv, TypeOK
<1>2. CASE ControlFails
  BY <1>2, QueueAlone, JobConstants DEF ControlFails, Fault, IInv, TypeOK
<1>3. CASE Include
  <2>1. faults' \in 0..MaxFaults /\ ops' \in 0..MaxOps /\ UNCHANGED <<queue, applied, history>>
    BY <1>3, JobConstants DEF Include, Command, IInv, TypeOK
  <2> QED
    BY <1>3, <2>1, QueueAlone
<1> QED
  BY <1>1, <1>2, <1>3, CancelStep, RetryStep, PruneStep, ControlPurgeStep DEF Operate

LEMMA WorkStep ==
  ASSUME IInv, NEW w \in Workers, Work(w)
  PROVE  IInv'
BY ClaimAnyStep, SubmitIntentStep, SendStep, CommitByIdStep, CommitEnterStep,
   CommitReadStep, CommitApplyStep, EndingStep DEF Work

LEMMA IInvInit == Init => IInv
<1> SUFFICES ASSUME Init PROVE IInv
  OBVIOUS
<1>1. TypeOK
  <2>1. Idle \in CallType
    BY DEF Idle, CallType, Places
  <2>2. rows \in [Jobs -> RowType] /\ call \in [Workers -> CallType]
    BY <2>1, NoRowTyped DEF Init
  <2>3. credit \in [Jobs -> Int] /\ faults \in 0..MaxFaults /\ ops \in 0..MaxOps
    BY JobConstants DEF Init
  <2>4. \A w \in Workers : lock # w /\ call[w].pc = "idle" /\ call[w].job = 0
    BY Constants DEF Init, Idle
  <2>5. \A j \in Jobs : rows[j].owner = NoOne
    BY DEF Init, NoRow
  <2> QED
    BY <2>2, <2>3, <2>4, <2>5 DEF Init, TypeOK
<1>2. ASSUME NEW w \in Workers PROVE Leased(w) /\ OnRow(w) /\ Fenced(w)
  <2>1. call[w].pc = "idle" /\ call[w].named
    BY DEF Init, Idle
  <2>2. \A j \in Jobs : rows[j].owner # w
    BY Constants DEF Init, NoRow
  <2> QED
    BY <2>1, <2>2 DEF Leased, OnRow, Fenced
<1>3. ASSUME NEW j \in Jobs PROVE Known(j) /\ Paid(j)
  <2>1. Sending(j) = {}
    BY DEF Init, Sending, Idle
  <2>2. rows[j].state = "absent" /\ rows[j].error = "none" /\ credit[j] = 1
    BY DEF Init, NoRow
  <2> QED
    BY <2>1, <2>2, FS_EmptySet DEF Init, Known, Paid, Due
<1>4. Control
  BY DEF Init, Control
<1> QED
  BY <1>1, <1>2, <1>3, <1>4 DEF IInv

LEMMA IInvNext == IInv /\ [Next]_vars => IInv'
<1> SUFFICES ASSUME IInv, [Next]_vars PROVE IInv'
  OBVIOUS
<1>1. CASE \E rev \in Revisions \cup {Missing} : SourceChange(rev)
  BY <1>1, QueueAlone DEF SourceChange, document, budget, IInv, TypeOK
<1>2. CASE UNCHANGED vars
  <2>1. TypeOK'
    BY <1>2 DEF IInv, TypeOK, vars, queue, document, locking, budget, history
  <2>2. ASSUME NEW w \in Workers PROVE Leased(w)' /\ OnRow(w)' /\ Fenced(w)'
    BY <1>2 DEF IInv, Leased, OnRow, Fenced, Row, vars, queue, document, locking
  <2>3. ASSUME NEW j \in Jobs PROVE Known(j)' /\ Paid(j)'
    BY <1>2 DEF IInv, Known, Paid, Sending, Due, vars, queue, document, history
  <2>4. Control'
    BY <1>2 DEF IInv, Control, vars, document, locking
  <2> QED
    BY <2>1, <2>2, <2>3, <2>4 DEF IInv
<1> QED
  BY <1>1, <1>2, EnqueueStep, WorkStep, OperateStep DEF Next

-----------------------------------------------------------------------------
\* The invariant holds throughout every behaviour.
THEOREM JobsInvariant == Spec => []IInv
  BY IInvInit, IInvNext, PTL DEF Spec

\* Type correctness; the store lock is held by exactly the commits inside their
\* transaction, and attempts never pass the queue's limit.
THEOREM JobsTypeOK == Spec => []TypeOK
<1>1. IInv => TypeOK
  BY DEF IInv
<1> QED
  BY <1>1, JobsInvariant, PTL

\* A row that says committed belongs to a job whose marker is in the store,
\* whichever of several calls acknowledged it.
THEOREM JobsCommittedMeansApplied == Spec => []CommittedMeansApplied
<1>1. IInv => CommittedMeansApplied
  BY DEF IInv, Known, CommittedMeansApplied
<1> QED
  BY <1>1, JobsInvariant, PTL

\* After a committed exclusion the store has nothing of the source, and the
\* queue nothing to work on unless the receipt says so.
THEOREM JobsExcludedSourceGone == Spec => []ExcludedSourceGone
<1>1. IInv => ExcludedSourceGone
  BY DEF IInv, Control, Known, ExcludedSourceGone
<1> QED
  BY <1>1, JobsInvariant, PTL

\* No request is sent to the provider that no enqueue or retry called for.
THEOREM JobsSentAsCalledFor == Spec => []SentAsCalledFor
<1>1. IInv => SentAsCalledFor
  <2> SUFFICES ASSUME IInv, NEW j \in Jobs PROVE credit[j] >= 0
    BY DEF SentAsCalledFor
  <2>1. Cardinality(Sending(j)) \in Nat /\ Due(j) \in {0, 1}
    BY FS_CardinalityType DEF IInv, Paid, Due
  <2>2. credit[j] >= Cardinality(Sending(j)) + Due(j) /\ credit[j] \in Int
    BY DEF IInv, Paid, TypeOK
  <2> QED
    BY <2>1, <2>2
<1> QED
  BY <1>1, JobsInvariant, PTL

\* What a commit applies was the source's content while it had the store lock,
\* and the source was allowed.
THEOREM JobsAppliedFresh == Spec => AppliedFresh
<1>1. IInv /\ [Next]_vars =>
         [\A w \in Workers : CommitApply(w) => Row(w).rev \in since /\ ~excluded]_vars
  BY DEF IInv, Fenced, CommitApply
<1> QED
  BY <1>1, JobsInvariant, PTL DEF Spec, AppliedFresh
-----------------------------------------------------------------------------
\* What every step but an enqueue or a retry does to a row: it opens none, and
\* a cancelled one stays so until it is pruned.
Moves(j) ==
    /\ rows'[j].state \in Active => rows[j].state \in Active
    /\ rows'[j].state = "absent" <=> rows[j].state = "absent"
    /\ rows[j].state = "cancelled" => rows'[j].state \in {"cancelled", "pruned"}

\* Whoever is in its transaction after a step was there before, or has found
\* its row active.
Enters(w) == call'[w].pc \in {"read", "apply"} =>
    /\ call'[w].job = call[w].job
    /\ \/ call[w].pc \in {"read", "apply"}
       \/ call[w].pc # "idle" /\ Row(w).state \in Active

LEMMA FinishMoves ==
  ASSUME IInv, NEW w \in Workers, call[w].pc # "idle",
         NEW state \in {"ready", "submitted", "committed", "stale", "failed"},
         NEW error \in {"none", "unknown", "other"},
         NEW batch \in {"none", "handle"},
         Finish(w, state, error, batch)
  PROVE  /\ \A j \in Jobs : Moves(j)
         /\ \A u \in Workers : Enters(u)
<1> DEFINE n == call[w].job
<1>0. /\ state \in States /\ error \in Errors /\ batch \in Batches
      /\ state \notin {"absent", "cancelled"}
      /\ state \in Active \/ state \in Terminal
  BY DEF States, Errors, Batches, Active, Terminal
<1>1. n \in Jobs /\ rows \in [Jobs -> RowType] /\ rows[n] \in RowType
  BY RowOfCall DEF IInv, TypeOK
<1>2. \A j \in Jobs : \/ rows'[j] = rows[j]
                      \/ /\ j = n /\ rows'[j].state = state
                         /\ rows[j].state \in Active \cup {state}
  <2>1. MayFinish(w, state) => rows[n].state \in Active \cup {state}
    BY DEF MayFinish, Row
  <2>2. Finished(rows[n], state, error, batch).state = state
    BY <1>0, <1>1, FinishedRow
  <2>3. CASE MayFinish(w, state)
    BY <1>1, <2>1, <2>2, <2>3 DEF Finish
  <2>4. CASE ~MayFinish(w, state)
    BY <2>4 DEF Finish
  <2> QED
    BY <2>3, <2>4
<1>3. \A j \in Jobs : Moves(j)
  BY <1>0, <1>2 DEF Moves, Active
<1>4. \A u \in Workers : call'[u] = IF u = w THEN Idle ELSE call[u]
  BY DEF IInv, TypeOK, Finish
<1> QED
  BY <1>3, <1>4 DEF Enters, Idle

LEMMA AbandonMoves ==
  ASSUME IInv, NEW w \in Workers, Abandon(w)
  PROVE  /\ \A j \in Jobs : Moves(j)
         /\ \A u \in Workers : Enters(u)
<1>1. \A j \in Jobs : rows'[j].state = rows[j].state
  BY DEF Abandon, IInv, TypeOK, RowType
<1>2. \A u \in Workers : call'[u] = IF u = w THEN Idle ELSE call[u]
  BY DEF IInv, TypeOK, Abandon
<1> QED
  BY <1>1, <1>2 DEF Moves, Enters, Idle

\* A claim changes the state of queued rows without attempts left only.
LEMMA ClaimMoves ==
  ASSUME IInv, NEW w \in Workers, NEW kind \in Kinds, NEW lapsed \in SUBSET Jobs,
         Claim(w, kind, lapsed)
  PROVE  /\ \A j \in Jobs : Moves(j)
         /\ \A u \in Workers : Enters(u)
<1>1. \A j \in Jobs :
         \/ rows'[j].state = rows[j].state
         \/ rows[j].state = "queued" /\ rows'[j].state = "failed"
  <2> SUFFICES ASSUME NEW j \in Jobs
               PROVE  \/ rows'[j].state = rows[j].state
                      \/ rows[j].state = "queued" /\ rows'[j].state = "failed"
    OBVIOUS
  <2>1. \/ rows'[j] = rows[j] \/ rows'[j] = Claimed(rows[j], w)
        \/ Exhausted(rows[j]) /\ rows'[j] = Finished(rows[j], "failed", "other", "none")
    BY DEF Claim
  <2>2. rows[j] \in RowType /\ "failed" \in States /\ "other" \in Errors /\ "none" \in Batches
    BY DEF IInv, TypeOK, States, Terminal, Errors, Batches
  <2>3. Claimed(rows[j], w).state = rows[j].state
    BY <2>2 DEF Claimed, RowType
  <2>4. Finished(rows[j], "failed", "other", "none").state = "failed"
    BY <2>2, FinishedRow
  <2> QED
    BY <2>1, <2>3, <2>4 DEF Exhausted
<1>2. \A u \in Workers : u # w => call'[u] = call[u]
  BY DEF IInv, TypeOK, Claim
<1>3. call'[w].pc \notin {"read", "apply"}
  BY DEF IInv, TypeOK, Claim, Idle, Kinds
<1> QED
  BY <1>1, <1>2, <1>3 DEF Moves, Enters, Active

\* No step of a call opens a row or reopens a cancelled one, and only
\* CommitApply changes the store.
LEMMA WorkMoves ==
  ASSUME IInv, NEW w \in Workers, Work(w)
  PROVE  /\ \A j \in Jobs : Moves(j)
         /\ \A u \in Workers : Enters(u)
         /\ CommitApply(w) \/ UNCHANGED <<content, applied>>
<1> USE DEF document
<1>1. ASSUME NEW kind \in Kinds, ClaimFree(w, kind) \/ ClaimFromLate(w, kind)
      PROVE  /\ \A j \in Jobs : Moves(j)
             /\ \A u \in Workers : Enters(u)
             /\ UNCHANGED <<content, applied>>
  <2>1. PICK lapsed \in SUBSET Jobs : Claim(w, kind, lapsed)
    BY <1>1 DEF ClaimFree, ClaimFromLate
  <2> QED
    BY <2>1, ClaimMoves DEF Claim
<1>2. CASE SubmitIntent(w)
  <2>1. CASE MayFinish(w, "submitted")
    <3>1. Row(w).state \in Active /\ call[w].job \in Jobs
      BY <1>2, <2>1, RowOfCall DEF MayFinish, SubmitIntent, Active, Terminal, IInv
    <3>2. \A j \in Jobs : \/ rows'[j] = rows[j]
                          \/ /\ rows[j].state \in Active
                             /\ rows'[j].state = "submitted"
      <4>1. rows' = [rows EXCEPT ![call[w].job] = Outbound(rows[call[w].job])]
        BY <1>2, <2>1 DEF SubmitIntent
      <4>2. Outbound(rows[call[w].job]).state = "submitted"
        BY <3>1 DEF Outbound, IInv, TypeOK, RowType
      <4> QED
        BY <3>1, <4>1, <4>2 DEF Row, IInv, TypeOK
    <3>3. \A u \in Workers : call'[u] = call[u] \/ call'[u].pc = "call"
      BY <1>2, <2>1 DEF SubmitIntent, Goto, IInv, TypeOK, CallType
    <3> QED
      BY <1>2, <3>2, <3>3 DEF SubmitIntent, Moves, Enters, Active
  <2> QED
    BY <1>2, <2>1, FinishMoves DEF SubmitIntent
<1>3. CASE \/ Extract(w) \/ SubmitDone(w) \/ PollPending(w) \/ PollDone(w)
           \/ CommitRefused(w) \/ CommitAck(w)
  BY <1>3, FinishMoves DEF Extract, SubmitDone, PollPending, PollDone,
     CommitRefused, CommitAck
<1>4. CASE CommitTimeout(w) \/ IngestFails(w) \/ Crash(w)
  BY <1>4, FinishMoves, AbandonMoves DEF CommitTimeout, IngestFails, Crash
<1>5. ASSUME UNCHANGED rows PROVE \A j \in Jobs : Moves(j)
  BY <1>5 DEF Moves
<1>6. CASE CommitEnter(w)
  <2>1. CASE Row(w).state \notin Active
    BY <1>6, <2>1, AbandonMoves DEF CommitEnter
  <2>2. CASE Row(w).state \in Active /\ AlreadyApplied(w)
    BY <1>6, <2>2, FinishMoves DEF CommitEnter
  <2>3. CASE Row(w).state \in Active /\ ~AlreadyApplied(w)
    <3>1. call[w].pc = "enter" /\ Goto(w, "read") /\ UNCHANGED <<rows, content, applied>>
      BY <1>6, <2>3 DEF CommitEnter
    <3>2. \A u \in Workers : /\ call'[u].job = call[u].job
                             /\ u # w => call'[u] = call[u]
      BY <3>1 DEF Goto, IInv, TypeOK, CallType
    <3> QED
      BY <1>5, <2>3, <3>1, <3>2 DEF Enters
  <2> QED
    BY <2>1, <2>2, <2>3
<1>7. CASE CommitRead(w) \/ CommitApply(w) \/ Send(w)
  <2>1. \A u \in Workers : /\ call'[u].job = call[u].job
                           /\ u # w => call'[u] = call[u]
    BY <1>7 DEF CommitRead, CommitApply, Send, Goto, IInv, TypeOK, CallType
  <2>2. call'[w].pc \in {"read", "apply"} => call[w].pc = "read"
    BY <1>7 DEF CommitRead, CommitApply, Send, Goto, IInv, TypeOK, CallType
  <2> QED
    BY <1>5, <1>7, <2>1, <2>2 DEF Enters, CommitRead, Send, CommitApply
<1>8. CASE \E j \in Jobs : CommitById(w, j)
  <2>1. \A u \in Workers : call'[u] = call[u] \/ call'[u].pc = "enter"
    BY <1>8 DEF CommitById, IInv, TypeOK
  <2> QED
    BY <1>5, <1>8, <2>1 DEF CommitById, Enters
<1> QED
  BY <1>1, <1>2, <1>3, <1>4, <1>6, <1>7, <1>8 DEF Work

\* Of the operator's commands only a retry opens a row, which was closed, not
\* purged, and only the end of a control changes the store.
LEMMA OperateMoves ==
  ASSUME IInv, Operate
  PROVE  /\ UNCHANGED <<applied, call>>
         /\ \/ \E j \in Jobs : Retry(j)
            \/ /\ \A j \in Jobs : Moves(j)
               /\ \/ UNCHANGED content
                  \/ UNCHANGED rows /\ content' = Nothing
<1> USE DEF document, queue
<1>1. ASSUME UNCHANGED rows PROVE \A j \in Jobs : Moves(j)
  BY <1>1 DEF Moves
<1>2. "cancelled" \in States /\ "other" \in Errors /\ "none" \in Batches
      /\ "purged" \in Errors
  BY DEF States, Terminal, Errors, Batches
<1>3. ASSUME NEW j \in Jobs, Cancel(j)
      PROVE  (\A k \in Jobs : Moves(k)) /\ UNCHANGED <<content, applied, call>>
  <2>1. \A k \in Jobs : \/ rows'[k] = rows[k]
                        \/ rows'[k].state = "cancelled" /\ rows[k].state # "absent"
    BY <1>2, <1>3, FinishedRow DEF Cancel, IInv, TypeOK, Active
  <2> QED
    BY <1>3, <2>1 DEF Cancel, Moves, Active
<1>4. ASSUME NEW j \in Jobs, Prune(j)
      PROVE  (\A k \in Jobs : Moves(k)) /\ UNCHANGED <<content, applied, call>>
  <2>1. \A k \in Jobs : \/ rows'[k] = rows[k]
                        \/ rows'[k].state = "pruned" /\ rows[k].state # "absent"
    BY <1>4 DEF Prune, NoRow, IInv, TypeOK, Terminal
  <2> QED
    BY <1>4, <2>1 DEF Prune, Moves, Active
<1>5. CASE ControlPurge
  <2>1. \A k \in Jobs : \/ rows'[k] = rows[k]
                        \/ rows'[k].state = "cancelled" /\ rows[k].state # "absent"
    BY <1>2, <1>5, FinishedRow DEF ControlPurge, Purged, IInv, TypeOK
  <2>2. UNCHANGED <<content, applied, call>>
    BY <1>5 DEF ControlPurge
  <2>3. \A k \in Jobs : Moves(k)
    BY <2>1 DEF Moves, Active
  <2> QED
    BY <2>2, <2>3
<1>6. CASE ControlSave \/ ControlFails \/ Include
  <2>1. /\ UNCHANGED <<rows, applied, call>>
        /\ content' = content \/ content' = Nothing
    BY <1>6 DEF ControlSave, ControlFails, Include
  <2> QED
    BY <1>1, <2>1
<1>7. ASSUME NEW j \in Jobs, Retry(j) PROVE UNCHANGED <<applied, call>>
  BY <1>7 DEF Retry
<1> HIDE DEF document, queue
<1> QED
  BY <1>3, <1>4, <1>5, <1>6, <1>7 DEF Operate

\* A privacy purge wins over every step of a call, and over every command but
\* the pruning of the row.
THEOREM JobsPrivacyWins == Spec => PrivacyWins
<1>1. IInv /\ [Next]_vars =>
         [\A j \in Jobs : rows[j].error = "purged" =>
             rows'[j].state \in {"cancelled", "pruned"}]_vars
  <2> SUFFICES ASSUME IInv, Next, NEW j \in Jobs, rows[j].error = "purged"
               PROVE  rows'[j].state \in {"cancelled", "pruned"}
    OBVIOUS
  <2>1. rows[j].state = "cancelled"
    BY DEF IInv, Known
  <2>2. ASSUME Moves(j) PROVE rows'[j].state \in {"cancelled", "pruned"}
    BY <2>1, <2>2 DEF Moves
  <2>3. ASSUME NEW rev \in Revisions, NEW b \in Backends, Enqueue(rev, b)
        PROVE  rows'[j].state = "cancelled"
    <3>1. PICK k \in Jobs :
             /\ NextRow(k)
             /\ rows' = [rows EXCEPT ![k] =
                   [NoRow EXCEPT !.state = "queued", !.rev = rev, !.backend = b]]
      BY <2>3 DEF Enqueue
    <3>2. rows[k].state = "absent"
      BY <3>1, Constants DEF NextRow
    <3> QED
      BY <2>1, <3>1, <3>2
  <2>4. ASSUME NEW k \in Jobs, Retry(k) PROVE rows'[j].state = "cancelled"
    <3>1. k # j
      BY <2>4 DEF Retry, MayRetry
    <3> QED
      BY <2>1, <2>4, <3>1 DEF Retry
  <2>5. CASE \E rev \in Revisions \cup {Missing} : SourceChange(rev)
    BY <2>1, <2>5 DEF SourceChange, queue
  <2> QED
    BY <2>2, <2>3, <2>4, <2>5, WorkMoves, OperateMoves DEF Next
<1> QED
  BY <1>1, JobsInvariant, PTL DEF Spec, PrivacyWins
-----------------------------------------------------------------------------
\* A step that opens no row and lets no commit enter without an active row
\* only closes jobs of the ledger.
LEMMA MovesClose ==
  ASSUME IInv, \A j \in Jobs : Moves(j), \A u \in Workers : Enters(u),
         UNCHANGED applied, NEW j \in Jobs
  PROVE  \/ Status(j)' = Status(j)
         \/ Status(j) = "open" /\ Status(j)' = "closed"
<1>1. InFlight(j)' => rows[j].state \in Active \/ InFlight(j)
  BY DEF InFlight, Enters, Row
<1>2. InFlight(j) => rows[j].state # "absent"
  BY DEF InFlight, IInv, OnRow, Row
<1>3. rows[j].state \in Active => rows[j].state # "absent"
  BY DEF Active
<1> HIDE DEF InFlight, Active
<1> QED
  BY <1>1, <1>2, <1>3 DEF Status, Moves

\* A commit that writes was under way for an open job, and for that job only.
LEMMA ApplyApplies ==
  ASSUME IInv, NEW w \in Workers, CommitApply(w)
  PROVE  Ledger!Apply(call[w].job)
<1> DEFINE n == call[w].job
<1>1. /\ n \in Jobs /\ n \notin applied /\ call[w].pc = "apply"
      /\ content' = n /\ applied' = applied \cup {n} /\ UNCHANGED rows
      /\ \A u \in Workers : /\ call'[u].job = call[u].job
                            /\ u # w => call'[u] = call[u]
  BY RowOfCall DEF CommitApply, Goto, IInv, TypeOK, CallType, Fenced
<1>2. Status(n) = "open" /\ Status(n)' = "applied"
  BY <1>1 DEF Status, InFlight
<1>3. \A j \in Jobs \ {n} : Status(j)' = Status(j)
  <2> SUFFICES ASSUME NEW j \in Jobs \ {n} PROVE Status(j)' = Status(j)
    OBVIOUS
  <2>1. InFlight(j)' <=> InFlight(j)
    BY <1>1 DEF InFlight
  <2>2. j \in applied' <=> j \in applied
    BY <1>1
  <2> QED
    BY <1>1, <2>1, <2>2 DEF Status
<1> QED
  BY <1>1, <1>2, <1>3 DEF Ledger!Apply

\* A row that is queued anew opens its job, unless it is applied or open.
LEMMA QueueOpens ==
  ASSUME NEW n \in Jobs, UNCHANGED <<call, applied, content>>,
         rows'[n].state = "queued", rows[n].state \notin Active,
         \A j \in Jobs \ {n} : rows'[j] = rows[j]
  PROVE  Ledger!Open(n) \/ UNCHANGED Ledger!vars
<1>1. \A j \in Jobs : InFlight(j)' <=> InFlight(j)
  BY DEF InFlight
<1>2. \A j \in Jobs \ {n} : Status(j)' = Status(j)
  BY <1>1 DEF Status
<1>3. CASE n \in applied \/ InFlight(n)
  <2>1. Status(n)' = Status(n)
    BY <1>1, <1>3 DEF Status, Active
  <2> QED
    BY <1>2, <2>1 DEF Ledger!vars
<1>4. CASE n \notin applied /\ ~InFlight(n)
  <2>1. Status(n) \in {"absent", "closed"} /\ Status(n)' = "open"
    BY <1>4 DEF Status, Active
  <2> QED
    BY <1>2, <2>1 DEF Ledger!Open
<1> QED
  BY <1>3, <1>4

\* Every step of the queue is a step of the ledger, or none.
LEMMA JobsRefinesStep == IInv /\ [Next]_vars => [Ledger!Next]_(Ledger!vars)
<1> SUFFICES ASSUME IInv, [Next]_vars PROVE [Ledger!Next]_(Ledger!vars)
  OBVIOUS
<1>1. ASSUME UNCHANGED <<content, applied>>, \A j \in Jobs : Moves(j),
             \A u \in Workers : Enters(u)
      PROVE  Ledger!Next
  <2> DEFINE js == {j \in Jobs : Status(j)' # Status(j)}
  <2>1. \A j \in Jobs : \/ Status(j)' = Status(j)
                        \/ Status(j) = "open" /\ Status(j)' = "closed"
    BY <1>1, MovesClose
  <2>2. Ledger!Close(js)
    BY <1>1, <2>1 DEF Ledger!Close
  <2>3. js \in SUBSET Jobs
    OBVIOUS
  <2> QED
    BY <2>2, <2>3 DEF Ledger!Next
<1>2. ASSUME UNCHANGED <<rows, call>>
      PROVE  (\A j \in Jobs : Moves(j)) /\ \A u \in Workers : Enters(u)
  BY <1>2 DEF Moves, Enters
<1>3. CASE \/ UNCHANGED vars
           \/ \E rev \in Revisions \cup {Missing} : SourceChange(rev)
  BY <1>1, <1>2, <1>3 DEF SourceChange, vars, queue, document
<1>4. ASSUME NEW rev \in Revisions, NEW b \in Backends, Enqueue(rev, b)
      PROVE  [Ledger!Next]_(Ledger!vars)
  <2> DEFINE row == [NoRow EXCEPT !.state = "queued", !.rev = rev, !.backend = b]
  <2>1. PICK n \in Jobs : NextRow(n) /\ rows' = [rows EXCEPT ![n] = row]
    BY <1>4 DEF Enqueue
  <2>2. rows[n].state = "absent" /\ row.state = "queued"
    BY <2>1, Constants DEF NextRow, NoRow
  <2> HIDE DEF row
  <2>3. /\ rows'[n].state = "queued" /\ rows[n].state \notin Active
        /\ \A j \in Jobs \ {n} : rows'[j] = rows[j]
    BY <2>1, <2>2 DEF IInv, TypeOK, Active
  <2> QED
    BY <1>4, <2>3, QueueOpens DEF Enqueue, document, Ledger!Next
<1>5. ASSUME NEW n \in Jobs, Retry(n)
      PROVE  [Ledger!Next]_(Ledger!vars)
  <2>1. "queued" \in States /\ "none" \in Errors /\ "none" \in Batches
    BY DEF States, Active, Errors, Batches
  <2>2. /\ rows'[n].state = "queued" /\ rows[n].state \notin Active
        /\ \A j \in Jobs \ {n} : rows'[j] = rows[j]
    BY <1>5, <2>1, FinishedRow DEF Retry, MayRetry, IInv, TypeOK, Active
  <2> QED
    BY <1>5, <2>2, QueueOpens DEF Retry, document, Ledger!Next
<1>6. ASSUME NEW w \in Workers, Work(w) PROVE Ledger!Next
  <2>1. CASE CommitApply(w)
    <3>1. call[w].job \in Jobs
      BY <2>1, RowOfCall DEF CommitApply, IInv
    <3> QED
      BY <2>1, <3>1, ApplyApplies DEF Ledger!Next
  <2> QED
    BY <1>1, <1>6, <2>1, WorkMoves
<1>7. CASE Operate
  <2>1. CASE UNCHANGED <<rows, applied, call>> /\ content' = Nothing
    <3>1. \A j \in Jobs : Status(j)' = Status(j)
      BY <2>1 DEF Status, InFlight
    <3> QED
      BY <2>1, <3>1 DEF Ledger!Forget, Ledger!Next
  <2>2. UNCHANGED call => \A u \in Workers : Enters(u)
    BY DEF Enters
  <2> QED
    BY <1>1, <1>5, <1>7, <2>1, <2>2, OperateMoves
<1> QED
  BY <1>3, <1>4, <1>6, <1>7 DEF Next

\* The queue and its store implement the ledger: an open job is applied at most
\* once, for good, and nothing that is closed takes effect.
THEOREM JobsRefinement == Spec => ImplementsJobLedger
<1>1. Init => Ledger!Init
  <2> SUFFICES ASSUME Init PROVE Ledger!Init
    OBVIOUS
  <2>1. ASSUME NEW j \in Jobs PROVE Status(j) = "absent"
    BY DEF Init, NoRow, Idle, Status, InFlight, Active
  <2> QED
    BY <2>1 DEF Init, Ledger!Init
<1> QED
  BY <1>1, JobsRefinesStep, JobsInvariant, PTL
  DEF Spec, Ledger!Spec, ImplementsJobLedger
=============================================================================
