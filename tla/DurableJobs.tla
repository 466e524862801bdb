----------------------------- MODULE DurableJobs ----------------------------
(***************************************************************************)
(* napmem_jobs.JobQueue: extraction jobs of one source in a SQLite table,  *)
(* worked off by calls (run, submit, collect, commit) that hold leases on  *)
(* rows, die and are repeated, while the source file changes and an        *)
(* operator cancels, retries, prunes, excludes and includes.               *)
(*                                                                         *)
(* Every SQLite transaction is one step (BEGIN IMMEDIATE serialises them); *)
(* the canonical store is reduced to the job whose records it holds, its   *)
(* applied_jobs marker and its exclusion of the source, and its lock and   *)
(* commit to the steps that StoreTransactions implements.  A call uses a   *)
(* fresh worker name, so a lease left by a call that ended belongs to      *)
(* Nobody who could use it.  Payloads follow the row's state (kept while   *)
(* the job is active, cleared otherwise) and are not modelled apart.       *)
(***************************************************************************)
EXTENDS Integers

CONSTANTS MaxJobs,      \* bound on the rows ever inserted
          Workers,      \* calls of run, submit, collect and commit at a time
          Revisions,    \* the contents the source file may have
          Backends,     \* the extraction backends in use
          MaxAttempts,  \* the queue's max_attempts
          MaxFaults,    \* bound on crashes, errors, timeouts, late workers
          MaxOps,       \* bound on operator commands
          NoOne,        \* the owner of a free row or lock
          Nobody,       \* the owner of a lease whose call has ended
          Operator,     \* the process that runs a control command
          Missing,      \* the source file does not exist
          Nothing       \* the store has no record of the source

Jobs == 1..MaxJobs

ASSUME JobConstants ==
    /\ MaxJobs \in Nat /\ MaxAttempts \in Nat \ {0}
    /\ MaxFaults \in Nat /\ MaxOps \in Nat
    /\ Backends \subseteq {"heuristic", "anthropic"}
    /\ {NoOne, Nobody, Operator} \cap Workers = {}
    /\ NoOne # Nobody /\ NoOne # Operator
    /\ Missing \notin Revisions
    /\ Nothing \notin Jobs

VARIABLES
    rows,      \* the jobs table, in order of created_at
    source,    \* what the source file contains
    content,   \* the job whose records the store holds, or Nothing
    applied,   \* applied_jobs of the store
    excluded,  \* the store's controls exclude the source
    coverage,  \* jobs coverage of the latest exclusion's deletion receipt
    lock,      \* who holds the store lock
    call,      \* what each worker is doing, and to which row
    faults,    \* faults so far
    ops        \* operator commands so far

\* Bookkeeping for the properties, read by no action.
VARIABLES credit,   \* requests an enqueue or retry called for, less those sent
          since,    \* contents of the source since a worker took the lock
          purged    \* jobs that a privacy control has purged

queue == <<rows, call>>
document == <<content, applied, excluded, coverage>>
locking == <<lock, since>>
budget == <<faults, ops>>
history == <<credit, purged>>
vars == <<queue, source, document, locking, budget, history>>

Active == {"queued", "submitted", "ready"}
Terminal == {"committed", "stale", "failed", "cancelled"}

NoRow == [state |-> "absent", rev |-> Missing, backend |-> "", batch |-> "none",
          error |-> "none", owner |-> NoOne, attempts |-> 0]

Idle == [pc |-> "idle", job |-> 0, named |-> TRUE]

Init ==
    /\ rows = [j \in Jobs |-> NoRow]
    /\ call = [w \in Workers |-> Idle]
    /\ source \in Revisions
    /\ content = Nothing /\ applied = {}
    /\ excluded = FALSE /\ coverage = "none"
    /\ lock = NoOne
    /\ faults = 0 /\ ops = 0
    /\ credit = [j \in Jobs |-> 1] /\ since = {} /\ purged = {}

Fault == faults < MaxFaults /\ faults' = faults + 1 /\ UNCHANGED ops
Command == ops < MaxOps /\ ops' = ops + 1 /\ UNCHANGED faults
-----------------------------------------------------------------------------
\* _finish: the row of a call moves to another state, if it is still there,
\* the call still owns it (unless it gave no name), and it is not terminal
\* in another state ("A privacy cancellation wins").
Row(w) == rows[call[w].job]

\* Mutant: a late acknowledgment overwrites a terminal row.
MayFinishAnyhow(w, state) ==
    /\ Row(w).state \in Active \cup Terminal
    /\ call[w].named => Row(w).owner = w

MayFinish(w, state) ==
    /\ Row(w).state \in Active \cup Terminal
    /\ call[w].named => Row(w).owner = w
    /\ Row(w).state \in Terminal => Row(w).state = state

Finished(row, state, error, batch) ==
    [row EXCEPT !.state = state, !.error = error, !.owner = NoOne,
                !.batch = IF state \in Terminal THEN "none" ELSE batch]

\* The call ends with _finish; when that raises, only the call ends.
Finish(w, state, error, batch) ==
    /\ rows' = IF MayFinish(w, state)
               THEN [rows EXCEPT ![call[w].job] =
                        Finished(@, state, error, batch)]
               ELSE rows
    /\ call' = [call EXCEPT ![w] = Idle]

\* The call ends without _finish: its lease stays until it runs out.
Abandon(w) ==
    /\ rows' = [j \in Jobs |->
                   IF rows[j].owner = w THEN [rows[j] EXCEPT !.owner = Nobody]
                   ELSE rows[j]]
    /\ call' = [call EXCEPT ![w] = Idle]

Goto(w, pc) == call' = [call EXCEPT ![w].pc = pc]

Unlock == lock' = NoOne /\ since' = {}
-----------------------------------------------------------------------------
\* enqueue: under the store lock, an exclusion is refused, and content that
\* is being worked on, or was the latest job and is not stale or purged, is
\* not queued again.  The caller read the content some time before.
Latest(b, j) ==
    /\ rows[j].backend = b
    /\ \A k \in Jobs : k > j => rows[k].backend # b

Duplicate(rev, b) == \E j \in Jobs :
    /\ rows[j].backend = b
    /\ rows[j].rev = rev
    /\ \/ rows[j].state \in Active
       \/ Latest(b, j) /\ rows[j].state # "stale" /\ rows[j].error # "purged"

NextRow(j) == \A k \in Jobs : rows[k].state = "absent" <=> k >= j

\* The store lock is held and the source allowed.  Mutant: checked unlocked.
AdmittedUnlocked == ~excluded

Admitted == lock = NoOne /\ ~excluded

Enqueue(rev, b) ==
    /\ Admitted
    /\ ~Duplicate(rev, b)
    /\ \E j \in Jobs :
          /\ NextRow(j)
          /\ rows' = [rows EXCEPT ![j] =
                [NoRow EXCEPT !.state = "queued", !.rev = rev, !.backend = b]]
    /\ UNCHANGED <<call, source, document, locking, budget, history>>

\* claim: the oldest row of the wanted kind whose lease is free or has run
\* out; before that, queued rows without attempts left fail.
Wanted(row, kind) ==
    \/ kind = "extract" /\ row.state = "queued" /\ row.backend = "heuristic"
    \/ kind = "submit" /\ row.state = "queued" /\ row.backend = "anthropic"
    \/ kind = "poll" /\ row.state = "submitted" /\ row.backend = "anthropic"
    \/ kind = "enter" /\ row.state = "ready"

\* Mutant: a lease never runs out.
LeasableWhenFree(j, lapsed) == rows[j].owner = NoOne

Leasable(j, lapsed) == rows[j].owner = NoOne \/ j \in lapsed

\* Mutant: one attempt too many.
ExhaustedLate(row) == row.state = "queued" /\ row.attempts > MaxAttempts

Exhausted(row) == row.state = "queued" /\ row.attempts >= MaxAttempts

Claimed(row, w) ==
    [row EXCEPT !.owner = w,
                !.attempts = IF row.state = "queued" THEN @ + 1 ELSE @]

Claim(w, kind, lapsed) ==
    LET failing == {j \in Jobs : Exhausted(rows[j]) /\ Leasable(j, lapsed)}
        found == {j \in Jobs \ failing :
                     Wanted(rows[j], kind) /\ Leasable(j, lapsed)
                     /\ ~Exhausted(rows[j])}
        oldest == {j \in found : \A k \in found : j <= k}
    IN
    /\ call[w].pc = "idle"
    /\ failing \cup found # {}
    /\ rows' = [j \in Jobs |->
          IF j \in failing THEN Finished(rows[j], "failed", "other", "none")
          ELSE IF j \in oldest THEN Claimed(rows[j], w) ELSE rows[j]]
    /\ call' = [call EXCEPT ![w] =
          IF oldest = {} THEN Idle
          ELSE [Idle EXCEPT !.pc = kind, !.job = CHOOSE j \in oldest : TRUE]]
    /\ UNCHANGED <<source, document, locking, history>>

Kinds == {"extract", "submit", "poll", "enter"}

\* A lease whose call has ended runs out in time.
ClaimFree(w, kind) ==
    /\ \E lapsed \in SUBSET {j \in Jobs : rows[j].owner = Nobody} :
          Claim(w, kind, lapsed)
    /\ UNCHANGED budget

\* A lease runs out under a call that is still at work.
ClaimFromLate(w, kind) ==
    /\ \E lapsed \in SUBSET {j \in Jobs : rows[j].owner # NoOne} :
          /\ \E j \in lapsed : rows[j].owner \in Workers
          /\ Claim(w, kind, lapsed)
    /\ Fault
-----------------------------------------------------------------------------
\* run: extraction of a claimed row succeeds or raises.
Extract(w) ==
    /\ call[w].pc = "extract"
    /\ \/ Finish(w, "ready", "none", "none")
       \/ Finish(w, "failed", "other", "none")
    /\ UNCHANGED <<source, document, locking, budget, history>>

\* submit: the intent is on disk, under the same lease, before the provider
\* is called.  Mutant: the row waits for the provider's answer.
OutboundLater(row) == row

Outbound(row) == [row EXCEPT !.state = "submitted", !.error = "none",
                             !.batch = "intent"]

SubmitIntent(w) ==
    /\ call[w].pc = "submit"
    /\ IF MayFinish(w, "submitted")
       THEN /\ rows' = [rows EXCEPT ![call[w].job] = Outbound(@)]
            /\ Goto(w, "call")
       ELSE Finish(w, "failed", "other", "none")
    /\ UNCHANGED <<source, document, locking, budget, history>>

\* submit_batch: the request reaches the provider ...
Send(w) ==
    /\ call[w].pc = "call"
    /\ credit' = [credit EXCEPT ![call[w].job] = @ - 1]
    /\ Goto(w, "called")
    /\ UNCHANGED <<rows, source, document, locking, budget, purged>>

\* ... and its handle is recorded, or an exception is: the prompt cannot be
\* built, the request is refused, or its answer is lost.
SubmitDone(w) ==
    /\ \/ call[w].pc = "called" /\ Finish(w, "submitted", "none", "handle")
       \/ /\ call[w].pc \in {"submit", "call", "called"}
          /\ Finish(w, "failed", "other", "none")
    /\ UNCHANGED <<source, document, locking, budget, history>>

\* collect: an intent without a handle means a submission that died; a
\* handle is polled once.
PollPending(w) ==
    /\ call[w].pc = "poll"
    /\ Row(w).batch = "handle"
    /\ Finish(w, "submitted", "none", "handle")
    /\ UNCHANGED <<source, document, locking, budget, history>>

PollDone(w) ==
    /\ call[w].pc = "poll"
    /\ IF Row(w).batch = "handle"
       THEN \/ Finish(w, "ready", "none", "handle")
            \/ Finish(w, "failed", "other", "none")
       ELSE Finish(w, "failed", "unknown", "none")
    /\ UNCHANGED <<source, document, locking, budget, history>>
-----------------------------------------------------------------------------
\* commit of a row named by the operator: no claim, no worker name.
CommitById(w, j) ==
    /\ call[w].pc = "idle"
    /\ rows[j].state = "ready"
    /\ call' = [call EXCEPT ![w] = [pc |-> "enter", job |-> j, named |-> FALSE]]
    /\ Command
    /\ UNCHANGED <<rows, source, document, locking, history>>

\* distiller.transaction() is entered: a row that became terminal in the
\* meantime, or a job the store has applied already, ends the call there.
\* Mutants: no marker; a marker for the session instead of the job.
NeverApplied(w) == FALSE
SessionApplied(w) == applied # {}

AlreadyApplied(w) == call[w].job \in applied

CommitEnter(w) ==
    /\ call[w].pc = "enter"
    /\ lock = NoOne
    /\ IF Row(w).state \notin Active
       THEN Abandon(w) /\ UNCHANGED locking
       ELSE IF AlreadyApplied(w)
       THEN Finish(w, "committed", "none", "none") /\ UNCHANGED locking
       ELSE /\ lock' = w
            /\ since' = {source} \ {Missing}
            /\ Goto(w, "read")
            /\ UNCHANGED rows
    /\ UNCHANGED <<source, document, budget, history>>

\* The wait for the store lock runs out.
CommitTimeout(w) ==
    /\ call[w].pc = "enter"
    /\ lock # NoOne
    /\ Abandon(w)
    /\ Fault
    /\ UNCHANGED <<source, document, locking, history>>

\* The current source and the current controls fence the result.  Mutant: the
\* source is not read again.
SourceAsQueued(w) == ~excluded

SourceCurrent(w) == source = Row(w).rev /\ ~excluded

\* The source was read and checked, and the result parsed.
CommitRead(w) ==
    /\ call[w].pc = "read"
    /\ SourceCurrent(w)
    /\ Goto(w, "apply")
    /\ UNCHANGED <<rows, source, document, locking, budget, history>>

\* The source has moved on or cannot be read, or the result is of no use.
CommitRefused(w) ==
    /\ call[w].pc = "read"
    /\ \/ Finish(w, "stale", "other", "none")
       \/ SourceCurrent(w) /\ Finish(w, "failed", "other", "none")
    /\ Unlock
    /\ UNCHANGED <<source, document, budget, history>>

\* ingest_session_records: records and marker reach the file in one commit.
CommitApply(w) ==
    /\ call[w].pc = "apply"
    /\ content' = call[w].job
    /\ applied' = applied \cup {call[w].job}
    /\ Unlock
    /\ Goto(w, "ack")
    /\ UNCHANGED <<rows, source, excluded, coverage, budget, history>>

\* It raises instead.  commit_ready takes some exceptions for a lost source.
IngestFails(w) ==
    /\ call[w].pc = "apply"
    /\ \/ Abandon(w)
       \/ call[w].named /\ Finish(w, "stale", "other", "none")
    /\ Unlock
    /\ Fault
    /\ UNCHANGED <<source, document, history>>

\* The acknowledgment, after the store lock is released.
CommitAck(w) ==
    /\ call[w].pc = "ack"
    /\ Finish(w, "committed", "none", "none")
    /\ UNCHANGED <<source, document, locking, budget, history>>

\* The process of the call dies.
Crash(w) ==
    /\ call[w].pc # "idle"
    /\ Abandon(w)
    /\ IF lock = w THEN Unlock ELSE UNCHANGED locking
    /\ Fault
    /\ UNCHANGED <<source, document, history>>
-----------------------------------------------------------------------------
\* cancel of an active or a cancelled row, without the store lock.
Cancel(j) ==
    /\ rows[j].state \in Active \cup {"cancelled"}
    /\ rows' = [rows EXCEPT ![j] = Finished(@, "cancelled", "other", "none")]
    /\ Command
    /\ UNCHANGED <<call, source, document, locking, history>>

\* retry, under the store lock, with content of the row's revision.
MayRetry(j) ==
    /\ rows[j].state \in {"failed", "stale", "cancelled"}
    /\ rows[j].error # "purged"
    /\ rows[j].attempts < MaxAttempts

Retry(j) ==
    /\ Admitted
    /\ MayRetry(j)
    /\ rows' = [rows EXCEPT ![j] = Finished(@, "queued", "none", "none")]
    /\ credit' = [credit EXCEPT ![j] = @ + 1]
    /\ Command
    /\ UNCHANGED <<call, source, document, locking, purged>>

\* prune of a row whose retention is over.  Its id stays in applied_jobs.
Prune(j) ==
    /\ rows[j].state \in Terminal
    /\ rows' = [rows EXCEPT ![j] =
                   [NoRow EXCEPT !.state = "pruned", !.rev = rows[j].rev]]
    /\ Command
    /\ UNCHANGED <<call, source, document, locking, history>>

\* control("exclude") holds the store lock: it purges the queue, or cannot and
\* goes on with the queue as it is ...
Purged(row) ==
    IF row.state \in {"absent", "pruned"} THEN row
    ELSE Finished(row, "cancelled", "purged", "none")

ControlPurge ==
    /\ lock = NoOne
    /\ ~excluded
    /\ lock' = Operator
    /\ \/ /\ coverage' = "complete"
          /\ rows' = [j \in Jobs |-> Purged(rows[j])]
          /\ purged' = purged \cup {j \in Jobs : rows'[j].error = "purged"}
       \/ /\ coverage' = "pending"
          /\ UNCHANGED <<rows, purged>>
    /\ Command
    /\ UNCHANGED <<call, source, content, applied, excluded, since, credit>>

\* ... and then commits the exclusion, without the source's records.
ControlSave ==
    /\ lock = Operator
    /\ excluded' = TRUE
    /\ content' = Nothing
    /\ lock' = NoOne
    /\ UNCHANGED <<queue, source, applied, coverage, since, budget, history>>

\* The save raises or the process dies: the queue stays purged.
ControlFails ==
    /\ lock = Operator
    /\ lock' = NoOne
    /\ coverage' = "none"
    /\ Fault
    /\ UNCHANGED <<queue, source, content, applied, excluded, since, history>>

Include ==
    /\ lock = NoOne
    /\ excluded
    /\ excluded' = FALSE
    /\ coverage' = "none"
    /\ Command
    /\ UNCHANGED <<queue, source, content, applied, locking, history>>

\* Somebody edits, removes or restores the source file.
SourceChange(rev) ==
    /\ source' = rev
    /\ since' = IF lock \in Workers THEN (since \cup {rev}) \ {Missing}
                ELSE since
    /\ UNCHANGED <<queue, document, lock, budget, history>>
-----------------------------------------------------------------------------
Work(w) ==
    \/ \E kind \in Kinds : ClaimFree(w, kind) \/ ClaimFromLate(w, kind)
    \/ Extract(w)
    \/ SubmitIntent(w) \/ Send(w) \/ SubmitDone(w)
    \/ PollPending(w) \/ PollDone(w)
    \/ \E j \in Jobs : CommitById(w, j)
    \/ CommitEnter(w) \/ CommitTimeout(w) \/ CommitRead(w) \/ CommitRefused(w)
    \/ CommitApply(w) \/ IngestFails(w) \/ CommitAck(w)
    \/ Crash(w)

Operate ==
    \/ \E j \in Jobs : Cancel(j) \/ Retry(j) \/ Prune(j)
    \/ ControlPurge \/ ControlSave \/ ControlFails
    \/ Include

Next ==
    \/ \E rev \in Revisions, b \in Backends : Enqueue(rev, b)
    \/ \E w \in Workers : Work(w)
    \/ Operate
    \/ \E rev \in Revisions \cup {Missing} : SourceChange(rev)

Spec == Init /\ [][Next]_vars
-----------------------------------------------------------------------------
States == Active \cup Terminal \cup {"absent", "pruned"}
Batches == {"none", "intent", "handle"}
Errors == {"none", "purged", "unknown", "other"}

RowType == [state : States, rev : Revisions \cup {Missing},
            backend : Backends \cup {""}, batch : Batches, error : Errors,
            owner : Workers \cup {NoOne, Nobody}, attempts : 0..MaxAttempts]

Places == Kinds \cup {"idle", "call", "called", "read", "apply", "ack"}

CallType == [pc : Places, job : {0} \cup Jobs, named : BOOLEAN]

\* Every variable has its shape; attempts never pass the queue's limit, the
\* store lock is held by exactly the calls inside a transaction, and only an
\* active row is leased.
TypeOK ==
    /\ rows \in [Jobs -> RowType]
    /\ call \in [Workers -> CallType]
    /\ source \in Revisions \cup {Missing}
    /\ content \in Jobs \cup {Nothing}
    /\ applied \subseteq Jobs
    /\ excluded \in BOOLEAN
    /\ coverage \in {"none", "complete", "pending"}
    /\ lock \in Workers \cup {NoOne, Operator}
    /\ faults \in 0..MaxFaults /\ ops \in 0..MaxOps
    /\ credit \in [Jobs -> Int]
    /\ since \subseteq Revisions /\ purged \subseteq Jobs
    /\ \A w \in Workers : lock = w <=> call[w].pc \in {"read", "apply"}
    /\ \A w \in Workers : call[w].pc = "idle" <=> call[w].job = 0
    /\ \A j \in Jobs : rows[j].owner # NoOne => rows[j].state \in Active
=============================================================================
