------------------------ MODULE DurableJobsProperties -----------------------
(***************************************************************************)
(* What DurableJobs promises: safety of one job's life across the queue    *)
(* and the store, the ledger it implements, and that no job is forgotten.  *)
(***************************************************************************)
EXTENDS DurableJobs

\* What a commit writes was the source's content at some moment after the
\* commit took the store lock, and the source was not excluded: no result is
\* applied for a revision that was replaced, removed or excluded before.
AppliedFresh ==
    [][\A w \in Workers :
          CommitApply(w) => Row(w).rev \in since /\ ~excluded]_vars

\* A receipt that says committed is true: the store has the job's marker.
CommittedMeansApplied == \A j \in Jobs :
    rows[j].state = "committed" => j \in applied

\* Once an exclusion is committed the store has nothing of the source, and,
\* unless its receipt says "pending", neither has the queue: no enqueue, retry
\* or commit that raced the control has put a payload back.
ExcludedSourceGone ==
    excluded => /\ content = Nothing
                /\ coverage = "complete" =>
                       \A j \in Jobs : rows[j].state \notin Active

\* A privacy cancellation wins over every extraction, collection or commit
\* that was under way: a purged row stays cancelled until it is pruned.
PrivacyWins ==
    [][\A j \in Jobs : rows[j].error = "purged" =>
          rows'[j].state \in {"cancelled", "pruned"}]_vars

\* No crash, lost answer or late worker makes the queue send a job to the
\* provider a second time by itself: every request is called for by the
\* enqueue or by an operator's retry.
SentAsCalledFor == \A j \in Jobs : credit[j] >= 0

\* A job that a privacy control purged is never worked on again ("Privacy-
\* purged jobs cannot retry; an allowed source needs a fresh enqueue").
PurgedNeverReopened == \A j \in purged : rows[j].state \notin Active

\* Content whose submission has an unknown outcome is not submitted again, as
\* another job, while no operator has retried or removed that job ("they are
\* never automatically resubmitted").
UnknownNotResubmitted ==
    [][\A w \in Workers, j \in Jobs :
          Send(w) /\ j # call[w].job /\ rows[j].error = "unknown"
          => rows[j].rev # Row(w).rev]_vars
-----------------------------------------------------------------------------
\* A commit past its recheck of the row goes on when the row is closed.
InFlight(j) == \E w \in Workers :
    call[w].job = j /\ call[w].pc \in {"read", "apply"}

Status(j) ==
    IF j \in applied THEN "applied"
    ELSE IF rows[j].state \in Active \/ InFlight(j) THEN "open"
    ELSE IF rows[j].state = "absent" THEN "absent"
    ELSE "closed"

Ledger == INSTANCE JobLedger WITH status <- [j \in Jobs |-> Status(j)]

\* Rows, leases, marker, source and controls together behave as a ledger in
\* which only an open job is applied, at most once, for good.
ImplementsJobLedger == Ledger!Spec
-----------------------------------------------------------------------------
\* Callers run the queue's operations again and again (the daemon's sweep, or
\* a timer), a call that has begun goes on, the provider answers in the end,
\* and the lease of a call that ended runs out.
Proceed(w) ==
    \/ Extract(w) \/ SubmitIntent(w) \/ Send(w) \/ SubmitDone(w)
    \/ PollPending(w) \/ PollDone(w)
    \/ CommitEnter(w) \/ CommitRead(w) \/ CommitRefused(w)
    \/ CommitApply(w) \/ CommitAck(w)

ClaimSomething == \E w \in Workers, kind \in Kinds : ClaimFree(w, kind)

Fairness ==
    /\ \A w \in Workers : WF_vars(Proceed(w)) /\ SF_vars(PollDone(w))
    /\ WF_vars(ClaimSomething)
    /\ WF_vars(ControlSave)

FairSpec == Spec /\ Fairness

\* No job is forgotten: whatever finitely many crashes, failures and late
\* workers leave behind - a lease, a submission without a handle, an applied
\* job without an acknowledgment - every job reaches a terminal state.
EveryJobSettles == \A j \in Jobs :
    rows[j].state \in Active ~> rows[j].state \notin Active
=============================================================================
