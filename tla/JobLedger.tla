------------------------------ MODULE JobLedger -----------------------------
(***************************************************************************)
(* What napmem_jobs promises about one source, whatever workers, crashes   *)
(* and operators do to the queue: a job is opened once, an open job may be *)
(* applied to the store or closed without effect, a closed one may be      *)
(* opened again, and an applied one is applied for ever and never again.   *)
(***************************************************************************)
CONSTANTS Jobs,      \* the extraction jobs of the source
          Nothing    \* the store has no record of the source

VARIABLES status,    \* what has become of each job
          content    \* the job whose records the store holds, or Nothing

vars == <<status, content>>

Init ==
    /\ status = [j \in Jobs |-> "absent"]
    /\ content = Nothing

Open(j) ==
    /\ status[j] \in {"absent", "closed"}
    /\ status' = [status EXCEPT ![j] = "open"]
    /\ UNCHANGED content

\* The job's records replace those of the source, in one commit.
Apply(j) ==
    /\ status[j] = "open"
    /\ status' = [status EXCEPT ![j] = "applied"]
    /\ content' = j

\* Jobs fail, become stale, run out of attempts, are cancelled or purged.
Close(js) ==
    /\ \A j \in js : status[j] = "open"
    /\ status' = [j \in Jobs |-> IF j \in js THEN "closed" ELSE status[j]]
    /\ UNCHANGED content

\* The operator excludes the source: its records leave the store.
Forget ==
    /\ content' = Nothing
    /\ UNCHANGED status

Next ==
    \/ \E j \in Jobs : Open(j) \/ Apply(j)
    \/ \E js \in SUBSET Jobs : Close(js)
    \/ Forget

Spec == Init /\ [][Next]_vars
=============================================================================
