# llm-memory-pyramid: verification project

TLA+ models of the parts of llm-memory-pyramid that are hard to test: the lock and
the commit protocol of the canonical JSON store, the records that sessions share
in it and the operator's controls over them, the durable job queue, the sweeps
that keep the store in step with watched files, the mirror of the store on another
host, and the MCP failover proxy that serves it. TLC checks them on small
instances (`MC*.tla`, `*.cfg`); TLAPS proves the lock, the store, the records and
the operator's controls over them, the queue, the mirror, the proxy and the sweeps
for every instance (`*_proofs.tla`). `PROJECT.json` maps each definition to the
source lines it models.

    tlc -config store_transactions.cfg MCStoreTransactions
    tlapm StoreTransactions_proofs.tla

## 1. Inventory

One JSON document (the *store*) holds raw conversations, memory records, the
layers derived from them, operator controls and a generation number. Many
processes use it on one host: the naptime daemon, the command line, import
tools. Readers take one snapshot. Extraction by a cloud provider takes hours and
survives restarts in a SQLite queue. A remote host serves the store to MCP
clients over SSH; a client's proxy falls back to a local mirror of it.

| component (src/) | state | operations | hard behaviour | correct when |
|---|---|---|---|---|
| Writer lock (`napmem_storage.store_lock`) | a mutex per process, the sidecar file's lock, a thread-local table | enter, leave, time out | threads x processes, reentry, a timeout of the second wait, death of the owner | one owner; nothing leaks; no wait is endless |
| Atomic store (`read_snapshot`, `atomic_write`; the distiller's `refresh`, `transaction`, `save`) | the file; per object a copy, its fingerprint, its generation | reload, edit, commit, roll back | a second object of one thread, failing writes, a body that raises after it saved, a crash around `os.replace` | no acknowledged edit is lost, no undone edit is committed, no object is stuck |
| Job queue (`napmem_jobs`) | the `jobs` table, leases; `applied_jobs` in the store | enqueue, run, submit, collect, commit, retry, cancel, purge, prune | crashes between provider, queue and store; late workers; a source that changes; a privacy control in between | a job is applied once and only while it is current; it is not sent twice; privacy wins; every job settles |
| Failover proxy (`napmem_mcp_failover`) | generation, mode, pending requests, handshake, a reader and a writer thread per server | client line, server line, exit, watchdog, close | replies and exits of replaced servers, hangs, full queues, half-sent handshakes | each request has one fate; the handshake comes first; healthy servers live; every request is answered |
| Reconcile and deduplicate (`memory_pyramid_distiller`) | memory records, aliases, duplicate anchors, retired ids | re-ingest a session, fold duplicates | a canonical record whose session disappears hands its role to a duplicate of another session | ids are stable and never reused; every surviving duplicate has a canonical record |
| Controls (`napmem_controls`) | corrections, rejections, exclusions, tombstones, redactions | preview, apply, filter what comes in | replays, a correction of a correction, re-ingestion of what was forgotten | what was forgotten does not return; a stale preview is refused |
| Record model (`napmem_model`) | supersession edges, derived layers | supersede, build the layers | cycles, edges to retired records | edges are acyclic and checked before anything changes |
| Consolidator (`naptime_consolidator`) | the sweep's state file | sweep: collect, extract, commit, record | a source that changes under the extraction; a crash between store and state | no revision is skipped; no old extraction is committed as new |
| Source registry (`napmem_sources`) | identity, observed and committed digest per path | observe, mark committed, mark missing | renames, two paths with one content, stale marks | a session keeps its identity; a mark is for the observed revision |
| Mirror snapshots (`napmem_snapshots`, `sync_mirror`, `restore_snapshot`) | a directory per generation, one pointer | export, publish, load, restore | concurrent publications, a reader between two, a restore of an older store | the mirror only moves forward; a restore brings nothing forgotten back |
| Semantic index, metrics | a cache, a bounded log | embed, append, purge | stale fingerprints | the cache is never mixed with another store's |
| Extraction, evidence, search, MCP server, adapters, CLI, inspector, evaluation, deployment | none of their own | pure processing, or calls of the above | - | - |

How they meet: every writer of the store goes through the writer lock and the
atomic store; the queue takes the store lock for `enqueue`, `retry` and
`commit`, and not for `claim`, `submit`, `collect` and `cancel`; a privacy
control holds the store lock while it purges the queue and commits; the
consolidator drives registry, queue and distiller in turn, with a lock for each
and none for all; the proxy's local server reads the mirror, which is
republished under it.

`PROJECT.json` lists the components with their status, and the hazards, each at
its line with the property that covers it.

## 2. What is modelled

| module | what it is |
|---|---|
| `WriterLock` | abstract: one reentrant lock that the death of its owner's process releases |
| `StoreLock` | `store_lock`, one step per blocking call; implements `WriterLock` |
| `AtomicStore` | abstract: a document that whole commits extend, a generation each |
| `StoreTransactions` | the distiller's persistence layer; implements `AtomicStore` |
| `JobLedger` | abstract: a job is open, applied for good, or closed without effect |
| `DurableJobs` | the job queue, the store's marker and exclusion, calls, operator, source |
| `DurableJobsProperties` | its properties, its refinement of `JobLedger`, its fairness |
| `Reconciliation` | the records of the store and what an ingestion makes of them |
| `SessionRecords` | any sequence of ingestions, without controls |
| `Controls` | ingestions under the operator's controls, backups and their restore |
| `Sweep` | the consolidator, the source registry, `napmem ingest`, and the files |
| `EmbeddingCache` | the vectors' file and the feedback's file beside the store |
| `Mirror` | extends it: snapshots of the store, transfers, the mirror and its server |
| `FailoverProxy` | the proxy's threads, its servers and its client |
| `StoreLock_proofs`, `StoreTransactions_proofs`, `DurableJobs_proofs`, `Mirror_proofs`, `FailoverProxy_proofs`, `Sweep_proofs` | theorems |
| `SessionRecords_proofs` | theorems, and the lemmas about the operators of `Reconciliation` |
| `Controls_proofs` | theorems; it uses these lemmas, so the names of `Controls` differ from those of `SessionRecords` |
| `MC*` | instances for TLC |

The modules are layers. `StoreTransactions` uses the store lock as the owner
variable that `StoreLock` is shown to implement. Everything above uses a
transaction of the store as the one step that `StoreTransactions` is shown to
implement: `SessionRecords` and `Controls` look inside such a step (what it does
to the records), `DurableJobs`, `Sweep` and `EmbeddingCache` at what happens
between two of them. `Sweep` uses the queue, with the local backend, by what
`DurableJobs` promises of it: a ready job is committed if it is current, once.
`Mirror` and `FailoverProxy` are two views of one program: which snapshot a
server reads, and which server a request goes to.

**StoreLock.** `pc` is the thread's place in `store_lock`: waiting for the
mutex, for the file, inside the with-block, on its way out. `TakeMutex` and
`MutexTimeout` are the two results of `mutex.acquire(timeout)`, `TakeFlock`,
`FlockTimeout` and `SidecarFails` those of the polling loop; the way out is one
step per lock because another thread can run in between. Time is abstracted: a
wait may run out whenever what it waits for is taken.

**StoreTransactions.** A document is its generation and the set of edits it
reflects. Its fingerprint is the document itself: the bytes carry the
generation, so no two commits share a digest. An object has the attributes of
the distiller (`data`, `persisted`, `seen`, `seenGen`) and, in a transaction,
the copy and the fingerprint that the exception handler compares. A thread may
nest transactions of several objects over one file (`within` records their
order), which the reentrant lock permits. `save` is four steps (check, write the
temporary, replace, record) and may fail before the replacement. `issued`,
`acked` and `discarded` are bookkeeping of the properties.

**DurableJobs.** One source, several jobs, calls of `run`, `submit`, `collect`
and `commit` that interleave at every SQLite transaction. A row keeps its
state, revision, backend, batch handle, error class, lease and attempts; the
payload follows the state. The source changes at any time, also while a commit
holds the store lock. An operator cancels, retries, prunes, excludes and
includes. A fault is a crash, a failing commit, a wait that runs out, or a lease
that runs out under a call that still works. `renew` moves a lease's end, which
is not modelled, and is a stutter.

**Reconciliation, SessionRecords.** One ingestion is one step: it reconciles the
session's old records with the extraction (`Reconciled`: re-asserted, promoted or
dropped), numbers what is left (`NewIds`) and folds it (`Merged`: exact
duplicates, then near ones, then new records). A unit of an extraction is a text
and a context; `Form` says which texts differ in case or blanks only, and a
context stands for the fields of the assertion key (scope, kind and so on), which
must agree before claims are folded. An id is a session and a number. The
semantic index may find any record of the same context near, or none, which also
stands for its failure. `SessionRecords` has no controls: of `apply_controls`,
which runs after the merge, `Repacked` is then all that is left. `latest` and
`issued` are bookkeeping of the properties. The reachable states of the instance
without the semantic index (7,573) were compared with those of the Python class
driven through the same ingestions: the two sets are equal.

**Controls.** The same records under `correct`, `approve`, `reject`, `exclude`,
`include`, `forget` and `forget_session`, with `export_snapshot` and
`restore_snapshot`. An operation computes its records and controls, applies the
controls to the records (`AppliedRecords`: occurrences that are suppressed leave,
the first that stays becomes canonical, the operator's own assertions are put
back), lets the controls learn the ids they match (`AppliedControls`), validates
and commits, or is refused and changes nothing (`Committed`). A scope is a
context, a claim a scope and the form of a text. `Groups` is what binds ids to
each other, and `Family` its closure, on which forgetting works. `commands`,
`issued`, `word` and `shut` are bookkeeping: what the operator said last of a
claim and of a session. A restore takes a word back in two cases only, each
defined without regard to what the restore keeps. A ruling that names forgotten
ids goes with them (`NamesGone`). A correction to what a forgotten id said in the
backup is lost although nobody forgot it (`Overruled`); the code promises to keep
it, and it is the one exception to `OperatorHasLastWord` (see 5). With two
commands, and four ids
of sessions, the reachable states (35,588) were compared with those of the Python
class driven through the same operations: the two sets are equal.

**Sweep.** The consolidator's program counter goes through `scan_and_consolidate`: collect
(`Begin`, `Look`, `Observe`, `Confirm`, `MarkMissing`, `Sync`), then extraction
and commit of what was captured (`ExtractLlm`, `ExtractOllama`, `Commit`, `Mark`)
or the queue (`CommitJob`, `Receipt`, `Enqueue`, `Finish`), then `Save`. A step
reads or writes one of the four files: store, registry, queue, sweep state. Files
are written, created, moved and removed between any two steps; the command line
captures and imports files with a fence of its own; the operator excludes and
includes; the process dies (`Crash` goes back to the saved sweep state). Content
is an inode and how often it was written. A file is moved to any path, there and
back; `left` remembers what was moved away from where, and unless content recurs
(`Recurs`) a file is not moved back with what it said when it left. A model's
answers are any set of the captures, so a backend that is down is included.

**EmbeddingCache, Mirror.** A writer of the store is one step, a search by
meaning three (`Load`, `Open`, `Embed`): it reads store and cache without the
lock and saves vectors under it. A rating is two. A transfer exports the store
(`Export`), copies it to a directory of its own (`Copy`) and replaces the pointer
(`Publish`); transfers overlap and fail anywhere. `Start` chooses the directory of
a local server, `Serve` is a call of its tools, which loads the store anew, and
`Relay` puts the label on the answer. Checksums and the archive's members stand
for a snapshot being whole or refused.

**FailoverProxy.** A step is what one thread does under the proxy's lock; what
it does outside of it is a step of its own: `Discard` (the client thread closes
a server it replaced), `Kill` (the watchdog, after it let go of the lock),
`Emit` (an answer on its way to the client) and `EndOfOutput`/`BackendExit` (the
reader). The writer thread and the pipe are one queue. The client follows MCP:
initialize, wait, the notification, then calls, each id once. Lines the proxy
refuses itself (bad ids, budgets) and its rewriting of answers are left out.
A server's loop (`Serve`, `Replies`) is that of `NapMemMCPServer`: each request
gets one answer, in order, and a notification none.

## 3. Runs

| run | distinct states | what it shows |
|---|---|---|
| `store_lock` | 160 | one owner, no leak on any exit path or crash, every wait ends, `StoreLock` implements `WriterLock` |
| `store_transactions` | 312,337 | `IInv`, the three properties on edits, no object gets stuck, `StoreTransactions` implements `AtomicStore` |
| `durable_jobs` | 581,225 | a job is applied only while it is current; receipts are true; an excluded source is gone; privacy wins; nothing is sent uncalled for; implements `JobLedger` |
| `jobs_settle` | 111,855 | every job, local or cloud, ends |
| `session_records` | 12,326 | every session is quoted as it last spoke, whatever others fold, promote or drop; ids are unique, never return, and stay with their claim |
| `controls` | 197,434 | the operator has the last word, whatever is ingested, folded, promoted or restored, but for corrections that a restore overrules (see 5); loading is idempotent; the store stays valid; a restore never makes an ingestion reuse an id |
| `sweep` | 602,178 | nothing old overtakes; nothing excluded is stored; no two sessions have one path; the store comes to agree with the files |
| `mirror` | 2,919,476 | the mirror is a whole snapshot with vectors of its own records, never an older one; answers carry the generation they were read from |
| `failover` | 1,580,256 | each request has one fate; the handshake first; healthy servers live |
| `failover_answers` | 109,560 | every request gets an answer or an error |
| `restore_forgotten` | violated | finding 1 |
| `sweep_starved` | violated | finding 2 |

Every property of a passing run has a mutant in `PROJECT.json`: a plausible bug
in a mapped definition that makes the run fail.

**Bounds.** `store_lock`: three threads in two processes are the least for
both waits to contend, with a third thread to find a leaked lock; nesting 3.
`store_transactions`: two threads and three objects, two of them in one thread,
two edits, three generations, so that a commit intervenes before and after
another's rollback and one thread commits through two objects. `durable_jobs`:
two calls at a time, two revisions and two jobs: one row held by a call while
another wants it, and a source that changes and changes back; one fault and two
operator commands in any order, two attempts. `jobs_settle` adds the local
backend and drops the operator, whose commands may undo progress for ever.
`session_records`: two sessions, of which one makes up to two claims, so that it
can have two duplicates under one record of the other, two records of one text
in two contexts, or one of each; two texts that differ in case and a third one
that does not; three numbers a session, so that a session can have a
retired number below two that are in use.
`controls`: two sessions with a claim each that comes and goes, so that one can
be the other's duplicate (the index may find them near), be promoted and come
back; the second session can move to another scope; three commands, so that a
backup, a command and a restore fit, with ingestions without number between
them (two numbers a session, three in all: one of the two returns under a new
number). Four commands were checked as well (1,580,489 states, 7 minutes): only then
is a restored record what the exception of `OperatorHasLastWord` is about, and
without the exception the property is violated there.
`sweep`: two paths with one file name in different directories, so that session
ids collide and a file can move over another; two files, two writes each; three
events (a write, a move, a crash, a command of the operator or the command
line), in both modes, with the sweep's own steps without bound. `Recurs` is
FALSE: digests tell all contents of a file apart, and a path does not hold again
what was moved away from it (see 5). Files are moved to the later path and to the
earlier one, before and after the walk has looked there, and back once they have
been written.
`mirror`: one record that can say two things and be forgotten, two transfers at
once, two commits, so that a transfer can be overtaken and can conflict; two
directories; a search and a rating, which share no file, not at once
(`NoReader`); no flat mirror (see 5).
`failover`: two calls, one of which can be answered while the other waits; three
generations that are used (remote, local, its restart), and what a failing send
adds to them; a queue limit that a replay of everything passes and a single
line does not; two faults. Bounds are guards (`MaxFaults`, `MaxOps`, `MaxGen`,
`MaxJobs`, `MaxNumber`, `MaxIds`, `MaxEvents`, `MaxGeneration`, `MaxCopies`) or ranges
(`Gens`, `MaxNesting`, `MaxUnits`), and all are constants.

**Symmetry** (edits and the two objects of one thread; workers and revisions;
calls; transfers and texts of `mirror`) is used in runs
without liveness properties only.

**Fairness.** `StoreLock`: a thread inside `store_lock` runs, so either what it
waits for comes or its deadline passes; the owner of the with-block owes
nothing. `DurableJobs`: a call that has begun goes on unless it dies (`WF` of
its steps); somebody calls the operations again and again (`WF` of
`ClaimSomething`: the service unit is a loop or a timer); a provider that is
polled for ever answers in the end (`SF` of `PollDone`, which asking again and
again justifies); no fairness of enqueue, operator or faults. `Sweep`: sweeps
go on (`WF` of `SweepStep`: `run_loop`, or a timer that starts the process
again); no fairness of files, operator, command line or crashes, whose number
`MaxEvents` bounds, so that they come to rest. `FailoverProxy`:
its threads run, and a server that has not hung reads its lines; the client owes
nothing. A local server that hangs is exempt by name in `EveryRequestAnswered`:
the watchdog covers remote ones only.

**Deadlock** is checked in all runs but those of `FailoverProxy`, which ends
when the client closes its side.

## 4. Proofs

The theorems are about all threads, processes, edits, jobs, calls, directories,
paths, files and bounds. A module's theorems assume what its constants' named
assumption says and, where it is said below, a condition of their own.

**The lock** (`LockConstants`: every thread has a process). `LockInvariant`, and
from it `LockMutualExclusion` and `LockNeverLeaks`. Mutual exclusion is not
inductive: a thread is inside because it took the file lock, so `LockInv` says
which program counters own the file lock, which own the mutex, and that nesting
is positive inside only. `LockRefinement`: each step maps to a step of
`WriterLock` or a stutter; a crash maps to the death of the owner when its
process dies.

**The store** (`TransactionConstants`: every object has a thread, "nobody" is not
a thread). `StoreInvariant`: `IInv` of `StoreTransactions` is inductive, one lemma
per action and one step per conjunct. `NoLostUpdate` alone is not: that
`os.replace` keeps what others committed follows from the object having seen the
present file (`SaveInProgress`), which nobody can have changed since the check as
the thread has the lock (`LockHeld`) and saves through one object at a time
(`OneSave`). `FailedLeavesNoTrace` needs `Savepoint` (what a transaction goes back
to is its start, or its last commit) and `Private` (an edit that is not in the
file is in one memory, so undoing it there undoes it everywhere). From it:
`StoreNoLostUpdate`, `StoreEveryEditAccounted`, `StoreFailedLeavesNoTrace`,
`StoreNeverWedged`, `StoreRefinement`.

**The records** (`RecordConstants`: units are texts in contexts, and the mark for
"the same text" is no text). The invariant `IInv` is that ids are those of one
occurrence each (`Separate`), that the counters cover all that were issued
(`IssuedCovered`), and `Faithful`: of each session the store says what it said
last, each claim under an id of its own. A lemma about each operator of
`Reconciliation` says what it does to the ids and to what is said (`SaidIn`): what
survives reconciliation says what other sessions said and no more
(`ReconciledFacts`), numbers are new or those of a duplicate the session gave up
(`NewIdsFacts`), merging tells each unit once and loses nothing (`MergedFacts`).
The library's induction theorems cannot be used, so induction is over sets of
numbers and rests on the naturals being well founded (`LeastNumber`, `Induction`);
that the recursive function of a merge has a value at each step is proved first
(`MergedInSteps`). From `Invariance`: `TypeCorrect`, `IdsAreUnique`,
`StoreIsFaithful`, and the action properties `RetiredIdsNeverReturn` and
`ReassertedClaimsKeepIds`.

**The controls** (`ControlConstants`: the operator is not a session).
`ControlsInv` has three parts. `IdsInv`: the counters and the operator's commands
gave out every id in the store, its controls and the backup (`NumbersGiven`), and
an id of the operator names one claim, in the store as in the backup (`OneClaim`).
`WordsInv`: each word of the operator is in the controls, and none rules on what
was forgotten. `AppliedInv`: these are valid and applied, each id is that of one
occurrence, and applying them again changes nothing. The parts need each other: a
load puts back an assertion that has no record, and were its id that of another
claim's occurrence it would either be missed or be there twice; that happens when
a backup brings occurrences back under ids that assertions have now. What all
commits share is proved once (`CommitKeeps`, `OperationKeeps`), with a lemma for
each operation; `Family` is found by induction on its recursive function. From it:
`ControlsTypeCorrect`, `LastWordStands`, `LoadingIsIdempotent` and
`AddedIdsAreNew`. `LastWordStands` needs that a restore keeps every other word: an
assertion of the present controls stays under its id in the merged ones
(`MergedAssertionsFacts`), and its claim is suppressed by the old copies of
forgotten ids only, as the backup's tombstones are among the present ones
(`BackupInv`); so a present ruling stays unless it names what is gone, its own
claim is suppressed, or it is overruled (`PresentRulingsStay`). That no restore
overrules a correction is false (see 5).

**The job queue** (`JobConstants`). `JobsInvariant` adds to the promises what a
call knows and keeps knowing while others step: a lease is that of the row the
call works on (`Leased`, `OnRow`); under the store lock what it read of source
and marker holds (`Fenced`); what the state of a row says of the store
(`Known`, `Control`). That nothing is sent uncalled for needs a count: for each
job the requests that are about to be sent, and one more while the row is queued,
are within what enqueues and retries called for (`Paid`), an inequality over the
cardinality of the calls at that step. From it: `JobsTypeOK`,
`JobsCommittedMeansApplied`, `JobsExcludedSourceGone`, `JobsSentAsCalledFor`, the
action properties `JobsAppliedFresh` and `JobsPrivacyWins`, and `JobsRefinement`:
a step opens, applies or closes one job of `JobLedger`, or is a stutter.

**The mirror** (`CacheConstants`, `MirrorConstants`: a snapshot is not the mark
for none). `MirrorInvariant` says of each snapshot that is on its way, or in a
directory, what `MirrorIsCanonical` says of the published one (`Received`,
`Kept`), and that the directory a transfer may still remove is its own (`Owned`,
`Apart`). From it: `MirrorTypeOK`, `MirrorHoldsWhatWasSaid`, `MirrorNeverGoesBack`
and `MirrorAnswersAsLabelled`. The last one has the condition `Flat = Absent`: with
a mirror of the old flat form it is false (see 5). `MirrorTypeOK` covers the
variables of `EmbeddingCache`, which has no theorems of its own.

**The proxy** (`ProxyConstants`: a queue takes a whole handshake; the code's
limit is 64). `OneFate` is a sum of four counts that stays one for each request;
that an answer is relayed once needs that the current server has each line at most
once and that what it has to answer is waited for (`Unique`, `Expected`). That it
hears the handshake first needs that it has read it or will (`Greeted`), which a
failover must restore from what the client sent (`Protocol`) although a full queue
cuts the lines. That a late kill hits a remote server only, and that there is a
generation for every restart, needs their count (`Counted`, `Servers`). From
`ProxyInvariant`: `ProxyTypeOK`, `ProxyOneFate`, `ProxyHandshakeFirst`,
`ProxySparesHealthy`.

**The sweeps** (`SweepConstants`: there are finitely many paths). `SweepInvariant`
is the shape of the files and of what each program remembers; a path has one
entry in the registry, for a session is only moved to a path without one, and a
new session finds a free id: were all suffixes taken, as many entries as there
are paths would lie at the other paths. `SweepTypeOK` follows, whatever is moved
where.
`SweepNeverBackward` has the condition `~Recurs`, of which it uses that `Sha` tells
any two contents of a file apart. It needs that what is stored was on the disk
(`Past`): the fences compare with the file under the store lock, and a file's
versions only grow, whichever way it is moved.

Only model-checked:

* Liveness: `BoundedWait`, `EveryJobSettles`, `EveryRequestAnswered` and
  `EventuallyAgrees` need fairness and ENABLED, which are out of the prover's
  reach.

## 5. Findings

Two have a run that shows them:

1. `restore_forgotten`. `docs/PERSISTENCE.md:32` says that the ids of forgotten
   record families suppress older copies. `restore_snapshot` finds a forgotten id
   in the backup and suppresses the scope of that copy with the text of the record
   it is in; a duplicate that says its claim in words of its own is then not
   suppressed. It returns under its forgotten id, and the claim of its canonical
   record, which nobody forgot, is erased.
2. `sweep_starved`. The consolidator's per-file guard promises that one failing
   file does not abandon the rest of the sweep. With `--async-batches` the
   captured files are queued in one loop without a guard: `enqueue` raises for a
   file that repeats a forgotten claim (`napmem_jobs.py:144`), which ends this
   sweep and every later one while the file says so.

Further deviations are stated as properties beside the model and refuted by TLC
with the constants given, but have no run of their own:

* `PurgedNeverReopened` (`DurableJobsProperties`; `durable_jobs.cfg` with MaxJobs
  1, MaxFaults 0, MaxOps 4, the local backend). `cancel` accepts a row that a
  privacy control has purged and replaces its error code; after the source is
  included again `retry` queues the row, which `napmem_jobs.py:410` rules out.
* `UnknownNotResubmitted` (`DurableJobsProperties`, an action property;
  `durable_jobs.cfg` with MaxJobs 3, MaxOps 0). `docs/PERSISTENCE.md:20` says that
  submissions of unknown outcome are never resubmitted automatically. `enqueue`
  compares content with the active jobs and the latest row only: content that
  changes and changes back is submitted again as another job.
* `NoRequestForgotten` (`FailoverProxy`; `failover.cfg`). A request leaves
  `pending` before its answer is written; if that cannot be (`NaN`, which
  `json.loads` takes and `wire_json` refuses), the reader ends and the request is
  neither resent nor refused, against the header of `napmem_mcp_failover.py:14`.
* `NoChangeKeepsIds` (`SessionRecords`, an action property; `session_records.cfg`
  with Semantic = FALSE). `memory_pyramid_distiller.py:335` says that ids are
  stable across re-ingestion. Units find their records by text alone, claims are
  told apart by text and context: of two claims of one session with one text, the
  second is numbered anew at each ingestion. `ReassertedKeepsId` is what holds.
* `CanForget`, `CanRestore`, `CorrectionStands` (`Controls`; `controls.cfg`).
  Forgetting a record whose text equals another family's correction is refused
  ("Malformed persistent correction"); a restore may be refused for duplicate ids;
  after A was corrected to B and B to A the new assertion is born superseded and
  the next correction reports a cycle.
* `RestoreKeepsCorrections` (`Controls`; `controls.cfg`).
  `docs/PERSISTENCE.md:30` says that restores retain newer local privacy controls
  and corrections, and so does the docstring (`memory_pyramid_distiller.py:726`).
  `s1` says A and `s2` says B in scope p; A is corrected to B; a backup is
  exported; the record of `s2` moves to scope q and is forgotten there. A restore
  makes a tombstone of what the forgotten id says in the backup, (p, B), and drops
  every assertion that says the same (`:791`): the operator's B goes, the
  correction goes with it, and A is an active claim again. The Python class does
  so in these steps. Found as the proof of `LastWordStands` failed. It is the
  exception that `OperatorHasLastWord` makes (`Overruled`); without it that
  property is violated too, with MaxOps = 4.
* `ForgottenLeavesNoTrace` (`EmbeddingCache`; `mirror.cfg`). `semantic_search`
  loads its records before `SemanticIndex` takes the store's fingerprint: a record
  that is forgotten in between comes back into the cache that its receipt calls
  removed, against `docs/ARCHITECTURE.md:74`. `napmem feedback` has the same gap
  between its check of the record and its write.
* `AnswersAsLabelled` with a mirror of the old flat form (`mirror.cfg` with Flat a
  snapshot of generation 0, without symmetry). The answers of a server that reads
  the flat path are labelled with the generation that is published by then
  (`napmem_mcp_failover.py:619`), against `docs/MCP.md:61`.
* `EventuallyAgrees` and `CommittedIsStored` with Recurs = TRUE (`Sweep`;
  `sweep.cfg`). A file says A and is swept, is imported as B by the command line,
  and says A again: the sweep state still says A, so the sweep marks A committed
  while the store holds B (`naptime_consolidator.py:239`), until the file changes
  again. Through the queue B stays as well when a direct sweep or an import stored
  it: the latest job of the session is that of A, and is not queued again. A file
  that is moved away from a path and back, unchanged, while another was swept there,
  comes to the same; hence the condition on `Move`.
* `CommittedIsStored`, that the registry's receipts are true, fails without
  recurring content too, when a session goes back to a path it left; it is not
  checked for that. The behaviour has five paths, three files and 55 steps, and was
  replayed from a script. The sweep has read a file at its path x, for session B,
  and has yet to observe it. The file moves on twice: at the first place the
  command line ingests it and B goes with it; at the second it is captured for
  session A, whose file is missing there and which was stored at x in an earlier
  stay, and the file is removed before the import. The observation brings A back to
  x, where the path the store has for A still is, and the sweep state of x, which
  is of B's content, confirms A (`naptime_consolidator.py:239`).

Hazards that were met and that no property covers, beyond those in
`PROJECT.json`: `commit_ready` ends at the first exception of an unexpected kind
and leaves the later jobs for the next call (`napmem_jobs.py:392`). A receipt that
is replayed after A, B, A says committed while the store holds a later revision,
by design (`napmem_jobs.py:350`). A local server that hangs is covered by no
timeout (`napmem_mcp_failover.py:418`). An interrupt inside a transaction is not
an `Exception`: the callers exit on it (`memory_pyramid_distiller.py:134`). An
interrupt right after the pointer was replaced removes the directory it names
(`napmem_snapshots.py:338`). A crash between `mark_missing` and the update of the
store's source metadata leaves the store saying present for good
(`naptime_consolidator.py:253`). A superseded record whose role goes to a
duplicate changes its id, and the edge that an extraction named it by then refuses
each later ingestion of that session (`memory_pyramid_distiller.py:421`).

Those in `PROJECT.json` without a property: `napmem_jobs.py:431` and `:170`,
`napmem_mcp_failover.py:586`, `napmem_retrieval_agent.py:155` and
`memory_pyramid_distiller.py:384` are the lines of deviations above: the property
that would cover them is false.

## 6. Plan

What is left:

* Supersession edges in `Reconciliation`: a superseded record outlives its
  source, and its edges follow a promotion.

## 7. Not modelled

* Text: extraction prompts and answers, evidence offsets, search ranking,
  adapters, MCP argument validation and budgets of answers. Data processing
  without state of its own.
* Numbers: similarity of vectors, the aggregation and retention window of metrics.
  The embedding backend and its dimensions are fixed.
* Of the controls: pins and expiries, which are kept and applied as reviews are;
  the redaction of evidence; the journal; preview tokens, which bind a preview to
  the store's digest, a check that is repeated under the lock.
* Of the records: supersession edges that an extraction names, the derived layers,
  the refresh of single metadata fields.
* Of the sweep: the log of refused files, and cloud batches, which `DurableJobs`
  has.
* Failures of the disk beyond the failing write and the failing `os.replace`:
  a directory that cannot be synced is logged by the code and changes nothing.
* `KeyboardInterrupt` inside a transaction: the callers exit on it.
* A client that breaks MCP (reuses an id, calls before the handshake): the proxy
  makes no promise to it.
* The consistency of a network file system; `docs/PERSISTENCE.md` rules it out.
