------------------------------- MODULE Sweep -------------------------------
(***************************************************************************)
(* The background consolidator (naptime_consolidator) with the source      *)
(* registry (napmem_sources): sweeps of a directory of memory files, while *)
(* the files are written, moved and removed, the command line ingests some *)
(* of them, and an operator excludes sources and includes them again.      *)
(*                                                                         *)
(* A sweep looks at the files in order, observes each in the registry,     *)
(* captures those that changed, and has them extracted outside every lock. *)
(* A direct sweep then commits what is still current and tells the         *)
(* registry; an asynchronous one goes through the durable queue            *)
(* (DurableJobs has its inside).  The store, the registry, the queue and   *)
(* the saved sweep state are four files with four locks: the process may   *)
(* die, and others may work, between any two of them.                      *)
(*                                                                         *)
(* Content is a file (its inode) and how often that was written; Sha is    *)
(* what the program can tell of it.  A file that read_source refuses is    *)
(* like one that is not there.                                             *)
(***************************************************************************)
EXTENDS Naturals, Sequences, FiniteSets, Functions, FiniteSetsExt

CONSTANTS Modes,       \* how sweeps run: "direct", "async" (--async-batches)
          Paths,       \* paths in the watched directory, numbers in their order
          Stem,        \* the file name of each path, without directory
          Absent,      \* not content: there is no file, or it never was known
          Recurs,      \* a path may hold again what it held before
          Tainted,     \* files that make a claim the operator has forgotten
          MaxFiles, MaxVersion,    \* bounds on files and on writes to each
          MaxEvents    \* bound on writes, moves, crashes and commands together

Content == (1 .. MaxFiles) \X (0 .. MaxVersion)

ASSUME SweepConstants ==
    /\ Modes \subseteq {"direct", "async"} /\ Modes # {}
    /\ Paths \subseteq Nat \ {0} /\ IsFiniteSet(Paths) /\ DOMAIN Stem = Paths
    /\ Recurs \in BOOLEAN /\ Tainted \subseteq 1 .. MaxFiles
    /\ {MaxFiles, MaxVersion, MaxEvents} \subseteq Nat /\ MaxFiles > 0
    /\ Absent \notin Content

VARIABLES disk,        \* what each path holds
          registry,    \* <store>.sources.json: session -> entry
          store,       \* the sessions in the store: what was committed of each
          excluded,    \* controls.excluded_sources
          queue,       \* <store>.jobs: the latest job of each session
          saved,       \* <store>.sweepstate.json
          sweep,       \* the memory of the consolidator
          cli,         \* that of the command line
          created,     \* how many files there have been
          left,        \* what was moved away from each path
          events       \* how much of MaxEvents was used

program == <<registry, store, excluded, queue, saved, sweep, cli>>
vars == <<disk, left, created, events, program>>

Sha(c) == IF c = Absent THEN Absent
          ELSE <<c[1], IF Recurs THEN c[2] % 2 ELSE c[2]>>

Nothing == [x \in Paths |-> Absent]
Rest(hashes) ==
    [pc |-> "idle", walk |-> {}, todo |-> {}, sources |-> <<>>,
     barred |-> {}, reading |-> Absent, told |-> <<>>, caught |-> <<>>,
     done |-> {}, hashes |-> hashes]
Quiet == [pc |-> "idle", path |-> 0, session |-> <<>>, content |-> Absent]

Init ==
    /\ \E x \in Paths : disk = [Nothing EXCEPT ![x] = <<1, 0>>]
    /\ registry = <<>> /\ store = <<>> /\ excluded = {} /\ queue = <<>>
    /\ saved = Nothing /\ sweep = Rest(Nothing) /\ cli = Quiet
    /\ created = 1 /\ left = {} /\ events = 0

At(pc) == sweep.pc = pc
Present == {x \in Paths : disk[x] # Absent}
With(f, s, e) == [x \in DOMAIN f \cup {s} |-> IF x = s THEN e ELSE f[x]]
Without(f, s) == Restrict(f, DOMAIN f \ {s})
Event == events < MaxEvents /\ events' = events + 1
-----------------------------------------------------------------------------
\* _collect_changed: the sessions of the store, the exclusions, the paths.
StoredPaths == [s \in DOMAIN store |-> store[s].path]

Begin ==
    /\ At("idle")
    /\ sweep' = [sweep EXCEPT !.pc = "look", !.sources = StoredPaths,
                              !.barred = excluded, !.walk = Present,
                              !.todo = Present]
    /\ UNCHANGED <<disk, left, registry, store, excluded, queue, saved, cli, created, events>>

\* Session ids: that of the file's name, that with a digest of the path, and
\* those with further digests.
Base(x) == <<Stem[x], 0, 0>>
Digested(x, k) == <<Stem[x], x, k>>

RegisteredAt(x) == {s \in DOMAIN registry : registry[s].path = x}
StoredAt(sources, x) == {s \in DOMAIN sources : sources[s] = x}

\* The session of a path that is not registered: the stored one, or a new one.
Named(x, sources) ==
    IF StoredAt(sources, x) # {} THEN CHOOSE s \in StoredAt(sources, x) : TRUE
    ELSE IF Base(x) \in DOMAIN registry \cup DOMAIN sources THEN Digested(x, 0)
    ELSE Base(x)

\* resolve_session_id, before the file is read.
Resolved(x, sources) ==
    IF RegisteredAt(x) # {} THEN CHOOSE s \in RegisteredAt(x) : TRUE
    ELSE Named(x, sources)

\* The next file: passed over if it is excluded or cannot be read.
Look ==
    /\ At("look") /\ sweep.todo # {}
    /\ LET x == Min(sweep.todo) IN
       sweep' = IF disk[x] = Absent \/ Resolved(x, sweep.sources) \in sweep.barred
                THEN [sweep EXCEPT !.todo = @ \ {x}]
                ELSE [sweep EXCEPT !.pc = "observe", !.reading = disk[x]]
    /\ UNCHANGED <<disk, left, registry, store, excluded, queue, saved, cli, created, events>>

\* A path that is new takes over the entry of a file that was moved there: the
\* only one with its inode whose own path is gone.
Moved(x, c, live) ==
    {s \in DOMAIN registry : /\ registry[s].path \notin live
                             /\ disk[registry[s].path] = Absent
                             /\ registry[s].seen[1] = c[1]}

\* Mutant: a file that was moved keeps its session even over another's path.
MovedFirst(x, c, live, sources) ==
    IF Cardinality(Moved(x, c, live)) = 1
    THEN CHOOSE s \in Moved(x, c, live) : TRUE
    ELSE Resolved(x, sources)

\* observe: the session of a path, and its new entry.  (Entries have different
\* paths, so there are as many suffixes to try as paths.)
SessionOf(x, c, live, sources) ==
    IF RegisteredAt(x) # {} THEN CHOOSE s \in RegisteredAt(x) : TRUE
    ELSE IF Cardinality(Moved(x, c, live)) = 1
    THEN CHOOSE s \in Moved(x, c, live) : TRUE
    ELSE IF Named(x, sources) \notin DOMAIN registry THEN Named(x, sources)
    ELSE CHOOSE s \in {Digested(x, k) : k \in Paths} :
            s \notin DOMAIN registry

CommittedOf(s) == IF s \in DOMAIN registry THEN registry[s].committed ELSE Absent

Observed(s, x, c) ==
    With(registry, s, [path |-> x, seen |-> c, present |-> TRUE,
                       committed |-> CommittedOf(s)])

\* A file need not be extracted again: the store has its session, and either
\* the registry says that this content is committed, or the sweep state does
\* for this path.  Mutant: whether the store has the session is not asked.
UnchangedAnyway(s, x, c) ==
    Sha(CommittedOf(s)) = Sha(c) \/ Sha(sweep.hashes[x]) = Sha(c)

UnchangedFile(s, x, c) ==
    /\ s \in DOMAIN sweep.sources
    /\ \/ Sha(CommittedOf(s)) = Sha(c)
       \/ sweep.sources[s] = x /\ Sha(sweep.hashes[x]) = Sha(c)

\* What was read is registered; then the file is passed over, or captured.
Observe ==
    /\ At("observe")
    /\ LET x == Min(sweep.todo)
           c == sweep.reading
           s == SessionOf(x, c, sweep.walk, sweep.sources)
           next == [sweep EXCEPT !.pc = "look", !.todo = @ \ {x}, !.reading = Absent]
           heard == [next EXCEPT !.told = With(@, s, [path |-> x, present |-> TRUE])]
       IN
       /\ registry' = Observed(s, x, c)
       /\ sweep' =
             IF s \in sweep.barred THEN next
             ELSE IF ~UnchangedFile(s, x, c)
             THEN [heard EXCEPT !.caught =
                      Append(@, [session |-> s, path |-> x, content |-> c])]
             ELSE IF Sha(CommittedOf(s)) = Sha(c)
             THEN [heard EXCEPT !.hashes[x] = c]
             ELSE [heard EXCEPT !.hashes[x] = c, !.pc = "confirm", !.done = {<<s, c>>}]
    /\ UNCHANGED <<disk, left, store, excluded, queue, saved, cli, created, events>>

\* mark_committed: only what the registry saw last, of a file that is there.
\* Mutant: whatever it saw last.
MarkedLast(s, c) ==
    IF s \in DOMAIN registry /\ registry[s].present
    THEN [registry EXCEPT ![s].committed = registry[s].seen] ELSE registry

Marked(s, c) ==
    IF s \in DOMAIN registry /\ registry[s].present
          /\ Sha(registry[s].seen) = Sha(c)
    THEN [registry EXCEPT ![s].committed = c] ELSE registry

\* What only the sweep state knew, the registry is told.
Confirm ==
    /\ At("confirm")
    /\ \E d \in sweep.done : registry' = Marked(d[1], d[2])
    /\ sweep' = [sweep EXCEPT !.pc = "look", !.done = {}]
    /\ UNCHANGED <<disk, left, store, excluded, queue, saved, cli, created, events>>

\* mark_missing: registered files that the walk has not met.
Gone == {s \in DOMAIN registry :
            registry[s].present /\ registry[s].path \notin sweep.walk}

MarkMissing ==
    /\ At("look") /\ sweep.todo = {}
    /\ registry' = [s \in DOMAIN registry |->
                       [registry[s] EXCEPT !.present = @ /\ s \notin Gone]]
    /\ sweep' = [sweep EXCEPT !.pc = "sync", !.walk = {}, !.sources = <<>>,
                     !.barred = {}, !.told = [s \in DOMAIN @ \cup Gone |->
                         IF s \in Gone
                         THEN [path |-> registry[s].path, present |-> FALSE]
                         ELSE @[s]]]
    /\ UNCHANGED <<disk, left, store, excluded, queue, saved, cli, created, events>>

\* _sync_source_metadata, a transaction.
Sync ==
    /\ At("sync")
    /\ store' = [s \in DOMAIN store |->
           IF s \in DOMAIN sweep.told
           THEN [store[s] EXCEPT !.path = sweep.told[s].path,
                                 !.present = sweep.told[s].present]
           ELSE store[s]]
    /\ \E mode \in Modes :
          sweep' = [sweep EXCEPT !.told = <<>>,
                       !.pc = IF mode = "async" THEN "jobs" ELSE "extract"]
    /\ UNCHANGED <<disk, left, registry, excluded, queue, saved, cli, created, events>>
-----------------------------------------------------------------------------
\* read_current: what the registered file of a session says now.
ReadCurrent(s) ==
    IF s \in DOMAIN registry /\ registry[s].present
    THEN disk[registry[s].path] ELSE Absent

\* _current_outputs, the fence: the registered file still says what was
\* captured, and is not excluded.  Mutant: what it says is not asked.
Unfenced(s, c) == s \in DOMAIN registry /\ s \notin excluded

Current(s, c) ==
    /\ ReadCurrent(s) # Absent /\ Sha(ReadCurrent(s)) = Sha(c)
    /\ s \notin excluded

\* The captured content of a session, as it is stored.
Kept(s, c) == [content |-> c, path |-> registry[s].path, present |-> TRUE]

\* The captures a model answers for, in a batch or one by one: some, or none
\* when it is out of reach or too slow.
Answers(jobs) == SUBSET jobs

\* Answers with valid units (the others are like none) that pass the fence are
\* ingested, in one transaction.
Ingested(got) == {j \in got : Current(j.session, j.content)}

StoreWith(jobs) ==
    LET of(s) == CHOOSE j \in jobs : j.session = s
        ours == {j.session : j \in jobs}
    IN [s \in DOMAIN store \cup ours |->
           IF s \in ours THEN Kept(s, of(s).content) ELSE store[s]]

\* _extract_llm, then _extract_ollama for the rest.
Extract(pc, next, jobs) ==
    /\ At(pc)
    /\ \E got \in Answers(jobs) :
       /\ store' = StoreWith(Ingested(got))
       /\ sweep' = [sweep EXCEPT !.pc = next,
                        !.done = @ \cup {j.session : j \in Ingested(got)}]
    /\ UNCHANGED <<disk, left, registry, excluded, queue, saved, cli, created, events>>

ExtractLlm == Extract("extract", "local", Range(sweep.caught))
ExtractOllama == Extract("local", "commit",
    {j \in Range(sweep.caught) : j.session \notin sweep.done})

\* The next captured file: it was extracted, or it is now, by rule, in a
\* transaction of its own, or it is deferred to the next sweep.
Commit ==
    /\ At("commit") /\ sweep.caught # <<>>
    /\ LET j == Head(sweep.caught)
           fits == j.session \notin sweep.done /\ Current(j.session, j.content)
       IN
       /\ store' = IF fits THEN With(store, j.session, Kept(j.session, j.content))
                   ELSE store
       /\ sweep' = IF fits \/ j.session \in sweep.done
                   THEN [sweep EXCEPT !.pc = "mark"]
                   ELSE [sweep EXCEPT !.caught = Tail(@)]
    /\ UNCHANGED <<disk, left, registry, excluded, queue, saved, cli, created, events>>

Mark ==
    /\ At("mark")
    /\ LET j == Head(sweep.caught) IN
       /\ registry' = Marked(j.session, j.content)
       /\ sweep' = [sweep EXCEPT !.pc = "commit", !.caught = Tail(@),
                                 !.hashes[j.path] = j.content]
    /\ UNCHANGED <<disk, left, store, excluded, queue, saved, cli, created, events>>

\* _save_state, without files that are gone.  (Nobody else saves it.)
Save ==
    /\ At("commit") /\ sweep.caught = <<>>
    /\ LET live == [x \in Paths |-> IF disk[x] = Absent THEN Absent
                                    ELSE sweep.hashes[x]] IN
       /\ saved' = [x \in Paths |-> IF disk[x] = Absent \/ live[x] # Absent
                                    THEN live[x] ELSE saved[x]]
       /\ sweep' = Rest(live)
    /\ UNCHANGED <<disk, left, registry, store, excluded, queue, cli, created, events>>
-----------------------------------------------------------------------------
\* _durable_sweep with the local backend: commit_ready, one job after another,
Ready == {s \in DOMAIN queue : queue[s].state = "ready"}

CommitJob ==
    /\ sweep.pc \in {"jobs", "ran"}
    /\ \E s \in Ready :
       LET c == queue[s].content
           ok == Current(s, c)
       IN
       /\ queue' = [queue EXCEPT ![s].state = IF ok THEN "committed" ELSE "stale"]
       /\ store' = IF ok THEN With(store, s, Kept(s, c)) ELSE store
       /\ sweep' = IF ok THEN [sweep EXCEPT !.done = @ \cup {<<s, c>>}] ELSE sweep
    /\ UNCHANGED <<disk, left, registry, excluded, saved, cli, created, events>>

\* then the receipts,
Receipt ==
    /\ sweep.pc \in {"jobs", "ran"} /\ Ready = {}
    /\ \E d \in sweep.done :
       /\ registry' = Marked(d[1], d[2])
       /\ sweep' = [sweep EXCEPT !.done = @ \ {d}]
    /\ UNCHANGED <<disk, left, store, excluded, queue, saved, cli, created, events>>

\* then the captured files are queued, unless the latest job of the session is
\* about the same content, and the queue is run.  enqueue refuses a source that
\* is excluded by now or makes a forgotten claim; its error ends the sweep.
Refused(j) == j.session \in excluded \/ j.content[1] \in Tainted

Queued(jobs) ==
    LET news == {j \in jobs : ~ /\ j.session \in DOMAIN queue
                                /\ queue[j.session].state # "stale"
                                /\ Sha(queue[j.session].content) = Sha(j.content)}
        of(s) == CHOOSE j \in news : j.session = s
        named == {j.session : j \in news}
    IN [s \in DOMAIN queue \cup named |->
           IF s \in named THEN [content |-> of(s).content, state |-> "queued"]
           ELSE queue[s]]

Ran(rows) == [s \in DOMAIN rows |->
    IF rows[s].state = "queued" THEN [rows[s] EXCEPT !.state = "ready"]
    ELSE rows[s]]

Enqueue ==
    /\ At("jobs") /\ Ready = {} /\ sweep.done = {}
    /\ LET caught == sweep.caught
           before == {caught[i] : i \in {n \in DOMAIN caught :
                         \A k \in 1 .. n : ~Refused(caught[k])}}
       IN IF before = Range(caught)
          THEN /\ queue' = Ran(Queued(before))
               /\ sweep' = [sweep EXCEPT !.pc = "ran", !.caught = <<>>]
          ELSE /\ queue' = Queued(before)
               /\ sweep' = Rest(sweep.hashes)
    /\ UNCHANGED <<disk, left, registry, store, excluded, saved, cli, created, events>>

\* and what was run is committed in the same way.
Finish ==
    /\ At("ran") /\ Ready = {} /\ sweep.done = {}
    /\ sweep' = [sweep EXCEPT !.pc = "commit"]
    /\ UNCHANGED <<disk, left, registry, store, excluded, queue, saved, cli, created, events>>

\* The consolidator dies and is started again.
Crash ==
    /\ Event /\ ~At("idle")
    /\ sweep' = Rest(saved)
    /\ UNCHANGED <<disk, left, registry, store, excluded, queue, saved, cli, created>>
-----------------------------------------------------------------------------
\* napmem ingest: _capture of one path, in one step,
Capture(x) ==
    /\ cli.pc = "idle" /\ Event
    /\ disk[x] # Absent /\ Resolved(x, StoredPaths) \notin excluded
    /\ LET s == SessionOf(x, disk[x], {x}, StoredPaths) IN
       /\ registry' = Observed(s, x, disk[x])
       /\ cli' = [pc |-> "commit", path |-> x, session |-> s, content |-> disk[x]]
    /\ UNCHANGED <<disk, left, store, excluded, queue, saved, sweep, created>>

\* the extraction, and the transaction with its own fence; it gives up if the
\* file is not at its path any more, or says something else.
Import ==
    /\ cli.pc = "commit"
    /\ IF /\ cli.session \notin excluded
          /\ Sha(disk[cli.path]) = Sha(cli.content)
       THEN /\ store' = With(store, cli.session,
                           [content |-> cli.content, path |-> cli.path, present |-> TRUE])
            /\ cli' = [cli EXCEPT !.pc = "mark"]
       ELSE cli' = Quiet /\ UNCHANGED store
    /\ UNCHANGED <<disk, left, registry, excluded, queue, saved, sweep, created, events>>

MarkImport ==
    /\ cli.pc = "mark"
    /\ registry' = Marked(cli.session, cli.content)
    /\ cli' = Quiet
    /\ UNCHANGED <<disk, left, store, excluded, queue, saved, sweep, created, events>>

\* The operator excludes a session, or includes it again; control() purges the
\* queue.
Exclude(s) ==
    /\ Event /\ s \in DOMAIN store
    /\ excluded' = excluded \cup {s}
    /\ store' = Without(store, s) /\ queue' = Without(queue, s)
    /\ UNCHANGED <<disk, left, registry, saved, sweep, cli, created>>

Include(s) ==
    /\ Event /\ s \in excluded
    /\ excluded' = excluded \ {s}
    /\ UNCHANGED <<disk, left, registry, store, queue, saved, sweep, cli, created>>

\* Files are created, written, moved over free paths or others, and removed.
\* Unless content recurs, none is moved back to a path with what it said when
\* it was moved away from there.
Create(x) ==
    /\ disk[x] = Absent /\ created < MaxFiles
    /\ disk' = [disk EXCEPT ![x] = <<created + 1, 0>>]
    /\ created' = created + 1 /\ Event
    /\ UNCHANGED <<left, program>>

Write(x) ==
    /\ disk[x] # Absent /\ disk[x][2] < MaxVersion /\ Event
    /\ disk' = [disk EXCEPT ![x][2] = @ + 1]
    /\ UNCHANGED <<left, created, program>>

Move(x, y) ==
    /\ disk[x] # Absent /\ x # y /\ Event
    /\ Recurs \/ <<y, disk[x]>> \notin left
    /\ left' = left \cup {<<x, disk[x]>>}
    /\ disk' = [disk EXCEPT ![x] = Absent, ![y] = disk[x]]
    /\ UNCHANGED <<created, program>>

Remove(x) ==
    /\ disk[x] # Absent /\ Event
    /\ disk' = [disk EXCEPT ![x] = Absent]
    /\ UNCHANGED <<left, created, program>>
-----------------------------------------------------------------------------
SweepStep ==
    \/ Begin \/ Look \/ Observe \/ Confirm \/ MarkMissing \/ Sync
    \/ ExtractLlm \/ ExtractOllama \/ Commit \/ Mark \/ Save
    \/ CommitJob \/ Receipt \/ Enqueue \/ Finish

Next ==
    \/ SweepStep \/ Crash
    \/ (\E x \in Paths : Capture(x)) \/ Import \/ MarkImport
    \/ \E s \in DOMAIN registry : Exclude(s) \/ Include(s)
    \/ \E x \in Paths : Create(x) \/ Write(x) \/ Remove(x)
    \/ \E x, y \in Paths : Move(x, y)

Spec == Init /\ [][Next]_vars

\* run_loop, or a timer: the sweeps go on.
FairSpec == Spec /\ WF_vars(SweepStep)
-----------------------------------------------------------------------------
Sessions == {Base(x) : x \in Paths}
            \cup {Digested(x, k) : x \in Paths, k \in {0} \cup Paths}
Known == Content \cup {Absent}

\* Every variable has its shape, and no two sessions have one path in the
\* registry: the next reader would refuse it ("Malformed source registry
\* identity") and every sweep would end there.
TypeOK ==
    /\ disk \in [Paths -> Known] /\ saved \in [Paths -> Known]
    /\ sweep.hashes \in [Paths -> Known]
    /\ DOMAIN registry \subseteq Sessions /\ DOMAIN store \subseteq Sessions
    /\ DOMAIN queue \subseteq Sessions /\ excluded \subseteq Sessions
    /\ \A s \in DOMAIN registry :
          registry[s] \in [path : Paths, seen : Content, present : BOOLEAN,
                           committed : Known]
    /\ \A s \in DOMAIN store :
          store[s] \in [content : Content, path : Paths, present : BOOLEAN]
    /\ \A s \in DOMAIN queue :
          queue[s] \in [content : Content,
                        state : {"queued", "ready", "committed", "stale"}]
    /\ \A x \in Paths : Cardinality(RegisteredAt(x)) <= 1

\* The store has content c of session s, or something that the same file said
\* later, or something of another file.
HasCaughtUp(s, c) ==
    \/ Sha(store[s].content) = Sha(c)
    \/ store[s].content[1] # c[1]
    \/ store[s].content[2] > c[2]

\* What the registry calls committed of a session is in the store, or was until
\* something newer replaced it: sweeps pass over the file for it ("observing a
\* file never marks it committed").  Not so where the sweep state vouches for a
\* path: with content that recurs it says committed of what the store has lost
\* since, and so it does of a session that comes back to a path.
CommittedIsStored == \A s \in DOMAIN registry \cap DOMAIN store :
    registry[s].committed # Absent => HasCaughtUp(s, registry[s].committed)

\* A step never replaces what the store has of a session by what the same file
\* said before, and stores nothing of a session that is excluded: an extraction
\* that took long, or a job, does not win over what overtook it.
NeverBackward ==
    [][\A s \in DOMAIN store' :
          /\ s \notin excluded'
          /\ s \in DOMAIN store => LET c == store'[s].content IN
                 c[1] = store[s].content[1] => c[2] >= store[s].content[2]]_vars

\* The file at a path is one session, which the store has with its content and
\* path, unless it is excluded.
AgreesAt(x) == \E s \in RegisteredAt(x) :
    \/ s \in excluded
    \/ /\ s \in DOMAIN store
       /\ Sha(store[s].content) = Sha(disk[x])
       /\ store[s].path = x /\ store[s].present

\* The store agrees with all files, and sessions without a file are registered
\* as missing.
Agrees ==
    /\ \A x \in Present : AgreesAt(x)
    /\ \A s \in DOMAIN registry :
          registry[s].path \notin Present => ~registry[s].present

\* When files and operator come to rest, the sweeps bring the store to where it
\* agrees with the files, and leave it there ("incrementally re-ingests changed
\* .md files"), provided that no path says again what it said before (Recurs):
\* a crash, an import or a mark that comes late delays it only.
EventuallyAgrees == <>[]Agrees

\* One file that cannot be queued does not keep the others from being ingested
\* ("one failing ingest ... must not ... abandon the rest of the sweep").
OneFileOnly ==
    <>[](\A x \in Present : disk[x][1] \notin Tainted => AgreesAt(x))
=============================================================================
