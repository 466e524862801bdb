------------------------------- MODULE Mirror -------------------------------
(***************************************************************************)
(* Verified snapshots of the store (napmem_snapshots) and the mirror that  *)
(* the failover proxy keeps of them on its own host (napmem_mcp_failover): *)
(* several transfers may run at once, each exporting the store under the   *)
(* store's lock, copying what it received to a directory of its own, and   *)
(* then publishing that directory by one replacement of the pointer, under *)
(* the pointer's lock.  A local server is started on the directory that    *)
(* the pointer names, and keeps it while transfers go on.                  *)
(***************************************************************************)
EXTENDS EmbeddingCache

CONSTANTS Syncs,      \* the transfers that may run at once
          Root,       \* the flat path in the mirror, used without a pointer
          Flat,       \* what an old flat mirror holds there, or Absent
          MaxCopies   \* bound on the directories made

Snapshots == [generation : 1 .. MaxGeneration, content : Contents,
              cache : {Absent} \cup Contents]

ASSUME MirrorConstants ==
    /\ MaxCopies \in Nat /\ Root # Absent /\ {Root, Absent} \cap (1 .. MaxCopies) = {}
    /\ Absent \notin Snapshots
    /\ Flat = Absent \/ Flat \in [generation : Nat, content : Contents]

VARIABLES transfer,  \* what each transfer has: a snapshot, a copy of it
          copies,    \* generations/: the snapshots in order of their making
          pointer,   \* current.json: the directory that is the mirror, or Absent
          server,    \* the directory the local server was started on
          reply,     \* its answer on the way to the proxy, or Absent
          answer     \* what the client last got, with its label, until the next call

mirrorVars == <<transfer, copies, pointer, server, reply, answer>>
vars == <<cacheVars, mirrorVars>>

Idle == [at |-> "idle", snapshot |-> Absent, copy |-> 0]

Init ==
    /\ CacheInit
    /\ transfer = [s \in Syncs |-> Idle] /\ copies = <<>> /\ pointer = Absent
    /\ server = Absent /\ reply = Absent /\ answer = Absent
-----------------------------------------------------------------------------
\* _cache_info: every vector is of a record of the store, and of its text.
FitsByIds(vectors, content) ==
    vectors # Absent /\ DOMAIN vectors \subseteq DOMAIN content

Fits(vectors, content) ==
    /\ vectors # Absent /\ DOMAIN vectors \subseteq DOMAIN content
    /\ \A r \in DOMAIN vectors : vectors[r] = content[r]

\* export_snapshot: a cache that does not fit is left out.
Snapshot == [generation |-> Generation, content |-> Store,
             cache |-> IF Fits(cache, Store) THEN cache ELSE Absent]

\* The remote exports; the archive arrives, and unpacks to a valid snapshot.
Export(s) ==
    /\ transfer[s] = Idle
    /\ transfer' = [transfer EXCEPT ![s] = [Idle EXCEPT !.at = "received", !.snapshot = Snapshot]]
    /\ UNCHANGED <<cacheVars, copies, pointer, server, reply, answer>>

\* publish_snapshot, before the pointer's lock.
Copy(s) ==
    /\ transfer[s].at = "received" /\ Len(copies) < MaxCopies
    /\ copies' = Append(copies, transfer[s].snapshot)
    /\ transfer' = [transfer EXCEPT ![s].at = "copied", ![s].copy = Len(copies) + 1]
    /\ UNCHANGED <<cacheVars, pointer, server, reply, answer>>

Removed(s) == [copies EXCEPT ![transfer[s].copy] = Absent]
Published == IF pointer = Absent THEN Absent ELSE copies[pointer]

\* The generation that is published is newer, or is another of that number.
NeverSuperseded(s) == FALSE

Superseded(s) ==
    Published # Absent /\ Published.generation > transfer[s].snapshot.generation
Conflicting(s) ==
    /\ Published # Absent /\ Published.generation = transfer[s].snapshot.generation
    /\ Published.content # transfer[s].snapshot.content

\* Other directories than the new one stay as they are.
Pruned(s) == [c \in DOMAIN copies |-> IF c = transfer[s].copy THEN copies[c] ELSE Absent]
Retained(s) == copies

Publish(s) ==
    /\ transfer[s].at = "copied"
    /\ IF Superseded(s) \/ Conflicting(s)
       THEN copies' = Removed(s) /\ UNCHANGED pointer
       ELSE copies' = Retained(s) /\ pointer' = transfer[s].copy
    /\ transfer' = [transfer EXCEPT ![s] = Idle]
    /\ UNCHANGED <<cacheVars, server, reply, answer>>

\* The transfer fails or times out, and takes its files with it; or the proxy
\* ends, and leaves them.
Fail(s) ==
    /\ transfer[s] # Idle
    /\ copies' \in {copies, IF transfer[s].at = "copied" THEN Removed(s) ELSE copies}
    /\ transfer' = [transfer EXCEPT ![s] = Idle]
    /\ UNCHANGED <<cacheVars, pointer, server, reply, answer>>
-----------------------------------------------------------------------------
\* resolve_snapshot_directory, and load_snapshot of what it resolves to.
Resolved == IF pointer = Absent THEN Root ELSE pointer
Generations(path) == IF path # Root THEN copies[path] ELSE Published

\* fallback_cmd: no server is started on a directory that does not verify.
Fallback ==
    IF Generations(Resolved) = Absent /\ Resolved # Root THEN Absent ELSE Resolved

\* _spawn("local"), the first time or again after an exit: an answer of the
\* server before it is not heard any more.
Start ==
    /\ server' = Fallback
    /\ reply' = Absent /\ answer' = Absent
    /\ UNCHANGED <<cacheVars, transfer, copies, pointer>>

\* The server reads the store in its directory anew for every call; that of a
\* published generation must still verify.
Reads == IF server = Root THEN Flat ELSE copies[server]

Serve ==
    /\ server # Absent /\ reply = Absent /\ Reads # Absent
    /\ reply' = Reads.content /\ answer' = Absent
    /\ UNCHANGED <<cacheVars, transfer, copies, pointer, server>>

\* on_backend_line: the proxy adds what load_snapshot says of the directory that
\* the server was started on, as it is by then.
LabelOfMirror(path) == Published
Label(path) == Generations(path)

Relay ==
    /\ reply # Absent
    /\ answer' = [content |-> reply,
                  verified |-> IF Label(server) = Absent THEN Absent ELSE Label(server).generation]
    /\ reply' = Absent
    /\ UNCHANGED <<cacheVars, transfer, copies, pointer, server>>

Next ==
    \/ CacheNext /\ UNCHANGED mirrorVars
    \/ \E s \in Syncs : Export(s) \/ Copy(s) \/ Publish(s) \/ Fail(s)
    \/ Start \/ Serve \/ Relay

Spec == Init /\ [][Next]_vars
-----------------------------------------------------------------------------
Whole(path) == path \in DOMAIN copies /\ copies[path] # Absent

\* The types; the mirror and the directory of the local server are directories
\* that exist: no later transfer removes them.
TypeOK ==
    /\ history \in Seq(Contents) /\ Generation \in 1 .. MaxGeneration
    /\ receipts \in UNION {[R -> [cache : {"removed", "pending"}, metrics : {"purged", "pending"}]] :
                             R \in SUBSET Records}
    /\ cache \in {Absent} \cup Contents
    /\ search \in [at : {"idle", "loaded", "open"}, content : Contents,
                   seen : 0 .. MaxGeneration, held : Contents]
    /\ feedback \subseteq Records /\ rating \in {Absent} \cup Records
    /\ transfer \in [Syncs -> [at : {"idle", "received", "copied"},
                               snapshot : {Absent} \cup Snapshots, copy : 0 .. MaxCopies]]
    /\ copies \in Seq({Absent} \cup Snapshots) /\ Len(copies) <= MaxCopies
    /\ pointer = Absent \/ Whole(pointer)
    /\ server \in {Absent, Root} \/ Whole(server)

\* The mirror is what the store really said at the generation it claims, and
\* its cache, if it has one, has vectors of these records and texts only, though
\* the cache of the store may be stale ("an invalid or incompatible cache is
\* omitted").
MirrorIsCanonical == Published # Absent =>
    LET said == history[Published.generation]
        vectors == IF Published.cache = Absent THEN <<>> ELSE Published.cache
    IN  /\ Published.content = said
        /\ \A r \in DOMAIN vectors : r \in DOMAIN said /\ vectors[r] = said[r]

\* "Older or failed refreshes preserve the active generation": the mirror never
\* goes back, in whatever order transfers started and end.
MirrorOnlyAdvances ==
    [][Published # Absent =>
          Published' # Absent /\ Published'.generation >= Published.generation]_vars

\* An answer that is labelled with a verified generation says what the store
\* said at that generation ("metadata reports the actual spawned snapshot's
\* generation"), though transfers publish others between the parts of it.  It
\* takes a mirror that never was flat.
AnswersAsLabelled ==
    answer # Absent /\ answer.verified # Absent =>
        answer.content = history[answer.verified]
=============================================================================
