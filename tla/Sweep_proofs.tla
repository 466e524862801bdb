---------------------------- MODULE Sweep_proofs ----------------------------
(***************************************************************************)
(* What is proved of the background consolidator (Sweep), for any paths,   *)
(* files, versions and numbers of events:                                  *)
(*                                                                         *)
(*   SweepInvariant, SweepTypeOK   the state has its shape, and a path has *)
(*                                 one entry in the registry               *)
(*   SweepNeverBackward            no late extraction or job brings back   *)
(*                                 what a file said before                 *)
(*                                                                         *)
(* Typed is inductive by itself.  NeverBackward needs that the store is at *)
(* most as late as the files (Past), however they are moved.               *)
(***************************************************************************)
EXTENDS Sweep, FiniteSetTheorems, TLAPS

\* Functions of sessions, as the files and the consolidator's memory have them.
Tables(T) == UNION {[S -> T] : S \in SUBSET Sessions}

Entries == [path : Paths, seen : Content, present : BOOLEAN, committed : Known]
Rows == [content : Content, path : Paths, present : BOOLEAN]
States == {"queued", "ready", "committed", "stale"}
Jobs == [content : Content, state : States]
Notes == [path : Paths, present : BOOLEAN]
Captures == [session : Sessions, path : Paths, content : Content]
Pairs == Sessions \X Content

Extracting == {"extract", "local", "commit", "mark"}
Paired == {"confirm", "jobs", "ran"}
Stages == {"idle", "look", "observe", "sync"} \cup Extracting \cup Paired

Sweeps == [pc : Stages, walk : SUBSET Paths, todo : SUBSET Paths,
           sources : Tables(Paths), barred : SUBSET Sessions, reading : Known,
           told : Tables(Notes), caught : Seq(Captures),
           done : SUBSET (Sessions \cup Pairs), hashes : [Paths -> Known]]

Callers == [pc : {"idle", "commit", "mark"}, path : {0} \cup Paths,
            session : {<<>>} \cup Sessions, content : Known]

\* A file is at one path, and all files have been created.
FilesType ==
    /\ disk \in [Paths -> Known] /\ created \in 1 .. MaxFiles
    /\ \A x \in Paths : disk[x] # Absent => disk[x][1] <= created
    /\ \A x, y \in Paths :
          disk[x] # Absent /\ disk[y] # Absent /\ disk[x][1] = disk[y][1] => x = y

\* A path has one entry.
RegistryType ==
    /\ registry \in Tables(Entries)
    /\ \A s, t \in DOMAIN registry : registry[s].path = registry[t].path => s = t

StoreType ==
    /\ store \in Tables(Rows) /\ queue \in Tables(Jobs)
    /\ excluded \in SUBSET Sessions /\ DOMAIN store \cap excluded = {}
    /\ saved \in [Paths -> Known]

\* What done holds depends on the stage: sessions of captures, or receipts.
SweepType ==
    /\ sweep \in Sweeps
    /\ sweep.done \subseteq CASE sweep.pc \in Extracting -> Sessions
                              [] sweep.pc \in Paired -> Pairs
                              [] OTHER -> {}
    /\ sweep.pc = "observe" => sweep.todo # {} /\ sweep.reading \in Content
    /\ sweep.pc = "mark" => sweep.caught # <<>>

CliType ==
    /\ cli \in Callers
    /\ cli.pc # "idle" => /\ cli.path \in Paths /\ cli.session \in Sessions
                          /\ cli.content \in Content

Typed == FilesType /\ RegistryType /\ StoreType /\ SweepType /\ CliType

\* A content that the disk has had: a file never says again what it said before.
Was(c) ==
    /\ c[1] <= created
    /\ \A x \in Paths : disk[x] # Absent /\ disk[x][1] = c[1] => c[2] <= disk[x][2]
-----------------------------------------------------------------------------
LEMMA Constants ==
  /\ Absent \notin Content /\ Paths \subseteq Nat /\ 0 \notin Paths
  /\ IsFiniteSet(Paths) /\ MaxFiles \in Nat /\ MaxVersion \in Nat /\ MaxFiles > 0
BY SweepConstants

LEMMA TableFacts ==
  ASSUME NEW T, NEW f \in Tables(T)
  PROVE  /\ DOMAIN f \in SUBSET Sessions /\ f \in [DOMAIN f -> T]
         /\ \A s \in DOMAIN f : f[s] \in T /\ s \in Sessions
<1>1. PICK S \in SUBSET Sessions : f \in [S -> T]
  BY DEF Tables
<1> QED
  BY <1>1

LEMMA TableMade ==
  ASSUME NEW T, NEW S \in SUBSET Sessions, NEW f \in [S -> T]
  PROVE  f \in Tables(T)
BY DEF Tables

LEMMA EmptyTable ==
  ASSUME NEW T
  PROVE  <<>> \in Tables(T) /\ DOMAIN <<>> = {}
<1>1. DOMAIN <<>> = {} /\ <<>> \in [{} -> T]
  OBVIOUS
<1> QED
  BY <1>1, TableMade

LEMMA WithMade ==
  ASSUME NEW T, NEW f \in Tables(T), NEW s \in Sessions, NEW e \in T
  PROVE  With(f, s, e) \in Tables(T)
<1>1. DOMAIN f \cup {s} \in SUBSET Sessions
  BY TableFacts
<1>2. With(f, s, e) \in [DOMAIN f \cup {s} -> T]
  BY TableFacts DEF With
<1> QED
  BY <1>1, <1>2, TableMade

LEMMA WithoutMade ==
  ASSUME NEW T, NEW f \in Tables(T), NEW s
  PROVE  /\ Without(f, s) \in Tables(T)
         /\ DOMAIN Without(f, s) = DOMAIN f \ {s}
         /\ \A t \in DOMAIN f \ {s} : Without(f, s)[t] = f[t]
<1>1. DOMAIN f \ {s} \in SUBSET Sessions
  BY TableFacts
<1>2. Without(f, s) \in [DOMAIN f \ {s} -> T]
  BY TableFacts DEF Without, Restrict
<1> QED
  BY <1>1, <1>2, TableMade DEF Without, Restrict

LEMMA SessionFacts ==
  /\ \A x \in Paths : Base(x) \in Sessions
  /\ \A x \in Paths, k \in {0} \cup Paths : Digested(x, k) \in Sessions
BY DEF Sessions

LEMMA Apart == Known = Content \cup {Absent} /\ Absent \notin Content /\ Absent \in Known
BY Constants DEF Known

\* The least of some paths is one of them.
LEMMA MinPath ==
  ASSUME NEW S \in SUBSET Paths, S # {}
  PROVE  Min(S) \in S
<1> DEFINE below(x) == {y \in S : y <= x}
           T == {below(x) : x \in S}
<1>1. IsFiniteSet(S) /\ S \subseteq Nat
  BY Constants, FS_Subset
<1>2. T \subseteq SUBSET S /\ T # {}
  OBVIOUS
<1>3. PICK A \in T : \A B \in T : ~(<<B, A>> \in StrictSubsetOrdering(S))
  <2> HIDE DEF T
  <2>1. IsWellFoundedOn(StrictSubsetOrdering(S), SUBSET S)
    BY <1>1, FS_FiniteSubsetsOfFinite, FS_StrictSubsetOrderingWellFounded
  <2> QED
    BY <1>2, <2>1, WFMin
<1>4. PICK x \in S : A = below(x)
  OBVIOUS
<1>5. ASSUME NEW y \in S PROVE x <= y
  <2> SUFFICES ASSUME y < x PROVE FALSE
    BY <1>1
  <2>1. below(y) \subseteq A /\ x \notin below(y) /\ x \in A /\ A \subseteq S
    <3>1. x \in Nat /\ y \in Nat /\ \A z \in S : z \in Nat /\ (z <= y => z <= x)
      BY <1>1
    <3>2. x <= x /\ ~(x <= y)
      BY <3>1
    <3> QED
      BY <1>4, <3>1, <3>2
  <2>2. <<below(y), A>> \in StrictSubsetOrdering(S)
    BY <2>1 DEF StrictSubsetOrdering
  <2> QED
    BY <1>3, <2>2
<1> QED
  BY <1>5 DEF Min

LEMMA EntryFacts ==
  ASSUME RegistryType
  PROVE  /\ DOMAIN registry \in SUBSET Sessions /\ registry \in Tables(Entries)
         /\ \A s \in DOMAIN registry :
               /\ registry[s] \in Entries /\ registry[s].path \in Paths
               /\ registry[s].seen \in Content /\ registry[s].present \in BOOLEAN
               /\ registry[s].committed \in Known
<1>1. \A s \in DOMAIN registry : registry[s] \in Entries
  BY TableFacts DEF RegistryType
<1>2. DOMAIN registry \in SUBSET Sessions
  BY TableFacts DEF RegistryType
<1> QED
  BY <1>1, <1>2 DEF RegistryType, Entries

\* There are no more entries than paths.
LEMMA RegistryFinite ==
  ASSUME RegistryType
  PROVE  IsFiniteSet(DOMAIN registry)
<1> DEFINE f == [s \in DOMAIN registry |-> registry[s].path]
<1>1. \A s \in DOMAIN registry : registry[s].path \in Paths
  BY EntryFacts
<1>2. f \in Injection(DOMAIN registry, Paths)
  BY <1>1 DEF RegistryType, Injection, IsInjective
<1> QED
  BY <1>2, Constants, FS_Injection

\* A path without an entry finds a session id that is free.
LEMMA FreeSuffix ==
  ASSUME RegistryType, NEW x \in Paths, RegisteredAt(x) = {}
  PROVE  \E k \in Paths : Digested(x, k) \notin DOMAIN registry
<1> SUFFICES ASSUME \A k \in Paths : Digested(x, k) \in DOMAIN registry
             PROVE  FALSE
  OBVIOUS
<1> DEFINE f == [k \in Paths |-> registry[Digested(x, k)].path]
<1> DEFINE others == Paths \ {x}
<1>1. f \in [Paths -> others]
  BY EntryFacts DEF RegisteredAt
<1>2. /\ IsFiniteSet(others) /\ Cardinality(Paths) \in Nat
      /\ Cardinality(others) = Cardinality(Paths) - 1
  BY Constants, FS_RemoveElement, FS_CardinalityType
<1>3. PICK k, l \in Paths : k # l /\ f[k] = f[l]
  <2> HIDE DEF f, others
  <2>1. Cardinality(others) < Cardinality(Paths)
    BY <1>2
  <2>2. IsFiniteSet(Paths) /\ IsFiniteSet(others) /\ f \in [Paths -> others]
    BY <1>1, <1>2, Constants
  <2>3. \E k, l \in Paths : k # l /\ f[k] = f[l]
    BY ONLY <2>1, <2>2, FS_PigeonHole
  <2> QED
    BY <2>3
<1>4. Digested(x, k) = Digested(x, l)
  BY <1>3 DEF RegistryType
<1> QED
  BY <1>3, <1>4 DEF Digested

LEMMA NamedTyped ==
  ASSUME NEW x \in Paths, NEW sources \in Tables(Paths)
  PROVE  Named(x, sources) \in Sessions
<1>1. StoredAt(sources, x) # {} =>
         (CHOOSE s \in StoredAt(sources, x) : TRUE) \in DOMAIN sources
  BY DEF StoredAt
<1> QED
  BY <1>1, TableFacts, SessionFacts DEF Named

\* The session of a path is the one that has it, or one whose path is gone, or
\* a new one.
LEMMA SessionFound ==
  ASSUME RegistryType, NEW x \in Paths, NEW c \in Content, NEW live,
         NEW sources \in Tables(Paths),
         NEW s, s = SessionOf(x, c, live, sources)
  PROVE  /\ s \in Sessions
         /\ \/ s \in DOMAIN registry /\ registry[s].path = x
            \/ /\ RegisteredAt(x) = {} /\ s \in DOMAIN registry
               /\ disk[registry[s].path] = Absent /\ registry[s].path # x
            \/ RegisteredAt(x) = {} /\ s \notin DOMAIN registry
<1>1. CASE RegisteredAt(x) # {}
  <2>1. s \in RegisteredAt(x)
    BY <1>1 DEF SessionOf
  <2> QED
    BY <2>1, EntryFacts DEF RegisteredAt
<1>2. CASE RegisteredAt(x) = {} /\ Cardinality(Moved(x, c, live)) = 1
  <2>1. IsFiniteSet(Moved(x, c, live))
    <3>1. Moved(x, c, live) \in SUBSET DOMAIN registry
      BY DEF Moved
    <3> QED
      BY <3>1, RegistryFinite, FS_Subset
  <2>2. \E t : Moved(x, c, live) = {t}
    BY <1>2, <2>1, FS_Singleton
  <2>3. s \in Moved(x, c, live)
    BY <1>2, <2>2 DEF SessionOf
  <2> QED
    BY <1>2, <2>3, EntryFacts DEF Moved, RegisteredAt
<1>3. CASE /\ RegisteredAt(x) = {} /\ Cardinality(Moved(x, c, live)) # 1
           /\ Named(x, sources) \notin DOMAIN registry
  BY <1>3, NamedTyped DEF SessionOf
<1>4. CASE /\ RegisteredAt(x) = {} /\ Cardinality(Moved(x, c, live)) # 1
           /\ Named(x, sources) \in DOMAIN registry
  <2> DEFINE D == {Digested(x, k) : k \in Paths}
  <2>1. \E t \in D : t \notin DOMAIN registry
    BY <1>4, FreeSuffix
  <2>2. s = CHOOSE t \in D : t \notin DOMAIN registry
    BY <1>4 DEF SessionOf
  <2>3. s \in D /\ s \notin DOMAIN registry
    BY <2>1, <2>2
  <2> QED
    BY <1>4, <2>3, SessionFacts
<1> QED
  BY <1>1, <1>2, <1>3, <1>4
-----------------------------------------------------------------------------
LEMMA SweepFacts ==
  ASSUME SweepType
  PROVE  /\ sweep.pc \in Stages /\ sweep.walk \in SUBSET Paths /\ sweep.todo \in SUBSET Paths
         /\ sweep.sources \in Tables(Paths) /\ sweep.barred \in SUBSET Sessions
         /\ sweep.reading \in Known /\ sweep.told \in Tables(Notes)
         /\ sweep.caught \in Seq(Captures) /\ sweep.hashes \in [Paths -> Known]
         /\ sweep.done \in SUBSET (Sessions \cup Pairs)
         /\ sweep.pc \in Extracting => sweep.done \in SUBSET Sessions
         /\ sweep.pc \in Paired => sweep.done \in SUBSET Pairs
         /\ sweep.pc \in {"idle", "look", "observe", "sync"} => sweep.done = {}
BY DEF SweepType, Sweeps, Extracting, Paired, Stages

LEMMA RestTyped ==
  ASSUME NEW h \in [Paths -> Known]
  PROVE  /\ Rest(h) \in Sweeps /\ Rest(h).pc = "idle" /\ Rest(h).done = {}
         /\ Rest(h).hashes = h /\ Rest(h).caught = <<>>
<1>1. /\ <<>> \in Tables(Paths) /\ <<>> \in Tables(Notes) /\ <<>> \in Seq(Captures)
      /\ "idle" \in Stages /\ Absent \in Known
  BY EmptyTable, Apart DEF Stages
<1> QED
  BY <1>1 DEF Rest, Sweeps

\* What a sweep is at after a step: its new memory and stage fit.
LEMMA SweepMade ==
  ASSUME NEW m \in Sweeps,
         m.pc \in Extracting => m.done \subseteq Sessions,
         m.pc \in Paired => m.done \subseteq Pairs,
         m.pc \in {"idle", "look", "observe", "sync"} => m.done = {},
         m.pc = "observe" => m.todo # {} /\ m.reading \in Content,
         m.pc = "mark" => m.caught # <<>>,
         sweep' = m
  PROVE  SweepType'
BY DEF SweepType, Sweeps, Extracting, Paired, Stages

LEMMA StoredPathsTyped ==
  ASSUME StoreType
  PROVE  /\ StoredPaths \in Tables(Paths) /\ DOMAIN StoredPaths = DOMAIN store
         /\ \A s \in DOMAIN store : StoredPaths[s] = store[s].path
<1>1. DOMAIN store \in SUBSET Sessions /\ \A s \in DOMAIN store : store[s] \in Rows
  BY TableFacts DEF StoreType
<1>2. StoredPaths \in [DOMAIN store -> Paths]
  BY <1>1 DEF StoredPaths, Rows
<1>3. StoredPaths \in Tables(Paths)
  BY <1>1, <1>2, TableMade
<1> QED
  BY <1>3 DEF StoredPaths

LEMMA BeginTyped ==
  ASSUME Typed, Begin
  PROVE  Typed'
<1> DEFINE m == [sweep EXCEPT !.pc = "look", !.sources = StoredPaths,
                              !.barred = excluded, !.walk = Present,
                              !.todo = Present]
<1>1. StoredPaths \in Tables(Paths)
  BY StoredPathsTyped DEF Typed
<1>2. excluded \in SUBSET Sessions /\ Present \in SUBSET Paths /\ "look" \in Stages
  BY DEF Typed, StoreType, Present, Stages
<1>3. sweep \in Sweeps /\ sweep.done = {}
  BY SweepFacts DEF Typed, SweepType, Begin, At
<1>4. m \in Sweeps /\ m.pc = "look" /\ m.done = {}
  BY <1>1, <1>2, <1>3 DEF Sweeps
<1>5. SweepType'
  <2>1. sweep' = m
    BY DEF Begin
  <2> HIDE DEF m
  <2> QED
    BY <1>4, <2>1, SweepMade DEF Extracting, Paired
<1> QED
  BY <1>5 DEF Begin, Typed, FilesType, RegistryType, StoreType, CliType

LEMMA LookTyped ==
  ASSUME Typed, Look
  PROVE  Typed'
<1> DEFINE x == Min(sweep.todo)
           m == [sweep EXCEPT !.todo = @ \ {x}]
           n == [sweep EXCEPT !.pc = "observe", !.reading = disk[x]]
<1>1. /\ sweep \in Sweeps /\ sweep.done = {} /\ sweep.todo \in SUBSET Paths
      /\ sweep.pc = "look" /\ sweep.todo # {} /\ "observe" \in Stages
      /\ sweep.reading \in Known
  BY SweepFacts DEF Typed, SweepType, Look, At, Stages
<1>2. x \in Paths /\ disk[x] \in Known
  BY <1>1, MinPath DEF Typed, FilesType
<1> HIDE DEF x
<1>3. m \in Sweeps /\ m.pc = "look" /\ m.done = {}
  BY <1>1 DEF Sweeps
<1>4. /\ n \in Sweeps /\ n.pc = "observe" /\ n.done = {} /\ n.todo # {}
      /\ n.reading = disk[x]
  BY <1>1, <1>2 DEF Sweeps
<1>5. sweep' = IF disk[x] = Absent \/ Resolved(x, sweep.sources) \in sweep.barred
                THEN m ELSE n
  BY DEF Look, x
<1> HIDE DEF m, n
<1>6. SweepType'
  BY <1>2, <1>3, <1>4, <1>5, SweepMade, Apart DEF Extracting, Paired
<1> QED
  BY <1>6 DEF Look, Typed, FilesType, RegistryType, StoreType, CliType

\* observe leaves one entry for each path.
LEMMA ObservedTyped ==
  ASSUME RegistryType, NEW x \in Paths, NEW c \in Content, NEW live,
         NEW sources \in Tables(Paths), NEW s, s = SessionOf(x, c, live, sources),
         registry' = Observed(s, x, c)
  PROVE  /\ RegistryType' /\ s \in Sessions
         /\ DOMAIN registry' = DOMAIN registry \cup {s}
         /\ registry'[s].path = x /\ registry'[s].seen = c /\ registry'[s].present
         /\ registry'[s].committed = CommittedOf(s) /\ CommittedOf(s) \in Known
         /\ \A t \in DOMAIN registry : t # s => registry'[t] = registry[t]
<1> DEFINE e == [path |-> x, seen |-> c, present |-> TRUE, committed |-> CommittedOf(s)]
<1>1. s \in Sessions
  BY SessionFound
<1>2. CommittedOf(s) \in Known
  BY EntryFacts, Apart DEF CommittedOf
<1>3. /\ e \in Entries /\ e.path = x /\ e.seen = c /\ e.present
      /\ e.committed = CommittedOf(s)
  BY <1>2 DEF Entries
<1>4. registry' = With(registry, s, e)
  BY DEF Observed
<1> HIDE DEF e
<1>5. /\ registry' \in Tables(Entries) /\ DOMAIN registry' = DOMAIN registry \cup {s}
      /\ registry'[s] = e
      /\ \A t \in DOMAIN registry : t # s => registry'[t] = registry[t]
  <2>1. registry \in Tables(Entries) /\ e \in Entries
    BY <1>3, EntryFacts
  <2>2. With(registry, s, e) \in Tables(Entries)
    BY ONLY <1>1, <2>1, WithMade
  <2> QED
    BY <1>4, <2>2 DEF With
<1>6. \A t \in DOMAIN registry : t # s => registry[t].path # x
  BY SessionFound DEF RegistryType, RegisteredAt
<1>7. \A t, u \in DOMAIN registry' : registry'[t].path = registry'[u].path => t = u
  BY <1>3, <1>5, <1>6 DEF RegistryType
<1> QED
  BY <1>1, <1>2, <1>3, <1>5, <1>7 DEF RegistryType

LEMMA ObserveTyped ==
  ASSUME Typed, Observe
  PROVE  Typed'
<1> DEFINE x == Min(sweep.todo)
           c == sweep.reading
           s == SessionOf(x, c, sweep.walk, sweep.sources)
           next == [sweep EXCEPT !.pc = "look", !.todo = @ \ {x}, !.reading = Absent]
           heard == [next EXCEPT !.told = With(@, s, [path |-> x, present |-> TRUE])]
           j == [session |-> s, path |-> x, content |-> c]
<1>1. /\ sweep \in Sweeps /\ sweep.done = {} /\ sweep.todo \in SUBSET Paths
      /\ sweep.sources \in Tables(Paths) /\ sweep.told \in Tables(Notes)
      /\ sweep.caught \in Seq(Captures) /\ sweep.hashes \in [Paths -> Known]
      /\ sweep.todo # {} /\ c \in Content
  BY SweepFacts DEF Typed, SweepType, Observe, At
<1>2. x \in Paths
  BY <1>1, MinPath
<1>3. RegistryType' /\ s \in Sessions
  BY <1>1, <1>2, ObservedTyped DEF Typed, Observe
<1> HIDE DEF x, s, c
<1>4. With(sweep.told, s, [path |-> x, present |-> TRUE]) \in Tables(Notes)
  <2>1. [path |-> x, present |-> TRUE] \in Notes
    BY <1>2 DEF Notes
  <2> QED
    BY <1>1, <1>3, <2>1, WithMade
<1>5. /\ next \in Sweeps /\ next.pc = "look" /\ next.done = {} /\ next.told = sweep.told
      /\ next.caught = sweep.caught /\ next.hashes = sweep.hashes
  <2>1. "look" \in Stages /\ Absent \in Known
    BY Apart DEF Stages
  <2> QED
    BY <1>1, <2>1 DEF Sweeps
<1> HIDE DEF next
<1>6. /\ heard \in Sweeps /\ heard.pc = "look" /\ heard.done = {}
      /\ heard.caught = sweep.caught /\ heard.hashes = sweep.hashes
  BY <1>4, <1>5 DEF Sweeps
<1> HIDE DEF heard
<1>7. j \in Captures
  BY <1>1, <1>2, <1>3 DEF Captures
<1>8. \/ sweep' = next
      \/ sweep' = [heard EXCEPT !.caught = Append(@, j)]
      \/ sweep' = [heard EXCEPT !.hashes[x] = c]
      \/ sweep' = [heard EXCEPT !.hashes[x] = c, !.pc = "confirm", !.done = {<<s, c>>}]
  BY DEF Observe, x, s, c, next, heard
<1> HIDE DEF j
<1>9. CASE sweep' = next
  BY <1>3, <1>5, <1>9, SweepMade DEF Typed, Observe, FilesType, StoreType, CliType, Extracting, Paired
<1>10. CASE sweep' = [heard EXCEPT !.caught = Append(@, j)]
  <2> DEFINE m == [heard EXCEPT !.caught = Append(@, j)]
  <2>1. Append(heard.caught, j) \in Seq(Captures)
    BY <1>1, <1>6, <1>7
  <2>2. m \in Sweeps /\ m.pc = "look" /\ m.done = {}
    BY <1>6, <2>1 DEF Sweeps
  <2> HIDE DEF m
  <2>3. SweepType'
    BY <1>10, <2>2, SweepMade DEF Extracting, Paired, m
  <2> QED
    BY <1>3, <2>3 DEF Typed, Observe, FilesType, StoreType, CliType
<1>11. CASE sweep' = [heard EXCEPT !.hashes[x] = c]
  <2> DEFINE m == [heard EXCEPT !.hashes[x] = c]
  <2>1. [heard.hashes EXCEPT ![x] = c] \in [Paths -> Known]
    BY <1>1, <1>6, Apart
  <2>2. m \in Sweeps /\ m.pc = "look" /\ m.done = {}
    BY <1>6, <2>1 DEF Sweeps
  <2> HIDE DEF m
  <2>3. SweepType'
    BY <1>11, <2>2, SweepMade DEF Extracting, Paired, m
  <2> QED
    BY <1>3, <2>3 DEF Typed, Observe, FilesType, StoreType, CliType
<1>12. CASE sweep' = [heard EXCEPT !.hashes[x] = c, !.pc = "confirm", !.done = {<<s, c>>}]
  <2> DEFINE m == [heard EXCEPT !.hashes[x] = c, !.pc = "confirm", !.done = {<<s, c>>}]
  <2>1. /\ [heard.hashes EXCEPT ![x] = c] \in [Paths -> Known]
        /\ {<<s, c>>} \subseteq Pairs /\ "confirm" \in Stages
    <3>1. <<s, c>> \in Pairs /\ c \in Known
      BY <1>1, <1>3, Apart DEF Pairs
    <3> QED
      BY <1>1, <1>6, <3>1 DEF Stages, Paired
  <2>2. m \in Sweeps /\ m.pc = "confirm" /\ m.done \subseteq Pairs
    BY <1>6, <2>1 DEF Sweeps
  <2> HIDE DEF m
  <2>3. SweepType'
    BY <1>12, <2>2, SweepMade DEF Extracting, Paired, m
  <2> QED
    BY <1>3, <2>3 DEF Typed, Observe, FilesType, StoreType, CliType
<1> QED
  BY <1>8, <1>9, <1>10, <1>11, <1>12

\* A receipt changes what is called committed, of one session.
LEMMA MarkedTyped ==
  ASSUME RegistryType, NEW s, NEW c \in Content, registry' = Marked(s, c)
  PROVE  /\ RegistryType' /\ DOMAIN registry' = DOMAIN registry
         /\ \A t \in DOMAIN registry :
               /\ registry'[t].path = registry[t].path
               /\ registry'[t].seen = registry[t].seen
               /\ registry'[t].present = registry[t].present
               /\ \/ registry'[t].committed = registry[t].committed
                  \/ t = s /\ registry'[t].committed = c
<1>1. CASE registry' = registry
  BY <1>1 DEF RegistryType
<1>2. CASE s \in DOMAIN registry /\ registry' = [registry EXCEPT ![s].committed = c]
  <2> DEFINE e == [registry[s] EXCEPT !.committed = c]
  <2>1. /\ e \in Entries /\ e.path = registry[s].path /\ e.seen = registry[s].seen
        /\ e.present = registry[s].present /\ e.committed = c
    BY <1>2, EntryFacts, Apart DEF Entries
  <2> HIDE DEF e
  <2>2. /\ DOMAIN registry' = DOMAIN registry /\ registry'[s] = e
        /\ \A t \in DOMAIN registry : t # s => registry'[t] = registry[t]
        /\ registry' = [t \in DOMAIN registry |-> registry'[t]]
    BY <1>2 DEF e
  <2>3. registry' \in [DOMAIN registry -> Entries]
    BY <2>1, <2>2, EntryFacts
  <2>4. registry' \in Tables(Entries)
    BY <2>3, EntryFacts, TableMade
  <2> QED
    BY <2>1, <2>2, <2>4 DEF RegistryType
<1> QED
  BY <1>1, <1>2 DEF Marked

LEMMA ConfirmTyped ==
  ASSUME Typed, Confirm
  PROVE  Typed'
<1> DEFINE m == [sweep EXCEPT !.pc = "look", !.done = {}]
<1>1. sweep \in Sweeps /\ sweep.done \in SUBSET Pairs /\ "look" \in Stages
  BY SweepFacts DEF Typed, SweepType, Confirm, At, Stages, Paired
<1>2. m \in Sweeps /\ m.pc = "look" /\ m.done = {}
  BY <1>1 DEF Sweeps
<1>3. PICK d \in Pairs : registry' = Marked(d[1], d[2])
  BY <1>1 DEF Confirm
<1>4. RegistryType'
  BY <1>3, MarkedTyped DEF Pairs, Typed
<1>5. sweep' = m
  BY DEF Confirm
<1> HIDE DEF m
<1>6. SweepType'
  BY <1>2, <1>5, SweepMade DEF Extracting, Paired
<1> QED
  BY <1>4, <1>6 DEF Confirm, Typed, FilesType, StoreType, CliType

\* What mark_missing leaves of an entry.
LEMMA MissingTyped ==
  ASSUME RegistryType,
         registry' = [s \in DOMAIN registry |->
                         [registry[s] EXCEPT !.present = @ /\ s \notin Gone]]
  PROVE  /\ RegistryType' /\ DOMAIN registry' = DOMAIN registry
         /\ \A s \in DOMAIN registry :
               /\ registry'[s].path = registry[s].path
               /\ registry'[s].seen = registry[s].seen
               /\ registry'[s].committed = registry[s].committed
<1>1. ASSUME NEW s \in DOMAIN registry
      PROVE  LET e == [registry[s] EXCEPT !.present = @ /\ s \notin Gone]
             IN  /\ e \in Entries /\ e.path = registry[s].path
                 /\ e.seen = registry[s].seen /\ e.committed = registry[s].committed
  <2>1. (registry[s].present /\ s \notin Gone) \in BOOLEAN
    OBVIOUS
  <2> QED
    BY <2>1, EntryFacts DEF Entries
<1>2. /\ registry' \in [DOMAIN registry -> Entries]
      /\ \A s \in DOMAIN registry :
            /\ registry'[s].path = registry[s].path
            /\ registry'[s].seen = registry[s].seen
            /\ registry'[s].committed = registry[s].committed
  BY <1>1
<1>3. registry' \in Tables(Entries)
  BY <1>2, EntryFacts, TableMade
<1> QED
  BY <1>2, <1>3 DEF RegistryType

LEMMA MarkMissingTyped ==
  ASSUME Typed, MarkMissing
  PROVE  Typed'
<1> DEFINE told == [s \in DOMAIN sweep.told \cup Gone |->
                       IF s \in Gone THEN [path |-> registry[s].path, present |-> FALSE]
                       ELSE sweep.told[s]]
           m == [sweep EXCEPT !.pc = "sync", !.walk = {}, !.sources = <<>>,
                              !.barred = {}, !.told = told]
<1>1. /\ sweep \in Sweeps /\ sweep.done = {} /\ "sync" \in Stages
      /\ sweep.told \in Tables(Notes) /\ <<>> \in Tables(Paths)
  BY SweepFacts, EmptyTable DEF Typed, SweepType, MarkMissing, At, Stages
<1>2. told \in Tables(Notes)
  <2>1. Gone \subseteq DOMAIN registry
    BY DEF Gone
  <2>2. DOMAIN sweep.told \cup Gone \in SUBSET Sessions
    BY <1>1, <2>1, TableFacts, EntryFacts DEF Typed
  <2>3. \A s \in Gone : [path |-> registry[s].path, present |-> FALSE] \in Notes
    BY <2>1, EntryFacts DEF Typed, Notes
  <2>4. \A s \in DOMAIN sweep.told : sweep.told[s] \in Notes
    BY <1>1, TableFacts
  <2>5. told \in [DOMAIN sweep.told \cup Gone -> Notes]
    BY <2>3, <2>4
  <2> QED
    BY <2>2, <2>5, TableMade
<1>3. RegistryType'
  BY MissingTyped DEF MarkMissing, Typed
<1>4. sweep' = m
  BY DEF MarkMissing
<1> HIDE DEF told
<1>5. m \in Sweeps /\ m.pc = "sync" /\ m.done = {}
  BY <1>1, <1>2 DEF Sweeps
<1> HIDE DEF m
<1>6. SweepType'
  BY <1>4, <1>5, SweepMade DEF Extracting, Paired
<1> QED
  BY <1>3, <1>6 DEF MarkMissing, Typed, FilesType, StoreType, CliType

\* The metadata of a source changes, not what was committed of it.
LEMMA SyncedTyped ==
  ASSUME StoreType, SweepType,
         store' = [s \in DOMAIN store |->
           IF s \in DOMAIN sweep.told
           THEN [store[s] EXCEPT !.path = sweep.told[s].path,
                                 !.present = sweep.told[s].present]
           ELSE store[s]]
  PROVE  /\ store' \in Tables(Rows) /\ DOMAIN store' = DOMAIN store
         /\ \A s \in DOMAIN store :
               /\ store'[s].content = store[s].content
               /\ store'[s].path = IF s \in DOMAIN sweep.told THEN sweep.told[s].path
                                   ELSE store[s].path
<1>1. /\ DOMAIN store \in SUBSET Sessions
      /\ \A s \in DOMAIN store : store[s] \in Rows
      /\ \A s \in DOMAIN sweep.told : sweep.told[s] \in Notes
  BY TableFacts, SweepFacts DEF StoreType
<1>2. ASSUME NEW s \in DOMAIN store, s \in DOMAIN sweep.told
      PROVE  LET e == [store[s] EXCEPT !.path = sweep.told[s].path,
                                       !.present = sweep.told[s].present]
             IN  e \in Rows /\ e.content = store[s].content /\ e.path = sweep.told[s].path
  BY <1>1, <1>2 DEF Rows, Notes
<1>3. /\ store' \in [DOMAIN store -> Rows]
      /\ \A s \in DOMAIN store :
               /\ store'[s].content = store[s].content
               /\ store'[s].path = IF s \in DOMAIN sweep.told THEN sweep.told[s].path
                                   ELSE store[s].path
  BY <1>1, <1>2
<1> QED
  BY <1>1, <1>3, TableMade

LEMMA SyncTyped ==
  ASSUME Typed, Sync
  PROVE  Typed'
<1>1. PICK pc \in {"jobs", "extract"} : sweep' = [sweep EXCEPT !.told = <<>>, !.pc = pc]
  BY DEF Sync
<1> DEFINE m == [sweep EXCEPT !.told = <<>>, !.pc = pc]
<1>2. /\ sweep \in Sweeps /\ sweep.done = {} /\ <<>> \in Tables(Notes)
      /\ pc \in Stages
  BY SweepFacts, EmptyTable DEF Typed, SweepType, Sync, At, Stages, Extracting, Paired
<1>3. m \in Sweeps /\ m.pc \in {"jobs", "extract"} /\ m.done = {}
  BY <1>2 DEF Sweeps
<1>4. store' \in Tables(Rows) /\ DOMAIN store' = DOMAIN store
  BY SyncedTyped DEF Sync, Typed
<1>5. sweep' = m
  BY <1>1
<1> HIDE DEF m
<1>6. SweepType'
  BY <1>3, <1>5, SweepMade DEF Extracting, Paired
<1>7. StoreType'
  BY <1>4 DEF Sync, Typed, StoreType
<1> QED
  BY <1>6, <1>7 DEF Sync, Typed, FilesType, RegistryType, CliType
-----------------------------------------------------------------------------
\* What the fence lets through is of a registered source that is not excluded.
LEMMA CurrentFacts ==
  ASSUME RegistryType, FilesType, NEW s, NEW c \in Content, Current(s, c)
  PROVE  /\ s \in DOMAIN registry /\ s \in Sessions /\ s \notin excluded
         /\ registry[s].path \in Paths /\ disk[registry[s].path] \in Content
         /\ Sha(disk[registry[s].path]) = Sha(c)
         /\ Kept(s, c) \in Rows
         /\ Kept(s, c).content = c /\ Kept(s, c).path = registry[s].path
<1>1. s \in DOMAIN registry /\ ReadCurrent(s) = disk[registry[s].path]
  BY DEF Current, ReadCurrent
<1>2. registry[s].path \in Paths /\ s \in Sessions
  BY <1>1, EntryFacts
<1> QED
  BY <1>1, <1>2, Apart DEF Current, Kept, Rows, FilesType

LEMMA StoreWithMade ==
  ASSUME RegistryType, FilesType, StoreType, NEW jobs \in SUBSET Captures,
         \A j \in jobs : Current(j.session, j.content),
         store' = StoreWith(jobs)
  PROVE  /\ store' \in Tables(Rows)
         /\ DOMAIN store' = DOMAIN store \cup {j.session : j \in jobs}
         /\ \A s \in DOMAIN store' :
               \/ s \in DOMAIN store /\ store'[s] = store[s]
               \/ \E j \in jobs : j.session = s /\ store'[s] = Kept(s, j.content)
         /\ \A j \in jobs : \E k \in jobs :
               k.session = j.session /\ store'[j.session] = Kept(j.session, k.content)
<1> DEFINE ours == {j.session : j \in jobs}
           of(s) == CHOOSE j \in jobs : j.session = s
<1>1. ASSUME NEW s \in ours PROVE of(s) \in jobs /\ of(s).session = s
  BY <1>1
<1>2. \A j \in jobs : j.session \in Sessions /\ j.content \in Content
  BY DEF Captures
<1> HIDE DEF of
<1>3. \A s \in ours : Kept(s, of(s).content) \in Rows
  BY <1>1, <1>2, CurrentFacts
<1>4. /\ DOMAIN store \in SUBSET Sessions
      /\ \A s \in DOMAIN store : store[s] \in Rows
  BY TableFacts DEF StoreType
<1>5. store' = [s \in DOMAIN store \cup ours |->
                   IF s \in ours THEN Kept(s, of(s).content) ELSE store[s]]
  BY DEF StoreWith, of
<1>6. DOMAIN store \cup ours \in SUBSET Sessions
  BY <1>2, <1>4
<1>7. store' \in [DOMAIN store \cup ours -> Rows]
  BY <1>3, <1>4, <1>5
<1>8. store' \in Tables(Rows)
  BY <1>6, <1>7, TableMade
<1>9. \A s \in ours : store'[s] = Kept(s, of(s).content)
  BY <1>5
<1>10. \A s \in DOMAIN store \ ours : store'[s] = store[s]
  BY <1>5
<1> QED
  BY <1>1, <1>5, <1>8, <1>9, <1>10

LEMMA CaughtFacts ==
  ASSUME SweepType
  PROVE  /\ Range(sweep.caught) \in SUBSET Captures
         /\ Range(sweep.caught) = {sweep.caught[i] : i \in DOMAIN sweep.caught}
         /\ \A i \in DOMAIN sweep.caught :
               /\ sweep.caught[i].session \in Sessions
               /\ sweep.caught[i].path \in Paths
               /\ sweep.caught[i].content \in Content
<1>1. \A i \in DOMAIN sweep.caught : sweep.caught[i] \in Captures
  BY SweepFacts
<1> QED
  BY <1>1 DEF Range, Captures

LEMMA ExtractTyped ==
  ASSUME Typed, NEW pc, NEW next \in Extracting \ {"mark"}, NEW jobs \in SUBSET Range(sweep.caught),
         pc \in Extracting, Extract(pc, next, jobs)
  PROVE  Typed'
<1>1. PICK got \in SUBSET jobs :
         /\ store' = StoreWith(Ingested(got))
         /\ sweep' = [sweep EXCEPT !.pc = next,
                          !.done = @ \cup {j.session : j \in Ingested(got)}]
  BY DEF Extract, Answers
<1> DEFINE done == sweep.done \cup {j.session : j \in Ingested(got)}
           m == [sweep EXCEPT !.pc = next, !.done = done]
<1>2. Ingested(got) \in SUBSET Captures /\ \A j \in Ingested(got) : Current(j.session, j.content)
  BY CaughtFacts DEF Typed, Ingested
<1>3. /\ store' \in Tables(Rows)
      /\ DOMAIN store' = DOMAIN store \cup {j.session : j \in Ingested(got)}
  BY <1>1, <1>2, StoreWithMade DEF Typed
<1>4. \A j \in Ingested(got) : j.session \in Sessions /\ j.session \notin excluded
  BY <1>2, CurrentFacts DEF Captures, Typed
<1>5. StoreType'
  BY <1>3, <1>4 DEF Typed, StoreType, Extract
<1>6. sweep \in Sweeps /\ sweep.done \in SUBSET Sessions
  BY SweepFacts DEF Typed, SweepType, Extract, At
<1>7. done \subseteq Sessions
  BY <1>4, <1>6
<1>8. sweep' = m
  BY <1>1
<1> HIDE DEF done
<1>9. m \in Sweeps /\ m.pc = next /\ m.done = done
  BY <1>6, <1>7 DEF Sweeps, Stages
<1> HIDE DEF m
<1>10. SweepType'
  BY <1>7, <1>8, <1>9, SweepMade DEF Extracting, Paired
<1> QED
  BY <1>5, <1>10 DEF Extract, Typed, FilesType, RegistryType, CliType

LEMMA CommitTyped ==
  ASSUME Typed, Commit
  PROVE  Typed'
<1> DEFINE j == Head(sweep.caught)
           m == [sweep EXCEPT !.pc = "mark"]
           n == [sweep EXCEPT !.caught = Tail(@)]
<1>1. /\ sweep \in Sweeps /\ sweep.done \in SUBSET Sessions /\ sweep.pc = "commit"
      /\ sweep.caught \in Seq(Captures) /\ sweep.caught # <<>> /\ "mark" \in Stages
  BY SweepFacts DEF Typed, SweepType, Commit, At, Stages, Extracting
<1>2. j \in Captures /\ Tail(sweep.caught) \in Seq(Captures)
  BY <1>1
<1>3. m \in Sweeps /\ m.pc = "mark" /\ m.done \subseteq Sessions /\ m.caught # <<>>
  BY <1>1 DEF Sweeps
<1>4. n \in Sweeps /\ n.pc = "commit" /\ n.done \subseteq Sessions
  BY <1>1, <1>2 DEF Sweeps
<1>5. \/ store' = store
      \/ Current(j.session, j.content) /\ store' = With(store, j.session, Kept(j.session, j.content))
  BY DEF Commit
<1>6. sweep' = m \/ sweep' = n
  BY DEF Commit
<1> HIDE DEF m, n, j
<1>7. SweepType'
  BY <1>3, <1>4, <1>6, SweepMade DEF Extracting, Paired
<1>8. StoreType'
  <2>1. CASE store' = store
    BY <2>1 DEF Typed, StoreType, Commit
  <2>2. CASE Current(j.session, j.content) /\ store' = With(store, j.session, Kept(j.session, j.content))
    <3>1. /\ j.session \in Sessions /\ j.session \notin excluded
          /\ Kept(j.session, j.content) \in Rows /\ store \in Tables(Rows)
      BY <1>2, <2>2, CurrentFacts DEF Captures, Typed, StoreType
    <3>2. store' \in Tables(Rows)
      BY <2>2, <3>1, WithMade
    <3>3. DOMAIN store' = DOMAIN store \cup {j.session}
      BY <2>2 DEF With
    <3> QED
      BY <3>1, <3>2, <3>3 DEF Typed, StoreType, Commit
  <2> QED
    BY <1>5, <2>1, <2>2
<1> QED
  BY <1>7, <1>8 DEF Commit, Typed, FilesType, RegistryType, CliType

LEMMA MarkTyped ==
  ASSUME Typed, Mark
  PROVE  Typed'
<1> DEFINE j == Head(sweep.caught)
           m == [sweep EXCEPT !.pc = "commit", !.caught = Tail(@),
                              !.hashes[j.path] = j.content]
<1>1. /\ sweep \in Sweeps /\ sweep.done \in SUBSET Sessions /\ "commit" \in Stages
      /\ sweep.caught \in Seq(Captures) /\ sweep.caught # <<>>
      /\ sweep.hashes \in [Paths -> Known]
  BY SweepFacts DEF Typed, SweepType, Mark, At, Stages, Extracting
<1>2. j \in Captures /\ Tail(sweep.caught) \in Seq(Captures)
  BY <1>1
<1>3. registry' = Marked(j.session, j.content) /\ sweep' = m
  BY DEF Mark
<1> HIDE DEF j
<1>4. j.content \in Content /\ j.content \in Known /\ j.path \in Paths
  BY <1>2, Apart DEF Captures
<1>5. RegistryType'
  BY <1>3, <1>4, MarkedTyped DEF Typed
<1>6. [sweep.hashes EXCEPT ![j.path] = j.content] \in [Paths -> Known]
  BY <1>1, <1>4
<1>7. m \in Sweeps /\ m.pc = "commit" /\ m.done \subseteq Sessions
  BY <1>1, <1>2, <1>6 DEF Sweeps
<1> HIDE DEF m
<1>8. SweepType'
  BY <1>3, <1>7, SweepMade DEF Extracting, Paired
<1> QED
  BY <1>5, <1>8 DEF Mark, Typed, FilesType, StoreType, CliType

LEMMA SaveTyped ==
  ASSUME Typed, Save
  PROVE  Typed'
<1> DEFINE live == [x \in Paths |-> IF disk[x] = Absent THEN Absent ELSE sweep.hashes[x]]
<1>1. /\ sweep.hashes \in [Paths -> Known] /\ saved \in [Paths -> Known] /\ Absent \in Known
  BY SweepFacts, Apart DEF Typed, StoreType
<1>2. /\ live \in [Paths -> Known]
      /\ saved' = [x \in Paths |-> IF disk[x] = Absent \/ live[x] # Absent
                                    THEN live[x] ELSE saved[x]]
      /\ sweep' = Rest(live)
  BY <1>1 DEF Save
<1> HIDE DEF live
<1>3. saved' \in [Paths -> Known]
  BY <1>1, <1>2
<1>4. SweepType'
  BY <1>2, RestTyped, SweepMade DEF Extracting, Paired
<1> QED
  BY <1>3, <1>4 DEF Save, Typed, FilesType, RegistryType, StoreType, CliType
-----------------------------------------------------------------------------
LEMMA JobFacts ==
  ASSUME StoreType
  PROVE  /\ DOMAIN queue \in SUBSET Sessions /\ queue \in Tables(Jobs)
         /\ \A s \in DOMAIN queue :
               queue[s] \in Jobs /\ queue[s].content \in Content /\ queue[s].state \in States
<1>1. DOMAIN queue \in SUBSET Sessions /\ \A s \in DOMAIN queue : queue[s] \in Jobs
  BY TableFacts DEF StoreType
<1> QED
  BY <1>1 DEF Jobs, StoreType

LEMMA CommitJobTyped ==
  ASSUME Typed, CommitJob
  PROVE  Typed'
<1>1. PICK s \in Ready :
         LET c == queue[s].content
             ok == Current(s, c)
         IN  /\ queue' = [queue EXCEPT ![s].state = IF ok THEN "committed" ELSE "stale"]
             /\ store' = IF ok THEN With(store, s, Kept(s, c)) ELSE store
             /\ sweep' = IF ok THEN [sweep EXCEPT !.done = @ \cup {<<s, c>>}] ELSE sweep
  BY DEF CommitJob
<1> DEFINE c == queue[s].content
           job == [queue[s] EXCEPT !.state = IF Current(s, c) THEN "committed" ELSE "stale"]
           m == [sweep EXCEPT !.done = @ \cup {<<s, c>>}]
<1>2. s \in DOMAIN queue /\ s \in Sessions /\ c \in Content /\ queue[s] \in Jobs
  BY JobFacts DEF Ready, Typed
<1>3. queue' \in Tables(Jobs)
  <2>1. job \in Jobs
    BY <1>2 DEF Jobs, States
  <2>2. queue' = [queue EXCEPT ![s] = job]
    BY <1>1, <1>2
  <2> HIDE DEF job
  <2>3. queue' \in [DOMAIN queue -> Jobs]
    <3>1. queue \in [DOMAIN queue -> Jobs]
      BY TableFacts DEF Typed, StoreType
    <3> QED
      BY <2>1, <2>2, <3>1
  <2> QED
    BY <2>3, JobFacts, TableMade DEF Typed
<1>4. /\ sweep \in Sweeps /\ sweep.pc \in Paired /\ sweep.done \in SUBSET Pairs
      /\ sweep.pc \in {"jobs", "ran"}
  BY SweepFacts DEF Typed, SweepType, CommitJob, Paired
<1> HIDE DEF c
<1>5. sweep' = m \/ sweep' = sweep
  BY <1>1 DEF c
<1>6. m \in Sweeps /\ m.pc = sweep.pc /\ m.done \subseteq Pairs
  <2>1. <<s, c>> \in Pairs
    BY <1>2 DEF Pairs
  <2> QED
    BY <1>4, <2>1 DEF Sweeps
<1> HIDE DEF m
<1>7. SweepType'
  <2>1. CASE sweep' = m
    BY <1>4, <1>6, <2>1, SweepMade DEF Extracting, Paired
  <2>2. CASE sweep' = sweep
    BY <2>2 DEF Typed, SweepType
  <2> QED
    BY <1>5, <2>1, <2>2
<1>8. StoreType'
  <2>1. CASE Current(s, c)
    <3>1. store' = With(store, s, Kept(s, c))
      BY <1>1, <2>1 DEF c
    <3>2. Kept(s, c) \in Rows /\ s \notin excluded /\ store \in Tables(Rows)
      BY <1>2, <2>1, CurrentFacts DEF Typed, StoreType
    <3>3. store' \in Tables(Rows)
      BY <1>2, <3>1, <3>2, WithMade
    <3>4. DOMAIN store' = DOMAIN store \cup {s}
      BY <3>1 DEF With
    <3> QED
      BY <1>3, <3>2, <3>3, <3>4 DEF Typed, StoreType, CommitJob
  <2>2. CASE ~Current(s, c)
    <3>1. store' = store
      BY <1>1, <2>2 DEF c
    <3> QED
      BY <1>3, <3>1 DEF Typed, StoreType, CommitJob
  <2> QED
    BY <2>1, <2>2
<1> QED
  BY <1>7, <1>8 DEF CommitJob, Typed, FilesType, RegistryType, CliType

LEMMA ReceiptTyped ==
  ASSUME Typed, Receipt
  PROVE  Typed'
<1>1. PICK d \in sweep.done :
         registry' = Marked(d[1], d[2]) /\ sweep' = [sweep EXCEPT !.done = @ \ {d}]
  BY DEF Receipt
<1> DEFINE m == [sweep EXCEPT !.done = @ \ {d}]
<1>2. /\ sweep \in Sweeps /\ sweep.pc \in Paired /\ sweep.pc \in {"jobs", "ran"}
      /\ sweep.done \in SUBSET Pairs
  BY SweepFacts DEF Typed, SweepType, Receipt, Paired
<1>3. RegistryType'
  BY <1>1, <1>2, MarkedTyped DEF Pairs, Typed
<1>4. m \in Sweeps /\ m.pc = sweep.pc /\ m.done \subseteq Pairs
  BY <1>2 DEF Sweeps
<1>5. sweep' = m
  BY <1>1
<1> HIDE DEF m
<1>6. SweepType'
  BY <1>2, <1>4, <1>5, SweepMade DEF Extracting, Paired
<1> QED
  BY <1>3, <1>6 DEF Receipt, Typed, FilesType, StoreType, CliType

LEMMA QueuedTyped ==
  ASSUME StoreType, NEW jobs \in SUBSET Captures
  PROVE  Queued(jobs) \in Tables(Jobs)
<1> DEFINE news == {j \in jobs : ~ /\ j.session \in DOMAIN queue
                                   /\ queue[j.session].state # "stale"
                                   /\ Sha(queue[j.session].content) = Sha(j.content)}
           of(s) == CHOOSE j \in news : j.session = s
           named == {j.session : j \in news}
<1>1. ASSUME NEW s \in named PROVE of(s) \in news
  BY <1>1
<1>2. Queued(jobs) = [s \in DOMAIN queue \cup named |->
           IF s \in named THEN [content |-> of(s).content, state |-> "queued"]
           ELSE queue[s]]
  BY DEF Queued
<1>3. \A j \in news : j.session \in Sessions /\ j.content \in Content
  BY DEF Captures
<1> HIDE DEF of, news
<1>4. \A s \in named : [content |-> of(s).content, state |-> "queued"] \in Jobs
  BY <1>1, <1>3 DEF Jobs, States
<1>5. DOMAIN queue \cup named \in SUBSET Sessions
  BY <1>3, JobFacts
<1>6. Queued(jobs) \in [DOMAIN queue \cup named -> Jobs]
  BY <1>2, <1>4, JobFacts
<1> QED
  BY <1>5, <1>6, TableMade

LEMMA RanTyped ==
  ASSUME NEW rows \in Tables(Jobs)
  PROVE  Ran(rows) \in Tables(Jobs)
<1>1. /\ DOMAIN rows \in SUBSET Sessions
      /\ \A s \in DOMAIN rows : rows[s] \in Jobs
  BY TableFacts
<1>2. Ran(rows) \in [DOMAIN rows -> Jobs]
  BY <1>1 DEF Ran, Jobs, States
<1> QED
  BY <1>1, <1>2, TableMade

LEMMA EnqueueTyped ==
  ASSUME Typed, Enqueue
  PROVE  Typed'
<1> DEFINE caught == sweep.caught
           before == {caught[i] : i \in {n \in DOMAIN caught :
                         \A k \in 1 .. n : ~Refused(caught[k])}}
           m == [sweep EXCEPT !.pc = "ran", !.caught = <<>>]
<1>1. before \in SUBSET Captures
  BY CaughtFacts DEF Typed
<1>2. \/ queue' = Ran(Queued(before)) /\ sweep' = m
      \/ queue' = Queued(before) /\ sweep' = Rest(sweep.hashes)
  BY DEF Enqueue
<1> HIDE DEF before
<1>3. queue' \in Tables(Jobs)
  BY <1>1, <1>2, QueuedTyped, RanTyped DEF Typed
<1>4. /\ sweep \in Sweeps /\ sweep.done = {} /\ "ran" \in Stages
      /\ <<>> \in Seq(Captures) /\ sweep.hashes \in [Paths -> Known]
  BY SweepFacts DEF Typed, SweepType, Enqueue, Stages, Paired
<1>5. m \in Sweeps /\ m.pc = "ran" /\ m.done \subseteq Pairs
  BY <1>4 DEF Sweeps
<1> HIDE DEF m
<1>6. SweepType'
  BY <1>2, <1>4, <1>5, RestTyped, SweepMade DEF Extracting, Paired
<1> QED
  BY <1>3, <1>6 DEF Enqueue, Typed, FilesType, RegistryType, StoreType, CliType

LEMMA FinishTyped ==
  ASSUME Typed, Finish
  PROVE  Typed'
<1> DEFINE m == [sweep EXCEPT !.pc = "commit"]
<1>1. sweep \in Sweeps /\ sweep.done = {} /\ "commit" \in Stages
  BY DEF Typed, SweepType, Finish, Stages, Extracting
<1>2. m \in Sweeps /\ m.pc = "commit" /\ m.done = {}
  BY <1>1 DEF Sweeps
<1>3. sweep' = m
  BY DEF Finish
<1> HIDE DEF m
<1>4. SweepType'
  BY <1>2, <1>3, SweepMade DEF Extracting, Paired
<1> QED
  BY <1>4 DEF Finish, Typed, FilesType, RegistryType, StoreType, CliType

LEMMA CrashTyped ==
  ASSUME Typed, Crash
  PROVE  Typed'
<1>1. SweepType'
  BY RestTyped, SweepMade DEF Crash, Typed, StoreType, Extracting, Paired
<1> QED
  BY <1>1 DEF Crash, Typed, FilesType, RegistryType, StoreType, CliType
-----------------------------------------------------------------------------
LEMMA QuietTyped == Quiet \in Callers /\ Quiet.pc = "idle"
BY Apart DEF Quiet, Callers

LEMMA CaptureTyped ==
  ASSUME Typed, NEW x \in Paths, Capture(x)
  PROVE  Typed'
<1> DEFINE s == SessionOf(x, disk[x], {x}, StoredPaths)
           e == [pc |-> "commit", path |-> x, session |-> s, content |-> disk[x]]
<1>1. disk[x] \in Content
  BY Apart DEF Capture, Typed, FilesType
<1>2. RegistryType' /\ s \in Sessions
  BY <1>1, StoredPathsTyped, ObservedTyped DEF Typed, Capture
<1>3. cli' = e
  BY DEF Capture
<1> HIDE DEF s
<1>4. CliType'
  BY <1>1, <1>2, <1>3, Apart DEF CliType, Callers
<1> QED
  BY <1>2, <1>4 DEF Capture, Typed, FilesType, StoreType, SweepType

LEMMA ImportTyped ==
  ASSUME Typed, Import
  PROVE  Typed'
<1> DEFINE e == [content |-> cli.content, path |-> cli.path, present |-> TRUE]
<1>1. /\ cli \in Callers /\ cli.pc = "commit" /\ cli.path \in Paths
      /\ cli.session \in Sessions /\ cli.content \in Content
  BY DEF Typed, CliType, Import
<1>2. CASE cli.session \notin excluded /\ store' = With(store, cli.session, e)
           /\ cli' = [cli EXCEPT !.pc = "mark"]
  <2>1. e \in Rows /\ store \in Tables(Rows)
    BY <1>1 DEF Rows, Typed, StoreType
  <2> HIDE DEF e
  <2>2. store' \in Tables(Rows)
    BY <1>1, <1>2, <2>1, WithMade
  <2>3. DOMAIN store' = DOMAIN store \cup {cli.session}
    BY <1>2 DEF With
  <2>4. CliType'
    BY <1>1, <1>2 DEF CliType, Callers
  <2> QED
    BY <1>2, <2>2, <2>3, <2>4 DEF Import, Typed, FilesType, RegistryType, StoreType, SweepType
<1>3. CASE cli' = Quiet /\ UNCHANGED store
  BY <1>3, QuietTyped DEF Import, Typed, FilesType, RegistryType, StoreType, SweepType, CliType
<1> QED
  BY <1>2, <1>3 DEF Import

LEMMA MarkImportTyped ==
  ASSUME Typed, MarkImport
  PROVE  Typed'
<1>1. RegistryType'
  BY MarkedTyped DEF Typed, CliType, MarkImport
<1> QED
  BY <1>1, QuietTyped DEF MarkImport, Typed, FilesType, StoreType, SweepType, CliType

LEMMA ExcludeTyped ==
  ASSUME Typed, NEW s, Exclude(s)
  PROVE  Typed'
<1>1. /\ store \in Tables(Rows) /\ queue \in Tables(Jobs) /\ DOMAIN store \in SUBSET Sessions
  BY TableFacts DEF Typed, StoreType
<1>2. /\ store' \in Tables(Rows) /\ queue' \in Tables(Jobs)
      /\ DOMAIN store' = DOMAIN store \ {s}
  BY <1>1, WithoutMade DEF Exclude
<1>3. excluded' \in SUBSET Sessions /\ excluded' = excluded \cup {s}
  BY <1>1 DEF Exclude, Typed, StoreType
<1> QED
  BY <1>2, <1>3 DEF Exclude, Typed, FilesType, RegistryType, StoreType, SweepType, CliType

LEMMA IncludeTyped ==
  ASSUME Typed, NEW s, Include(s)
  PROVE  Typed'
BY DEF Include, Typed, FilesType, RegistryType, StoreType, SweepType, CliType
-----------------------------------------------------------------------------
\* What was on the disk before a step was on it before the next.
Onward == \A c \in Content : Was(c) => Was(c)'

LEMMA ContentFacts ==
  ASSUME NEW c \in Content
  PROVE  /\ c # Absent /\ c[1] \in 1 .. MaxFiles /\ c[2] \in 0 .. MaxVersion
         /\ c[1] \in Nat /\ c[2] \in Nat /\ c = <<c[1], c[2]>>
BY Constants DEF Content

LEMMA DiskFacts ==
  ASSUME FilesType
  PROVE  /\ created \in Nat
         /\ \A x \in Paths : disk[x] # Absent => disk[x] \in Content
BY Constants, Apart DEF FilesType

LEMMA SameDisk ==
  ASSUME UNCHANGED <<disk, created>>
  PROVE  Onward /\ (FilesType => FilesType')
BY DEF Onward, Was, FilesType

LEMMA CreateStep ==
  ASSUME FilesType, NEW y \in Paths, Create(y)
  PROVE  FilesType' /\ Onward
<1> DEFINE n == <<created + 1, 0>>
<1>1. n \in Content /\ n[1] = created + 1 /\ n # Absent /\ created \in Nat
  BY Constants, DiskFacts DEF Create, FilesType, Content
<1>2. /\ disk' = [disk EXCEPT ![y] = n] /\ created' = created + 1
      /\ disk[y] = Absent /\ created + 1 <= MaxFiles
  BY <1>1, Constants DEF Create
<1> HIDE DEF n
<1>3. /\ disk'[y] = n /\ \A x \in Paths : x # y => disk'[x] = disk[x]
      /\ disk' \in [Paths -> Known]
  BY <1>1, <1>2, Apart DEF FilesType
<1>4. created' \in 1 .. MaxFiles
  BY <1>1, <1>2, Constants
<1>5. \A x \in Paths : disk'[x] # Absent => disk'[x][1] <= created'
  BY <1>1, <1>2, <1>3, DiskFacts, ContentFacts DEF FilesType
<1>6. \A x \in Paths : x # y /\ disk[x] # Absent => disk[x][1] # created + 1
  BY <1>1, DiskFacts, ContentFacts DEF FilesType
<1>7. FilesType'
  BY <1>1, <1>3, <1>4, <1>5, <1>6 DEF FilesType
<1>8. ASSUME NEW c \in Content, c[1] <= created
      PROVE  c[1] # created + 1 /\ c[1] <= created'
  BY <1>1, <1>2, <1>8, ContentFacts
<1> QED
  BY <1>1, <1>3, <1>7, <1>8 DEF Onward, Was

LEMMA WriteStep ==
  ASSUME FilesType, NEW y \in Paths, Write(y)
  PROVE  FilesType' /\ Onward
<1> DEFINE n == [disk[y] EXCEPT ![2] = @ + 1]
<1>1. disk[y] \in Content /\ disk[y][2] < MaxVersion
  BY DiskFacts DEF Write
<1>2. /\ n \in Content /\ n[1] = disk[y][1] /\ n[2] = disk[y][2] + 1 /\ n # Absent
  BY <1>1, Constants DEF Content
<1>3. disk' = [disk EXCEPT ![y] = n] /\ created' = created
  BY DEF Write
<1> HIDE DEF n
<1>4. /\ disk'[y] = n /\ \A x \in Paths : x # y => disk'[x] = disk[x]
      /\ disk' \in [Paths -> Known]
  BY <1>2, <1>3, Apart DEF FilesType
<1>5. FilesType'
  BY <1>1, <1>2, <1>3, <1>4, Apart DEF FilesType
<1>6. ASSUME NEW c \in Content, c[2] <= disk[y][2]
      PROVE  c[2] <= disk[y][2] + 1
  BY <1>1, <1>6, ContentFacts
<1>7. ASSUME NEW c \in Content, Was(c)
      PROVE  Was(c)'
  BY <1>1, <1>2, <1>3, <1>4, <1>6, <1>7, ContentFacts DEF Was
<1> QED
  BY <1>5, <1>7 DEF Onward

LEMMA MoveStep ==
  ASSUME FilesType, NEW y \in Paths, NEW z \in Paths, Move(y, z)
  PROVE  FilesType' /\ Onward
<1>1. /\ disk' = [disk EXCEPT ![y] = Absent, ![z] = disk[y]] /\ created' = created
      /\ disk[y] \in Content /\ disk[y] # Absent /\ y # z
  BY DiskFacts DEF Move
<1>2. /\ disk'[y] = Absent /\ disk'[z] = disk[y]
      /\ \A x \in Paths : x # y /\ x # z => disk'[x] = disk[x]
      /\ disk' \in [Paths -> Known]
  BY <1>1, Apart DEF FilesType
<1>3. FilesType'
  BY <1>1, <1>2 DEF FilesType
<1>4. \A c \in Content : Was(c) => Was(c)'
  BY <1>1, <1>2 DEF Was
<1> QED
  BY <1>3, <1>4 DEF Onward

LEMMA RemoveStep ==
  ASSUME FilesType, NEW y \in Paths, Remove(y)
  PROVE  FilesType' /\ Onward
<1>1. /\ disk'[y] = Absent /\ \A x \in Paths : x # y => disk'[x] = disk[x]
      /\ disk' \in [Paths -> Known] /\ created' = created
  BY Apart DEF Remove, FilesType
<1> QED
  BY <1>1 DEF FilesType, Onward, Was

\* Files are written, created, moved and removed.
Filing ==
    \/ \E x \in Paths : Create(x) \/ Write(x) \/ Remove(x)
    \/ \E x, y \in Paths : Move(x, y)

LEMMA FilingStep ==
  ASSUME Typed, Filing
  PROVE  Typed' /\ Onward /\ UNCHANGED program
<1>1. FilesType' /\ Onward
  BY CreateStep, WriteStep, MoveStep, RemoveStep DEF Filing, Typed
<1>2. UNCHANGED program
  BY DEF Filing, Create, Write, Move, Remove
<1>3. UNCHANGED <<registry, store, excluded, queue, saved, sweep, cli>>
  BY <1>2 DEF program
<1> QED
  BY <1>1, <1>2, <1>3 DEF Typed, RegistryType, StoreType, SweepType, CliType

\* Every other step leaves the disk alone.
Working ==
    \/ SweepStep \/ Crash
    \/ (\E x \in Paths : Capture(x)) \/ Import \/ MarkImport
    \/ \E s \in DOMAIN registry : Exclude(s) \/ Include(s)

LEMMA WorkingStep ==
  ASSUME Typed, Working
  PROVE  Typed' /\ UNCHANGED <<disk, created>>
<1>1. CASE SweepStep
  <2>1. ASSUME ExtractLlm PROVE Typed'
    <3>1. Extract("extract", "local", Range(sweep.caught))
      BY <2>1 DEF ExtractLlm
    <3> QED
      BY <3>1, ExtractTyped DEF Extracting
  <2>2. ASSUME ExtractOllama PROVE Typed'
    <3> DEFINE rest == {j \in Range(sweep.caught) : j.session \notin sweep.done}
    <3>1. Extract("local", "commit", rest) /\ rest \in SUBSET Range(sweep.caught)
      BY <2>2 DEF ExtractOllama
    <3> QED
      BY <3>1, ExtractTyped DEF Extracting
  <2>3. Typed'
    BY <1>1, <2>1, <2>2, BeginTyped, LookTyped, ObserveTyped, ConfirmTyped,
       MarkMissingTyped, SyncTyped, CommitTyped, MarkTyped, SaveTyped,
       CommitJobTyped, ReceiptTyped, EnqueueTyped, FinishTyped DEF SweepStep
  <2>4. UNCHANGED <<disk, created>>
    BY <1>1 DEF SweepStep, Begin, Look, Observe, Confirm, MarkMissing, Sync,
       ExtractLlm, ExtractOllama, Extract, Commit, Mark, Save, CommitJob,
       Receipt, Enqueue, Finish
  <2> QED
    BY <2>3, <2>4
<1>2. CASE Crash
  BY <1>2, CrashTyped DEF Crash
<1>3. ASSUME NEW x \in Paths, Capture(x) PROVE Typed' /\ UNCHANGED <<disk, created>>
  BY <1>3, CaptureTyped DEF Capture
<1>4. CASE Import
  BY <1>4, ImportTyped DEF Import
<1>5. CASE MarkImport
  BY <1>5, MarkImportTyped DEF MarkImport
<1>6. ASSUME NEW s, Exclude(s) \/ Include(s) PROVE Typed' /\ UNCHANGED <<disk, created>>
  BY <1>6, ExcludeTyped, IncludeTyped DEF Exclude, Include
<1> QED
  BY <1>1, <1>2, <1>3, <1>4, <1>5, <1>6 DEF Working

LEMMA TypedInit == Init => Typed
<1> SUFFICES ASSUME Init PROVE Typed
  OBVIOUS
<1>1. PICK y \in Paths : disk = [Nothing EXCEPT ![y] = <<1, 0>>]
  BY DEF Init
<1>2. <<1, 0>> \in Content /\ <<1, 0>>[1] = 1
  BY Constants DEF Content
<1>3. /\ disk \in [Paths -> Known]
      /\ \A x \in Paths : disk[x] # Absent => x = y /\ disk[x][1] = 1
  BY <1>1, <1>2, Apart DEF Nothing
<1>4. FilesType
  BY <1>3, Constants DEF FilesType, Init
<1>5. Nothing \in [Paths -> Known]
  BY Apart DEF Nothing
<1>6. SweepType
  BY <1>5, RestTyped DEF Init, SweepType, Extracting, Paired
<1>7. RegistryType
  BY EmptyTable DEF RegistryType, Init
<1>8. StoreType
  BY <1>5, EmptyTable DEF StoreType, Init
<1> QED
  BY <1>4, <1>6, <1>7, <1>8, QuietTyped DEF Typed, CliType, Init

LEMMA TypedNext == Typed /\ [Next]_vars => Typed'
<1> SUFFICES ASSUME Typed, [Next]_vars PROVE Typed'
  OBVIOUS
<1>1. CASE UNCHANGED vars
  BY <1>1 DEF vars, program, Typed, FilesType, RegistryType, StoreType, SweepType, CliType
<1>2. CASE Working \/ Filing
  BY <1>2, WorkingStep, FilingStep
<1> QED
  BY <1>1, <1>2 DEF Next, Working, Filing

\* In every reachable state the files, the registry, the store, the queue and
\* the memories of consolidator and command line have their shape, at each
\* stage of a sweep; a path has one entry and a file one path; and nothing is
\* stored of an excluded session.
THEOREM SweepInvariant == Spec => []Typed
<1> QED
  BY TypedInit, TypedNext, PTL DEF Spec

\* ... among it that no two entries of the registry have one path, by which
\* the next reader would refuse the whole registry: SourceRegistry.observe
\* keeps it so, whatever is moved, and always finds a session id that is free.
THEOREM SweepTypeOK == Spec => []TypeOK
<1>1. Typed => TypeOK
  <2> SUFFICES ASSUME Typed PROVE TypeOK
    OBVIOUS
  <2>1. ASSUME NEW x \in Paths PROVE Cardinality(RegisteredAt(x)) <= 1
    <3>1. RegisteredAt(x) = {} \/ \E s : RegisteredAt(x) = {s}
      BY DEF RegisteredAt, Typed, RegistryType
    <3>2. Cardinality(RegisteredAt(x)) \in {0, 1}
      BY <3>1, FS_EmptySet, FS_Singleton
    <3> QED
      BY <3>2
  <2>2. DOMAIN store \subseteq Sessions /\ \A s \in DOMAIN store : store[s] \in Rows
    BY TableFacts DEF Typed, StoreType
  <2> QED
    BY <2>1, <2>2, EntryFacts, JobFacts, SweepFacts
    DEF Typed, TypeOK, FilesType, StoreType, Rows, Entries, Jobs, States
<1> QED
  BY <1>1, SweepInvariant, PTL
-----------------------------------------------------------------------------
\* What is stored of a session was on the disk.
Past == \A s \in DOMAIN store : Was(store[s].content)

\* What a step stores of a session is what it had, or what the disk has now.
Advances == \A s \in DOMAIN store' :
    \/ s \in DOMAIN store /\ store'[s].content = store[s].content
    \/ \E x \in Paths : disk[x] # Absent /\ store'[s].content = disk[x]

LEMMA RowFacts ==
  ASSUME StoreType
  PROVE  /\ DOMAIN store \in SUBSET Sessions /\ store \in Tables(Rows)
         /\ \A s \in DOMAIN store :
               store[s] \in Rows /\ store[s].content \in Content /\ store[s].path \in Paths
<1>1. DOMAIN store \in SUBSET Sessions /\ \A s \in DOMAIN store : store[s] \in Rows
  BY TableFacts DEF StoreType
<1> QED
  BY <1>1 DEF Rows, StoreType

\* Unless content recurs, the program tells any two contents apart.
LEMMA SameSha ==
  ASSUME ~Recurs, NEW c \in Content, NEW d \in Known, Sha(c) = Sha(d)
  PROVE  c = d
<1>1. Sha(c) = c
  BY ContentFacts DEF Sha
<1>2. CASE d \in Content
  <2>1. Sha(d) = d
    BY <1>2, ContentFacts DEF Sha
  <2> QED
    BY <1>1, <2>1
<1>3. CASE d = Absent
  BY <1>1, <1>3, ContentFacts DEF Sha
<1> QED
  BY <1>2, <1>3, Apart

LEMMA FenceAdvances ==
  ASSUME ~Recurs, Typed, NEW s, NEW c \in Content, Current(s, c)
  PROVE  \E x \in Paths : disk[x] # Absent /\ Kept(s, c).content = disk[x]
<1>1. /\ registry[s].path \in Paths /\ disk[registry[s].path] \in Content
      /\ Sha(disk[registry[s].path]) = Sha(c) /\ Kept(s, c).content = c
  BY CurrentFacts DEF Typed
<1>2. c = disk[registry[s].path]
  BY <1>1, SameSha, Apart
<1> QED
  BY <1>1, <1>2, ContentFacts

LEMMA WorkingAdvances ==
  ASSUME ~Recurs, Typed, Working
  PROVE  Advances
<1>1. CASE store' = store
  BY <1>1 DEF Advances
<1>2. CASE Sync
  <2>1. /\ DOMAIN store' = DOMAIN store
        /\ \A s \in DOMAIN store : store'[s].content = store[s].content
    BY <1>2, SyncedTyped DEF Sync, Typed
  <2> QED
    BY <2>1 DEF Advances
<1>3. ASSUME NEW pc, NEW next, NEW jobs \in SUBSET Range(sweep.caught), Extract(pc, next, jobs)
      PROVE  Advances
  <2>1. PICK got \in SUBSET jobs : store' = StoreWith(Ingested(got))
    BY <1>3 DEF Extract, Answers
  <2>2. /\ Ingested(got) \in SUBSET Captures
        /\ \A j \in Ingested(got) : Current(j.session, j.content) /\ j.content \in Content
    BY CaughtFacts DEF Typed, Ingested, Captures
  <2>3. \A s \in DOMAIN store' :
           \/ s \in DOMAIN store /\ store'[s] = store[s]
           \/ \E j \in Ingested(got) : j.session = s /\ store'[s] = Kept(s, j.content)
    BY <2>1, <2>2, StoreWithMade DEF Typed
  <2> QED
    BY <2>2, <2>3, FenceAdvances DEF Advances
<1>4. ASSUME NEW s, NEW c \in Content, Current(s, c), store' = With(store, s, Kept(s, c))
      PROVE  Advances
  <2>1. \A t \in DOMAIN store' : \/ t \in DOMAIN store /\ store'[t] = store[t]
                                 \/ t = s /\ store'[t] = Kept(s, c)
    BY <1>4 DEF With
  <2> QED
    BY <1>4, <2>1, FenceAdvances DEF Advances
<1>5. CASE Commit
  <2>1. Head(sweep.caught) \in Captures
    <3>1. sweep.caught \in Seq(Captures) /\ sweep.caught # <<>>
      BY <1>5, SweepFacts DEF Typed, Commit
    <3> QED
      BY <3>1
  <2>2. Head(sweep.caught).content \in Content
    BY <2>1 DEF Captures
  <2> QED
    BY <1>1, <1>4, <1>5, <2>2 DEF Commit
<1>6. CASE CommitJob
  <2>1. PICK s \in Ready : store' = IF Current(s, queue[s].content)
                                    THEN With(store, s, Kept(s, queue[s].content)) ELSE store
    BY <1>6 DEF CommitJob
  <2>2. queue[s].content \in Content
    BY JobFacts DEF Typed, Ready
  <2> QED
    BY <1>1, <1>4, <2>1, <2>2
<1>7. CASE Import
  <2> DEFINE e == [content |-> cli.content, path |-> cli.path, present |-> TRUE]
  <2>1. cli.path \in Paths /\ cli.content \in Content /\ disk[cli.path] \in Known
    BY <1>7 DEF Import, Typed, CliType, FilesType
  <2>2. CASE Sha(disk[cli.path]) = Sha(cli.content) /\ store' = With(store, cli.session, e)
    <3>1. cli.content = disk[cli.path] /\ disk[cli.path] # Absent
      BY <2>1, <2>2, SameSha, ContentFacts
    <3>2. \A t \in DOMAIN store' : \/ t \in DOMAIN store /\ store'[t] = store[t]
                                   \/ t = cli.session /\ store'[t] = e
      BY <2>2 DEF With
    <3> QED
      BY <2>1, <3>1, <3>2 DEF Advances
  <2> QED
    BY <1>1, <1>7, <2>2 DEF Import
<1>8. ASSUME NEW s, Exclude(s)
      PROVE  Advances
  <2>1. DOMAIN store' \subseteq DOMAIN store /\ \A t \in DOMAIN store' : store'[t] = store[t]
    BY <1>8 DEF Exclude, Without, Restrict
  <2> QED
    BY <2>1 DEF Advances
<1>9. CASE SweepStep
  <2>1. ASSUME ExtractOllama PROVE Advances
    <3>1. {j \in Range(sweep.caught) : j.session \notin sweep.done} \in SUBSET Range(sweep.caught)
      OBVIOUS
    <3> QED
      BY <1>3, <2>1, <3>1 DEF ExtractOllama
  <2>2. ASSUME ExtractLlm PROVE Advances
    BY <1>3, <2>2 DEF ExtractLlm
  <2>3. Begin \/ Look \/ Observe \/ Confirm \/ MarkMissing \/ Mark \/ Save \/ Receipt
           \/ Enqueue \/ Finish => store' = store
    BY DEF Begin, Look, Observe, Confirm, MarkMissing, Mark, Save, Receipt, Enqueue, Finish
  <2> QED
    BY <1>1, <1>2, <1>5, <1>6, <1>9, <2>1, <2>2, <2>3 DEF SweepStep
<1>10. Crash \/ MarkImport \/ (\E x \in Paths : Capture(x)) \/ (\E s : Include(s))
          => store' = store
  BY DEF Crash, MarkImport, Capture, Include
<1> QED
  BY <1>1, <1>7, <1>8, <1>9, <1>10 DEF Working

\* What the disk has now, it has had.
LEMMA NowWas ==
  ASSUME FilesType, NEW x \in Paths, disk[x] # Absent
  PROVE  disk[x] \in Content /\ Was(disk[x])
<1>1. disk[x] \in Content /\ disk[x][1] <= created /\ disk[x][2] \in Nat
  BY DiskFacts, ContentFacts DEF FilesType
<1>2. \A y \in Paths : disk[y] # Absent /\ disk[y][1] = disk[x][1] => y = x
  BY DEF FilesType
<1> QED
  BY <1>1, <1>2 DEF Was

\* Was, of the disk after a step.
WasThen(c) ==
    /\ c[1] <= created'
    /\ \A x \in Paths : disk'[x] # Absent /\ disk'[x][1] = c[1] => c[2] <= disk'[x][2]

LEMMA PastStep ==
  ASSUME ~Recurs, Typed, Past, [Next]_vars
  PROVE  /\ Past'
         /\ \A s \in DOMAIN store' :
               /\ s \notin excluded'
               /\ s \in DOMAIN store => LET c == store'[s].content IN
                      c[1] = store[s].content[1] => c[2] >= store[s].content[2]
<1>1. Typed'
  BY TypedNext
<1>2. \A s \in DOMAIN store' : s \notin excluded'
  BY <1>1 DEF Typed, StoreType
<1>3. \A s \in DOMAIN store : store[s].content \in Content /\ store[s].content[2] \in Nat
  BY RowFacts, ContentFacts DEF Typed
<1>4. CASE Working
  <2>1. Advances /\ UNCHANGED <<disk, created>>
    BY <1>4, WorkingAdvances, WorkingStep
  <2>2. \A c : WasThen(c) = Was(c)
    BY <2>1 DEF Was, WasThen
  <2>3. ASSUME NEW s \in DOMAIN store', NEW x \in Paths, disk[x] # Absent,
               store'[s].content = disk[x]
        PROVE  /\ WasThen(store'[s].content)
               /\ s \in DOMAIN store => LET c == store'[s].content IN
                      c[1] = store[s].content[1] => c[2] >= store[s].content[2]
    <3>1. Was(store'[s].content) /\ disk[x] \in Content
      BY <2>3, NowWas DEF Typed
    <3>2. disk[x][2] \in Nat
      BY <3>1, ContentFacts
    <3>3. ASSUME s \in DOMAIN store, disk[x][1] = store[s].content[1]
          PROVE  disk[x][2] >= store[s].content[2]
      BY <1>3, <2>3, <3>2, <3>3 DEF Past, Was
    <3> QED
      BY <2>2, <2>3, <3>1, <3>3
  <2>4. ASSUME NEW s \in DOMAIN store', s \in DOMAIN store,
               store'[s].content = store[s].content
        PROVE  /\ WasThen(store'[s].content)
               /\ LET c == store'[s].content IN
                      c[1] = store[s].content[1] => c[2] >= store[s].content[2]
    BY <1>3, <2>2, <2>4 DEF Past
  <2>5. \A s \in DOMAIN store' : WasThen(store'[s].content)
    BY <2>1, <2>3, <2>4 DEF Advances
  <2>6. Past'
    BY <2>5 DEF Past, Was, WasThen
  <2> QED
    BY <1>2, <2>1, <2>3, <2>4, <2>6 DEF Advances
<1>5. CASE store' = store /\ Onward
  <2>1. \A c \in Content : Was(c) => WasThen(c)
    BY <1>5 DEF Onward, Was, WasThen
  <2>2. \A s \in DOMAIN store' : WasThen(store'[s].content)
    BY <1>3, <1>5, <2>1 DEF Past
  <2>3. Past'
    BY <2>2 DEF Past, Was, WasThen
  <2> QED
    BY <1>2, <1>3, <1>5, <2>3
<1>6. CASE Filing
  BY <1>5, <1>6, FilingStep DEF program
<1>7. CASE UNCHANGED vars
  BY <1>5, <1>7, SameDisk DEF vars, program
<1> QED
  BY <1>4, <1>6, <1>7 DEF Next, Working, Filing

\* A direct commit, a job or an import stores nothing of an excluded session,
\* and what an extraction was given long ago does not replace what the same
\* file said later: the fences of _current_outputs, commit_ready and ingest
\* compare with the file under the store's lock.  This rests on a digest that
\* tells contents apart; the store is at most as late as the file (Past).
THEOREM SweepNeverBackward ==
  ASSUME ~Recurs
  PROVE  Spec => NeverBackward
<1>1. Init => Past
  BY DEF Init, Past
<1>2. Typed /\ Past /\ [Next]_vars => Past'
  BY PastStep
<1>3. Typed /\ Past /\ [Next]_vars =>
         [\A s \in DOMAIN store' :
               /\ s \notin excluded'
               /\ s \in DOMAIN store => LET c == store'[s].content IN
                      c[1] = store[s].content[1] => c[2] >= store[s].content[2]]_vars
  BY PastStep
<1> QED
  BY <1>1, <1>2, <1>3, SweepInvariant, PTL DEF Spec, NeverBackward
=============================================================================
