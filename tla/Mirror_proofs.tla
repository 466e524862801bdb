---------------------------- MODULE Mirror_proofs ----------------------------
(***************************************************************************)
(* Proofs about Mirror and the EmbeddingCache below it, for any records,   *)
(* texts, transfers and directories.                                       *)
(*                                                                         *)
(* What the mirror holds was exported long before it is published, and is  *)
(* read long after.  IInv says of every snapshot that is still on its way  *)
(* or lies in a directory what MirrorIsCanonical says of the published one *)
(* (Valid), and that the directory a transfer may still remove is its own: *)
(* no other transfer's, not the mirror, and not the local server's (Owned, *)
(* Apart).                                                                 *)
(***************************************************************************)
EXTENDS Mirror, TLAPS

\* A snapshot is what the store said at its generation, with a cache of it.
Valid(x, said) ==
    /\ x \in Snapshots
    /\ x.generation \in 1 .. Len(said)
    /\ x.content = said[x.generation]
    /\ x.cache # Absent => Fits(x.cache, x.content)

Kept == \A c \in DOMAIN copies : copies[c] # Absent => Valid(copies[c], history)

Received(s) == transfer[s].at # "idle" => Valid(transfer[s].snapshot, history)

Owned(s) == transfer[s].at = "copied" =>
    /\ transfer[s].copy \in DOMAIN copies
    /\ copies[transfer[s].copy] = transfer[s].snapshot
    /\ transfer[s].copy # pointer /\ transfer[s].copy # server

Apart == \A s, t \in Syncs :
    s # t /\ transfer[s].at = "copied" /\ transfer[t].at = "copied" =>
        transfer[s].copy # transfer[t].copy

\* An answer on its way is from the directory of the server, an answer with a
\* label from the generation it names.
Said == Flat = Absent =>
    /\ reply # Absent => Whole(server) /\ reply = copies[server].content
    /\ answer # Absent /\ answer.verified # Absent =>
          /\ answer.verified \in 1 .. Generation
          /\ answer.content = history[answer.verified]

IInv ==
    /\ TypeOK
    /\ Kept
    /\ \A s \in Syncs : Received(s) /\ Owned(s)
    /\ Apart
    /\ Said
-----------------------------------------------------------------------------
Searches == [at : {"idle", "loaded", "open"}, content : Contents,
             seen : 0 .. MaxGeneration, held : Contents]
Receipt == [cache : {"removed", "pending"}, metrics : {"purged", "pending"}]
Stages == {"idle", "received", "copied"}
Transfers == [at : Stages,
              snapshot : {Absent} \cup Snapshots, copy : 0 .. MaxCopies]

\* The type invariant by parts: the store and the files beside it ...
HistoryType == history \in Seq(Contents) /\ Generation \in 1 .. MaxGeneration

FilesType ==
    /\ receipts \in UNION {[R -> Receipt] : R \in SUBSET Records}
    /\ cache \in {Absent} \cup Contents
    /\ search \in Searches
    /\ feedback \subseteq Records /\ rating \in {Absent} \cup Records

\* ... and the mirror.
MirrorType ==
    /\ transfer \in [Syncs -> Transfers]
    /\ copies \in Seq({Absent} \cup Snapshots) /\ Len(copies) <= MaxCopies
    /\ pointer = Absent \/ Whole(pointer)
    /\ server \in {Absent, Root} \/ Whole(server)

LEMMA TypeParts == TypeOK <=> HistoryType /\ FilesType /\ MirrorType
BY DEF TypeOK, HistoryType, FilesType, MirrorType, Searches, Receipt, Transfers,
   Stages

LEMMA EmptyContent == <<>> \in Contents
<1>1. <<>> \in [{} -> Texts]
  OBVIOUS
<1> QED
  BY <1>1 DEF Contents

LEMMA RestrictContent ==
  ASSUME NEW content \in Contents, NEW R \in SUBSET DOMAIN content
  PROVE  Restrict(content, R) \in Contents
<1>1. PICK D \in SUBSET Records : content \in [D -> Texts]
  BY DEF Contents
<1>2. Restrict(content, R) \in [R -> Texts] /\ R \in SUBSET Records
  BY <1>1 DEF Restrict
<1> QED
  BY <1>2 DEF Contents

\* What the store says now is a content, and what a cache holds as well.
LEMMA NowContent ==
  ASSUME HistoryType, FilesType
  PROVE  Store \in Contents /\ Held \in Contents /\ DOMAIN Store \subseteq Records
<1>1. Store \in Contents
  BY DEF HistoryType, Store, Generation
<1>2. DOMAIN Store \subseteq Records
  BY <1>1 DEF Contents
<1> QED
  BY <1>1, <1>2, EmptyContent DEF Held, FilesType

\* History only grows.
Grown ==
    /\ HistoryType'
    /\ Generation <= Generation'
    /\ \A i \in 1 .. Generation : history'[i] = history[i]

LEMMA CommitGrows ==
  ASSUME HistoryType, NEW content \in Contents, Commit(content)
  PROVE  Grown
<1>1. history' = Append(history, content) /\ Len(history) < MaxGeneration
  BY DEF Commit, Generation
<1>2. MaxGeneration \in Nat
  BY CacheConstants
<1> QED
  BY <1>1, <1>2 DEF HistoryType, Generation, Grown

LEMMA StaysGrown ==
  ASSUME HistoryType, UNCHANGED history
  PROVE  Grown
BY CacheConstants DEF HistoryType, Generation, Grown

LEMMA ValidStays ==
  ASSUME HistoryType, Grown, NEW x, Valid(x, history)
  PROVE  Valid(x, history')
BY DEF Valid, Grown, HistoryType, Generation
-----------------------------------------------------------------------------
\* The store and its files keep their types, whoever writes them.
LEMMA CacheTypes ==
  ASSUME HistoryType, FilesType, CacheNext
  PROVE  Grown /\ FilesType'
<1>1. Store \in Contents /\ Held \in Contents /\ DOMAIN Store \subseteq Records
  BY NowContent
<1>2. ASSUME NEW content \in Contents, Ingest(content)
      PROVE  Grown /\ FilesType'
  <2>1. Grown
    BY <1>2, CommitGrows DEF Ingest
  <2>2. cache' \in {Absent} \cup Contents
    BY <1>1, <1>2, RestrictContent DEF Ingest, Saved, FilesType
  <2> QED
    BY <1>2, <2>1, <2>2 DEF Ingest, FilesType
<1>3. ASSUME NEW content \in Contents, Correct(content)
      PROVE  Grown /\ FilesType'
  BY <1>3, CommitGrows DEF Correct, Unlink, FilesType
<1>4. ASSUME NEW r \in Records, Forget(r)
      PROVE  Grown /\ FilesType'
  <2>1. Grown
    BY <1>1, <1>4, RestrictContent, CommitGrows DEF Forget
  <2>2. receipts' \in UNION {[R -> Receipt] : R \in SUBSET Records}
    <3>1. PICK R \in SUBSET Records : receipts \in [R -> Receipt]
      BY DEF FilesType
    <3>2. [cache |-> IF cache' = Absent THEN "removed" ELSE "pending",
           metrics |-> IF r \in feedback' THEN "pending" ELSE "purged"] \in Receipt
      BY DEF Receipt
    <3>3. receipts' \in [R \cup {r} -> Receipt]
      BY <1>4, <3>1, <3>2 DEF Forget
    <3> QED
      BY <3>3
  <2>3. cache' \in {Absent} \cup Contents /\ feedback' \subseteq Records
    BY <1>4 DEF Forget, Unlink, Purge, FilesType
  <2> QED
    BY <1>4, <2>1, <2>2, <2>3 DEF Forget, FilesType
<1>5. ASSUME UNCHANGED <<history, receipts, cache>>, search' \in Searches,
             feedback' \subseteq Records /\ rating' \in {Absent} \cup Records
      PROVE  Grown /\ FilesType'
  BY <1>5, StaysGrown DEF FilesType
<1>6. NoSearch \in Searches
  BY EmptyContent, CacheConstants DEF NoSearch, Searches
<1>7. CASE Load
  <2>1. [NoSearch EXCEPT !.at = "loaded", !.content = Store] \in Searches
    BY <1>1, <1>6 DEF Searches
  <2> QED
    BY <1>5, <1>7, <2>1 DEF Load, FilesType
<1>8. CASE Open
  <2>1. Generation \in 0 .. MaxGeneration
    BY CacheConstants DEF HistoryType
  <2>2. search' \in Searches
    BY <1>1, <1>8, <2>1 DEF Open, FilesType, Searches
  <2> QED
    BY <1>5, <1>8, <2>2 DEF Open, FilesType
<1>9. ASSUME NEW R \in SUBSET Records, Embed(R)
      PROVE  Grown /\ FilesType'
  <2>1. Restrict(search.content, R) \in Contents
    BY <1>9, RestrictContent DEF Embed, FilesType, Searches
  <2>2. cache' \in {Absent} \cup Contents
    BY <1>9, <2>1 DEF Embed, Saved, FilesType
  <2> QED
    BY <1>6, <1>9, <2>2, StaysGrown DEF Embed, FilesType
<1>10. CASE Abandon
  BY <1>5, <1>6, <1>10 DEF Abandon, FilesType
<1>11. CASE Rate
  BY <1>5, <1>11 DEF Rate, FilesType
<1>12. ASSUME NEW r \in Records, Inspect(r)
       PROVE  Grown /\ FilesType'
  BY <1>5, <1>12 DEF Inspect, FilesType
<1> QED
  BY <1>2, <1>3, <1>4, <1>7, <1>8, <1>9, <1>10, <1>11, <1>12 DEF CacheNext

\* The mirror does not change by what happens to the store.
LEMMA CacheStep ==
  ASSUME IInv, CacheNext, UNCHANGED mirrorVars
  PROVE  IInv'
<1>1. HistoryType /\ FilesType /\ MirrorType
  BY TypeParts DEF IInv
<1>2. Grown /\ FilesType'
  BY <1>1, CacheTypes
<1>3. UNCHANGED <<transfer, copies, pointer, server, reply, answer>>
  BY DEF mirrorVars
<1>4. TypeOK'
  <2>1. MirrorType'
    BY <1>1, <1>3 DEF MirrorType, Whole
  <2>2. HistoryType'
    BY <1>2 DEF Grown
  <2> QED
    BY <1>2, <2>1, <2>2, TypeParts, PTL
<1>5. Kept' /\ \A s \in Syncs : Received(s)' /\ Owned(s)'
  BY <1>1, <1>2, <1>3, ValidStays DEF IInv, Kept, Received, Owned
<1>6. Apart'
  BY <1>3 DEF IInv, Apart
<1>7. Said'
  BY <1>1, <1>2, <1>3 DEF IInv, Said, Whole, Grown, HistoryType, Generation
<1> QED
  BY <1>4, <1>5, <1>6, <1>7 DEF IInv
-----------------------------------------------------------------------------
\* The steps of the transfers and of the local server leave the store alone.
MirrorTyped == TypeOK /\ MirrorType' /\ UNCHANGED cacheVars

LEMMA StoreAlone ==
  ASSUME MirrorTyped
  PROVE  TypeOK' /\ HistoryType /\ UNCHANGED history
<1>1. HistoryType /\ FilesType
  BY TypeParts DEF MirrorTyped
<1>2. HistoryType' /\ FilesType'
  BY <1>1 DEF MirrorTyped, cacheVars, HistoryType, FilesType, Generation
<1>3. MirrorType' /\ UNCHANGED history
  BY DEF MirrorTyped, cacheVars
<1>4. TypeOK'
  BY <1>2, <1>3, TypeParts, PTL
<1> QED
  BY <1>1, <1>3, <1>4

LEMMA Directories ==
  /\ \A c \in 1 .. MaxCopies : c # Absent /\ c # Root
  /\ Root # Absent /\ Absent \notin Snapshots /\ MaxCopies \in Nat
BY MirrorConstants

LEMMA IdleTyped == Idle \in Transfers /\ Idle.at = "idle"
<1>1. "idle" \in Stages /\ 0 \in 0 .. MaxCopies
  BY Directories DEF Stages
<1> QED
  BY <1>1 DEF Idle, Transfers

\* What is exported, under the lock of the store, is a snapshot of it.
LEMMA ExportedValid ==
  ASSUME HistoryType, FilesType
  PROVE  Valid(Snapshot, history)
<1>1. Store \in Contents
  BY NowContent
<1>2. Snapshot \in Snapshots
  BY <1>1 DEF Snapshot, Snapshots, HistoryType, FilesType
<1>3. Generation \in 1 .. Len(history) /\ Store = history[Generation]
  BY DEF HistoryType, Generation, Store
<1> QED
  BY <1>2, <1>3 DEF Snapshot, Valid

LEMMA ExportStep ==
  ASSUME IInv, NEW s \in Syncs, Export(s)
  PROVE  IInv'
<1>1. HistoryType /\ FilesType /\ MirrorType
  BY TypeParts DEF IInv
<1>2. Valid(Snapshot, history)
  BY <1>1, ExportedValid
<1>3. [Idle EXCEPT !.at = "received", !.snapshot = Snapshot] \in Transfers
  <2>1. "received" \in Stages /\ 0 \in 0 .. MaxCopies
    BY Directories DEF Stages
  <2> QED
    BY <1>2, <2>1 DEF Idle, Transfers, Valid
<1>4. /\ \A t \in Syncs : t # s => transfer'[t] = transfer[t]
      /\ transfer'[s].at = "received" /\ transfer'[s].snapshot = Snapshot
      /\ UNCHANGED <<cacheVars, copies, pointer, server, reply, answer>>
  BY <1>1 DEF Export, MirrorType, Idle
<1>5. MirrorTyped
  BY <1>1, <1>3, <1>4 DEF Export, MirrorTyped, MirrorType, Whole, IInv
<1>6. TypeOK' /\ UNCHANGED history
  BY <1>5, StoreAlone
<1>7. Kept' /\ Said'
  BY <1>4, <1>6 DEF IInv, Kept, Said, Whole, Generation
<1>8. \A t \in Syncs : Received(t)' /\ Owned(t)'
  BY <1>2, <1>4, <1>6 DEF IInv, Received, Owned
<1>9. Apart'
  BY <1>4 DEF IInv, Apart
<1> QED
  BY <1>6, <1>7, <1>8, <1>9 DEF IInv

\* A copy gets a directory that did not exist: it is nobody else's.
LEMMA CopyStep ==
  ASSUME IInv, NEW s \in Syncs, Copy(s)
  PROVE  IInv'
<1> DEFINE n == Len(copies) + 1
<1>1. HistoryType /\ FilesType /\ MirrorType
  BY TypeParts DEF IInv
<1>2. /\ Len(copies) \in Nat /\ n \in 1 .. MaxCopies /\ n \notin DOMAIN copies
      /\ DOMAIN copies = 1 .. Len(copies)
  BY <1>1, Directories DEF MirrorType, Copy
<1>3. /\ \A t \in Syncs : t # s => transfer'[t] = transfer[t]
      /\ transfer'[s].at = "copied" /\ transfer'[s].copy = n
      /\ transfer'[s].snapshot = transfer[s].snapshot
      /\ transfer[s].at = "received"
      /\ transfer' \in [Syncs -> Transfers]
      /\ UNCHANGED <<cacheVars, pointer, server, reply, answer>>
  <2>1. transfer[s] \in Transfers /\ n \in 0 .. MaxCopies /\ "copied" \in Stages
    BY <1>1, <1>2, Directories DEF MirrorType, Stages
  <2>2. transfer' = [transfer EXCEPT ![s] = [transfer[s] EXCEPT !.at = "copied", !.copy = n]]
    BY <1>1 DEF Copy, MirrorType
  <2>3. LET x == [transfer[s] EXCEPT !.at = "copied", !.copy = n]
        IN  /\ x \in Transfers /\ x.at = "copied" /\ x.copy = n
            /\ x.snapshot = transfer[s].snapshot
    BY <2>1 DEF Transfers
  <2> QED
    BY <1>1, <2>2, <2>3 DEF Copy, MirrorType
<1>4. /\ Valid(transfer[s].snapshot, history) /\ transfer[s].snapshot \in Snapshots
      /\ transfer[s].snapshot # Absent
  BY <1>3, Directories DEF IInv, Received, Valid
<1>5. /\ copies' \in Seq({Absent} \cup Snapshots)
      /\ DOMAIN copies' = 1 .. n /\ Len(copies') = n
      /\ copies'[n] = transfer[s].snapshot
      /\ \A c \in DOMAIN copies : copies'[c] = copies[c]
  BY <1>1, <1>2, <1>4 DEF MirrorType, Copy
<1>6. n \notin {pointer, server}
  BY <1>1, <1>2, Directories DEF MirrorType, Whole
<1>7. \A c \in DOMAIN copies : c \in DOMAIN copies' /\ copies'[c] = copies[c]
  BY <1>2, <1>5
<1> HIDE DEF n
<1>8. \A p : Whole(p) => Whole(p)'
  BY <1>7 DEF Whole
<1>9. MirrorTyped
  <2>1. Len(copies') <= MaxCopies
    BY <1>2, <1>5
  <2>2. (pointer = Absent \/ Whole(pointer))'
    BY <1>1, <1>3, <1>7 DEF MirrorType, Whole
  <2>3. (server \in {Absent, Root} \/ Whole(server))'
    BY <1>1, <1>3, <1>7 DEF MirrorType, Whole
  <2> QED
    BY <1>3, <1>5, <2>1, <2>2, <2>3 DEF MirrorTyped, MirrorType, IInv
<1>10. TypeOK' /\ UNCHANGED history
  BY <1>9, StoreAlone
<1>11. Kept'
  <2>1. \A c \in DOMAIN copies' : c = n \/ c \in DOMAIN copies
    BY <1>2, <1>5 DEF n
  <2> QED
    BY <1>4, <1>5, <1>10, <2>1 DEF IInv, Kept
<1>12. Said'
  BY <1>3, <1>7, <1>10 DEF IInv, Said, Whole, Generation
<1>13. \A t \in Syncs : Received(t)' /\ Owned(t)'
  <2> SUFFICES ASSUME NEW t \in Syncs PROVE Received(t)' /\ Owned(t)'
    OBVIOUS
  <2>1. CASE t = s
    <3>1. n \in DOMAIN copies'
      BY <1>2, <1>5
    <3> QED
      BY <1>3, <1>4, <1>5, <1>6, <1>10, <2>1, <3>1 DEF Received, Owned
  <2>2. CASE t # s
    BY <1>3, <1>7, <1>10, <2>2 DEF IInv, Received, Owned
  <2> QED
    BY <2>1, <2>2
<1>14. Apart'
  BY <1>2, <1>3 DEF IInv, Apart, Owned
<1> QED
  BY <1>10, <1>11, <1>12, <1>13, <1>14 DEF IInv

\* A transfer that ends, by whichever way, may take its own directory with it
\* and no other, or leave it, and make it the mirror.
LEMMA TransferEnds ==
  ASSUME IInv, NEW s \in Syncs,
         transfer' = [transfer EXCEPT ![s] = Idle],
         UNCHANGED <<cacheVars, server, reply, answer>>,
         \/ copies' = copies /\ UNCHANGED pointer
         \/ transfer[s].at = "copied" /\ copies' = Removed(s) /\ UNCHANGED pointer
         \/ transfer[s].at = "copied" /\ copies' = copies /\ pointer' = transfer[s].copy
  PROVE  IInv'
<1> DEFINE n == transfer[s].copy
<1>1. HistoryType /\ FilesType /\ MirrorType
  BY TypeParts DEF IInv
<1>2. transfer[s].at = "copied" =>
         /\ n \in DOMAIN copies /\ copies[n] = transfer[s].snapshot
         /\ copies[n] # Absent /\ n # pointer /\ n # server
  BY Directories DEF IInv, Owned, Received, Valid
<1>3. /\ \A t \in Syncs : t # s => transfer'[t] = transfer[t]
      /\ transfer'[s].at = "idle"
      /\ transfer' \in [Syncs -> Transfers]
  BY <1>1, IdleTyped DEF MirrorType
<1>4. /\ copies' \in Seq({Absent} \cup Snapshots) /\ Len(copies') = Len(copies)
      /\ DOMAIN copies' = DOMAIN copies
      /\ \A c \in DOMAIN copies : copies'[c] \in {copies[c], Absent}
  BY <1>1, <1>2 DEF MirrorType, Removed
<1>5. \A c \in DOMAIN copies :
         c # n \/ transfer[s].at # "copied" \/ pointer' # pointer => copies'[c] = copies[c]
  <2>1. CASE copies' = copies
    BY <2>1
  <2>2. CASE transfer[s].at = "copied" /\ copies' = Removed(s) /\ UNCHANGED pointer
    BY <1>1, <1>2, <2>2 DEF MirrorType, Removed
  <2> QED
    BY <2>1, <2>2
<1>6. \/ pointer' = pointer
      \/ pointer' = n /\ transfer[s].at = "copied"
  OBVIOUS
<1> HIDE DEF n
<1>7. Whole(server) => Whole(server)' /\ copies'[server] = copies[server]
  BY <1>2, <1>4, <1>5 DEF Whole
<1>8. MirrorTyped
  <2>1. (pointer = Absent \/ Whole(pointer))'
    BY <1>1, <1>2, <1>4, <1>5, <1>6 DEF MirrorType, Whole
  <2>2. (server \in {Absent, Root} \/ Whole(server))'
    BY <1>1, <1>7 DEF MirrorType
  <2> QED
    BY <1>1, <1>3, <1>4, <2>1, <2>2 DEF MirrorTyped, MirrorType, IInv
<1>9. TypeOK' /\ UNCHANGED history
  BY <1>8, StoreAlone
<1>10. Kept'
  BY <1>4, <1>9 DEF IInv, Kept
<1>11. Said'
  BY <1>7, <1>9 DEF IInv, Said, Whole, Generation
<1>12. \A t \in Syncs : Received(t)' /\ Owned(t)'
  <2> SUFFICES ASSUME NEW t \in Syncs, t # s PROVE Received(t)' /\ Owned(t)'
    BY <1>3 DEF Received, Owned
  <2>1. transfer[t].at = "copied" /\ transfer[s].at = "copied" => transfer[t].copy # n
    BY DEF IInv, Apart, n
  <2> QED
    BY <1>3, <1>4, <1>5, <1>6, <1>9, <2>1 DEF IInv, Received, Owned
<1>13. Apart'
  BY <1>3 DEF IInv, Apart
<1> QED
  BY <1>9, <1>10, <1>11, <1>12, <1>13 DEF IInv

LEMMA PublishStep ==
  ASSUME IInv, NEW s \in Syncs, Publish(s)
  PROVE  IInv'
BY TransferEnds DEF Publish, Retained

LEMMA FailStep ==
  ASSUME IInv, NEW s \in Syncs, Fail(s)
  PROVE  IInv'
BY TransferEnds DEF Fail
-----------------------------------------------------------------------------
\* The server of the mirror: nothing but what it serves changes.
LEMMA StartStep ==
  ASSUME IInv, Start
  PROVE  IInv'
<1>1. HistoryType /\ FilesType /\ MirrorType
  BY TypeParts DEF IInv
<1>2. UNCHANGED <<cacheVars, transfer, copies, pointer>> /\ reply' = Absent /\ answer' = Absent
  BY DEF Start
<1>3. \/ server' \in {Absent, Root}
      \/ server' = pointer /\ Whole(pointer)
  BY <1>1, Directories DEF Start, Fallback, Resolved, MirrorType
<1>4. MirrorTyped
  BY <1>1, <1>2, <1>3 DEF MirrorTyped, MirrorType, Whole, IInv
<1>5. TypeOK' /\ UNCHANGED history
  BY <1>4, StoreAlone
<1>6. \A t \in Syncs : Received(t)' /\ Owned(t)'
  <2>1. \A t \in Syncs : transfer[t].at = "copied" => transfer[t].copy \in 1 .. MaxCopies
    BY <1>1, Directories DEF IInv, Owned, MirrorType
  <2> QED
    BY <1>2, <1>3, <1>5, <2>1, Directories DEF IInv, Received, Owned
<1> QED
  BY <1>2, <1>5, <1>6 DEF IInv, Kept, Apart, Said

LEMMA ServeStep ==
  ASSUME IInv, Serve
  PROVE  IInv'
<1>1. HistoryType /\ FilesType /\ MirrorType
  BY TypeParts DEF IInv
<1>2. UNCHANGED <<cacheVars, transfer, copies, pointer, server>> /\ answer' = Absent
  BY DEF Serve
<1>3. Flat = Absent => Whole(server) /\ reply' = copies[server].content
  BY <1>1 DEF Serve, Reads, MirrorType
<1>4. MirrorTyped
  BY <1>1, <1>2 DEF MirrorTyped, MirrorType, Whole, IInv
<1>5. TypeOK' /\ UNCHANGED history
  BY <1>4, StoreAlone
<1>6. Said'
  BY <1>2, <1>3 DEF Said, Whole
<1> QED
  BY <1>2, <1>5, <1>6 DEF IInv, Kept, Apart, Received, Owned

\* Between the parts of an answer the directory it is from does not change.
LEMMA RelayStep ==
  ASSUME IInv, Relay
  PROVE  IInv'
<1>1. HistoryType /\ FilesType /\ MirrorType
  BY TypeParts DEF IInv
<1>2. UNCHANGED <<cacheVars, transfer, copies, pointer, server>> /\ reply' = Absent
  BY DEF Relay
<1>3. MirrorTyped
  BY <1>1, <1>2 DEF MirrorTyped, MirrorType, Whole, IInv
<1>4. TypeOK' /\ UNCHANGED history
  BY <1>3, StoreAlone
<1>5. Said'
  <2> SUFFICES ASSUME Flat = Absent, answer'.verified # Absent
               PROVE  /\ answer'.verified \in 1 .. Generation
                      /\ answer'.content = history[answer'.verified]
    BY <1>2, <1>4 DEF Said, Generation
  <2>1. Whole(server) /\ reply = copies[server].content
    BY DEF IInv, Said, Relay
  <2>2. server # Root /\ Valid(copies[server], history)
    BY <1>1, <2>1, Directories DEF IInv, Kept, Whole, MirrorType
  <2>3. answer'.content = reply /\ answer'.verified = copies[server].generation
    BY <2>2 DEF Relay, Label, Generations
  <2> QED
    BY <2>1, <2>2, <2>3 DEF Valid, Generation
<1> QED
  BY <1>2, <1>4, <1>5 DEF IInv, Kept, Apart, Received, Owned

LEMMA IInvInit == Init => IInv
<1> SUFFICES ASSUME Init PROVE IInv
  OBVIOUS
<1>1. HistoryType
  BY EmptyContent, CacheConstants DEF Init, CacheInit, HistoryType, Generation
<1>2. FilesType
  <2>1. NoSearch \in Searches
    BY EmptyContent, CacheConstants DEF NoSearch, Searches
  <2>2. receipts \in [{} -> Receipt]
    BY DEF Init, CacheInit
  <2> QED
    BY <2>1, <2>2 DEF Init, CacheInit, FilesType
<1>3. MirrorType
  <2>1. copies \in Seq({Absent} \cup Snapshots) /\ Len(copies) <= MaxCopies
    BY Directories DEF Init
  <2> QED
    BY <2>1, IdleTyped DEF Init, MirrorType
<1>4. \A s \in Syncs : transfer[s].at = "idle"
  BY DEF Init, Idle
<1>5. Kept /\ Said
  BY DEF Init, Kept, Said
<1> QED
  BY <1>1, <1>2, <1>3, <1>4, <1>5, TypeParts DEF IInv, Received, Owned, Apart

LEMMA IInvNext == IInv /\ [Next]_vars => IInv'
<1>1. ASSUME IInv, UNCHANGED vars PROVE IInv'
  BY <1>1 DEF vars, cacheVars, mirrorVars, IInv, TypeOK, Kept, Received, Owned,
     Apart, Said, Whole, Generation
<1> QED
  BY <1>1, CacheStep, ExportStep, CopyStep, PublishStep, FailStep, StartStep,
     ServeStep, RelayStep DEF Next
-----------------------------------------------------------------------------
\* The invariant holds throughout every behaviour.
THEOREM MirrorInvariant == Spec => []IInv
  BY IInvInit, IInvNext, PTL DEF Spec

\* Type correctness; the mirror and the directory of the local server are
\* directories that exist, whatever transfers fail or are refused meanwhile.
THEOREM MirrorTypeOK == Spec => []TypeOK
<1>1. IInv => TypeOK
  BY DEF IInv
<1> QED
  BY <1>1, MirrorInvariant, PTL

\* The published snapshot is what the store said at its generation, and has no
\* vector of another record or text.
THEOREM MirrorHoldsWhatWasSaid == Spec => []MirrorIsCanonical
<1>1. IInv => MirrorIsCanonical
  <2> SUFFICES ASSUME IInv, Published # Absent
               PROVE  /\ Published.content = history[Published.generation]
                      /\ Published.cache # Absent => Fits(Published.cache, Published.content)
    <3>1. DOMAIN <<>> = {}
      OBVIOUS
    <3> QED
      BY <3>1 DEF MirrorIsCanonical, Fits
  <2>1. pointer # Absent /\ Published = copies[pointer] /\ Whole(pointer)
    BY DEF Published, IInv, TypeOK
  <2>2. Valid(copies[pointer], history)
    BY <2>1 DEF IInv, Kept, Whole
  <2> QED
    BY <2>1, <2>2 DEF Valid
<1> QED
  BY <1>1, MirrorInvariant, PTL

\* An answer with a label is what the store said at the generation it names, as
\* long as there was no flat mirror before, whose server would be labelled with
\* a generation it does not read.
THEOREM MirrorAnswersAsLabelled ==
  ASSUME Flat = Absent
  PROVE  Spec => []AnswersAsLabelled
<1>1. IInv => AnswersAsLabelled
  BY DEF IInv, Said, AnswersAsLabelled
<1> QED
  BY <1>1, MirrorInvariant, PTL

\* What a transfer does to the published snapshot.
LEMMA PublishedAfter ==
  ASSUME IInv, [Next]_vars, Published # Absent
  PROVE  \/ Published' = Published
         \/ \E s \in Syncs : /\ Published' = transfer[s].snapshot
                             /\ transfer[s].snapshot \in Snapshots
                             /\ ~Superseded(s)
<1>1. pointer # Absent /\ Published = copies[pointer] /\ pointer \in DOMAIN copies
  BY DEF Published, IInv, TypeOK, Whole
<1>2. ASSUME UNCHANGED pointer, copies'[pointer] = copies[pointer]
      PROVE  Published' = Published
  BY <1>2 DEF Published
<1>3. CASE \/ UNCHANGED vars \/ Start \/ Serve \/ Relay
           \/ CacheNext /\ UNCHANGED mirrorVars
  BY <1>2, <1>3 DEF vars, mirrorVars, Start, Serve, Relay
<1>4. ASSUME NEW s \in Syncs, Export(s) PROVE Published' = Published
  BY <1>2, <1>4 DEF Export
<1>5. ASSUME NEW s \in Syncs, Copy(s) PROVE Published' = Published
  <2>1. copies \in Seq({Absent} \cup Snapshots)
    BY DEF IInv, TypeOK
  <2>2. copies'[pointer] = copies[pointer]
    BY <1>1, <1>5, <2>1 DEF Copy
  <2> QED
    BY <1>2, <1>5, <2>2 DEF Copy
<1>6. ASSUME NEW s \in Syncs, transfer[s].at = "copied"
      PROVE  /\ copies[transfer[s].copy] = transfer[s].snapshot
             /\ transfer[s].snapshot \in Snapshots /\ transfer[s].copy # Absent
             /\ Removed(s)[pointer] = copies[pointer]
  <2>1. /\ transfer[s].copy \in DOMAIN copies /\ transfer[s].copy # pointer
        /\ copies[transfer[s].copy] = transfer[s].snapshot
        /\ transfer[s].snapshot \in Snapshots
    BY <1>6 DEF IInv, Owned, Received, Valid
  <2>2. copies \in Seq({Absent} \cup Snapshots) /\ Len(copies) <= MaxCopies
    BY DEF IInv, TypeOK
  <2>3. transfer[s].copy # Absent
    BY <2>1, <2>2, Directories
  <2> QED
    BY <1>1, <2>1, <2>2, <2>3 DEF Removed
<1>7. ASSUME NEW s \in Syncs, Publish(s)
      PROVE  \/ Published' = Published
             \/ /\ Published' = transfer[s].snapshot
                /\ transfer[s].snapshot \in Snapshots /\ ~Superseded(s)
  <2>1. transfer[s].at = "copied"
    BY <1>7 DEF Publish
  <2>2. CASE copies' = Removed(s) /\ UNCHANGED pointer
    BY <1>2, <1>6, <2>1, <2>2
  <2>3. CASE copies' = copies /\ pointer' = transfer[s].copy /\ ~Superseded(s)
    BY <1>6, <2>1, <2>3 DEF Published
  <2> QED
    BY <1>7, <2>2, <2>3 DEF Publish, Retained
<1>8. ASSUME NEW s \in Syncs, Fail(s) PROVE Published' = Published
  BY <1>2, <1>6, <1>8 DEF Fail
<1> QED
  BY <1>3, <1>4, <1>5, <1>7, <1>8 DEF Next

\* The mirror never goes back to an older generation, nor is it lost.
THEOREM MirrorNeverGoesBack == Spec => MirrorOnlyAdvances
<1>1. IInv /\ [Next]_vars =>
         [Published # Absent =>
             Published' # Absent /\ Published'.generation >= Published.generation]_vars
  <2> SUFFICES ASSUME IInv, [Next]_vars, Published # Absent
               PROVE  Published' # Absent /\ Published'.generation >= Published.generation
    OBVIOUS
  <2>1. Published \in Snapshots
    <3>1. pointer # Absent /\ Published = copies[pointer] /\ Whole(pointer)
      BY DEF Published, IInv, TypeOK
    <3> QED
      BY <3>1 DEF IInv, Kept, Whole, Valid
  <2>2. \A x \in Snapshots : x.generation \in Nat
    BY CacheConstants DEF Snapshots
  <2>3. CASE Published' = Published
    BY <2>1, <2>2, <2>3
  <2>4. ASSUME NEW s \in Syncs, Published' = transfer[s].snapshot,
               transfer[s].snapshot \in Snapshots, ~Superseded(s)
        PROVE  Published' # Absent /\ Published'.generation >= Published.generation
    BY <2>1, <2>2, <2>4, Directories DEF Superseded
  <2> QED
    BY <2>3, <2>4, PublishedAfter
<1> QED
  BY <1>1, MirrorInvariant, PTL DEF Spec, MirrorOnlyAdvances
=============================================================================
