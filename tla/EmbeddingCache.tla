--------------------------- MODULE EmbeddingCache ---------------------------
(***************************************************************************)
(* The two files that follow the canonical store: <store>.embindex.json,   *)
(* the vectors of its records (semantic_index), and the operator's         *)
(* feedback in <store>.metrics.json (napmem_metrics), while sessions are   *)
(* ingested, records corrected and forgotten, a reader searches by         *)
(* meaning, and an operator rates a record.                                *)
(*                                                                         *)
(* Writers of the store hold its lock from their reading to their commit   *)
(* (StoreTransactions), so a writer is one step here.  A search and a      *)
(* rating read the store without the lock, and then write a file of their  *)
(* own: those are several steps.  A vector is the text it was computed     *)
(* from, which is what its key identifies; the embedding model is fixed.   *)
(***************************************************************************)
EXTENDS Naturals, Sequences, Functions

CONSTANTS Records, Texts,   \* record ids and what records can say
          Absent,           \* there is no file, no record, nothing known
          MaxGeneration     \* bound on the commits

ASSUME CacheConstants ==
    /\ MaxGeneration \in Nat /\ MaxGeneration > 0 /\ Absent \notin Records

VARIABLES history,   \* what the store said at each generation; the last is now
          receipts,  \* deletion_receipts: of each forgotten record
          cache,     \* <store>.embindex.json: record -> vector, or Absent
          search,    \* a semantic search: what it has read so far
          feedback,  \* the records that <store>.metrics.json has an opinion on
          rating     \* the record the operator was shown to rate, or Absent

cacheVars == <<history, receipts, cache, search, feedback, rating>>

Contents == UNION {[R -> Texts] : R \in SUBSET Records}
Store == history[Len(history)]
Generation == Len(history)
NoSearch == [at |-> "idle", content |-> <<>>, seen |-> 0, held |-> <<>>]

\* A bound: a search and a rating, which share no file, are not at once.
NoReader == search = NoSearch /\ rating = Absent

CacheInit ==
    /\ history = << <<>> >> /\ receipts = <<>> /\ cache = Absent
    /\ search = NoSearch /\ feedback = {} /\ rating = Absent

\* What the store may say after a commit: no record that was forgotten.
Commit(content) ==
    /\ Generation < MaxGeneration
    /\ DOMAIN content \cap DOMAIN receipts = {}
    /\ history' = Append(history, content)

\* _load: an absent or unreadable file holds no vectors.
Held == IF cache = Absent THEN <<>> ELSE cache

\* _vectors_for leaves the file alone unless the vectors differ from those it
\* loaded; then the file holds those of the records it was asked for.
Saved(vectors, held) == IF vectors = held THEN cache ELSE vectors

\* ingest_session_records: deduplication embeds some of the records that are in
\* the store, and saves their vectors, before the new content is committed; it
\* may be switched off or fail.
Ingest(content) ==
    /\ Commit(content)
    /\ \/ UNCHANGED cache
       \/ \E R \in SUBSET DOMAIN Store : cache' = Saved(Restrict(Store, R), Held)
    /\ UNCHANGED <<receipts, search, feedback, rating>>

\* control: the cache is unlinked, or cannot be.
Unlink == cache' \in {Absent, cache}

\* correct, reject and exclude.
Correct(content) ==
    /\ Commit(content)
    /\ Unlink
    /\ UNCHANGED <<receipts, search, feedback, rating>>

\* The metrics' purge, which may fail.
Purge(r) == feedback' \in {feedback, feedback \ {r}}

\* forget: what could not be removed is pending in the receipt.
Forget(r) ==
    /\ r \in DOMAIN Store
    /\ Unlink
    /\ Purge(r)
    /\ receipts' = [f \in DOMAIN receipts \cup {r} |-> IF f \in DOMAIN receipts THEN receipts[f] ELSE
                      [cache |-> IF cache' = Absent THEN "removed" ELSE "pending",
                       metrics |-> IF r \in feedback' THEN "pending" ELSE "purged"]]
    /\ Commit(Restrict(Store, DOMAIN Store \ {r}))
    /\ UNCHANGED <<search, rating>>
-----------------------------------------------------------------------------
\* semantic_search: the agent refreshes its records.
Load ==
    /\ NoReader
    /\ search' = [NoSearch EXCEPT !.at = "loaded", !.content = Store]
    /\ UNCHANGED <<history, receipts, cache, feedback, rating>>

\* SemanticIndex(): the fingerprint of the store, then the vectors.
Open ==
    /\ search.at = "loaded"
    /\ search' = [search EXCEPT !.at = "open", !.seen = Generation, !.held = Held]
    /\ UNCHANGED <<history, receipts, cache, feedback, rating>>

\* save, under the store's lock, refuses if the store is no longer the one the
\* index was opened on; the search is then answered by substring.
Current == search.seen = Generation

\* search embeds the records R that are eligible for the query.
Embed(R) ==
    /\ search.at = "open" /\ R \subseteq DOMAIN search.content
    /\ LET vectors == Restrict(search.content, R) IN
       IF Current THEN cache' = Saved(vectors, search.held) ELSE UNCHANGED cache
    /\ search' = NoSearch
    /\ UNCHANGED <<history, receipts, feedback, rating>>

\* The search fails or its process dies.
Abandon ==
    /\ search # NoSearch
    /\ search' = NoSearch
    /\ UNCHANGED <<history, receipts, cache, feedback, rating>>
-----------------------------------------------------------------------------
\* napmem feedback: the record must be in the store; then the opinion is kept.
Inspect(r) ==
    /\ NoReader /\ r \in DOMAIN Store
    /\ rating' = r
    /\ UNCHANGED <<history, receipts, cache, search, feedback>>

Rate ==
    /\ rating # Absent
    /\ feedback' = feedback \cup {rating} /\ rating' = Absent
    /\ UNCHANGED <<history, receipts, cache, search>>

CacheNext ==
    \/ \E content \in Contents : Ingest(content) \/ Correct(content)
    \/ \E r \in Records : Forget(r) \/ Inspect(r)
    \/ \E R \in SUBSET Records : Embed(R)
    \/ Load \/ Open \/ Abandon \/ Rate
-----------------------------------------------------------------------------
\* What a deletion receipt says was removed is gone and stays so ("embedding
\* writes reject stale store snapshots"; the completion_scope of a receipt is
\* the canonical store and the adjacent embedding cache).  The code breaks it,
\* by a search that loads before the deletion and opens its index after it.
ForgottenLeavesNoTrace == \A r \in DOMAIN receipts :
    /\ receipts[r].cache = "removed" => r \notin DOMAIN Held
    /\ receipts[r].metrics = "purged" => r \notin feedback
=============================================================================
