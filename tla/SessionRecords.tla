--------------------------- MODULE SessionRecords ---------------------------
(***************************************************************************)
(* The memory records of a store without operator controls, and any        *)
(* sequence of ingestions of its sessions.  One ingestion is one           *)
(* transaction of StoreTransactions and one step.  A claim that is gone    *)
(* everywhere is dropped.                                                  *)
(***************************************************************************)
EXTENDS Reconciliation

\* Bookkeeping for the properties: what each session said when it was last
\* ingested.
VARIABLE latest

vars == <<records, counters, latest, issued>>

Init ==
    /\ records = <<>>
    /\ counters = [s \in Sessions |-> 0]
    /\ latest = [s \in Sessions |-> <<>>]
    /\ issued = {}

\* apply_controls, without controls, repacks each record.
Ingest(s, units) ==
    \E merged \in IngestedRecords(s, units, {}) :
       /\ records' = [i \in DOMAIN merged |-> Repacked(Unfolded(merged[i]))]
       /\ counters' = Counted(merged)
       /\ counters'[s] <= MaxNumber
       /\ latest' = [latest EXCEPT ![s] = units]
       /\ issued' = issued \cup Ids(merged)

Next == \E s \in Sessions : \E units \in Extractions(s) : Ingest(s, units)

Spec == Init /\ [][Next]_vars
-----------------------------------------------------------------------------
Id == Sessions \X (1 .. MaxNumber)

\* What a session says in the store: the id, wording and context of each of
\* its occurrences.
Occurrences(recs, s) ==
    {<<recs[i].id, recs[i].text, recs[i].ctx>> :
        i \in {j \in DOMAIN recs : recs[j].from = s}}
    \cup UNION {{<<d.id, Wording(recs[i], d), d.ctx>> :
                    d \in {x \in ToSet(recs[i].dups) : x.from = s}} :
                i \in DOMAIN recs}

\* Every variable has its shape, an id is that of one occurrence of its own
\* session, and the counters have passed it.
TypeOK ==
    /\ records \in Seq(RecordType(Id, Sessions))
    /\ counters \in [Sessions -> 0 .. MaxNumber]
    /\ \A s \in Sessions : latest[s] \in Extractions(s)
    /\ issued \subseteq Id
    /\ \A id \in Ids(records) : id[2] <= counters[id[1]]
    /\ \A s \in Sessions : \A o \in Occurrences(records, s) : o[1][1] = s

\* No two occurrences have one id, however often sessions are ingested again,
\* promoted and reclaimed; a second one would stop every later ingestion
\* ("Duplicate record ID").
UniqueIds == DistinctIds(records)

\* The id of a claim that was dropped never names another one ("Retired record
\* IDs are never reused").
RetiredNeverReturn == [][issued \cap Ids(records') \subseteq Ids(records)]_vars

\* The store says of each session what that session last said: every claim, in
\* its own words and context, as often as it was made, and nothing else -
\* whatever other sessions fold into it, promote or drop ("record text always
\* matches text the anchoring file actually contained").
SaysWhatSessionsSaid == \A s \in Sessions : \A u \in Units[s] :
    Cardinality({o \in Occurrences(records, s) : <<o[2], o[3]>> = <<u.text, u.ctx>>})
        = Cardinality({p \in DOMAIN latest[s] : latest[s][p] = u})

\* The units of a form, and the ids of the claims of a form.
Saying(units, form) == {p \in DOMAIN units : Form[units[p].text] = form}
IdsSaying(recs, s, form) ==
    {o[1] : o \in {x \in Occurrences(recs, s) : Form[x[2]] = form}}

\* A claim whose form occurs once in a session, before and after, keeps its
\* id, be it canonical or a duplicate.
KeepsLoneIds ==
    \A s \in Sessions, t \in Texts :
       /\ Cardinality(Saying(latest[s], Form[t])) = 1
       /\ Cardinality(Saying(latest'[s], Form[t])) = 1
       => IdsSaying(records', s, Form[t]) = IdsSaying(records, s, Form[t])

ReassertedKeepsId == [][KeepsLoneIds]_vars

\* "Record IDs are stable across re-ingestion": ingesting a session that has
\* not changed leaves the ids of the store alone.
NoChangeKeepsIds ==
    [][\A s \in Sessions :
          Ingest(s, latest[s]) => Ids(records') = Ids(records)]_vars
=============================================================================
