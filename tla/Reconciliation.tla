--------------------------- MODULE Reconciliation ---------------------------
(***************************************************************************)
(* How MemoryPyramidDistiller.ingest_session_records changes the memory    *)
(* records that sessions share: the operators of SessionRecords and of     *)
(* Controls.  A record is a claim with its canonical occurrence and the    *)
(* duplicates of it in this and other sessions, each with an id that       *)
(* others may refer to.  Ingesting a session again reconciles its records  *)
(* with a new extraction: claims that are still made keep their ids, and a *)
(* claim whose canonical is gone is handed to a duplicate elsewhere.       *)
(*                                                                         *)
(* Texts are compared by their form (lower case, stripped); a context is   *)
(* what must agree before claims are folded: scope, kind and so on.  The   *)
(* mark of an occurrence is what the operator made of it.  There are no    *)
(* supersession edges.                                                     *)
(***************************************************************************)
EXTENDS Naturals, Sequences, FiniteSets, SequencesExt

CONSTANTS Sessions,    \* session ids
          Texts,       \* what a unit of a session may say
          Form,        \* the form of each text
          Contexts,    \* the assertion keys of units
          Units,       \* the units that extractions of each session find
          Semantic,    \* near duplicates are folded, too
          Same,        \* not a text: a duplicate says what its record says
          MaxUnits,    \* bound on the units of each session
          MaxNumber    \* bound on the numbers of ids

ASSUME RecordConstants ==
    /\ Form \in [Texts -> Texts]
    /\ Units \in [Sessions -> SUBSET [text : Texts, ctx : Contexts]]
    /\ Semantic \in BOOLEAN
    /\ Same \notin Texts
    /\ MaxUnits \in [Sessions -> Nat] /\ MaxNumber \in Nat

VARIABLES records,    \* memory_records, in order
          counters,   \* session_counters: the highest number of each session
          issued      \* bookkeeping: the ids that have ever been in the store

\* open; approved or rejected in a review; retired by a correction.
Marks == {"open", "approved", "rejected", "retired"}

Extractions(s) == UNION {[1 .. n -> Units[s]] : n \in 0 .. MaxUnits[s]}
-----------------------------------------------------------------------------
\* A duplicate's own wording: its paraphrase_text, or the record's text.
Wording(rec, dup) == IF dup.para = Same THEN rec.text ELSE dup.para

\* The ids under which a record can be found, and those of the store.
IdsOf(rec) == {rec.id} \cup {rec.dups[i].id : i \in DOMAIN rec.dups}
Ids(recs) == UNION {IdsOf(recs[i]) : i \in DOMAIN recs}

\* Positions from first to last, and a sequence at some of its positions.
InOrder(positions) ==
    [k \in 1 .. Cardinality(positions) |->
        CHOOSE p \in positions : Cardinality({q \in positions : q <= p}) = k]

Picked(seq, positions) ==
    LET order == InOrder(positions) IN [k \in DOMAIN order |-> seq[order[k]]]

Foreign(rec, s) == Picked(rec.dups, {i \in DOMAIN rec.dups : rec.dups[i].from # s})

\* The duplicates of a record whose text changes keep what they said.
\* Mutant: they follow the record.
FollowRecord(dups, old, new) == dups

KeepWording(dups, old, new) ==
    [i \in DOMAIN dups |->
        IF new # old /\ dups[i].para = Same
        THEN [dups[i] EXCEPT !.para = old] ELSE dups[i]]

\* A record of another session: it gives up the duplicates of this one.
Stripped(rec, s) == [rec EXCEPT !.dups = Foreign(rec, s)]

\* A claim of the session that is made again: it takes over what is new.
Reasserted(rec, s, unit) ==
    [rec EXCEPT !.text = unit.text, !.ctx = unit.ctx,
                !.dups = KeepWording(Foreign(rec, s), rec.text, unit.text)]

\* A claim that is not: the first duplicate elsewhere becomes canonical, with
\* its own id, context and wording.  Mutant: it gets the record's id.
PromotedInPlace(rec, s) ==
    LET heir == Head(Foreign(rec, s)) IN
    [rec EXCEPT !.from = heir.from, !.dups = Tail(Foreign(rec, s))]

Promoted(rec, s) ==
    LET heir == Head(Foreign(rec, s))
        text == Wording(rec, heir)
    IN [id |-> heir.id, from |-> heir.from, text |-> text, ctx |-> heir.ctx,
        mark |-> heir.mark, dups |-> KeepWording(Tail(Foreign(rec, s)), rec.text, text)]

\* new_by_text: the first unit of a form, which one record may consume.
FirstSaying(units, text) ==
    {p \in DOMAIN units :
        /\ Form[units[p].text] = Form[text]
        /\ \A q \in 1 .. p - 1 : Form[units[q].text] # Form[text]}

\* The unit that the i-th record consumes, if any.
Consumes(s, units, i) ==
    IF \/ records[i].from # s
       \/ \E j \in 1 .. i - 1 :
             /\ records[j].from = s
             /\ Form[records[j].text] = Form[records[i].text]
    THEN {}
    ELSE FirstSaying(units, records[i].text)

\* Whether anything is left of the i-th record.  Retired evidence that a
\* correction refers to is history, and stays.
Survives(s, units, cited, i) ==
    \/ records[i].from # s
    \/ Consumes(s, units, i) # {}
    \/ Foreign(records[i], s) # <<>>
    \/ (records[i].id \in cited /\ records[i].mark = "retired")

\* What becomes of a record that survives.
Reconciled(s, units, i) ==
    LET rec == records[i]
        match == Consumes(s, units, i)
    IN
    IF rec.from # s THEN Stripped(rec, s)
    ELSE IF match # {} THEN Reasserted(rec, s, units[CHOOSE p \in match : TRUE])
    ELSE IF Foreign(rec, s) # <<>> THEN Promoted(rec, s)
    ELSE rec

Kept(s, units, cited) ==
    LET order == InOrder({i \in DOMAIN records : Survives(s, units, cited, i)})
    IN [k \in DOMAIN order |-> Reconciled(s, units, order[k])]

\* The units still to merge, by position.
Remaining(s, units) ==
    DOMAIN units \ UNION {Consumes(s, units, i) : i \in DOMAIN records}
-----------------------------------------------------------------------------
\* Duplicates that the session gave up: their ids go to units that say the
\* same, in order.  Mutant: they do not.
NotReclaimable(s, form) == <<>>

GivenUp(s, form) ==
    {t \in UNION {{i} \X DOMAIN records[i].dups : i \in DOMAIN records} :
        LET rec == records[t[1]]
            dup == rec.dups[t[2]]
        IN dup.from = s /\ Form[Wording(rec, dup)] = form}

UpTo(slot, slots) ==
    {t \in slots : t[1] < slot[1] \/ (t[1] = slot[1] /\ t[2] <= slot[2])}

Reclaimable(s, form) ==
    LET slots == GivenUp(s, form)
        Nth(k) == CHOOSE t \in slots : Cardinality(UpTo(t, slots)) = k
    IN [k \in 1 .. Cardinality(slots) |-> records[Nth(k)[1]].dups[Nth(k)[2]].id]

\* The rank of a unit among the remaining ones of its form.
Rank(units, rest, p) ==
    Cardinality({q \in rest :
        q <= p /\ Form[units[q].text] = Form[units[p].text]})

\* session_counters covers every number the session has had.  Mutants: only
\* the surviving ids count; none does.
HighestSurviving(s, kept) ==
    Max({0} \cup {id[2] : id \in {x \in Ids(kept) : x[1] = s}})
NoneTaken(s, kept) == 0

HighestNumber(s, kept) == Max({counters[s], HighestSurviving(s, kept)})

\* The ids of the units to merge: reclaimed ones first, then new ones.
NewIds(s, units, rest, kept) ==
    LET slots == [p \in rest |-> Reclaimable(s, Form[units[p].text])]
        fresh == {p \in rest : Rank(units, rest, p) > Len(slots[p])}
        highest == HighestNumber(s, kept)
    IN [p \in rest |->
           IF p \in fresh
           THEN <<s, highest + Cardinality({q \in fresh : q <= p})>>
           ELSE slots[p][Rank(units, rest, p)]]
-----------------------------------------------------------------------------
\* deduplicate_and_merge: the record a unit is a duplicate of - the last one
\* with its context and form, and not retired - or 0.
Exact(recs, unit) ==
    Max({0} \cup {i \in DOMAIN recs :
        /\ recs[i].ctx = unit.ctx /\ recs[i].mark # "retired"
        /\ Form[recs[i].text] = Form[unit.text]})

Folded(rec, s, id, unit) ==
    IF id \in IdsOf(rec) THEN rec
    ELSE [rec EXCEPT !.dups = Append(@,
             [id |-> id, from |-> s, ctx |-> unit.ctx, mark |-> "open",
              para |-> IF unit.text = rec.text THEN Same ELSE unit.text])]

Canonical(s, id, unit) ==
    [id |-> id, from |-> s, text |-> unit.text, ctx |-> unit.ctx,
     mark |-> "open", dups |-> <<>>]

\* One unit is folded into that record, or a near one, or becomes a record.
Placed(recs, s, id, unit, near) ==
    LET i == IF Exact(recs, unit) # 0 THEN Exact(recs, unit) ELSE near IN
    IF i = 0 THEN Append(recs, Canonical(s, id, unit))
    ELSE [recs EXCEPT ![i] = Folded(@, s, id, unit)]

\* The index may find any record of the same context near, or none, or fail.
Near(kept, unit) ==
    {0} \cup {i \in DOMAIN kept : /\ Semantic
                                 /\ kept[i].ctx = unit.ctx
                                 /\ kept[i].mark # "retired"}

\* Exact duplicates first, then the rest, near or new.
Merged(s, units, ids, kept, hits, near) ==
    LET order == InOrder(hits) \o InOrder(DOMAIN near)
        Place(recs, p) ==
            Placed(recs, s, ids[p], units[p], IF p \in hits THEN 0 ELSE near[p])
        merged[k \in 0 .. Len(order)] ==
            IF k = 0 THEN kept ELSE Place(merged[k - 1], order[k])
    IN merged[Len(order)]

\* _occurrences: a record as the sequence of its occurrences, each with its
\* wording; and _repack: the record of such a sequence, in which a wording
\* that is the record's text is not stored apart.
Unfolded(rec) ==
    <<[id |-> rec.id, from |-> rec.from, text |-> rec.text, ctx |-> rec.ctx,
       mark |-> rec.mark]>>
    \o [i \in DOMAIN rec.dups |->
           LET d == rec.dups[i] IN
           [id |-> d.id, from |-> d.from, text |-> Wording(rec, d),
            ctx |-> d.ctx, mark |-> d.mark]]

Repacked(occs) ==
    LET first == Head(occs) IN
    [id |-> first.id, from |-> first.from, text |-> first.text,
     ctx |-> first.ctx, mark |-> first.mark,
     dups |-> [i \in DOMAIN Tail(occs) |->
        LET o == Tail(occs)[i] IN
        [id |-> o.id, from |-> o.from, ctx |-> o.ctx, mark |-> o.mark,
         para |-> IF o.text = first.text THEN Same ELSE o.text]]]

\* _remember_record_ids.
Counted(recs) ==
    [s \in Sessions |->
        Max({counters[s]} \cup {id[2] : id \in {x \in Ids(recs) : x[1] = s}})]

\* The records after one ingestion, before the controls apply: any of those
\* that the index may lead to.
IngestedRecords(s, units, cited) ==
    LET kept == Kept(s, units, cited)
        rest == Remaining(s, units)
        hits == {p \in rest : Exact(kept, units[p]) # 0}
        ids == NewIds(s, units, rest, kept)
    IN {Merged(s, units, ids, kept, hits, near) :
           near \in {n \in [rest \ hits -> 0 .. Len(kept)] :
                       \A p \in rest \ hits : n[p] \in Near(kept, units[p])}}

\* No two occurrences have one id.
DistinctIds(recs) ==
    Cardinality(Ids(recs)) = Cardinality(
        UNION {{<<i, j>> : j \in 0 .. Len(recs[i].dups)} : i \in DOMAIN recs})

\* The types of records whose occurrences are from any of these sessions.
DupType(ids, from) ==
    [id : ids, from : from, ctx : Contexts, mark : Marks,
     para : Texts \cup {Same}]
RecordType(ids, from) ==
    [id : ids, from : from, text : Texts, ctx : Contexts, mark : Marks,
     dups : Seq(DupType(ids, from))]
=============================================================================
