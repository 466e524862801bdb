------------------------------ MODULE Controls ------------------------------
(***************************************************************************)
(* Operator controls on the records that sessions share: napmem_controls,  *)
(* and the distiller's control and restore_snapshot.  Corrections,         *)
(* reviews, exclusions and forgetting are kept apart from the records and  *)
(* applied to them again after every ingestion and restore.                *)
(*                                                                         *)
(* Each operation is one transaction of StoreTransactions and one step; it *)
(* is refused, and changes nothing, when what it would commit is not       *)
(* valid.  A claim is a scope and the form of a text.  The path of a       *)
(* session stands for its identity; pins and expiries are kept and applied *)
(* as reviews are; evidence, journal and receipts are left out.  The names *)
(* differ from those of SessionRecords, whose theorems are used with them. *)
(***************************************************************************)
EXTENDS Reconciliation

CONSTANTS Operator,    \* whom operator assertions are from; not a session
          MaxOps,      \* bound on the operator's commands
          MaxIds       \* bound on the ids that ingestions give

ASSUME ControlConstants ==
    /\ Operator \notin Sessions
    /\ MaxOps \in Nat /\ MaxIds \in Nat

VARIABLES controls,     \* the document's controls
          forgotten,    \* forgotten_record_ids
          backup        \* an exported snapshot: <<>> or one of them

\* Bookkeeping: the commands given; the operator's last word on each claim and on
\* each session.
VARIABLES commands, word, shut

store == <<records, counters, controls, forgotten>>
history == <<issued, word, shut>>
controlsVars == <<store, backup, commands, history>>

Claim(o) == <<o.ctx, Form[o.text]>>
Claims == Contexts \X {Form[t] : t \in Texts}

NoControls ==
    [reviews |-> <<>>, corrections |-> <<>>, assertions |-> <<>>,
     tombstones |-> {}, excluded |-> [s \in Sessions |-> "no"]]

ControlsInit ==
    /\ records = <<>>
    /\ counters = [s \in Sessions |-> 0]
    /\ controls = NoControls
    /\ forgotten = {} /\ backup = <<>>
    /\ commands = 0 /\ issued = {}
    /\ word = [k \in Claims |-> "none"]
    /\ shut = [s \in Sessions |-> "no"]
-----------------------------------------------------------------------------
AllOf(recs) == UNION {ToSet(Unfolded(recs[i])) : i \in DOMAIN recs}

Excluded(c, s) == s \in Sessions /\ c.excluded[s] # "no"

\* What tombstones and exclusions leave in the store.
Admitted(c, o) == Claim(o) \notin c.tombstones /\ ~Excluded(c, o.from)

\* What reviews and corrections make of an occurrence.  A correction retires it
\* for good.
Ruled(c, o) ==
    [o EXCEPT !.mark =
        IF @ = "retired" \/ Claim(o) \in DOMAIN c.corrections THEN "retired"
        ELSE IF Claim(o) \in DOMAIN c.reviews THEN c.reviews[Claim(o)].says
        ELSE @]

\* Operator assertions that are not forgotten.
Standing(c) ==
    Picked(c.assertions, {i \in DOMAIN c.assertions :
                             Claim(c.assertions[i].rec) \notin c.tombstones})

\* The standing assertions that are not among the records.
Missing(recs, c) ==
    LET standing == Standing(c)
        missing == Picked(standing, {i \in DOMAIN standing :
                                        standing[i].rec.id \notin Ids(recs)})
    IN [i \in DOMAIN missing |-> missing[i].rec]

\* _apply: every occurrence is admitted and ruled on; the first that is left of
\* a record becomes canonical.
Left(rec, c) ==
    LET said == Unfolded(rec)
        left == Picked(said, {i \in DOMAIN said : Admitted(c, said[i])})
    IN [j \in DOMAIN left |-> Ruled(c, left[j])]

Sifted(all, c) ==
    LET left == [i \in DOMAIN all |-> Left(all[i], c)]
        kept == Picked(left, {i \in DOMAIN left : left[i] # <<>>})
    IN [i \in DOMAIN kept |-> Repacked(kept[i])]

\* Assertions that the records lack go through the same.  Mutant: they are added
\* afterwards.
AssertionsUnruled(recs, c) == Sifted(recs, c) \o Missing(recs, c)

AppliedRecords(recs, c) == Sifted(recs \o Missing(recs, c), c)

\* Reviews and corrections learn the ids of the occurrences they match, and
\* assertions are kept as the records have them.
Learned(entries, occs) ==
    [k \in DOMAIN entries |->
        [entries[k] EXCEPT !.ids = @ \cup
            {o.id : o \in {x \in occs : Claim(x) = k}}]]

AppliedControls(recs, c) ==
    LET Retained(rec) == {r \in ToSet(recs) : r.id = rec.id}
        standing == Standing(c)
    IN [c EXCEPT
           !.reviews = Learned(@, AllOf(recs)),
           !.corrections = Learned(@, AllOf(recs)),
           !.assertions = [i \in DOMAIN standing |->
               [standing[i] EXCEPT !.rec =
                   IF Retained(@) = {} THEN @ ELSE CHOOSE r \in Retained(@) : TRUE]]]

\* _controls: a correction leads to an assertion that corrects one of its
\* originals.
ValidControls(c) ==
    \A k \in DOMAIN c.corrections : \E i \in DOMAIN c.assertions :
        /\ c.assertions[i].rec.id = c.corrections[k].by
        /\ c.assertions[i].corrects \in c.corrections[k].ids

\* The controls are applied to the records, and what comes out is validated
\* and committed, or the operation is refused.
Acceptable(recs, c) == ValidControls(c) /\ DistinctIds(recs)

Committed(recs, c) ==
    \E applied \in {AppliedRecords(recs, c)} :
    \E known \in {AppliedControls(applied, c)} :
        /\ Acceptable(applied, known)
        /\ records' = applied
        /\ controls' = known
        /\ issued' = issued \cup Ids(applied)

\* Entries, and older ones that they leave.
Over(new, old) ==
    [k \in DOMAIN new \cup DOMAIN old |-> IF k \in DOMAIN new THEN new[k] ELSE old[k]]
-----------------------------------------------------------------------------
\* filter_incoming.
FilterIncoming(s, units) ==
    Picked(units, {p \in DOMAIN units :
        /\ ~Excluded(controls, s)
        /\ Claim(units[p]) \notin controls.tombstones
        /\ Claim(units[p]) \notin DOMAIN controls.corrections})

\* The ids that corrections refer to.
Cited == UNION {controls.corrections[k].ids : k \in DOMAIN controls.corrections}

IngestAdmitted(s, units) ==
    \E merged \in IngestedRecords(s, FilterIncoming(s, units), Cited) :
        /\ counters' = Counted(merged)
        /\ counters'[s] <= MaxNumber
        /\ Committed(merged, controls)
        /\ Cardinality({id \in issued' : id[1] \in Sessions}) <= MaxIds
        /\ UNCHANGED <<forgotten, backup, commands, word, shut>>
-----------------------------------------------------------------------------
\* What binds ids to each other: a record and its duplicates, an assertion and
\* what it corrects, a correction, a review.
Groups ==
    {IdsOf(records[i]) : i \in DOMAIN records}
    \cup {{a.rec.id, a.corrects} : a \in ToSet(controls.assertions)}
    \cup {controls.corrections[k].ids \cup {controls.corrections[k].by} :
             k \in DOMAIN controls.corrections}
    \cup {controls.reviews[k].ids : k \in DOMAIN controls.reviews}

\* _family: what is bound to an id, directly or not.
Neighbours(ids) == ids \cup UNION {g \in Groups : g \cap ids # {}}

Family(id) ==
    LET reach[n \in 0 .. Cardinality(Groups)] ==
            IF n = 0 THEN {id} ELSE Neighbours(reach[n - 1])
    IN reach[Cardinality(Groups)]

TheOne(id) == CHOOSE o \in AllOf(records) : o.id = id

\* The end of a chain of corrections, or an id on the cycle it ends in; a chain
\* that leads out of the records is an error.
Newest(id) ==
    LET corrections == controls.corrections
        Step(r) == IF Claim(TheOne(r)) \in DOMAIN corrections
                   THEN corrections[Claim(TheOne(r))].by ELSE r
    IN FoldLeft(LAMBDA r, i : Step(r), id,
                [i \in 1 .. Cardinality(DOMAIN corrections) |-> i])

Command ==
    /\ commands < MaxOps
    /\ commands' = commands + 1

\* The distiller's part of a control: retired ids stay counted.
Counters == counters' = Counted(records)

\* A correction is a new assertion of the operator.  It retires every wording
\* of the family in its scope, unless that was corrected before.
Affected(id, target) ==
    {o \in AllOf(records) :
        /\ o.id \in Family(id) \cup {target.id}
        /\ o.ctx = target.ctx}

Wordings(occs) == {Claim(o) : o \in occs} \ DOMAIN controls.corrections

Corrected(target, affected, by, text) ==
    [controls EXCEPT
        !.corrections = Over([k \in Wordings(affected) |->
            [by |-> by, ids |-> {target.id} \cup
                {o.id : o \in {x \in affected : Claim(x) = k}}]], @),
        !.assertions = Append(@,
            [corrects |-> target.id,
             rec |-> [Canonical(Operator, by, [text |-> text, ctx |-> target.ctx])
                      EXCEPT !.mark = "approved"]])]

Correct(id, text) ==
    LET target == TheOne(Newest(id))
        affected == Affected(id, target)
    IN
    /\ Command
    /\ id \in Ids(records) /\ Newest(id) \in Ids(records)
    /\ Claim(target) \notin DOMAIN controls.corrections
    /\ Form[text] # Form[target.text]
    /\ Committed(records, Corrected(target, affected, <<Operator, commands + 1>>, text))
    /\ word' = [k \in Claims |->
                   IF k \in Wordings(affected) THEN "corrected" ELSE word[k]]
    /\ Counters
    /\ UNCHANGED <<forgotten, backup, shut>>

Reviewed(k, id, says) ==
    LET known == IF k \in DOMAIN controls.reviews
                 THEN controls.reviews[k].ids ELSE {}
    IN [controls EXCEPT !.reviews =
           Over([x \in {k} |-> [says |-> says, ids |-> known \cup {id}]], @)]

Review(id, says) ==
    LET k == Claim(TheOne(id)) IN
    /\ Command
    /\ id \in Ids(records)
    /\ Committed(records, Reviewed(k, id, says))
    /\ word' = [word EXCEPT ![k] = IF @ = "corrected" THEN @ ELSE says]
    /\ Counters
    /\ UNCHANGED <<forgotten, backup, shut>>

\* The claims that forgetting a family suppresses: what its members say, and
\* what their controls remember of wordings that have left the store.
Identities(family) ==
    LET touched(entries) == {k \in DOMAIN entries : entries[k].ids \cap family # {}}
    IN {Claim(o) : o \in {x \in AllOf(records) : x.id \in family}}
       \cup touched(controls.corrections) \cup touched(controls.reviews)

Without(entries, claims) == [k \in DOMAIN entries \ claims |-> entries[k]]

Buried(family) ==
    LET claims == Identities(family) IN
    [controls EXCEPT
        !.tombstones = @ \cup claims,
        !.assertions = Picked(@, {i \in DOMAIN @ : @[i].rec.id \notin family}),
        !.corrections = Without(@, claims),
        !.reviews = Without(@, claims)]

Forget(id) ==
    /\ Command
    /\ id \in UNION Groups
    /\ Committed(records, Buried(Family(id)))
    /\ forgotten' = forgotten \cup Family(id)
    /\ word' = [k \in Claims |->
                   IF k \in Identities(Family(id)) THEN "forgotten" ELSE word[k]]
    /\ Counters
    /\ UNCHANGED <<backup, shut>>

\* exclude, include and forget_session; the last cannot be undone.
Admit(s, to) ==
    /\ Command
    /\ Committed(records, [controls EXCEPT !.excluded[s] = to])
    /\ shut' = [shut EXCEPT ![s] = to]
    /\ Counters
    /\ UNCHANGED <<forgotten, backup, word>>

Exclude(s) == controls.excluded[s] = "no" /\ Admit(s, "excluded")
Include(s) == controls.excluded[s] = "excluded" /\ Admit(s, "no")
ForgetSession(s) == controls.excluded[s] # "forgotten" /\ Admit(s, "forgotten")
-----------------------------------------------------------------------------
\* export_snapshot: the bytes of the store as they are.
Export ==
    /\ Command
    /\ backup' = store
    /\ UNCHANGED <<store, history>>

\* What the controls of a backup and the present ones make together.
MergedAssertions(old, new) ==
    LET of(a) == {b \in ToSet(new) : b.rec.id = a.rec.id} IN
    [i \in DOMAIN old |->
        IF of(old[i]) = {} THEN old[i] ELSE CHOOSE b \in of(old[i]) : TRUE]
    \o Picked(new, {j \in DOMAIN new :
                       \A a \in ToSet(old) : a.rec.id # new[j].rec.id})

\* Of two rulings on a claim the present one stays.
\* Mutant: the backup's are taken as they were.
RulingsOfBackup(old, new) == old

MergedRulings(old, new) == Over(new, old)

\* An exclusion of either stays, and a forgotten session forgotten.
MergedExclusions(old, new) ==
    [s \in Sessions |->
        IF "forgotten" \in {old[s], new[s]} THEN "forgotten"
        ELSE IF new[s] # "no" THEN new[s] ELSE old[s]]

\* The copies in the backup of ids that were forgotten since are suppressed by
\* their scope and the text of the record they are in.
OldCopies(recs, gone) ==
    UNION {{<<o.ctx, Form[recs[i].text]>> :
               o \in {x \in ToSet(Unfolded(recs[i])) : x.id \in gone}} :
           i \in DOMAIN recs}

MergedControls(recs, old, new, gone) ==
    LET tombstones == old.tombstones \cup new.tombstones \cup OldCopies(recs, gone)
        merged == MergedAssertions(old.assertions, new.assertions)
        assertions == Picked(merged, {i \in DOMAIN merged :
                          /\ merged[i].rec.id \notin gone
                          /\ Claim(merged[i].rec) \notin tombstones})
        alive == {a.rec.id : a \in ToSet(assertions)}
        untold(entries) == {k \in DOMAIN entries \ tombstones :
                               entries[k].ids \cap gone = {}}
        corrections == MergedRulings(old.corrections, new.corrections)
        reviews == MergedRulings(old.reviews, new.reviews)
    IN [tombstones |-> tombstones,
        assertions |-> assertions,
        excluded |-> MergedExclusions(old.excluded, new.excluded),
        corrections |-> [k \in {x \in untold(corrections) :
                                   corrections[x].by \in alive}
                            |-> corrections[k]],
        reviews |-> [k \in untold(reviews) |-> reviews[k]]]

\* session_counters never go back.  Mutant: they do.
CountersOfBackup(old) == old
MergedCounters(old) == [s \in Sessions |-> Max({old[s], counters[s]})]

\* restore_snapshot: the records of the backup under the controls of both.
GoneFor == forgotten \cup backup[4]

Restored == MergedControls(backup[1], backup[3], controls, GoneFor)

\* Whose word a restore takes back.  A ruling that names ids that were forgotten
\* goes with them.
NamesGone(k) ==
    LET corrections == controls.corrections
        reviews == controls.reviews
    IN \/ /\ word[k] = "corrected" /\ k \in DOMAIN corrections
          /\ (corrections[k].ids \cup {corrections[k].by}) \cap GoneFor # {}
       \/ /\ word[k] \in {"approved", "rejected"} /\ k \in DOMAIN reviews
          /\ reviews[k].ids \cap GoneFor # {}

\* A correction to what a forgotten id said in the backup is lost, although the
\* operator forgot none of its ids: the exception to OperatorHasLastWord.
Overruled(k) ==
    /\ word[k] = "corrected" /\ k \in DOMAIN controls.corrections
    /\ \E a \in ToSet(controls.assertions) :
          /\ a.rec.id = controls.corrections[k].by
          /\ Claim(a.rec) \in OldCopies(backup[1], GoneFor)

Restore ==
    /\ Command
    /\ backup # <<>>
    /\ Committed(backup[1], Restored)
    /\ counters' = MergedCounters(backup[2])
    /\ forgotten' = GoneFor
    /\ word' = [k \in Claims |->
                   IF NamesGone(k) THEN "none"
                   ELSE IF Overruled(k) THEN "overruled" ELSE word[k]]
    /\ UNCHANGED <<backup, shut>>

ControlsNext ==
    \/ \E s \in Sessions : \E units \in Extractions(s) : IngestAdmitted(s, units)
    \/ \E id \in Ids(records), text \in Texts : Correct(id, text)
    \/ \E id \in Ids(records), says \in {"approved", "rejected"} : Review(id, says)
    \/ \E id \in UNION Groups : Forget(id)
    \/ \E s \in Sessions : Exclude(s) \/ Include(s) \/ ForgetSession(s)
    \/ Export \/ Restore

ControlsSpec == ControlsInit /\ [][ControlsNext]_controlsVars
-----------------------------------------------------------------------------
AnyId == (Sessions \X (1 .. MaxNumber)) \cup ({Operator} \X (1 .. MaxOps))

Who == Sessions \cup {Operator}

\* Controls, and whole stores, that refer to some ids.
IsControls(c, ids) ==
    /\ DOMAIN c.reviews \subseteq Claims /\ DOMAIN c.corrections \subseteq Claims
    /\ c \in [reviews : [DOMAIN c.reviews ->
                            [says : {"approved", "rejected"}, ids : SUBSET ids]],
              corrections : [DOMAIN c.corrections -> [by : ids, ids : SUBSET ids]],
              assertions : Seq([corrects : ids, rec : RecordType(ids, Who)]),
              tombstones : SUBSET Claims,
              excluded : [Sessions -> {"no", "excluded", "forgotten"}]]

IsStore(recs, cnt, c, gone, ids) ==
    /\ recs \in Seq(RecordType(ids, Who))
    /\ cnt \in [Sessions -> 0 .. MaxNumber]
    /\ IsControls(c, ids)
    /\ gone \subseteq ids

\* Every variable has its shape; the controls are valid and no id is that of two
\* occurrences - else no later operation could commit -, and every reference
\* of the controls is to an id that was issued.
ControlsTypeOK ==
    /\ IsStore(records, counters, controls, forgotten, AnyId)
    /\ backup # <<>> => IsStore(backup[1], backup[2], backup[3], backup[4], AnyId)
    /\ \A o \in AllOf(records) :
          /\ o.id[1] = o.from
          /\ o.from # Operator => o.id[2] <= counters[o.from]
    /\ ValidControls(controls) /\ DistinctIds(records)
    /\ UNION Groups \subseteq issued /\ forgotten \subseteq issued

\* A claim that was forgotten is in no record and no control ("blocks replay of
\* related text in the same scope").
ForgottenIsGone ==
    \A k \in {x \in Claims : word[x] = "forgotten"} :
        /\ \A o \in AllOf(records) : Claim(o) # k
        /\ \A a \in ToSet(controls.assertions) : Claim(a.rec) # k
        /\ k \notin DOMAIN controls.corrections \cup DOMAIN controls.reviews

\* A claim that was corrected or rejected is so wherever it occurs; one that was
\* approved is not rejected.  Nothing is said of an overruled correction.
RulingsHold ==
    \A o \in AllOf(records) :
        /\ word[Claim(o)] = "corrected" => o.mark = "retired"
        /\ word[Claim(o)] = "rejected" => o.mark \in {"rejected", "retired"}
        /\ word[Claim(o)] = "approved" => o.mark \in {"approved", "retired"}

\* A source that is excluded or forgotten has left nothing.
SourcesStayOut ==
    \A s \in Sessions : shut[s] # "no" => \A o \in AllOf(records) : o.from # s

\* The operator has the last word, whatever is ingested again, folded,
\* promoted or restored from an older backup, but for two words that a restore
\* takes back: a ruling that names forgotten ids and, which the code promises to
\* keep, a correction it overrules (RestoreKeepsCorrections).
OperatorHasLastWord == ForgottenIsGone /\ RulingsHold /\ SourcesStayOut

\* Applying the controls again, as every load of the store does, changes
\* neither records nor controls.
LoadChangesNothing ==
    /\ AppliedRecords(records, controls) = records
    /\ AppliedControls(records, controls) = controls

\* What an ingestion adds to the ids of the store was never one ("Retired record
\* IDs are never reused"), also when a restore brought older records back.
NewIdsAreNew ==
    [][commands' = commands =>
          (Ids(records') \ Ids(records)) \cap issued = {}]_controlsVars

\* "Content-free record-family IDs suppress older copies made before a scope
\* change": what was forgotten by its id does not come back by that id.
ForgottenIdsStayGone == forgotten \cap Ids(records) = {}

\* The operator can forget any claim the store knows.
CanForget ==
    \A id \in UNION Groups :
        LET c == Buried(Family(id)) IN
        ValidControls(AppliedControls(AppliedRecords(records, c), c))

\* A backup can be restored.
CanRestore ==
    backup # <<>> => DistinctIds(AppliedRecords(backup[1], Restored))

\* "Restores ... retain newer local privacy controls and corrections": what is
\* corrected stays so, unless it is suppressed, in any restore that commits.
RestoreKeepsCorrections ==
    LET applied == AppliedRecords(backup[1], Restored)
    IN (backup # <<>> /\ Acceptable(applied, AppliedControls(applied, Restored)))
       => DOMAIN controls.corrections
             \subseteq DOMAIN Restored.corrections \cup Restored.tombstones

\* "A correction is a new operator assertion": the last one of a chain is not
\* itself retired.
CorrectionStands ==
    \A a \in ToSet(controls.assertions) :
        (\E k \in DOMAIN controls.corrections :
            controls.corrections[k].by = a.rec.id)
        /\ (\A b \in ToSet(controls.assertions) : b.corrects # a.rec.id)
        => a.rec.mark # "retired"
=============================================================================
