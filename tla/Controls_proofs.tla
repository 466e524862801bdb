--------------------------- MODULE Controls_proofs --------------------------
(***************************************************************************)
(* What is proved of the operator's controls (Controls), for any sessions, *)
(* texts, contexts and units:                                              *)
(*                                                                         *)
(*   ControlsInvariant    the inductive invariant, ControlsInv             *)
(*   ControlsTypeCorrect  the state has its shape, the controls are valid  *)
(*                        and refer to ids that were issued                *)
(*   LastWordStands       what the operator said last of a claim or of a   *)
(*                        session holds of every record                    *)
(*   LoadingIsIdempotent  applied controls have nothing left to do         *)
(*   AddedIdsAreNew       an ingestion never gives out an id again         *)
(*                                                                         *)
(* ControlsInv has three parts.  IdsInv: ids were given by the counters,   *)
(* and an id of the operator names one claim, in the store and the backup  *)
(* - else an assertion could be missing whose id is that of a record.      *)
(* WordsInv: the operator's words are in the controls.  AppliedInv: the    *)
(* controls are applied to the records.  All operations but Export commit, *)
(* and OperationKeeps shows once that a commit keeps the invariant; what   *)
(* each operation does to records and controls before is in a lemma of its *)
(* own, and what ingestion does is taken from SessionRecords_proofs.       *)
(***************************************************************************)
EXTENDS Controls, SessionRecords_proofs

-----------------------------------------------------------------------------
\* A sequence at all of its positions is the sequence.
LEMMA PickedAll ==
  ASSUME NEW D, NEW seq \in Seq(D)
  PROVE  Picked(seq, DOMAIN seq) = seq
<1> DEFINE n == Len(seq)
           S == 1 .. n
           upto(p) == {q \in S : q <= p}
<1>1. n \in Nat /\ DOMAIN seq = S /\ seq = [k \in S |-> seq[k]]
  OBVIOUS
<1>2. IsFiniteSet(S) /\ Cardinality(S) = n
  <2> HIDE DEF n
  <2>1. 1 \in Int /\ n \in Int
    BY <1>1
  <2>2. IsFiniteSet(1 .. n) /\ Cardinality(1 .. n) = IF 1 > n THEN 0 ELSE n - 1 + 1
    BY ONLY <2>1, FS_Interval
  <2> QED
    BY <1>1, <2>2
<1>3. \A p \in S : Cardinality(upto(p)) = p
  <2> HIDE DEF n
  <2> TAKE p \in S
  <2>1. upto(p) = 1 .. p /\ 1 \in Int /\ p \in Int /\ ~(1 > p)
    BY <1>1
  <2>2. Cardinality(1 .. p) = IF 1 > p THEN 0 ELSE p - 1 + 1
    BY ONLY <2>1, FS_Interval
  <2>3. Cardinality(1 .. p) = p
    BY <2>1, <2>2
  <2> HIDE DEF upto
  <2> QED
    BY <2>1, <2>3
<1> HIDE DEF upto, n
<1>4. InOrder(S) = [k \in S |-> CHOOSE p \in S : Cardinality(upto(p)) = k]
  BY <1>1, <1>2 DEF InOrder, upto
<1>5. \A k \in S : InOrder(S)[k] = k
  BY <1>3, <1>4
<1>6. Picked(seq, S) = [k \in S |-> seq[k]]
  BY <1>4, <1>5 DEF Picked
<1> QED
  BY <1>1, <1>6

\* Occurrences, as a record is taken apart into.
OccurrenceType(I, F) == [id : I, from : F, text : Texts, ctx : Contexts, mark : Marks]

\* What is taken apart is what the record says, its own wording first.
LEMMA UnfoldedFacts ==
  ASSUME NEW I, NEW F, NEW rec \in RecordType(I, F)
  PROVE  /\ Unfolded(rec) \in Seq(OccurrenceType(I, F))
         /\ Len(Unfolded(rec)) = 1 + Len(rec.dups) /\ Len(rec.dups) \in Nat
         /\ Unfolded(rec) # <<>>
         /\ Unfolded(rec)[1] = Occurrence(rec, rec.text)
         /\ \A i \in 1 .. Len(rec.dups) :
               Unfolded(rec)[i + 1] = Occurrence(rec.dups[i], Wording(rec, rec.dups[i]))
         /\ SaidBy(rec) = {Unfolded(rec)[i] : i \in DOMAIN Unfolded(rec)}
<1> DEFINE n == Len(rec.dups)
           first == Occurrence(rec, rec.text)
           Of(d) == Occurrence(d, Wording(rec, d))
           rest == [i \in DOMAIN rec.dups |-> Of(rec.dups[i])]
           Type == OccurrenceType(I, F)
<1>1. /\ rec.id \in I /\ rec.from \in F /\ rec.text \in Texts /\ rec.ctx \in Contexts
      /\ rec.mark \in Marks /\ rec.dups \in Seq(DupType(I, F))
      /\ n \in Nat /\ DOMAIN rec.dups = 1 .. n
  BY DEF RecordType
<1>2. \A i \in 1 .. n : /\ rec.dups[i] \in DupType(I, F)
                        /\ Wording(rec, rec.dups[i]) \in Texts
  <2> TAKE i \in 1 .. n
  <2>1. rec.dups[i] \in DupType(I, F)
    BY <1>1
  <2> QED
    BY <1>1, <2>1 DEF DupType, Wording
<1>3. first \in Type /\ \A i \in 1 .. n : Of(rec.dups[i]) \in Type
  BY <1>1, <1>2 DEF DupType, Occurrence, OccurrenceType
<1>4. Unfolded(rec) = <<first>> \o rest
  BY DEF Unfolded, Occurrence
<1>5. rest = [i \in 1 .. n |-> Of(rec.dups[i])]
  BY <1>1
<1>6. DupsSay(rec) = {Of(rec.dups[i]) : i \in 1 .. n}
  BY <1>1 DEF DupsSay
<1> HIDE DEF n, first, rest, Type, Of
<1>7. <<first>> \in Seq(Type) /\ Len(<<first>>) = 1 /\ <<first>>[1] = first
  BY <1>3
<1>8. rest \in Seq(Type) /\ Len(rest) = n /\ DOMAIN rest = 1 .. n
      /\ \A i \in 1 .. n : rest[i] = Of(rec.dups[i])
  BY <1>1, <1>3, <1>5, IsASeq
<1> DEFINE occs == <<first>> \o rest
<1>9. /\ occs \in Seq(Type) /\ Len(occs) = 1 + n
      /\ \A i \in 1 .. 1 + n : occs[i] = IF i <= 1 THEN <<first>>[i] ELSE rest[i - 1]
  <2>1. /\ occs \in Seq(Type) /\ Len(occs) = Len(<<first>>) + Len(rest)
        /\ \A i \in 1 .. Len(<<first>>) + Len(rest) :
              occs[i] = IF i <= Len(<<first>>) THEN <<first>>[i] ELSE rest[i - Len(<<first>>)]
    BY <1>7, <1>8, ConcatProperties
  <2> HIDE DEF occs
  <2> QED
    BY <1>7, <1>8, <2>1
<1> HIDE DEF occs
<1>10. occs[1] = first /\ occs # <<>> /\ DOMAIN occs = 1 .. 1 + n
  BY <1>1, <1>7, <1>9
<1>11. \A i \in 1 .. n : i + 1 \in 1 .. 1 + n /\ occs[i + 1] = Of(rec.dups[i])
  <2> TAKE i \in 1 .. n
  <2>1. i + 1 \in 1 .. 1 + n /\ ~(i + 1 <= 1) /\ (i + 1) - 1 = i
    BY <1>1
  <2>2. occs[i + 1] = rest[(i + 1) - 1]
    BY <1>9, <2>1
  <2> QED
    BY <1>8, <2>1, <2>2
<1>12. \A i \in 1 .. 1 + n : i = 1 \/ (i - 1 \in 1 .. n /\ occs[i] = Of(rec.dups[i - 1]))
  <2> TAKE i \in 1 .. 1 + n
  <2>1. i = 1 \/ (i - 1 \in 1 .. n /\ (i - 1) + 1 = i)
    BY <1>1
  <2> QED
    BY <1>11, <2>1
<1>13. SaidBy(rec) = {occs[i] : i \in DOMAIN occs}
  <2>1. \A o \in SaidBy(rec) : o = first \/ \E i \in 1 .. n : o = Of(rec.dups[i])
    BY <1>6 DEF SaidBy, first
  <2>2. ASSUME NEW o \in SaidBy(rec)
        PROVE  \E i \in DOMAIN occs : o = occs[i]
    <3>1. CASE o = first
      <4>1. 1 \in DOMAIN occs
        BY <1>1, <1>10
      <4> QED
        BY <1>10, <3>1, <4>1
    <3>2. CASE \E i \in 1 .. n : o = Of(rec.dups[i])
      BY <1>10, <1>11, <3>2
    <3> QED
      BY <2>1, <3>1, <3>2
  <2>3. ASSUME NEW i \in DOMAIN occs
        PROVE  occs[i] \in SaidBy(rec)
    <3>1. occs[i] = first \/ occs[i] \in DupsSay(rec)
      BY <1>6, <1>10, <1>12
    <3> QED
      BY <3>1 DEF SaidBy, first
  <2> QED
    BY <2>2, <2>3
<1> QED
  BY <1>1, <1>4, <1>9, <1>10, <1>11, <1>13 DEF occs, first, n, Type, Of

\* Packing occurrences makes a record of them, which is taken apart into them.
LEMMA PackedFacts ==
  ASSUME NEW I, NEW F, NEW occs \in Seq(OccurrenceType(I, F)), occs # <<>>,
         NEW r, r = Repacked(occs)
  PROVE  /\ r \in RecordType(I, F) /\ Unfolded(r) = occs
         /\ r.id = occs[1].id /\ r.from = occs[1].from
         /\ r.text = occs[1].text /\ r.ctx = occs[1].ctx
<1> DEFINE Type == OccurrenceType(I, F)
           first == occs[1]
           n == Len(occs) - 1
           para(i) == IF occs[i + 1].text = first.text THEN Same ELSE occs[i + 1].text
           dup(i) == [id |-> occs[i + 1].id, from |-> occs[i + 1].from,
                      ctx |-> occs[i + 1].ctx, mark |-> occs[i + 1].mark, para |-> para(i)]
<1>1. /\ n \in Nat /\ Len(occs) = 1 + n /\ DOMAIN occs = 1 .. 1 + n
      /\ first \in Type /\ \A i \in 1 .. n : i + 1 \in 1 .. 1 + n /\ occs[i + 1] \in Type
  <2>1. Len(occs) \in Nat /\ Len(occs) # 0 /\ DOMAIN occs = 1 .. Len(occs)
    OBVIOUS
  <2>2. n \in Nat /\ Len(occs) = 1 + n
    BY <2>1
  <2>3. 1 \in DOMAIN occs /\ \A i \in 1 .. n : i + 1 \in 1 .. 1 + n
    BY <2>1, <2>2
  <2> HIDE DEF n
  <2> QED
    BY <2>1, <2>2, <2>3
<1>2. Head(occs) = first
  BY <1>1
<1>3. Tail(occs) = [i \in 1 .. n |-> occs[i + 1]]
  <2>1. /\ Tail(occs) \in Seq(Type) /\ Len(Tail(occs)) = Len(occs) - 1
        /\ \A i \in 1 .. Len(Tail(occs)) : Tail(occs)[i] = occs[i + 1]
    BY HeadTailProperties
  <2>2. \A t \in Seq(Type) : DOMAIN t = 1 .. Len(t) /\ t = [i \in 1 .. Len(t) |-> t[i]]
    OBVIOUS
  <2>3. DOMAIN Tail(occs) = 1 .. n /\ Tail(occs) = [i \in 1 .. n |-> Tail(occs)[i]]
    BY <2>1, <2>2
  <2>4. \A i \in 1 .. n : Tail(occs)[i] = occs[i + 1]
    BY <2>1
  <2>5. [i \in 1 .. n |-> Tail(occs)[i]] = [i \in 1 .. n |-> occs[i + 1]]
    BY <2>4
  <2> QED
    BY <2>3, <2>5
<1>4. r = [id |-> first.id, from |-> first.from, text |-> first.text, ctx |-> first.ctx,
           mark |-> first.mark, dups |-> [i \in 1 .. n |-> dup(i)]]
  <2> HIDE DEF n, first
  <2> QED
    BY <1>2, <1>3 DEF Repacked
<1> HIDE DEF n, first, dup
<1>5. /\ r.id = first.id /\ r.from = first.from /\ r.text = first.text /\ r.ctx = first.ctx
      /\ r.mark = first.mark /\ r.dups = [i \in 1 .. n |-> dup(i)]
  BY <1>4
<1>6. /\ first.id \in I /\ first.from \in F /\ first.text \in Texts
      /\ first.ctx \in Contexts /\ first.mark \in Marks
      /\ first = [id |-> first.id, from |-> first.from, text |-> first.text,
                  ctx |-> first.ctx, mark |-> first.mark]
  BY <1>1 DEF OccurrenceType
<1>7. ASSUME NEW i \in 1 .. n
      PROVE  /\ r.dups[i] \in DupType(I, F)
             /\ Occurrence(r.dups[i], Wording(r, r.dups[i])) = occs[i + 1]
  <2> DEFINE o == occs[i + 1]
  <2>1. o \in Type
    BY <1>1
  <2>2. r.dups[i] = [id |-> o.id, from |-> o.from, ctx |-> o.ctx, mark |-> o.mark,
                     para |-> IF o.text = first.text THEN Same ELSE o.text]
    BY <1>5 DEF dup
  <2> HIDE DEF o
  <2>3. /\ o.id \in I /\ o.from \in F /\ o.text \in Texts /\ o.ctx \in Contexts
        /\ o.mark \in Marks
        /\ o = [id |-> o.id, from |-> o.from, text |-> o.text, ctx |-> o.ctx, mark |-> o.mark]
    BY <2>1 DEF OccurrenceType
  <2>4. r.dups[i] \in DupType(I, F)
    BY <2>2, <2>3 DEF DupType
  <2>5. Wording(r, r.dups[i]) = o.text
    BY <1>5, <2>2, <2>3, RecordConstants DEF Wording
  <2>6. Occurrence(r.dups[i], o.text) = o
    BY <2>2, <2>3 DEF Occurrence
  <2> QED
    BY <2>4, <2>5, <2>6 DEF o
<1>8. r.dups \in Seq(DupType(I, F)) /\ Len(r.dups) = n
  <2>1. r.dups = [i \in 1 .. n |-> r.dups[i]] /\ n \in Nat
    BY <1>1, <1>5
  <2>2. \A i \in 1 .. n : r.dups[i] \in DupType(I, F)
    BY <1>7
  <2>3. r.dups \in Seq(DupType(I, F))
    BY ONLY <2>1, <2>2, IsASeq
  <2> QED
    BY <2>1, <2>3
<1>9. r \in RecordType(I, F)
  BY <1>4, <1>5, <1>6, <1>8 DEF RecordType
<1>10. Unfolded(r) = occs
  <2>1. /\ Unfolded(r) \in Seq(Type) /\ Len(Unfolded(r)) = 1 + n
        /\ Unfolded(r)[1] = Occurrence(r, r.text)
        /\ \A i \in 1 .. n :
              Unfolded(r)[i + 1] = Occurrence(r.dups[i], Wording(r, r.dups[i]))
    BY <1>8, <1>9, UnfoldedFacts
  <2>2. Unfolded(r)[1] = occs[1]
    <3>1. Occurrence(r, r.text) = first
      BY <1>5, <1>6 DEF Occurrence
    <3> QED
      BY <2>1, <3>1 DEF first
  <2>3. \A i \in 1 .. 1 + n : Unfolded(r)[i] = occs[i]
    <3> TAKE i \in 1 .. 1 + n
    <3>1. CASE i = 1
      BY <2>2, <3>1
    <3>2. CASE i # 1
      <4>1. i - 1 \in 1 .. n /\ (i - 1) + 1 = i
        BY <1>1, <3>2
      <4>2. Unfolded(r)[(i - 1) + 1] = occs[(i - 1) + 1]
        BY <1>7, <2>1, <4>1
      <4> QED
        BY <4>1, <4>2
    <3> QED
      BY <3>1, <3>2
  <2>4. Len(occs) = 1 + n /\ occs \in Seq(Type)
    BY <1>1
  <2> QED
    BY <2>1, <2>3, <2>4, SeqEqual
<1> QED
  BY <1>5, <1>9, <1>10 DEF first

\* All that some records say.
LEMMA AllOfIsSaid ==
  ASSUME NEW I, NEW F, NEW recs \in Seq(RecordType(I, F))
  PROVE  AllOf(recs) = SaidIn(recs)
<1>1. \A i \in DOMAIN recs : ToSet(Unfolded(recs[i])) = SaidBy(recs[i])
  <2> TAKE i \in DOMAIN recs
  <2>1. recs[i] \in RecordType(I, F)
    OBVIOUS
  <2>2. SaidBy(recs[i]) = {Unfolded(recs[i])[j] : j \in DOMAIN Unfolded(recs[i])}
    BY <2>1, UnfoldedFacts
  <2> QED
    BY <2>2 DEF ToSet
<1> QED
  BY <1>1 DEF AllOf, SaidIn

-----------------------------------------------------------------------------
\* What controls have to be for their rulings to be marks.
Rulings(c) == \A k \in DOMAIN c.reviews : c.reviews[k].says \in {"approved", "rejected"}

\* Controls that rule alike.
SameRulings(c, d) ==
    /\ c.tombstones = d.tombstones /\ c.excluded = d.excluded
    /\ DOMAIN c.corrections = DOMAIN d.corrections
    /\ DOMAIN c.reviews = DOMAIN d.reviews
    /\ \A k \in DOMAIN c.reviews : c.reviews[k].says = d.reviews[k].says

\* Controls with the same rulings rule alike.
LEMMA AlikeRulings ==
  ASSUME NEW c, NEW d, SameRulings(c, d), NEW o
  PROVE  Ruled(d, o) = Ruled(c, o) /\ (Admitted(d, o) <=> Admitted(c, o))
<1>1. Admitted(d, o) <=> Admitted(c, o)
  BY DEF SameRulings, Admitted, Excluded
<1>2. CASE Claim(o) \in DOMAIN c.reviews
  <2>1. Claim(o) \in DOMAIN d.reviews /\ d.reviews[Claim(o)].says = c.reviews[Claim(o)].says
    BY <1>2 DEF SameRulings
  <2> QED
    BY <1>1, <1>2, <2>1 DEF SameRulings, Ruled
<1>3. CASE Claim(o) \notin DOMAIN c.reviews
  BY <1>1, <1>3 DEF SameRulings, Ruled
<1> QED
  BY <1>2, <1>3

\* A ruling changes the mark only, and for good.
LEMMA RuledFacts ==
  ASSUME NEW I, NEW F, NEW o \in OccurrenceType(I, F), NEW c, Rulings(c)
  PROVE  /\ Ruled(c, o) \in OccurrenceType(I, F)
         /\ Ruled(c, o).id = o.id /\ Ruled(c, o).from = o.from
         /\ Ruled(c, o).text = o.text /\ Ruled(c, o).ctx = o.ctx
         /\ Claim(Ruled(c, o)) = Claim(o)
         /\ Ruled(c, Ruled(c, o)) = Ruled(c, o)
         /\ Admitted(c, Ruled(c, o)) <=> Admitted(c, o)
<1> DEFINE k == Claim(o)
           mark == IF o.mark = "retired" \/ k \in DOMAIN c.corrections THEN "retired"
                   ELSE IF k \in DOMAIN c.reviews THEN c.reviews[k].says ELSE o.mark
           r == Ruled(c, o)
<1>1. /\ o = [id |-> o.id, from |-> o.from, text |-> o.text, ctx |-> o.ctx, mark |-> o.mark]
      /\ o.id \in I /\ o.from \in F /\ o.text \in Texts /\ o.ctx \in Contexts /\ o.mark \in Marks
  BY DEF OccurrenceType
<1>2. r = [o EXCEPT !.mark = mark]
  BY DEF Ruled
<1>3. mark \in Marks
  BY <1>1 DEF Marks, Rulings
<1> HIDE DEF mark, r
<1>4. r = [id |-> o.id, from |-> o.from, text |-> o.text, ctx |-> o.ctx, mark |-> mark]
  BY <1>1, <1>2
<1>5. /\ r.id = o.id /\ r.from = o.from /\ r.text = o.text /\ r.ctx = o.ctx /\ r.mark = mark
      /\ r \in OccurrenceType(I, F)
  BY <1>1, <1>3, <1>4 DEF OccurrenceType
<1>6. Claim(r) = k
  BY <1>5 DEF Claim
<1> HIDE DEF k
<1>7. Ruled(c, r) = [r EXCEPT !.mark =
         IF mark = "retired" \/ k \in DOMAIN c.corrections THEN "retired"
         ELSE IF k \in DOMAIN c.reviews THEN c.reviews[k].says ELSE mark]
  BY <1>5, <1>6 DEF Ruled
<1>8. (IF mark = "retired" \/ k \in DOMAIN c.corrections THEN "retired"
       ELSE IF k \in DOMAIN c.reviews THEN c.reviews[k].says ELSE mark) = mark
  BY DEF mark
<1>9. Ruled(c, r) = r
  BY <1>4, <1>5, <1>7, <1>8
<1>10. Admitted(c, r) <=> Admitted(c, o)
  BY <1>5, <1>6 DEF Admitted, k
<1> QED
  BY <1>5, <1>6, <1>9, <1>10 DEF r, k

\* What the controls leave of a set of occurrences.
RuledOn(c, occs) == {Ruled(c, o) : o \in {x \in occs : Admitted(c, x)}}

\* Controls have nothing left to do.
SettledBy(c, occs) == \A o \in occs : Admitted(c, o) /\ Ruled(c, o) = o

\* What is left of a record is what its occurrences come to; it is the record as it
\* was when the controls have nothing to do.
LEMMA LeftFacts ==
  ASSUME NEW I, NEW F, NEW rec \in RecordType(I, F), NEW c, Rulings(c)
  PROVE  /\ Left(rec, c) \in Seq(OccurrenceType(I, F))
         /\ {Left(rec, c)[i] : i \in DOMAIN Left(rec, c)} = RuledOn(c, SaidBy(rec))
         /\ SettledBy(c, SaidBy(rec)) => Left(rec, c) = Unfolded(rec)
<1> DEFINE Type == OccurrenceType(I, F)
           said == Unfolded(rec)
           P == {i \in DOMAIN said : Admitted(c, said[i])}
           left == Picked(said, P)
<1>1. said \in Seq(Type) /\ SaidBy(rec) = {said[i] : i \in DOMAIN said} /\ P \subseteq DOMAIN said
  BY UnfoldedFacts
<1>2. Left(rec, c) = [j \in DOMAIN left |-> Ruled(c, left[j])]
  BY DEF Left
<1> HIDE DEF said, left
<1>3. /\ left \in Seq(Type)
      /\ \E g \in [DOMAIN left -> P] :
            /\ \A k \in DOMAIN left : left[k] = said[g[k]]
            /\ \A p \in P : \E k \in DOMAIN left : g[k] = p
  <2> HIDE DEF P
  <2>1. /\ Picked(said, P) \in Seq(Type)
        /\ \E g \in [DOMAIN Picked(said, P) -> P] :
            /\ \A k \in DOMAIN Picked(said, P) : Picked(said, P)[k] = said[g[k]]
            /\ \A p \in P : \E k \in DOMAIN Picked(said, P) : g[k] = p
    BY <1>1, PickedFacts
  <2> QED
    BY <2>1 DEF left
<1>4. PICK g \in [DOMAIN left -> P] :
            /\ \A k \in DOMAIN left : left[k] = said[g[k]]
            /\ \A p \in P : \E k \in DOMAIN left : g[k] = p
  BY <1>3
<1>5. /\ DOMAIN left = 1 .. Len(left) /\ Len(left) \in Nat
      /\ \A j \in 1 .. Len(left) : left[j] \in Type
  BY <1>3
<1>6. \A j \in 1 .. Len(left) : Ruled(c, left[j]) \in Type
  BY <1>5, RuledFacts
<1>7. /\ Left(rec, c) = [j \in 1 .. Len(left) |-> Ruled(c, left[j])]
      /\ DOMAIN Left(rec, c) = 1 .. Len(left)
  BY <1>2, <1>5
<1>8. Left(rec, c) \in Seq(Type)
  <2>1. Left(rec, c) = [j \in 1 .. Len(left) |-> Left(rec, c)[j]]
        /\ \A j \in 1 .. Len(left) : Left(rec, c)[j] \in Type
    BY <1>6, <1>7
  <2> QED
    BY ONLY <1>5, <2>1, IsASeq
<1>9. \A j \in 1 .. Len(left) : Left(rec, c)[j] \in RuledOn(c, SaidBy(rec))
  <2> TAKE j \in 1 .. Len(left)
  <2>1. g[j] \in P /\ left[j] = said[g[j]] /\ Left(rec, c)[j] = Ruled(c, left[j])
    BY <1>4, <1>5, <1>7
  <2>2. left[j] \in SaidBy(rec) /\ Admitted(c, left[j])
    BY <1>1, <2>1
  <2> QED
    BY <2>1, <2>2 DEF RuledOn
<1>10. ASSUME NEW o \in RuledOn(c, SaidBy(rec))
       PROVE  \E j \in DOMAIN Left(rec, c) : o = Left(rec, c)[j]
  <2>1. PICK x \in SaidBy(rec) : Admitted(c, x) /\ o = Ruled(c, x)
    BY DEF RuledOn
  <2>2. PICK i \in DOMAIN said : x = said[i]
    BY <1>1, <2>1
  <2>3. i \in P
    BY <2>1, <2>2
  <2>4. PICK j \in DOMAIN left : g[j] = i
    BY <1>4, <2>3
  <2>5. left[j] = x
    BY <1>4, <2>2, <2>4
  <2> QED
    BY <1>5, <1>7, <2>1, <2>4, <2>5
<1>11. ASSUME SettledBy(c, SaidBy(rec))
       PROVE  Left(rec, c) = said
  <2>1. \A i \in DOMAIN said : Admitted(c, said[i]) /\ Ruled(c, said[i]) = said[i]
    BY <1>1, <1>11 DEF SettledBy
  <2>2. P = DOMAIN said
    BY <2>1
  <2>3. left = said
    BY <1>1, <2>2, PickedAll DEF left
  <2>4. Left(rec, c) = [j \in DOMAIN said |-> said[j]]
    BY <1>2, <2>1, <2>3
  <2>5. [j \in DOMAIN said |-> said[j]] = said
    BY <1>1
  <2> QED
    BY <2>4, <2>5
<1> QED
  BY <1>7, <1>8, <1>9, <1>10, <1>11 DEF said

-----------------------------------------------------------------------------
\* What is picked is what is at the positions.
PickedAt(seq, S, p) ==
    /\ \A k \in DOMAIN p : \E i \in S : p[k] = seq[i]
    /\ \A i \in S : \E k \in DOMAIN p : p[k] = seq[i]

\* Picking keeps to the elements and leaves none out.
LEMMA PickedElements ==
  ASSUME NEW D, NEW seq \in Seq(D), NEW S, S \subseteq DOMAIN seq
  PROVE  Picked(seq, S) \in Seq(D) /\ PickedAt(seq, S, Picked(seq, S))
<1>1. /\ Picked(seq, S) \in Seq(D)
      /\ \E g \in [DOMAIN Picked(seq, S) -> S] :
            /\ \A k \in DOMAIN Picked(seq, S) : Picked(seq, S)[k] = seq[g[k]]
            /\ \A k, l \in DOMAIN Picked(seq, S) : g[k] = g[l] => k = l
            /\ \A p \in S : \E k \in DOMAIN Picked(seq, S) : g[k] = p
  BY PickedFacts
<1>2. PickedAt(seq, S, Picked(seq, S))
  BY <1>1 DEF PickedAt
<1> QED
  BY <1>1, <1>2

-----------------------------------------------------------------------------
\* A record that packing its occurrences makes.
Packed(rec) == rec = Repacked(Unfolded(rec))

\* What is sifted says what the controls leave of what was said.
LEMMA SiftedFacts ==
  ASSUME NEW I, NEW F, NEW all \in Seq(RecordType(I, F)), NEW c, Rulings(c),
         NEW sifted, sifted = Sifted(all, c)
  PROVE  /\ sifted \in Seq(RecordType(I, F))
         /\ SaidIn(sifted) = RuledOn(c, SaidIn(all))
         /\ \A i \in DOMAIN sifted : Packed(sifted[i])
<1> DEFINE Type == OccurrenceType(I, F)
           left == [i \in DOMAIN all |-> Left(all[i], c)]
           P == {i \in DOMAIN left : left[i] # <<>>}
           kept == Picked(left, P)
<1>1. DOMAIN all = 1 .. Len(all) /\ Len(all) \in Nat
  OBVIOUS
<1>2. ASSUME NEW i \in DOMAIN all
      PROVE  /\ left[i] \in Seq(Type)
             /\ {left[i][j] : j \in DOMAIN left[i]} = RuledOn(c, SaidBy(all[i]))
  <2>1. all[i] \in RecordType(I, F) /\ left[i] = Left(all[i], c)
    OBVIOUS
  <2> HIDE DEF left, Type
  <2> QED
    BY <2>1, LeftFacts DEF Type
<1>3. left \in Seq(Seq(Type)) /\ DOMAIN left = DOMAIN all /\ P \subseteq DOMAIN left
  <2>1. left = [i \in 1 .. Len(all) |-> left[i]] /\ DOMAIN left = DOMAIN all
    BY <1>1
  <2>2. \A i \in 1 .. Len(all) : left[i] \in Seq(Type)
    BY <1>1, <1>2
  <2> HIDE DEF left, Type
  <2>3. left \in Seq(Seq(Type))
    BY ONLY <1>1, <2>1, <2>2, IsASeq
  <2> QED
    BY <2>1, <2>3
<1>4. \A i \in P : i \in DOMAIN all /\ left[i] # <<>>
  BY <1>3
<1>5. \A i \in DOMAIN all : left[i] # <<>> => i \in P
  BY <1>3
<1> HIDE DEF left, P, Type
<1>6. kept \in Seq(Seq(Type)) /\ PickedAt(left, P, kept)
  <2> DEFINE D == Seq(Type)
  <2>1. left \in Seq(D) /\ P \subseteq DOMAIN left
    BY <1>3
  <2> HIDE DEF D
  <2>2. kept \in Seq(D) /\ PickedAt(left, P, kept)
    BY <2>1, PickedElements
  <2> QED
    BY <2>2 DEF D
<1>7. /\ \A k \in DOMAIN kept : \E i \in P : kept[k] = left[i]
      /\ \A i \in P : \E k \in DOMAIN kept : kept[k] = left[i]
  BY <1>6 DEF PickedAt
<1>8. sifted = [i \in DOMAIN kept |-> Repacked(kept[i])]
  BY DEF Sifted, left, kept, P
<1> HIDE DEF kept
<1>9. DOMAIN kept = 1 .. Len(kept) /\ Len(kept) \in Nat
      /\ DOMAIN sifted = 1 .. Len(kept)
  BY <1>6, <1>8
<1>10. ASSUME NEW k \in DOMAIN kept
       PROVE  /\ sifted[k] \in RecordType(I, F) /\ Packed(sifted[k])
              /\ SaidBy(sifted[k]) = {kept[k][j] : j \in DOMAIN kept[k]}
              /\ \E i \in DOMAIN all :
                    SaidBy(sifted[k]) = RuledOn(c, SaidBy(all[i]))
  <2>1. PICK i \in P : kept[k] = left[i]
    BY <1>7
  <2>2. sifted[k] = Repacked(kept[k])
    BY <1>8
  <2>3. i \in DOMAIN all /\ kept[k] # <<>> /\ kept[k] \in Seq(Type)
        /\ {kept[k][j] : j \in DOMAIN kept[k]} = RuledOn(c, SaidBy(all[i]))
    BY <1>2, <1>4, <2>1
  <2>4. sifted[k] \in RecordType(I, F) /\ Unfolded(sifted[k]) = kept[k]
    BY <2>2, <2>3, PackedFacts DEF Type
  <2>5. Packed(sifted[k])
    BY <2>2, <2>4 DEF Packed
  <2>6. SaidBy(sifted[k]) = {kept[k][j] : j \in DOMAIN kept[k]}
    BY <2>4, UnfoldedFacts
  <2> QED
    BY <2>3, <2>4, <2>5, <2>6
<1>11. sifted \in Seq(RecordType(I, F))
  <2>1. sifted = [k \in 1 .. Len(kept) |-> sifted[k]]
    BY <1>8, <1>9
  <2>2. \A k \in 1 .. Len(kept) : sifted[k] \in RecordType(I, F)
    BY <1>9, <1>10
  <2> QED
    BY ONLY <1>9, <2>1, <2>2, IsASeq
<1>12. ASSUME NEW o \in SaidIn(sifted)
       PROVE  o \in RuledOn(c, SaidIn(all))
  <2>1. PICK k \in DOMAIN kept : o \in SaidBy(sifted[k])
    BY <1>9 DEF SaidIn
  <2>2. PICK i \in DOMAIN all : o \in RuledOn(c, SaidBy(all[i]))
    BY <1>10, <2>1
  <2> QED
    BY <2>2 DEF RuledOn, SaidIn
<1>13. ASSUME NEW o \in RuledOn(c, SaidIn(all))
       PROVE  o \in SaidIn(sifted)
  <2>1. PICK i \in DOMAIN all : o \in RuledOn(c, SaidBy(all[i]))
    BY DEF RuledOn, SaidIn
  <2>2. left[i] \in Seq(Type) /\ \E j \in DOMAIN left[i] : o = left[i][j]
    BY <1>2, <2>1
  <2>3. left[i] # <<>>
    <3>1. CASE left[i] = <<>>
      BY <2>2, <3>1
    <3> QED
      BY <3>1
  <2>4. PICK k \in DOMAIN kept : kept[k] = left[i]
    BY <1>5, <1>7, <2>3
  <2>5. o \in SaidBy(sifted[k])
    BY <1>10, <2>2, <2>4
  <2> QED
    BY <1>9, <2>4, <2>5 DEF SaidIn
<1> QED
  BY <1>9, <1>10, <1>11, <1>12, <1>13

\* Sifting changes nothing that is settled and packed.
LEMMA SiftedSame ==
  ASSUME NEW I, NEW F, NEW recs \in Seq(RecordType(I, F)), NEW c, Rulings(c),
         SettledBy(c, SaidIn(recs)), \A i \in DOMAIN recs : Packed(recs[i])
  PROVE  Sifted(recs, c) = recs
<1> DEFINE Type == OccurrenceType(I, F)
           left == [i \in DOMAIN recs |-> Left(recs[i], c)]
           P == {i \in DOMAIN left : left[i] # <<>>}
           kept == Picked(left, P)
<1>1. DOMAIN recs = 1 .. Len(recs) /\ Len(recs) \in Nat
      /\ recs = [i \in DOMAIN recs |-> recs[i]]
  OBVIOUS
<1>2. \A i \in DOMAIN recs : /\ left[i] = Unfolded(recs[i]) /\ left[i] # <<>>
                             /\ left[i] \in Seq(Type)
  <2> TAKE i \in DOMAIN recs
  <2>1. recs[i] \in RecordType(I, F) /\ left[i] = Left(recs[i], c)
    OBVIOUS
  <2>2. SettledBy(c, SaidBy(recs[i]))
    BY DEF SettledBy, SaidIn
  <2> HIDE DEF left
  <2>3. left[i] = Unfolded(recs[i])
    BY <2>1, <2>2, LeftFacts
  <2> QED
    BY <2>1, <2>3, UnfoldedFacts
<1>3. P = DOMAIN left /\ DOMAIN left = DOMAIN recs
  BY <1>2
<1>4. left \in Seq(Seq(Type))
  <2>1. left = [i \in 1 .. Len(recs) |-> left[i]]
    BY <1>1
  <2>2. \A i \in 1 .. Len(recs) : left[i] \in Seq(Type)
    BY <1>1, <1>2
  <2> HIDE DEF left, Type
  <2> QED
    BY ONLY <1>1, <2>1, <2>2, IsASeq
<1>5. Sifted(recs, c) = [i \in DOMAIN kept |-> Repacked(kept[i])]
  BY DEF Sifted
<1> HIDE DEF left, P, Type
<1>6. kept = left
  <2> DEFINE D == Seq(Type)
  <2>1. left \in Seq(D)
    BY <1>4
  <2> HIDE DEF D
  <2> QED
    BY <1>3, <2>1, PickedAll
<1>7. \A i \in DOMAIN recs : Repacked(left[i]) = recs[i]
  BY <1>2 DEF Packed
<1>8. Sifted(recs, c) = [i \in DOMAIN recs |-> recs[i]]
  BY <1>3, <1>5, <1>6, <1>7
<1> QED
  BY <1>1, <1>8

-----------------------------------------------------------------------------
\* The parts of controls.
ReviewType(J) == [says : {"approved", "rejected"}, ids : SUBSET J]
CorrectionType(J) == [by : J, ids : SUBSET J]
AssertionType(J) == [corrects : J, rec : RecordType(J, Who)]

\* Controls are made of their five parts.
LEMMA ControlsFacts ==
  ASSUME NEW J, NEW c, IsControls(c, J)
  PROVE  /\ c = [reviews |-> c.reviews, corrections |-> c.corrections,
                 assertions |-> c.assertions, tombstones |-> c.tombstones,
                 excluded |-> c.excluded]
         /\ DOMAIN c.reviews \subseteq Claims /\ DOMAIN c.corrections \subseteq Claims
         /\ c.reviews \in [DOMAIN c.reviews -> ReviewType(J)]
         /\ c.corrections \in [DOMAIN c.corrections -> CorrectionType(J)]
         /\ c.assertions \in Seq(AssertionType(J))
         /\ c.tombstones \in SUBSET Claims
         /\ c.excluded \in [Sessions -> {"no", "excluded", "forgotten"}]
         /\ Rulings(c)
<1>1. /\ c = [reviews |-> c.reviews, corrections |-> c.corrections,
                 assertions |-> c.assertions, tombstones |-> c.tombstones,
                 excluded |-> c.excluded]
         /\ DOMAIN c.reviews \subseteq Claims /\ DOMAIN c.corrections \subseteq Claims
         /\ c.reviews \in [DOMAIN c.reviews -> ReviewType(J)]
         /\ c.corrections \in [DOMAIN c.corrections -> CorrectionType(J)]
         /\ c.assertions \in Seq(AssertionType(J))
         /\ c.tombstones \in SUBSET Claims
         /\ c.excluded \in [Sessions -> {"no", "excluded", "forgotten"}]
  BY DEF IsControls, ReviewType, CorrectionType, AssertionType
<1>2. Rulings(c)
  <2>1. \A k \in DOMAIN c.reviews : c.reviews[k] \in ReviewType(J)
    BY <1>1
  <2> QED
    BY <2>1 DEF Rulings, ReviewType
<1> QED
  BY <1>1, <1>2

\* Five parts make controls.
LEMMA ControlsMade ==
  ASSUME NEW J, NEW reviews, reviews \in [DOMAIN reviews -> ReviewType(J)],
         NEW corrections, corrections \in [DOMAIN corrections -> CorrectionType(J)],
         DOMAIN reviews \subseteq Claims, DOMAIN corrections \subseteq Claims,
         NEW assertions \in Seq(AssertionType(J)), NEW tombstones \in SUBSET Claims,
         NEW excluded \in [Sessions -> {"no", "excluded", "forgotten"}],
         NEW c, c = [reviews |-> reviews, corrections |-> corrections,
                     assertions |-> assertions, tombstones |-> tombstones,
                     excluded |-> excluded]
  PROVE  IsControls(c, J)
<1>1. /\ c.reviews = reviews /\ c.corrections = corrections /\ c.assertions = assertions
      /\ c.tombstones = tombstones /\ c.excluded = excluded
  OBVIOUS
<1> QED
  BY <1>1 DEF IsControls, ReviewType, CorrectionType, AssertionType

\* Standing assertions are the assertions that are not forgotten.
LEMMA StandingFacts ==
  ASSUME NEW J, NEW c, IsControls(c, J)
  PROVE  /\ Standing(c) \in Seq(AssertionType(J))
         /\ \A i \in DOMAIN Standing(c) :
               /\ \E j \in DOMAIN c.assertions : Standing(c)[i] = c.assertions[j]
               /\ Claim(Standing(c)[i].rec) \notin c.tombstones
         /\ \A j \in DOMAIN c.assertions :
               Claim(c.assertions[j].rec) \notin c.tombstones =>
                  \E i \in DOMAIN Standing(c) : Standing(c)[i] = c.assertions[j]
<1> DEFINE all == c.assertions
           P == {i \in DOMAIN all : Claim(all[i].rec) \notin c.tombstones}
           D == AssertionType(J)
<1>1. all \in Seq(D) /\ P \subseteq DOMAIN all
  BY ControlsFacts
<1>2. Standing(c) = Picked(all, P)
  BY DEF Standing
<1>3. \A i \in P : i \in DOMAIN all /\ Claim(all[i].rec) \notin c.tombstones
  OBVIOUS
<1>4. \A i \in DOMAIN all : Claim(all[i].rec) \notin c.tombstones => i \in P
  OBVIOUS
<1> HIDE DEF P, D
<1>5. Picked(all, P) \in Seq(D) /\ PickedAt(all, P, Picked(all, P))
  BY <1>1, PickedElements
<1>6. /\ \A k \in DOMAIN Standing(c) : \E i \in P : Standing(c)[k] = all[i]
      /\ \A i \in P : \E k \in DOMAIN Standing(c) : Standing(c)[k] = all[i]
  BY <1>2, <1>5 DEF PickedAt
<1>7. ASSUME NEW i \in DOMAIN Standing(c)
      PROVE  /\ \E j \in DOMAIN all : Standing(c)[i] = all[j]
             /\ Claim(Standing(c)[i].rec) \notin c.tombstones
  <2>1. PICK j \in P : Standing(c)[i] = all[j]
    BY <1>6
  <2> QED
    BY <1>3, <2>1
<1> QED
  BY <1>2, <1>4, <1>5, <1>6, <1>7 DEF D

\* What the records lack is what standing assertions say they should have.
LEMMA MissingFacts ==
  ASSUME NEW J, NEW c, IsControls(c, J), NEW recs, NEW missing, missing = Missing(recs, c)
  PROVE  /\ missing \in Seq(RecordType(J, Who))
         /\ \A i \in DOMAIN missing : \E j \in DOMAIN Standing(c) :
               missing[i] = Standing(c)[j].rec /\ missing[i].id \notin Ids(recs)
         /\ \A j \in DOMAIN Standing(c) : Standing(c)[j].rec.id \notin Ids(recs) =>
               \E i \in DOMAIN missing : missing[i] = Standing(c)[j].rec
<1> DEFINE all == Standing(c)
           P == {i \in DOMAIN all : all[i].rec.id \notin Ids(recs)}
           D == AssertionType(J)
           picked == Picked(all, P)
<1>1. all \in Seq(D) /\ P \subseteq DOMAIN all
  BY StandingFacts
<1>2. missing = [i \in DOMAIN picked |-> picked[i].rec]
  BY DEF Missing
<1>3. \A i \in P : i \in DOMAIN all /\ all[i].rec.id \notin Ids(recs)
  OBVIOUS
<1>4. \A i \in DOMAIN all : all[i].rec.id \notin Ids(recs) => i \in P
  OBVIOUS
<1> HIDE DEF P, D, all
<1>5. picked \in Seq(D) /\ PickedAt(all, P, picked)
  BY <1>1, PickedElements
<1> HIDE DEF picked
<1>6. /\ \A k \in DOMAIN picked : \E i \in P : picked[k] = all[i]
      /\ \A i \in P : \E k \in DOMAIN picked : picked[k] = all[i]
  BY <1>5 DEF PickedAt
<1>7. /\ DOMAIN picked = 1 .. Len(picked) /\ Len(picked) \in Nat
      /\ DOMAIN missing = 1 .. Len(picked)
      /\ missing = [i \in 1 .. Len(picked) |-> missing[i]]
  BY <1>2, <1>5
<1>8. \A i \in 1 .. Len(picked) : missing[i] \in RecordType(J, Who)
  <2> TAKE i \in 1 .. Len(picked)
  <2>1. picked[i] \in D /\ missing[i] = picked[i].rec
    BY <1>2, <1>5, <1>7
  <2> QED
    BY <2>1 DEF D, AssertionType
<1>9. missing \in Seq(RecordType(J, Who))
  BY ONLY <1>7, <1>8, IsASeq
<1>10. ASSUME NEW i \in DOMAIN missing
       PROVE  \E j \in DOMAIN all : missing[i] = all[j].rec /\ missing[i].id \notin Ids(recs)
  <2>1. PICK j \in P : picked[i] = all[j]
    BY <1>6, <1>7
  <2>2. missing[i] = all[j].rec
    BY <1>2, <1>7, <2>1
  <2> QED
    BY <1>3, <2>1, <2>2
<1>11. ASSUME NEW j \in DOMAIN all, all[j].rec.id \notin Ids(recs)
       PROVE  \E i \in DOMAIN missing : missing[i] = all[j].rec
  <2>1. PICK i \in DOMAIN picked : picked[i] = all[j]
    BY <1>4, <1>6, <1>11
  <2> QED
    BY <1>2, <1>7, <2>1
<1> QED
  BY <1>9, <1>10, <1>11 DEF all

\* Two sequences of records say together what each says.
LEMMA JoinedSay ==
  ASSUME NEW D, NEW f \in Seq(D), NEW g \in Seq(D)
  PROVE  f \o g \in Seq(D) /\ SaidIn(f \o g) = SaidIn(f) \cup SaidIn(g)
<1> DEFINE m == Len(f)
           n == Len(g)
           h == f \o g
<1>1. /\ m \in Nat /\ n \in Nat /\ DOMAIN f = 1 .. m /\ DOMAIN g = 1 .. n
  OBVIOUS
<1>2. /\ h \in Seq(D) /\ Len(h) = m + n
      /\ \A i \in 1 .. m + n : h[i] = IF i <= m THEN f[i] ELSE g[i - m]
  BY ConcatProperties
<1> HIDE DEF h, m, n
<1>3. DOMAIN h = 1 .. m + n
  BY <1>2
<1>4. \A i \in 1 .. m : i \in DOMAIN h /\ h[i] = f[i]
  BY <1>1, <1>2, <1>3
<1>5. \A i \in 1 .. n : m + i \in DOMAIN h /\ h[m + i] = g[i]
  <2> TAKE i \in 1 .. n
  <2>1. m + i \in 1 .. m + n /\ ~(m + i <= m) /\ (m + i) - m = i
    BY <1>1
  <2>2. h[m + i] = g[(m + i) - m]
    BY <1>2, <2>1
  <2> QED
    BY <1>3, <2>1, <2>2
<1>6. \A i \in DOMAIN h : (i \in 1 .. m /\ h[i] = f[i]) \/ (i - m \in 1 .. n /\ h[i] = g[i - m])
  <2> TAKE i \in DOMAIN h
  <2>1. i \in 1 .. m + n
    BY <1>3
  <2>2. CASE i <= m
    BY <1>1, <1>2, <2>1, <2>2
  <2>3. CASE ~(i <= m)
    <3>1. i - m \in 1 .. n
      BY <1>1, <2>1, <2>3
    <3> QED
      BY <1>2, <2>1, <2>3, <3>1
  <2> QED
    BY <2>2, <2>3
<1>7. \A o \in SaidIn(h) : o \in SaidIn(f) \cup SaidIn(g)
  <2> TAKE o \in SaidIn(h)
  <2>1. PICK i \in DOMAIN h : o \in SaidBy(h[i])
    BY DEF SaidIn
  <2>2. CASE i \in 1 .. m /\ h[i] = f[i]
    BY <1>1, <2>1, <2>2 DEF SaidIn
  <2>3. CASE i - m \in 1 .. n /\ h[i] = g[i - m]
    BY <1>1, <2>1, <2>3 DEF SaidIn
  <2> QED
    BY <1>6, <2>2, <2>3
<1>8. \A o \in SaidIn(f) : o \in SaidIn(h)
  BY <1>1, <1>4 DEF SaidIn
<1>9. \A o \in SaidIn(g) : o \in SaidIn(h)
  <2> TAKE o \in SaidIn(g)
  <2>1. PICK i \in 1 .. n : o \in SaidBy(g[i])
    BY <1>1 DEF SaidIn
  <2>2. m + i \in DOMAIN h /\ o \in SaidBy(h[m + i])
    BY <1>5, <2>1
  <2> QED
    BY <2>2 DEF SaidIn
<1> QED
  BY <1>2, <1>7, <1>8, <1>9 DEF h

-----------------------------------------------------------------------------
\* Applying the controls to records.
LEMMA AppliedRecordsFacts ==
  ASSUME NEW J, NEW recs \in Seq(RecordType(J, Who)), NEW c, IsControls(c, J),
         NEW applied, applied = AppliedRecords(recs, c)
  PROVE  /\ applied \in Seq(RecordType(J, Who))
         /\ SaidIn(applied) = RuledOn(c, SaidIn(recs) \cup SaidIn(Missing(recs, c)))
         /\ SettledBy(c, SaidIn(applied))
         /\ \A i \in DOMAIN applied : Packed(applied[i])
<1> DEFINE missing == Missing(recs, c)
           all == recs \o missing
<1>1. Rulings(c) /\ missing \in Seq(RecordType(J, Who))
  BY ControlsFacts, MissingFacts
<1>2. all \in Seq(RecordType(J, Who)) /\ SaidIn(all) = SaidIn(recs) \cup SaidIn(missing)
  <2> HIDE DEF missing
  <2> DEFINE D == RecordType(J, Who)
  <2>1. recs \in Seq(D) /\ missing \in Seq(D)
    BY <1>1
  <2> HIDE DEF D
  <2>2. all \in Seq(D) /\ SaidIn(all) = SaidIn(recs) \cup SaidIn(missing)
    BY <2>1, JoinedSay
  <2> QED
    BY <2>2 DEF D
<1>3. applied = Sifted(all, c)
  BY DEF AppliedRecords
<1> HIDE DEF all
<1>4. /\ applied \in Seq(RecordType(J, Who))
      /\ SaidIn(applied) = RuledOn(c, SaidIn(all))
      /\ \A i \in DOMAIN applied : Packed(applied[i])
  BY <1>1, <1>2, <1>3, SiftedFacts
<1>5. \A o \in SaidIn(all) : o \in OccurrenceType(J, Who)
  <2> TAKE o \in SaidIn(all)
  <2>1. PICK i \in DOMAIN all : o \in SaidBy(all[i])
    BY DEF SaidIn
  <2>2. all[i] \in RecordType(J, Who)
    BY <1>2
  <2>3. /\ Unfolded(all[i]) \in Seq(OccurrenceType(J, Who))
        /\ \E j \in DOMAIN Unfolded(all[i]) : o = Unfolded(all[i])[j]
    BY <2>1, <2>2, UnfoldedFacts
  <2> QED
    BY <2>3
<1>6. ASSUME NEW o \in SaidIn(applied)
      PROVE  Admitted(c, o) /\ Ruled(c, o) = o
  <2>1. PICK x \in SaidIn(all) : Admitted(c, x) /\ o = Ruled(c, x)
    BY <1>4 DEF RuledOn
  <2>2. x \in OccurrenceType(J, Who)
    BY <1>5
  <2> QED
    BY <1>1, <2>1, <2>2, RuledFacts
<1>7. SettledBy(c, SaidIn(applied))
  BY <1>6 DEF SettledBy
<1> QED
  BY <1>2, <1>4, <1>7

\* What is learned is ids.
LEMMA LearnedReviews ==
  ASSUME NEW J, NEW old, old \in [DOMAIN old -> ReviewType(J)], NEW occs,
         {o.id : o \in occs} \subseteq J, NEW new, new = Learned(old, occs)
  PROVE  /\ new \in [DOMAIN old -> ReviewType(J)] /\ DOMAIN new = DOMAIN old
         /\ \A k \in DOMAIN old :
               /\ new[k].says = old[k].says
               /\ new[k].ids = old[k].ids \cup {o.id : o \in {x \in occs : Claim(x) = k}}
<1> DEFINE more(k) == {o.id : o \in {x \in occs : Claim(x) = k}}
<1>1. \A k \in DOMAIN old : more(k) \subseteq J
  OBVIOUS
<1>2. new = [k \in DOMAIN old |-> [old[k] EXCEPT !.ids = old[k].ids \cup more(k)]]
  BY DEF Learned
<1> HIDE DEF more
<1>3. ASSUME NEW k \in DOMAIN old
      PROVE  /\ new[k] \in ReviewType(J) /\ new[k].says = old[k].says
             /\ new[k].ids = old[k].ids \cup more(k)
  <2>1. old[k] \in ReviewType(J)
    OBVIOUS
  <2>2. new[k] = [old[k] EXCEPT !.ids = old[k].ids \cup more(k)]
    BY <1>2
  <2>3. old[k] = [says |-> old[k].says, ids |-> old[k].ids]
        /\ old[k].says \in {"approved", "rejected"} /\ old[k].ids \subseteq J
    BY <2>1 DEF ReviewType
  <2>4. new[k] = [says |-> old[k].says, ids |-> old[k].ids \cup more(k)]
    BY <2>2, <2>3
  <2> QED
    BY <1>1, <2>3, <2>4 DEF ReviewType
<1>4. DOMAIN new = DOMAIN old
  BY <1>2
<1>5. new \in [DOMAIN old -> ReviewType(J)]
  BY <1>2, <1>3
<1> QED
  BY <1>3, <1>4, <1>5 DEF more

\* So with corrections.
LEMMA LearnedCorrections ==
  ASSUME NEW J, NEW old, old \in [DOMAIN old -> CorrectionType(J)], NEW occs,
         {o.id : o \in occs} \subseteq J, NEW new, new = Learned(old, occs)
  PROVE  /\ new \in [DOMAIN old -> CorrectionType(J)] /\ DOMAIN new = DOMAIN old
         /\ \A k \in DOMAIN old :
               /\ new[k].by = old[k].by
               /\ new[k].ids = old[k].ids \cup {o.id : o \in {x \in occs : Claim(x) = k}}
<1> DEFINE more(k) == {o.id : o \in {x \in occs : Claim(x) = k}}
<1>1. \A k \in DOMAIN old : more(k) \subseteq J
  OBVIOUS
<1>2. new = [k \in DOMAIN old |-> [old[k] EXCEPT !.ids = old[k].ids \cup more(k)]]
  BY DEF Learned
<1> HIDE DEF more
<1>3. ASSUME NEW k \in DOMAIN old
      PROVE  /\ new[k] \in CorrectionType(J) /\ new[k].by = old[k].by
             /\ new[k].ids = old[k].ids \cup more(k)
  <2>1. old[k] \in CorrectionType(J)
    OBVIOUS
  <2>2. new[k] = [old[k] EXCEPT !.ids = old[k].ids \cup more(k)]
    BY <1>2
  <2>3. old[k] = [by |-> old[k].by, ids |-> old[k].ids]
        /\ old[k].by \in J /\ old[k].ids \subseteq J
    BY <2>1 DEF CorrectionType
  <2>4. new[k] = [by |-> old[k].by, ids |-> old[k].ids \cup more(k)]
    BY <2>2, <2>3
  <2> QED
    BY <1>1, <2>3, <2>4 DEF CorrectionType
<1>4. DOMAIN new = DOMAIN old
  BY <1>2
<1>5. new \in [DOMAIN old -> CorrectionType(J)]
  BY <1>2, <1>3
<1> QED
  BY <1>3, <1>4, <1>5 DEF more

\* An assertion is kept as the records have it.
AsRetained(recs, a) ==
    IF {r \in ToSet(recs) : r.id = a.rec.id} = {} THEN a.rec
    ELSE CHOOSE r \in {q \in ToSet(recs) : q.id = a.rec.id} : TRUE

\* An assertion keeps its id and what it corrects.
LEMMA RetainedFacts ==
  ASSUME NEW J, NEW recs \in Seq(RecordType(J, Who)), NEW a \in AssertionType(J),
         NEW b, b = [a EXCEPT !.rec = AsRetained(recs, a)]
  PROVE  /\ b \in AssertionType(J) /\ b.corrects = a.corrects
         /\ b.rec = AsRetained(recs, a) /\ b.rec.id = a.rec.id
         /\ \/ b.rec = a.rec /\ \A i \in DOMAIN recs : recs[i].id # a.rec.id
            \/ \E i \in DOMAIN recs : b.rec = recs[i]
<1> DEFINE R == {r \in ToSet(recs) : r.id = a.rec.id}
           rec == AsRetained(recs, a)
<1>1. a = [corrects |-> a.corrects, rec |-> a.rec] /\ a.corrects \in J
      /\ a.rec \in RecordType(J, Who)
  BY DEF AssertionType
<1>2. \A r \in R : \E i \in DOMAIN recs : r = recs[i] /\ r.id = a.rec.id
  BY DEF ToSet
<1>3. \A i \in DOMAIN recs : recs[i].id = a.rec.id => recs[i] \in R
  BY DEF ToSet
<1>4. rec = IF R = {} THEN a.rec ELSE CHOOSE r \in R : TRUE
  BY DEF AsRetained
<1> HIDE DEF R, rec
<1>5. \/ rec = a.rec /\ R = {}
      \/ rec \in R
  BY <1>4
<1>6. rec \in RecordType(J, Who) /\ rec.id = a.rec.id
  BY <1>1, <1>2, <1>5
<1>7. b = [corrects |-> a.corrects, rec |-> rec]
  BY <1>1 DEF rec
<1>8. b.corrects = a.corrects /\ b.rec = rec
  BY <1>7
<1>9. b \in AssertionType(J)
  BY <1>1, <1>6, <1>7 DEF AssertionType
<1>10. \/ b.rec = a.rec /\ \A i \in DOMAIN recs : recs[i].id # a.rec.id
       \/ \E i \in DOMAIN recs : b.rec = recs[i]
  <2>1. CASE rec = a.rec /\ R = {}
    BY <1>3, <1>8, <2>1
  <2>2. CASE rec \in R
    BY <1>2, <1>8, <2>2
  <2> QED
    BY <1>5, <2>1, <2>2
<1> QED
  BY <1>6, <1>8, <1>9, <1>10 DEF rec

\* What controls know once they are applied to records: they rule as before, on
\* the standing assertions.
Known(J, recs, c, known) ==
    /\ IsControls(known, J) /\ SameRulings(c, known)
    /\ known.reviews = Learned(c.reviews, SaidIn(recs))
    /\ known.corrections = Learned(c.corrections, SaidIn(recs))
    /\ known.assertions = [i \in DOMAIN Standing(c) |->
           [Standing(c)[i] EXCEPT !.rec = AsRetained(recs, Standing(c)[i])]]

\* What controls know after they were applied.
LEMMA AppliedControlsFacts ==
  ASSUME NEW J, NEW recs \in Seq(RecordType(J, Who)), NEW c, IsControls(c, J),
         NEW known, known = AppliedControls(recs, c)
  PROVE  Known(J, recs, c, known)
<1> DEFINE occs == SaidIn(recs)
           reviews == Learned(c.reviews, occs)
           corrections == Learned(c.corrections, occs)
           standing == Standing(c)
           D == AssertionType(J)
           assertions == [i \in DOMAIN standing |->
              [standing[i] EXCEPT !.rec = AsRetained(recs, standing[i])]]
<1>1. AllOf(recs) = occs
  BY AllOfIsSaid
<1>2. /\ c = [reviews |-> c.reviews, corrections |-> c.corrections,
                 assertions |-> c.assertions, tombstones |-> c.tombstones,
                 excluded |-> c.excluded]
      /\ DOMAIN c.reviews \subseteq Claims /\ DOMAIN c.corrections \subseteq Claims
      /\ c.reviews \in [DOMAIN c.reviews -> ReviewType(J)]
      /\ c.corrections \in [DOMAIN c.corrections -> CorrectionType(J)]
      /\ c.tombstones \in SUBSET Claims
      /\ c.excluded \in [Sessions -> {"no", "excluded", "forgotten"}]
  BY ControlsFacts
<1>3. {o.id : o \in occs} \subseteq J
  BY IdsAreTyped, IdsInAreSaid
<1>4. known = [c EXCEPT !.reviews = Learned(c.reviews, AllOf(recs)),
                        !.corrections = Learned(c.corrections, AllOf(recs)),
                        !.assertions = [i \in DOMAIN standing |->
              [standing[i] EXCEPT !.rec = IF {r \in ToSet(recs) : r.id = standing[i].rec.id} = {}
                  THEN standing[i].rec
                  ELSE CHOOSE r \in {q \in ToSet(recs) : q.id = standing[i].rec.id} : TRUE]]]
  BY DEF AppliedControls
<1>5. known = [reviews |-> reviews, corrections |-> corrections, assertions |-> assertions,
               tombstones |-> c.tombstones, excluded |-> c.excluded]
  <2>1. known = [c EXCEPT !.reviews = reviews, !.corrections = corrections,
                          !.assertions = assertions]
    BY <1>1, <1>4 DEF AsRetained
  <2> HIDE DEF reviews, corrections, assertions
  <2> QED
    BY <1>2, <2>1
<1>6. /\ standing \in Seq(D) /\ DOMAIN standing = 1 .. Len(standing) /\ Len(standing) \in Nat
  BY StandingFacts
<1>7. \A i \in DOMAIN standing : assertions[i] \in D
  <2> TAKE i \in DOMAIN standing
  <2>1. standing[i] \in D /\ assertions[i] = [standing[i] EXCEPT !.rec = AsRetained(recs, standing[i])]
    BY <1>6
  <2> HIDE DEF assertions
  <2> QED
    BY <2>1, RetainedFacts
<1>8. assertions \in Seq(D)
  <2>1. assertions = [i \in 1 .. Len(standing) |-> assertions[i]]
        /\ \A i \in 1 .. Len(standing) : assertions[i] \in D
    BY <1>6, <1>7
  <2> HIDE DEF assertions, D, standing
  <2> QED
    BY ONLY <1>6, <2>1, IsASeq
<1>9. /\ reviews \in [DOMAIN c.reviews -> ReviewType(J)] /\ DOMAIN reviews = DOMAIN c.reviews
      /\ \A k \in DOMAIN c.reviews : reviews[k].says = c.reviews[k].says
  <2> HIDE DEF occs
  <2> QED
    BY <1>2, <1>3, LearnedReviews
<1>10. /\ corrections \in [DOMAIN c.corrections -> CorrectionType(J)]
       /\ DOMAIN corrections = DOMAIN c.corrections
  <2> HIDE DEF occs
  <2> QED
    BY <1>2, <1>3, LearnedCorrections
<1> HIDE DEF reviews, corrections, assertions, D
<1>11. IsControls(known, J)
  BY <1>2, <1>5, <1>8, <1>9, <1>10, ControlsMade DEF D
<1>12. /\ known.reviews = reviews /\ known.corrections = corrections
       /\ known.assertions = assertions /\ known.tombstones = c.tombstones
       /\ known.excluded = c.excluded
  BY <1>5
<1>13. SameRulings(c, known)
  BY <1>9, <1>10, <1>12 DEF SameRulings
<1> QED
  BY <1>11, <1>12, <1>13 DEF Known, reviews, corrections, assertions

-----------------------------------------------------------------------------
\* Where controls were applied they have nothing left to do, and no assertion
\* says what was forgotten.
Settled(recs, c) ==
    /\ SettledBy(c, SaidIn(recs))
    /\ \A i \in DOMAIN recs : Packed(recs[i])
    /\ \A i \in DOMAIN c.assertions : Claim(c.assertions[i].rec) \notin c.tombstones

\* What is committed when controls are applied.
Commits(recs, c, applied, known) ==
    /\ applied = AppliedRecords(recs, c) /\ known = AppliedControls(applied, c)
    /\ Acceptable(applied, known)

\* What that is.
CommitResult(J, recs, c, applied, known) ==
    /\ applied \in Seq(RecordType(J, Who)) /\ IsControls(known, J)
    /\ SameRulings(c, known) /\ Settled(applied, known)
    /\ Known(J, applied, c, known)
    /\ ValidControls(known) /\ DistinctIds(applied)

\* A record's own occurrence is one of what is said.
LEMMA CanonicalIsSaid ==
  ASSUME NEW recs, NEW i \in DOMAIN recs
  PROVE  \E o \in SaidIn(recs) : /\ o.id = recs[i].id /\ o.from = recs[i].from
                                 /\ Claim(o) = Claim(recs[i])
<1> DEFINE o == Occurrence(recs[i], recs[i].text)
<1>1. o \in SaidIn(recs)
  BY DEF SaidIn, SaidBy
<1>2. o.id = recs[i].id /\ o.from = recs[i].from /\ o.text = recs[i].text /\ o.ctx = recs[i].ctx
  BY DEF Occurrence
<1> QED
  BY <1>1, <1>2 DEF Claim

\* Whatever is committed is typed, ruled on and rules as before.
LEMMA CommitFacts ==
  ASSUME NEW J, NEW recs \in Seq(RecordType(J, Who)), NEW c, IsControls(c, J),
         NEW applied, NEW known, Commits(recs, c, applied, known)
  PROVE  CommitResult(J, recs, c, applied, known)
<1>1. /\ applied = AppliedRecords(recs, c) /\ known = AppliedControls(applied, c)
      /\ ValidControls(known) /\ DistinctIds(applied)
  BY DEF Commits, Acceptable
<1>2. /\ applied \in Seq(RecordType(J, Who))
      /\ SettledBy(c, SaidIn(applied))
      /\ \A i \in DOMAIN applied : Packed(applied[i])
  BY <1>1, AppliedRecordsFacts
<1>3. Known(J, applied, c, known)
  BY <1>1, <1>2, AppliedControlsFacts
<1>4. /\ IsControls(known, J) /\ SameRulings(c, known)
      /\ known.assertions = [i \in DOMAIN Standing(c) |->
             [Standing(c)[i] EXCEPT !.rec = AsRetained(applied, Standing(c)[i])]]
  BY <1>3 DEF Known
<1>5. SettledBy(known, SaidIn(applied))
  BY <1>2, <1>4, AlikeRulings DEF SettledBy
<1>6. ASSUME NEW i \in DOMAIN known.assertions
      PROVE  Claim(known.assertions[i].rec) \notin known.tombstones
  <2> DEFINE a == Standing(c)[i]
             b == known.assertions[i]
  <2>1. i \in DOMAIN Standing(c) /\ b = [a EXCEPT !.rec = AsRetained(applied, a)]
    BY <1>4
  <2>2. a \in AssertionType(J) /\ Claim(a.rec) \notin c.tombstones
    BY <2>1, StandingFacts
  <2> HIDE DEF a, b
  <2>3. b.rec = a.rec \/ \E j \in DOMAIN applied : b.rec = applied[j]
    BY <1>2, <2>1, <2>2, RetainedFacts
  <2>4. CASE b.rec = a.rec
    BY <1>4, <2>2, <2>4 DEF SameRulings, b
  <2>5. ASSUME NEW j \in DOMAIN applied, b.rec = applied[j]
        PROVE  Claim(b.rec) \notin known.tombstones
    <3>1. PICK o \in SaidIn(applied) : Claim(o) = Claim(applied[j])
      BY CanonicalIsSaid
    <3>2. Admitted(known, o)
      BY <1>5, <3>1 DEF SettledBy
    <3> QED
      BY <2>5, <3>1, <3>2 DEF Admitted
  <2> QED
    BY <2>3, <2>4, <2>5 DEF b
<1>7. Settled(applied, known)
  BY <1>2, <1>5, <1>6 DEF Settled
<1> QED
  BY <1>1, <1>2, <1>3, <1>4, <1>7 DEF CommitResult

-----------------------------------------------------------------------------
\* The operator's words are in the controls, or their claims are suppressed,
\* and no ruling is on what was.
Ruling(c, w, sh) ==
    /\ \A k \in Claims :
          /\ w[k] = "forgotten" => k \in c.tombstones
          /\ w[k] = "corrected" => k \in DOMAIN c.corrections \cup c.tombstones
          /\ w[k] \in {"approved", "rejected"} /\ k \notin c.tombstones =>
                k \in DOMAIN c.reviews /\ c.reviews[k].says = w[k]
    /\ \A s \in Sessions : sh[s] # "no" => c.excluded[s] # "no"
    /\ (DOMAIN c.corrections \cup DOMAIN c.reviews) \cap c.tombstones = {}

\* Whatever rules as before has the operator's words as before.
LEMMA RulingKept ==
  ASSUME NEW c, NEW d, SameRulings(c, d), NEW w, NEW sh, Ruling(c, w, sh)
  PROVE  Ruling(d, w, sh)
  BY DEF SameRulings, Ruling

\* With the words in the controls and nothing left to do, the operator has the
\* last word.
LEMMA LastWord ==
  ASSUME records \in Seq(RecordType(Who \X Nat, Who)), IsControls(controls, Who \X Nat),
         Settled(records, controls), Ruling(controls, word, shut)
  PROVE  OperatorHasLastWord
<1>1. AllOf(records) = SaidIn(records)
  BY AllOfIsSaid
<1>2. \A o \in AllOf(records) : /\ Claim(o) \notin controls.tombstones
                                /\ ~Excluded(controls, o.from)
                                /\ Ruled(controls, o) = o
                                /\ o \in OccurrenceType(Who \X Nat, Who)
  <2> TAKE o \in AllOf(records)
  <2>1. Admitted(controls, o) /\ Ruled(controls, o) = o
    BY <1>1 DEF Settled, SettledBy
  <2>2. PICK i \in DOMAIN records : o \in SaidBy(records[i])
    BY <1>1 DEF SaidIn
  <2>3. records[i] \in RecordType(Who \X Nat, Who)
    OBVIOUS
  <2>4. /\ Unfolded(records[i]) \in Seq(OccurrenceType(Who \X Nat, Who))
        /\ \E j \in DOMAIN Unfolded(records[i]) : o = Unfolded(records[i])[j]
    BY <2>2, <2>3, UnfoldedFacts
  <2>5. o \in OccurrenceType(Who \X Nat, Who)
    BY <2>4
  <2> QED
    BY <2>1, <2>5 DEF Admitted
<1>3. \A o \in AllOf(records) :
         /\ Claim(o) \in DOMAIN controls.corrections => o.mark = "retired"
         /\ Claim(o) \in DOMAIN controls.reviews =>
               o.mark \in {"retired", controls.reviews[Claim(o)].says}
  <2> TAKE o \in AllOf(records)
  <2> DEFINE mark == IF o.mark = "retired" \/ Claim(o) \in DOMAIN controls.corrections
                     THEN "retired"
                     ELSE IF Claim(o) \in DOMAIN controls.reviews
                     THEN controls.reviews[Claim(o)].says ELSE o.mark
  <2>1. o = [o EXCEPT !.mark = mark]
    BY <1>2 DEF Ruled
  <2>2. o = [id |-> o.id, from |-> o.from, text |-> o.text, ctx |-> o.ctx, mark |-> o.mark]
    BY <1>2 DEF OccurrenceType
  <2> HIDE DEF mark
  <2>3. o.mark = mark
    BY <2>1, <2>2
  <2> QED
    BY <2>3 DEF mark
<1>4. \A o \in AllOf(records) : Claim(o) \in Claims
  <2> TAKE o \in AllOf(records)
  <2>1. o.text \in Texts /\ o.ctx \in Contexts
    BY <1>2 DEF OccurrenceType
  <2> QED
    BY <2>1 DEF Claim, Claims
<1>5. ForgottenIsGone
  <2> SUFFICES ASSUME NEW k \in Claims, word[k] = "forgotten"
               PROVE  /\ \A o \in AllOf(records) : Claim(o) # k
                      /\ \A a \in ToSet(controls.assertions) : Claim(a.rec) # k
                      /\ k \notin DOMAIN controls.corrections \cup DOMAIN controls.reviews
    BY DEF ForgottenIsGone
  <2>1. k \in controls.tombstones
    BY DEF Ruling
  <2>2. k \notin DOMAIN controls.corrections \cup DOMAIN controls.reviews
    BY <2>1 DEF Ruling
  <2>3. \A a \in ToSet(controls.assertions) : Claim(a.rec) # k
    BY <2>1 DEF ToSet, Settled
  <2> QED
    BY <1>2, <2>1, <2>2, <2>3
<1>6. RulingsHold
  BY <1>2, <1>3, <1>4 DEF RulingsHold, Ruling
<1>7. SourcesStayOut
  BY <1>2 DEF SourcesStayOut, Ruling, Excluded
<1> QED
  BY <1>5, <1>6, <1>7 DEF OperatorHasLastWord

-----------------------------------------------------------------------------
\* Ids before their numbers are bounded.
AnyNumber == Who \X Nat

\* The id of every occurrence is one of whom it is from.
OwnNumbers(occs) == \A o \in occs : o.id[1] = o.from

\* What records say are occurrences.
LEMMA SaidIsTyped ==
  ASSUME NEW I, NEW F, NEW recs \in Seq(RecordType(I, F)), NEW o \in SaidIn(recs)
  PROVE  o \in OccurrenceType(I, F)
<1>1. PICK i \in DOMAIN recs : o \in SaidBy(recs[i])
  BY DEF SaidIn
<1>2. recs[i] \in RecordType(I, F)
  OBVIOUS
<1>3. /\ Unfolded(recs[i]) \in Seq(OccurrenceType(I, F))
      /\ \E j \in DOMAIN Unfolded(recs[i]) : o = Unfolded(recs[i])[j]
  BY <1>1, <1>2, UnfoldedFacts
<1> QED
  BY <1>3

\* Merging units, whatever their ids are: what is said is what was said before,
\* and units under their ids.
SaysMore(I, F, s, units, rest, ids, kept, r) ==
    /\ r \in Seq(RecordType(I, F))
    /\ SaidIn(kept) \subseteq SaidIn(r)
    /\ \A o \in SaidIn(r) : \/ o \in SaidIn(kept)
                            \/ \E p \in rest : o = Told(s, ids[p], units[p])

\* By induction on the units that are placed.
LEMMA MergedSays ==
  ASSUME NEW I, NEW F, NEW s \in F, NEW units \in Seq(UnitType),
         NEW rest, rest \subseteq DOMAIN units, NEW hits, hits \subseteq rest,
         NEW ids \in [rest -> I],
         NEW kept \in Seq(RecordType(I, F)), NEW near \in [rest \ hits -> 0 .. Len(kept)],
         NEW r, r = Merged(s, units, ids, kept, hits, near)
  PROVE  SaysMore(I, F, s, units, rest, ids, kept, r)
<1> DEFINE Place(recs, p) ==
             Placed(recs, s, ids[p], units[p], IF p \in hits THEN 0 ELSE near[p])
<1>1. DOMAIN near = rest \ hits
  OBVIOUS
<1>2. PICK order, f : /\ Enumerates(order, rest)
                      /\ MergedBy(s, units, ids, kept, hits, near, order, f, r)
  BY <1>1, MergedInSteps
<1> DEFINE N == Len(order)
<1>3. order \in Seq(rest) /\ N \in Nat
  BY <1>2 DEF Enumerates
<1>4. r = f[N]
  BY <1>2 DEF MergedBy
<1>5. f[0] = kept /\ \A k \in 0 .. N - 1 : f[k + 1] = Place(f[k], order[k + 1])
  BY <1>2 DEF MergedBy
<1> DEFINE New(o) == \E p \in rest : o = Told(s, ids[p], units[p])
           P(k) == /\ f[k] \in Seq(RecordType(I, F)) /\ Len(kept) <= Len(f[k])
                   /\ SaidIn(kept) \subseteq SaidIn(f[k])
                   /\ \A o \in SaidIn(f[k]) : o \in SaidIn(kept) \/ New(o)
           Q == {k \in Nat : k <= N => P(k)}
<1>6. \A k \in 1 .. N : order[k] \in rest
  BY <1>3
<1>7. \A p \in rest : ids[p] \in I /\ units[p] \in UnitType
  OBVIOUS
<1> HIDE DEF N
<1>8. 0 \in Q
  <2>1. Len(kept) <= Len(kept)
    OBVIOUS
  <2>2. P(0)
    BY <1>5, <2>1
  <2> HIDE DEF P
  <2> QED
    BY <2>2
<1>9. ASSUME NEW k \in Nat, k \in Q, k + 1 <= N
      PROVE  P(k + 1)
  <2>1. P(k) /\ k \in 0 .. N - 1 /\ k + 1 \in 1 .. N
    BY <1>3, <1>9
  <2> DEFINE p == order[k + 1]
             near_p == IF p \in hits THEN 0 ELSE near[p]
  <2>2. p \in rest /\ ids[p] \in I /\ units[p] \in UnitType
    BY <1>6, <1>7, <2>1
  <2>3. f[k + 1] = Placed(f[k], s, ids[p], units[p], near_p)
    BY <1>5, <2>1
  <2>4. near_p \in 0 .. Len(f[k])
    BY <2>1, <2>2
  <2> HIDE DEF p, near_p
  <2>5. /\ f[k + 1] \in Seq(RecordType(I, F)) /\ Len(f[k]) <= Len(f[k + 1])
        /\ SaidIn(f[k]) \subseteq SaidIn(f[k + 1])
        /\ SaidIn(f[k + 1]) \subseteq SaidIn(f[k]) \cup {Told(s, ids[p], units[p])}
    BY <2>1, <2>2, <2>3, <2>4, PlacedFacts
  <2>6. Len(kept) <= Len(f[k + 1])
    BY <2>1, <2>5
  <2>7. \A o \in SaidIn(f[k + 1]) : o \in SaidIn(kept) \/ New(o)
    BY <2>1, <2>2, <2>5
  <2> HIDE DEF New
  <2> QED
    BY <2>1, <2>5, <2>6, <2>7
<1> HIDE DEF P
<1>10. \A k \in Nat : k \in Q => k + 1 \in Q
  BY <1>3, <1>9
<1> HIDE DEF Q
<1>11. N \in Q
  BY <1>3, <1>8, <1>10, Induction
<1>12. P(N)
  BY <1>3, <1>11 DEF Q
<1> QED
  BY <1>4, <1>12 DEF P, SaysMore

\* One ingestion, before the controls apply: what others say is untouched, and
\* every id of the session is its own, an old one or a new number.
LEMMA MergedRecords ==
  ASSUME records \in Seq(RecordType(AnyNumber, Who)), NEW s \in Sessions,
         NEW units \in Seq(UnitType), NEW cited, counters[s] \in Nat,
         \A id \in Ids(records) : id[1] = s => id[2] <= counters[s],
         OwnNumbers(SaidIn(records)),
         NEW merged \in IngestedRecords(s, units, cited)
  PROVE  /\ merged \in Seq(RecordType(AnyNumber, Who))
         /\ {o \in SaidIn(merged) : o.from # s} = {o \in SaidIn(records) : o.from # s}
         /\ OwnNumbers(SaidIn(merged))
         /\ \A id \in Ids(merged) : id \in Ids(records) \/ NewNumber(s, units, id)
<1> DEFINE kept == Kept(s, units, cited)
           rest == Remaining(s, units)
           hits == {p \in rest : Exact(kept, units[p]) # 0}
           ids == NewIds(s, units, rest, kept)
           I == AnyNumber
<1>1. PICK near \in [rest \ hits -> 0 .. Len(kept)] :
         merged = Merged(s, units, ids, kept, hits, near)
  BY DEF IngestedRecords
<1>2. hits \subseteq rest /\ rest \subseteq DOMAIN units
  BY DEF Remaining
<1>3. /\ s \in Who /\ \A id \in I : id[2] \in Nat
      /\ \A n \in Nat : <<s, n>> \in I
  BY DEF Who, AnyNumber
<1>4. kept = Kept(s, units, cited) /\ rest = Remaining(s, units)
      /\ ids = NewIds(s, units, rest, kept)
  OBVIOUS
<1> HIDE DEF kept, rest, hits, ids, I
<1>5. /\ kept \in Seq(RecordType(I, Who)) /\ Ids(kept) \subseteq Ids(records)
      /\ {o \in SaidIn(kept) : o.from # s} = {o \in SaidIn(records) : o.from # s}
      /\ \A o \in SaidIn(kept) : o.from = s => SaidAgain(s, units, cited, o)
  BY <1>4, KeptFacts DEF I
<1>6. GoodIds(I, s, units, rest, ids)
  BY <1>3, <1>4, NewIdsFacts DEF I
<1>7. /\ ids \in [rest -> I]
      /\ \A p \in rest : TakesOver(s, ids[p], units[p]) \/ NewNumber(s, units, ids[p])
  BY <1>6 DEF GoodIds
<1>8. /\ merged \in Seq(RecordType(I, Who))
      /\ SaidIn(kept) \subseteq SaidIn(merged)
      /\ \A o \in SaidIn(merged) : \/ o \in SaidIn(kept)
                                   \/ \E p \in rest : o = Told(s, ids[p], units[p])
  <2>1. s \in Who
    BY <1>3
  <2>2. SaysMore(I, Who, s, units, rest, ids, kept, merged)
    BY <1>1, <1>2, <1>5, <1>7, <2>1, MergedSays
  <2> QED
    BY <2>2 DEF SaysMore
<1>9. /\ \A p : Told(s, ids[p], units[p]).from = s /\ Told(s, ids[p], units[p]).id = ids[p]
      /\ \A i : Continued(s, units, i).from = s /\ Continued(s, units, i).id = records[i].id
  BY DEF Told, Continued
<1>10. {o \in SaidIn(merged) : o.from # s} = {o \in SaidIn(records) : o.from # s}
  <2>1. {o \in SaidIn(merged) : o.from # s} = {o \in SaidIn(kept) : o.from # s}
    BY <1>8, <1>9
  <2> QED
    BY <1>5, <2>1
<1>11. \A p \in rest : /\ ids[p][1] = s
                       /\ ids[p] \in Ids(records) \/ NewNumber(s, units, ids[p])
  <2> TAKE p \in rest
  <2>1. CASE TakesOver(s, ids[p], units[p])
    <3>1. PICK o \in SaidIn(records) : o.from = s /\ o.id = ids[p]
      BY <2>1 DEF TakesOver
    <3> QED
      BY <3>1, IdsInAreSaid DEF OwnNumbers
  <2>2. CASE NewNumber(s, units, ids[p])
    BY <2>2 DEF NewNumber
  <2> QED
    BY <1>7, <2>1, <2>2
<1>12. ASSUME NEW o \in SaidIn(kept)
       PROVE  o.id[1] = o.from
  <2>1. CASE o.from # s
    BY <1>5, <2>1 DEF OwnNumbers
  <2>2. CASE o.from = s
    <3>1. PICK i \in DOMAIN records :
             \/ Consumes(s, units, i) # {} /\ o = Continued(s, units, i)
             \/ records[i].id \in cited /\ o \in SaidBy(records[i])
      BY <1>5, <2>2 DEF SaidAgain
    <3>2. CASE Consumes(s, units, i) # {} /\ o = Continued(s, units, i)
      <4>1. records[i].from = s /\ o.id = records[i].id
        BY <1>9, <3>2, ConsumesFacts
      <4>2. PICK q \in SaidIn(records) : q.id = records[i].id /\ q.from = records[i].from
        BY CanonicalIsSaid
      <4>3. q.id[1] = q.from
        BY <4>2 DEF OwnNumbers
      <4> QED
        BY <2>2, <4>1, <4>2, <4>3
    <3>3. CASE o \in SaidBy(records[i])
      BY <3>3 DEF OwnNumbers, SaidIn
    <3> QED
      BY <3>1, <3>2, <3>3
  <2> QED
    BY <2>1, <2>2
<1>13. OwnNumbers(SaidIn(merged))
  BY <1>8, <1>9, <1>11, <1>12 DEF OwnNumbers
<1>14. \A id \in Ids(merged) : id \in Ids(records) \/ NewNumber(s, units, id)
  <2> TAKE id \in Ids(merged)
  <2>1. PICK o \in SaidIn(merged) : o.id = id
    BY IdsInAreSaid
  <2>2. CASE o \in SaidIn(kept)
    BY <1>5, <2>1, <2>2, IdsInAreSaid
  <2>3. CASE \E p \in rest : o = Told(s, ids[p], units[p])
    BY <1>9, <1>11, <2>1, <2>3
  <2> QED
    BY <1>8, <2>2, <2>3
<1> QED
  BY <1>8, <1>10, <1>13, <1>14 DEF I

-----------------------------------------------------------------------------
\* What operator assertions say.
AssertedIn(c) == UNION {SaidBy(c.assertions[i].rec) : i \in DOMAIN c.assertions}

\* Assertions are the operator's, and every id is one of whom it is from.
Owned(recs, c) ==
    /\ OwnNumbers(SaidIn(recs)) /\ OwnNumbers(AssertedIn(c))
    /\ \A i \in DOMAIN c.assertions : c.assertions[i].rec.from = Operator

\* The operator's ids, each with the claim it names: one.
OperatorClaims(recs, c) ==
    {<<o.id, Claim(o)>> : o \in {x \in SaidIn(recs) \cup AssertedIn(c) : x.from = Operator}}
OneClaim(pairs) == \A p, q \in pairs : p[1] = q[1] => p[2] = q[2]

\* The own occurrence of an assertion is the operator's, under its id.
LEMMA AssertionFacts ==
  ASSUME NEW recs, NEW c, Owned(recs, c), NEW i \in DOMAIN c.assertions
  PROVE  \E o \in AssertedIn(c) : /\ o = Occurrence(c.assertions[i].rec, c.assertions[i].rec.text)
                                  /\ o.id = c.assertions[i].rec.id /\ o.id[1] = Operator
                                  /\ o.from = Operator /\ Claim(o) = Claim(c.assertions[i].rec)
                                  /\ <<o.id, Claim(o)>> \in OperatorClaims(recs, c)
<1> DEFINE rec == c.assertions[i].rec
           o == Occurrence(rec, rec.text)
<1>1. o \in AssertedIn(c)
  BY DEF AssertedIn, SaidBy
<1>2. o.id = rec.id /\ o.from = rec.from /\ o.text = rec.text /\ o.ctx = rec.ctx
  BY DEF Occurrence
<1>3. o.from = Operator /\ o.id[1] = Operator
  BY <1>1, <1>2 DEF Owned, OwnNumbers
<1>4. Claim(o) = Claim(rec)
  BY <1>2 DEF Claim
<1>5. <<o.id, Claim(o)>> \in OperatorClaims(recs, c)
  BY <1>1, <1>3 DEF OperatorClaims
<1> QED
  BY <1>1, <1>2, <1>3, <1>4, <1>5

\* An assertion that stands is among the records once the controls are applied.
LEMMA StandingIsThere ==
  ASSUME NEW J, NEW recs \in Seq(RecordType(J, Who)), NEW c, IsControls(c, J),
         Owned(recs, c), NEW applied, applied = AppliedRecords(recs, c),
         NEW i \in DOMAIN Standing(c), NEW id, id = Standing(c)[i].rec.id
  PROVE  /\ id \in Ids(recs) \cup Ids(applied)
         /\ OneClaim(OperatorClaims(recs, c)) => id \in Ids(applied)
<1> DEFINE a == Standing(c)[i]
<1>1. PICK j \in DOMAIN c.assertions : a = c.assertions[j]
  BY StandingFacts
<1>2. Claim(a.rec) \notin c.tombstones
  BY StandingFacts
<1>3. PICK q \in AssertedIn(c) : /\ q = Occurrence(a.rec, a.rec.text)
                                 /\ q.id = id /\ q.id[1] = Operator
                                 /\ q.from = Operator /\ Claim(q) = Claim(a.rec)
                                 /\ <<q.id, Claim(q)>> \in OperatorClaims(recs, c)
  <2>1. \E o \in AssertedIn(c) : /\ o = Occurrence(c.assertions[j].rec, c.assertions[j].rec.text)
                                  /\ o.id = c.assertions[j].rec.id /\ o.id[1] = Operator
                                  /\ o.from = Operator /\ Claim(o) = Claim(c.assertions[j].rec)
                                  /\ <<o.id, Claim(o)>> \in OperatorClaims(recs, c)
    BY AssertionFacts
  <2> QED
    BY <1>1, <2>1
<1>4. SaidIn(applied) = RuledOn(c, SaidIn(recs) \cup SaidIn(Missing(recs, c)))
      /\ Rulings(c) /\ Missing(recs, c) \in Seq(RecordType(J, Who))
  BY AppliedRecordsFacts, ControlsFacts, MissingFacts
<1>5. ASSUME NEW o \in SaidIn(recs) \cup SaidIn(Missing(recs, c)), o.id = id,
             o.from = Operator, Claim(o) = Claim(a.rec)
      PROVE  id \in Ids(applied)
  <2>1. Admitted(c, o)
    BY <1>2, <1>5, ControlConstants DEF Admitted, Excluded
  <2>2. Ruled(c, o) \in SaidIn(applied)
    BY <1>4, <2>1 DEF RuledOn
  <2>3. o \in OccurrenceType(J, Who)
    BY <1>4, SaidIsTyped
  <2>4. Ruled(c, o).id = id
    BY <1>4, <1>5, <2>3, RuledFacts
  <2> QED
    BY <2>2, <2>4, IdsInAreSaid
<1>6. CASE id \notin Ids(recs)
  <2>1. PICK m \in DOMAIN Missing(recs, c) : Missing(recs, c)[m] = a.rec
    BY <1>6, MissingFacts
  <2>2. q \in SaidIn(Missing(recs, c))
    BY <1>3, <2>1 DEF SaidIn, SaidBy
  <2>3. id \in Ids(applied)
    BY <1>3, <1>5, <2>2
  <2> QED
    BY <2>3
<1>7. CASE id \in Ids(recs)
  <2>1. PICK o \in SaidIn(recs) : o.id = id
    BY <1>7, IdsInAreSaid
  <2>2. o.from = Operator
    BY <1>3, <2>1 DEF Owned, OwnNumbers
  <2>3. <<o.id, Claim(o)>> \in OperatorClaims(recs, c)
    BY <2>1, <2>2 DEF OperatorClaims
  <2>4. ASSUME OneClaim(OperatorClaims(recs, c))
        PROVE  Claim(o) = Claim(a.rec)
    <3>1. <<o.id, Claim(o)>>[1] = <<q.id, Claim(q)>>[1]
      BY <1>3, <2>1
    <3>2. <<o.id, Claim(o)>>[2] = <<q.id, Claim(q)>>[2]
      BY <1>3, <2>3, <2>4, <3>1 DEF OneClaim
    <3> QED
      BY <1>3, <3>2
  <2> QED
    BY <1>5, <1>7, <2>1, <2>2, <2>4
<1> QED
  BY <1>6, <1>7

\* Applying the controls once more changes nothing.
LEMMA AppliedAgain ==
  ASSUME NEW J, NEW recs \in Seq(RecordType(J, Who)), NEW c, IsControls(c, J),
         Settled(recs, c),
         \A i \in DOMAIN c.assertions : /\ c.assertions[i].rec.id \in Ids(recs)
                                        /\ AsRetained(recs, c.assertions[i]) = c.assertions[i].rec,
         Learned(c.reviews, SaidIn(recs)) = c.reviews,
         Learned(c.corrections, SaidIn(recs)) = c.corrections
  PROVE  AppliedRecords(recs, c) = recs /\ AppliedControls(recs, c) = c
<1> DEFINE D == AssertionType(J)
           all == c.assertions
           P == {i \in DOMAIN all : Claim(all[i].rec) \notin c.tombstones}
<1>1. /\ c = [reviews |-> c.reviews, corrections |-> c.corrections,
              assertions |-> c.assertions, tombstones |-> c.tombstones,
              excluded |-> c.excluded]
      /\ all \in Seq(D) /\ Rulings(c)
  BY ControlsFacts
<1>2. Standing(c) = all
  <2>1. P = DOMAIN all
    BY DEF Settled
  <2>2. Standing(c) = Picked(all, P)
    BY DEF Standing
  <2> HIDE DEF P, D
  <2> QED
    BY <1>1, <2>1, <2>2, PickedAll
<1>3. Missing(recs, c) = <<>>
  <2> DEFINE m == Missing(recs, c)
  <2>1. m \in Seq(RecordType(J, Who))
    BY MissingFacts
  <2>2. \A i \in DOMAIN m : \E j \in DOMAIN Standing(c) :
               m[i] = Standing(c)[j].rec /\ m[i].id \notin Ids(recs)
    BY MissingFacts
  <2>3. \A i \in DOMAIN m : FALSE
    BY <1>2, <2>2
  <2> HIDE DEF m
  <2>4. m = <<>>
    <3> DEFINE T == RecordType(J, Who)
    <3>1. m \in Seq(T)
      BY <2>1
    <3> HIDE DEF T
    <3>2. \A t \in Seq(T) : t = <<>> \/ 1 \in DOMAIN t
      OBVIOUS
    <3> QED
      BY <2>3, <3>1, <3>2
  <2> QED
    BY <2>4 DEF m
<1>4. AppliedRecords(recs, c) = recs
  <2>1. recs \o <<>> = recs
    OBVIOUS
  <2>2. Sifted(recs, c) = recs
    BY <1>1, SiftedSame DEF Settled
  <2> QED
    BY <1>3, <2>1, <2>2 DEF AppliedRecords
<1>5. AppliedControls(recs, c) = c
  <2> DEFINE known == AppliedControls(recs, c)
  <2>1. Known(J, recs, c, known)
    BY AppliedControlsFacts
  <2> HIDE DEF known
  <2>2. /\ IsControls(known, J) /\ SameRulings(c, known)
        /\ known.reviews = c.reviews /\ known.corrections = c.corrections
        /\ known.assertions = [i \in DOMAIN all |->
              [all[i] EXCEPT !.rec = AsRetained(recs, all[i])]]
    BY <1>2, <2>1 DEF Known
  <2>3. \A i \in DOMAIN all : [all[i] EXCEPT !.rec = AsRetained(recs, all[i])] = all[i]
    <3> TAKE i \in DOMAIN all
    <3>1. all[i] \in D
      BY <1>1
    <3>2. all[i] = [corrects |-> all[i].corrects, rec |-> all[i].rec]
      BY <3>1 DEF AssertionType
    <3> QED
      BY <3>2
  <2>4. all = [i \in DOMAIN all |-> all[i]]
    BY <1>1
  <2>5. known.assertions = all
    BY <2>2, <2>3, <2>4
  <2>6. known.tombstones = c.tombstones /\ known.excluded = c.excluded
    BY <2>2 DEF SameRulings
  <2>7. known = [reviews |-> known.reviews, corrections |-> known.corrections,
                 assertions |-> known.assertions, tombstones |-> known.tombstones,
                 excluded |-> known.excluded]
    BY <2>2, ControlsFacts
  <2>8. known = c
    BY <1>1, <2>2, <2>5, <2>6, <2>7
  <2> QED
    BY <2>8 DEF known
<1> QED
  BY <1>4, <1>5

-----------------------------------------------------------------------------
\* What is learned again was known.
LEMMA LearnedAgain ==
  ASSUME NEW J, NEW old, NEW occs, {o.id : o \in occs} \subseteq J,
         NEW new, new = Learned(old, occs),
         \/ old \in [DOMAIN old -> ReviewType(J)]
         \/ old \in [DOMAIN old -> CorrectionType(J)]
  PROVE  Learned(new, occs) = new
<1> DEFINE more(k) == {o.id : o \in {x \in occs : Claim(x) = k}}
<1>1. /\ DOMAIN new = DOMAIN old /\ new = [k \in DOMAIN new |-> new[k]]
      /\ \A k \in DOMAIN old : new[k].ids = old[k].ids \cup more(k)
      /\ \/ new \in [DOMAIN old -> ReviewType(J)]
         \/ new \in [DOMAIN old -> CorrectionType(J)]
  <2>1. CASE old \in [DOMAIN old -> ReviewType(J)]
    <3>1. /\ new \in [DOMAIN old -> ReviewType(J)] /\ DOMAIN new = DOMAIN old
          /\ \A k \in DOMAIN old : new[k].ids = old[k].ids \cup more(k)
      BY <2>1, LearnedReviews
    <3> HIDE DEF more
    <3> QED
      BY <3>1
  <2>2. CASE old \in [DOMAIN old -> CorrectionType(J)]
    <3>1. /\ new \in [DOMAIN old -> CorrectionType(J)] /\ DOMAIN new = DOMAIN old
          /\ \A k \in DOMAIN old : new[k].ids = old[k].ids \cup more(k)
      BY <2>2, LearnedCorrections
    <3> HIDE DEF more
    <3> QED
      BY <3>1
  <2> QED
    BY <2>1, <2>2
<1>2. Learned(new, occs) = [k \in DOMAIN new |-> [new[k] EXCEPT !.ids = new[k].ids \cup more(k)]]
  BY DEF Learned
<1> HIDE DEF more
<1>3. ASSUME NEW k \in DOMAIN new
      PROVE  [new[k] EXCEPT !.ids = new[k].ids \cup more(k)] = new[k]
  <2>1. new[k].ids \cup more(k) = new[k].ids
    BY <1>1
  <2>2. \/ new[k] = [says |-> new[k].says, ids |-> new[k].ids]
        \/ new[k] = [by |-> new[k].by, ids |-> new[k].ids]
    <3>1. new[k] \in ReviewType(J) \/ new[k] \in CorrectionType(J)
      BY <1>1
    <3> QED
      BY <3>1 DEF ReviewType, CorrectionType
  <2> QED
    BY <2>1, <2>2
<1> QED
  BY <1>1, <1>2, <1>3

\* What is missing was asserted.
LEMMA MissingIsAsserted ==
  ASSUME NEW J, NEW c, IsControls(c, J), NEW recs
  PROVE  SaidIn(Missing(recs, c)) \subseteq AssertedIn(c)
<1> SUFFICES ASSUME NEW o \in SaidIn(Missing(recs, c))
             PROVE  o \in AssertedIn(c)
  OBVIOUS
<1>1. PICK i \in DOMAIN Missing(recs, c) : o \in SaidBy(Missing(recs, c)[i])
  BY DEF SaidIn
<1>2. PICK j \in DOMAIN Standing(c) : Missing(recs, c)[i] = Standing(c)[j].rec
  BY MissingFacts
<1>3. PICK l \in DOMAIN c.assertions : Standing(c)[j] = c.assertions[l]
  BY StandingFacts
<1> QED
  BY <1>1, <1>2, <1>3 DEF AssertedIn

\* The ids that controls refer to.
ControlIds(c) ==
    (UNION {IdsOf(c.assertions[i].rec) \cup {c.assertions[i].corrects} : i \in DOMAIN c.assertions})
    \cup (UNION {{c.corrections[k].by} \cup c.corrections[k].ids : k \in DOMAIN c.corrections})
    \cup (UNION {c.reviews[k].ids : k \in DOMAIN c.reviews})

\* Controls refer to ids that were issued, but for those of new assertions.
Traced(c, ids) ==
    /\ \A k \in DOMAIN c.reviews : c.reviews[k].ids \subseteq ids
    /\ \A k \in DOMAIN c.corrections : c.corrections[k].ids \subseteq ids
    /\ \A i \in DOMAIN c.assertions :
          /\ c.assertions[i].corrects \in ids
          /\ IdsOf(c.assertions[i].rec) \subseteq ids \cup {c.assertions[i].rec.id}

\* What may be committed, and what holds of it then.
Ready(recs, c, ids) ==
    /\ recs \in Seq(RecordType(AnyNumber, Who)) /\ IsControls(c, AnyNumber)
    /\ Owned(recs, c) /\ Traced(c, ids) /\ OneClaim(OperatorClaims(recs, c))

CommitKept(recs, c, ids, applied, known) ==
    /\ CommitResult(AnyNumber, recs, c, applied, known) /\ Owned(applied, known)
    /\ OperatorClaims(applied, known) \subseteq OperatorClaims(recs, c)
    /\ \A id \in Ids(applied) :
          id \in Ids(recs) \/ \E i \in DOMAIN c.assertions : id \in IdsOf(c.assertions[i].rec)
    /\ ControlIds(known) \subseteq ids \cup Ids(applied)
    /\ AppliedRecords(applied, known) = applied
    /\ AppliedControls(applied, known) = known

\* A commit keeps the operator's words and ids, and applying the controls again
\* changes nothing.
LEMMA CommitKeeps ==
  ASSUME NEW recs, NEW c, NEW ids, Ready(recs, c, ids),
         NEW applied, NEW known, Commits(recs, c, applied, known)
  PROVE  CommitKept(recs, c, ids, applied, known)
<1> DEFINE J == AnyNumber
           now == ids \cup Ids(applied)
           said == SaidIn(recs) \cup SaidIn(Missing(recs, c))
<1>1. /\ recs \in Seq(RecordType(J, Who)) /\ IsControls(c, J) /\ Rulings(c)
      /\ Owned(recs, c) /\ Traced(c, ids) /\ OneClaim(OperatorClaims(recs, c))
  BY ControlsFacts DEF Ready
<1> HIDE DEF J
<1>2. CommitResult(J, recs, c, applied, known)
  BY <1>1, CommitFacts
<1>3. /\ applied \in Seq(RecordType(J, Who)) /\ IsControls(known, J)
      /\ Settled(applied, known)
      /\ applied = AppliedRecords(recs, c) /\ Known(J, applied, c, known)
      /\ ValidControls(known)
      /\ ids \subseteq now /\ Ids(applied) \subseteq now
  BY <1>2 DEF CommitResult, Commits
<1> HIDE DEF now
<1>4. SaidIn(applied) = RuledOn(c, said)
  BY <1>1, <1>3, AppliedRecordsFacts
<1>5. SaidIn(Missing(recs, c)) \subseteq AssertedIn(c)
  BY <1>1, MissingIsAsserted
<1>6. \A x \in said : x \in OccurrenceType(J, Who)
  <2>1. Missing(recs, c) \in Seq(RecordType(J, Who))
    BY <1>1, MissingFacts
  <2> QED
    BY <1>1, <2>1, SaidIsTyped
<1>7. \A o \in SaidIn(applied) : \E x \in said :
         x.id = o.id /\ x.from = o.from /\ Claim(x) = Claim(o)
  <2> TAKE o \in SaidIn(applied)
  <2>1. PICK x \in said : o = Ruled(c, x)
    BY <1>4 DEF RuledOn
  <2>2. x \in OccurrenceType(J, Who)
    BY <1>6
  <2> QED
    BY <1>1, <2>1, <2>2, RuledFacts
<1>8. ASSUME NEW i \in DOMAIN known.assertions
      PROVE  \E j \in DOMAIN c.assertions :
                /\ known.assertions[i].corrects = c.assertions[j].corrects
                /\ known.assertions[i].rec.id = c.assertions[j].rec.id
                /\ c.assertions[j].rec.id \in Ids(applied)
                /\ \/ known.assertions[i].rec = c.assertions[j].rec
                   \/ \E l \in DOMAIN applied : known.assertions[i].rec = applied[l]
                /\ AsRetained(applied, known.assertions[i]) = known.assertions[i].rec
  <2> DEFINE a == Standing(c)[i]
             b == known.assertions[i]
  <2>1. i \in DOMAIN Standing(c) /\ b = [a EXCEPT !.rec = AsRetained(applied, a)]
    BY <1>3 DEF Known
  <2>2. a \in AssertionType(J) /\ \E j \in DOMAIN c.assertions : a = c.assertions[j]
    BY <1>1, <2>1, StandingFacts
  <2>3. a.rec.id \in Ids(applied)
    BY <1>1, <1>3, <2>1, StandingIsThere
  <2> HIDE DEF a, b
  <2>4. /\ b.corrects = a.corrects /\ b.rec = AsRetained(applied, a) /\ b.rec.id = a.rec.id
        /\ b.rec = a.rec \/ \E l \in DOMAIN applied : b.rec = applied[l]
    BY <1>3, <2>1, <2>2, RetainedFacts
  <2>5. AsRetained(applied, b) = b.rec
    <3> DEFINE R == {r \in ToSet(applied) : r.id = a.rec.id}
    <3>1. AsRetained(applied, a) = IF R = {} THEN a.rec ELSE CHOOSE r \in R : TRUE
      BY DEF AsRetained
    <3> DEFINE Q == {r \in ToSet(applied) : r.id = b.rec.id}
    <3>2. AsRetained(applied, b) = IF Q = {} THEN b.rec ELSE CHOOSE r \in Q : TRUE
      BY DEF AsRetained
    <3>3. Q = R
      BY <2>4
    <3> HIDE DEF Q
    <3> HIDE DEF R
    <3> QED
      BY <2>4, <3>1, <3>2, <3>3
  <2> QED
    BY <2>2, <2>3, <2>4, <2>5 DEF b
<1>9. AssertedIn(known) \subseteq AssertedIn(c) \cup SaidIn(applied)
  <2> SUFFICES ASSUME NEW o \in AssertedIn(known)
               PROVE  o \in AssertedIn(c) \cup SaidIn(applied)
    OBVIOUS
  <2>1. PICK i \in DOMAIN known.assertions : o \in SaidBy(known.assertions[i].rec)
    BY DEF AssertedIn
  <2>2. \/ \E j \in DOMAIN c.assertions : known.assertions[i].rec = c.assertions[j].rec
        \/ \E l \in DOMAIN applied : known.assertions[i].rec = applied[l]
    BY <1>8
  <2> QED
    BY <2>1, <2>2 DEF AssertedIn, SaidIn
<1>10. OwnNumbers(SaidIn(applied))
  BY <1>1, <1>5, <1>7 DEF Owned, OwnNumbers
<1>11. Owned(applied, known)
  <2>1. OwnNumbers(AssertedIn(known))
    BY <1>1, <1>9, <1>10 DEF Owned, OwnNumbers
  <2>2. ASSUME NEW i \in DOMAIN known.assertions
        PROVE  known.assertions[i].rec.from = Operator
    <3>1. PICK j \in DOMAIN c.assertions :
             /\ known.assertions[i].rec.id = c.assertions[j].rec.id
             /\ \/ known.assertions[i].rec = c.assertions[j].rec
                \/ \E l \in DOMAIN applied : known.assertions[i].rec = applied[l]
      BY <1>8
    <3>2. c.assertions[j].rec.from = Operator /\ c.assertions[j].rec.id[1] = Operator
      <4>1. PICK o \in AssertedIn(c) : o.id = c.assertions[j].rec.id /\ o.id[1] = Operator
        BY <1>1, AssertionFacts
      <4> QED
        BY <1>1, <4>1 DEF Owned
    <3>3. ASSUME NEW l \in DOMAIN applied, known.assertions[i].rec = applied[l]
          PROVE  known.assertions[i].rec.from = Operator
      <4>1. PICK o \in SaidIn(applied) : o.id = applied[l].id /\ o.from = applied[l].from
        BY CanonicalIsSaid
      <4> QED
        BY <1>10, <3>1, <3>2, <3>3, <4>1 DEF OwnNumbers
    <3> QED
      BY <3>1, <3>2, <3>3
  <2> QED
    BY <1>10, <2>1, <2>2 DEF Owned
<1>12. \A o \in SaidIn(applied) \cup AssertedIn(known) :
          \E x \in SaidIn(recs) \cup AssertedIn(c) :
             x.id = o.id /\ x.from = o.from /\ Claim(x) = Claim(o)
  BY <1>5, <1>7, <1>9
<1>13. OperatorClaims(applied, known) \subseteq OperatorClaims(recs, c)
  <2> SUFFICES ASSUME NEW p \in OperatorClaims(applied, known)
               PROVE  p \in OperatorClaims(recs, c)
    OBVIOUS
  <2>1. PICK o \in SaidIn(applied) \cup AssertedIn(known) :
           o.from = Operator /\ p = <<o.id, Claim(o)>>
    BY DEF OperatorClaims
  <2>2. PICK x \in SaidIn(recs) \cup AssertedIn(c) :
           x.id = o.id /\ x.from = o.from /\ Claim(x) = Claim(o)
    BY <1>12
  <2> QED
    BY <2>1, <2>2 DEF OperatorClaims
<1>14. ASSUME NEW id \in Ids(applied)
       PROVE  id \in Ids(recs) \/ \E i \in DOMAIN c.assertions : id \in IdsOf(c.assertions[i].rec)
  <2>1. PICK o \in SaidIn(applied) : o.id = id
    BY IdsInAreSaid
  <2>2. PICK x \in said : x.id = id
    BY <1>7, <2>1
  <2>3. CASE x \in SaidIn(recs)
    BY <2>2, <2>3, IdsInAreSaid
  <2>4. CASE x \in AssertedIn(c)
    <3>1. PICK i \in DOMAIN c.assertions : x \in SaidBy(c.assertions[i].rec)
      BY <2>4 DEF AssertedIn
    <3>2. id \in IdsOf(c.assertions[i].rec)
      BY <2>2, <3>1, IdsAreSaid
    <3> QED
      BY <3>2
  <2> QED
    BY <1>5, <2>3, <2>4
<1>15. ASSUME NEW i \in DOMAIN known.assertions
       PROVE  /\ IdsOf(known.assertions[i].rec) \subseteq now
              /\ known.assertions[i].corrects \in now
              /\ known.assertions[i].rec.id \in now
  <2>1. PICK j \in DOMAIN c.assertions :
                /\ known.assertions[i].corrects = c.assertions[j].corrects
                /\ known.assertions[i].rec.id = c.assertions[j].rec.id
                /\ c.assertions[j].rec.id \in Ids(applied)
                /\ \/ known.assertions[i].rec = c.assertions[j].rec
                   \/ \E l \in DOMAIN applied : known.assertions[i].rec = applied[l]
    BY <1>8
  <2>2. /\ c.assertions[j].corrects \in ids
        /\ IdsOf(c.assertions[j].rec) \subseteq ids \cup {c.assertions[j].rec.id}
    BY <1>1 DEF Traced
  <2>3. IdsOf(known.assertions[i].rec) \subseteq now
    <3>1. CASE known.assertions[i].rec = c.assertions[j].rec
      BY <1>3, <2>1, <2>2, <3>1
    <3>2. ASSUME NEW l \in DOMAIN applied, known.assertions[i].rec = applied[l]
          PROVE  IdsOf(known.assertions[i].rec) \subseteq now
      BY <1>3, <3>2 DEF Ids
    <3> QED
      BY <2>1, <3>1, <3>2
  <2> QED
    BY <1>3, <2>1, <2>2, <2>3
<1>16. /\ known.reviews = Learned(c.reviews, SaidIn(applied))
       /\ known.corrections = Learned(c.corrections, SaidIn(applied))
       /\ c.reviews \in [DOMAIN c.reviews -> ReviewType(J)]
       /\ c.corrections \in [DOMAIN c.corrections -> CorrectionType(J)]
       /\ {o.id : o \in SaidIn(applied)} \subseteq J
       /\ {o.id : o \in SaidIn(applied)} \subseteq now
  <2>1. {o.id : o \in SaidIn(applied)} = Ids(applied)
    BY IdsInAreSaid
  <2> QED
    BY <1>1, <1>3, <2>1, IdsAreTyped, ControlsFacts DEF Known
<1>17. ASSUME NEW k \in DOMAIN known.reviews
       PROVE  known.reviews[k].ids \subseteq now
  <2> DEFINE occs == SaidIn(applied)
  <2>1. {o.id : o \in {x \in occs : Claim(x) = k}} \subseteq now
    BY <1>16
  <2>2. k \in DOMAIN c.reviews
        /\ known.reviews[k].ids = c.reviews[k].ids \cup {o.id : o \in {x \in occs : Claim(x) = k}}
    <3> HIDE DEF occs
    <3> QED
      BY <1>16, LearnedReviews DEF occs
  <2> QED
    BY <1>1, <1>3, <2>1, <2>2 DEF Traced
<1>18. ASSUME NEW k \in DOMAIN known.corrections
       PROVE  {known.corrections[k].by} \cup known.corrections[k].ids \subseteq now
  <2> DEFINE occs == SaidIn(applied)
  <2>1. {o.id : o \in {x \in occs : Claim(x) = k}} \subseteq now
    BY <1>16
  <2>2. k \in DOMAIN c.corrections
        /\ known.corrections[k].ids
              = c.corrections[k].ids \cup {o.id : o \in {x \in occs : Claim(x) = k}}
    <3> HIDE DEF occs
    <3> QED
      BY <1>16, LearnedCorrections DEF occs
  <2>3. known.corrections[k].by \in now
    BY <1>3, <1>15 DEF ValidControls
  <2> QED
    BY <1>1, <1>3, <2>1, <2>2, <2>3 DEF Traced
<1>19. ControlIds(known) \subseteq now
  BY <1>15, <1>17, <1>18 DEF ControlIds
<1>20. /\ Learned(known.reviews, SaidIn(applied)) = known.reviews
       /\ Learned(known.corrections, SaidIn(applied)) = known.corrections
  BY <1>16, LearnedAgain
<1>21. AppliedRecords(applied, known) = applied
       /\ AppliedControls(applied, known) = known
  <2>1. \A i \in DOMAIN known.assertions :
           /\ known.assertions[i].rec.id \in Ids(applied)
           /\ AsRetained(applied, known.assertions[i]) = known.assertions[i].rec
    BY <1>8
  <2> QED
    BY <1>3, <1>20, <2>1, AppliedAgain
<1> QED
  BY <1>2, <1>4, <1>11, <1>13, <1>14, <1>19, <1>21 DEF CommitKept, J, now

-----------------------------------------------------------------------------
\* Records under controls, as a store or a backup holds them.
Sound(recs, c) ==
    /\ recs \in Seq(RecordType(AnyNumber, Who)) /\ IsControls(c, AnyNumber)
    /\ Owned(recs, c)
    /\ IsFiniteSet(DOMAIN c.corrections) /\ IsFiniteSet(DOMAIN c.reviews)

\* Ids with numbers that were given.
NumbersGiven(ids, cnt, cmds) ==
    /\ ids \subseteq AnyNumber
    /\ \A id \in ids : /\ id[2] >= 1
                       /\ id[1] = Operator => id[2] <= cmds
                       /\ id[1] # Operator => id[2] <= cnt[id[1]]

\* What the operator's ids name in the backup.
BackupClaims == IF backup = <<>> THEN {} ELSE OperatorClaims(backup[1], backup[3])

\* The backup is sound, only refers to ids that were given, and suppresses no
\* more than the store does.
BackupInv ==
    backup # <<>> =>
          /\ Sound(backup[1], backup[3])
          /\ backup[3].tombstones \subseteq controls.tombstones
          /\ backup[2] \in [Sessions -> 0 .. MaxNumber]
          /\ Ids(backup[1]) \cup ControlIds(backup[3]) \cup backup[4] \subseteq issued

\* So is the store, and an id of the operator names one claim in both.
IdsInv ==
    /\ Sound(records, controls)
    /\ Ids(records) \cup ControlIds(controls) \cup forgotten \subseteq issued
    /\ BackupInv /\ OneClaim(OperatorClaims(records, controls) \cup BackupClaims)
    /\ counters \in [Sessions -> 0 .. MaxNumber] /\ commands \in 0 .. MaxOps
    /\ NumbersGiven(issued, counters, commands)

Words ==
    {"none", "overruled", "forgotten", "corrected", "approved", "rejected"}

\* The operator's words are in the controls.
WordsInv ==
    /\ word \in [Claims -> Words]
    /\ shut \in [Sessions -> {"no", "excluded", "forgotten"}]
    /\ Ruling(controls, word, shut)

\* The controls are valid, and have nothing left to do.
AppliedInv ==
    /\ Settled(records, controls)
    /\ ValidControls(controls) /\ DistinctIds(records)
    /\ LoadChangesNothing

ControlsInv == IdsInv /\ WordsInv /\ AppliedInv

\* Numbers stay given.
LEMMA NumbersGrow ==
  ASSUME NEW old, NEW new, NEW cnt \in [Sessions -> 0 .. MaxNumber], NEW cmds \in Nat,
         NEW cnt2 \in [Sessions -> 0 .. MaxNumber], NEW cmds2 \in Nat,
         \A s \in Sessions : cnt[s] <= cnt2[s], cmds <= cmds2,
         NumbersGiven(old, cnt, cmds), NumbersGiven(new, cnt2, cmds2)
  PROVE  NumbersGiven(old \cup new, cnt2, cmds2)
<1>1. ASSUME NEW id \in old
      PROVE  /\ id[2] >= 1
             /\ id[1] = Operator => id[2] <= cmds2
             /\ id[1] # Operator => id[2] <= cnt2[id[1]]
  <2>1. /\ id \in AnyNumber /\ id[2] >= 1
        /\ id[1] = Operator => id[2] <= cmds
        /\ id[1] # Operator => id[2] <= cnt[id[1]]
    BY DEF NumbersGiven
  <2>2. id[2] \in Nat /\ (id[1] # Operator => id[1] \in Sessions)
    BY <2>1 DEF AnyNumber, Who
  <2>3. \A s \in Sessions : cnt[s] \in Nat /\ cnt2[s] \in Nat
    BY RecordConstants
  <2>4. CASE id[1] = Operator
    BY <2>1, <2>2, <2>4
  <2>5. CASE id[1] # Operator
    BY <2>1, <2>2, <2>3, <2>5
  <2> QED
    BY <2>4, <2>5
<1>2. old \cup new \subseteq AnyNumber
  BY DEF NumbersGiven
<1> QED
  BY <1>1, <1>2 DEF NumbersGiven

\* The ids of the records that assertions keep.
AssertionIds(c) == UNION {IdsOf(c.assertions[i].rec) : i \in DOMAIN c.assertions}

\* What an operation that commits leaves alone, and what it does to the rest.
Operates(recs, c) ==
    /\ Sound(recs, c) /\ Traced(c, issued) /\ Committed(recs, c)
    /\ OneClaim(OperatorClaims(recs, c) \cup BackupClaims)
    /\ Ruling(c, word', shut')
    /\ word' \in [Claims -> Words]
    /\ shut' \in [Sessions -> {"no", "excluded", "forgotten"}]
    /\ counters' \in [Sessions -> 0 .. MaxNumber] /\ commands' \in 0 .. MaxOps
    /\ \A s \in Sessions : counters[s] <= counters'[s]
    /\ commands <= commands'
    /\ NumbersGiven(Ids(recs) \cup AssertionIds(c), counters', commands')
    /\ forgotten' \subseteq issued /\ backup' = backup
    /\ controls.tombstones \subseteq c.tombstones

\* Every commit keeps the invariant.
LEMMA OperationKeeps ==
  ASSUME ControlsInv, NEW recs, NEW c, Operates(recs, c)
  PROVE  ControlsInv'
<1> DEFINE oc == OperatorClaims(recs, c)
<1>1. /\ Sound(recs, c) /\ Traced(c, issued) /\ Committed(recs, c)
      /\ OneClaim(oc \cup BackupClaims)
      /\ Ruling(c, word', shut')
      /\ word' \in [Claims -> Words]
      /\ shut' \in [Sessions -> {"no", "excluded", "forgotten"}]
      /\ counters' \in [Sessions -> 0 .. MaxNumber] /\ commands' \in 0 .. MaxOps
      /\ \A s \in Sessions : counters[s] <= counters'[s]
      /\ commands <= commands'
      /\ NumbersGiven(Ids(recs) \cup AssertionIds(c), counters', commands')
      /\ forgotten' \subseteq issued /\ backup' = backup
      /\ controls.tombstones \subseteq c.tombstones
  BY DEF Operates
<1>2. /\ counters \in [Sessions -> 0 .. MaxNumber] /\ commands \in 0 .. MaxOps
      /\ NumbersGiven(issued, counters, commands) /\ BackupInv
  BY DEF ControlsInv, IdsInv
<1> HIDE DEF oc
<1>3. OneClaim(oc)
  BY <1>1 DEF OneClaim
<1>4. Ready(recs, c, issued)
  BY <1>1, <1>3 DEF Ready, Sound, oc
<1>5. Commits(recs, c, records', controls') /\ issued' = issued \cup Ids(records')
  BY <1>1 DEF Committed, Commits
<1>6. CommitKept(recs, c, issued, records', controls')
  BY <1>4, <1>5, CommitKeeps
<1>7. /\ CommitResult(AnyNumber, recs, c, records', controls')
      /\ Owned(records', controls')
      /\ OperatorClaims(records', controls') \subseteq oc
      /\ \A id \in Ids(records') :
          id \in Ids(recs) \/ \E i \in DOMAIN c.assertions : id \in IdsOf(c.assertions[i].rec)
      /\ ControlIds(controls') \subseteq issued \cup Ids(records')
      /\ AppliedRecords(records', controls') = records'
      /\ AppliedControls(records', controls') = controls'
  BY <1>6 DEF CommitKept, oc
<1>8. /\ records' \in Seq(RecordType(AnyNumber, Who)) /\ IsControls(controls', AnyNumber)
      /\ SameRulings(c, controls') /\ Settled(records', controls')
      /\ ValidControls(controls') /\ DistinctIds(records')
  BY <1>7 DEF CommitResult
<1>9. Sound(records', controls')
  BY <1>1, <1>7, <1>8 DEF Sound, SameRulings
<1>10. Ids(records') \cup ControlIds(controls') \cup forgotten' \subseteq issued'
  BY <1>1, <1>5, <1>7
<1>11. BackupInv'
  <2>1. controls.tombstones \subseteq controls'.tombstones
    BY <1>1, <1>8 DEF SameRulings
  <2> QED
    BY <1>1, <1>2, <1>5, <2>1 DEF BackupInv
<1>12. BackupClaims' = BackupClaims
  BY <1>1 DEF BackupClaims
<1>13. OneClaim(OperatorClaims(records', controls') \cup BackupClaims')
  BY <1>1, <1>7, <1>12 DEF OneClaim
<1>14. NumbersGiven(issued', counters', commands')
  <2>1. \A id \in Ids(records') : id \in Ids(recs) \cup AssertionIds(c)
    BY <1>7 DEF AssertionIds
  <2>2. NumbersGiven(Ids(records'), counters', commands')
    BY <1>1, <2>1 DEF NumbersGiven
  <2>3. commands \in Nat /\ commands' \in Nat
    BY <1>1, <1>2, ControlConstants
  <2>4. NumbersGiven(issued \cup Ids(records'), counters', commands')
    BY <1>1, <1>2, <2>2, <2>3, NumbersGrow
  <2> QED
    BY <1>5, <2>4
<1>15. IdsInv'
  BY <1>1, <1>9, <1>10, <1>11, <1>13, <1>14 DEF IdsInv
<1>16. WordsInv'
  BY <1>1, <1>8, RulingKept DEF WordsInv
<1>17. LoadChangesNothing'
  BY <1>7 DEF LoadChangesNothing
<1>18. AppliedInv'
  BY <1>8, <1>17 DEF AppliedInv
<1> QED
  BY <1>15, <1>16, <1>18 DEF ControlsInv

-----------------------------------------------------------------------------
\* Recounting the ids of the store moves no counter.
LEMMA CountersStand ==
  ASSUME IdsInv
  PROVE  Counted(records) = counters
<1>1. /\ counters \in [Sessions -> 0 .. MaxNumber] /\ Ids(records) \subseteq issued
      /\ NumbersGiven(issued, counters, commands)
  BY DEF IdsInv
<1>2. ASSUME NEW t \in Sessions
      PROVE  Counted(records)[t] = counters[t]
  <2>1. counters[t] \in Nat /\ t # Operator
    BY <1>1, RecordConstants, ControlConstants
  <2>2. \A id \in Ids(records) : id[1] = t => id[2] \in Nat /\ id[2] <= counters[t]
    BY <1>1, <2>1 DEF NumbersGiven, AnyNumber
  <2>3. counters[t] <= counters[t]
    BY <2>1
  <2>4. /\ Counted(records)[t] \in Nat
        /\ counters[t] <= Counted(records)[t] /\ Counted(records)[t] <= counters[t]
    BY <2>1, <2>2, <2>3, CountedFacts
  <2> QED
    BY <2>1, <2>4
<1>3. Counted(records) = [t \in Sessions |-> Counted(records)[t]]
  BY DEF Counted
<1>4. counters = [t \in Sessions |-> counters[t]]
  BY <1>1
<1> QED
  BY <1>2, <1>3, <1>4

\* The ids that the store's controls refer to were issued.
LEMMA ReferencesIssued ==
  ASSUME NEW c, NEW ids, ControlIds(c) \subseteq ids
  PROVE  Traced(c, ids) /\ AssertionIds(c) \subseteq ids
<1>1. \A i \in DOMAIN c.assertions : /\ IdsOf(c.assertions[i].rec) \subseteq ids
                                     /\ c.assertions[i].corrects \in ids
  BY DEF ControlIds
<1>2. \A k \in DOMAIN c.corrections : c.corrections[k].ids \subseteq ids
  BY DEF ControlIds
<1>3. \A k \in DOMAIN c.reviews : c.reviews[k].ids \subseteq ids
  BY DEF ControlIds
<1> QED
  BY <1>1, <1>2, <1>3 DEF Traced, AssertionIds

\* Controls whose assertions were there, and whose entries refer to issued ids.
Controlled(c) ==
    /\ IsControls(c, AnyNumber)
    /\ IsFiniteSet(DOMAIN c.corrections) /\ IsFiniteSet(DOMAIN c.reviews)
    /\ \A i \in DOMAIN c.assertions :
          \E j \in DOMAIN controls.assertions : c.assertions[i] = controls.assertions[j]
    /\ \A k \in DOMAIN c.corrections : c.corrections[k].ids \subseteq issued
    /\ \A k \in DOMAIN c.reviews : c.reviews[k].ids \subseteq issued
    /\ controls.tombstones \subseteq c.tombstones

\* A command that adds no assertion keeps the invariant.
LEMMA ControlKeeps ==
  ASSUME ControlsInv, NEW c, Controlled(c), Committed(records, c), Command, Counters,
         Ruling(c, word', shut'), backup' = backup, forgotten' \subseteq issued,
         word' \in [Claims -> Words],
         shut' \in [Sessions -> {"no", "excluded", "forgotten"}]
  PROVE  ControlsInv'
<1>1. /\ Sound(records, controls) /\ Ids(records) \subseteq issued
      /\ ControlIds(controls) \subseteq issued
      /\ OneClaim(OperatorClaims(records, controls) \cup BackupClaims)
      /\ counters \in [Sessions -> 0 .. MaxNumber] /\ commands \in 0 .. MaxOps
      /\ NumbersGiven(issued, counters, commands)
  BY DEF ControlsInv, IdsInv
<1>2. \A i \in DOMAIN c.assertions :
          \E j \in DOMAIN controls.assertions : c.assertions[i] = controls.assertions[j]
  BY DEF Controlled
<1>3. AssertedIn(c) \subseteq AssertedIn(controls)
  <2> SUFFICES ASSUME NEW o \in AssertedIn(c)
               PROVE  o \in AssertedIn(controls)
    OBVIOUS
  <2>1. PICK i \in DOMAIN c.assertions : o \in SaidBy(c.assertions[i].rec)
    BY DEF AssertedIn
  <2>2. PICK j \in DOMAIN controls.assertions : c.assertions[i] = controls.assertions[j]
    BY <1>2
  <2> QED
    BY <2>1, <2>2 DEF AssertedIn
<1>4. Sound(records, c)
  BY <1>1, <1>2, <1>3 DEF Sound, Owned, OwnNumbers, Controlled
<1>5. OneClaim(OperatorClaims(records, c) \cup BackupClaims)
  <2>1. OperatorClaims(records, c) \subseteq OperatorClaims(records, controls)
    BY <1>3 DEF OperatorClaims
  <2> QED
    BY <1>1, <2>1 DEF OneClaim
<1>6. Traced(controls, issued) /\ AssertionIds(controls) \subseteq issued
  BY <1>1, ReferencesIssued
<1>7. Traced(c, issued)
  <2>1. \A i \in DOMAIN c.assertions :
           /\ c.assertions[i].corrects \in issued
           /\ IdsOf(c.assertions[i].rec) \subseteq issued \cup {c.assertions[i].rec.id}
    BY <1>2, <1>6 DEF Traced
  <2> QED
    BY <2>1 DEF Traced, Controlled
<1>8. AssertionIds(c) \subseteq issued
  BY <1>2, <1>6 DEF AssertionIds
<1>9. counters' = counters /\ commands' = commands + 1 /\ commands < MaxOps
  BY CountersStand DEF ControlsInv, Counters, Command
<1>10. \A s \in Sessions : counters[s] <= counters'[s]
  <2>1. \A s \in Sessions : counters[s] \in Nat
    BY <1>1, RecordConstants
  <2> QED
    BY <1>9, <2>1
<1>11. commands' \in 0 .. MaxOps /\ commands <= commands' /\ commands \in Nat /\ commands' \in Nat
  BY <1>1, <1>9, ControlConstants
<1>12. NumbersGiven(issued, counters', commands')
  <2>1. NumbersGiven({}, counters', commands')
    BY DEF NumbersGiven
  <2>2. counters' \in [Sessions -> 0 .. MaxNumber]
    BY <1>1, <1>9
  <2>3. NumbersGiven(issued \cup {}, counters', commands')
    BY <1>1, <1>10, <1>11, <2>1, <2>2, NumbersGrow
  <2>4. issued \cup {} = issued
    OBVIOUS
  <2> QED
    BY <2>3, <2>4
<1>13. NumbersGiven(Ids(records) \cup AssertionIds(c), counters', commands')
  BY <1>1, <1>8, <1>12 DEF NumbersGiven
<1>14. Operates(records, c)
  BY <1>1, <1>4, <1>5, <1>7, <1>9, <1>10, <1>11, <1>13 DEF Operates, Controlled
<1> QED
  BY <1>14, OperationKeeps
-----------------------------------------------------------------------------
\* An occurrence of the store that an id names.
LEMMA TheOneIsThere ==
  ASSUME IdsInv, NEW id \in Ids(records)
  PROVE  /\ TheOne(id) \in SaidIn(records) /\ TheOne(id).id = id
         /\ TheOne(id) \in OccurrenceType(AnyNumber, Who) /\ Claim(TheOne(id)) \in Claims
<1>1. records \in Seq(RecordType(AnyNumber, Who)) /\ AllOf(records) = SaidIn(records)
  BY AllOfIsSaid DEF IdsInv, Sound
<1>2. \E o \in SaidIn(records) : o.id = id
  BY IdsInAreSaid
<1>3. TheOne(id) = CHOOSE o \in SaidIn(records) : o.id = id
  BY <1>1 DEF TheOne
<1>4. TheOne(id) \in SaidIn(records) /\ TheOne(id).id = id
  BY <1>2, <1>3
<1>5. TheOne(id) \in OccurrenceType(AnyNumber, Who)
  BY <1>1, <1>4, SaidIsTyped
<1>6. Claim(TheOne(id)) \in Claims
  BY <1>5 DEF OccurrenceType, Claim, Claims
<1> QED
  BY <1>4, <1>5, <1>6

\* What the store says is not forgotten.
LEMMA SaidIsAdmitted ==
  ASSUME ControlsInv, NEW o \in SaidIn(records)
  PROVE  Claim(o) \in Claims /\ Claim(o) \notin controls.tombstones
<1>1. records \in Seq(RecordType(AnyNumber, Who))
  BY DEF ControlsInv, IdsInv, Sound
<1>2. o \in OccurrenceType(AnyNumber, Who)
  BY <1>1, SaidIsTyped
<1>3. Admitted(controls, o)
  BY DEF ControlsInv, AppliedInv, Settled, SettledBy
<1> QED
  BY <1>2, <1>3 DEF Admitted, OccurrenceType, Claim, Claims

\* Exclusions keep the invariant.
LEMMA AdmitKeeps ==
  ASSUME ControlsInv, NEW s \in Sessions, NEW to \in {"no", "excluded", "forgotten"},
         Admit(s, to)
  PROVE  ControlsInv'
<1> DEFINE c == [controls EXCEPT !.excluded[s] = to]
<1>1. /\ Command /\ Committed(records, c) /\ Counters
      /\ shut' = [shut EXCEPT ![s] = to]
      /\ forgotten' = forgotten /\ backup' = backup /\ word' = word
  BY DEF Admit
<1>2. /\ IsControls(controls, AnyNumber) /\ ControlIds(controls) \subseteq issued
      /\ IsFiniteSet(DOMAIN controls.corrections) /\ IsFiniteSet(DOMAIN controls.reviews)
      /\ forgotten \subseteq issued
      /\ word \in [Claims -> Words]
      /\ shut \in [Sessions -> {"no", "excluded", "forgotten"}]
      /\ Ruling(controls, word, shut)
  BY DEF ControlsInv, IdsInv, WordsInv, Sound
<1>3. /\ controls = [reviews |-> controls.reviews, corrections |-> controls.corrections,
                     assertions |-> controls.assertions, tombstones |-> controls.tombstones,
                     excluded |-> controls.excluded]
      /\ DOMAIN controls.reviews \subseteq Claims /\ DOMAIN controls.corrections \subseteq Claims
      /\ controls.reviews \in [DOMAIN controls.reviews -> ReviewType(AnyNumber)]
      /\ controls.corrections \in [DOMAIN controls.corrections -> CorrectionType(AnyNumber)]
      /\ controls.assertions \in Seq(AssertionType(AnyNumber))
      /\ controls.tombstones \in SUBSET Claims
      /\ controls.excluded \in [Sessions -> {"no", "excluded", "forgotten"}]
  BY <1>2, ControlsFacts
<1> DEFINE e == [controls.excluded EXCEPT ![s] = to]
<1>4. c = [reviews |-> controls.reviews, corrections |-> controls.corrections,
           assertions |-> controls.assertions, tombstones |-> controls.tombstones,
           excluded |-> e]
  <2>1. c = [controls EXCEPT !.excluded = e]
    OBVIOUS
  <2> HIDE DEF e
  <2> QED
    BY <1>3, <2>1
<1>5. e \in [Sessions -> {"no", "excluded", "forgotten"}]
      /\ \A t \in Sessions : e[t] = IF t = s THEN to ELSE controls.excluded[t]
  BY <1>3
<1> HIDE DEF c, e
<1>6. /\ c.reviews = controls.reviews /\ c.corrections = controls.corrections
      /\ c.assertions = controls.assertions /\ c.tombstones = controls.tombstones
      /\ c.excluded = e
  BY <1>4
<1>7. IsControls(c, AnyNumber)
  BY <1>3, <1>4, <1>5, ControlsMade
<1>8. Traced(controls, issued)
  BY <1>2, ReferencesIssued
<1>9. Controlled(c)
  BY <1>2, <1>6, <1>7, <1>8 DEF Controlled, Traced
<1>10. shut' \in [Sessions -> {"no", "excluded", "forgotten"}]
       /\ \A t \in Sessions : shut'[t] = IF t = s THEN to ELSE shut[t]
  BY <1>1, <1>2
<1>11. Ruling(c, word', shut')
  BY <1>1, <1>2, <1>5, <1>6, <1>10 DEF Ruling
<1> QED
  BY <1>1, <1>2, <1>9, <1>10, <1>11, ControlKeeps

\* A review rules on a claim of the store.
LEMMA ReviewKeeps ==
  ASSUME ControlsInv, NEW id \in Ids(records), NEW says \in {"approved", "rejected"},
         Review(id, says)
  PROVE  ControlsInv'
<1> DEFINE k == Claim(TheOne(id))
           c == Reviewed(k, id, says)
           ids == (IF k \in DOMAIN controls.reviews THEN controls.reviews[k].ids ELSE {}) \cup {id}
           new == [says |-> says, ids |-> ids]
           reviews == [x \in {k} \cup DOMAIN controls.reviews |->
                          IF x \in {k} THEN new ELSE controls.reviews[x]]
<1>1. /\ Command /\ Committed(records, c) /\ Counters
      /\ word' = [word EXCEPT ![k] = IF @ = "corrected" THEN @ ELSE says]
      /\ forgotten' = forgotten /\ backup' = backup /\ shut' = shut
  BY DEF Review
<1>2. /\ IsControls(controls, AnyNumber) /\ ControlIds(controls) \subseteq issued
      /\ IsFiniteSet(DOMAIN controls.corrections) /\ IsFiniteSet(DOMAIN controls.reviews)
      /\ Ids(records) \subseteq issued /\ forgotten \subseteq issued
      /\ issued \subseteq AnyNumber
      /\ word \in [Claims -> Words]
      /\ shut \in [Sessions -> {"no", "excluded", "forgotten"}]
      /\ Ruling(controls, word, shut)
  BY DEF ControlsInv, IdsInv, WordsInv, Sound, NumbersGiven
<1>3. /\ controls = [reviews |-> controls.reviews, corrections |-> controls.corrections,
                     assertions |-> controls.assertions, tombstones |-> controls.tombstones,
                     excluded |-> controls.excluded]
      /\ DOMAIN controls.reviews \subseteq Claims /\ DOMAIN controls.corrections \subseteq Claims
      /\ controls.reviews \in [DOMAIN controls.reviews -> ReviewType(AnyNumber)]
      /\ controls.corrections \in [DOMAIN controls.corrections -> CorrectionType(AnyNumber)]
      /\ controls.assertions \in Seq(AssertionType(AnyNumber))
      /\ controls.tombstones \in SUBSET Claims
      /\ controls.excluded \in [Sessions -> {"no", "excluded", "forgotten"}]
  BY <1>2, ControlsFacts
<1>4. k \in Claims /\ k \notin controls.tombstones
  <2>1. TheOne(id) \in SaidIn(records)
    BY TheOneIsThere DEF ControlsInv
  <2> QED
    BY <2>1, SaidIsAdmitted
<1>5. c = [controls EXCEPT !.reviews = reviews]
  BY DEF Reviewed, Over
<1> HIDE DEF k, c
<1>6. Traced(controls, issued)
  BY <1>2, ReferencesIssued
<1>7. ids \subseteq issued /\ new \in ReviewType(AnyNumber) /\ new.ids = ids /\ new.says = says
  <2>1. ids \subseteq issued
    BY <1>2, <1>6 DEF Traced
  <2> HIDE DEF ids
  <2> QED
    BY <1>2, <2>1 DEF ReviewType
<1> HIDE DEF new, ids
<1>8. /\ reviews \in [DOMAIN reviews -> ReviewType(AnyNumber)]
      /\ DOMAIN reviews = {k} \cup DOMAIN controls.reviews
      /\ reviews[k] = new
      /\ \A x \in DOMAIN controls.reviews : x # k => reviews[x] = controls.reviews[x]
  BY <1>3, <1>7
<1> HIDE DEF reviews
<1>9. c = [reviews |-> reviews, corrections |-> controls.corrections,
           assertions |-> controls.assertions, tombstones |-> controls.tombstones,
           excluded |-> controls.excluded]
  BY <1>3, <1>5
<1>10. /\ c.reviews = reviews /\ c.corrections = controls.corrections
       /\ c.assertions = controls.assertions /\ c.tombstones = controls.tombstones
       /\ c.excluded = controls.excluded
  BY <1>9
<1>11. IsControls(c, AnyNumber)
  BY <1>3, <1>4, <1>8, <1>9, ControlsMade
<1>12. IsFiniteSet(DOMAIN c.reviews)
  <2>1. DOMAIN c.reviews = DOMAIN controls.reviews \cup {k}
    BY <1>8, <1>10
  <2> QED
    BY <1>2, <2>1, FS_AddElement
<1>13. \A x \in DOMAIN c.reviews : c.reviews[x].ids \subseteq issued
  BY <1>6, <1>7, <1>8, <1>10 DEF Traced
<1>14. Controlled(c)
  BY <1>2, <1>6, <1>10, <1>11, <1>12, <1>13 DEF Controlled, Traced
<1>15. \A x \in Claims : word'[x] = IF x = k /\ word[k] # "corrected" THEN says ELSE word[x]
  BY <1>1, <1>2, <1>4
<1>16. word' \in [Claims -> Words]
  BY <1>1, <1>2, <1>4 DEF Words
<1>17. Ruling(c, word', shut')
  <2>1. \A x \in Claims :
          /\ word'[x] = "forgotten" => x \in c.tombstones
          /\ word'[x] = "corrected" => x \in DOMAIN c.corrections \cup c.tombstones
    BY <1>2, <1>10, <1>15 DEF Ruling
  <2>2. ASSUME NEW x \in Claims, word'[x] \in {"approved", "rejected"},
               x \notin c.tombstones
        PROVE  x \in DOMAIN c.reviews /\ c.reviews[x].says = word'[x]
    <3>1. CASE x = k
      <4>1. word'[x] = says
        BY <1>15, <2>2, <3>1
      <4> QED
        BY <1>7, <1>8, <1>10, <3>1, <4>1
    <3>2. CASE x # k
      BY <1>2, <1>8, <1>10, <1>15, <2>2, <3>2 DEF Ruling
    <3> QED
      BY <3>1, <3>2
  <2>3. (DOMAIN c.corrections \cup DOMAIN c.reviews) \cap c.tombstones = {}
    BY <1>2, <1>4, <1>8, <1>10 DEF Ruling
  <2>4. \A s \in Sessions : shut'[s] # "no" => c.excluded[s] # "no"
    BY <1>1, <1>2, <1>10 DEF Ruling
  <2> QED
    BY <2>1, <2>2, <2>3, <2>4 DEF Ruling
<1> QED
  BY <1>1, <1>2, <1>14, <1>16, <1>17, ControlKeeps

-----------------------------------------------------------------------------
\* What binds ids was issued, and there is no end of neither.
LEMMA GroupsIssued ==
  ASSUME IdsInv
  PROVE  UNION Groups \subseteq issued
<1>1. Ids(records) \cup ControlIds(controls) \subseteq issued
  BY DEF IdsInv
<1> SUFFICES ASSUME NEW g \in Groups
             PROVE  g \subseteq issued
  OBVIOUS
<1>2. CASE g \in {IdsOf(records[i]) : i \in DOMAIN records}
  BY <1>1, <1>2 DEF Ids
<1>3. CASE g \in {{a.rec.id, a.corrects} : a \in ToSet(controls.assertions)}
  <2>1. PICK a \in ToSet(controls.assertions) : g = {a.rec.id, a.corrects}
    BY <1>3
  <2>2. PICK i \in DOMAIN controls.assertions : a = controls.assertions[i]
    BY DEF ToSet
  <2>3. IdsOf(a.rec) \cup {a.corrects} \subseteq ControlIds(controls)
    BY <2>2 DEF ControlIds
  <2> QED
    BY <1>1, <2>1, <2>3 DEF IdsOf
<1>4. CASE g \in {controls.corrections[k].ids \cup {controls.corrections[k].by} :
                     k \in DOMAIN controls.corrections}
  BY <1>1, <1>4 DEF ControlIds
<1>5. CASE g \in {controls.reviews[k].ids : k \in DOMAIN controls.reviews}
  BY <1>1, <1>5 DEF ControlIds
<1> QED
  BY <1>2, <1>3, <1>4, <1>5 DEF Groups

\* A function on a finite set has finitely many values.
LEMMA RangeIsFinite ==
  ASSUME NEW f, IsFiniteSet(DOMAIN f)
  PROVE  IsFiniteSet({f[x] : x \in DOMAIN f})
<1> DEFINE g == [x \in DOMAIN f |-> f[x]]
<1>1. g \in Surjection(DOMAIN f, {f[x] : x \in DOMAIN f})
  BY DEF Surjection
<1> HIDE DEF g
<1> QED
  BY <1>1, FS_Surjection

\* There are finitely many groups, so that the family of an id is well defined.
LEMMA GroupsAreFinite ==
  ASSUME IdsInv
  PROVE  IsFiniteSet(Groups)
<1>1. /\ records \in Seq(RecordType(AnyNumber, Who)) /\ IsControls(controls, AnyNumber)
      /\ IsFiniteSet(DOMAIN controls.corrections) /\ IsFiniteSet(DOMAIN controls.reviews)
  BY DEF IdsInv, Sound
<1>2. \A D : \A q \in Seq(D) : IsFiniteSet(DOMAIN q)
  <2> TAKE D
  <2> TAKE q \in Seq(D)
  <2>1. DOMAIN q = 1 .. Len(q) /\ Len(q) \in Nat
    OBVIOUS
  <2> QED
    BY <2>1, FS_Interval
<1>3. IsFiniteSet({IdsOf(records[i]) : i \in DOMAIN records})
  <2> DEFINE f == [i \in DOMAIN records |-> IdsOf(records[i])]
  <2>1. IsFiniteSet(DOMAIN f)
    BY <1>1, <1>2
  <2>2. {IdsOf(records[i]) : i \in DOMAIN records} = {f[x] : x \in DOMAIN f}
    OBVIOUS
  <2> HIDE DEF f
  <2> QED
    BY <2>1, <2>2, RangeIsFinite
<1>4. IsFiniteSet({{a.rec.id, a.corrects} : a \in ToSet(controls.assertions)})
  <2> DEFINE all == controls.assertions
             f == [i \in DOMAIN all |-> {all[i].rec.id, all[i].corrects}]
  <2>1. IsFiniteSet(DOMAIN f)
    <3>1. all \in Seq(AssertionType(AnyNumber))
      BY <1>1, ControlsFacts
    <3> QED
      BY <1>2, <3>1
  <2>2. {{a.rec.id, a.corrects} : a \in ToSet(controls.assertions)} = {f[x] : x \in DOMAIN f}
    BY DEF ToSet
  <2> HIDE DEF f
  <2> QED
    BY <2>1, <2>2, RangeIsFinite
<1>5. IsFiniteSet({controls.corrections[k].ids \cup {controls.corrections[k].by} :
                      k \in DOMAIN controls.corrections})
  <2> DEFINE f == [k \in DOMAIN controls.corrections |->
                      controls.corrections[k].ids \cup {controls.corrections[k].by}]
  <2>1. IsFiniteSet(DOMAIN f)
    BY <1>1
  <2>2. {controls.corrections[k].ids \cup {controls.corrections[k].by} :
            k \in DOMAIN controls.corrections} = {f[x] : x \in DOMAIN f}
    OBVIOUS
  <2> HIDE DEF f
  <2> QED
    BY <2>1, <2>2, RangeIsFinite
<1>6. IsFiniteSet({controls.reviews[k].ids : k \in DOMAIN controls.reviews})
  <2> DEFINE f == [k \in DOMAIN controls.reviews |-> controls.reviews[k].ids]
  <2>1. IsFiniteSet(DOMAIN f)
    BY <1>1
  <2>2. {controls.reviews[k].ids : k \in DOMAIN controls.reviews} = {f[x] : x \in DOMAIN f}
    OBVIOUS
  <2> HIDE DEF f
  <2> QED
    BY <2>1, <2>2, RangeIsFinite
<1> QED
  BY <1>3, <1>4, <1>5, <1>6, FS_Union DEF Groups

\* A family consists of ids that are bound to each other.
LEMMA FamilyFacts ==
  ASSUME IdsInv, NEW id \in UNION Groups
  PROVE  Family(id) \subseteq UNION Groups
<1> DEFINE N == Cardinality(Groups)
           All == UNION Groups
           Nbr(X) == Neighbours(X)
           Def(f, n) == f = [k \in 0 .. n |-> IF k = 0 THEN {id} ELSE Nbr(f[k - 1])]
<1>1. N \in Nat
  BY GroupsAreFinite, FS_CardinalityType
<1>2. Family(id) = (CHOOSE f : Def(f, N))[N]
  BY DEF Family
<1>3. \A X : X \subseteq All => Nbr(X) \subseteq All
  BY DEF Neighbours
<1> HIDE DEF N, Nbr, All
<1> DEFINE T == {n \in Nat : \E f : Def(f, n)}
<1>4. \A n \in Nat : n \in T
  <2>1. 0 \in T
    <3> DEFINE f == [k \in 0 .. 0 |-> {id}]
    <3>1. \A k \in 0 .. 0 : k = 0
      OBVIOUS
    <3>2. f = [k \in 0 .. 0 |-> IF k = 0 THEN {id} ELSE Nbr(f[k - 1])]
      BY <3>1
    <3> QED
      BY <3>2
  <2>2. ASSUME NEW n \in Nat, n \in T
        PROVE  n + 1 \in T
    <3>1. PICK f : f = [k \in 0 .. n |-> IF k = 0 THEN {id} ELSE Nbr(f[k - 1])]
      BY <2>2
    <3> DEFINE g == [k \in 0 .. n + 1 |-> IF k = n + 1 THEN Nbr(f[n]) ELSE f[k]]
    <3>2. ASSUME NEW k \in 0 .. n + 1
          PROVE  g[k] = IF k = 0 THEN {id} ELSE Nbr(g[k - 1])
      <4>1. CASE k = n + 1
        <5>1. k # 0 /\ k - 1 = n /\ n \in 0 .. n + 1 /\ n # n + 1
          BY <4>1
        <5>2. g[k - 1] = f[n]
          BY <5>1
        <5>3. g[k] = Nbr(f[n])
          BY <4>1
        <5> QED
          BY <5>1, <5>2, <5>3
      <4>2. CASE k = 0
        <5>1. 0 # n + 1 /\ 0 \in 0 .. n /\ 0 \in 0 .. n + 1
          OBVIOUS
        <5>2. g[0] = f[0] /\ f[0] = {id}
          BY <3>1, <5>1
        <5> QED
          BY <4>2, <5>2
      <4>3. CASE k # n + 1 /\ k # 0
        <5>1. k \in 0 .. n /\ k - 1 \in 0 .. n + 1 /\ k - 1 # n + 1
          BY <4>3
        <5>2. g[k] = f[k] /\ g[k - 1] = f[k - 1]
          BY <4>3, <5>1
        <5>3. f[k] = Nbr(f[k - 1])
          BY <3>1, <4>3, <5>1
        <5> QED
          BY <4>3, <5>2, <5>3
      <4> QED
        BY <4>1, <4>2, <4>3
    <3>3. g = [k \in 0 .. n + 1 |-> g[k]]
      OBVIOUS
    <3> HIDE DEF g
    <3>4. g = [k \in 0 .. n + 1 |-> IF k = 0 THEN {id} ELSE Nbr(g[k - 1])]
      BY <3>2, <3>3
    <3> QED
      BY <3>4
  <2> HIDE DEF T
  <2> QED
    BY <2>1, <2>2, Induction
<1>5. PICK f : Family(id) = f[N] /\ f = [k \in 0 .. N |-> IF k = 0 THEN {id} ELSE Nbr(f[k - 1])]
  <2>1. \E f : Def(f, N)
    BY <1>1, <1>4
  <2> HIDE DEF Def
  <2>2. Def(CHOOSE f : Def(f, N), N)
    BY <2>1
  <2> QED
    BY <1>2, <2>2 DEF Def
<1>6. f[0] = {id} /\ \A k \in 0 .. N - 1 : f[k + 1] = Nbr(f[k])
  <2>1. 0 \in 0 .. N /\ \A k \in 0 .. N - 1 :
           k + 1 \in 0 .. N /\ k + 1 # 0 /\ (k + 1) - 1 = k
    BY <1>1
  <2> QED
    BY <1>5, <2>1
<1> DEFINE Q == {k \in Nat : k <= N => f[k] \subseteq All}
<1>7. 0 \in Q
  BY <1>6 DEF All
<1>8. ASSUME NEW k \in Nat, k \in Q
      PROVE  k + 1 \in Q
  <2> SUFFICES ASSUME k + 1 <= N
               PROVE  f[k + 1] \subseteq All
    OBVIOUS
  <2>1. k \in 0 .. N - 1 /\ k <= N
    BY <1>1
  <2> QED
    BY <1>3, <1>6, <1>8, <2>1
<1>9. N \in Q
  <2> HIDE DEF Q
  <2> QED
    BY <1>1, <1>7, <1>8, Induction
<1>10. f[N] \subseteq All
  BY <1>1, <1>9
<1> QED
  BY <1>5, <1>10 DEF All

\* Entries of which some are taken away.
Remains(T, old, claims, left) ==
    /\ left \in [DOMAIN left -> T] /\ DOMAIN left = DOMAIN old \ claims
    /\ \A k \in DOMAIN left : left[k] = old[k]
    /\ IsFiniteSet(DOMAIN left)

\* What is taken away is all that is lost.
LEMMA WithoutFacts ==
  ASSUME NEW T, NEW entries, entries \in [DOMAIN entries -> T], IsFiniteSet(DOMAIN entries),
         NEW claims
  PROVE  Remains(T, entries, claims, Without(entries, claims))
<1> DEFINE left == Without(entries, claims)
<1>1. left = [k \in DOMAIN entries \ claims |-> entries[k]]
  BY DEF Without
<1>2. DOMAIN left = DOMAIN entries \ claims /\ \A k \in DOMAIN left : left[k] = entries[k]
  BY <1>1
<1>3. left \in [DOMAIN left -> T]
  BY <1>1, <1>2
<1>4. IsFiniteSet(DOMAIN left)
  BY <1>2, FS_Subset
<1> QED
  BY <1>2, <1>3, <1>4 DEF Remains

\* Forgetting buries claims and takes what controls say of them away.
LEMMA ForgetKeeps ==
  ASSUME ControlsInv, NEW id \in UNION Groups, Forget(id)
  PROVE  ControlsInv'
<1> DEFINE F == Family(id)
           c == Buried(F)
           claims == Identities(F)
           all == controls.assertions
           P == {i \in DOMAIN all : all[i].rec.id \notin F}
           assertions == Picked(all, P)
           corrections == Without(controls.corrections, claims)
           reviews == Without(controls.reviews, claims)
           tombstones == controls.tombstones \cup claims
           D == AssertionType(AnyNumber)
<1>1. /\ Command /\ Committed(records, c) /\ Counters
      /\ word' = [k \in Claims |-> IF k \in claims THEN "forgotten" ELSE word[k]]
      /\ forgotten' = forgotten \cup F /\ backup' = backup /\ shut' = shut
  BY DEF Forget
<1>2. /\ IsControls(controls, AnyNumber) /\ ControlIds(controls) \subseteq issued
      /\ IsFiniteSet(DOMAIN controls.corrections) /\ IsFiniteSet(DOMAIN controls.reviews)
      /\ forgotten \subseteq issued
      /\ word \in [Claims -> Words]
      /\ shut \in [Sessions -> {"no", "excluded", "forgotten"}]
      /\ Ruling(controls, word, shut)
  BY DEF ControlsInv, IdsInv, WordsInv, Sound
<1>3. /\ controls = [reviews |-> controls.reviews, corrections |-> controls.corrections,
                     assertions |-> controls.assertions, tombstones |-> controls.tombstones,
                     excluded |-> controls.excluded]
      /\ DOMAIN controls.reviews \subseteq Claims /\ DOMAIN controls.corrections \subseteq Claims
      /\ controls.reviews \in [DOMAIN controls.reviews -> ReviewType(AnyNumber)]
      /\ controls.corrections \in [DOMAIN controls.corrections -> CorrectionType(AnyNumber)]
      /\ controls.assertions \in Seq(AssertionType(AnyNumber))
      /\ controls.tombstones \in SUBSET Claims
      /\ controls.excluded \in [Sessions -> {"no", "excluded", "forgotten"}]
  BY <1>2, ControlsFacts
<1>4. forgotten' \subseteq issued
  BY <1>1, <1>2, FamilyFacts, GroupsIssued DEF ControlsInv
<1>5. claims \subseteq Claims
  <2>1. AllOf(records) = SaidIn(records)
    BY AllOfIsSaid DEF ControlsInv, IdsInv, Sound
  <2>2. \A o \in AllOf(records) : Claim(o) \in Claims
    BY <2>1, SaidIsAdmitted
  <2> QED
    BY <1>3, <2>2 DEF Identities
<1>6. c = [controls EXCEPT !.tombstones = tombstones, !.assertions = assertions,
                           !.corrections = corrections, !.reviews = reviews]
  BY DEF Buried
<1>7. all \in Seq(D) /\ P \subseteq DOMAIN all /\ \A i \in P : i \in DOMAIN all
  BY <1>3
<1> HIDE DEF c, claims, P, D
<1>8. assertions \in Seq(D) /\ PickedAt(all, P, assertions)
  BY <1>7, PickedElements
<1>9. \A i \in DOMAIN assertions : \E j \in DOMAIN all : assertions[i] = all[j]
  BY <1>7, <1>8 DEF PickedAt
<1>10. /\ corrections \in [DOMAIN corrections -> CorrectionType(AnyNumber)]
       /\ DOMAIN corrections = DOMAIN controls.corrections \ claims
       /\ \A k \in DOMAIN corrections : corrections[k] = controls.corrections[k]
       /\ IsFiniteSet(DOMAIN corrections)
  <2> DEFINE T == CorrectionType(AnyNumber)
             old == controls.corrections
  <2>1. /\ old \in [DOMAIN old -> T] /\ IsFiniteSet(DOMAIN old)
        /\ corrections = Without(old, claims)
    BY <1>2, <1>3
  <2> HIDE DEF T, old, corrections
  <2>2. Remains(T, old, claims, Without(old, claims))
    BY <2>1, WithoutFacts
  <2> QED
    BY <2>1, <2>2 DEF Remains, T, old
<1>11. /\ reviews \in [DOMAIN reviews -> ReviewType(AnyNumber)]
       /\ DOMAIN reviews = DOMAIN controls.reviews \ claims
       /\ \A k \in DOMAIN reviews : reviews[k] = controls.reviews[k]
       /\ IsFiniteSet(DOMAIN reviews)
  <2> DEFINE T == ReviewType(AnyNumber)
             old == controls.reviews
  <2>1. /\ old \in [DOMAIN old -> T] /\ IsFiniteSet(DOMAIN old)
        /\ reviews = Without(old, claims)
    BY <1>2, <1>3
  <2> HIDE DEF T, old, reviews
  <2>2. Remains(T, old, claims, Without(old, claims))
    BY <2>1, WithoutFacts
  <2> QED
    BY <2>1, <2>2 DEF Remains, T, old
<1>12. tombstones \in SUBSET Claims
  BY <1>3, <1>5
<1> HIDE DEF assertions, corrections, reviews, tombstones
<1>13. c = [reviews |-> reviews, corrections |-> corrections, assertions |-> assertions,
            tombstones |-> tombstones, excluded |-> controls.excluded]
  BY <1>3, <1>6
<1>14. /\ c.reviews = reviews /\ c.corrections = corrections
       /\ c.assertions = assertions /\ c.tombstones = tombstones
       /\ c.excluded = controls.excluded
  BY <1>13
<1>15. IsControls(c, AnyNumber)
  BY <1>3, <1>8, <1>10, <1>11, <1>12, <1>13, ControlsMade DEF D
<1>16. Traced(controls, issued)
  BY <1>2, ReferencesIssued
<1>17. Controlled(c)
  BY <1>9, <1>10, <1>11, <1>14, <1>15, <1>16 DEF Controlled, Traced, tombstones
<1>18. \A k \in Claims : word'[k] = IF k \in claims THEN "forgotten" ELSE word[k]
  BY <1>1
<1>19. word' \in [Claims -> Words]
  BY <1>1, <1>2 DEF Words
<1>20. Ruling(c, word', shut')
  <2>1. \A k \in Claims :
          /\ word'[k] = "forgotten" => k \in c.tombstones
          /\ word'[k] = "corrected" => k \in DOMAIN c.corrections \cup c.tombstones
    BY <1>2, <1>10, <1>14, <1>18 DEF Ruling, tombstones
  <2>2. \A k \in Claims : word'[k] \in {"approved", "rejected"} /\ k \notin c.tombstones =>
           k \in DOMAIN c.reviews /\ c.reviews[k].says = word'[k]
    BY <1>2, <1>11, <1>14, <1>18 DEF Ruling, tombstones
  <2>3. (DOMAIN c.corrections \cup DOMAIN c.reviews) \cap c.tombstones = {}
    BY <1>2, <1>10, <1>11, <1>14 DEF Ruling, tombstones
  <2>4. \A s \in Sessions : shut'[s] # "no" => c.excluded[s] # "no"
    BY <1>1, <1>2, <1>14 DEF Ruling
  <2> QED
    BY <2>1, <2>2, <2>3, <2>4 DEF Ruling
<1> QED
  BY <1>1, <1>2, <1>4, <1>17, <1>19, <1>20, ControlKeeps

-----------------------------------------------------------------------------
\* There is an end of what records say.
LEMMA SaidIsFinite ==
  ASSUME NEW I, NEW F, NEW recs \in Seq(RecordType(I, F)), NEW occs, occs \subseteq SaidIn(recs)
  PROVE  IsFiniteSet({Claim(o) : o \in occs})
<1>1. \A D : \A q \in Seq(D) : IsFiniteSet(DOMAIN q)
  <2> TAKE D
  <2> TAKE q \in Seq(D)
  <2>1. DOMAIN q = 1 .. Len(q) /\ Len(q) \in Nat
    OBVIOUS
  <2> QED
    BY <2>1, FS_Interval
<1>2. \A i \in DOMAIN recs : IsFiniteSet(SaidBy(recs[i]))
  <2> TAKE i \in DOMAIN recs
  <2> DEFINE u == Unfolded(recs[i])
  <2>1. recs[i] \in RecordType(I, F)
    OBVIOUS
  <2>2. u \in Seq(OccurrenceType(I, F)) /\ SaidBy(recs[i]) = {u[j] : j \in DOMAIN u}
    BY <2>1, UnfoldedFacts
  <2> HIDE DEF u
  <2>3. IsFiniteSet(DOMAIN u)
    BY <1>1, <2>2
  <2> QED
    BY <2>2, <2>3, RangeIsFinite
<1> DEFINE f == [i \in DOMAIN recs |-> SaidBy(recs[i])]
           said == {f[i] : i \in DOMAIN f}
<1>3. DOMAIN f = DOMAIN recs /\ SaidIn(recs) = UNION said /\ \A x \in said : IsFiniteSet(x)
  BY <1>2 DEF SaidIn
<1>4. IsFiniteSet(said)
  <2>1. IsFiniteSet(DOMAIN f)
    BY <1>1, <1>3
  <2> HIDE DEF f
  <2> QED
    BY <2>1, RangeIsFinite
<1> HIDE DEF said
<1>5. IsFiniteSet(SaidIn(recs))
  BY <1>3, <1>4, FS_UNION
<1>6. IsFiniteSet(occs)
  BY <1>5, FS_Subset
<1> DEFINE g == [o \in occs |-> Claim(o)]
<1>7. DOMAIN g = occs /\ {Claim(o) : o \in occs} = {g[x] : x \in DOMAIN g}
  OBVIOUS
<1> HIDE DEF g
<1> QED
  BY <1>6, <1>7, RangeIsFinite

\* The operator's ids that name claims are those of the records and assertions.
LEMMA ClaimIds ==
  ASSUME NEW recs, NEW c, NEW x \in OperatorClaims(recs, c)
  PROVE  x[1] \in Ids(recs) \cup AssertionIds(c)
<1>1. PICK o \in SaidIn(recs) \cup AssertedIn(c) : x[1] = o.id
  BY DEF OperatorClaims
<1>2. CASE o \in SaidIn(recs)
  BY <1>1, <1>2, IdsInAreSaid
<1>3. CASE o \in AssertedIn(c)
  <2>1. PICK i \in DOMAIN c.assertions : o \in SaidBy(c.assertions[i].rec)
    BY <1>3 DEF AssertedIn
  <2>2. o.id \in IdsOf(c.assertions[i].rec)
    BY <2>1, IdsAreSaid
  <2> QED
    BY <1>1, <2>2 DEF AssertionIds
<1> QED
  BY <1>1, <1>2, <1>3

\* The operator's ids in the store and the backup were issued.
LEMMA ClaimsIssued ==
  ASSUME IdsInv, NEW x \in OperatorClaims(records, controls) \cup BackupClaims
  PROVE  x[1] \in issued
<1>1. CASE x \in OperatorClaims(records, controls)
  BY <1>1, ClaimIds, ReferencesIssued DEF IdsInv
<1>2. CASE x \in BackupClaims
  <2>1. backup # <<>> /\ x \in OperatorClaims(backup[1], backup[3])
    BY <1>2 DEF BackupClaims
  <2>2. Ids(backup[1]) \subseteq issued /\ ControlIds(backup[3]) \subseteq issued
    BY <2>1 DEF IdsInv, BackupInv
  <2>3. AssertionIds(backup[3]) \subseteq issued
    BY <2>2, ReferencesIssued
  <2> QED
    BY <2>1, <2>2, <2>3, ClaimIds
<1> QED
  BY <1>1, <1>2

\* The record of a correction.
CorrectionRecord(by, text, ctx) ==
    [id |-> by, from |-> Operator, text |-> text, ctx |-> ctx, mark |-> "approved",
     dups |-> <<>>]

\* One assertion more.
Appended(c, by, corrects, a, d) ==
    /\ d.assertions \in Seq(AssertionType(AnyNumber))
    /\ \A i \in DOMAIN d.assertions :
          d.assertions[i] = a \/ \E j \in DOMAIN c.assertions : d.assertions[i] = c.assertions[j]
    /\ IdsOf(a.rec) = {by} /\ a.rec.id = by /\ a.rec.from = Operator /\ a.corrects = corrects
    /\ \A o \in AssertedIn(d) : \/ o \in AssertedIn(c)
                                \/ o.id = by /\ o.from = Operator /\ Claim(o) = Claim(a.rec)

\* A correction's assertion is all that is new.
LEMMA AppendedFacts ==
  ASSUME NEW c, c.assertions \in Seq(AssertionType(AnyNumber)),
         NEW by \in AnyNumber, NEW text \in Texts, NEW ctx \in Contexts, NEW corrects \in AnyNumber,
         NEW a, a = [corrects |-> corrects, rec |-> CorrectionRecord(by, text, ctx)],
         NEW d, d.assertions = Append(c.assertions, a)
  PROVE  Appended(c, by, corrects, a, d)
<1> DEFINE all == c.assertions
           rec == CorrectionRecord(by, text, ctx)
           D == AssertionType(AnyNumber)
<1>1. /\ rec.id = by /\ rec.from = Operator /\ rec.text = text /\ rec.ctx = ctx
      /\ rec.dups = <<>> /\ a.rec = rec /\ a.corrects = corrects
  BY DEF CorrectionRecord
<1>2. rec \in RecordType(AnyNumber, Who)
  <2>1. <<>> \in Seq(DupType(AnyNumber, Who)) /\ Operator \in Who /\ "approved" \in Marks
    BY DEF Who, Marks
  <2> QED
    BY <2>1 DEF CorrectionRecord, RecordType
<1>3. a \in D
  <2> HIDE DEF rec
  <2>1. a = [corrects |-> corrects, rec |-> rec]
    BY DEF rec
  <2> QED
    BY <1>2, <2>1 DEF AssertionType
<1> HIDE DEF rec
<1>4. DOMAIN rec.dups = {}
  BY <1>1
<1>5. IdsOf(rec) = {by}
  BY <1>1, <1>4 DEF IdsOf
<1>6. SaidBy(rec) = {Occurrence(rec, rec.text)}
  BY <1>4 DEF SaidBy, DupsSay
<1>7. \A o \in SaidBy(rec) : o.id = by /\ o.from = Operator /\ Claim(o) = Claim(rec)
  BY <1>1, <1>6 DEF Occurrence, Claim
<1>8. /\ d.assertions \in Seq(D)
      /\ \A i \in DOMAIN d.assertions : d.assertions[i] = a \/ \E j \in DOMAIN all : d.assertions[i] = all[j]
  <2> HIDE DEF D
  <2>1. Append(all, a) \in Seq(D) /\ Len(Append(all, a)) = Len(all) + 1 /\ Len(all) \in Nat
        /\ DOMAIN all = 1 .. Len(all)
        /\ Append(all, a)[Len(all) + 1] = a
        /\ \A i \in 1 .. Len(all) : Append(all, a)[i] = all[i]
    BY <1>3 DEF D
  <2>2. DOMAIN Append(all, a) = 1 .. Len(all) + 1
    BY <2>1
  <2>3. \A i \in 1 .. Len(all) + 1 : i = Len(all) + 1 \/ i \in 1 .. Len(all)
    BY <2>1
  <2> QED
    BY <2>1, <2>2, <2>3
<1>9. ASSUME NEW o \in AssertedIn(d)
      PROVE  \/ o \in AssertedIn(c)
             \/ o.id = by /\ o.from = Operator /\ Claim(o) = Claim(a.rec)
  <2>1. PICK i \in DOMAIN d.assertions : o \in SaidBy(d.assertions[i].rec)
    BY <1>9 DEF AssertedIn
  <2>2. CASE d.assertions[i] = a
    BY <1>1, <1>7, <2>1, <2>2
  <2>3. ASSUME NEW j \in DOMAIN all, d.assertions[i] = all[j]
        PROVE  o \in AssertedIn(c)
    BY <2>1, <2>3 DEF AssertedIn
  <2> QED
    BY <1>8, <2>2, <2>3
<1> QED
  BY <1>1, <1>5, <1>8, <1>9 DEF Appended, rec

\* A correction is a new assertion, under an id that was never used, and retires
\* what it corrects.
LEMMA CorrectKeeps ==
  ASSUME ControlsInv, NEW id \in Ids(records), NEW text \in Texts, Correct(id, text)
  PROVE  ControlsInv'
<1> DEFINE target == TheOne(Newest(id))
           affected == Affected(id, target)
           W == Wordings(affected)
           by == <<Operator, commands + 1>>
           c == Corrected(target, affected, by, text)
           new == [k \in W |-> [by |-> by, ids |-> {target.id} \cup
                                  {o.id : o \in {x \in affected : Claim(x) = k}}]]
           old == controls.corrections
           corrections == [k \in W \cup DOMAIN old |-> IF k \in W THEN new[k] ELSE old[k]]
           a == [corrects |-> target.id, rec |-> CorrectionRecord(by, text, target.ctx)]
           assertions == Append(controls.assertions, a)
<1>1. /\ Command /\ Newest(id) \in Ids(records) /\ Committed(records, c) /\ Counters
      /\ word' = [k \in Claims |-> IF k \in W THEN "corrected" ELSE word[k]]
      /\ forgotten' = forgotten /\ backup' = backup /\ shut' = shut
  BY DEF Correct
<1>2. /\ Sound(records, controls) /\ IsControls(controls, AnyNumber)
      /\ records \in Seq(RecordType(AnyNumber, Who))
      /\ ControlIds(controls) \subseteq issued
      /\ IsFiniteSet(DOMAIN controls.corrections) /\ IsFiniteSet(DOMAIN controls.reviews)
      /\ Ids(records) \subseteq issued /\ forgotten \subseteq issued
      /\ OneClaim(OperatorClaims(records, controls) \cup BackupClaims)
      /\ counters \in [Sessions -> 0 .. MaxNumber] /\ commands \in 0 .. MaxOps
      /\ NumbersGiven(issued, counters, commands) /\ issued \subseteq AnyNumber
      /\ word \in [Claims -> Words]
      /\ shut \in [Sessions -> {"no", "excluded", "forgotten"}]
      /\ Ruling(controls, word, shut)
  BY DEF ControlsInv, IdsInv, WordsInv, Sound, NumbersGiven
<1>3. /\ controls = [reviews |-> controls.reviews, corrections |-> controls.corrections,
                     assertions |-> controls.assertions, tombstones |-> controls.tombstones,
                     excluded |-> controls.excluded]
      /\ DOMAIN controls.reviews \subseteq Claims /\ DOMAIN controls.corrections \subseteq Claims
      /\ controls.reviews \in [DOMAIN controls.reviews -> ReviewType(AnyNumber)]
      /\ old \in [DOMAIN old -> CorrectionType(AnyNumber)]
      /\ controls.assertions \in Seq(AssertionType(AnyNumber))
      /\ controls.tombstones \in SUBSET Claims
      /\ controls.excluded \in [Sessions -> {"no", "excluded", "forgotten"}]
  BY <1>2, ControlsFacts
<1>4. /\ commands' = commands + 1 /\ commands < MaxOps /\ counters' = counters
      /\ commands \in Nat /\ commands' \in 0 .. MaxOps /\ commands' \in Nat
      /\ commands <= commands'
  <2>1. commands' = commands + 1 /\ commands < MaxOps /\ counters' = counters
    BY <1>1, CountersStand DEF ControlsInv, Counters, Command
  <2> QED
    BY <1>2, <2>1, ControlConstants
<1>5. by \in AnyNumber /\ by \notin issued /\ by[1] = Operator /\ by[2] = commands'
  <2>1. by[1] = Operator /\ by[2] = commands + 1
    OBVIOUS
  <2>2. \A i \in issued : i[1] = Operator => i[2] <= commands
    BY <1>2 DEF NumbersGiven
  <2>3. by \notin issued
    BY <1>4, <2>1, <2>2
  <2>4. by \in AnyNumber
    BY <1>4 DEF AnyNumber, Who
  <2> QED
    BY <1>4, <2>1, <2>3, <2>4
<1>6. /\ target \in OccurrenceType(AnyNumber, Who) /\ target.id \in Ids(records)
      /\ target.id \in issued /\ target.id \in AnyNumber /\ target.ctx \in Contexts
  <2>1. target \in OccurrenceType(AnyNumber, Who) /\ target.id \in Ids(records)
    BY <1>1, TheOneIsThere DEF ControlsInv
  <2> HIDE DEF target
  <2> QED
    BY <1>2, <2>1 DEF OccurrenceType
<1>7. /\ affected \subseteq SaidIn(records)
      /\ \A o \in affected : o.id \in issued
      /\ \A k \in W : k \in Claims /\ k \notin controls.tombstones
      /\ IsFiniteSet(W)
  <2>1. AllOf(records) = SaidIn(records)
    BY <1>2, AllOfIsSaid
  <2>2. affected \subseteq SaidIn(records)
    BY <2>1 DEF Affected
  <2> HIDE DEF affected
  <2>3. \A o \in affected : o.id \in issued
    BY <1>2, <2>2, IdsInAreSaid
  <2>4. W \subseteq {Claim(o) : o \in affected}
    BY DEF Wordings
  <2>5. \A k \in W : k \in Claims /\ k \notin controls.tombstones
    BY <2>2, <2>4, SaidIsAdmitted
  <2>6. IsFiniteSet({Claim(o) : o \in affected})
    BY <1>2, <2>2, SaidIsFinite
  <2> QED
    BY <2>2, <2>3, <2>4, <2>5, <2>6, FS_Subset
<1>8. c = [controls EXCEPT !.corrections = corrections, !.assertions = assertions]
  <2>1. [Canonical(Operator, by, [text |-> text, ctx |-> target.ctx]) EXCEPT !.mark = "approved"]
           = CorrectionRecord(by, text, target.ctx)
    <3> HIDE DEF by, target
    <3> QED
      BY DEF Canonical, CorrectionRecord
  <2>2. Over(new, old) = corrections
    <3> HIDE DEF W
    <3>1. DOMAIN new = W
      OBVIOUS
    <3> HIDE DEF new
    <3> QED
      BY <3>1 DEF Over
  <2>3. c = [controls EXCEPT
                !.corrections = Over(new, old),
                !.assertions = Append(controls.assertions,
                    [corrects |-> target.id,
                     rec |-> [Canonical(Operator, by, [text |-> text, ctx |-> target.ctx])
                                EXCEPT !.mark = "approved"]])]
    BY DEF Corrected
  <2> HIDE DEF c, corrections, new, old, by, target
  <2> QED
    BY <2>1, <2>2, <2>3
<1> HIDE DEF c, by, target, affected, W
<1>9. \A k \in W : /\ new[k] \in CorrectionType(AnyNumber)
                   /\ new[k].ids \subseteq issued
  <2> TAKE k \in W
  <2> DEFINE ids == {target.id} \cup {o.id : o \in {x \in affected : Claim(x) = k}}
  <2>1. ids \subseteq issued
    BY <1>6, <1>7
  <2>2. new[k] = [by |-> by, ids |-> ids]
    OBVIOUS
  <2> HIDE DEF ids, new
  <2>3. ids \subseteq AnyNumber
    BY <1>2, <2>1
  <2> QED
    BY <1>5, <2>1, <2>2, <2>3 DEF CorrectionType
<1> HIDE DEF new
<1>10. Traced(controls, issued) /\ AssertionIds(controls) \subseteq issued
  BY <1>2, ReferencesIssued
<1>11. /\ corrections \in [DOMAIN corrections -> CorrectionType(AnyNumber)]
       /\ DOMAIN corrections = W \cup DOMAIN old
       /\ \A k \in DOMAIN corrections : corrections[k].ids \subseteq issued
       /\ IsFiniteSet(DOMAIN corrections)
  <2>1. \A k \in DOMAIN old : old[k].ids \subseteq issued
    BY <1>10 DEF Traced
  <2>2. /\ corrections \in [DOMAIN corrections -> CorrectionType(AnyNumber)]
        /\ DOMAIN corrections = W \cup DOMAIN old
        /\ \A k \in DOMAIN corrections : corrections[k] = IF k \in W THEN new[k] ELSE old[k]
    BY <1>3, <1>9
  <2> HIDE DEF corrections
  <2>3. \A k \in DOMAIN corrections : corrections[k].ids \subseteq issued
    BY <1>9, <2>1, <2>2
  <2> QED
    <3>1. IsFiniteSet(W) /\ IsFiniteSet(DOMAIN old)
      BY <1>2, <1>7
    <3>2. IsFiniteSet(W \cup DOMAIN old)
      <4> HIDE DEF old
      <4> QED
        BY <3>1, FS_Union
    <3> QED
      BY <2>2, <2>3, <3>2
<1> HIDE DEF corrections, old
<1>12. c = [reviews |-> controls.reviews, corrections |-> corrections,
            assertions |-> assertions, tombstones |-> controls.tombstones,
            excluded |-> controls.excluded]
  BY <1>3, <1>8
<1>13. /\ c.reviews = controls.reviews /\ c.corrections = corrections
       /\ c.assertions = assertions /\ c.tombstones = controls.tombstones
       /\ c.excluded = controls.excluded
  BY <1>12
<1>14. a = [corrects |-> target.id, rec |-> CorrectionRecord(by, text, target.ctx)]
       /\ c.assertions = Append(controls.assertions, a)
  BY <1>13
<1> HIDE DEF a, assertions
<1>15. /\ c.assertions \in Seq(AssertionType(AnyNumber))
       /\ \A i \in DOMAIN c.assertions :
             c.assertions[i] = a \/ \E j \in DOMAIN controls.assertions :
                                       c.assertions[i] = controls.assertions[j]
       /\ IdsOf(a.rec) = {by} /\ a.rec.id = by /\ a.rec.from = Operator
       /\ a.corrects = target.id
       /\ \A o \in AssertedIn(c) : \/ o \in AssertedIn(controls)
                                   \/ o.id = by /\ o.from = Operator /\ Claim(o) = Claim(a.rec)
  <2>1. Appended(controls, by, target.id, a, c)
    BY <1>3, <1>5, <1>6, <1>14, AppendedFacts
  <2> QED
    BY <2>1 DEF Appended
<1>16. IsControls(c, AnyNumber)
  <2>1. DOMAIN corrections \subseteq Claims
    BY <1>3, <1>7, <1>11 DEF old
  <2> QED
    BY <1>3, <1>11, <1>12, <1>13, <1>15, <2>1, ControlsMade
<1>17. Sound(records, c)
  <2>1. OwnNumbers(AssertedIn(c))
    BY <1>2, <1>5, <1>15 DEF Sound, Owned, OwnNumbers
  <2>2. \A i \in DOMAIN c.assertions : c.assertions[i].rec.from = Operator
    BY <1>2, <1>15 DEF Sound, Owned
  <2> QED
    BY <1>2, <1>11, <1>13, <1>16, <2>1, <2>2 DEF Sound, Owned
<1>18. Traced(c, issued)
  <2>1. \A i \in DOMAIN c.assertions :
           /\ c.assertions[i].corrects \in issued
           /\ IdsOf(c.assertions[i].rec) \subseteq issued \cup {c.assertions[i].rec.id}
    BY <1>6, <1>10, <1>15 DEF Traced
  <2> QED
    BY <1>10, <1>11, <1>13, <2>1 DEF Traced
<1>19. \A x \in OperatorClaims(records, c) :
          \/ x \in OperatorClaims(records, controls)
          \/ x = <<by, Claim(a.rec)>>
  <2> TAKE x \in OperatorClaims(records, c)
  <2>1. PICK o \in SaidIn(records) \cup AssertedIn(c) :
           o.from = Operator /\ x = <<o.id, Claim(o)>>
    BY DEF OperatorClaims
  <2>2. CASE o \in SaidIn(records) \cup AssertedIn(controls)
    BY <2>1, <2>2 DEF OperatorClaims
  <2>3. CASE o.id = by /\ Claim(o) = Claim(a.rec)
    BY <2>1, <2>3
  <2> QED
    BY <1>15, <2>2, <2>3
<1>20. OneClaim(OperatorClaims(records, c) \cup BackupClaims)
  <2> DEFINE before == OperatorClaims(records, controls) \cup BackupClaims
             named == <<by, Claim(a.rec)>>
  <2>1. \A x \in before : x[1] # by
    BY <1>5, ClaimsIssued DEF ControlsInv
  <2>2. \A x \in OperatorClaims(records, c) \cup BackupClaims : x \in before \/ x = named
    BY <1>19
  <2>3. named[1] = by
    OBVIOUS
  <2>4. OneClaim(before)
    BY <1>2
  <2> HIDE DEF before, named
  <2> QED
    BY <2>1, <2>2, <2>3, <2>4 DEF OneClaim
<1>21. NumbersGiven(Ids(records) \cup AssertionIds(c), counters', commands')
  <2>1. AssertionIds(c) \subseteq issued \cup {by}
    BY <1>10, <1>15 DEF AssertionIds
  <2>2. NumbersGiven({by}, counters, commands')
    BY <1>4, <1>5 DEF NumbersGiven
  <2>3. \A s \in Sessions : counters[s] <= counters[s]
    <3>1. \A s \in Sessions : counters[s] \in Nat
      BY <1>2, RecordConstants
    <3> QED
      BY <3>1
  <2>4. NumbersGiven(issued \cup {by}, counters, commands')
    BY <1>2, <1>4, <2>2, <2>3, NumbersGrow
  <2> QED
    BY <1>2, <1>4, <2>1, <2>4 DEF NumbersGiven
<1>22. \A k \in Claims : word'[k] = IF k \in W THEN "corrected" ELSE word[k]
  BY <1>1
<1>23. word' \in [Claims -> Words]
  BY <1>1, <1>2 DEF Words
<1>24. Ruling(c, word', shut')
  <2>1. \A k \in Claims :
          /\ word'[k] = "forgotten" => k \in c.tombstones
          /\ word'[k] = "corrected" => k \in DOMAIN c.corrections \cup c.tombstones
          /\ word'[k] \in {"approved", "rejected"} /\ k \notin c.tombstones =>
                k \in DOMAIN c.reviews /\ c.reviews[k].says = word'[k]
    BY <1>2, <1>11, <1>13, <1>22 DEF Ruling, old
  <2>2. (DOMAIN c.corrections \cup DOMAIN c.reviews) \cap c.tombstones = {}
    BY <1>2, <1>7, <1>11, <1>13 DEF Ruling, old
  <2>3. \A s \in Sessions : shut'[s] # "no" => c.excluded[s] # "no"
    BY <1>1, <1>2, <1>13 DEF Ruling
  <2> QED
    BY <2>1, <2>2, <2>3 DEF Ruling
<1>25. \A s \in Sessions : counters[s] <= counters'[s]
  <2>1. \A s \in Sessions : counters[s] \in Nat
    BY <1>2, RecordConstants
  <2> QED
    BY <1>4, <2>1
<1>26. Operates(records, c)
  BY <1>1, <1>2, <1>4, <1>13, <1>17, <1>18, <1>20, <1>21, <1>23, <1>24, <1>25 DEF Operates
<1> QED
  BY <1>26, OperationKeeps

-----------------------------------------------------------------------------
\* What an ingestion merges before the controls apply.
MergedWell(s, units, merged) ==
    /\ Len(units) \in Nat
    /\ merged \in Seq(RecordType(AnyNumber, Who))
    /\ {o \in SaidIn(merged) : o.from # s} = {o \in SaidIn(records) : o.from # s}
    /\ OwnNumbers(SaidIn(merged))
    /\ \A id \in Ids(merged) : id \in Ids(records) \/ NewNumber(s, units, id)

\* An ingestion changes what its session says, and takes new numbers.
LEMMA AdmittedMerges ==
  ASSUME IdsInv, NEW s \in Sessions, NEW found \in Extractions(s),
         NEW units, units = FilterIncoming(s, found),
         NEW merged \in IngestedRecords(s, units, Cited)
  PROVE  MergedWell(s, units, merged)
<1> DEFINE P == {p \in DOMAIN found :
                   /\ ~Excluded(controls, s)
                   /\ Claim(found[p]) \notin controls.tombstones
                   /\ Claim(found[p]) \notin DOMAIN controls.corrections}
<1>1. units \in Seq(UnitType)
  <2>1. found \in Seq(UnitType) /\ units = Picked(found, P) /\ P \subseteq DOMAIN found
    BY ExtractionsAreUnits DEF FilterIncoming
  <2> HIDE DEF P
  <2> QED
    BY <2>1, PickedElements
<1>2. /\ records \in Seq(RecordType(AnyNumber, Who)) /\ OwnNumbers(SaidIn(records))
      /\ Ids(records) \subseteq issued /\ NumbersGiven(issued, counters, commands)
      /\ counters \in [Sessions -> 0 .. MaxNumber]
  BY DEF IdsInv, Sound, Owned
<1>3. counters[s] \in Nat /\ s # Operator
  BY <1>2, RecordConstants, ControlConstants
<1>4. \A id \in Ids(records) : id[1] = s => id[2] <= counters[s]
  BY <1>2, <1>3 DEF NumbersGiven
<1>5. /\ merged \in Seq(RecordType(AnyNumber, Who))
      /\ {o \in SaidIn(merged) : o.from # s} = {o \in SaidIn(records) : o.from # s}
      /\ OwnNumbers(SaidIn(merged))
      /\ \A id \in Ids(merged) : id \in Ids(records) \/ NewNumber(s, units, id)
  BY <1>1, <1>2, <1>3, <1>4, MergedRecords
<1>6. Len(units) \in Nat
  BY <1>1
<1> QED
  BY <1>5, <1>6 DEF MergedWell

\* Ingestions keep the invariant.
LEMMA IngestAdmittedKeeps ==
  ASSUME ControlsInv, NEW s \in Sessions, NEW found \in Extractions(s),
         IngestAdmitted(s, found)
  PROVE  ControlsInv'
<1> DEFINE units == FilterIncoming(s, found)
<1>1. PICK merged \in IngestedRecords(s, units, Cited) :
         /\ counters' = Counted(merged) /\ counters'[s] <= MaxNumber
         /\ Committed(merged, controls)
         /\ forgotten' = forgotten /\ backup' = backup /\ commands' = commands
         /\ word' = word /\ shut' = shut
  BY DEF IngestAdmitted
<1>2. MergedWell(s, units, merged)
  BY AdmittedMerges DEF ControlsInv
<1> HIDE DEF units
<1>3. /\ merged \in Seq(RecordType(AnyNumber, Who)) /\ OwnNumbers(SaidIn(merged))
      /\ \A o \in SaidIn(merged) : o.from # s => o \in SaidIn(records)
      /\ \A id \in Ids(merged) : id \in Ids(records) \/ NewNumber(s, units, id)
      /\ Len(units) \in Nat
  BY <1>2 DEF MergedWell
<1>4. /\ Sound(records, controls) /\ ControlIds(controls) \subseteq issued
      /\ Ids(records) \subseteq issued /\ forgotten \subseteq issued
      /\ OneClaim(OperatorClaims(records, controls) \cup BackupClaims)
      /\ counters \in [Sessions -> 0 .. MaxNumber] /\ commands \in 0 .. MaxOps
      /\ NumbersGiven(issued, counters, commands)
      /\ word \in [Claims -> Words]
      /\ shut \in [Sessions -> {"no", "excluded", "forgotten"}]
      /\ Ruling(controls, word, shut)
  BY DEF ControlsInv, IdsInv, WordsInv
<1>5. \A t \in Sessions : counters[t] \in Nat /\ counters[t] <= MaxNumber /\ t # Operator
  BY <1>4, RecordConstants, ControlConstants
<1>6. Sound(merged, controls)
  BY <1>3, <1>4 DEF Sound, Owned
<1>7. Traced(controls, issued) /\ AssertionIds(controls) \subseteq issued
  BY <1>4, ReferencesIssued
<1>8. OneClaim(OperatorClaims(merged, controls) \cup BackupClaims)
  <2>1. \A x \in OperatorClaims(merged, controls) : x \in OperatorClaims(records, controls)
    BY <1>3, <1>5 DEF OperatorClaims
  <2> QED
    BY <1>4, <2>1 DEF OneClaim
<1>9. \A id \in Ids(merged) : NewNumber(s, units, id) =>
         /\ id \in AnyNumber /\ id[1] = s /\ id[2] \in Nat /\ id[2] >= 1
         /\ id[2] <= counters[s] + Len(units) /\ id[1] # Operator
  <2> SUFFICES ASSUME NEW id \in Ids(merged), NEW n \in Nat, id = <<s, n>>, n > counters[s],
                      n <= counters[s] + Len(units)
               PROVE  /\ id \in AnyNumber /\ id[1] = s /\ id[2] \in Nat /\ id[2] >= 1
                      /\ id[2] <= counters[s] + Len(units) /\ id[1] # Operator
    BY DEF NewNumber
  <2> QED
    BY <1>5 DEF AnyNumber, Who
<1>10. \A id \in Ids(records) :
          /\ id \in AnyNumber /\ id[2] \in Nat /\ id[2] >= 1
          /\ id[1] = Operator => id[2] <= commands
          /\ id[1] # Operator => id[1] \in Sessions /\ id[2] <= counters[id[1]]
  BY <1>4 DEF NumbersGiven, AnyNumber, Who
<1>11. ASSUME NEW t \in Sessions
       PROVE  /\ counters'[t] \in 0 .. MaxNumber /\ counters[t] <= counters'[t]
              /\ \A id \in Ids(merged) : id[1] = t => id[2] <= counters'[t]
  <2> DEFINE b == IF t = s THEN counters[s] + Len(units) ELSE counters[t]
  <2>1. b \in Nat /\ counters[t] <= b
    BY <1>3, <1>5
  <2>2. \A id \in Ids(merged) : id[1] = t => id[2] \in Nat /\ id[2] <= b
    <3> SUFFICES ASSUME NEW id \in Ids(merged), id[1] = t
                 PROVE  id[2] \in Nat /\ id[2] <= b
      OBVIOUS
    <3>1. CASE id \in Ids(records)
      <4>1. id[2] \in Nat /\ id[2] <= counters[t]
        BY <1>5, <1>10, <3>1
      <4> QED
        BY <1>5, <2>1, <4>1
    <3>2. CASE NewNumber(s, units, id)
      BY <1>9, <3>2
    <3> QED
      BY <1>3, <3>1, <3>2
  <2> HIDE DEF b
  <2>3. /\ Counted(merged)[t] \in Nat
        /\ counters[t] <= Counted(merged)[t] /\ Counted(merged)[t] <= b
        /\ \A id \in Ids(merged) : id[1] = t => id[2] <= Counted(merged)[t]
    BY <1>5, <2>1, <2>2, CountedFacts
  <2>4. counters'[t] <= MaxNumber
    <3>1. CASE t = s
      BY <1>1, <3>1
    <3>2. CASE t # s
      <4>1. b = counters[t] /\ MaxNumber \in Nat
        BY <3>2, RecordConstants DEF b
      <4> QED
        BY <1>1, <1>5, <2>3, <4>1
    <3> QED
      BY <3>1, <3>2
  <2> QED
    BY <1>1, <2>3, <2>4, RecordConstants
<1>12. counters' \in [Sessions -> 0 .. MaxNumber]
  <2>1. counters' = [t \in Sessions |-> counters'[t]]
    BY <1>1 DEF Counted
  <2> QED
    BY <1>11, <2>1
<1>13. commands \in Nat /\ commands <= commands
  BY <1>4, ControlConstants
<1>14. NumbersGiven(Ids(merged), counters', commands)
  <2> SUFFICES ASSUME NEW id \in Ids(merged)
               PROVE  /\ id \in AnyNumber /\ id[2] >= 1
                      /\ id[1] = Operator => id[2] <= commands
                      /\ id[1] # Operator => id[2] <= counters'[id[1]]
    BY DEF NumbersGiven
  <2>1. CASE id \in Ids(records)
    BY <1>10, <1>11, <2>1
  <2>2. CASE NewNumber(s, units, id)
    BY <1>9, <1>11, <2>2
  <2> QED
    BY <1>3, <2>1, <2>2
<1>15. NumbersGiven(issued \cup Ids(merged), counters', commands)
  BY <1>4, <1>11, <1>12, <1>13, <1>14, NumbersGrow
<1>16. NumbersGiven(Ids(merged) \cup AssertionIds(controls), counters', commands')
  BY <1>1, <1>7, <1>15 DEF NumbersGiven
<1>17. Operates(merged, controls)
  BY <1>1, <1>4, <1>6, <1>7, <1>8, <1>11, <1>12, <1>13, <1>16 DEF Operates
<1> QED
  BY <1>17, OperationKeeps

\* An ingestion gives out numbers that were never used: no assertion is missing
\* that it could bring back.
LEMMA IngestedIdsAreNew ==
  ASSUME ControlsInv, NEW s \in Sessions, NEW found \in Extractions(s),
         IngestAdmitted(s, found)
  PROVE  (Ids(records') \ Ids(records)) \cap issued = {}
<1> DEFINE units == FilterIncoming(s, found)
<1>1. PICK merged \in IngestedRecords(s, units, Cited) : Committed(merged, controls)
  BY DEF IngestAdmitted
<1>2. MergedWell(s, units, merged)
  BY AdmittedMerges DEF ControlsInv
<1> HIDE DEF units
<1>3. /\ merged \in Seq(RecordType(AnyNumber, Who))
      /\ \A o \in SaidIn(records) : o.from # s => o \in SaidIn(merged)
      /\ \A id \in Ids(merged) : id \in Ids(records) \/ NewNumber(s, units, id)
  BY <1>2 DEF MergedWell
<1>4. /\ records \in Seq(RecordType(AnyNumber, Who)) /\ IsControls(controls, AnyNumber)
      /\ Owned(records, controls)
      /\ OneClaim(OperatorClaims(records, controls))
      /\ NumbersGiven(issued, counters, commands)
      /\ counters \in [Sessions -> 0 .. MaxNumber]
      /\ AppliedRecords(records, controls) = records
  <2>1. OneClaim(OperatorClaims(records, controls) \cup BackupClaims)
    BY DEF ControlsInv, IdsInv
  <2>2. OneClaim(OperatorClaims(records, controls))
    BY <2>1 DEF OneClaim
  <2> QED
    BY <2>2 DEF ControlsInv, IdsInv, AppliedInv, LoadChangesNothing, Sound
<1>5. ASSUME NEW m \in DOMAIN Missing(merged, controls)
      PROVE  FALSE
  <2>1. PICK j \in DOMAIN Standing(controls) :
           /\ Missing(merged, controls)[m] = Standing(controls)[j].rec
           /\ Missing(merged, controls)[m].id \notin Ids(merged)
    BY <1>4, MissingFacts
  <2> DEFINE id == Standing(controls)[j].rec.id
  <2>2. id \in Ids(records)
    BY <1>4, StandingIsThere
  <2>3. id[1] = Operator
    <3>1. PICK i \in DOMAIN controls.assertions : Standing(controls)[j] = controls.assertions[i]
      BY <1>4, StandingFacts
    <3>2. \E o \in AssertedIn(controls) : o.id = controls.assertions[i].rec.id /\ o.id[1] = Operator
      BY <1>4, AssertionFacts
    <3> QED
      BY <3>1, <3>2
  <2>4. PICK o \in SaidIn(records) : o.id = id
    BY <2>2, IdsInAreSaid
  <2>5. o.from = Operator
    BY <1>4, <2>3, <2>4 DEF Owned, OwnNumbers
  <2>6. o \in SaidIn(merged)
    BY <1>3, <2>5, ControlConstants
  <2>7. id \in Ids(merged)
    BY <2>4, <2>6, IdsInAreSaid
  <2> QED
    BY <2>1, <2>7
<1>6. SaidIn(records') = RuledOn(controls, SaidIn(merged) \cup SaidIn(Missing(merged, controls)))
  <2>1. records' = AppliedRecords(merged, controls)
    BY <1>1 DEF Committed
  <2> QED
    BY <1>3, <1>4, <2>1, AppliedRecordsFacts
<1>7. SaidIn(Missing(merged, controls)) = {}
  BY <1>5 DEF SaidIn
<1>8. ASSUME NEW id \in Ids(records'), id \notin Ids(records)
      PROVE  id \notin issued
  <2>1. PICK o \in SaidIn(records') : o.id = id
    BY IdsInAreSaid
  <2>2. PICK x \in SaidIn(merged) : o = Ruled(controls, x)
    BY <1>6, <1>7, <2>1 DEF RuledOn
  <2>3. x \in OccurrenceType(AnyNumber, Who) /\ Rulings(controls)
    BY <1>3, <1>4, SaidIsTyped, ControlsFacts
  <2>4. x.id = id
    BY <2>1, <2>2, <2>3, RuledFacts
  <2>5. NewNumber(s, units, id)
    BY <1>3, <1>8, <2>4, IdsInAreSaid
  <2>6. PICK n \in Nat : id = <<s, n>> /\ n > counters[s]
    BY <2>5 DEF NewNumber
  <2>7. counters[s] \in Nat /\ s # Operator /\ id[1] = s /\ id[2] = n
    BY <1>4, <2>6, RecordConstants, ControlConstants
  <2>8. id \in issued => id[2] <= counters[s]
    BY <1>4, <2>7 DEF NumbersGiven
  <2> QED
    BY <2>6, <2>7, <2>8
<1> QED
  BY <1>8

-----------------------------------------------------------------------------
\* Some entries of two kinds, the newer where there are both.
Chosen(T, new, old, keys, left) ==
    /\ left \in [DOMAIN left -> T] /\ DOMAIN left = keys /\ IsFiniteSet(keys)
    /\ \A k \in DOMAIN left : \/ k \in DOMAIN new /\ left[k] = new[k]
                              \/ k \notin DOMAIN new /\ k \in DOMAIN old /\ left[k] = old[k]

\* Newer entries over older ones, restricted to some.
LEMMA OverFacts ==
  ASSUME NEW T, NEW new, new \in [DOMAIN new -> T], IsFiniteSet(DOMAIN new),
         NEW old, old \in [DOMAIN old -> T], IsFiniteSet(DOMAIN old),
         NEW keys, keys \subseteq DOMAIN Over(new, old)
  PROVE  Chosen(T, new, old, keys, [k \in keys |-> Over(new, old)[k]])
<1> DEFINE all == Over(new, old)
           left == [k \in keys |-> all[k]]
<1>1. /\ DOMAIN all = DOMAIN new \cup DOMAIN old
      /\ \A k \in DOMAIN all : all[k] = IF k \in DOMAIN new THEN new[k] ELSE old[k]
  BY DEF Over
<1> HIDE DEF all
<1>2. DOMAIN left = keys /\ \A k \in keys : left[k] = all[k]
  OBVIOUS
<1> HIDE DEF left
<1>3. \A k \in keys : \/ k \in DOMAIN new /\ left[k] = new[k]
                      \/ k \notin DOMAIN new /\ k \in DOMAIN old /\ left[k] = old[k]
  BY <1>1, <1>2 DEF all
<1>4. \A k \in keys : left[k] \in T
  BY <1>3
<1>5. left = [k \in keys |-> left[k]]
  BY DEF left
<1>6. left \in [keys -> T]
  BY <1>4, <1>5
<1>7. IsFiniteSet(keys)
  <2>1. IsFiniteSet(DOMAIN new \cup DOMAIN old)
    BY FS_Union
  <2>2. keys \subseteq DOMAIN new \cup DOMAIN old
    BY <1>1 DEF all
  <2> QED
    BY <2>1, <2>2, FS_Subset
<1> QED
  BY <1>2, <1>3, <1>6, <1>7 DEF Chosen, left, all

\* Elements of a sequence come from two others.
DrawnFrom(q, old, new) ==
    \A i \in DOMAIN q : \/ \E j \in DOMAIN old : q[i] = old[j]
                        \/ \E j \in DOMAIN new : q[i] = new[j]

\* Of each assertion of a sequence another keeps one with its id.
KeptIn(q, new) ==
    \A j \in DOMAIN new : \E i \in DOMAIN q : \E m \in DOMAIN new :
        q[i] = new[m] /\ new[m].rec.id = new[j].rec.id

\* Merged assertions are from the backup or from the present, whose ids all stay.
LEMMA MergedAssertionsFacts ==
  ASSUME NEW D, NEW old \in Seq(D), NEW new \in Seq(D)
  PROVE  /\ MergedAssertions(old, new) \in Seq(D)
         /\ DrawnFrom(MergedAssertions(old, new), old, new)
         /\ KeptIn(MergedAssertions(old, new), new)
<1> DEFINE Of(a) == {b \in ToSet(new) : b.rec.id = a.rec.id}
           n == Len(old)
           f == [i \in DOMAIN old |->
                   IF Of(old[i]) = {} THEN old[i] ELSE CHOOSE b \in Of(old[i]) : TRUE]
           P == {j \in DOMAIN new : \A a \in ToSet(old) : a.rec.id # new[j].rec.id}
           g == Picked(new, P)
           h == f \o g
<1>1. MergedAssertions(old, new) = h
  BY DEF MergedAssertions
<1>2. n \in Nat /\ DOMAIN old = 1 .. n /\ \A i \in 1 .. n : old[i] \in D
  OBVIOUS
<1>3. \A a : \A b \in Of(a) : b.rec.id = a.rec.id /\ \E j \in DOMAIN new : b = new[j]
  BY DEF ToSet
<1>4. \A j \in DOMAIN new : new[j] \in D
  OBVIOUS
<1>5. /\ P \subseteq DOMAIN new
      /\ \A j \in DOMAIN new : j \in P \/ \E i \in DOMAIN old : new[j] \in Of(old[i])
  BY DEF ToSet
<1> HIDE DEF P, Of
<1>6. ASSUME NEW i \in 1 .. n
      PROVE  /\ f[i] \in D
             /\ f[i] = old[i] \/ \E j \in DOMAIN new : f[i] = new[j]
             /\ Of(old[i]) # {} => f[i] \in Of(old[i])
  <2>1. f[i] = IF Of(old[i]) = {} THEN old[i] ELSE CHOOSE b \in Of(old[i]) : TRUE
    BY <1>2
  <2> HIDE DEF f
  <2>2. f[i] = old[i] \/ f[i] \in Of(old[i])
    BY <2>1
  <2> QED
    BY <1>2, <1>3, <1>4, <2>1, <2>2
<1>7. f \in Seq(D) /\ Len(f) = n /\ DOMAIN f = 1 .. n
  <2>1. f = [i \in 1 .. n |-> f[i]]
    BY <1>2
  <2> HIDE DEF f
  <2> QED
    BY <1>2, <1>6, <2>1, IsASeq
<1>8. /\ g \in Seq(D) /\ \A k \in DOMAIN g : \E j \in DOMAIN new : g[k] = new[j]
      /\ \A j \in P : \E k \in DOMAIN g : g[k] = new[j]
  <2>1. Picked(new, P) \in Seq(D) /\ PickedAt(new, P, Picked(new, P))
    BY <1>5, PickedElements
  <2> QED
    BY <1>5, <2>1 DEF PickedAt
<1> HIDE DEF f, g
<1>9. /\ h \in Seq(D) /\ Len(h) = Len(f) + Len(g) /\ Len(g) \in Nat
      /\ \A i \in 1 .. Len(f) + Len(g) : h[i] = IF i <= Len(f) THEN f[i] ELSE g[i - Len(f)]
  <2>1. Len(g) \in Nat
    BY <1>8
  <2>2. h \in Seq(D) /\ Len(h) = Len(f) + Len(g)
    BY <1>7, <1>8, ConcatProperties
  <2>3. \A i \in 1 .. Len(f) + Len(g) : h[i] = IF i <= Len(f) THEN f[i] ELSE g[i - Len(f)]
    BY <1>7, <1>8, ConcatProperties
  <2> QED
    BY <2>1, <2>2, <2>3
<1> HIDE DEF h
<1>10. ASSUME NEW i \in DOMAIN h
       PROVE  \/ \E j \in DOMAIN old : h[i] = old[j]
              \/ \E j \in DOMAIN new : h[i] = new[j]
  <2>1. i \in 1 .. n + Len(g)
    BY <1>7, <1>9
  <2>2. CASE i <= n
    <3>1. i \in 1 .. n /\ h[i] = f[i]
      BY <1>2, <1>7, <1>9, <2>1, <2>2
    <3> QED
      BY <1>2, <1>6, <3>1
  <2>3. CASE ~(i <= n)
    <3>1. i - n \in 1 .. Len(g) /\ h[i] = g[i - n]
      BY <1>2, <1>7, <1>9, <2>1, <2>3
    <3>2. i - n \in DOMAIN g
      BY <1>8, <3>1
    <3> QED
      BY <1>8, <3>1, <3>2
  <2> QED
    BY <2>2, <2>3
<1>11. ASSUME NEW j \in DOMAIN new
       PROVE  \E i \in DOMAIN h : \E m \in DOMAIN new :
                 h[i] = new[m] /\ new[m].rec.id = new[j].rec.id
  <2>1. CASE j \in P
    <3>1. PICK k \in DOMAIN g : g[k] = new[j]
      BY <1>8, <2>1
    <3>2. k \in 1 .. Len(g)
      BY <1>8
    <3>3. n + k \in DOMAIN h /\ h[n + k] = g[k]
      BY <1>2, <1>7, <1>9, <3>2
    <3> QED
      BY <3>1, <3>3
  <2>2. CASE j \notin P
    <3>1. PICK i \in DOMAIN old : new[j] \in Of(old[i])
      BY <1>5, <2>2
    <3>2. i \in 1 .. n /\ f[i] \in Of(old[i])
      BY <1>2, <1>6, <3>1
    <3>3. PICK m \in DOMAIN new : f[i] = new[m]
      BY <1>3, <3>2
    <3>4. new[m].rec.id = new[j].rec.id
      BY <1>3, <3>1, <3>2, <3>3
    <3>5. i \in DOMAIN h /\ h[i] = f[i]
      BY <1>2, <1>7, <1>9, <3>2
    <3> QED
      BY <3>3, <3>4, <3>5
  <2> QED
    BY <2>1, <2>2
<1> QED
  BY <1>1, <1>9, <1>10, <1>11 DEF DrawnFrom, KeptIn

\* What merged controls have of both.
Merging(old, new, c) ==
    /\ IsControls(c, AnyNumber)
    /\ IsFiniteSet(DOMAIN c.corrections) /\ IsFiniteSet(DOMAIN c.reviews)
    /\ DrawnFrom(c.assertions, old.assertions, new.assertions)
    /\ \A k \in DOMAIN c.corrections :
          \/ k \in DOMAIN new.corrections /\ c.corrections[k] = new.corrections[k]
          \/ k \in DOMAIN old.corrections /\ c.corrections[k] = old.corrections[k]
    /\ \A k \in DOMAIN c.reviews :
          \/ k \in DOMAIN new.reviews /\ c.reviews[k] = new.reviews[k]
          \/ /\ k \notin DOMAIN new.reviews
             /\ k \in DOMAIN old.reviews /\ c.reviews[k] = old.reviews[k]
    /\ (DOMAIN c.corrections \cup DOMAIN c.reviews) \cap c.tombstones = {}
    /\ new.tombstones \subseteq c.tombstones
    /\ \A s \in Sessions : new.excluded[s] # "no" => c.excluded[s] # "no"

\* A restore merges controls so.
LEMMA MergedControlsFacts ==
  ASSUME NEW recs, NEW old, Sound(recs, old), NEW new, IsControls(new, AnyNumber),
         IsFiniteSet(DOMAIN new.corrections), IsFiniteSet(DOMAIN new.reviews),
         NEW gone, NEW c, c = MergedControls(recs, old, new, gone)
  PROVE  Merging(old, new, c)
<1> DEFINE D == AssertionType(AnyNumber)
           tombstones == (old.tombstones \cup new.tombstones) \cup OldCopies(recs, gone)
           merged == MergedAssertions(old.assertions, new.assertions)
           P == {i \in DOMAIN merged : /\ merged[i].rec.id \notin gone
                                       /\ Claim(merged[i].rec) \notin tombstones}
           assertions == Picked(merged, P)
           alive == {a.rec.id : a \in ToSet(assertions)}
           untold(entries) == {k \in DOMAIN entries \ tombstones :
                                  entries[k].ids \cap gone = {}}
           newc == new.corrections
           oldc == old.corrections
           newr == new.reviews
           oldr == old.reviews
           C == {x \in untold(Over(newc, oldc)) : Over(newc, oldc)[x].by \in alive}
           R == untold(Over(newr, oldr))
           corrections == [k \in C |-> Over(newc, oldc)[k]]
           reviews == [k \in R |-> Over(newr, oldr)[k]]
           excluded == MergedExclusions(old.excluded, new.excluded)
<1>1. /\ recs \in Seq(RecordType(AnyNumber, Who)) /\ IsControls(old, AnyNumber)
      /\ IsFiniteSet(DOMAIN oldc) /\ IsFiniteSet(DOMAIN oldr)
  BY DEF Sound
<1>2. /\ DOMAIN oldr \subseteq Claims /\ DOMAIN oldc \subseteq Claims
      /\ oldr \in [DOMAIN oldr -> ReviewType(AnyNumber)]
      /\ oldc \in [DOMAIN oldc -> CorrectionType(AnyNumber)]
      /\ old.assertions \in Seq(D) /\ old.tombstones \in SUBSET Claims
      /\ old.excluded \in [Sessions -> {"no", "excluded", "forgotten"}]
  BY <1>1, ControlsFacts
<1>3. /\ DOMAIN newr \subseteq Claims /\ DOMAIN newc \subseteq Claims
      /\ newr \in [DOMAIN newr -> ReviewType(AnyNumber)]
      /\ newc \in [DOMAIN newc -> CorrectionType(AnyNumber)]
      /\ new.assertions \in Seq(D) /\ new.tombstones \in SUBSET Claims
      /\ new.excluded \in [Sessions -> {"no", "excluded", "forgotten"}]
  BY ControlsFacts
<1>4. c = [tombstones |-> tombstones, assertions |-> assertions, excluded |-> excluded,
           corrections |-> corrections, reviews |-> reviews]
  BY DEF MergedControls, MergedRulings
<1>5. tombstones \in SUBSET Claims /\ new.tombstones \subseteq tombstones
  <2>1. OldCopies(recs, gone) \subseteq Claims
    <3> SUFFICES ASSUME NEW x \in OldCopies(recs, gone)
                 PROVE  x \in Claims
      OBVIOUS
    <3>1. PICK i \in DOMAIN recs : \E o \in ToSet(Unfolded(recs[i])) :
             x = <<o.ctx, Form[recs[i].text]>>
      BY DEF OldCopies
    <3>2. PICK j \in DOMAIN Unfolded(recs[i]) :
             x = <<Unfolded(recs[i])[j].ctx, Form[recs[i].text]>>
      BY <3>1 DEF ToSet
    <3>3. recs[i] \in RecordType(AnyNumber, Who)
      BY <1>1
    <3>4. recs[i].text \in Texts
      BY <3>3 DEF RecordType
    <3>5. Unfolded(recs[i]) \in Seq(OccurrenceType(AnyNumber, Who))
      BY <3>3, UnfoldedFacts
    <3>6. Unfolded(recs[i])[j] \in OccurrenceType(AnyNumber, Who)
      BY <3>2, <3>5
    <3>7. Unfolded(recs[i])[j].ctx \in Contexts
      BY <3>6 DEF OccurrenceType
    <3> QED
      BY <3>2, <3>4, <3>7 DEF Claims
  <2> QED
    BY <1>2, <1>3, <2>1
<1> HIDE DEF D
<1>6. /\ assertions \in Seq(D)
      /\ DrawnFrom(assertions, old.assertions, new.assertions)
  <2>1. merged \in Seq(D) /\ DrawnFrom(merged, old.assertions, new.assertions)
    BY <1>2, <1>3, MergedAssertionsFacts
  <2>2. P \subseteq DOMAIN merged
    OBVIOUS
  <2> HIDE DEF merged, P
  <2>3. Picked(merged, P) \in Seq(D) /\ PickedAt(merged, P, Picked(merged, P))
    BY <2>1, <2>2, PickedElements
  <2> QED
    BY <2>1, <2>2, <2>3 DEF PickedAt, DrawnFrom
<1>7. /\ C \subseteq DOMAIN Over(newc, oldc) /\ C \cap tombstones = {}
      /\ R \subseteq DOMAIN Over(newr, oldr) /\ R \cap tombstones = {}
  OBVIOUS
<1>8. excluded \in [Sessions -> {"no", "excluded", "forgotten"}]
      /\ \A s \in Sessions : new.excluded[s] # "no" => excluded[s] # "no"
  BY <1>2, <1>3 DEF MergedExclusions
<1> HIDE DEF tombstones, assertions, excluded, newc, oldc, newr, oldr, C, R
<1>9. Chosen(CorrectionType(AnyNumber), newc, oldc, C, corrections)
  <2> DEFINE T == CorrectionType(AnyNumber)
  <2>1. /\ newc \in [DOMAIN newc -> T] /\ oldc \in [DOMAIN oldc -> T]
        /\ IsFiniteSet(DOMAIN newc)
    BY <1>2, <1>3 DEF newc
  <2> HIDE DEF T
  <2> QED
    BY <1>1, <1>7, <2>1, OverFacts DEF T
<1>10. Chosen(ReviewType(AnyNumber), newr, oldr, R, reviews)
  <2> DEFINE T == ReviewType(AnyNumber)
  <2>1. /\ newr \in [DOMAIN newr -> T] /\ oldr \in [DOMAIN oldr -> T]
        /\ IsFiniteSet(DOMAIN newr)
    BY <1>2, <1>3 DEF newr
  <2> HIDE DEF T
  <2> QED
    BY <1>1, <1>7, <2>1, OverFacts DEF T
<1> HIDE DEF corrections, reviews
<1>11. c = [reviews |-> reviews, corrections |-> corrections, assertions |-> assertions,
            tombstones |-> tombstones, excluded |-> excluded]
  BY <1>4
<1>12. /\ c.reviews = reviews /\ c.corrections = corrections
       /\ c.assertions = assertions /\ c.tombstones = tombstones
       /\ c.excluded = excluded
  BY <1>11
<1>13. /\ corrections \in [DOMAIN corrections -> CorrectionType(AnyNumber)]
       /\ DOMAIN corrections = C /\ IsFiniteSet(C)
       /\ \A k \in DOMAIN corrections :
             \/ k \in DOMAIN newc /\ corrections[k] = newc[k]
             \/ k \notin DOMAIN newc /\ k \in DOMAIN oldc /\ corrections[k] = oldc[k]
  BY <1>9 DEF Chosen
<1>14. /\ reviews \in [DOMAIN reviews -> ReviewType(AnyNumber)]
       /\ DOMAIN reviews = R /\ IsFiniteSet(R)
       /\ \A k \in DOMAIN reviews :
             \/ k \in DOMAIN newr /\ reviews[k] = newr[k]
             \/ k \notin DOMAIN newr /\ k \in DOMAIN oldr /\ reviews[k] = oldr[k]
  BY <1>10 DEF Chosen
<1>15. DOMAIN corrections \subseteq Claims /\ DOMAIN reviews \subseteq Claims
  BY <1>2, <1>3, <1>13, <1>14
<1>16. IsControls(c, AnyNumber)
  <2>1. /\ tombstones \in SUBSET Claims /\ assertions \in Seq(AssertionType(AnyNumber))
        /\ excluded \in [Sessions -> {"no", "excluded", "forgotten"}]
        /\ corrections \in [DOMAIN corrections -> CorrectionType(AnyNumber)]
        /\ reviews \in [DOMAIN reviews -> ReviewType(AnyNumber)]
    BY <1>5, <1>6, <1>8, <1>13, <1>14 DEF D
  <2> QED
    BY <1>11, <1>15, <2>1, ControlsMade
<1>17. (DOMAIN c.corrections \cup DOMAIN c.reviews) \cap c.tombstones = {}
  BY <1>7, <1>12, <1>13, <1>14
<1> QED
  BY <1>5, <1>6, <1>8, <1>12, <1>13, <1>14, <1>16, <1>17
     DEF Merging, newc, oldc, newr, oldr

\* A present ruling stays in them that names nothing that is gone and is not on a
\* claim they suppress: a review, and a correction none of whose assertions they
\* suppress.
LEMMA PresentRulingsStay ==
  ASSUME NEW recs, NEW old, Sound(recs, old), NEW new, IsControls(new, AnyNumber),
         ValidControls(new), old.tombstones \subseteq new.tombstones,
         \A i \in DOMAIN new.assertions : Claim(new.assertions[i].rec) \notin new.tombstones,
         NEW gone, NEW c, c = MergedControls(recs, old, new, gone),
         NEW k, k \notin c.tombstones
  PROVE  /\ k \in DOMAIN new.reviews /\ new.reviews[k].ids \cap gone = {} =>
               k \in DOMAIN c.reviews
         /\ /\ k \in DOMAIN new.corrections
            /\ (new.corrections[k].ids \cup {new.corrections[k].by}) \cap gone = {}
            /\ \A a \in ToSet(new.assertions) :
                  a.rec.id = new.corrections[k].by =>
                     Claim(a.rec) \notin OldCopies(recs, gone)
            => k \in DOMAIN c.corrections
<1> DEFINE D == AssertionType(AnyNumber)
           tombstones == (old.tombstones \cup new.tombstones) \cup OldCopies(recs, gone)
           merged == MergedAssertions(old.assertions, new.assertions)
           P == {i \in DOMAIN merged : /\ merged[i].rec.id \notin gone
                                       /\ Claim(merged[i].rec) \notin tombstones}
           assertions == Picked(merged, P)
           alive == {a.rec.id : a \in ToSet(assertions)}
           untold(entries) == {x \in DOMAIN entries \ tombstones :
                                  entries[x].ids \cap gone = {}}
           allc == Over(new.corrections, old.corrections)
           allr == Over(new.reviews, old.reviews)
           C == {x \in untold(allc) : allc[x].by \in alive}
           R == untold(allr)
<1>1. /\ c.tombstones = tombstones /\ DOMAIN c.corrections = C /\ DOMAIN c.reviews = R
  BY DEF MergedControls, MergedRulings
<1>2. /\ \A x \in DOMAIN new.corrections :
            x \in DOMAIN allc /\ allc[x] = new.corrections[x]
      /\ \A x \in DOMAIN new.reviews : x \in DOMAIN allr /\ allr[x] = new.reviews[x]
  BY DEF Over
<1>3. k \notin tombstones
  BY <1>1
<1>4. new.assertions \in Seq(D) /\ old.assertions \in Seq(D)
  BY ControlsFacts DEF Sound
<1>5. /\ merged \in Seq(D) /\ KeptIn(merged, new.assertions)
      /\ PickedAt(merged, P, assertions)
  <2>1. merged \in Seq(D) /\ KeptIn(merged, new.assertions)
    BY <1>4, MergedAssertionsFacts
  <2>2. P \subseteq DOMAIN merged
    OBVIOUS
  <2> HIDE DEF merged, P, D
  <2> QED
    BY <2>1, <2>2, PickedElements
<1>6. ASSUME k \in DOMAIN new.reviews, new.reviews[k].ids \cap gone = {}
      PROVE  k \in R
  BY <1>2, <1>3, <1>6
<1>7. ASSUME k \in DOMAIN new.corrections,
             (new.corrections[k].ids \cup {new.corrections[k].by}) \cap gone = {},
             \A a \in ToSet(new.assertions) :
                a.rec.id = new.corrections[k].by => Claim(a.rec) \notin OldCopies(recs, gone)
      PROVE  k \in C
  <2>1. PICK j \in DOMAIN new.assertions :
           new.assertions[j].rec.id = new.corrections[k].by
    BY <1>7 DEF ValidControls
  <2>2. PICK i \in DOMAIN merged : \E m \in DOMAIN new.assertions :
           /\ merged[i] = new.assertions[m]
           /\ new.assertions[m].rec.id = new.assertions[j].rec.id
    BY <1>5 DEF KeptIn
  <2>3. PICK m \in DOMAIN new.assertions :
           /\ merged[i] = new.assertions[m]
           /\ new.assertions[m].rec.id = new.corrections[k].by
    BY <2>1, <2>2
  <2>4. new.assertions[m] \in ToSet(new.assertions)
    BY DEF ToSet
  <2>5. Claim(new.assertions[m].rec) \notin tombstones
    BY <1>7, <2>3, <2>4
  <2>6. i \in P
    BY <1>7, <2>3, <2>5
  <2>7. PICK l \in DOMAIN assertions : assertions[l] = merged[i]
    BY <1>5, <2>6 DEF PickedAt
  <2>8. assertions[l] \in ToSet(assertions)
    BY <2>7 DEF ToSet
  <2>9. assertions[l].rec.id = new.corrections[k].by
    BY <2>3, <2>7
  <2>10. new.corrections[k].by \in alive
    BY <2>8, <2>9
  <2>11. k \in untold(allc)
    BY <1>2, <1>3, <1>7
  <2> QED
    BY <1>2, <1>7, <2>10, <2>11
<1> QED
  BY <1>1, <1>6, <1>7

-----------------------------------------------------------------------------
\* Counters never go back.
LEMMA MergedCountersFacts ==
  ASSUME NEW old \in [Sessions -> 0 .. MaxNumber], counters \in [Sessions -> 0 .. MaxNumber]
  PROVE  /\ MergedCounters(old) \in [Sessions -> 0 .. MaxNumber]
         /\ \A s \in Sessions : counters[s] <= MergedCounters(old)[s]
<1>1. ASSUME NEW s \in Sessions
      PROVE  Max({old[s], counters[s]}) \in 0 .. MaxNumber
             /\ counters[s] <= Max({old[s], counters[s]})
  <2> DEFINE S == {old[s], counters[s]}
  <2>1. old[s] \in 0 .. MaxNumber /\ counters[s] \in 0 .. MaxNumber /\ MaxNumber \in Nat
    BY RecordConstants
  <2>2. /\ S \subseteq Nat /\ S # {} /\ counters[s] \in S
        /\ \A x \in S : x <= MaxNumber /\ x \in 0 .. MaxNumber
    BY <2>1
  <2> HIDE DEF S
  <2>3. Max(S) \in S /\ \A x \in S : x <= Max(S)
    BY <2>1, <2>2, Maximum
  <2>4. Max(S) \in 0 .. MaxNumber /\ counters[s] <= Max(S)
    BY <2>2, <2>3
  <2> QED
    BY <2>4 DEF S
<1> QED
  BY <1>1 DEF MergedCounters

\* A restore brings back the backup's records, under controls that have the
\* present words but for those that name forgotten ids or are overruled.
LEMMA RestoreKeeps ==
  ASSUME ControlsInv, Restore
  PROVE  ControlsInv'
<1> DEFINE recs == backup[1]
           old == backup[3]
           c == Restored
           claims == OperatorClaims(records, controls) \cup BackupClaims
<1>1. /\ Command /\ backup # <<>> /\ Committed(recs, c)
      /\ counters' = MergedCounters(backup[2])
      /\ forgotten' = GoneFor
      /\ word' = [k \in Claims |->
                     IF NamesGone(k) THEN "none"
                     ELSE IF Overruled(k) THEN "overruled" ELSE word[k]]
      /\ backup' = backup /\ shut' = shut
  BY DEF Restore
<1>2. /\ Sound(records, controls) /\ IsControls(controls, AnyNumber)
      /\ Owned(records, controls) /\ ControlIds(controls) \subseteq issued
      /\ IsFiniteSet(DOMAIN controls.corrections) /\ IsFiniteSet(DOMAIN controls.reviews)
      /\ forgotten \subseteq issued /\ OneClaim(claims) /\ BackupInv
      /\ counters \in [Sessions -> 0 .. MaxNumber] /\ commands \in 0 .. MaxOps
      /\ NumbersGiven(issued, counters, commands)
      /\ word \in [Claims -> Words]
      /\ shut \in [Sessions -> {"no", "excluded", "forgotten"}]
      /\ Ruling(controls, word, shut)
      /\ Settled(records, controls) /\ ValidControls(controls)
  BY DEF ControlsInv, IdsInv, WordsInv, AppliedInv, Sound
<1>3. /\ Sound(recs, old) /\ Owned(recs, old)
      /\ old.tombstones \subseteq controls.tombstones
      /\ recs \in Seq(RecordType(AnyNumber, Who))
      /\ backup[2] \in [Sessions -> 0 .. MaxNumber]
      /\ Ids(recs) \subseteq issued /\ ControlIds(old) \subseteq issued
      /\ backup[4] \subseteq issued
  BY <1>1, <1>2 DEF BackupInv, Sound
<1>4. claims = OperatorClaims(records, controls) \cup OperatorClaims(recs, old)
  BY <1>1 DEF BackupClaims
<1>5. /\ Merging(old, controls, c)
      /\ c = MergedControls(recs, old, controls, GoneFor)
  <2>1. c = MergedControls(recs, old, controls, GoneFor)
    BY DEF Restored
  <2> HIDE DEF c, recs, old
  <2> QED
    BY <1>2, <1>3, <2>1, MergedControlsFacts
<1> HIDE DEF c, recs, old, claims
<1>6. /\ IsControls(c, AnyNumber)
      /\ IsFiniteSet(DOMAIN c.corrections) /\ IsFiniteSet(DOMAIN c.reviews)
      /\ DrawnFrom(c.assertions, old.assertions, controls.assertions)
      /\ \A k \in DOMAIN c.corrections :
            \/ k \in DOMAIN controls.corrections /\ c.corrections[k] = controls.corrections[k]
            \/ k \in DOMAIN old.corrections /\ c.corrections[k] = old.corrections[k]
      /\ \A k \in DOMAIN c.reviews :
            \/ k \in DOMAIN controls.reviews /\ c.reviews[k] = controls.reviews[k]
            \/ /\ k \notin DOMAIN controls.reviews
               /\ k \in DOMAIN old.reviews /\ c.reviews[k] = old.reviews[k]
      /\ (DOMAIN c.corrections \cup DOMAIN c.reviews) \cap c.tombstones = {}
      /\ controls.tombstones \subseteq c.tombstones
      /\ \A s \in Sessions : controls.excluded[s] # "no" => c.excluded[s] # "no"
  BY <1>5 DEF Merging
<1>7. ASSUME NEW i \in DOMAIN c.assertions
      PROVE  \/ \E j \in DOMAIN old.assertions : c.assertions[i] = old.assertions[j]
             \/ \E j \in DOMAIN controls.assertions : c.assertions[i] = controls.assertions[j]
  BY <1>6 DEF DrawnFrom
<1>8. AssertedIn(c) \subseteq AssertedIn(old) \cup AssertedIn(controls)
  <2> SUFFICES ASSUME NEW o \in AssertedIn(c)
               PROVE  o \in AssertedIn(old) \cup AssertedIn(controls)
    OBVIOUS
  <2>1. PICK i \in DOMAIN c.assertions : o \in SaidBy(c.assertions[i].rec)
    BY DEF AssertedIn
  <2>2. ASSUME NEW j \in DOMAIN old.assertions, c.assertions[i] = old.assertions[j]
        PROVE  o \in AssertedIn(old)
    BY <2>1, <2>2 DEF AssertedIn
  <2>3. ASSUME NEW j \in DOMAIN controls.assertions, c.assertions[i] = controls.assertions[j]
        PROVE  o \in AssertedIn(controls)
    BY <2>1, <2>3 DEF AssertedIn
  <2> QED
    BY <1>7, <2>2, <2>3
<1>9. Sound(recs, c)
  <2>1. OwnNumbers(SaidIn(recs)) /\ OwnNumbers(AssertedIn(c))
    BY <1>2, <1>3, <1>8 DEF Owned, OwnNumbers
  <2>2. \A i \in DOMAIN c.assertions : c.assertions[i].rec.from = Operator
    BY <1>2, <1>3, <1>7 DEF Owned
  <2> QED
    BY <1>3, <1>6, <2>1, <2>2 DEF Sound, Owned
<1>10. OneClaim(OperatorClaims(recs, c) \cup BackupClaims)
  <2>1. \A x \in OperatorClaims(recs, c) : x \in claims
    BY <1>4, <1>8 DEF OperatorClaims
  <2>2. BackupClaims \subseteq claims
    BY DEF claims
  <2> QED
    BY <1>2, <2>1, <2>2 DEF OneClaim
<1>11. /\ Traced(old, issued) /\ AssertionIds(old) \subseteq issued
       /\ Traced(controls, issued) /\ AssertionIds(controls) \subseteq issued
  BY <1>2, <1>3, ReferencesIssued
<1>12. Traced(c, issued)
  <2>1. \A i \in DOMAIN c.assertions :
           /\ c.assertions[i].corrects \in issued
           /\ IdsOf(c.assertions[i].rec) \subseteq issued \cup {c.assertions[i].rec.id}
    BY <1>7, <1>11 DEF Traced
  <2>2. \A k \in DOMAIN c.corrections : c.corrections[k].ids \subseteq issued
    BY <1>6, <1>11 DEF Traced
  <2>3. \A k \in DOMAIN c.reviews : c.reviews[k].ids \subseteq issued
    BY <1>6, <1>11 DEF Traced
  <2> QED
    BY <2>1, <2>2, <2>3 DEF Traced
<1>13. AssertionIds(c) \subseteq issued
  <2>1. \A i \in DOMAIN c.assertions : IdsOf(c.assertions[i].rec) \subseteq issued
    BY <1>7, <1>11 DEF AssertionIds
  <2> QED
    BY <2>1 DEF AssertionIds
<1>14. /\ commands' \in 0 .. MaxOps /\ commands <= commands'
       /\ commands \in Nat /\ commands' \in Nat
  BY <1>1, <1>2, ControlConstants DEF Command
<1>15. /\ counters' \in [Sessions -> 0 .. MaxNumber]
       /\ \A s \in Sessions : counters[s] <= counters'[s]
  BY <1>1, <1>2, <1>3, MergedCountersFacts
<1>16. NumbersGiven(Ids(recs) \cup AssertionIds(c), counters', commands')
  <2>1. NumbersGiven({}, counters', commands')
    BY DEF NumbersGiven
  <2>2. NumbersGiven(issued \cup {}, counters', commands')
    BY <1>2, <1>14, <1>15, <2>1, NumbersGrow
  <2> QED
    BY <1>3, <1>13, <2>2 DEF NumbersGiven
<1>17. word' \in [Claims -> Words]
  BY <1>1, <1>2 DEF Words
<1>18. Ruling(c, word', shut')
  <2>1. \A k \in Claims :
           word'[k] = IF NamesGone(k) THEN "none"
                      ELSE IF Overruled(k) THEN "overruled" ELSE word[k]
    BY <1>1
  <2>2. \A k \in Claims : word'[k] = "forgotten" => k \in c.tombstones
    BY <1>2, <1>6, <2>1 DEF Ruling
  <2>3. \A k \in Claims : k \notin c.tombstones =>
           /\ k \in DOMAIN controls.reviews /\ controls.reviews[k].ids \cap GoneFor = {} =>
                 k \in DOMAIN c.reviews
           /\ /\ k \in DOMAIN controls.corrections
              /\ (controls.corrections[k].ids \cup {controls.corrections[k].by})
                    \cap GoneFor = {}
              /\ \A a \in ToSet(controls.assertions) :
                    a.rec.id = controls.corrections[k].by =>
                       Claim(a.rec) \notin OldCopies(recs, GoneFor)
              => k \in DOMAIN c.corrections
    <3> TAKE k \in Claims
    <3> HAVE k \notin c.tombstones
    <3>1. \A i \in DOMAIN controls.assertions :
             Claim(controls.assertions[i].rec) \notin controls.tombstones
      BY <1>2 DEF Settled
    <3> QED
      BY <1>2, <1>3, <1>5, <3>1, PresentRulingsStay
  <2>4. \A k \in Claims :
           word'[k] = "corrected" => k \in DOMAIN c.corrections \cup c.tombstones
    <3> TAKE k \in Claims
    <3> HAVE word'[k] = "corrected"
    <3>1. word[k] = "corrected" /\ ~NamesGone(k) /\ ~Overruled(k)
      BY <2>1
    <3>2. k \in DOMAIN controls.corrections \/ k \in c.tombstones
      BY <1>2, <1>6, <3>1 DEF Ruling
    <3>3. CASE k \in DOMAIN controls.corrections
      <4>1. (controls.corrections[k].ids \cup {controls.corrections[k].by})
               \cap GoneFor = {}
        BY <3>1, <3>3 DEF NamesGone
      <4>2. \A a \in ToSet(controls.assertions) :
               a.rec.id = controls.corrections[k].by =>
                  Claim(a.rec) \notin OldCopies(recs, GoneFor)
        BY <3>1, <3>3 DEF Overruled, recs
      <4> QED
        BY <2>3, <3>3, <4>1, <4>2
    <3> QED
      BY <3>2, <3>3
  <2>5. \A k \in Claims :
           word'[k] \in {"approved", "rejected"} /\ k \notin c.tombstones =>
              k \in DOMAIN c.reviews /\ c.reviews[k].says = word'[k]
    <3> TAKE k \in Claims
    <3> HAVE word'[k] \in {"approved", "rejected"} /\ k \notin c.tombstones
    <3>1. word'[k] = word[k] /\ ~NamesGone(k) /\ k \notin controls.tombstones
      BY <1>6, <2>1
    <3>2. k \in DOMAIN controls.reviews /\ controls.reviews[k].says = word[k]
      BY <1>2, <3>1 DEF Ruling
    <3>3. controls.reviews[k].ids \cap GoneFor = {}
      BY <3>1, <3>2 DEF NamesGone
    <3>4. k \in DOMAIN c.reviews
      BY <2>3, <3>2, <3>3
    <3> QED
      BY <1>6, <3>1, <3>2, <3>4
  <2>6. \A s \in Sessions : shut'[s] # "no" => c.excluded[s] # "no"
    BY <1>1, <1>2, <1>6 DEF Ruling
  <2> QED
    BY <1>6, <2>2, <2>4, <2>5, <2>6 DEF Ruling
<1>19. /\ shut' \in [Sessions -> {"no", "excluded", "forgotten"}]
       /\ forgotten' \subseteq issued
  BY <1>1, <1>2, <1>3 DEF GoneFor
<1>20. Operates(recs, c)
  BY <1>1, <1>6, <1>9, <1>10, <1>12, <1>14, <1>15, <1>16, <1>17, <1>18, <1>19 DEF Operates
<1> QED
  BY <1>20, OperationKeeps

-----------------------------------------------------------------------------
\* A backup is the store as it is.
LEMMA ExportKeeps ==
  ASSUME ControlsInv, Export
  PROVE  ControlsInv'
<1>1. /\ Command /\ backup' = <<records, counters, controls, forgotten>>
      /\ records' = records /\ counters' = counters /\ controls' = controls
      /\ forgotten' = forgotten /\ issued' = issued /\ word' = word /\ shut' = shut
  BY DEF Export, store, history
<1>2. /\ Sound(records, controls)
      /\ Ids(records) \cup ControlIds(controls) \cup forgotten \subseteq issued
      /\ OneClaim(OperatorClaims(records, controls) \cup BackupClaims)
      /\ counters \in [Sessions -> 0 .. MaxNumber] /\ commands \in 0 .. MaxOps
      /\ NumbersGiven(issued, counters, commands)
  BY DEF ControlsInv, IdsInv
<1>3. /\ backup' # <<>> /\ backup'[1] = records /\ backup'[2] = counters
      /\ backup'[3] = controls /\ backup'[4] = forgotten
  BY <1>1
<1>4. BackupInv'
  BY <1>1, <1>2, <1>3 DEF BackupInv
<1>5. BackupClaims' = OperatorClaims(records, controls)
  BY <1>3 DEF BackupClaims
<1>6. OneClaim(OperatorClaims(records', controls') \cup BackupClaims')
  BY <1>1, <1>2, <1>5 DEF OneClaim
<1>7. /\ commands' \in 0 .. MaxOps /\ commands <= commands'
      /\ commands \in Nat /\ commands' \in Nat
  BY <1>1, <1>2, ControlConstants DEF Command
<1>8. NumbersGiven(issued', counters', commands')
  <2>1. NumbersGiven({}, counters, commands')
    BY DEF NumbersGiven
  <2>2. \A s \in Sessions : counters[s] <= counters[s]
    <3>1. \A s \in Sessions : counters[s] \in Nat
      BY <1>2, RecordConstants
    <3> QED
      BY <3>1
  <2>3. NumbersGiven(issued \cup {}, counters, commands')
    BY <1>2, <1>7, <2>1, <2>2, NumbersGrow
  <2>4. issued \cup {} = issued
    OBVIOUS
  <2> QED
    BY <1>1, <2>3, <2>4
<1>9. IdsInv'
  BY <1>1, <1>2, <1>4, <1>6, <1>7, <1>8 DEF IdsInv
<1>10. WordsInv'
  BY <1>1 DEF ControlsInv, WordsInv
<1>11. AppliedInv'
  BY <1>1 DEF ControlsInv, AppliedInv, LoadChangesNothing
<1> QED
  BY <1>9, <1>10, <1>11 DEF ControlsInv

\* The controls of an empty store.
LEMMA NoControlsFacts ==
         /\ IsControls(NoControls, AnyNumber)
         /\ NoControls.reviews = <<>> /\ NoControls.corrections = <<>>
         /\ NoControls.assertions = <<>> /\ NoControls.tombstones = {}
         /\ DOMAIN NoControls.reviews = {} /\ DOMAIN NoControls.corrections = {}
         /\ DOMAIN NoControls.assertions = {}
<1> DEFINE excluded == [s \in Sessions |-> "no"]
<1>1. NoControls = [reviews |-> <<>>, corrections |-> <<>>, assertions |-> <<>>,
                    tombstones |-> {}, excluded |-> excluded]
  BY DEF NoControls
<1>2. excluded \in [Sessions -> {"no", "excluded", "forgotten"}]
  OBVIOUS
<1>3. \A T : <<>> \in [DOMAIN <<>> -> T] /\ <<>> \in Seq(T)
  OBVIOUS
<1>4. DOMAIN <<>> = {} /\ DOMAIN <<>> \subseteq Claims
  OBVIOUS
<1>5. {} \in SUBSET Claims
  OBVIOUS
<1> HIDE DEF excluded
<1>6. IsControls(NoControls, AnyNumber)
  BY <1>1, <1>2, <1>3, <1>4, <1>5, ControlsMade
<1> QED
  BY <1>1, <1>4, <1>6

\* The empty store.
LEMMA ControlsInitEstablishes == ControlsInit => ControlsInv
<1> SUFFICES ASSUME ControlsInit
             PROVE  ControlsInv
  OBVIOUS
<1>1. /\ records = <<>> /\ counters = [s \in Sessions |-> 0] /\ controls = NoControls
      /\ forgotten = {} /\ backup = <<>> /\ commands = 0 /\ issued = {}
      /\ word = [k \in Claims |-> "none"] /\ shut = [s \in Sessions |-> "no"]
  BY DEF ControlsInit
<1>2. /\ DOMAIN records = {} /\ Ids(records) = {} /\ SaidIn(records) = {}
      /\ records \in Seq(RecordType(AnyNumber, Who))
  BY <1>1 DEF Ids, SaidIn
<1>3. /\ IsControls(controls, AnyNumber)
      /\ DOMAIN controls.reviews = {} /\ DOMAIN controls.corrections = {}
      /\ DOMAIN controls.assertions = {} /\ controls.tombstones = {}
  BY <1>1, NoControlsFacts
<1>4. AssertedIn(controls) = {} /\ ControlIds(controls) = {}
  BY <1>3 DEF AssertedIn, ControlIds
<1>5. Sound(records, controls)
  BY <1>2, <1>3, <1>4, FS_EmptySet DEF Sound, Owned, OwnNumbers
<1>6. OperatorClaims(records, controls) = {} /\ BackupClaims = {}
  BY <1>1, <1>2, <1>4 DEF OperatorClaims, BackupClaims
<1>7. IdsInv
  <2>1. counters \in [Sessions -> 0 .. MaxNumber] /\ commands \in 0 .. MaxOps
    BY <1>1, RecordConstants, ControlConstants
  <2>2. NumbersGiven(issued, counters, commands)
    BY <1>1 DEF NumbersGiven
  <2> QED
    BY <1>1, <1>2, <1>4, <1>5, <1>6, <2>1, <2>2 DEF IdsInv, BackupInv, OneClaim
<1>8. WordsInv
  <2>1. \A k \in Claims : word[k] = "none"
    BY <1>1
  <2>2. \A s \in Sessions : shut[s] = "no"
    BY <1>1
  <2>3. Ruling(controls, word, shut)
    BY <1>3, <2>1, <2>2 DEF Ruling
  <2> QED
    BY <1>1, <2>3 DEF WordsInv, Words
<1>9. Settled(records, controls)
  BY <1>2, <1>3 DEF Settled, SettledBy
<1>10. LoadChangesNothing
  <2>1. \A f : f = <<>> => Learned(f, {}) = f
    BY DEF Learned
  <2>2. /\ Learned(controls.reviews, SaidIn(records)) = controls.reviews
        /\ Learned(controls.corrections, SaidIn(records)) = controls.corrections
    BY <1>1, <1>2, <2>1, NoControlsFacts
  <2> QED
    BY <1>2, <1>3, <1>9, <2>2, AppliedAgain DEF LoadChangesNothing
<1>11. ValidControls(controls) /\ DistinctIds(records)
  BY <1>1, <1>2, <1>3 DEF ValidControls, DistinctIds
<1> QED
  BY <1>7, <1>8, <1>9, <1>10, <1>11 DEF ControlsInv, AppliedInv

\* Every operation keeps the invariant.
LEMMA ControlsNextPreserves ==
  ASSUME ControlsInv, [ControlsNext]_controlsVars
  PROVE  ControlsInv'
<1>1. ASSUME NEW s \in Sessions, NEW units \in Extractions(s), IngestAdmitted(s, units)
      PROVE  ControlsInv'
  BY <1>1, IngestAdmittedKeeps
<1>2. ASSUME NEW id \in Ids(records), NEW text \in Texts, Correct(id, text)
      PROVE  ControlsInv'
  BY <1>2, CorrectKeeps
<1>3. ASSUME NEW id \in Ids(records), NEW says \in {"approved", "rejected"}, Review(id, says)
      PROVE  ControlsInv'
  BY <1>3, ReviewKeeps
<1>4. ASSUME NEW id \in UNION Groups, Forget(id)
      PROVE  ControlsInv'
  BY <1>4, ForgetKeeps
<1>5. ASSUME NEW s \in Sessions, Exclude(s) \/ Include(s) \/ ForgetSession(s)
      PROVE  ControlsInv'
  <2>1. \E to \in {"no", "excluded", "forgotten"} : Admit(s, to)
    BY <1>5 DEF Exclude, Include, ForgetSession
  <2> QED
    BY <2>1, AdmitKeeps
<1>6. CASE Export
  BY <1>6, ExportKeeps
<1>7. CASE Restore
  BY <1>7, RestoreKeeps
<1>8. CASE UNCHANGED controlsVars
  <2>1. /\ records' = records /\ counters' = counters /\ controls' = controls
        /\ forgotten' = forgotten /\ issued' = issued /\ word' = word /\ shut' = shut
        /\ backup' = backup /\ commands' = commands
    BY <1>8 DEF controlsVars, store, history
  <2>2. BackupInv' /\ BackupClaims' = BackupClaims
    BY <2>1 DEF ControlsInv, IdsInv, BackupInv, BackupClaims
  <2>3. IdsInv'
    BY <2>1, <2>2 DEF ControlsInv, IdsInv
  <2>4. WordsInv'
    BY <2>1 DEF ControlsInv, WordsInv
  <2>5. AppliedInv'
    BY <2>1 DEF ControlsInv, AppliedInv, LoadChangesNothing
  <2> QED
    BY <2>3, <2>4, <2>5 DEF ControlsInv
<1> QED
  BY <1>1, <1>2, <1>3, <1>4, <1>5, <1>6, <1>7, <1>8 DEF ControlsNext

-----------------------------------------------------------------------------
\* Controls are of every kind of ids that they refer to.
LEMMA RetypedControls ==
  ASSUME NEW J, NEW K, NEW c, IsControls(c, J), ControlIds(c) \subseteq K
  PROVE  IsControls(c, K)
<1> DEFINE all == c.assertions
           recs == [i \in DOMAIN all |-> all[i].rec]
<1>1. /\ c = [reviews |-> c.reviews, corrections |-> c.corrections,
              assertions |-> c.assertions, tombstones |-> c.tombstones,
              excluded |-> c.excluded]
      /\ DOMAIN c.reviews \subseteq Claims /\ DOMAIN c.corrections \subseteq Claims
      /\ c.reviews \in [DOMAIN c.reviews -> ReviewType(J)]
      /\ c.corrections \in [DOMAIN c.corrections -> CorrectionType(J)]
      /\ all \in Seq(AssertionType(J))
      /\ c.tombstones \in SUBSET Claims
      /\ c.excluded \in [Sessions -> {"no", "excluded", "forgotten"}]
  BY ControlsFacts
<1>2. ASSUME NEW k \in DOMAIN c.reviews
      PROVE  c.reviews[k] \in ReviewType(K)
  <2>1. c.reviews[k].ids \subseteq K
    BY DEF ControlIds
  <2> QED
    BY <1>1, <2>1 DEF ReviewType
<1>3. ASSUME NEW k \in DOMAIN c.corrections
      PROVE  c.corrections[k] \in CorrectionType(K)
  <2>1. c.corrections[k].by \in K /\ c.corrections[k].ids \subseteq K
    BY DEF ControlIds
  <2> QED
    BY <1>1, <2>1 DEF CorrectionType
<1>4. /\ Len(all) \in Nat /\ DOMAIN all = 1 .. Len(all)
      /\ \A i \in DOMAIN all : all[i] \in AssertionType(J)
      /\ all = [i \in 1 .. Len(all) |-> all[i]]
  BY <1>1
<1>5. \A i \in DOMAIN all : all[i].rec \in RecordType(J, Who)
  BY <1>4 DEF AssertionType
<1>6. recs \in Seq(RecordType(J, Who)) /\ DOMAIN recs = DOMAIN all
  <2> DEFINE D == RecordType(J, Who)
             n == Len(all)
  <2>1. recs = [i \in 1 .. n |-> all[i].rec] /\ n \in Nat
    BY <1>4
  <2>2. \A i \in 1 .. n : all[i].rec \in D
    BY <1>4, <1>5
  <2> HIDE DEF D, n
  <2>3. recs \in Seq(D) /\ DOMAIN recs = 1 .. n
    BY <2>1, <2>2, IsASeq
  <2> QED
    BY <1>4, <2>3 DEF D, n
<1>7. Ids(recs) \subseteq K
  <2>1. \A i \in DOMAIN all : IdsOf(all[i].rec) \subseteq K
    BY DEF ControlIds
  <2>2. \A i \in DOMAIN recs : IdsOf(recs[i]) \subseteq K
    BY <2>1
  <2> HIDE DEF recs
  <2> QED
    BY <2>2 DEF Ids
<1>8. recs \in Seq(RecordType(K, Who))
  <2> HIDE DEF recs
  <2> QED
    BY <1>6, <1>7, RetypedRecords
<1>9. ASSUME NEW i \in DOMAIN all
      PROVE  all[i] \in AssertionType(K)
  <2>1. recs[i] = all[i].rec
    OBVIOUS
  <2>2. all[i].rec \in RecordType(K, Who)
    <3> HIDE DEF recs
    <3> QED
      BY <1>6, <1>8, <2>1
  <2>3. all[i].corrects \in K
    BY DEF ControlIds
  <2> QED
    BY <1>4, <2>2, <2>3 DEF AssertionType
<1>10. all \in Seq(AssertionType(K))
  <2> DEFINE D == AssertionType(K)
             n == Len(all)
  <2>1. n \in Nat /\ all = [i \in 1 .. n |-> all[i]] /\ \A i \in 1 .. n : all[i] \in D
    BY <1>4, <1>9
  <2> HIDE DEF D, n
  <2> QED
    BY <2>1, IsASeq DEF D
<1>11. /\ c.reviews \in [DOMAIN c.reviews -> ReviewType(K)]
       /\ c.corrections \in [DOMAIN c.corrections -> CorrectionType(K)]
  BY <1>1, <1>2, <1>3
<1> QED
  BY <1>1, <1>10, <1>11, ControlsMade

\* Ids that were given are within the bounds.
LEMMA GivenIds ==
  ASSUME NEW ids, NEW cnt \in [Sessions -> 0 .. MaxNumber], NEW cmds \in 0 .. MaxOps,
         NumbersGiven(ids, cnt, cmds)
  PROVE  ids \subseteq AnyId
<1> SUFFICES ASSUME NEW id \in ids
             PROVE  id \in AnyId
  OBVIOUS
<1>1. /\ id \in Who \X Nat /\ id[2] >= 1
      /\ id[1] = Operator => id[2] <= cmds
      /\ id[1] # Operator => id[2] <= cnt[id[1]]
  BY DEF NumbersGiven, AnyNumber
<1>2. /\ id = <<id[1], id[2]>> /\ id[2] \in Nat
      /\ id[1] = Operator \/ id[1] \in Sessions
  BY <1>1 DEF Who
<1>3. CASE id[1] = Operator
  <2>1. id[2] \in 1 .. MaxOps
    BY <1>1, <1>2, <1>3, ControlConstants
  <2> QED
    BY <1>2, <1>3, <2>1 DEF AnyId
<1>4. CASE id[1] # Operator
  <2>1. id[1] \in Sessions /\ cnt[id[1]] \in 0 .. MaxNumber
    BY <1>2, <1>4
  <2>2. id[2] \in 1 .. MaxNumber
    BY <1>1, <1>2, <1>4, <2>1, RecordConstants
  <2> QED
    BY <1>2, <2>1, <2>2 DEF AnyId
<1> QED
  BY <1>3, <1>4

\* A store whose ids were given has its shape.
LEMMA SoundIsStore ==
  ASSUME NEW recs, NEW c, Sound(recs, c), NEW cnt \in [Sessions -> 0 .. MaxNumber],
         NEW gone, (Ids(recs) \cup ControlIds(c)) \cup gone \subseteq AnyId
  PROVE  IsStore(recs, cnt, c, gone, AnyId)
<1>1. recs \in Seq(RecordType(AnyNumber, Who)) /\ IsControls(c, AnyNumber)
  BY DEF Sound
<1>2. recs \in Seq(RecordType(AnyId, Who))
  <2>1. Ids(recs) \subseteq AnyId
    OBVIOUS
  <2> QED
    BY <1>1, <2>1, RetypedRecords
<1>3. IsControls(c, AnyId)
  <2>1. ControlIds(c) \subseteq AnyId
    OBVIOUS
  <2> QED
    BY <1>1, <2>1, RetypedControls
<1> QED
  BY <1>2, <1>3 DEF IsStore

\* The shapes follow from the ids that were given.
LEMMA InvImpliesTypeOK == ControlsInv => ControlsTypeOK
<1> SUFFICES ASSUME ControlsInv
             PROVE  ControlsTypeOK
  OBVIOUS
<1>1. /\ Sound(records, controls) /\ OwnNumbers(SaidIn(records))
      /\ records \in Seq(RecordType(AnyNumber, Who))
      /\ (Ids(records) \cup ControlIds(controls)) \cup forgotten \subseteq issued
      /\ BackupInv
      /\ counters \in [Sessions -> 0 .. MaxNumber] /\ commands \in 0 .. MaxOps
      /\ NumbersGiven(issued, counters, commands)
  BY DEF ControlsInv, IdsInv, Sound, Owned
<1>2. issued \subseteq AnyId
  BY <1>1, GivenIds
<1>3. IsStore(records, counters, controls, forgotten, AnyId)
  <2>1. (Ids(records) \cup ControlIds(controls)) \cup forgotten \subseteq AnyId
    BY <1>1, <1>2
  <2> QED
    BY <1>1, <2>1, SoundIsStore
<1>4. ASSUME backup # <<>>
      PROVE  IsStore(backup[1], backup[2], backup[3], backup[4], AnyId)
  <2>1. /\ Sound(backup[1], backup[3])
        /\ backup[2] \in [Sessions -> 0 .. MaxNumber]
        /\ (Ids(backup[1]) \cup ControlIds(backup[3])) \cup backup[4] \subseteq issued
    BY <1>1, <1>4 DEF BackupInv
  <2>2. (Ids(backup[1]) \cup ControlIds(backup[3])) \cup backup[4] \subseteq AnyId
    BY <1>2, <2>1
  <2> QED
    BY <2>1, <2>2, SoundIsStore
<1>5. ASSUME NEW o \in AllOf(records)
      PROVE  /\ o.id[1] = o.from
             /\ o.from # Operator => o.id[2] <= counters[o.from]
  <2>1. o \in SaidIn(records)
    BY <1>1, AllOfIsSaid
  <2>2. o.id[1] = o.from /\ o.id \in Ids(records)
    BY <1>1, <2>1, IdsInAreSaid DEF OwnNumbers
  <2> QED
    BY <1>1, <2>2 DEF NumbersGiven
<1>6. ValidControls(controls) /\ DistinctIds(records)
  BY DEF ControlsInv, AppliedInv
<1>7. UNION Groups \subseteq issued
  BY GroupsIssued DEF ControlsInv
<1> QED
  BY <1>1, <1>3, <1>4, <1>5, <1>6, <1>7 DEF ControlsTypeOK

\* The last word follows from words in the controls that were applied.
LEMMA InvImpliesLastWord == ControlsInv => OperatorHasLastWord
<1> SUFFICES ASSUME ControlsInv
             PROVE  OperatorHasLastWord
  OBVIOUS
<1>1. /\ records \in Seq(RecordType(Who \X Nat, Who)) /\ IsControls(controls, Who \X Nat)
      /\ Settled(records, controls) /\ Ruling(controls, word, shut)
  BY DEF ControlsInv, IdsInv, WordsInv, AppliedInv, Sound, AnyNumber
<1> QED
  BY <1>1, LastWord

\* Without a command there is nothing but ingestion.
LEMMA NextGivesNewIds ==
  ASSUME ControlsInv, [ControlsNext]_controlsVars, commands' = commands
  PROVE  (Ids(records') \ Ids(records)) \cap issued = {}
<1>1. ~Command
  <2>1. commands \in Nat
    BY ControlConstants DEF ControlsInv, IdsInv
  <2> QED
    BY <2>1 DEF Command
<1>2. ASSUME NEW s \in Sessions, NEW units \in Extractions(s), IngestAdmitted(s, units)
      PROVE  (Ids(records') \ Ids(records)) \cap issued = {}
  BY <1>2, IngestedIdsAreNew
<1>3. CASE UNCHANGED controlsVars
  <2>1. records' = records
    BY <1>3 DEF controlsVars, store
  <2> QED
    BY <2>1
<1>4. \/ \E s \in Sessions : \E units \in Extractions(s) : IngestAdmitted(s, units)
      \/ UNCHANGED controlsVars
  BY <1>1 DEF ControlsNext, Correct, Review, Forget, Exclude, Include, ForgetSession,
              Admit, Export, Restore
<1> QED
  BY <1>2, <1>3, <1>4
-----------------------------------------------------------------------------
\* Whatever is ingested, ruled, forgotten, exported and restored, the ids, the
\* operator's words and the applied controls stay in order.
THEOREM ControlsInvariant == ControlsSpec => []ControlsInv
<1>1. ControlsInit => ControlsInv
  BY ControlsInitEstablishes
<1>2. ControlsInv /\ [ControlsNext]_controlsVars => ControlsInv'
  BY ControlsNextPreserves
<1> QED
  BY <1>1, <1>2, PTL DEF ControlsSpec

\* Every variable has its shape, the controls are valid, no id is that of two
\* occurrences, and every reference is to an id that was issued.
THEOREM ControlsTypeCorrect == ControlsSpec => []ControlsTypeOK
<1>1. ControlsInv => ControlsTypeOK
  BY InvImpliesTypeOK
<1> QED
  BY <1>1, ControlsInvariant, PTL

\* What the operator said last of a claim or a session holds of all records, but
\* for corrections that a restore overruled.
THEOREM LastWordStands == ControlsSpec => []OperatorHasLastWord
<1>1. ControlsInv => OperatorHasLastWord
  BY InvImpliesLastWord
<1> QED
  BY <1>1, ControlsInvariant, PTL

\* Applying the controls again changes neither records nor controls.
THEOREM LoadingIsIdempotent == ControlsSpec => []LoadChangesNothing
<1>1. ControlsInv => LoadChangesNothing
  BY DEF ControlsInv, AppliedInv
<1> QED
  BY <1>1, ControlsInvariant, PTL

\* An ingestion only adds ids that were never in the store.
THEOREM AddedIdsAreNew == ControlsSpec => NewIdsAreNew
<1> DEFINE Added == commands' = commands =>
                       (Ids(records') \ Ids(records)) \cap issued = {}
<1>1. ControlsInv /\ [ControlsNext]_controlsVars => [Added]_controlsVars
  BY NextGivesNewIds
<1>2. ControlsSpec => [][Added]_controlsVars
  BY <1>1, ControlsInvariant, PTL DEF ControlsSpec
<1> QED
  BY <1>2 DEF NewIdsAreNew
=============================================================================
