------------------------ MODULE SessionRecords_proofs -----------------------
(***************************************************************************)
(* Proofs about SessionRecords, for any sessions, texts, contexts and      *)
(* units.  The heart of it is that a store says of each session what the   *)
(* session said last, each claim under an id of its own (Faithful), which  *)
(* one ingestion keeps for its session and leaves alone for all others.    *)
(* The lemmas that come first are about the operators of Reconciliation.   *)
(***************************************************************************)
EXTENDS SessionRecords, FiniteSetTheorems, FunctionTheorems, SequenceTheorems,
        TLAPS

-----------------------------------------------------------------------------
\* Induction.  The library's induction theorems are about operators, which the
\* provers cannot instantiate; that the naturals are well founded is not.
LEMMA LeastNumber ==
  ASSUME NEW T, T \subseteq Nat, T # {}
  PROVE  \E n \in T : \A m \in T : n <= m
<1> DEFINE R == OpToRel(<, Nat)
<1>1. IsWellFoundedOn(R, Nat)
  BY NatLessThanWellFounded
<1>2. \A x, y \in Nat : x < y => <<x, y>> \in R
  BY DEF OpToRel
<1> HIDE DEF R
<1>3. PICK x \in T : \A y \in T : ~(<<y, x>> \in R)
  BY <1>1, WFMin
<1>4. \A m \in T : ~(m < x) /\ m \in Nat /\ x \in Nat
  BY <1>2, <1>3
<1> QED
  BY <1>4

\* A set with zero, and the successor of each it has, has all naturals.
LEMMA Induction ==
  ASSUME NEW T, 0 \in T, \A n \in Nat : n \in T => n + 1 \in T
  PROVE  \A n \in Nat : n \in T
<1> SUFFICES ASSUME NEW n \in Nat, n \notin T
             PROVE  FALSE
  OBVIOUS
<1> DEFINE Rest == {k \in Nat : k \notin T}
<1>1. Rest \subseteq Nat /\ n \in Rest
  OBVIOUS
<1> HIDE DEF Rest
<1>2. PICK k \in Rest : \A m \in Rest : k <= m
  BY <1>1, LeastNumber
<1>3. k \in Nat /\ k \notin T /\ k # 0
  BY DEF Rest
<1>4. k - 1 \in Nat /\ k - 1 \notin Rest
  BY <1>2, <1>3
<1>5. k - 1 \in T
  BY <1>4 DEF Rest
<1>6. (k - 1) + 1 \in T
  BY <1>4, <1>5
<1> QED
  BY <1>3, <1>6

\* A bounded set of numbers that is not empty has a maximum.
LEMMA Maximum ==
  ASSUME NEW S, S \subseteq Nat, S # {}, NEW b \in Nat, \A x \in S : x <= b
  PROVE  Max(S) \in S /\ \A x \in S : x <= Max(S)
<1> DEFINE Above == {n \in Nat : \A x \in S : x <= n}
<1>1. Above \subseteq Nat /\ Above # {}
  OBVIOUS
<1>2. PICK n \in Above : \A m \in Above : n <= m
  <2> HIDE DEF Above
  <2> QED
    BY <1>1, LeastNumber
<1>3. n \in S
  <2> SUFFICES ASSUME n \notin S
               PROVE  FALSE
    OBVIOUS
  <2>1. n \in Nat /\ \A x \in S : x \in Nat /\ x <= n /\ x # n
    OBVIOUS
  <2>2. PICK x \in S : TRUE
    OBVIOUS
  <2>3. n - 1 \in Nat /\ \A y \in S : y <= n - 1
    BY <2>1, <2>2
  <2>4. n - 1 \in Above
    BY <2>3
  <2> QED
    BY <1>2, <2>1, <2>4
<1>4. \E x \in S : \A y \in S : x >= y
  BY <1>3
<1> QED
  BY <1>4 DEF Max

\* The elements of a finite set, counted by how many come up to each: the
\* counts are those from one to all, each of one element.
LEMMA Ranking ==
  ASSUME NEW S, IsFiniteSet(S), NEW Below \in [S -> SUBSET S],
         \A x \in S : x \in Below[x],
         \A x, y \in S : Below[x] = Below[y] => x = y,
         \A x, y \in S : Below[x] \subseteq Below[y] \/ Below[y] \subseteq Below[x]
  PROVE  /\ Cardinality(S) \in Nat
         /\ \A x \in S : Cardinality(Below[x]) \in 1 .. Cardinality(S)
         /\ \A x, y \in S : Cardinality(Below[x]) = Cardinality(Below[y]) => x = y
         /\ \A k \in 1 .. Cardinality(S) : \E x \in S : Cardinality(Below[x]) = k
<1> DEFINE n == Cardinality(S)
<1>1. n \in Nat
  BY FS_CardinalityType
<1>2. \A x \in S : /\ IsFiniteSet(Below[x]) /\ Cardinality(Below[x]) \in Nat
                   /\ Cardinality(Below[x]) <= n /\ Cardinality(Below[x]) # 0
  <2> TAKE x \in S
  <2>1. Below[x] \in SUBSET S /\ Below[x] # {}
    OBVIOUS
  <2>2. IsFiniteSet(Below[x]) /\ Cardinality(Below[x]) <= n
    BY <2>1, FS_Subset
  <2> QED
    BY <2>1, <2>2, FS_CardinalityType, FS_EmptySet
<1>3. \A x, y \in S : Cardinality(Below[x]) = Cardinality(Below[y]) => x = y
  <2> SUFFICES ASSUME NEW x \in S, NEW y \in S, Below[x] \subseteq Below[y],
                      Cardinality(Below[x]) = Cardinality(Below[y])
               PROVE  x = y
    OBVIOUS
  <2>1. Below[x] \in SUBSET Below[y] /\ IsFiniteSet(Below[y])
    BY <1>2
  <2>2. Below[x] = Below[y]
    BY <2>1, FS_Subset
  <2> QED
    BY <2>2
<1> DEFINE f == [x \in S |-> Cardinality(Below[x])]
<1>4. f \in [S -> 1 .. n]
  BY <1>1, <1>2
<1>5. \A x, y \in S : f[x] = f[y] => x = y
  BY <1>3
<1>6. IsFiniteSet(1 .. n) /\ Cardinality(1 .. n) = n
  BY <1>1, FS_Interval
<1>7. \A k \in 1 .. n : \E x \in S : f[x] = k
  <2> HIDE DEF f
  <2>1. f \in Injection(S, 1 .. n)
    BY <1>4, <1>5, Fun_IsInj
  <2>2. f \in Surjection(S, 1 .. n)
    <3> HIDE DEF n
    <3>1. Cardinality(S) = Cardinality(1 .. n)
      BY <1>6 DEF n
    <3> QED
      BY <2>1, <1>6, <3>1, FS_Injection
  <2> QED
    BY <2>2, Fun_SurjectionProperties
<1> QED
  BY <1>1, <1>2, <1>3, <1>7

\* Numbers of a finite set, each counted by those up to it.
LEMMA CountFacts ==
  ASSUME NEW S, S \subseteq Nat, IsFiniteSet(S)
  PROVE  /\ Cardinality(S) \in Nat
         /\ \A p \in S : Cardinality({q \in S : q <= p}) \in 1 .. Cardinality(S)
         /\ \A p, r \in S : Cardinality({q \in S : q <= p}) = Cardinality({q \in S : q <= r})
                              => p = r
         /\ \A k \in 1 .. Cardinality(S) : \E p \in S : Cardinality({q \in S : q <= p}) = k
<1> DEFINE Below == [p \in S |-> {q \in S : q <= p}]
<1>1. Below \in [S -> SUBSET S]
  OBVIOUS
<1>2. \A p \in S : p \in Below[p]
  OBVIOUS
<1>3. ASSUME NEW p \in S, NEW q \in S, p <= q
      PROVE  Below[p] \subseteq Below[q]
  <2>1. \A x \in S : x \in Nat
    OBVIOUS
  <2>2. \A x \in S : x <= p => x <= q
    BY <1>3, <2>1
  <2>3. Below[p] = {x \in S : x <= p} /\ Below[q] = {x \in S : x <= q}
    OBVIOUS
  <2> HIDE DEF Below
  <2> QED
    BY <2>2, <2>3
<1>4. \A p, q \in S : Below[p] = Below[q] => p = q
  <2>1. \A p, q \in S : q \in Below[p] => q <= p
    OBVIOUS
  <2> QED
    BY <1>2, <2>1
<1>5. \A p, q \in S : Below[p] \subseteq Below[q] \/ Below[q] \subseteq Below[p]
  <2>1. \A p, q \in S : p <= q \/ q <= p
    OBVIOUS
  <2> QED
    BY <2>1, <1>3
<1>6. \A p \in S : Below[p] = {q \in S : q <= p}
  OBVIOUS
<1> HIDE DEF Below
<1>7. /\ Cardinality(S) \in Nat
      /\ \A x \in S : Cardinality(Below[x]) \in 1 .. Cardinality(S)
      /\ \A x, y \in S : Cardinality(Below[x]) = Cardinality(Below[y]) => x = y
      /\ \A k \in 1 .. Cardinality(S) : \E x \in S : Cardinality(Below[x]) = k
  BY ONLY IsFiniteSet(S), <1>1, <1>2, <1>4, <1>5, Ranking
<1>8. \A p \in S : Cardinality(Below[p]) = Cardinality({q \in S : q <= p})
  BY <1>6
<1> QED
  BY <1>7, <1>8

\* The numbers of a finite set in rising order, each once.
LEMMA InOrderFacts ==
  ASSUME NEW S, S \subseteq Nat, IsFiniteSet(S)
  PROVE  /\ Cardinality(S) \in Nat
         /\ InOrder(S) \in [1 .. Cardinality(S) -> S]
         /\ \A p \in S : \E k \in 1 .. Cardinality(S) : InOrder(S)[k] = p
         /\ \A k, l \in 1 .. Cardinality(S) : InOrder(S)[k] = InOrder(S)[l] => k = l
<1> DEFINE n == Cardinality(S)
           count(p) == Cardinality({q \in S : q <= p})
<1>1. /\ n \in Nat
      /\ \A p \in S : count(p) \in 1 .. n
      /\ \A p, r \in S : count(p) = count(r) => p = r
      /\ \A k \in 1 .. n : \E p \in S : count(p) = k
  BY CountFacts
<1>2. InOrder(S) = [k \in 1 .. n |-> CHOOSE p \in S : count(p) = k]
  BY DEF InOrder
<1> HIDE DEF n, count
<1>3. \A k \in 1 .. n : InOrder(S)[k] \in S /\ count(InOrder(S)[k]) = k
  BY <1>1, <1>2
<1>4. InOrder(S) = [k \in 1 .. n |-> InOrder(S)[k]]
  BY <1>2
<1>5. \A p \in S : \E k \in 1 .. n : InOrder(S)[k] = p
  BY <1>1, <1>3
<1> QED
  BY <1>1, <1>3, <1>4, <1>5 DEF n

\* What is picked from a sequence is each element at one of the positions, once.
LEMMA PickedFacts ==
  ASSUME NEW D, NEW seq \in Seq(D), NEW S, S \subseteq DOMAIN seq
  PROVE  /\ Picked(seq, S) \in Seq(D)
         /\ \E g \in [DOMAIN Picked(seq, S) -> S] :
               /\ \A k \in DOMAIN Picked(seq, S) : Picked(seq, S)[k] = seq[g[k]]
               /\ \A k, l \in DOMAIN Picked(seq, S) : g[k] = g[l] => k = l
               /\ \A p \in S : \E k \in DOMAIN Picked(seq, S) : g[k] = p
<1>1. S \subseteq Nat /\ IsFiniteSet(S)
  <2>1. DOMAIN seq = 1 .. Len(seq) /\ Len(seq) \in Nat
    OBVIOUS
  <2>2. IsFiniteSet(1 .. Len(seq))
    BY <2>1, FS_Interval
  <2> QED
    BY <2>1, <2>2, FS_Subset
<1> DEFINE n == Cardinality(S)
           g == InOrder(S)
<1>2. /\ n \in Nat /\ g \in [1 .. n -> S]
      /\ \A p \in S : \E k \in 1 .. n : g[k] = p
      /\ \A k, l \in 1 .. n : g[k] = g[l] => k = l
  BY <1>1, InOrderFacts
<1> HIDE DEF g, n
<1>3. Picked(seq, S) = [k \in 1 .. n |-> seq[g[k]]]
  BY <1>2 DEF Picked, g
<1>4. \A k \in 1 .. n : seq[g[k]] \in D
  BY <1>2
<1>5. Picked(seq, S) \in Seq(D) /\ DOMAIN Picked(seq, S) = 1 .. n
  BY <1>2, <1>3, <1>4, IsASeq
<1> QED
  BY <1>2, <1>3, <1>5

-----------------------------------------------------------------------------
\* What a record says: its occurrences, each with its wording; and what all
\* records say.
Occurrence(o, text) ==
    [id |-> o.id, from |-> o.from, text |-> text, ctx |-> o.ctx, mark |-> o.mark]

DupsSay(rec) == {Occurrence(rec.dups[j], Wording(rec, rec.dups[j])) : j \in DOMAIN rec.dups}
SaidBy(rec) == {Occurrence(rec, rec.text)} \cup DupsSay(rec)
SaidIn(recs) == UNION {SaidBy(recs[i]) : i \in DOMAIN recs}

\* No two occurrences of a record have one id; nor do two of any records.
Apart(rec) ==
    /\ \A j \in DOMAIN rec.dups : rec.dups[j].id # rec.id
    /\ \A j, k \in DOMAIN rec.dups : rec.dups[j].id = rec.dups[k].id => j = k

Separate(recs) ==
    /\ \A i \in DOMAIN recs : Apart(recs[i])
    /\ \A i, j \in DOMAIN recs : i # j => IdsOf(recs[i]) \cap IdsOf(recs[j]) = {}

UnitType == [text : Texts, ctx : Contexts]

\* An id is in a record as that of something it says.
LEMMA IdsAreSaid ==
  ASSUME NEW rec
  PROVE  IdsOf(rec) = {o.id : o \in SaidBy(rec)}
<1>1. \A j \in DOMAIN rec.dups :
         Occurrence(rec.dups[j], Wording(rec, rec.dups[j])).id = rec.dups[j].id
  BY DEF Occurrence
<1>2. {o.id : o \in DupsSay(rec)} = {rec.dups[j].id : j \in DOMAIN rec.dups}
  BY <1>1 DEF DupsSay
<1>3. Occurrence(rec, rec.text).id = rec.id
  BY DEF Occurrence
<1> QED
  BY <1>2, <1>3 DEF IdsOf, SaidBy

\* The ids of records are those of what is said in them.
LEMMA IdsInAreSaid ==
  ASSUME NEW recs
  PROVE  Ids(recs) = {o.id : o \in SaidIn(recs)}
<1>1. \A i \in DOMAIN recs : IdsOf(recs[i]) = {o.id : o \in SaidBy(recs[i])}
  BY IdsAreSaid
<1> QED
  BY <1>1 DEF Ids, SaidIn

\* Two occurrences of separate records are one when they have one id.
LEMMA OneOccurrence ==
  ASSUME NEW recs, Separate(recs), NEW o \in SaidIn(recs), NEW q \in SaidIn(recs),
         o.id = q.id
  PROVE  o = q
<1>1. PICK i \in DOMAIN recs : o \in SaidBy(recs[i])
  BY DEF SaidIn
<1>2. PICK j \in DOMAIN recs : q \in SaidBy(recs[j])
  BY DEF SaidIn
<1>3. o.id \in IdsOf(recs[i]) /\ q.id \in IdsOf(recs[j])
  BY <1>1, <1>2, IdsAreSaid
<1>4. i = j
  BY <1>3 DEF Separate
<1>5. Apart(recs[i])
  BY DEF Separate
<1> DEFINE rec == recs[i]
<1>6. /\ o = Occurrence(rec, rec.text)
         \/ \E k \in DOMAIN rec.dups : o = Occurrence(rec.dups[k], Wording(rec, rec.dups[k]))
      /\ q = Occurrence(rec, rec.text)
         \/ \E k \in DOMAIN rec.dups : q = Occurrence(rec.dups[k], Wording(rec, rec.dups[k]))
  BY <1>1, <1>2, <1>4 DEF SaidBy, DupsSay
<1> QED
  BY <1>5, <1>6 DEF Apart, Occurrence

\* The n duplicates of a record that h selects, each once.
Some(rec, n, h, dups) ==
    /\ n \in Nat /\ h \in [1 .. n -> DOMAIN rec.dups]
    /\ dups = [k \in 1 .. n |-> rec.dups[h[k]]]
    /\ \A k, l \in 1 .. n : h[k] = h[l] => k = l

\* The duplicates of r are those, with what they say.
Reworded(rec, n, h, r) ==
    /\ DOMAIN r.dups = 1 .. n
    /\ \A k \in 1 .. n : r.dups[k].id = rec.dups[h[k]].id
    /\ \A k \in 1 .. n : Occurrence(r.dups[k], Wording(r, r.dups[k]))
           = Occurrence(rec.dups[h[k]], Wording(rec, rec.dups[h[k]]))

\* Duplicates that are some of a record's, under another text: they say what
\* they said.
LEMMA KeepWordingFacts ==
  ASSUME NEW I, NEW F, NEW rec \in RecordType(I, F), NEW new \in Texts,
         NEW n, NEW h, NEW dups, Some(rec, n, h, dups),
         NEW r, r.dups = KeepWording(dups, rec.text, new), r.text = new
  PROVE  r.dups \in Seq(DupType(I, F)) /\ Reworded(rec, n, h, r)
<1> USE DEF Some
<1>1. /\ rec.text \in Texts /\ rec.dups \in Seq(DupType(I, F))
      /\ \A k \in 1 .. n : rec.dups[h[k]] \in DupType(I, F)
  BY DEF RecordType
<1>2. r.dups = [k \in 1 .. n |->
                  IF new # rec.text /\ dups[k].para = Same
                  THEN [dups[k] EXCEPT !.para = rec.text] ELSE dups[k]]
  BY DEF KeepWording
<1>3. ASSUME NEW k \in 1 .. n
      PROVE  /\ r.dups[k] \in DupType(I, F)
             /\ r.dups[k].id = rec.dups[h[k]].id
             /\ Occurrence(r.dups[k], Wording(r, r.dups[k]))
                  = Occurrence(rec.dups[h[k]], Wording(rec, rec.dups[h[k]]))
  <2> DEFINE d == rec.dups[h[k]]
  <2>1. d \in DupType(I, F) /\ dups[k] = d
    BY <1>1
  <2>2. r.dups[k] = IF new # rec.text /\ d.para = Same
                    THEN [d EXCEPT !.para = rec.text] ELSE d
    BY <1>2, <2>1
  <2> HIDE DEF d
  <2>3. CASE new # rec.text /\ d.para = Same
    <3>1. r.dups[k] = [id |-> d.id, from |-> d.from, ctx |-> d.ctx, mark |-> d.mark,
                       para |-> rec.text]
      BY <2>1, <2>2, <2>3 DEF DupType
    <3>2. Wording(rec, d) = rec.text /\ Wording(r, r.dups[k]) = rec.text
      BY <2>3, <3>1, <1>1, RecordConstants DEF Wording
    <3>3. r.dups[k].id = d.id /\ r.dups[k].from = d.from /\ r.dups[k].ctx = d.ctx
          /\ r.dups[k].mark = d.mark
      BY <3>1
    <3>4. r.dups[k] \in DupType(I, F)
      BY <1>1, <2>1, <3>1 DEF DupType
    <3>5. Occurrence(r.dups[k], rec.text) = Occurrence(d, rec.text)
      BY <3>3 DEF Occurrence
    <3> QED
      BY <3>2, <3>3, <3>4, <3>5 DEF d
  <2>4. CASE ~(new # rec.text /\ d.para = Same)
    <3>1. r.dups[k] = d
      BY <2>2, <2>4
    <3>2. Wording(r, d) = Wording(rec, d)
      BY <2>4 DEF Wording
    <3> QED
      BY <2>1, <3>1, <3>2 DEF d
  <2> QED
    BY <2>3, <2>4
<1>4. r.dups \in Seq(DupType(I, F)) /\ DOMAIN r.dups = 1 .. n
  <2>1. r.dups = [k \in 1 .. n |-> r.dups[k]] /\ n \in Nat
    BY <1>2
  <2>2. \A k \in 1 .. n : r.dups[k] \in DupType(I, F)
    BY <1>3
  <2>3. r.dups \in Seq(DupType(I, F))
    BY ONLY <2>1, <2>2, IsASeq
  <2> QED
    BY <2>1, <2>3
<1> QED
  BY <1>3, <1>4 DEF Reworded

\* The duplicates of other sessions.
Others(rec, s, n, h) ==
    /\ Some(rec, n, h, Foreign(rec, s))
    /\ Len(Foreign(rec, s)) = n
    /\ \A k \in 1 .. n : rec.dups[h[k]].from # s
    /\ \A j \in DOMAIN rec.dups : rec.dups[j].from # s => \E k \in 1 .. n : h[k] = j

\* The duplicates of other sessions, in the order of the record.
LEMMA ForeignFacts ==
  ASSUME NEW I, NEW F, NEW rec \in RecordType(I, F), NEW s
  PROVE  /\ Foreign(rec, s) \in Seq(DupType(I, F))
         /\ \E n, h : Others(rec, s, n, h)
<1> DEFINE S == {i \in DOMAIN rec.dups : rec.dups[i].from # s}
           P == Picked(rec.dups, S)
<1>1. rec.dups \in Seq(DupType(I, F)) /\ S \subseteq DOMAIN rec.dups
  BY DEF RecordType
<1>2. Foreign(rec, s) = P
  BY DEF Foreign
<1> HIDE DEF S, P
<1>3. P \in Seq(DupType(I, F))
  BY <1>1, PickedFacts DEF P
<1>4. PICK g \in [DOMAIN P -> S] :
               /\ \A k \in DOMAIN P : P[k] = rec.dups[g[k]]
               /\ \A k, l \in DOMAIN P : g[k] = g[l] => k = l
               /\ \A p \in S : \E k \in DOMAIN P : g[k] = p
  BY <1>1, PickedFacts DEF P
<1>5. /\ Len(P) \in Nat /\ DOMAIN P = 1 .. Len(P)
      /\ P = [k \in 1 .. Len(P) |-> P[k]]
  BY <1>3
<1>6. g \in [1 .. Len(P) -> DOMAIN rec.dups]
  BY <1>1, <1>5
<1>7. P = [k \in 1 .. Len(P) |-> rec.dups[g[k]]]
  BY <1>4, <1>5
<1>8. \A k \in 1 .. Len(P) : rec.dups[g[k]].from # s
  BY <1>5 DEF S
<1>9. \A j \in DOMAIN rec.dups : rec.dups[j].from # s => \E k \in 1 .. Len(P) : g[k] = j
  BY <1>4, <1>5 DEF S
<1>10. Some(rec, Len(P), g, P)
  BY <1>4, <1>5, <1>6, <1>7 DEF Some
<1>11. Others(rec, s, Len(P), g)
  BY <1>2, <1>8, <1>9, <1>10 DEF Others
<1> QED
  BY <1>2, <1>3, <1>11

-----------------------------------------------------------------------------
\* Reconciliation of one record.  What the session says of it afterwards: the
\* claim that is made again, as the unit has it.
Matched(s, units, i) == units[CHOOSE p \in Consumes(s, units, i) : TRUE]

Continued(s, units, i) ==
    [id |-> records[i].id, from |-> s, text |-> Matched(s, units, i).text,
     ctx |-> Matched(s, units, i).ctx, mark |-> records[i].mark]

\* What a record has when its duplicates are those of other sessions.
LEMMA ReassertedFacts ==
  ASSUME NEW I, NEW F, NEW rec \in RecordType(I, F), NEW s,
         NEW unit \in UnitType, rec.from = s,
         NEW r, r = Reasserted(rec, s, unit)
  PROVE  /\ r \in RecordType(I, F)
         /\ Apart(rec) => Apart(r)
         /\ IdsOf(r) \subseteq IdsOf(rec)
         /\ SaidBy(r) = {[id |-> rec.id, from |-> s, text |-> unit.text,
                          ctx |-> unit.ctx, mark |-> rec.mark]}
                \cup {o \in SaidBy(rec) : o.from # s}
<1>1. PICK n, h : Others(rec, s, n, h)
  BY ForeignFacts
<1>2. /\ Some(rec, n, h, Foreign(rec, s))
      /\ Foreign(rec, s) \in Seq(DupType(I, F)) /\ Len(Foreign(rec, s)) = n
      /\ \A k \in 1 .. n : rec.dups[h[k]].from # s
      /\ \A j \in DOMAIN rec.dups : rec.dups[j].from # s => \E k \in 1 .. n : h[k] = j
  BY <1>1, ForeignFacts DEF Others
<1>3. /\ n \in Nat /\ h \in [1 .. n -> DOMAIN rec.dups]
      /\ Foreign(rec, s) = [k \in 1 .. n |-> rec.dups[h[k]]]
      /\ \A k, l \in 1 .. n : h[k] = h[l] => k = l
  BY <1>2 DEF Some
<1>4. unit.text \in Texts /\ unit.ctx \in Contexts
  BY DEF UnitType
<1>5. r = [id |-> rec.id, from |-> rec.from, text |-> unit.text, ctx |-> unit.ctx,
           mark |-> rec.mark, dups |-> KeepWording(Foreign(rec, s), rec.text, unit.text)]
  BY DEF Reasserted, RecordType
<1>6. /\ r.dups = KeepWording(Foreign(rec, s), rec.text, unit.text) /\ r.text = unit.text
      /\ r.id = rec.id /\ r.from = s /\ r.ctx = unit.ctx /\ r.mark = rec.mark
  BY <1>5
<1>7. /\ r.dups \in Seq(DupType(I, F)) /\ DOMAIN r.dups = 1 .. n
      /\ \A k \in 1 .. n : r.dups[k].id = rec.dups[h[k]].id
      /\ \A k \in 1 .. n : Occurrence(r.dups[k], Wording(r, r.dups[k]))
             = Occurrence(rec.dups[h[k]], Wording(rec, rec.dups[h[k]]))
  <2>1. r.dups \in Seq(DupType(I, F)) /\ Reworded(rec, n, h, r)
    BY <1>2, <1>4, <1>6, KeepWordingFacts
  <2> QED
    BY <2>1 DEF Reworded
<1>8. r \in RecordType(I, F)
  BY <1>4, <1>5, <1>6, <1>7 DEF RecordType
<1>9. Apart(rec) => Apart(r)
  <2>1. ASSUME Apart(rec), NEW j \in 1 .. n
        PROVE  r.dups[j].id # r.id
    BY <1>3, <1>6, <1>7, <2>1 DEF Apart
  <2>2. ASSUME Apart(rec), NEW j \in 1 .. n, NEW k \in 1 .. n,
               r.dups[j].id = r.dups[k].id
        PROVE  j = k
    <3>1. h[j] = h[k]
      BY <1>3, <1>7, <2>2 DEF Apart
    <3> QED
      BY <1>3, <3>1
  <2> QED
    BY <1>7, <2>1, <2>2 DEF Apart
<1>10. IdsOf(r) \subseteq IdsOf(rec)
  <2>1. \A k \in 1 .. n : r.dups[k].id \in {rec.dups[j].id : j \in DOMAIN rec.dups}
    BY <1>3, <1>7
  <2> QED
    BY <1>6, <1>7, <2>1 DEF IdsOf
<1>11. DupsSay(r) = {o \in DupsSay(rec) : o.from # s}
  <2> DEFINE Of(k) == Occurrence(rec.dups[h[k]], Wording(rec, rec.dups[h[k]]))
  <2>1. \A j \in DOMAIN rec.dups :
           Occurrence(rec.dups[j], Wording(rec, rec.dups[j])).from = rec.dups[j].from
    BY DEF Occurrence
  <2>2. DupsSay(r) = {Of(k) : k \in 1 .. n}
    BY <1>7 DEF DupsSay
  <2>3. {o \in DupsSay(rec) : o.from # s} = {Of(k) : k \in 1 .. n}
    BY <1>2, <1>3, <2>1 DEF DupsSay
  <2> QED
    BY <2>2, <2>3
<1>12. Occurrence(rec, rec.text).from = s
  BY DEF Occurrence
<1>13. Occurrence(r, r.text) = [id |-> rec.id, from |-> s, text |-> unit.text,
                                ctx |-> unit.ctx, mark |-> rec.mark]
  BY <1>6 DEF Occurrence
<1> QED
  BY <1>8, <1>9, <1>10, <1>11, <1>12, <1>13 DEF SaidBy

\* A record of another session loses what the session said in it.
LEMMA StrippedFacts ==
  ASSUME NEW I, NEW F, NEW rec \in RecordType(I, F), NEW s, rec.from # s,
         NEW r, r = Stripped(rec, s)
  PROVE  /\ r \in RecordType(I, F)
         /\ Apart(rec) => Apart(r)
         /\ IdsOf(r) \subseteq IdsOf(rec)
         /\ SaidBy(r) = {o \in SaidBy(rec) : o.from # s}
<1>1. PICK n, h : Others(rec, s, n, h)
  BY ForeignFacts
<1>2. /\ Some(rec, n, h, Foreign(rec, s))
      /\ Foreign(rec, s) \in Seq(DupType(I, F)) /\ Len(Foreign(rec, s)) = n
      /\ \A k \in 1 .. n : rec.dups[h[k]].from # s
      /\ \A j \in DOMAIN rec.dups : rec.dups[j].from # s => \E k \in 1 .. n : h[k] = j
  BY <1>1, ForeignFacts DEF Others
<1>3. /\ n \in Nat /\ h \in [1 .. n -> DOMAIN rec.dups]
      /\ Foreign(rec, s) = [k \in 1 .. n |-> rec.dups[h[k]]]
      /\ \A k, l \in 1 .. n : h[k] = h[l] => k = l
  BY <1>2 DEF Some
<1>4. /\ r.dups = Foreign(rec, s) /\ r.text = rec.text
      /\ r.id = rec.id /\ r.from = rec.from /\ r.ctx = rec.ctx /\ r.mark = rec.mark
  BY DEF RecordType, Stripped
<1>5. DOMAIN r.dups = 1 .. n /\ \A k \in 1 .. n : r.dups[k] = rec.dups[h[k]]
  BY <1>2, <1>3, <1>4
<1>6. r \in RecordType(I, F)
  BY <1>2, <1>3 DEF RecordType, Stripped
<1>7. Apart(rec) => Apart(r)
  BY <1>2, <1>3, <1>4, <1>5 DEF Apart
<1>8. IdsOf(r) \subseteq IdsOf(rec)
  BY <1>2, <1>3, <1>4, <1>5 DEF IdsOf
<1>9. \A j : Occurrence(rec.dups[j], Wording(rec, rec.dups[j])).from = rec.dups[j].from
  BY DEF Occurrence
<1>10. \A k \in 1 .. n : Wording(r, r.dups[k]) = Wording(rec, rec.dups[h[k]])
  BY <1>4, <1>5 DEF Wording
<1>11. DupsSay(r) = {o \in DupsSay(rec) : o.from # s}
  <2> DEFINE Of(k) == Occurrence(rec.dups[h[k]], Wording(rec, rec.dups[h[k]]))
  <2>1. \A k \in 1 .. n : Occurrence(r.dups[k], Wording(r, r.dups[k])) = Of(k)
    BY <1>5, <1>10
  <2>2. DupsSay(r) = {Of(k) : k \in 1 .. n}
    BY <1>5, <2>1 DEF DupsSay
  <2>3. {o \in DupsSay(rec) : o.from # s} = {Of(k) : k \in 1 .. n}
    BY <1>2, <1>3, <1>9 DEF DupsSay
  <2> QED
    BY <2>2, <2>3
<1>12. Occurrence(r, r.text) = Occurrence(rec, rec.text)
       /\ Occurrence(rec, rec.text).from # s
  BY <1>4 DEF Occurrence
<1> QED
  BY <1>6, <1>7, <1>8, <1>11, <1>12 DEF SaidBy

\* A record whose session left it becomes that of its first other duplicate.
LEMMA PromotedFacts ==
  ASSUME NEW I, NEW F, NEW rec \in RecordType(I, F), NEW s, rec.from = s,
         Foreign(rec, s) # <<>>, NEW r, r = Promoted(rec, s)
  PROVE  /\ r \in RecordType(I, F)
         /\ Apart(rec) => Apart(r)
         /\ IdsOf(r) \subseteq IdsOf(rec)
         /\ SaidBy(r) = {o \in SaidBy(rec) : o.from # s}
<1>1. PICK n, h : Others(rec, s, n, h)
  BY ForeignFacts
<1>2. /\ Some(rec, n, h, Foreign(rec, s))
      /\ Foreign(rec, s) \in Seq(DupType(I, F)) /\ Len(Foreign(rec, s)) = n
      /\ \A k \in 1 .. n : rec.dups[h[k]].from # s
      /\ \A j \in DOMAIN rec.dups : rec.dups[j].from # s => \E k \in 1 .. n : h[k] = j
  BY <1>1, ForeignFacts DEF Others
<1>3. /\ n \in Nat /\ h \in [1 .. n -> DOMAIN rec.dups]
      /\ Foreign(rec, s) = [k \in 1 .. n |-> rec.dups[h[k]]]
      /\ \A k, l \in 1 .. n : h[k] = h[l] => k = l
  BY <1>2 DEF Some
<1> DEFINE m == n - 1
           heir == rec.dups[h[1]]
           text == Wording(rec, heir)
           tail == [k \in 1 .. m |-> rec.dups[h[k + 1]]]
           g == [k \in 1 .. m |-> h[k + 1]]
<1>4. n \in Nat /\ n # 0 /\ 1 \in 1 .. n /\ h[1] \in DOMAIN rec.dups
      /\ heir \in DupType(I, F) /\ m \in Nat /\ n = m + 1
      /\ \A k \in 1 .. m : k + 1 \in 1 .. n
  BY <1>2, <1>3 DEF RecordType
<1> HIDE DEF m
<1>5. Head(Foreign(rec, s)) = heir /\ Tail(Foreign(rec, s)) = tail
  <2> DEFINE fs == Foreign(rec, s)
  <2>1. /\ fs \in Seq(DupType(I, F)) /\ fs # <<>> /\ Len(fs) = n
        /\ \A k \in 1 .. n : fs[k] = rec.dups[h[k]]
    BY <1>2, <1>3
  <2> HIDE DEF fs
  <2>2. Head(fs) = fs[1]
    BY <2>1
  <2>3. /\ Len(Tail(fs)) = m /\ Tail(fs) \in Seq(DupType(I, F))
        /\ \A k \in 1 .. m : Tail(fs)[k] = fs[k + 1]
    BY <2>1, HeadTailProperties DEF m
  <2> DEFINE ts == [k \in 1 .. m |-> fs[k + 1]]
  <2>4. ts \in Seq(DupType(I, F)) /\ Len(ts) = m /\ \A k \in 1 .. m : ts[k] = fs[k + 1]
    BY <2>1, <1>4
  <2> HIDE DEF ts
  <2>5. Tail(fs) = ts
    BY <2>3, <2>4, SeqEqual
  <2> QED
    BY <2>1, <2>2, <2>5, <1>4 DEF fs, ts
<1>6. text \in Texts
  BY <1>4, RecordConstants DEF Wording, DupType, RecordType
<1>7. /\ g \in [1 .. m -> DOMAIN rec.dups]
      /\ \A k, l \in 1 .. m : g[k] = g[l] => k = l
      /\ Some(rec, m, g, tail)
  BY <1>2, <1>3, <1>4 DEF Some
<1>8. r = [id |-> heir.id, from |-> heir.from, text |-> text, ctx |-> heir.ctx,
           mark |-> heir.mark, dups |-> KeepWording(tail, rec.text, text)]
  BY <1>5 DEF Promoted
<1> HIDE DEF tail, text
<1>9. /\ r.dups = KeepWording(tail, rec.text, text) /\ r.text = text
      /\ r.id = heir.id /\ r.from = heir.from /\ r.ctx = heir.ctx /\ r.mark = heir.mark
  BY <1>8
<1>10. /\ r.dups \in Seq(DupType(I, F)) /\ DOMAIN r.dups = 1 .. m
       /\ \A k \in 1 .. m : r.dups[k].id = rec.dups[g[k]].id
       /\ \A k \in 1 .. m : Occurrence(r.dups[k], Wording(r, r.dups[k]))
              = Occurrence(rec.dups[g[k]], Wording(rec, rec.dups[g[k]]))
  <2> HIDE DEF g, heir
  <2>1. Some(rec, m, g, tail)
    BY <1>7
  <2>2. r.dups \in Seq(DupType(I, F)) /\ Reworded(rec, m, g, r)
    BY <1>6, <2>1, <1>9, KeepWordingFacts
  <2> QED
    BY <2>2 DEF Reworded
<1>11. r \in RecordType(I, F)
  BY <1>4, <1>6, <1>8, <1>9, <1>10 DEF RecordType, DupType
<1>12. \A k \in 1 .. m : g[k] = h[k + 1] /\ g[k] # h[1]
  BY <1>2, <1>3, <1>4
<1> HIDE DEF g
<1>13. Apart(rec) => Apart(r)
  <2>1. ASSUME Apart(rec), NEW j \in 1 .. m
        PROVE  /\ r.dups[j].id = rec.dups[g[j]].id
               /\ g[j] \in DOMAIN rec.dups /\ g[j] # h[1]
               /\ r.dups[j].id # r.id
    BY <1>4, <1>7, <1>9, <1>10, <1>12, <2>1 DEF Apart
  <2>2. ASSUME Apart(rec), NEW j \in 1 .. m, NEW k \in 1 .. m,
               r.dups[j].id = r.dups[k].id
        PROVE  j = k
    <3>1. g[j] = g[k]
      BY <1>7, <2>1, <2>2 DEF Apart
    <3> QED
      BY <1>7, <3>1
  <2> QED
    BY <1>10, <2>1, <2>2 DEF Apart
<1>14. IdsOf(r) \subseteq IdsOf(rec)
  <2>1. \A k \in 1 .. m : r.dups[k].id \in {rec.dups[j].id : j \in DOMAIN rec.dups}
    BY <1>7, <1>10
  <2>2. r.id \in {rec.dups[j].id : j \in DOMAIN rec.dups}
    BY <1>4, <1>9
  <2> QED
    BY <1>10, <2>1, <2>2 DEF IdsOf
<1>15. \A j : Occurrence(rec.dups[j], Wording(rec, rec.dups[j])).from = rec.dups[j].from
  BY DEF Occurrence
<1>16. Occurrence(r, r.text) = Occurrence(rec.dups[h[1]], Wording(rec, rec.dups[h[1]]))
  BY <1>9 DEF Occurrence, text
<1>17. \A k \in 1 .. n : k = 1 \/ (k - 1 \in 1 .. m /\ g[k - 1] = h[k])
  BY <1>4, <1>12
<1>18. {o \in DupsSay(rec) : o.from # s} =
         {Occurrence(rec.dups[h[k]], Wording(rec, rec.dups[h[k]])) : k \in 1 .. n}
  BY <1>2, <1>3, <1>15 DEF DupsSay
<1>19. SaidBy(r) = {Occurrence(rec.dups[h[k]], Wording(rec, rec.dups[h[k]])) : k \in 1 .. n}
  <2>1. DupsSay(r) = {Occurrence(rec.dups[g[k]], Wording(rec, rec.dups[g[k]])) : k \in 1 .. m}
    BY <1>10 DEF DupsSay
  <2> QED
    <3> DEFINE Of(k) == Occurrence(rec.dups[h[k]], Wording(rec, rec.dups[h[k]]))
    <3>1. DupsSay(r) = {Of(k + 1) : k \in 1 .. m}
      BY <1>4, <1>12, <2>1
    <3>2. \A k \in 1 .. n : k = 1 \/ (k - 1 \in 1 .. m /\ (k - 1) + 1 = k)
      BY <1>4
    <3> HIDE DEF Of
    <3>3. {Of(k) : k \in 1 .. n} = {Of(1)} \cup {Of(k + 1) : k \in 1 .. m}
      BY <1>4, <3>2
    <3>4. Occurrence(r, r.text) = Of(1)
      BY <1>16 DEF Of
    <3>5. SaidBy(r) = {Of(k) : k \in 1 .. n}
      BY <3>1, <3>3, <3>4 DEF SaidBy
    <3> QED
      BY <3>5 DEF Of
<1>20. Occurrence(rec, rec.text).from = s
  BY DEF Occurrence
<1> QED
  BY <1>11, <1>13, <1>14, <1>18, <1>19, <1>20 DEF SaidBy

\* A record of the session finds at most one unit, and of its own form.
LEMMA ConsumesFacts ==
  ASSUME NEW s, NEW units \in Seq(UnitType), NEW i
  PROVE  /\ Consumes(s, units, i) \subseteq DOMAIN units
         /\ \A p, q \in Consumes(s, units, i) : p = q
         /\ Consumes(s, units, i) # {} =>
               /\ records[i].from = s
               /\ Matched(s, units, i) \in UnitType
               /\ \A p \in Consumes(s, units, i) : units[p] = Matched(s, units, i)
<1>1. Consumes(s, units, i) \subseteq FirstSaying(units, records[i].text)
  BY DEF Consumes
<1>2. FirstSaying(units, records[i].text) \subseteq DOMAIN units
  BY DEF FirstSaying
<1>3. \A p, q \in FirstSaying(units, records[i].text) : p = q
  <2> DEFINE T == FirstSaying(units, records[i].text)
  <2>1. \A p \in T : p \in Nat /\ p >= 1
    BY <1>2
  <2>2. \A p \in T, q \in T : ~(q \in 1 .. p - 1)
    BY DEF FirstSaying
  <2> HIDE DEF T
  <2>3. \A p, q \in T : ~(q < p)
    BY <2>1, <2>2
  <2> QED
    BY <2>1, <2>3 DEF T
<1>4. Consumes(s, units, i) # {} => records[i].from = s
  BY DEF Consumes
<1>5. \A p \in DOMAIN units : units[p] \in UnitType
  OBVIOUS
<1> DEFINE C == Consumes(s, units, i)
<1> HIDE DEF C
<1>6. C \subseteq DOMAIN units /\ \A p, q \in C : p = q
  BY <1>1, <1>2, <1>3 DEF C
<1>7. Matched(s, units, i) = units[CHOOSE p \in C : TRUE]
  BY DEF Matched, C
<1>8. C # {} => /\ Matched(s, units, i) \in UnitType
                /\ \A p \in C : units[p] = Matched(s, units, i)
  BY <1>5, <1>6, <1>7
<1> QED
  BY <1>4, <1>6, <1>8 DEF C

\* Of those that survive, the session says what it says again, and no other
\* session less or more than before; their ids are their own.
LEMMA ReconciledFacts ==
  ASSUME NEW I, NEW F, records \in Seq(RecordType(I, F)), NEW s,
         NEW units \in Seq(UnitType), NEW cited, NEW i \in DOMAIN records,
         Survives(s, units, cited, i), NEW r, r = Reconciled(s, units, i)
  PROVE  /\ r \in RecordType(I, F)
         /\ Apart(records[i]) => Apart(r)
         /\ IdsOf(r) \subseteq IdsOf(records[i])
         /\ {o \in SaidBy(r) : o.from # s} = {o \in SaidBy(records[i]) : o.from # s}
         /\ \A o \in SaidBy(r) : o.from = s =>
               \/ Consumes(s, units, i) # {} /\ o = Continued(s, units, i)
               \/ records[i].id \in cited /\ o \in SaidBy(records[i])
         /\ Consumes(s, units, i) # {} => Continued(s, units, i) \in SaidBy(r)
<1> DEFINE rec == records[i]
           C == Consumes(s, units, i)
<1>1. rec \in RecordType(I, F)
  OBVIOUS
<1>2. C # {} => rec.from = s /\ Matched(s, units, i) \in UnitType
  BY ConsumesFacts
<1>3. r = IF rec.from # s THEN Stripped(rec, s)
          ELSE IF C # {} THEN Reasserted(rec, s, Matched(s, units, i))
          ELSE IF Foreign(rec, s) # <<>> THEN Promoted(rec, s)
          ELSE rec
  BY DEF Reconciled, Matched
<1>4. rec.from # s \/ C # {} \/ Foreign(rec, s) # <<>> \/ rec.id \in cited
  BY DEF Survives
<1>5. Continued(s, units, i) = [id |-> rec.id, from |-> s, text |-> Matched(s, units, i).text,
                                ctx |-> Matched(s, units, i).ctx, mark |-> rec.mark]
  BY DEF Continued
<1> HIDE DEF rec, C
<1>6. CASE rec.from # s
  <2>1. r = Stripped(rec, s)
    BY <1>3, <1>6
  <2>2. /\ r \in RecordType(I, F) /\ (Apart(rec) => Apart(r))
        /\ IdsOf(r) \subseteq IdsOf(rec)
        /\ SaidBy(r) = {o \in SaidBy(rec) : o.from # s}
    BY <1>1, <1>6, <2>1, StrippedFacts
  <2> QED
    BY <1>2, <1>6, <2>2 DEF rec, C
<1>7. CASE rec.from = s /\ C # {}
  <2>1. r = Reasserted(rec, s, Matched(s, units, i))
    BY <1>3, <1>7
  <2>2. /\ r \in RecordType(I, F) /\ (Apart(rec) => Apart(r))
        /\ IdsOf(r) \subseteq IdsOf(rec)
        /\ SaidBy(r) = {[id |-> rec.id, from |-> s, text |-> Matched(s, units, i).text,
                         ctx |-> Matched(s, units, i).ctx, mark |-> rec.mark]}
               \cup {o \in SaidBy(rec) : o.from # s}
    BY <1>1, <1>2, <1>7, <2>1, ReassertedFacts
  <2>3. SaidBy(r) = {Continued(s, units, i)} \cup {o \in SaidBy(rec) : o.from # s}
    BY <2>2, <1>5
  <2>4. Continued(s, units, i).from = s
    BY <1>5
  <2> QED
    BY <1>7, <2>2, <2>3, <2>4 DEF rec, C
<1>8. CASE rec.from = s /\ C = {} /\ Foreign(rec, s) # <<>>
  <2>1. r = Promoted(rec, s)
    BY <1>3, <1>8
  <2>2. /\ r \in RecordType(I, F) /\ (Apart(rec) => Apart(r))
        /\ IdsOf(r) \subseteq IdsOf(rec)
        /\ SaidBy(r) = {o \in SaidBy(rec) : o.from # s}
    BY <1>1, <1>8, <2>1, PromotedFacts
  <2> QED
    BY <1>8, <2>2 DEF rec, C
<1>9. CASE rec.from = s /\ C = {} /\ Foreign(rec, s) = <<>>
  <2>1. r = rec /\ rec.id \in cited
    BY <1>3, <1>4, <1>9
  <2> QED
    BY <1>1, <1>9, <2>1 DEF rec, C
<1> QED
  BY <1>6, <1>7, <1>8, <1>9

\* What does not survive was said by the session only.
LEMMA GoneFacts ==
  ASSUME NEW I, NEW F, records \in Seq(RecordType(I, F)), NEW s, NEW units, NEW cited,
         NEW i \in DOMAIN records, ~Survives(s, units, cited, i)
  PROVE  /\ \A o \in SaidBy(records[i]) : o.from = s
         /\ Consumes(s, units, i) = {}
<1> DEFINE rec == records[i]
<1>1. rec \in RecordType(I, F) /\ rec.from = s /\ Foreign(rec, s) = <<>>
      /\ Consumes(s, units, i) = {}
  BY DEF Survives
<1>2. PICK n, h : Others(rec, s, n, h)
  BY <1>1, ForeignFacts
<1>3. n = 0
  BY <1>1, <1>2 DEF Others
<1>4. \A j \in DOMAIN rec.dups : rec.dups[j].from = s
  BY <1>2, <1>3 DEF Others
<1>5. \A j \in DOMAIN rec.dups : Occurrence(rec.dups[j], Wording(rec, rec.dups[j])).from = s
  BY <1>4 DEF Occurrence
<1>6. Occurrence(rec, rec.text).from = s
  BY <1>1 DEF Occurrence
<1> HIDE DEF rec
<1>7. \A o \in SaidBy(rec) : o.from = s
  BY <1>5, <1>6 DEF SaidBy, DupsSay
<1> QED
  BY <1>1, <1>7 DEF rec

\* A claim of the session that is left: it is made again, or cited.
SaidAgain(s, units, cited, o) ==
    \E i \in DOMAIN records :
       \/ Consumes(s, units, i) # {} /\ o = Continued(s, units, i)
       \/ records[i].id \in cited /\ o \in SaidBy(records[i])

\* The records that are left, one for each that survives.
LEMMA KeptFacts ==
  ASSUME NEW I, NEW F, records \in Seq(RecordType(I, F)), NEW s,
         NEW units \in Seq(UnitType), NEW cited, NEW kept, kept = Kept(s, units, cited)
  PROVE  /\ kept \in Seq(RecordType(I, F))
         /\ Separate(records) => Separate(kept)
         /\ Ids(kept) \subseteq Ids(records)
         /\ {o \in SaidIn(kept) : o.from # s} = {o \in SaidIn(records) : o.from # s}
         /\ \A o \in SaidIn(kept) : o.from = s => SaidAgain(s, units, cited, o)
         /\ \A i \in DOMAIN records :
               Consumes(s, units, i) # {} => Continued(s, units, i) \in SaidIn(kept)
<1> DEFINE S == {i \in DOMAIN records : Survives(s, units, cited, i)}
           n == Cardinality(S)
           g == InOrder(S)
<1>1. S \subseteq Nat /\ IsFiniteSet(S) /\ S \subseteq DOMAIN records
  <2>1. DOMAIN records = 1 .. Len(records) /\ Len(records) \in Nat
    OBVIOUS
  <2>2. IsFiniteSet(1 .. Len(records))
    BY <2>1, FS_Interval
  <2> QED
    BY <2>1, <2>2, FS_Subset
<1>2. /\ n \in Nat /\ g \in [1 .. n -> S]
      /\ \A p \in S : \E k \in 1 .. n : g[k] = p
      /\ \A k, l \in 1 .. n : g[k] = g[l] => k = l
  <2> HIDE DEF S
  <2> QED
    BY <1>1, InOrderFacts
<1>3. kept = [k \in 1 .. n |-> Reconciled(s, units, g[k])]
  BY <1>2 DEF Kept
<1> HIDE DEF g, n
<1>4. \A k \in 1 .. n : g[k] \in DOMAIN records /\ Survives(s, units, cited, g[k])
                        /\ kept[k] = Reconciled(s, units, g[k])
  BY <1>2, <1>3
<1>5. \A k \in 1 .. n :
         /\ kept[k] \in RecordType(I, F)
         /\ Apart(records[g[k]]) => Apart(kept[k])
         /\ IdsOf(kept[k]) \subseteq IdsOf(records[g[k]])
         /\ {o \in SaidBy(kept[k]) : o.from # s} = {o \in SaidBy(records[g[k]]) : o.from # s}
         /\ \A o \in SaidBy(kept[k]) : o.from = s =>
               \/ Consumes(s, units, g[k]) # {} /\ o = Continued(s, units, g[k])
               \/ records[g[k]].id \in cited /\ o \in SaidBy(records[g[k]])
         /\ Consumes(s, units, g[k]) # {} => Continued(s, units, g[k]) \in SaidBy(kept[k])
  BY <1>4, ReconciledFacts
<1>6. kept \in Seq(RecordType(I, F)) /\ DOMAIN kept = 1 .. n
  BY <1>2, <1>3, <1>5, IsASeq
<1>7. Separate(records) => Separate(kept)
  <2> SUFFICES ASSUME Separate(records)
               PROVE  Separate(kept)
    OBVIOUS
  <2>1. \A k \in 1 .. n : Apart(kept[k])
    BY <1>4, <1>5 DEF Separate
  <2>2. ASSUME NEW k \in 1 .. n, NEW l \in 1 .. n, k # l
        PROVE  IdsOf(kept[k]) \cap IdsOf(kept[l]) = {}
    <3>1. g[k] # g[l]
      BY <1>2, <2>2
    <3>2. IdsOf(records[g[k]]) \cap IdsOf(records[g[l]]) = {}
      BY <1>4, <3>1 DEF Separate
    <3> QED
      BY <1>5, <3>2
  <2> QED
    BY <1>6, <2>1, <2>2 DEF Separate
<1>8. Ids(kept) \subseteq Ids(records)
  BY <1>4, <1>5, <1>6 DEF Ids
<1>9. \A i \in DOMAIN records : i \in S \/ /\ \A o \in SaidBy(records[i]) : o.from = s
                                           /\ Consumes(s, units, i) = {}
  BY GoneFacts
<1>10. {o \in SaidIn(kept) : o.from # s} = {o \in SaidIn(records) : o.from # s}
  <2>1. ASSUME NEW o \in SaidIn(kept), o.from # s
        PROVE  o \in SaidIn(records)
    <3>1. PICK k \in 1 .. n : o \in SaidBy(kept[k])
      BY <1>6 DEF SaidIn
    <3>2. o \in SaidBy(records[g[k]])
      BY <1>5, <2>1, <3>1
    <3> QED
      BY <1>4, <3>2 DEF SaidIn
  <2>2. ASSUME NEW o \in SaidIn(records), o.from # s
        PROVE  o \in SaidIn(kept)
    <3>1. PICK i \in DOMAIN records : o \in SaidBy(records[i])
      BY DEF SaidIn
    <3>2. PICK k \in 1 .. n : g[k] = i
      BY <1>2, <1>9, <2>2, <3>1
    <3>3. o \in SaidBy(kept[k])
      BY <1>5, <2>2, <3>1, <3>2
    <3> QED
      BY <1>6, <3>3 DEF SaidIn
  <2> QED
    BY <2>1, <2>2
<1>11. ASSUME NEW o \in SaidIn(kept), o.from = s
       PROVE  SaidAgain(s, units, cited, o)
  <2>1. PICK k \in 1 .. n : o \in SaidBy(kept[k])
    BY <1>6 DEF SaidIn
  <2> QED
    BY <1>4, <1>5, <1>11, <2>1 DEF SaidAgain
<1>12. ASSUME NEW i \in DOMAIN records, Consumes(s, units, i) # {}
       PROVE  Continued(s, units, i) \in SaidIn(kept)
  <2>1. PICK k \in 1 .. n : g[k] = i
    BY <1>2, <1>9, <1>12
  <2>2. Continued(s, units, i) \in SaidBy(kept[k])
    BY <1>5, <1>12, <2>1
  <2> QED
    BY <1>6, <2>2 DEF SaidIn
<1> QED
  BY <1>6, <1>7, <1>8, <1>10, <1>11, <1>12

-----------------------------------------------------------------------------
\* Merging.  What a unit says once it has its id.
Told(s, id, unit) ==
    [id |-> id, from |-> s, text |-> unit.text, ctx |-> unit.ctx, mark |-> "open"]

\* Folding a unit adds one duplicate under the id given, unless it is there.
LEMMA FoldedFacts ==
  ASSUME NEW I, NEW F, NEW rec \in RecordType(I, F), NEW s \in F, NEW id \in I,
         NEW unit \in UnitType, NEW r, r = Folded(rec, s, id, unit)
  PROVE  /\ r \in RecordType(I, F)
         /\ IdsOf(r) = IdsOf(rec) \cup {id}
         /\ SaidBy(rec) \subseteq SaidBy(r)
         /\ SaidBy(r) \subseteq SaidBy(rec) \cup {Told(s, id, unit)}
         /\ id \notin IdsOf(rec) =>
               (Apart(rec) => Apart(r)) /\ Told(s, id, unit) \in SaidBy(r)
<1>1. CASE id \in IdsOf(rec)
  BY <1>1 DEF Folded
<1>2. CASE id \notin IdsOf(rec)
  <2> DEFINE para == IF unit.text = rec.text THEN Same ELSE unit.text
             dup == [id |-> id, from |-> s, ctx |-> unit.ctx, mark |-> "open", para |-> para]
             n == Len(rec.dups)
  <2>1. unit.text \in Texts /\ unit.ctx \in Contexts /\ rec.text \in Texts
        /\ rec.dups \in Seq(DupType(I, F)) /\ n \in Nat /\ DOMAIN rec.dups = 1 .. n
    BY DEF UnitType, RecordType
  <2>2. dup \in DupType(I, F)
    BY <2>1 DEF DupType, Marks
  <2>3. r = [rec EXCEPT !.dups = Append(rec.dups, dup)]
    BY <1>2 DEF Folded
  <2>4. dup.id = id /\ dup.from = s /\ dup.ctx = unit.ctx /\ dup.mark = "open"
        /\ dup.para = para
    OBVIOUS
  <2>5. r.dups = Append(rec.dups, dup) /\ r.id = rec.id /\ r.from = rec.from
        /\ r.text = rec.text /\ r.ctx = rec.ctx /\ r.mark = rec.mark
    BY <2>3 DEF RecordType
  <2> HIDE DEF dup
  <2>6. /\ r.dups \in Seq(DupType(I, F)) /\ DOMAIN r.dups = 1 .. n + 1
        /\ \A j \in 1 .. n : r.dups[j] = rec.dups[j]
        /\ r.dups[n + 1] = dup
    BY <2>1, <2>2, <2>5
  <2>7. r \in RecordType(I, F)
    BY <2>3, <2>5, <2>6 DEF RecordType
  <2>8. \A j \in 1 .. n + 1 : j \in 1 .. n \/ j = n + 1
    BY <2>1
  <2>9. 1 .. n \subseteq 1 .. n + 1 /\ n + 1 \in 1 .. n + 1 /\ n + 1 \notin 1 .. n
    BY <2>1
  <2> HIDE DEF n
  <2>10. IdsOf(r) = IdsOf(rec) \cup {id}
    BY <2>1, <2>4, <2>5, <2>6, <2>8, <2>9 DEF IdsOf
  <2>11. Wording(r, dup) = unit.text
    BY <2>1, <2>4, <2>5, RecordConstants DEF Wording
  <2>12. Occurrence(dup, Wording(r, dup)) = Told(s, id, unit)
    BY <2>4, <2>11 DEF Occurrence, Told
  <2>13. Occurrence(r, r.text) = Occurrence(rec, rec.text)
    BY <2>5 DEF Occurrence
  <2>14. \A j \in 1 .. n : Wording(r, r.dups[j]) = Wording(rec, rec.dups[j])
    BY <2>5, <2>6 DEF Wording
  <2>15. DupsSay(r) = DupsSay(rec) \cup {Told(s, id, unit)}
    <3> DEFINE Of(j) == Occurrence(r.dups[j], Wording(r, r.dups[j]))
    <3>1. \A j \in 1 .. n : Of(j) = Occurrence(rec.dups[j], Wording(rec, rec.dups[j]))
      BY <2>6, <2>14
    <3>2. DupsSay(rec) = {Of(j) : j \in 1 .. n}
      BY <2>1, <3>1 DEF DupsSay
    <3>3. Of(n + 1) = Told(s, id, unit)
      BY <2>6, <2>12
    <3>4. DupsSay(r) = {Of(j) : j \in 1 .. n + 1}
      BY <2>6 DEF DupsSay
    <3> HIDE DEF Of
    <3> QED
      BY <3>2, <3>3, <3>4, <2>8, <2>9
  <2>16. SaidBy(r) = SaidBy(rec) \cup {Told(s, id, unit)}
    BY <2>13, <2>15 DEF SaidBy
  <2>17. ASSUME Apart(rec)
         PROVE  Apart(r)
    <3>1. id # rec.id /\ \A j \in 1 .. n : rec.dups[j].id # id
      BY <1>2, <2>1 DEF IdsOf
    <3>2. \A j \in 1 .. n + 1 : r.dups[j].id # r.id
      BY <2>1, <2>4, <2>5, <2>6, <2>8, <2>17, <3>1 DEF Apart
    <3>3. \A j, k \in 1 .. n : r.dups[j].id = r.dups[k].id => j = k
      BY <2>1, <2>6, <2>17 DEF Apart
    <3>4. \A j \in 1 .. n : r.dups[j].id # r.dups[n + 1].id
      BY <2>4, <2>6, <3>1
    <3> QED
      BY <2>6, <2>8, <3>2, <3>3, <3>4 DEF Apart
  <2> QED
    BY <2>7, <2>10, <2>16, <2>17
<1> QED
  BY <1>1, <1>2

\* A new record says its unit, under its id.
LEMMA CanonicalFacts ==
  ASSUME NEW I, NEW F, NEW s \in F, NEW id \in I, NEW unit \in UnitType,
         NEW r, r = Canonical(s, id, unit)
  PROVE  /\ r \in RecordType(I, F) /\ Apart(r) /\ IdsOf(r) = {id}
         /\ SaidBy(r) = {Told(s, id, unit)}
<1>1. unit.text \in Texts /\ unit.ctx \in Contexts
  BY DEF UnitType
<1>2. r.dups = <<>> /\ r.id = id /\ r.text = unit.text /\ DOMAIN r.dups = {}
  BY DEF Canonical
<1>3. r \in RecordType(I, F)
  BY <1>1 DEF Canonical, RecordType, Marks
<1>4. Occurrence(r, r.text) = Told(s, id, unit)
  BY DEF Canonical, Occurrence, Told
<1> QED
  BY <1>2, <1>3, <1>4 DEF Apart, IdsOf, SaidBy, DupsSay

\* The record that is exactly the unit's is one there is, or none.
LEMMA ExactFacts ==
  ASSUME NEW D, NEW recs \in Seq(D), NEW unit
  PROVE  Exact(recs, unit) \in 0 .. Len(recs)
<1> DEFINE S == {0} \cup {i \in DOMAIN recs :
              /\ recs[i].ctx = unit.ctx /\ recs[i].mark # "retired"
              /\ Form[recs[i].text] = Form[unit.text]}
<1>1. S \subseteq Nat /\ S # {} /\ Len(recs) \in Nat /\ \A x \in S : x <= Len(recs)
  OBVIOUS
<1>2. Exact(recs, unit) = Max(S)
  BY DEF Exact
<1> HIDE DEF S
<1>3. Max(S) \in S
  BY <1>1, Maximum
<1>4. Max(S) \in Nat /\ Max(S) <= Len(recs) /\ Len(recs) \in Nat
  BY <1>1, <1>3
<1> QED
  BY <1>2, <1>4

\* One unit is placed: it is told, under its id, and all else is as it was.
LEMMA PlacedFacts ==
  ASSUME NEW I, NEW F, NEW recs \in Seq(RecordType(I, F)), NEW s \in F, NEW id \in I,
         NEW unit \in UnitType, NEW near \in 0 .. Len(recs),
         NEW r, r = Placed(recs, s, id, unit, near)
  PROVE  /\ r \in Seq(RecordType(I, F)) /\ Len(recs) <= Len(r)
         /\ Ids(r) = Ids(recs) \cup {id}
         /\ SaidIn(recs) \subseteq SaidIn(r)
         /\ SaidIn(r) \subseteq SaidIn(recs) \cup {Told(s, id, unit)}
         /\ id \notin Ids(recs) =>
               (Separate(recs) => Separate(r)) /\ Told(s, id, unit) \in SaidIn(r)
<1> DEFINE i == IF Exact(recs, unit) # 0 THEN Exact(recs, unit) ELSE near
           n == Len(recs)
<1>1. i \in 0 .. n /\ n \in Nat /\ DOMAIN recs = 1 .. n
  BY ExactFacts
<1>2. r = IF i = 0 THEN Append(recs, Canonical(s, id, unit))
          ELSE [recs EXCEPT ![i] = Folded(recs[i], s, id, unit)]
  BY DEF Placed
<1> HIDE DEF i
<1>3. CASE i = 0
  <2> DEFINE c == Canonical(s, id, unit)
  <2>1. /\ c \in RecordType(I, F) /\ Apart(c) /\ IdsOf(c) = {id}
        /\ SaidBy(c) = {Told(s, id, unit)}
    BY CanonicalFacts
  <2>2. r = Append(recs, c)
    BY <1>2, <1>3
  <2> HIDE DEF c
  <2>3. /\ r \in Seq(RecordType(I, F)) /\ Len(r) = n + 1 /\ DOMAIN r = 1 .. n + 1
        /\ \A k \in 1 .. n : r[k] = recs[k]
        /\ r[n + 1] = c
    BY <2>1, <2>2
  <2>4. \A j \in 1 .. n + 1 : j \in 1 .. n \/ j = n + 1
    BY <1>1
  <2>5. 1 .. n \subseteq 1 .. n + 1 /\ n + 1 \in 1 .. n + 1 /\ n + 1 \notin 1 .. n
    BY <1>1
  <2>6. n <= Len(r)
    BY <1>1, <2>3
  <2> HIDE DEF n
  <2>7. Ids(r) = Ids(recs) \cup {id}
    BY <1>1, <2>1, <2>3, <2>4, <2>5 DEF Ids
  <2>8. SaidIn(r) = SaidIn(recs) \cup {Told(s, id, unit)}
    BY <1>1, <2>1, <2>3, <2>4, <2>5 DEF SaidIn
  <2>9. ASSUME id \notin Ids(recs), Separate(recs)
        PROVE  Separate(r)
    <3>1. \A k \in 1 .. n : id \notin IdsOf(recs[k])
      BY <1>1, <2>9 DEF Ids
    <3> QED
      BY <1>1, <2>1, <2>3, <2>4, <2>9, <3>1 DEF Separate
  <2> QED
    BY <2>3, <2>6, <2>7, <2>8, <2>9 DEF n
<1>4. CASE i # 0
  <2> DEFINE f == Folded(recs[i], s, id, unit)
  <2>1. i \in 1 .. n /\ recs[i] \in RecordType(I, F)
    BY <1>1, <1>4
  <2>2. /\ f \in RecordType(I, F)
        /\ IdsOf(f) = IdsOf(recs[i]) \cup {id}
        /\ SaidBy(recs[i]) \subseteq SaidBy(f)
        /\ SaidBy(f) \subseteq SaidBy(recs[i]) \cup {Told(s, id, unit)}
        /\ id \notin IdsOf(recs[i]) =>
              (Apart(recs[i]) => Apart(f)) /\ Told(s, id, unit) \in SaidBy(f)
    BY <2>1, FoldedFacts
  <2>3. r = [recs EXCEPT ![i] = f]
    BY <1>2, <1>4
  <2> HIDE DEF f
  <2>4. /\ r \in Seq(RecordType(I, F)) /\ Len(r) = n /\ DOMAIN r = 1 .. n
        /\ \A k \in 1 .. n : k # i => r[k] = recs[k]
        /\ r[i] = f
    BY <1>1, <2>1, <2>2, <2>3
  <2> HIDE DEF n
  <2>5. Ids(r) = Ids(recs) \cup {id}
    BY <1>1, <2>1, <2>2, <2>4 DEF Ids
  <2>6. SaidIn(recs) \subseteq SaidIn(r)
    BY <1>1, <2>1, <2>2, <2>4 DEF SaidIn
  <2>7. SaidIn(r) \subseteq SaidIn(recs) \cup {Told(s, id, unit)}
    BY <1>1, <2>1, <2>2, <2>4 DEF SaidIn
  <2>8. ASSUME id \notin Ids(recs)
        PROVE  (Separate(recs) => Separate(r)) /\ Told(s, id, unit) \in SaidIn(r)
    <3>1. \A k \in 1 .. n : id \notin IdsOf(recs[k])
      BY <1>1, <2>8 DEF Ids
    <3>2. Separate(recs) => Separate(r)
      BY <1>1, <2>1, <2>2, <2>4, <3>1 DEF Separate
    <3>3. Told(s, id, unit) \in SaidBy(r[i])
      BY <2>1, <2>2, <2>4, <3>1
    <3> QED
      BY <2>1, <2>4, <3>2, <3>3 DEF SaidIn
  <2> QED
    BY <1>1, <2>4, <2>5, <2>6, <2>7, <2>8 DEF n
<1> QED
  BY <1>3, <1>4

\* A sequence of all positions, each once.
Enumerates(order, R) ==
    /\ order \in Seq(R) /\ Len(order) \in Nat
    /\ \A p \in R : \E k \in 1 .. Len(order) : order[k] = p
    /\ \A k, l \in 1 .. Len(order) : order[k] = order[l] => k = l

\* Two sets of positions, one after the other.
LEMMA OrderFacts ==
  ASSUME NEW R, R \subseteq Nat, IsFiniteSet(R), NEW H, H \subseteq R
  PROVE  Enumerates(InOrder(H) \o InOrder(R \ H), R)
<1> DEFINE L == R \ H
           f == InOrder(H)
           g == InOrder(L)
           m == Cardinality(H)
           n == Cardinality(L)
           order == f \o g
<1>1. H \subseteq Nat /\ L \subseteq Nat /\ IsFiniteSet(H) /\ IsFiniteSet(L)
  BY FS_Subset
<1>2. /\ m \in Nat /\ f \in [1 .. m -> H]
      /\ \A p \in H : \E k \in 1 .. m : f[k] = p
      /\ \A k, l \in 1 .. m : f[k] = f[l] => k = l
  BY <1>1, InOrderFacts
<1>3. /\ n \in Nat /\ g \in [1 .. n -> L]
      /\ \A p \in L : \E k \in 1 .. n : g[k] = p
      /\ \A k, l \in 1 .. n : g[k] = g[l] => k = l
  <2> HIDE DEF L
  <2> QED
    BY <1>1, InOrderFacts
<1>4. R = H \cup L /\ H \cap L = {}
  OBVIOUS
<1>5. order = InOrder(H) \o InOrder(R \ H)
  OBVIOUS
<1> HIDE DEF L, f, g, m, n
<1>6. f \in Seq(R) /\ g \in Seq(R) /\ Len(f) = m /\ Len(g) = n
  BY <1>2, <1>3, <1>4, IsASeq, LenProperties
<1>7. /\ order \in Seq(R) /\ Len(order) = m + n
      /\ \A k \in 1 .. m : order[k] = f[k]
      /\ \A k \in 1 .. n : order[m + k] = g[k]
  <2>1. order \in Seq(R) /\ Len(order) = m + n
    BY <1>6, ConcatProperties
  <2>2. \A k \in 1 .. m + n : order[k] = IF k <= m THEN f[k] ELSE g[k - m]
    BY <1>6, ConcatProperties
  <2> HIDE DEF order
  <2>3. \A k \in 1 .. m : k \in 1 .. m + n /\ k <= m
    BY <1>2, <1>3
  <2>4. \A k \in 1 .. n : m + k \in 1 .. m + n /\ ~(m + k <= m) /\ (m + k) - m = k
    BY <1>2, <1>3
  <2>5. \A k \in 1 .. n : order[m + k] = g[k]
    <3> TAKE k \in 1 .. n
    <3>1. order[m + k] = g[(m + k) - m]
      BY <2>2, <2>4
    <3> QED
      BY <2>4, <3>1
  <2> QED
    BY <2>1, <2>2, <2>3, <2>5
<1> HIDE DEF order
<1>8. \A k \in 1 .. m + n : k \in 1 .. m \/ (k - m \in 1 .. n /\ m + (k - m) = k)
  BY <1>2, <1>3
<1>9. \A p \in R : \E k \in 1 .. m + n : order[k] = p
  <2> TAKE p \in R
  <2>1. CASE p \in H
    <3>1. PICK k \in 1 .. m : f[k] = p
      BY <1>2, <2>1
    <3>2. k \in 1 .. m + n
      BY <1>2, <1>3
    <3>3. order[k] = p
      BY <1>7, <3>1
    <3> QED
      BY <3>2, <3>3
  <2>2. CASE p \in L
    <3>1. PICK k \in 1 .. n : g[k] = p
      BY <1>3, <2>2
    <3>2. m + k \in 1 .. m + n
      BY <1>2, <1>3
    <3>3. order[m + k] = p
      BY <1>7, <3>1
    <3> QED
      BY <3>2, <3>3
  <2> QED
    BY <1>4, <2>1, <2>2
<1>10. \A k \in 1 .. m + n : \/ k \in 1 .. m /\ order[k] = f[k] /\ order[k] \in H
                             \/ k - m \in 1 .. n /\ order[k] = g[k - m] /\ order[k] \in L
  <2> TAKE k \in 1 .. m + n
  <2>1. CASE k \in 1 .. m
    BY <1>2, <1>7, <2>1
  <2>2. CASE k - m \in 1 .. n /\ m + (k - m) = k
    <3>1. order[m + (k - m)] = g[k - m]
      BY <1>7, <2>2
    <3> QED
      BY <1>3, <2>2, <3>1
  <2> QED
    BY <1>8, <2>1, <2>2
<1>11. ASSUME NEW k \in 1 .. m + n, NEW l \in 1 .. m + n, order[k] = order[l]
       PROVE  k = l
  <2>1. CASE order[k] \in H
    <3>1. k \in 1 .. m /\ l \in 1 .. m /\ f[k] = f[l]
      BY <1>4, <1>10, <1>11, <2>1
    <3> QED
      BY <1>2, <3>1
  <2>2. CASE order[k] \notin H
    <3>1. k - m \in 1 .. n /\ l - m \in 1 .. n /\ g[k - m] = g[l - m]
      BY <1>4, <1>10, <1>11, <2>2
    <3>2. k - m = l - m
      BY <1>3, <3>1
    <3> QED
      BY <1>2, <1>3, <3>2
  <2> QED
    BY <2>1, <2>2
<1>12. Len(order) = m + n /\ m + n \in Nat
  BY <1>2, <1>3, <1>7
<1>13. Enumerates(order, R)
  BY <1>7, <1>9, <1>11, <1>12 DEF Enumerates
<1> QED
  BY <1>5, <1>13

\* Merging goes through the units in some order.
MergedBy(s, units, ids, kept, hits, near, order, f, r) ==
    /\ f[0] = kept /\ r = f[Len(order)]
    /\ \A k \in 0 .. Len(order) - 1 :
          f[k + 1] = Placed(f[k], s, ids[order[k + 1]], units[order[k + 1]],
                            IF order[k + 1] \in hits THEN 0 ELSE near[order[k + 1]])

\* Merging places one unit after the other: its recursive function exists.
LEMMA MergedInSteps ==
  ASSUME NEW s, NEW units \in Seq(UnitType),
         NEW rest, rest \subseteq DOMAIN units, NEW hits, hits \subseteq rest,
         NEW ids, NEW kept, NEW near, DOMAIN near = rest \ hits,
         NEW r, r = Merged(s, units, ids, kept, hits, near)
  PROVE  \E order, f : /\ Enumerates(order, rest)
                       /\ MergedBy(s, units, ids, kept, hits, near, order, f, r)
<1> DEFINE order == InOrder(hits) \o InOrder(DOMAIN near)
           Place(recs, p) ==
             Placed(recs, s, ids[p], units[p], IF p \in hits THEN 0 ELSE near[p])
           N == Len(order)
<1>1. rest \subseteq Nat /\ IsFiniteSet(rest)
  <2>1. DOMAIN units = 1 .. Len(units) /\ Len(units) \in Nat
    OBVIOUS
  <2>2. IsFiniteSet(1 .. Len(units))
    BY <2>1, FS_Interval
  <2> QED
    BY <2>1, <2>2, FS_Subset
<1>2. Enumerates(order, rest) /\ N \in Nat
  <2>1. order = InOrder(hits) \o InOrder(rest \ hits)
    OBVIOUS
  <2>2. Enumerates(InOrder(hits) \o InOrder(rest \ hits), rest)
    BY <1>1, OrderFacts
  <2>3. Enumerates(order, rest)
    BY <2>1, <2>2
  <2> HIDE DEF order
  <2> QED
    BY <2>3 DEF Enumerates
<1>3. r = (CHOOSE f : f = [k \in 0 .. N |->
                IF k = 0 THEN kept ELSE Place(f[k - 1], order[k])])[N]
  BY DEF Merged
<1> HIDE DEF order, N
<1> DEFINE T == {n \in Nat : \E f : f = [k \in 0 .. n |->
                IF k = 0 THEN kept ELSE Place(f[k - 1], order[k])]}
<1>4. \A n \in Nat : n \in T
  <2> HIDE DEF Place
  <2>1. 0 \in T
    <3> DEFINE f == [k \in 0 .. 0 |-> kept]
    <3>1. \A k \in 0 .. 0 : k = 0
      OBVIOUS
    <3>2. f = [k \in 0 .. 0 |-> IF k = 0 THEN kept ELSE Place(f[k - 1], order[k])]
      BY <3>1
    <3> QED
      BY <3>2
  <2>2. ASSUME NEW n \in Nat, n \in T
        PROVE  n + 1 \in T
    <3>1. PICK f : f = [k \in 0 .. n |->
                          IF k = 0 THEN kept ELSE Place(f[k - 1], order[k])]
      BY <2>2
    <3> DEFINE g == [k \in 0 .. n + 1 |->
                       IF k = n + 1 THEN Place(f[n], order[n + 1]) ELSE f[k]]
    <3>2. ASSUME NEW k \in 0 .. n + 1
          PROVE  g[k] = IF k = 0 THEN kept ELSE Place(g[k - 1], order[k])
      <4>1. CASE k = n + 1
        <5>1. k # 0 /\ k - 1 = n /\ n \in 0 .. n + 1 /\ n # n + 1
          BY <4>1
        <5>2. g[k - 1] = f[n]
          BY <5>1
        <5>3. g[k] = Place(f[n], order[k])
          BY <4>1
        <5> QED
          BY <5>1, <5>2, <5>3
      <4>2. CASE k = 0
        <5>1. 0 # n + 1 /\ 0 \in 0 .. n /\ 0 \in 0 .. n + 1
          OBVIOUS
        <5>2. g[0] = f[0] /\ f[0] = kept
          BY <3>1, <5>1
        <5> QED
          BY <4>2, <5>2
      <4>3. CASE k # n + 1 /\ k # 0
        <5>1. k \in 0 .. n /\ k - 1 \in 0 .. n + 1 /\ k - 1 # n + 1
          BY <4>3
        <5>2. g[k] = f[k] /\ g[k - 1] = f[k - 1]
          BY <4>3, <5>1
        <5>3. f[k] = Place(f[k - 1], order[k])
          BY <3>1, <4>3, <5>1
        <5> QED
          BY <4>3, <5>2, <5>3
      <4> QED
        BY <4>1, <4>2, <4>3
    <3>3. g = [k \in 0 .. n + 1 |-> g[k]]
      OBVIOUS
    <3> HIDE DEF g
    <3>4. g = [k \in 0 .. n + 1 |->
                 IF k = 0 THEN kept ELSE Place(g[k - 1], order[k])]
      BY <3>2, <3>3
    <3> QED
      BY <3>4
  <2> HIDE DEF T
  <2> QED
    BY <2>1, <2>2, Induction
<1>5. PICK f : r = f[N] /\ f = [k \in 0 .. N |->
                IF k = 0 THEN kept ELSE Place(f[k - 1], order[k])]
  <2> DEFINE Def(f) == f = [k \in 0 .. N |->
                IF k = 0 THEN kept ELSE Place(f[k - 1], order[k])]
  <2>1. \E f : Def(f)
    BY <1>2, <1>4
  <2>2. r = (CHOOSE f : Def(f))[N]
    BY <1>3
  <2> HIDE DEF Def
  <2>3. Def(CHOOSE f : Def(f))
    BY <2>1
  <2> QED
    BY <2>2, <2>3 DEF Def
<1>6. f[0] = kept /\ \A k \in 0 .. N - 1 : f[k + 1] = Place(f[k], order[k + 1])
  <2>1. 0 \in 0 .. N /\ \A k \in 0 .. N - 1 :
           k + 1 \in 0 .. N /\ k + 1 # 0 /\ (k + 1) - 1 = k
    BY <1>2
  <2> HIDE DEF Place
  <2> QED
    BY <1>5, <2>1
<1>7. MergedBy(s, units, ids, kept, hits, near, order, f, r)
  BY <1>5, <1>6 DEF MergedBy, N
<1> QED
  BY <1>2, <1>7

\* Every unit is merged, once, under its id; nothing else is said, or unsaid.
Unused(rest, ids, kept) ==
    /\ \A p, q \in rest : ids[p] = ids[q] => p = q
    /\ \A p \in rest : ids[p] \notin Ids(kept)

AllTold(I, F, s, units, rest, ids, kept, r) ==
    /\ r \in Seq(RecordType(I, F))
    /\ Ids(r) = Ids(kept) \cup {ids[p] : p \in rest}
    /\ Separate(kept) => Separate(r)
    /\ SaidIn(r) = SaidIn(kept) \cup {Told(s, ids[p], units[p]) : p \in rest}

\* Merging tells each unit under its id and leaves all that was said.
LEMMA MergedFacts ==
  ASSUME NEW I, NEW F, NEW s \in F, NEW units \in Seq(UnitType),
         NEW rest, rest \subseteq DOMAIN units, NEW hits, hits \subseteq rest,
         NEW ids \in [rest -> I],
         NEW kept \in Seq(RecordType(I, F)), NEW near \in [rest \ hits -> 0 .. Len(kept)],
         Unused(rest, ids, kept),
         NEW r, r = Merged(s, units, ids, kept, hits, near)
  PROVE  AllTold(I, F, s, units, rest, ids, kept, r)
<1> DEFINE Place(recs, p) ==
             Placed(recs, s, ids[p], units[p], IF p \in hits THEN 0 ELSE near[p])
<1>1. DOMAIN near = rest \ hits
  OBVIOUS
<1>2. PICK order, f : /\ Enumerates(order, rest)
                      /\ MergedBy(s, units, ids, kept, hits, near, order, f, r)
  BY <1>1, MergedInSteps
<1> DEFINE N == Len(order)
<1>3. /\ order \in Seq(rest) /\ N \in Nat
      /\ \A p \in rest : \E k \in 1 .. N : order[k] = p
      /\ \A k, l \in 1 .. N : order[k] = order[l] => k = l
  BY <1>2 DEF Enumerates
<1>4. r = f[N]
  BY <1>2 DEF MergedBy
<1>5. f[0] = kept /\ \A k \in 0 .. N - 1 : f[k + 1] = Place(f[k], order[k + 1])
  BY <1>2 DEF MergedBy
<1> HIDE DEF N
<1> DEFINE Unit(j) == Told(s, ids[order[j]], units[order[j]])
           P(k) == /\ f[k] \in Seq(RecordType(I, F)) /\ Len(kept) <= Len(f[k])
                   /\ Ids(f[k]) = Ids(kept) \cup {ids[order[j]] : j \in 1 .. k}
                   /\ Separate(kept) => Separate(f[k])
                   /\ SaidIn(f[k]) = SaidIn(kept) \cup {Unit(j) : j \in 1 .. k}
           Q == {k \in Nat : k <= N => P(k)}
<1>6. \A k \in 1 .. N : order[k] \in rest /\ ids[order[k]] \in I
                           /\ units[order[k]] \in UnitType
  <2>1. \A k \in 1 .. N : order[k] \in rest
    BY <1>3 DEF N
  <2>2. \A p \in rest : ids[p] \in I /\ units[p] \in UnitType
    OBVIOUS
  <2> QED
    BY <2>1, <2>2
<1>7. \A k \in Nat : k \in Q
  <2>1. 0 \in Q
    <3>1. 1 .. 0 = {} /\ Len(kept) <= Len(kept)
      OBVIOUS
    <3>2. {ids[order[j]] : j \in 1 .. 0} = {} /\ {Unit(j) : j \in 1 .. 0} = {}
      BY <3>1
    <3>3. P(0)
      <4> HIDE DEF Unit
      <4> QED
        BY <1>5, <3>1, <3>2
    <3> HIDE DEF P
    <3> QED
      BY <3>3
  <2>2. ASSUME NEW k \in Nat, k \in Q, k + 1 <= N
        PROVE  P(k + 1)
    <3>1. P(k) /\ k \in 0 .. N - 1 /\ k + 1 \in 1 .. N
      BY <1>3, <2>2
    <3> DEFINE p == order[k + 1]
               near_p == IF p \in hits THEN 0 ELSE near[p]
    <3>2. p \in rest /\ ids[p] \in I /\ units[p] \in UnitType
      BY <1>6, <3>1
    <3>3. /\ f[k + 1] = Placed(f[k], s, ids[p], units[p], near_p)
      BY <1>5, <3>1
    <3>4. near_p \in 0 .. Len(f[k])
      BY <3>1, <3>2
    <3>5. ids[p] \notin Ids(f[k])
      <4>1. \A j \in 1 .. k : j \in 1 .. N /\ j # k + 1
        BY <1>3, <3>1
      <4>2. \A j \in 1 .. k : order[j] \in rest /\ order[j] # p
        BY <1>3, <1>6, <3>1, <4>1
      <4> HIDE DEF p
      <4> QED
        BY <3>1, <3>2, <4>2 DEF Unused
    <3> HIDE DEF near_p, p
    <3>6. /\ f[k + 1] \in Seq(RecordType(I, F)) /\ Len(f[k]) <= Len(f[k + 1])
          /\ Ids(f[k + 1]) = Ids(f[k]) \cup {ids[p]}
          /\ SaidIn(f[k]) \subseteq SaidIn(f[k + 1])
          /\ SaidIn(f[k + 1]) \subseteq SaidIn(f[k]) \cup {Told(s, ids[p], units[p])}
          /\ Separate(f[k]) => Separate(f[k + 1])
          /\ Told(s, ids[p], units[p]) \in SaidIn(f[k + 1])
      BY <3>1, <3>2, <3>3, <3>4, <3>5, PlacedFacts
    <3>7. 1 .. k + 1 = 1 .. k \cup {k + 1}
      OBVIOUS
    <3>8. {ids[order[j]] : j \in 1 .. k + 1} = {ids[order[j]] : j \in 1 .. k} \cup {ids[p]}
      BY <3>7 DEF p
    <3>9. {Unit(j) : j \in 1 .. k + 1}
             = {Unit(j) : j \in 1 .. k} \cup {Told(s, ids[p], units[p])}
      BY <3>7 DEF p
    <3>10. Len(kept) <= Len(f[k + 1])
      BY <3>1, <3>6
    <3>11. Ids(f[k + 1]) = Ids(kept) \cup {ids[order[j]] : j \in 1 .. k + 1}
      BY <3>1, <3>6, <3>8
    <3> HIDE DEF Unit
    <3>12. SaidIn(f[k + 1]) = SaidIn(kept) \cup {Unit(j) : j \in 1 .. k + 1}
      BY <3>1, <3>6, <3>9
    <3> QED
      BY <3>1, <3>6, <3>10, <3>11, <3>12
  <2> HIDE DEF P
  <2>3. \A k \in Nat : k \in Q => k + 1 \in Q
    BY <1>3, <2>2
  <2> HIDE DEF Q
  <2> QED
    BY <2>1, <2>3, Induction
<1>8. P(N)
  <2> HIDE DEF P
  <2> QED
    BY <1>3, <1>7
<1>9. {ids[order[j]] : j \in 1 .. N} = {ids[p] : p \in rest}
      /\ {Unit(j) : j \in 1 .. N} = {Told(s, ids[p], units[p]) : p \in rest}
  <2> DEFINE X(p) == ids[p]
             Y(p) == Told(s, ids[p], units[p])
  <2>1. \A k \in 1 .. N : order[k] \in rest
    BY <1>6
  <2>2. \A p \in rest : \E k \in 1 .. N : order[k] = p
    BY <1>3 DEF N
  <2> HIDE DEF X, Y, N
  <2>3. {X(order[j]) : j \in 1 .. N} = {X(p) : p \in rest}
    <3>1. \A p \in rest : X(p) \in {X(order[j]) : j \in 1 .. N}
      BY <2>2
    <3> QED
      BY <2>1, <3>1
  <2>4. {Y(order[j]) : j \in 1 .. N} = {Y(p) : p \in rest}
    <3>1. \A p \in rest : Y(p) \in {Y(order[j]) : j \in 1 .. N}
      BY <2>2
    <3> QED
      BY <2>1, <3>1
  <2> QED
    BY <2>3, <2>4 DEF X, Y
<1> QED
  BY <1>4, <1>8, <1>9 DEF AllTold
-----------------------------------------------------------------------------
\* The ids of new units.

\* The id of a duplicate, by its place.
IdAt(t) == records[t[1]].dups[t[2]].id

\* The ids to reclaim are those of the duplicates given up, one for each.
LEMMA ReclaimableFacts ==
  ASSUME NEW I, NEW F, records \in Seq(RecordType(I, F)), NEW s, NEW form
  PROVE  /\ Len(Reclaimable(s, form)) \in Nat
         /\ Len(Reclaimable(s, form)) = Cardinality(GivenUp(s, form))
         /\ IsFiniteSet(GivenUp(s, form))
         /\ \E g \in [1 .. Len(Reclaimable(s, form)) -> GivenUp(s, form)] :
               /\ \A k \in 1 .. Len(Reclaimable(s, form)) :
                     Reclaimable(s, form)[k] = IdAt(g[k])
               /\ \A k, l \in 1 .. Len(Reclaimable(s, form)) : g[k] = g[l] => k = l
<1> DEFINE slots == GivenUp(s, form)
           n == Cardinality(slots)
           Below == [t \in slots |-> UpTo(t, slots)]
<1>1. \A t \in slots : /\ t[1] \in DOMAIN records /\ t[2] \in DOMAIN records[t[1]].dups
                       /\ t = <<t[1], t[2]>> /\ t[1] \in Nat /\ t[2] \in Nat
  <2> SUFFICES ASSUME NEW t \in slots
               PROVE  /\ t[1] \in DOMAIN records /\ t[2] \in DOMAIN records[t[1]].dups
                      /\ t = <<t[1], t[2]>> /\ t[1] \in Nat /\ t[2] \in Nat
    OBVIOUS
  <2>1. PICK i \in DOMAIN records : t \in {i} \X DOMAIN records[i].dups
    BY DEF GivenUp
  <2>2. records[i] \in RecordType(I, F) /\ i \in Nat
    OBVIOUS
  <2>3. records[i].dups \in Seq(DupType(I, F))
    BY <2>2 DEF RecordType
  <2> QED
    BY <2>1, <2>2, <2>3
<1>2. IsFiniteSet(slots)
  <2> DEFINE Row(i) == {i} \X DOMAIN records[i].dups
             Rows == {Row(i) : i \in DOMAIN records}
  <2>1. \A i \in DOMAIN records : IsFiniteSet(Row(i))
    <3> TAKE i \in DOMAIN records
    <3>1. records[i] \in RecordType(I, F)
      OBVIOUS
    <3>2. records[i].dups \in Seq(DupType(I, F))
      BY <3>1 DEF RecordType
    <3>3. /\ DOMAIN records[i].dups = 1 .. Len(records[i].dups)
          /\ Len(records[i].dups) \in Nat
      BY <3>2
    <3>4. IsFiniteSet(1 .. Len(records[i].dups))
      BY <3>3, FS_Interval
    <3>5. IsFiniteSet({i}) /\ IsFiniteSet(1 .. Len(records[i].dups))
      BY <3>4, FS_Singleton
    <3> QED
      BY <3>3, <3>5, FS_Product
  <2>2. IsFiniteSet(DOMAIN records)
    <3>1. DOMAIN records = 1 .. Len(records) /\ Len(records) \in Nat
      OBVIOUS
    <3> QED
      BY <3>1, FS_Interval
  <2>3. slots \subseteq UNION Rows
    BY DEF GivenUp
  <2> HIDE DEF Row, slots
  <2>4. IsFiniteSet(Rows)
    <3> DEFINE f == [i \in DOMAIN records |-> Row(i)]
    <3>1. f \in Surjection(DOMAIN records, Rows)
      BY DEF Surjection
    <3> HIDE DEF f
    <3> QED
      BY <2>2, <3>1, FS_Surjection
  <2>5. \A T \in Rows : IsFiniteSet(T)
    BY <2>1
  <2> HIDE DEF Rows
  <2>6. IsFiniteSet(UNION Rows)
    BY <2>4, <2>5, FS_UNION
  <2> QED
    BY <2>3, <2>6, FS_Subset
<1> HIDE DEF slots
<1>3. Below \in [slots -> SUBSET slots]
  BY DEF UpTo
<1>4. \A t \in slots : t \in Below[t]
  BY <1>1 DEF UpTo
<1>5. \A t, u \in slots : u \in Below[t] <=> (u[1] < t[1] \/ (u[1] = t[1] /\ u[2] <= t[2]))
  BY DEF UpTo
<1> HIDE DEF Below
<1>6. \A t, u \in slots : Below[t] = Below[u] => t = u
  <2> SUFFICES ASSUME NEW t \in slots, NEW u \in slots, Below[t] = Below[u]
               PROVE  t = u
    OBVIOUS
  <2>1. /\ u[1] < t[1] \/ (u[1] = t[1] /\ u[2] <= t[2])
        /\ t[1] < u[1] \/ (t[1] = u[1] /\ t[2] <= u[2])
    BY <1>4, <1>5
  <2>2. t[1] = u[1] /\ t[2] = u[2]
    BY <1>1, <2>1
  <2> QED
    BY <1>1, <2>2
<1>7. \A t, u \in slots : Below[t] \subseteq Below[u] \/ Below[u] \subseteq Below[t]
  <2>1. ASSUME NEW t \in slots, NEW u \in slots, u[1] < t[1] \/ (u[1] = t[1] /\ u[2] <= t[2])
        PROVE  Below[u] \subseteq Below[t]
    <3>1. ASSUME NEW x \in slots, x \in Below[u]
          PROVE  x \in Below[t]
      <4>1. x[1] < u[1] \/ (x[1] = u[1] /\ x[2] <= u[2])
        BY <1>5, <3>1
      <4>2. x[1] < t[1] \/ (x[1] = t[1] /\ x[2] <= t[2])
        BY <1>1, <2>1, <4>1
      <4> QED
        BY <1>5, <4>2
    <3>2. Below[u] \subseteq slots
      BY <1>3
    <3> QED
      BY <3>1, <3>2
  <2>2. \A t, u \in slots : \/ u[1] < t[1] \/ (u[1] = t[1] /\ u[2] <= t[2])
                            \/ t[1] < u[1] \/ (t[1] = u[1] /\ t[2] <= u[2])
    BY <1>1
  <2> QED
    BY <2>1, <2>2
<1>8. /\ n \in Nat
      /\ \A x \in slots : Cardinality(Below[x]) \in 1 .. n
      /\ \A x, y \in slots : Cardinality(Below[x]) = Cardinality(Below[y]) => x = y
      /\ \A k \in 1 .. n : \E x \in slots : Cardinality(Below[x]) = k
  BY ONLY <1>2, <1>3, <1>4, <1>6, <1>7, Ranking
<1> DEFINE Nth(k) == CHOOSE t \in slots : Cardinality(UpTo(t, slots)) = k
<1>9. \A k \in 1 .. n : Nth(k) \in slots /\ Cardinality(Below[Nth(k)]) = k
  <2> TAKE k \in 1 .. n
  <2>1. \A t \in slots : Below[t] = UpTo(t, slots)
    BY DEF Below
  <2>2. \E t \in slots : Cardinality(UpTo(t, slots)) = k
    BY <1>8, <2>1
  <2>3. Nth(k) \in slots /\ Cardinality(UpTo(Nth(k), slots)) = k
    BY <2>2
  <2> HIDE DEF Nth
  <2> QED
    BY <2>1, <2>3
<1>10. Reclaimable(s, form) = [k \in 1 .. n |-> IdAt(Nth(k))]
  BY DEF Reclaimable, IdAt, slots
<1> HIDE DEF n, Nth
<1> DEFINE g == [k \in 1 .. n |-> Nth(k)]
<1>11. g \in [1 .. n -> slots]
  BY <1>9
<1>12. Len(Reclaimable(s, form)) = n
  BY <1>8, <1>10
<1>13. \A k \in 1 .. n : Reclaimable(s, form)[k] = IdAt(g[k])
  BY <1>10
<1>14. \A k, l \in 1 .. n : g[k] = g[l] => k = l
  BY <1>9
<1> HIDE DEF g
<1>15. \E h \in [1 .. n -> slots] :
          /\ \A k \in 1 .. n : Reclaimable(s, form)[k] = IdAt(h[k])
          /\ \A k, l \in 1 .. n : h[k] = h[l] => k = l
  BY <1>11, <1>13, <1>14
<1> QED
  BY <1>2, <1>8, <1>12, <1>15 DEF slots, n
\* What a given-up duplicate said, and that its id is its own.
LEMMA GivenUpFacts ==
  ASSUME NEW I, NEW F, records \in Seq(RecordType(I, F)), NEW s, NEW form,
         NEW t \in GivenUp(s, form)
  PROVE  /\ IdAt(t) \in Ids(records) /\ IdAt(t) \in I
         /\ \E o \in SaidIn(records) : o.from = s /\ o.id = IdAt(t) /\ Form[o.text] = form
         /\ Separate(records) =>
               /\ \A i \in DOMAIN records : records[i].id # IdAt(t)
               /\ \A other : \A u \in GivenUp(s, other) :
                     IdAt(u) = IdAt(t) => u = t /\ other = form
<1> DEFINE rec(u) == records[u[1]]
           dup(u) == records[u[1]].dups[u[2]]
<1>1. ASSUME NEW other, NEW u \in GivenUp(s, other)
      PROVE  /\ u[1] \in DOMAIN records /\ u[2] \in DOMAIN rec(u).dups /\ u = <<u[1], u[2]>>
             /\ dup(u) \in DupType(I, F)
             /\ dup(u).from = s /\ Form[Wording(rec(u), dup(u))] = other
             /\ IdAt(u) = dup(u).id
  <2>1. PICK i \in DOMAIN records : u \in {i} \X DOMAIN records[i].dups
    BY <1>1 DEF GivenUp
  <2>2. records[i] \in RecordType(I, F)
    OBVIOUS
  <2>3. records[i].dups \in Seq(DupType(I, F))
    BY <2>2 DEF RecordType
  <2>4. dup(u).from = s /\ Form[Wording(rec(u), dup(u))] = other
    BY <1>1 DEF GivenUp
  <2> QED
    BY <2>1, <2>3, <2>4 DEF IdAt
<1> HIDE DEF rec, dup
<1>2. /\ t[1] \in DOMAIN records /\ t[2] \in DOMAIN rec(t).dups
      /\ dup(t) \in DupType(I, F)
      /\ dup(t).from = s /\ Form[Wording(rec(t), dup(t))] = form
      /\ IdAt(t) = dup(t).id
  BY <1>1
<1>3. IdAt(t) \in IdsOf(records[t[1]])
  BY <1>2 DEF IdsOf, rec, dup
<1>4. IdAt(t) \in Ids(records) /\ IdAt(t) \in I
  BY <1>2, <1>3 DEF Ids, DupType
<1> DEFINE o == Occurrence(dup(t), Wording(rec(t), dup(t)))
<1>5. o.from = s /\ o.id = IdAt(t) /\ Form[o.text] = form
  BY <1>2 DEF Occurrence
<1>6. o \in SaidIn(records)
  <2>1. o \in DupsSay(records[t[1]])
    BY <1>2 DEF DupsSay, dup, rec
  <2> HIDE DEF o
  <2> QED
    BY <1>2, <2>1 DEF SaidIn, SaidBy
<1> HIDE DEF o
<1>7. ASSUME Separate(records), NEW i \in DOMAIN records
      PROVE  records[i].id # IdAt(t)
  <2>1. records[i].id \in IdsOf(records[i])
    BY DEF IdsOf
  <2>2. CASE i = t[1]
    BY <1>2, <1>7, <2>2 DEF Separate, Apart, dup, rec
  <2>3. CASE i # t[1]
    BY <1>2, <1>3, <1>7, <2>1, <2>3 DEF Separate
  <2> QED
    BY <2>2, <2>3
<1>8. ASSUME Separate(records), NEW other, NEW u \in GivenUp(s, other), IdAt(u) = IdAt(t)
      PROVE  u = t /\ other = form
  <2>1. /\ u[1] \in DOMAIN records /\ u[2] \in DOMAIN rec(u).dups /\ u = <<u[1], u[2]>>
        /\ Form[Wording(rec(u), dup(u))] = other /\ IdAt(u) = dup(u).id
        /\ t = <<t[1], t[2]>>
    BY <1>1
  <2>2. IdAt(u) \in IdsOf(records[u[1]])
    BY <2>1 DEF IdsOf, rec, dup
  <2>3. u[1] = t[1]
    BY <1>2, <1>3, <1>8, <2>1, <2>2 DEF Separate
  <2>4. u[2] = t[2]
    BY <1>2, <1>8, <2>1, <2>3 DEF Separate, Apart, dup, rec
  <2>5. u = t
    BY <2>1, <2>3, <2>4
  <2> QED
    BY <1>2, <2>1, <2>5
<1> QED
  BY <1>4, <1>5, <1>6, <1>7, <1>8

\* The highest number of a session is its counter, when that covers its ids.
LEMMA HighestFacts ==
  ASSUME NEW I, \A id \in I : id[2] \in Nat, NEW s, counters[s] \in Nat,
         NEW kept, Ids(kept) \subseteq I,
         \A id \in Ids(kept) : id[1] = s => id[2] <= counters[s]
  PROVE  HighestNumber(s, kept) = counters[s]
<1> DEFINE S == {0} \cup {id[2] : id \in {x \in Ids(kept) : x[1] = s}}
<1>1. S \subseteq Nat /\ S # {} /\ \A x \in S : x <= counters[s]
  OBVIOUS
<1>2. HighestSurviving(s, kept) = Max(S)
  BY DEF HighestSurviving
<1> HIDE DEF S
<1>3. Max(S) \in S
  BY <1>1, Maximum
<1>4. HighestSurviving(s, kept) \in Nat /\ HighestSurviving(s, kept) <= counters[s]
  BY <1>1, <1>2, <1>3
<1> DEFINE T == {counters[s], HighestSurviving(s, kept)}
<1>5. T \subseteq Nat /\ T # {} /\ (\A x \in T : x <= counters[s]) /\ counters[s] \in T
  BY <1>4
<1>6. HighestNumber(s, kept) = Max(T)
  BY DEF HighestNumber
<1> HIDE DEF T
<1>7. Max(T) \in T /\ \A x \in T : x <= Max(T)
  BY <1>5, Maximum
<1>8. Max(T) \in Nat /\ Max(T) <= counters[s] /\ counters[s] <= Max(T)
  BY <1>5, <1>7
<1> QED
  BY <1>6, <1>8

\* A unit that is merged takes over the id of what the session said before, or
\* gets a number it never had; and it takes one over when there is one and it
\* is the only one to say so.
TakesOver(s, id, unit) ==
    \E o \in SaidIn(records) : o.from = s /\ o.id = id /\ Form[o.text] = Form[unit.text]

NewNumber(s, units, id) ==
    \E n \in Nat : id = <<s, n>> /\ n > counters[s] /\ n <= counters[s] + Len(units)

GoodIds(I, s, units, rest, ids) ==
    /\ ids \in [rest -> I]
    /\ \A p \in rest :
          \/ TakesOver(s, ids[p], units[p])
          \/ NewNumber(s, units, ids[p])
    /\ \A p \in rest :
          /\ \A q \in rest : Form[units[q].text] = Form[units[p].text] => q = p
          /\ GivenUp(s, Form[units[p].text]) # {}
          => TakesOver(s, ids[p], units[p])

\* Numbers are new ones past the counter, or those of duplicates given up.
LEMMA NewIdsFacts ==
  ASSUME NEW I, NEW F, NEW s \in F, records \in Seq(RecordType(I, F)),
         NEW units \in Seq(UnitType), NEW cited,
         \A id \in I : id[2] \in Nat, \A n \in Nat : <<s, n>> \in I,
         counters[s] \in Nat,
         \A id \in Ids(records) : id[1] = s => id[2] <= counters[s],
         NEW kept, kept = Kept(s, units, cited),
         NEW rest, rest = Remaining(s, units),
         NEW ids, ids = NewIds(s, units, rest, kept)
  PROVE  /\ GoodIds(I, s, units, rest, ids)
         /\ Separate(records) /\ cited = {} => Unused(rest, ids, kept)
<1> DEFINE form(p) == Form[units[p].text]
           slots == [p \in rest |-> Reclaimable(s, form(p))]
           rank(p) == Rank(units, rest, p)
           fresh == {p \in rest : rank(p) > Len(slots[p])}
           highest == HighestNumber(s, kept)
           count(p) == Cardinality({q \in fresh : q <= p})
<1>1. rest \subseteq Nat /\ IsFiniteSet(rest) /\ rest \subseteq DOMAIN units
  <2>1. DOMAIN units = 1 .. Len(units) /\ Len(units) \in Nat
    OBVIOUS
  <2>2. IsFiniteSet(1 .. Len(units))
    BY <2>1, FS_Interval
  <2>3. rest \subseteq DOMAIN units
    BY DEF Remaining
  <2> QED
    BY <2>1, <2>2, <2>3, FS_Subset
<1>2. /\ kept \in Seq(RecordType(I, F))
      /\ Ids(kept) \subseteq Ids(records)
      /\ {o \in SaidIn(kept) : o.from # s} = {o \in SaidIn(records) : o.from # s}
      /\ cited = {} => \A o \in SaidIn(kept) : o.from = s =>
            \E i \in DOMAIN records : o = Continued(s, units, i)
  <2>1. /\ kept \in Seq(RecordType(I, F))
        /\ Ids(kept) \subseteq Ids(records)
        /\ {o \in SaidIn(kept) : o.from # s} = {o \in SaidIn(records) : o.from # s}
    BY KeptFacts
  <2>2. \A o \in SaidIn(kept) : o.from = s => SaidAgain(s, units, cited, o)
    BY KeptFacts
  <2> QED
    BY <2>1, <2>2 DEF SaidAgain
<1>3. ids = [p \in rest |->
               IF p \in fresh THEN <<s, highest + count(p)>> ELSE slots[p][rank(p)]]
  BY DEF NewIds
<1>4. Ids(records) \subseteq I
  <2>1. \A i \in DOMAIN records : records[i] \in RecordType(I, F)
    OBVIOUS
  <2>2. ASSUME NEW i \in DOMAIN records
        PROVE  IdsOf(records[i]) \subseteq I
    <3>1. records[i].id \in I /\ records[i].dups \in Seq(DupType(I, F))
      BY <2>1 DEF RecordType
    <3>2. \A j \in DOMAIN records[i].dups : records[i].dups[j] \in DupType(I, F)
      BY <3>1
    <3> QED
      BY <3>1, <3>2 DEF IdsOf, DupType
  <2> QED
    BY <2>2 DEF Ids
<1>5. highest = counters[s]
  <2>1. Ids(kept) \subseteq I /\ \A id \in Ids(kept) : id[1] = s => id[2] <= counters[s]
    BY <1>2, <1>4
  <2> QED
    BY <2>1, HighestFacts
<1>6. /\ \A p \in fresh : count(p) \in Nat /\ count(p) >= 1 /\ count(p) <= Len(units)
      /\ \A p, q \in fresh : count(p) = count(q) => p = q
  <2>1. fresh \subseteq Nat /\ IsFiniteSet(fresh)
    BY <1>1, FS_Subset
  <2>2. Cardinality(fresh) <= Len(units) /\ Len(units) \in Nat
    <3>1. DOMAIN units = 1 .. Len(units) /\ Len(units) \in Nat
      OBVIOUS
    <3> DEFINE n == Len(units)
    <3>2. n \in Nat
      BY <3>1
    <3> HIDE DEF n
    <3>3. 1 \in Int /\ n \in Int
      BY <3>2
    <3>4. IsFiniteSet(1 .. n) /\ Cardinality(1 .. n) = IF 1 > n THEN 0 ELSE n - 1 + 1
      BY ONLY <3>3, FS_Interval
    <3>5. IsFiniteSet(1 .. n) /\ Cardinality(1 .. n) = n
      BY <3>2, <3>4
    <3>6. fresh \in SUBSET (1 .. n)
      BY <1>1, <3>1 DEF n
    <3> HIDE DEF fresh
    <3>7. Cardinality(fresh) <= Cardinality(1 .. n)
      BY <3>5, <3>6, FS_Subset
    <3> QED
      BY <3>2, <3>5, <3>7 DEF n
  <2> HIDE DEF fresh
  <2>3. /\ Cardinality(fresh) \in Nat
        /\ \A p \in fresh : count(p) \in 1 .. Cardinality(fresh)
        /\ \A p, q \in fresh : count(p) = count(q) => p = q
    BY <2>1, CountFacts
  <2> HIDE DEF count
  <2> QED
    BY <2>2, <2>3
<1>7. /\ \A p \in rest : rank(p) \in Nat /\ rank(p) >= 1
      /\ \A p, q \in rest : form(p) = form(q) /\ rank(p) = rank(q) => p = q
      /\ \A p \in rest : (\A q \in rest : form(q) = form(p) => q = p) => rank(p) = 1
  <2> DEFINE Same_(p) == {q \in rest : form(q) = form(p)}
  <2>1. \A p \in rest : rank(p) = Cardinality({q \in Same_(p) : q <= p})
    <3> TAKE p \in rest
    <3>1. {q \in rest : q <= p /\ form(q) = form(p)} = {q \in Same_(p) : q <= p}
      OBVIOUS
    <3> QED
      BY <3>1 DEF Rank
  <2>2. \A p \in rest : Same_(p) \subseteq Nat /\ IsFiniteSet(Same_(p)) /\ p \in Same_(p)
    BY <1>1, FS_Subset
  <2> HIDE DEF rank
  <2>3. ASSUME NEW p \in rest
        PROVE  /\ rank(p) \in Nat /\ rank(p) >= 1
               /\ \A q \in Same_(p) : Cardinality({r \in Same_(p) : r <= q}) = rank(p) => q = p
    <3> DEFINE S == Same_(p)
    <3>1. S \subseteq Nat /\ IsFiniteSet(S) /\ p \in S
      BY <2>2
    <3> HIDE DEF S
    <3>2. /\ Cardinality(S) \in Nat
          /\ \A q \in S : Cardinality({r \in S : r <= q}) \in 1 .. Cardinality(S)
          /\ \A q, x \in S : Cardinality({r \in S : r <= q}) = Cardinality({r \in S : r <= x})
                               => q = x
      BY <3>1, CountFacts
    <3>3. rank(p) = Cardinality({q \in S : q <= p})
      BY <2>1 DEF S
    <3>4. rank(p) \in 1 .. Cardinality(S)
      BY <3>1, <3>2, <3>3
    <3>5. \A q \in S : Cardinality({r \in S : r <= q}) = rank(p) => q = p
      BY <3>1, <3>2, <3>3
    <3>6. rank(p) \in Nat /\ rank(p) >= 1
      BY <3>2, <3>4
    <3> HIDE DEF rank
    <3> QED
      BY <3>5, <3>6 DEF S
  <2>4. ASSUME NEW p \in rest, NEW q \in rest, form(p) = form(q), rank(p) = rank(q)
        PROVE  p = q
    <3>1. Same_(p) = Same_(q) /\ q \in Same_(p)
      BY <2>4
    <3>2. Cardinality({r \in Same_(p) : r <= q}) = rank(p)
      BY <2>1, <2>4, <3>1
    <3> QED
      BY <2>3, <3>1, <3>2
  <2>5. ASSUME NEW p \in rest, \A q \in rest : form(q) = form(p) => q = p
        PROVE  rank(p) = 1
    <3>1. {q \in Same_(p) : q <= p} = {p}
      BY <1>1, <2>5
    <3>2. Cardinality({p}) = 1
      BY FS_Singleton
    <3> QED
      BY <2>1, <3>1, <3>2
  <2> HIDE DEF Same_
  <2> QED
    BY <2>3, <2>4, <2>5
<1>8. ASSUME NEW p \in rest
      PROVE  /\ Len(slots[p]) \in Nat
             /\ p \notin fresh => \E t \in GivenUp(s, form(p)) :
                   /\ ids[p] = IdAt(t)
                   /\ Separate(records) =>
                        \A q \in rest : /\ q \notin fresh /\ form(q) = form(p)
                                         /\ ids[q] = IdAt(t)
                                         => rank(q) = rank(p)
             /\ GivenUp(s, form(p)) # {} => 1 <= Len(slots[p])
  <2> DEFINE f == form(p)
             R == Reclaimable(s, f)
  <2>1. /\ Len(R) \in Nat /\ Len(R) = Cardinality(GivenUp(s, f))
        /\ IsFiniteSet(GivenUp(s, f))
    BY ReclaimableFacts
  <2>2. PICK g \in [1 .. Len(R) -> GivenUp(s, f)] :
             /\ \A k \in 1 .. Len(R) : R[k] = IdAt(g[k])
             /\ \A k, l \in 1 .. Len(R) : g[k] = g[l] => k = l
    BY ReclaimableFacts
  <2>3. \A q \in rest : form(q) = f => slots[q] = R
    OBVIOUS
  <2>4. slots[p] = R
    OBVIOUS
  <2> HIDE DEF R, slots, rank, count
  <2>5. ASSUME NEW q \in rest, q \notin fresh, form(q) = f
        PROVE  rank(q) \in 1 .. Len(R) /\ ids[q] = IdAt(g[rank(q)]) /\ g[rank(q)] \in GivenUp(s, f)
    <3>1. slots[q] = R /\ rank(q) \in Nat /\ rank(q) >= 1
      BY <1>7, <2>3, <2>5
    <3>2. ~(rank(q) > Len(R))
      BY <2>5, <3>1
    <3>3. rank(q) \in 1 .. Len(R)
      BY <2>1, <3>1, <3>2
    <3>4. ids[q] = R[rank(q)]
      BY <1>3, <2>5, <3>1
    <3> QED
      BY <2>2, <3>3, <3>4
  <2>6. ASSUME p \notin fresh
        PROVE  \E t \in GivenUp(s, f) :
                   /\ ids[p] = IdAt(t)
                   /\ Separate(records) =>
                        \A q \in rest : q \notin fresh /\ form(q) = f /\ ids[q] = IdAt(t)
                                         => rank(q) = rank(p)
    <3> DEFINE t == g[rank(p)]
    <3>1. rank(p) \in 1 .. Len(R) /\ ids[p] = IdAt(t) /\ t \in GivenUp(s, f)
      BY <2>5, <2>6
    <3>2. ASSUME Separate(records), NEW q \in rest, q \notin fresh, form(q) = f,
                 ids[q] = IdAt(t)
          PROVE  rank(q) = rank(p)
      <4>1. /\ rank(q) \in 1 .. Len(R) /\ ids[q] = IdAt(g[rank(q)])
            /\ g[rank(q)] \in GivenUp(s, f)
        BY <2>5, <3>2
      <4> DEFINE u == g[rank(q)]
      <4>2. u \in GivenUp(s, f) /\ IdAt(u) = IdAt(t) /\ t \in GivenUp(s, f)
        BY <3>1, <3>2, <4>1
      <4> HIDE DEF u, t, f
      <4>3. u = t
        BY <3>2, <4>2, GivenUpFacts
      <4>4. g[rank(q)] = g[rank(p)]
        BY <4>3 DEF u, t
      <4> QED
        BY <2>2, <3>1, <4>1, <4>4
    <3> HIDE DEF t
    <3> QED
      BY <3>1, <3>2
  <2>7. GivenUp(s, f) # {} => 1 <= Len(R)
    BY <2>1, FS_EmptySet
  <2> QED
    BY <2>1, <2>4, <2>6, <2>7
<1> HIDE DEF rank, count, slots, highest
<1>9. ASSUME NEW p \in fresh
      PROVE  /\ ids[p] = <<s, counters[s] + count(p)>>
             /\ counters[s] + count(p) \in Nat /\ counters[s] + count(p) > counters[s]
             /\ counters[s] + count(p) <= counters[s] + Len(units)
             /\ ids[p] \in I /\ ids[p] \notin Ids(records)
  <2>1. p \in rest /\ ids[p] = <<s, counters[s] + count(p)>>
    BY <1>3, <1>5
  <2>2. /\ counters[s] + count(p) \in Nat /\ counters[s] + count(p) > counters[s]
        /\ counters[s] + count(p) <= counters[s] + Len(units)
    <3>1. Len(units) \in Nat
      OBVIOUS
    <3> QED
      BY <1>6, <3>1
  <2>3. ids[p] \in I
    BY <2>1, <2>2
  <2>4. ids[p][1] = s /\ ids[p][2] = counters[s] + count(p)
    BY <2>1
  <2>5. ids[p] \notin Ids(records)
    BY <2>2, <2>4
  <2> QED
    BY <2>1, <2>2, <2>3, <2>5
<1>10. fresh \subseteq rest
  OBVIOUS
<1> HIDE DEF fresh
<1>11. ASSUME NEW p \in rest, p \notin fresh
       PROVE  /\ ids[p] \in I /\ ids[p] \in Ids(records)
              /\ TakesOver(s, ids[p], units[p])
              /\ Separate(records) /\ cited = {} => ids[p] \notin Ids(kept)
  <2>1. PICK t \in GivenUp(s, form(p)) : ids[p] = IdAt(t)
    BY <1>8, <1>11
  <2>2. /\ IdAt(t) \in Ids(records) /\ IdAt(t) \in I
        /\ \E o \in SaidIn(records) : o.from = s /\ o.id = IdAt(t) /\ Form[o.text] = form(p)
        /\ Separate(records) => \A i \in DOMAIN records : records[i].id # IdAt(t)
    BY GivenUpFacts
  <2>3. PICK o \in SaidIn(records) : o.from = s /\ o.id = ids[p] /\ Form[o.text] = form(p)
    BY <2>1, <2>2
  <2>4. TakesOver(s, ids[p], units[p])
    BY <2>3 DEF TakesOver
  <2>5. ASSUME Separate(records), cited = {}, ids[p] \in Ids(kept)
        PROVE  FALSE
    <3>1. PICK q \in SaidIn(kept) : q.id = ids[p]
      BY <2>5, IdsInAreSaid
    <3>2. CASE q.from # s
      <4>1. q \in SaidIn(records)
        BY <1>2, <3>2
      <4>2. q = o
        BY <2>3, <2>5, <3>1, <4>1, OneOccurrence
      <4> QED
        BY <2>3, <3>2, <4>2
    <3>3. CASE q.from = s
      <4>1. PICK i \in DOMAIN records : q = Continued(s, units, i)
        BY <1>2, <2>5, <3>3
      <4>2. q.id = records[i].id
        BY <4>1 DEF Continued
      <4> QED
        BY <2>1, <2>2, <2>5, <3>1, <4>2
    <3> QED
      BY <3>2, <3>3
  <2> QED
    BY <2>1, <2>2, <2>4, <2>5
<1>12. Separate(records) /\ cited = {} => \A p \in rest : ids[p] \notin Ids(kept)
  BY <1>2, <1>9, <1>11
<1>13. ids \in [rest -> I]
  <2>1. \A p \in rest : ids[p] \in I
    BY <1>9, <1>11
  <2> QED
    BY <1>3, <2>1
<1>14. ASSUME Separate(records), NEW p \in rest, NEW q \in rest, ids[p] = ids[q]
       PROVE  p = q
  <2>1. CASE p \in fresh /\ q \in fresh
    <3>1. counters[s] + count(p) = counters[s] + count(q)
      BY <1>9, <1>14, <2>1
    <3>2. count(p) = count(q)
      BY <1>6, <2>1, <3>1
    <3> QED
      BY <1>6, <2>1, <3>2
  <2>2. CASE p \notin fresh /\ q \notin fresh
    <3>1. PICK t \in GivenUp(s, form(p)) :
             /\ ids[p] = IdAt(t)
             /\ \A r \in rest : r \notin fresh /\ form(r) = form(p) /\ ids[r] = IdAt(t)
                                => rank(r) = rank(p)
      BY <1>8, <1>14, <2>2
    <3>2. PICK u \in GivenUp(s, form(q)) : ids[q] = IdAt(u)
      BY <1>8, <2>2
    <3> DEFINE h == form(p)
    <3>3. \A other : \A v \in GivenUp(s, other) : IdAt(v) = IdAt(t) => other = h
      <4>1. t \in GivenUp(s, h)
        BY <3>1
      <4> HIDE DEF h, form
      <4> QED
        BY <1>14, <4>1, GivenUpFacts
    <3>4. form(q) = form(p)
      BY <1>14, <3>1, <3>2, <3>3
    <3>5. rank(q) = rank(p)
      BY <1>14, <2>2, <3>1, <3>4
    <3> QED
      BY <1>7, <3>4, <3>5
  <2>3. CASE p \in fresh /\ q \notin fresh
    BY <1>9, <1>11, <1>14, <2>3
  <2>4. CASE p \notin fresh /\ q \in fresh
    BY <1>9, <1>11, <1>14, <2>4
  <2> QED
    BY <2>1, <2>2, <2>3, <2>4
<1>15. ASSUME NEW p \in rest
       PROVE  TakesOver(s, ids[p], units[p]) \/ NewNumber(s, units, ids[p])
  BY <1>9, <1>11 DEF NewNumber
<1>16. ASSUME NEW p \in rest, \A q \in rest : form(q) = form(p) => q = p,
              GivenUp(s, form(p)) # {}
       PROVE  TakesOver(s, ids[p], units[p])
  <2>1. rank(p) = 1
    BY <1>7, <1>16
  <2>2. Len(slots[p]) \in Nat /\ 1 <= Len(slots[p])
    BY <1>8, <1>16
  <2>3. p \notin fresh
    BY <2>1, <2>2 DEF fresh
  <2> QED
    BY <1>11, <2>3
<1> QED
  BY <1>12, <1>13, <1>14, <1>15, <1>16 DEF GoodIds, Unused
-----------------------------------------------------------------------------
\* One unit is consumed by one record; and the only unit of its form is, when
\* a record of the session has that form.
LEMMA ConsumedOnce ==
  ASSUME NEW s, NEW units \in Seq(UnitType), DOMAIN records \subseteq Nat,
         NEW p
  PROVE  /\ \A i, j \in DOMAIN records :
               p \in Consumes(s, units, i) /\ p \in Consumes(s, units, j) => i = j
         /\ \A i \in DOMAIN records : p \in Consumes(s, units, i) =>
               /\ p \in DOMAIN units /\ records[i].from = s
               /\ units[p] = Matched(s, units, i)
               /\ Form[records[i].text] = Form[units[p].text]
         /\ \A i \in DOMAIN records :
               /\ records[i].from = s /\ p \in DOMAIN units
               /\ Form[records[i].text] = Form[units[p].text]
               /\ \A q \in DOMAIN units : Form[units[q].text] = Form[units[p].text] => q = p
               => \E j \in DOMAIN records : p \in Consumes(s, units, j)
<1>1. ASSUME NEW i \in DOMAIN records, p \in Consumes(s, units, i)
      PROVE  /\ p \in DOMAIN units /\ records[i].from = s
             /\ units[p] = Matched(s, units, i)
             /\ Form[records[i].text] = Form[units[p].text]
             /\ \A j \in 1 .. i - 1 : records[j].from = s =>
                   Form[records[j].text] # Form[records[i].text]
  <2>1. /\ p \in DOMAIN units /\ records[i].from = s
        /\ units[p] = Matched(s, units, i)
    BY <1>1, ConsumesFacts
  <2>2. p \in FirstSaying(units, records[i].text)
        /\ \A j \in 1 .. i - 1 : records[j].from = s =>
                   Form[records[j].text] # Form[records[i].text]
    BY <1>1 DEF Consumes
  <2>3. Form[units[p].text] = Form[records[i].text]
    BY <2>2 DEF FirstSaying
  <2> QED
    BY <2>1, <2>2, <2>3
<1>2. \A i \in DOMAIN records : i \in Nat
  OBVIOUS
<1>3. ASSUME NEW i \in DOMAIN records, NEW j \in DOMAIN records,
             p \in Consumes(s, units, i), p \in Consumes(s, units, j)
      PROVE  ~(j < i)
  <2>1. SUFFICES ASSUME j < i
                 PROVE  FALSE
    OBVIOUS
  <2>2. Form[records[i].text] = Form[records[j].text] /\ records[j].from = s
    BY <1>1, <1>3
  <2>3. j \in 1 .. i - 1 \/ j = 0
    BY <1>2, <2>1
  <2>4. CASE j \in 1 .. i - 1
    BY <1>1, <1>3, <2>2, <2>4
  <2> QED
    BY <2>3, <2>4
<1>4. ASSUME NEW i \in DOMAIN records, records[i].from = s, p \in DOMAIN units,
             Form[records[i].text] = Form[units[p].text],
             \A q \in DOMAIN units : Form[units[q].text] = Form[units[p].text] => q = p
      PROVE  \E j \in DOMAIN records : p \in Consumes(s, units, j)
  <2> DEFINE T == {j \in DOMAIN records :
                     records[j].from = s /\ Form[records[j].text] = Form[units[p].text]}
  <2>1. T \subseteq Nat /\ T # {}
    BY <1>2, <1>4
  <2>2. PICK j \in T : \A k \in T : j <= k
    <3> HIDE DEF T
    <3> QED
      BY <2>1, LeastNumber
  <2>3. ASSUME NEW k \in 1 .. j - 1, records[k].from = s
        PROVE  Form[records[k].text] # Form[records[j].text]
    <3>1. k \notin T
      BY <2>2, <1>2
    <3>2. k \in DOMAIN records
      OBVIOUS
    <3> QED
      BY <2>3, <3>1, <3>2
  <2>4. p \in FirstSaying(units, records[j].text)
    <3>1. DOMAIN units = 1 .. Len(units) /\ Len(units) \in Nat
      OBVIOUS
    <3>2. \A q \in 1 .. p - 1 : q \in DOMAIN units /\ q # p
      BY <1>4, <3>1
    <3>3. Form[units[p].text] = Form[records[j].text]
      OBVIOUS
    <3> QED
      BY <1>4, <3>2, <3>3 DEF FirstSaying
  <2>5. p \in Consumes(s, units, j)
    BY <2>3, <2>4 DEF Consumes
  <2> QED
    BY <2>5
<1>5. \A i, j \in DOMAIN records :
         p \in Consumes(s, units, i) /\ p \in Consumes(s, units, j) => i = j
  BY <1>2, <1>3
<1> QED
  BY <1>1, <1>4, <1>5

\* What a session says in some records: the ids of its claims, and each unit
\* under one of them.
Sayings(recs, s) == {<<o.id, o.text, o.ctx>> : o \in {q \in SaidIn(recs) : q.from = s}}

Says(recs, s, units, name) ==
    /\ Sayings(recs, s) = {<<name[p], units[p].text, units[p].ctx>> : p \in DOMAIN units}
    /\ \A p, q \in DOMAIN units : name[p] = name[q] => p = q

\* So it does, with ids that are taken over or new; and one is taken over when
\* the session said it before and one unit says it now.
Named(recs, I, s, units) ==
    \E name \in [DOMAIN units -> I] :
       /\ Says(recs, s, units, name)
       /\ \A p \in DOMAIN units :
             TakesOver(s, name[p], units[p]) \/ NewNumber(s, units, name[p])
       /\ \A p \in DOMAIN units :
             /\ \A q \in DOMAIN units :
                   Form[units[q].text] = Form[units[p].text] => q = p
             /\ \E o \in SaidIn(records) :
                   o.from = s /\ Form[o.text] = Form[units[p].text]
             => TakesOver(s, name[p], units[p])

\* An ingestion, where no correction refers to anything.
LEMMA IngestedFacts ==
  ASSUME NEW I, NEW F, NEW s \in F, records \in Seq(RecordType(I, F)),
         NEW units \in Seq(UnitType), Separate(records),
         \A id \in I : id[2] \in Nat, \A n \in Nat : <<s, n>> \in I,
         counters[s] \in Nat,
         \A id \in Ids(records) : id[1] = s => id[2] <= counters[s],
         NEW merged \in IngestedRecords(s, units, {})
  PROVE  /\ merged \in Seq(RecordType(I, F)) /\ Separate(merged)
         /\ {o \in SaidIn(merged) : o.from # s} = {o \in SaidIn(records) : o.from # s}
         /\ \A id \in Ids(merged) :
               id \in Ids(records) \/ NewNumber(s, units, id)
         /\ Named(merged, I, s, units)
<1> DEFINE kept == Kept(s, units, {})
           rest == Remaining(s, units)
           hits == {p \in rest : Exact(kept, units[p]) # 0}
           ids == NewIds(s, units, rest, kept)
<1>1. PICK near \in [rest \ hits -> 0 .. Len(kept)] :
         merged = Merged(s, units, ids, kept, hits, near)
  BY DEF IngestedRecords
<1>2. /\ kept \in Seq(RecordType(I, F)) /\ Separate(kept)
      /\ Ids(kept) \subseteq Ids(records)
      /\ {o \in SaidIn(kept) : o.from # s} = {o \in SaidIn(records) : o.from # s}
      /\ \A i \in DOMAIN records :
            Consumes(s, units, i) # {} => Continued(s, units, i) \in SaidIn(kept)
  BY KeptFacts
<1>3. \A o \in SaidIn(kept) : o.from = s => SaidAgain(s, units, {}, o)
  BY KeptFacts
<1>4. /\ ids \in [rest -> I]
      /\ \A p, q \in rest : ids[p] = ids[q] => p = q
      /\ \A p \in rest : ids[p] \notin Ids(kept)
      /\ \A p \in rest :
            \/ TakesOver(s, ids[p], units[p])
            \/ NewNumber(s, units, ids[p])
      /\ \A p \in rest :
            /\ \A q \in rest : Form[units[q].text] = Form[units[p].text] => q = p
            /\ GivenUp(s, Form[units[p].text]) # {}
            => TakesOver(s, ids[p], units[p])
  <2> HIDE DEF kept, rest, ids
  <2>1. kept = Kept(s, units, {}) /\ rest = Remaining(s, units)
        /\ ids = NewIds(s, units, rest, kept)
    BY DEF kept, rest, ids
  <2>2. GoodIds(I, s, units, rest, ids) /\ Unused(rest, ids, kept)
    BY <2>1, NewIdsFacts
  <2> QED
    BY <2>2 DEF GoodIds, Unused
<1>5. hits \subseteq rest /\ rest \subseteq DOMAIN units
  BY DEF Remaining
<1>6. /\ rest = DOMAIN units \ UNION {Consumes(s, units, i) : i \in DOMAIN records}
      /\ DOMAIN records \subseteq Nat
  BY DEF Remaining
<1> HIDE DEF kept, rest, hits, ids
<1>7. /\ merged \in Seq(RecordType(I, F))
      /\ Ids(merged) = Ids(kept) \cup {ids[p] : p \in rest}
      /\ Separate(merged)
      /\ SaidIn(merged) = SaidIn(kept) \cup {Told(s, ids[p], units[p]) : p \in rest}
  <2>1. ids \in [rest -> I] /\ Unused(rest, ids, kept)
    BY <1>4 DEF Unused
  <2>2. AllTold(I, F, s, units, rest, ids, kept, merged)
    BY <1>1, <1>2, <1>5, <2>1, MergedFacts
  <2> QED
    BY <1>2, <2>2 DEF AllTold
<1>8. /\ \A p : Told(s, ids[p], units[p]).from = s
      /\ \A i : Continued(s, units, i).from = s
  BY DEF Told, Continued
<1>9. {o \in SaidIn(merged) : o.from # s} = {o \in SaidIn(records) : o.from # s}
  <2>1. {o \in SaidIn(merged) : o.from # s} = {o \in SaidIn(kept) : o.from # s}
    BY <1>7, <1>8
  <2> QED
    BY <1>2, <2>1
<1>10. \A p \in rest : ids[p] \in Ids(records)
                       \/ NewNumber(s, units, ids[p])
  <2> TAKE p \in rest
  <2>1. CASE TakesOver(s, ids[p], units[p])
    BY <2>1, IdsInAreSaid DEF TakesOver
  <2> QED
    BY <1>4, <2>1
<1>11. \A id \in Ids(merged) :
          id \in Ids(records) \/ NewNumber(s, units, id)
  BY <1>2, <1>7, <1>10
<1> DEFINE who(p) == CHOOSE i \in DOMAIN records : p \in Consumes(s, units, i)
           name == [p \in DOMAIN units |-> IF p \in rest THEN ids[p] ELSE records[who(p)].id]
<1>12. \A p \in DOMAIN units : p \notin rest =>
          who(p) \in DOMAIN records /\ p \in Consumes(s, units, who(p))
  <2> TAKE p \in DOMAIN units
  <2>1. p \notin rest => \E i \in DOMAIN records : p \in Consumes(s, units, i)
    BY <1>6
  <2> QED
    BY <2>1
<1> HIDE DEF who
<1>13. \A p \in DOMAIN units : p \notin rest =>
          /\ Continued(s, units, who(p)) \in SaidIn(kept)
          /\ Continued(s, units, who(p)) =
                [id |-> name[p], from |-> s, text |-> units[p].text, ctx |-> units[p].ctx,
                 mark |-> records[who(p)].mark]
          /\ TakesOver(s, name[p], units[p])
          /\ name[p] \in Ids(kept) /\ name[p] \in I
  <2> SUFFICES ASSUME NEW p \in DOMAIN units, p \notin rest
               PROVE  /\ Continued(s, units, who(p)) \in SaidIn(kept)
                      /\ Continued(s, units, who(p)) =
                            [id |-> name[p], from |-> s, text |-> units[p].text,
                             ctx |-> units[p].ctx, mark |-> records[who(p)].mark]
                      /\ TakesOver(s, name[p], units[p])
                      /\ name[p] \in Ids(kept) /\ name[p] \in I
    OBVIOUS
  <2> DEFINE i == who(p)
  <2>1. i \in DOMAIN records /\ p \in Consumes(s, units, i)
    BY <1>12
  <2>2. name[p] = records[i].id
    OBVIOUS
  <2> HIDE DEF i, name
  <2>3. /\ records[i].from = s /\ units[p] = Matched(s, units, i)
        /\ Form[records[i].text] = Form[units[p].text]
    BY <1>6, <2>1, ConsumedOnce
  <2>4. Continued(s, units, i) \in SaidIn(kept)
    BY <1>2, <2>1
  <2>5. Continued(s, units, i) =
           [id |-> name[p], from |-> s, text |-> units[p].text, ctx |-> units[p].ctx,
            mark |-> records[i].mark]
    BY <2>2, <2>3 DEF Continued
  <2>6. TakesOver(s, name[p], units[p])
    <3> DEFINE o == Occurrence(records[i], records[i].text)
    <3>1. o.from = s /\ o.id = name[p] /\ Form[o.text] = Form[units[p].text]
      BY <2>2, <2>3 DEF Occurrence
    <3>2. o \in SaidIn(records)
      BY <2>1 DEF SaidIn, SaidBy
    <3> HIDE DEF o
    <3> QED
      BY <3>1, <3>2 DEF TakesOver
  <2>7. name[p] \in Ids(kept)
    <3>1. Continued(s, units, i).id = name[p]
      BY <2>5
    <3> QED
      BY <2>4, <3>1, IdsInAreSaid
  <2>8. name[p] \in I
    <3>1. records[i] \in RecordType(I, F)
      BY <2>1
    <3> QED
      BY <2>2, <3>1 DEF RecordType
  <2> QED
    BY <2>4, <2>5, <2>6, <2>7, <2>8 DEF i
<1>14. \A p \in rest : name[p] = ids[p]
  BY <1>5
<1>15. name = [p \in DOMAIN units |-> name[p]]
  OBVIOUS
<1>16. \A p, q \in DOMAIN units : p \notin rest /\ q \notin rest /\ name[p] = name[q] => p = q
  <2> SUFFICES ASSUME NEW p \in DOMAIN units, NEW q \in DOMAIN units, p \notin rest,
                      q \notin rest, name[p] = name[q]
               PROVE  p = q
    OBVIOUS
  <2>1. /\ who(p) \in DOMAIN records /\ p \in Consumes(s, units, who(p))
        /\ who(q) \in DOMAIN records /\ q \in Consumes(s, units, who(q))
    BY <1>12
  <2>2. records[who(p)].id = records[who(q)].id
    OBVIOUS
  <2>3. who(p) = who(q)
    BY <2>1, <2>2 DEF Separate, IdsOf
  <2> QED
    BY <2>1, <2>3, ConsumesFacts
<1> HIDE DEF name
<1>17. name \in [DOMAIN units -> I]
  BY <1>4, <1>13, <1>14, <1>15
<1>18. \A p, q \in DOMAIN units : name[p] = name[q] => p = q
  BY <1>4, <1>13, <1>14, <1>16
<1>19. Sayings(merged, s) = {<<name[p], units[p].text, units[p].ctx>> : p \in DOMAIN units}
  <2>1. ASSUME NEW o \in SaidIn(merged), o.from = s
        PROVE  \E p \in DOMAIN units :
                  <<o.id, o.text, o.ctx>> = <<name[p], units[p].text, units[p].ctx>>
    <3>1. CASE o \in SaidIn(kept)
      <4>1. PICK i \in DOMAIN records :
               Consumes(s, units, i) # {} /\ o = Continued(s, units, i)
        BY <1>3, <2>1, <3>1 DEF SaidAgain
      <4>2. PICK p \in Consumes(s, units, i) : TRUE
        BY <4>1
      <4>3. p \in DOMAIN units /\ p \notin rest
        BY <1>6, <4>2, ConsumesFacts
      <4>4. who(p) = i
        BY <1>6, <1>12, <4>2, <4>3, ConsumedOnce
      <4>5. o = [id |-> name[p], from |-> s, text |-> units[p].text,
                 ctx |-> units[p].ctx, mark |-> records[who(p)].mark]
        BY <1>13, <4>1, <4>3, <4>4
      <4>6. o.id = name[p] /\ o.text = units[p].text /\ o.ctx = units[p].ctx
        BY <4>5
      <4> QED
        BY <4>3, <4>6
    <3>2. CASE o \in {Told(s, ids[p], units[p]) : p \in rest}
      <4>1. PICK p \in rest : o = Told(s, ids[p], units[p])
        BY <3>2
      <4>2. o.id = name[p] /\ o.text = units[p].text /\ o.ctx = units[p].ctx
        BY <1>14, <4>1 DEF Told
      <4> QED
        BY <1>5, <4>2
    <3> QED
      BY <1>7, <3>1, <3>2
  <2>2. ASSUME NEW p \in DOMAIN units
        PROVE  \E o \in SaidIn(merged) : o.from = s /\
                  <<o.id, o.text, o.ctx>> = <<name[p], units[p].text, units[p].ctx>>
    <3>1. CASE p \in rest
      <4> DEFINE o == Told(s, ids[p], units[p])
      <4>1. o \in SaidIn(merged)
        BY <1>7, <3>1
      <4>2. o.from = s /\ o.id = name[p] /\ o.text = units[p].text /\ o.ctx = units[p].ctx
        BY <1>14, <3>1 DEF Told
      <4> HIDE DEF o
      <4> QED
        BY <4>1, <4>2
    <3>2. CASE p \notin rest
      <4> DEFINE o == Continued(s, units, who(p))
      <4>1. o \in SaidIn(merged)
        BY <1>7, <1>13, <3>2
      <4>2. o.from = s /\ o.id = name[p] /\ o.text = units[p].text /\ o.ctx = units[p].ctx
        BY <1>13, <3>2
      <4> HIDE DEF o
      <4> QED
        BY <4>1, <4>2
    <3> QED
      BY <3>1, <3>2
  <2> DEFINE T == {<<name[p], units[p].text, units[p].ctx>> : p \in DOMAIN units}
  <2>3. Sayings(merged, s) \subseteq T
    <3> SUFFICES ASSUME NEW x \in Sayings(merged, s)
                 PROVE  x \in T
      OBVIOUS
    <3>1. PICK o \in SaidIn(merged) : o.from = s /\ x = <<o.id, o.text, o.ctx>>
      BY DEF Sayings
    <3>2. PICK p \in DOMAIN units :
             <<o.id, o.text, o.ctx>> = <<name[p], units[p].text, units[p].ctx>>
      BY <2>1, <3>1
    <3> QED
      BY <3>1, <3>2
  <2>4. T \subseteq Sayings(merged, s)
    <3> SUFFICES ASSUME NEW p \in DOMAIN units
                 PROVE  <<name[p], units[p].text, units[p].ctx>> \in Sayings(merged, s)
      OBVIOUS
    <3>1. PICK o \in SaidIn(merged) : o.from = s /\
             <<o.id, o.text, o.ctx>> = <<name[p], units[p].text, units[p].ctx>>
      BY <2>2
    <3> QED
      BY <3>1 DEF Sayings
  <2> QED
    BY <2>3, <2>4
<1>20. \A p \in DOMAIN units :
          \/ TakesOver(s, name[p], units[p])
          \/ NewNumber(s, units, name[p])
  BY <1>4, <1>13, <1>14
<1>21. ASSUME NEW p \in DOMAIN units,
              \A q \in DOMAIN units : Form[units[q].text] = Form[units[p].text] => q = p,
              NEW o \in SaidIn(records), o.from = s, Form[o.text] = Form[units[p].text]
       PROVE  TakesOver(s, name[p], units[p])
  <2>1. CASE p \in rest
    <3>1. PICK i \in DOMAIN records : o \in SaidBy(records[i])
      BY DEF SaidIn
    <3>2. CASE o = Occurrence(records[i], records[i].text)
      <4>1. records[i].from = s /\ Form[records[i].text] = Form[units[p].text]
        BY <1>21, <3>2 DEF Occurrence
      <4>2. \E j \in DOMAIN records : p \in Consumes(s, units, j)
        BY <1>6, <1>21, <4>1, ConsumedOnce
      <4> QED
        BY <1>6, <2>1, <4>2
    <3>3. CASE o \in DupsSay(records[i])
      <4>1. PICK j \in DOMAIN records[i].dups :
               o = Occurrence(records[i].dups[j], Wording(records[i], records[i].dups[j]))
        BY <3>3 DEF DupsSay
      <4>2. records[i].dups[j].from = s
            /\ Form[Wording(records[i], records[i].dups[j])] = Form[units[p].text]
        BY <1>21, <4>1 DEF Occurrence
      <4>3. <<i, j>> \in GivenUp(s, Form[units[p].text])
        BY <4>2 DEF GivenUp
      <4>4. TakesOver(s, ids[p], units[p])
        BY <1>4, <1>5, <1>21, <2>1, <4>3
      <4> QED
        BY <1>14, <2>1, <4>4
    <3> QED
      BY <3>1, <3>2, <3>3 DEF SaidBy
  <2>2. CASE p \notin rest
    BY <1>13, <2>2
  <2> QED
    BY <2>1, <2>2
<1>22. Says(merged, s, units, name)
  BY <1>18, <1>19 DEF Says
<1>23. Named(merged, I, s, units)
  BY <1>17, <1>20, <1>21, <1>22 DEF Named
<1> QED
  BY <1>7, <1>9, <1>11, <1>23
-----------------------------------------------------------------------------
\* Taking a record apart and packing it again leaves its ids and what it says.
LEMMA RepackedFacts ==
  ASSUME NEW I, NEW F, NEW rec \in RecordType(I, F), NEW r, r = Repacked(Unfolded(rec))
  PROVE  /\ r \in RecordType(I, F) /\ (Apart(rec) => Apart(r))
         /\ IdsOf(r) = IdsOf(rec) /\ SaidBy(r) = SaidBy(rec)
<1> DEFINE n == Len(rec.dups)
           first == [id |-> rec.id, from |-> rec.from, text |-> rec.text, ctx |-> rec.ctx,
                     mark |-> rec.mark]
           Of(d) == [id |-> d.id, from |-> d.from, text |-> Wording(rec, d),
                     ctx |-> d.ctx, mark |-> d.mark]
           rest == [i \in DOMAIN rec.dups |-> Of(rec.dups[i])]
           Type == [id : I, from : F, text : Texts, ctx : Contexts, mark : Marks]
<1>1. /\ rec.id \in I /\ rec.from \in F /\ rec.text \in Texts /\ rec.ctx \in Contexts
      /\ rec.mark \in Marks /\ rec.dups \in Seq(DupType(I, F))
      /\ n \in Nat /\ DOMAIN rec.dups = 1 .. n
  BY DEF RecordType
<1>2. \A i \in 1 .. n : /\ rec.dups[i] \in DupType(I, F)
                        /\ Wording(rec, rec.dups[i]) \in Texts
  <2> TAKE i \in 1 .. n
  <2>1. rec.dups[i] \in DupType(I, F)
    BY <1>1
  <2> QED
    BY <1>1, <2>1 DEF DupType, Wording
<1>3. first \in Type /\ \A i \in 1 .. n : Of(rec.dups[i]) \in Type
  BY <1>1, <1>2 DEF DupType
<1>4. Unfolded(rec) = <<first>> \o rest
  BY DEF Unfolded
<1>5. rest = [i \in 1 .. n |-> Of(rec.dups[i])]
  BY <1>1
<1> HIDE DEF n, first, rest, Type
<1>6. <<first>> \in Seq(Type) /\ Len(<<first>>) = 1 /\ <<first>>[1] = first
  BY <1>3
<1>7. rest \in Seq(Type) /\ Len(rest) = n /\ DOMAIN rest = 1 .. n
      /\ \A i \in 1 .. n : rest[i] = Of(rec.dups[i])
  <2> HIDE DEF Of
  <2> QED
    BY <1>1, <1>3, <1>5, IsASeq
<1> DEFINE occs == <<first>> \o rest
<1>8. /\ occs \in Seq(Type) /\ Len(occs) = 1 + n
      /\ \A i \in 1 .. 1 + n : occs[i] = IF i <= 1 THEN <<first>>[i] ELSE rest[i - 1]
  <2>1. /\ occs \in Seq(Type) /\ Len(occs) = Len(<<first>>) + Len(rest)
        /\ \A i \in 1 .. Len(<<first>>) + Len(rest) :
              occs[i] = IF i <= Len(<<first>>) THEN <<first>>[i] ELSE rest[i - Len(<<first>>)]
    BY <1>6, <1>7, ConcatProperties
  <2> HIDE DEF occs
  <2> QED
    BY <1>6, <1>7, <2>1
<1> HIDE DEF occs
<1>9. Head(occs) = first
  <2>1. occs[1] = first /\ occs # <<>>
    BY <1>1, <1>6, <1>8
  <2> QED
    BY <1>8, <2>1
<1>10. Tail(occs) = rest
  <2>1. occs # <<>>
    BY <1>1, <1>8
  <2>2. /\ Tail(occs) \in Seq(Type) /\ Len(Tail(occs)) = Len(occs) - 1
        /\ \A i \in 1 .. Len(Tail(occs)) : Tail(occs)[i] = occs[i + 1]
    BY <1>8, <2>1, HeadTailProperties
  <2>3. Len(Tail(occs)) = n
    BY <1>1, <1>8, <2>2
  <2>4. \A i \in 1 .. n : Tail(occs)[i] = rest[i]
    <3> TAKE i \in 1 .. n
    <3>1. Tail(occs)[i] = occs[i + 1] /\ i + 1 \in 1 .. 1 + n /\ ~(i + 1 <= 1)
          /\ (i + 1) - 1 = i
      BY <1>1, <2>2, <2>3
    <3>2. occs[i + 1] = rest[(i + 1) - 1]
      BY <1>8, <3>1
    <3> QED
      BY <3>1, <3>2
  <2> QED
    BY <1>7, <2>2, <2>3, <2>4, SeqEqual
<1> DEFINE para(i) == IF rest[i].text = first.text THEN Same ELSE rest[i].text
           dup(i) == [id |-> rest[i].id, from |-> rest[i].from, ctx |-> rest[i].ctx,
                      mark |-> rest[i].mark, para |-> para(i)]
<1>11. r = [id |-> first.id, from |-> first.from, text |-> first.text, ctx |-> first.ctx,
            mark |-> first.mark, dups |-> [i \in 1 .. n |-> dup(i)]]
  <2>1. r = Repacked(occs)
    BY <1>4 DEF occs
  <2> QED
    BY <1>7, <1>9, <1>10, <2>1 DEF Repacked
<1>12. /\ r.id = rec.id /\ r.from = rec.from /\ r.text = rec.text /\ r.ctx = rec.ctx
       /\ r.mark = rec.mark /\ first.text = rec.text
  BY <1>11 DEF first
<1>13. r.dups = [i \in 1 .. n |-> dup(i)]
  BY <1>11
<1>14. ASSUME NEW i \in 1 .. n
       PROVE  /\ r.dups[i] \in DupType(I, F) /\ r.dups[i].id = rec.dups[i].id
              /\ Occurrence(r.dups[i], Wording(r, r.dups[i]))
                   = Occurrence(rec.dups[i], Wording(rec, rec.dups[i]))
  <2> DEFINE d == rec.dups[i]
             w == Wording(rec, d)
  <2>1. d \in DupType(I, F) /\ w \in Texts
    BY <1>2
  <2>2. rest[i] = [id |-> d.id, from |-> d.from, text |-> w, ctx |-> d.ctx, mark |-> d.mark]
    BY <1>7
  <2> HIDE DEF d, w
  <2>3. rest[i].id = d.id /\ rest[i].from = d.from /\ rest[i].text = w /\ rest[i].ctx = d.ctx
        /\ rest[i].mark = d.mark
    BY <2>2
  <2>4. r.dups[i] = [id |-> d.id, from |-> d.from, ctx |-> d.ctx, mark |-> d.mark,
                     para |-> IF w = rec.text THEN Same ELSE w]
    BY <1>12, <1>13, <2>3
  <2>5. Wording(r, r.dups[i]) = w
    BY <1>12, <2>1, <2>4, RecordConstants DEF Wording
  <2>6. r.dups[i].id = d.id /\ r.dups[i].from = d.from /\ r.dups[i].ctx = d.ctx
        /\ r.dups[i].mark = d.mark
    BY <2>4
  <2>7. r.dups[i] \in DupType(I, F)
    BY <2>1, <2>4 DEF DupType
  <2>8. Occurrence(r.dups[i], w) = Occurrence(d, w)
    BY <2>6 DEF Occurrence
  <2> QED
    BY <2>5, <2>6, <2>7, <2>8 DEF d, w
<1> HIDE DEF dup
<1>15. r.dups \in Seq(DupType(I, F)) /\ DOMAIN r.dups = 1 .. n
  <2>1. r.dups = [i \in 1 .. n |-> r.dups[i]]
    BY <1>13
  <2>2. \A i \in 1 .. n : r.dups[i] \in DupType(I, F)
    BY <1>14
  <2> QED
    BY <1>1, <2>1, <2>2, IsASeq
<1>16. r \in RecordType(I, F)
  BY <1>1, <1>11, <1>12, <1>13, <1>15 DEF RecordType
<1>17. Apart(rec) => Apart(r)
  BY <1>1, <1>12, <1>14, <1>15 DEF Apart
<1>18. IdsOf(r) = IdsOf(rec)
  <2>1. {r.dups[i].id : i \in 1 .. n} = {rec.dups[i].id : i \in 1 .. n}
    BY <1>14
  <2> QED
    BY <1>1, <1>12, <1>15, <2>1 DEF IdsOf
<1>19. SaidBy(r) = SaidBy(rec)
  <2>1. Occurrence(r, r.text) = Occurrence(rec, rec.text)
    BY <1>12 DEF Occurrence
  <2>2. {Occurrence(r.dups[i], Wording(r, r.dups[i])) : i \in 1 .. n} =
           {Occurrence(rec.dups[i], Wording(rec, rec.dups[i])) : i \in 1 .. n}
    BY <1>14
  <2> QED
    BY <1>1, <1>15, <2>1, <2>2 DEF SaidBy, DupsSay
<1> QED
  BY <1>16, <1>17, <1>18, <1>19

\* So does taking all records apart.
LEMMA AllRepackedFacts ==
  ASSUME NEW I, NEW F, NEW recs \in Seq(RecordType(I, F)), NEW r,
         r = [i \in DOMAIN recs |-> Repacked(Unfolded(recs[i]))]
  PROVE  /\ r \in Seq(RecordType(I, F)) /\ (Separate(recs) => Separate(r))
         /\ Ids(r) = Ids(recs) /\ SaidIn(r) = SaidIn(recs)
<1>1. DOMAIN recs = 1 .. Len(recs) /\ Len(recs) \in Nat /\ DOMAIN r = DOMAIN recs
  OBVIOUS
<1>2. \A i \in DOMAIN recs : /\ r[i] \in RecordType(I, F) /\ (Apart(recs[i]) => Apart(r[i]))
                             /\ IdsOf(r[i]) = IdsOf(recs[i]) /\ SaidBy(r[i]) = SaidBy(recs[i])
  <2> TAKE i \in DOMAIN recs
  <2>1. recs[i] \in RecordType(I, F) /\ r[i] = Repacked(Unfolded(recs[i]))
    OBVIOUS
  <2> QED
    BY <2>1, RepackedFacts
<1>3. r \in Seq(RecordType(I, F))
  <2>1. r = [i \in 1 .. Len(recs) |-> r[i]]
    BY <1>1
  <2>2. \A i \in 1 .. Len(recs) : r[i] \in RecordType(I, F)
    BY <1>1, <1>2
  <2> QED
    BY ONLY <1>1, <2>1, <2>2, IsASeq
<1>4. Separate(recs) => Separate(r)
  BY <1>1, <1>2 DEF Separate
<1>5. Ids(r) = Ids(recs) /\ SaidIn(r) = SaidIn(recs)
  BY <1>1, <1>2 DEF Ids, SaidIn
<1> QED
  BY <1>3, <1>4, <1>5

\* Counters cover the numbers that are there, and move only when they must.
LEMMA CountedFacts ==
  ASSUME NEW recs, NEW t \in Sessions, counters[t] \in Nat,
         \A id \in Ids(recs) : id[1] = t => id[2] \in Nat,
         NEW b \in Nat, counters[t] <= b, \A id \in Ids(recs) : id[1] = t => id[2] <= b
  PROVE  /\ Counted(recs)[t] \in Nat
         /\ counters[t] <= Counted(recs)[t] /\ Counted(recs)[t] <= b
         /\ \A id \in Ids(recs) : id[1] = t => id[2] <= Counted(recs)[t]
<1> DEFINE S == {counters[t]} \cup {id[2] : id \in {x \in Ids(recs) : x[1] = t}}
<1>1. S \subseteq Nat /\ S # {} /\ (\A x \in S : x <= b) /\ counters[t] \in S
      /\ \A id \in Ids(recs) : id[1] = t => id[2] \in S
  OBVIOUS
<1>2. Counted(recs)[t] = Max(S)
  BY DEF Counted
<1> HIDE DEF S
<1>3. Max(S) \in S /\ \A x \in S : x <= Max(S)
  BY <1>1, Maximum
<1>4. Max(S) \in Nat /\ Max(S) <= b /\ counters[t] <= Max(S)
  BY <1>1, <1>3
<1>5. \A id \in Ids(recs) : id[1] = t => id[2] <= Max(S)
  BY <1>1, <1>3
<1> QED
  BY <1>2, <1>4, <1>5

-----------------------------------------------------------------------------
\* Ids before their numbers are bounded.
Numbered == Sessions \X Nat

\* The units a session said last are in the store, each under an id.
Faithful ==
    \A s \in Sessions : \E name \in [DOMAIN latest[s] -> Id] :
        Says(records, s, latest[s], name)

\* The inductive invariant.  What was issued is covered by the counters, which
\* is why a number that is above its counter is new.
IssuedCovered ==
    /\ Ids(records) \subseteq issued
    /\ \A id \in issued : id[2] <= counters[id[1]]

IInv ==
    /\ TypeOK
    /\ latest \in [Sessions -> Seq(UnitType)]
    /\ Separate(records)
    /\ IssuedCovered
    /\ Faithful

-----------------------------------------------------------------------------
\* What Occurrences reads of a session is what its records say for it.
LEMMA OccurrencesAreSayings ==
  ASSUME NEW recs, NEW s
  PROVE  Occurrences(recs, s) = Sayings(recs, s)
<1> DEFINE A == {<<recs[i].id, recs[i].text, recs[i].ctx>> :
                    i \in {j \in DOMAIN recs : recs[j].from = s}}
           B == UNION {{<<d.id, Wording(recs[i], d), d.ctx>> :
                    d \in {x \in ToSet(recs[i].dups) : x.from = s}} :
                i \in DOMAIN recs}
<1>1. \A o, text : /\ Occurrence(o, text).from = o.from
                   /\ <<Occurrence(o, text).id, Occurrence(o, text).text,
                        Occurrence(o, text).ctx>> = <<o.id, text, o.ctx>>
  BY DEF Occurrence
<1>2. ASSUME NEW x \in Sayings(recs, s)
      PROVE  x \in A \/ x \in B
  <2>1. PICK q \in SaidIn(recs) : q.from = s /\ x = <<q.id, q.text, q.ctx>>
    BY <1>2 DEF Sayings
  <2>2. PICK i \in DOMAIN recs : q \in SaidBy(recs[i])
    BY DEF SaidIn
  <2>3. CASE q = Occurrence(recs[i], recs[i].text)
    <3>1. recs[i].from = s /\ x = <<recs[i].id, recs[i].text, recs[i].ctx>>
      BY <1>1, <2>1, <2>3
    <3> QED
      BY <3>1
  <2>4. CASE q \in DupsSay(recs[i])
    <3>1. PICK j \in DOMAIN recs[i].dups :
             q = Occurrence(recs[i].dups[j], Wording(recs[i], recs[i].dups[j]))
      BY <2>4 DEF DupsSay
    <3> DEFINE d == recs[i].dups[j]
    <3>2. d \in ToSet(recs[i].dups) /\ d.from = s
          /\ x = <<d.id, Wording(recs[i], d), d.ctx>>
      BY <1>1, <2>1, <3>1 DEF ToSet
    <3> HIDE DEF d
    <3> QED
      BY <3>2
  <2> QED
    BY <2>2, <2>3, <2>4 DEF SaidBy
<1>3. ASSUME NEW x \in A
      PROVE  x \in Sayings(recs, s)
  <2>1. PICK i \in DOMAIN recs : recs[i].from = s
                                 /\ x = <<recs[i].id, recs[i].text, recs[i].ctx>>
    BY <1>3
  <2> DEFINE q == Occurrence(recs[i], recs[i].text)
  <2>2. q.from = s /\ x = <<q.id, q.text, q.ctx>> /\ q \in SaidBy(recs[i])
    BY <1>1, <2>1 DEF SaidBy
  <2> HIDE DEF q
  <2> QED
    BY <2>2 DEF Sayings, SaidIn
<1>4. ASSUME NEW x \in B
      PROVE  x \in Sayings(recs, s)
  <2>1. PICK i \in DOMAIN recs : \E d \in ToSet(recs[i].dups) :
           d.from = s /\ x = <<d.id, Wording(recs[i], d), d.ctx>>
    BY <1>4
  <2>2. PICK j \in DOMAIN recs[i].dups :
           /\ recs[i].dups[j].from = s
           /\ x = <<recs[i].dups[j].id, Wording(recs[i], recs[i].dups[j]),
                    recs[i].dups[j].ctx>>
    BY <2>1 DEF ToSet
  <2> DEFINE q == Occurrence(recs[i].dups[j], Wording(recs[i], recs[i].dups[j]))
  <2>3. q.from = s /\ x = <<q.id, q.text, q.ctx>> /\ q \in SaidBy(recs[i])
    BY <1>1, <2>2 DEF SaidBy, DupsSay
  <2> HIDE DEF q
  <2> QED
    BY <2>3 DEF Sayings, SaidIn
<1>5. Occurrences(recs, s) = A \cup B
  BY DEF Occurrences
<1> HIDE DEF A, B
<1> QED
  BY <1>2, <1>3, <1>4, <1>5

\* Records with some ids are records of any larger set of ids, and of those ids
\* that they have.
LEMMA RetypedRecords ==
  ASSUME NEW I, NEW J, NEW F, NEW recs \in Seq(RecordType(I, F)), Ids(recs) \subseteq J
  PROVE  recs \in Seq(RecordType(J, F))
<1>1. DOMAIN recs = 1 .. Len(recs) /\ Len(recs) \in Nat
  OBVIOUS
<1>2. ASSUME NEW i \in DOMAIN recs
      PROVE  recs[i] \in RecordType(J, F)
  <2> DEFINE rec == recs[i]
             n == Len(rec.dups)
  <2>1. rec \in RecordType(I, F) /\ IdsOf(rec) \subseteq J
    BY DEF Ids
  <2> HIDE DEF rec
  <2>2. /\ rec.from \in F /\ rec.text \in Texts /\ rec.ctx \in Contexts /\ rec.mark \in Marks
        /\ rec.dups \in Seq(DupType(I, F)) /\ n \in Nat /\ DOMAIN rec.dups = 1 .. n
        /\ rec = [id |-> rec.id, from |-> rec.from, text |-> rec.text, ctx |-> rec.ctx,
                  mark |-> rec.mark, dups |-> rec.dups]
    BY <2>1 DEF RecordType
  <2>3. rec.id \in J /\ \A j \in 1 .. n : rec.dups[j].id \in J
    BY <2>1, <2>2 DEF IdsOf
  <2>4. \A j \in 1 .. n : rec.dups[j] \in DupType(J, F)
    <3> TAKE j \in 1 .. n
    <3>1. rec.dups[j] \in DupType(I, F) /\ rec.dups[j].id \in J
      BY <2>2, <2>3
    <3> QED
      BY <3>1 DEF DupType
  <2> HIDE DEF n
  <2>5. rec.dups \in Seq(DupType(J, F))
    <3>1. rec.dups = [j \in 1 .. n |-> rec.dups[j]]
      BY <2>2
    <3> QED
      BY ONLY <2>2, <2>4, <3>1, IsASeq
  <2>6. rec \in RecordType(J, F)
    BY <2>2, <2>3, <2>5 DEF RecordType
  <2> QED
    BY <2>6 DEF rec
<1>3. recs = [i \in 1 .. Len(recs) |-> recs[i]]
  BY <1>1
<1>4. \A i \in 1 .. Len(recs) : recs[i] \in RecordType(J, F)
  BY <1>1, <1>2
<1> QED
  BY ONLY <1>1, <1>3, <1>4, IsASeq

\* The ids of typed records are of their type.
LEMMA IdsAreTyped ==
  ASSUME NEW I, NEW F, NEW recs \in Seq(RecordType(I, F))
  PROVE  Ids(recs) \subseteq I
<1>1. ASSUME NEW i \in DOMAIN recs
      PROVE  IdsOf(recs[i]) \subseteq I
  <2>1. recs[i] \in RecordType(I, F)
    OBVIOUS
  <2>2. recs[i].id \in I /\ recs[i].dups \in Seq(DupType(I, F))
    BY <2>1 DEF RecordType
  <2>3. \A j \in DOMAIN recs[i].dups : recs[i].dups[j] \in DupType(I, F)
    BY <2>2
  <2> QED
    BY <2>2, <2>3 DEF IdsOf, DupType
<1> QED
  BY <1>1 DEF Ids

\* An extraction is a sequence of units.
LEMMA ExtractionsAreUnits ==
  ASSUME NEW s \in Sessions, NEW units \in Extractions(s)
  PROVE  units \in Seq(UnitType)
<1>1. Units[s] \subseteq UnitType /\ MaxUnits[s] \in Nat
  BY RecordConstants DEF UnitType
<1>2. PICK n \in 0 .. MaxUnits[s] : units \in [1 .. n -> Units[s]]
  BY DEF Extractions
<1>3. n \in Nat /\ units = [i \in 1 .. n |-> units[i]] /\ \A i \in 1 .. n : units[i] \in UnitType
  BY <1>1, <1>2
<1> QED
  BY ONLY <1>3, IsASeq
-----------------------------------------------------------------------------
\* What one ingestion does to the store, where the invariant holds.
Ingested(s, units) ==
    /\ records' \in Seq(RecordType(Id, Sessions)) /\ Separate(records')
    /\ counters' \in [Sessions -> 0 .. MaxNumber]
    /\ \A t \in Sessions : counters[t] <= counters'[t]
    /\ \A id \in Ids(records') : id[2] <= counters'[id[1]]
    /\ \A id \in Ids(records') : id \in Ids(records) \/ NewNumber(s, units, id)
    /\ \A t \in Sessions : t # s => Sayings(records', t) = Sayings(records, t)
    /\ Named(records', Id, s, units)
    /\ issued' = issued \cup Ids(records') /\ latest' = [latest EXCEPT ![s] = units]

\* One ingestion of the specification, in the terms of the lemmas above.
LEMMA IngestFacts ==
  ASSUME IInv, NEW s \in Sessions, NEW units \in Extractions(s), Ingest(s, units)
  PROVE  Ingested(s, units)
<1>1. /\ records \in Seq(RecordType(Id, Sessions))
      /\ counters \in [Sessions -> 0 .. MaxNumber]
      /\ \A id \in Ids(records) : id[2] <= counters[id[1]]
      /\ Separate(records)
  BY DEF IInv, TypeOK
<1>2. units \in Seq(UnitType) /\ Len(units) \in Nat /\ MaxNumber \in Nat
  <2>1. units \in Seq(UnitType)
    BY ExtractionsAreUnits
  <2> QED
    BY <2>1, RecordConstants
<1>3. PICK merged \in IngestedRecords(s, units, {}) :
         /\ records' = [i \in DOMAIN merged |-> Repacked(Unfolded(merged[i]))]
         /\ counters' = Counted(merged)
         /\ counters'[s] <= MaxNumber
         /\ issued' = issued \cup Ids(merged) /\ latest' = [latest EXCEPT ![s] = units]
  BY DEF Ingest
<1>4. Ids(records) \subseteq Id /\ Id \subseteq Numbered
  <2>1. Ids(records) \subseteq Id
    BY <1>1, IdsAreTyped
  <2> QED
    BY <2>1 DEF Id, Numbered
<1>5. records \in Seq(RecordType(Numbered, Sessions))
  <2>1. Ids(records) \subseteq Numbered
    BY <1>4
  <2> QED
    BY <1>1, <2>1, RetypedRecords
<1>6. /\ \A id \in Numbered : id[2] \in Nat /\ id[1] \in Sessions /\ id = <<id[1], id[2]>>
      /\ \A n \in Nat : <<s, n>> \in Numbered
      /\ \A t \in Sessions : counters[t] \in Nat
      /\ \A id \in Ids(records) : id[1] = s => id[2] <= counters[s]
  <2>1. \A t \in Sessions : counters[t] \in Nat
    BY <1>1, <1>2
  <2>2. \A id \in Ids(records) : id[1] = s => id[2] <= counters[s]
    BY <1>1
  <2> QED
    BY <2>1, <2>2 DEF Numbered
<1>7. /\ merged \in Seq(RecordType(Numbered, Sessions)) /\ Separate(merged)
      /\ {o \in SaidIn(merged) : o.from # s} = {o \in SaidIn(records) : o.from # s}
      /\ \A id \in Ids(merged) : id \in Ids(records) \/ NewNumber(s, units, id)
  <2>1. /\ \A id \in Numbered : id[2] \in Nat
        /\ \A n \in Nat : <<s, n>> \in Numbered
        /\ counters[s] \in Nat
    BY <1>6
  <2> QED
    BY <1>1, <1>2, <1>3, <1>5, <1>6, <2>1, IngestedFacts
<1>8. Named(merged, Numbered, s, units)
  <2>1. /\ \A id \in Numbered : id[2] \in Nat
        /\ \A n \in Nat : <<s, n>> \in Numbered
        /\ counters[s] \in Nat
    BY <1>6
  <2> QED
    BY <1>1, <1>2, <1>3, <1>5, <1>6, <2>1, IngestedFacts
<1>9. PICK name \in [DOMAIN units -> Numbered] :
       /\ Says(merged, s, units, name)
       /\ \A p \in DOMAIN units :
             TakesOver(s, name[p], units[p]) \/ NewNumber(s, units, name[p])
       /\ \A p \in DOMAIN units :
             /\ \A q \in DOMAIN units :
                   Form[units[q].text] = Form[units[p].text] => q = p
             /\ \E o \in SaidIn(records) :
                   o.from = s /\ Form[o.text] = Form[units[p].text]
             => TakesOver(s, name[p], units[p])
  BY <1>8 DEF Named
<1>10. /\ records' \in Seq(RecordType(Numbered, Sessions)) /\ Separate(records')
       /\ Ids(records') = Ids(merged) /\ SaidIn(records') = SaidIn(merged)
  BY <1>3, <1>7, AllRepackedFacts
<1>11. \A id \in Ids(merged) : id \in Numbered
  BY <1>7, IdsAreTyped
<1>12. \A id \in Ids(merged) :
          /\ id[1] # s => id \in Ids(records) /\ id[2] <= counters[id[1]]
          /\ id[1] = s => id[2] <= counters[s] + Len(units)
          /\ id[2] >= 1
  <2> TAKE id \in Ids(merged)
  <2>1. CASE id \in Ids(records)
    <3>1. id[2] >= 1 /\ id[2] \in Nat /\ id[1] \in Sessions /\ id[2] <= counters[id[1]]
      BY <1>1, <1>2, <1>4, <2>1 DEF Id
    <3>2. counters[s] \in Nat
      BY <1>6
    <3> QED
      BY <1>2, <2>1, <3>1, <3>2
  <2>2. CASE NewNumber(s, units, id)
    BY <1>2, <1>6, <2>2 DEF NewNumber
  <2> QED
    BY <1>7, <2>1, <2>2
<1>13. ASSUME NEW t \in Sessions
       PROVE  /\ counters'[t] \in Nat /\ counters[t] <= counters'[t]
              /\ counters'[t] <= MaxNumber
              /\ \A id \in Ids(merged) : id[1] = t => id[2] <= counters'[t]
  <2> DEFINE b == IF t = s THEN counters[s] + Len(units) ELSE counters[t]
  <2>1. b \in Nat /\ counters[t] <= b /\ counters[t] \in Nat
    BY <1>2, <1>6
  <2>2. \A id \in Ids(merged) : id[1] = t => id[2] \in Nat /\ id[2] <= b
    BY <1>6, <1>11, <1>12
  <2> HIDE DEF b
  <2>3. /\ counters'[t] \in Nat
        /\ counters[t] <= counters'[t] /\ counters'[t] <= b
        /\ \A id \in Ids(merged) : id[1] = t => id[2] <= counters'[t]
    BY <1>3, <2>1, <2>2, CountedFacts
  <2>4. counters'[t] <= MaxNumber
    <3>1. CASE t = s
      BY <1>3, <3>1
    <3>2. CASE t # s
      <4>1. counters'[t] <= counters[t] /\ counters[t] \in 0 .. MaxNumber
        BY <1>1, <2>3, <3>2 DEF b
      <4> QED
        BY <1>2, <2>3, <4>1
    <3> QED
      BY <3>1, <3>2
  <2> QED
    BY <2>3, <2>4
<1>14. counters' \in [Sessions -> 0 .. MaxNumber]
  <2>1. counters' = [t \in Sessions |-> counters'[t]]
    BY <1>3 DEF Counted
  <2>2. \A t \in Sessions : counters'[t] \in 0 .. MaxNumber
    BY <1>2, <1>13
  <2> QED
    BY <2>1, <2>2
<1>15. \A id \in Ids(merged) : id[2] <= counters'[id[1]] /\ id \in Id
  <2> TAKE id \in Ids(merged)
  <2>1. id \in Numbered /\ id[1] \in Sessions /\ id[2] \in Nat /\ id = <<id[1], id[2]>>
    BY <1>6, <1>11
  <2>2. id[2] <= counters'[id[1]] /\ counters'[id[1]] <= MaxNumber /\ counters'[id[1]] \in Nat
    BY <1>13, <2>1
  <2>3. id[2] \in 1 .. MaxNumber
    BY <1>2, <1>12, <2>1, <2>2
  <2> QED
    BY <2>1, <2>2, <2>3 DEF Id
<1>16. records' \in Seq(RecordType(Id, Sessions))
  <2>1. Ids(records') \subseteq Id
    BY <1>10, <1>15
  <2> QED
    BY <1>10, <2>1, RetypedRecords
<1>17. \A t \in Sessions : t # s => Sayings(records', t) = Sayings(records, t)
  <2> SUFFICES ASSUME NEW t \in Sessions, t # s
               PROVE  Sayings(records', t) = Sayings(records, t)
    OBVIOUS
  <2>1. {q \in SaidIn(records') : q.from = t} = {q \in SaidIn(records) : q.from = t}
    BY <1>7, <1>10
  <2> QED
    BY <2>1 DEF Sayings
<1>18. Says(records', s, units, name)
  BY <1>9, <1>10 DEF Says, Sayings
<1>19. name \in [DOMAIN units -> Id]
  <2>1. ASSUME NEW p \in DOMAIN units
        PROVE  name[p] \in Id
    <3> DEFINE x == <<name[p], units[p].text, units[p].ctx>>
    <3>1. x \in Sayings(merged, s)
      BY <1>9 DEF Says
    <3>2. PICK o \in SaidIn(merged) : x = <<o.id, o.text, o.ctx>>
      BY <3>1 DEF Sayings
    <3>3. name[p] = o.id
      BY <3>2
    <3> HIDE DEF x
    <3>4. name[p] \in Ids(merged)
      BY <3>3, IdsInAreSaid
    <3> QED
      BY <1>15, <3>4
  <2> QED
    BY <1>9, <2>1
<1>20. Named(records', Id, s, units)
  BY <1>9, <1>18, <1>19 DEF Named
<1> QED
  BY <1>3, <1>7, <1>10, <1>13, <1>14, <1>15, <1>16, <1>17, <1>20 DEF Ingested
-----------------------------------------------------------------------------
\* The empty store is as the invariant says.
LEMMA InitEstablishes == Init => IInv
<1> SUFFICES ASSUME Init
             PROVE  IInv
  OBVIOUS
<1>1. /\ records = <<>> /\ counters = [s \in Sessions |-> 0]
      /\ latest = [s \in Sessions |-> <<>>] /\ issued = {}
  BY DEF Init
<1>2. DOMAIN records = {} /\ MaxNumber \in Nat /\ \A s \in Sessions : MaxUnits[s] \in Nat
  BY <1>1, RecordConstants
<1>3. Ids(records) = {} /\ SaidIn(records) = {}
  BY <1>2 DEF Ids, SaidIn
<1>4. \A s \in Sessions : Sayings(records, s) = {} /\ Occurrences(records, s) = {}
  BY <1>3, OccurrencesAreSayings DEF Sayings
<1>5. \A s \in Sessions : latest[s] \in Extractions(s)
  <2> TAKE s \in Sessions
  <2>1. 1 .. 0 = {} /\ 0 \in 0 .. MaxUnits[s]
    BY <1>2
  <2>2. <<>> \in [1 .. 0 -> Units[s]]
    BY <2>1
  <2> QED
    BY <1>1, <2>1, <2>2 DEF Extractions
<1>6. TypeOK
  BY <1>1, <1>2, <1>3, <1>4, <1>5 DEF TypeOK
<1>7. latest \in [Sessions -> Seq(UnitType)]
  BY <1>1
<1>8. Separate(records)
  BY <1>2 DEF Separate
<1>9. IssuedCovered
  BY <1>1, <1>3 DEF IssuedCovered
<1>10. Faithful
  <2> SUFFICES ASSUME NEW s \in Sessions
               PROVE  \E name \in [DOMAIN latest[s] -> Id] : Says(records, s, latest[s], name)
    BY DEF Faithful
  <2>1. latest[s] = <<>> /\ DOMAIN latest[s] = {}
    BY <1>1
  <2> DEFINE name == [p \in {} |-> p]
  <2>2. name \in [DOMAIN latest[s] -> Id]
    BY <2>1
  <2>3. Says(records, s, latest[s], name)
    BY <1>4, <2>1 DEF Says
  <2> QED
    BY <2>2, <2>3
<1> QED
  BY <1>6, <1>7, <1>8, <1>9, <1>10 DEF IInv

\* The occurrences of a session have ids of the session, also when it has been
\* ingested.
LEMMA OwnIds ==
  ASSUME IInv, NEW s \in Sessions, NEW units \in Extractions(s), Ingested(s, units),
         NEW t \in Sessions, NEW o \in Occurrences(records', t)
  PROVE  o[1][1] = t
<1>1. o \in Sayings(records', t)
  BY OccurrencesAreSayings
<1>2. \A x \in Sayings(records, t) : x[1][1] = t
  BY OccurrencesAreSayings DEF IInv, TypeOK
<1>3. CASE t # s
  BY <1>1, <1>2, <1>3 DEF Ingested
<1>4. CASE t = s
  <2>1. PICK name \in [DOMAIN units -> Id] :
           /\ Says(records', s, units, name)
           /\ \A p \in DOMAIN units :
                 TakesOver(s, name[p], units[p]) \/ NewNumber(s, units, name[p])
    BY DEF Ingested, Named
  <2>2. PICK p \in DOMAIN units : o = <<name[p], units[p].text, units[p].ctx>>
    BY <1>1, <1>4, <2>1 DEF Says
  <2>3. o[1] = name[p]
    BY <2>2
  <2>4. CASE TakesOver(s, name[p], units[p])
    <3>1. PICK q \in SaidIn(records) : q.from = s /\ q.id = name[p]
      BY <2>4 DEF TakesOver
    <3> DEFINE x == <<q.id, q.text, q.ctx>>
    <3>2. x \in Sayings(records, s) /\ x[1] = name[p]
      BY <3>1 DEF Sayings
    <3> HIDE DEF x
    <3> QED
      BY <1>2, <1>4, <2>3, <3>2
  <2>5. CASE NewNumber(s, units, name[p])
    BY <1>4, <2>3, <2>5 DEF NewNumber
  <2> QED
    BY <2>1, <2>4, <2>5
<1> QED
  BY <1>3, <1>4

\* An ingestion keeps the invariant: one step for each of its parts.
LEMMA IngestKeeps ==
  ASSUME IInv, NEW s \in Sessions, NEW units \in Extractions(s), Ingested(s, units)
  PROVE  IInv'
<1>1. /\ records' \in Seq(RecordType(Id, Sessions)) /\ Separate(records')
      /\ counters' \in [Sessions -> 0 .. MaxNumber]
      /\ \A t \in Sessions : counters[t] <= counters'[t]
      /\ \A id \in Ids(records') : id[2] <= counters'[id[1]]
      /\ issued' = issued \cup Ids(records') /\ latest' = [latest EXCEPT ![s] = units]
  BY DEF Ingested
<1>2. /\ \A t \in Sessions : latest[t] \in Extractions(t)
      /\ latest \in [Sessions -> Seq(UnitType)]
      /\ issued \subseteq Id /\ counters \in [Sessions -> 0 .. MaxNumber]
      /\ IssuedCovered /\ Faithful
  BY DEF IInv, TypeOK
<1>3. /\ latest' \in [Sessions -> Seq(UnitType)] /\ latest'[s] = units
      /\ \A t \in Sessions : t # s => latest'[t] = latest[t]
  BY <1>1, <1>2, ExtractionsAreUnits
<1>4. \A t \in Sessions : latest'[t] \in Extractions(t)
  BY <1>2, <1>3
<1>5. Ids(records') \subseteq Id
  BY <1>1, IdsAreTyped
<1>6. issued' \subseteq Id
  BY <1>1, <1>2, <1>5
<1>7. \A t \in Sessions : \A o \in Occurrences(records', t) : o[1][1] = t
  BY OwnIds
<1>8. TypeOK'
  BY <1>1, <1>4, <1>6, <1>7 DEF TypeOK, Extractions, Id
<1>9. IssuedCovered'
  <2>1. \A id \in issued : id[2] <= counters'[id[1]]
    <3> TAKE id \in issued
    <3>1. id[1] \in Sessions /\ id[2] \in Nat /\ id[2] <= counters[id[1]]
      BY <1>2, RecordConstants DEF Id, IssuedCovered
    <3>2. counters[id[1]] \in Nat /\ counters'[id[1]] \in Nat
          /\ counters[id[1]] <= counters'[id[1]]
      BY <1>1, <1>2, <3>1, RecordConstants
    <3> QED
      BY <3>1, <3>2
  <2> QED
    BY <1>1, <2>1 DEF IssuedCovered
<1>10. Faithful'
  <2> SUFFICES ASSUME NEW t \in Sessions
               PROVE  \E name \in [DOMAIN latest'[t] -> Id] : Says(records', t, latest'[t], name)
    BY DEF Faithful, Id
  <2>1. CASE t = s
    BY <1>3, <2>1 DEF Ingested, Named
  <2>2. CASE t # s
    <3>1. PICK name \in [DOMAIN latest[t] -> Id] : Says(records, t, latest[t], name)
      BY <1>2 DEF Faithful
    <3>2. Sayings(records', t) = Sayings(records, t) /\ latest'[t] = latest[t]
      BY <1>3, <2>2 DEF Ingested
    <3>3. Says(records', t, latest'[t], name)
      BY <3>1, <3>2 DEF Says
    <3> QED
      BY <3>1, <3>2, <3>3
  <2> QED
    BY <2>1, <2>2
<1> QED
  BY <1>1, <1>3, <1>8, <1>9, <1>10 DEF IInv

\* And so does every step.
LEMMA NextPreserves == IInv /\ [Next]_vars => IInv'
<1> SUFFICES ASSUME IInv, [Next]_vars
             PROVE  IInv'
  OBVIOUS
<1>1. CASE Next
  <2>1. PICK s \in Sessions : \E units \in Extractions(s) : Ingest(s, units)
    BY <1>1 DEF Next
  <2>2. PICK units \in Extractions(s) : Ingest(s, units)
    BY <2>1
  <2>3. Ingested(s, units)
    BY <2>2, IngestFacts
  <2> QED
    BY <2>3, IngestKeeps
<1>2. CASE UNCHANGED vars
  <2>1. records' = records /\ counters' = counters /\ latest' = latest /\ issued' = issued
    BY <1>2 DEF vars
  <2>2. TypeOK'
    BY <2>1 DEF IInv, TypeOK, Extractions, Id
  <2>3. IssuedCovered' /\ Separate(records')
    BY <2>1 DEF IInv, IssuedCovered
  <2>4. Faithful'
    BY <2>1 DEF IInv, Faithful, Id
  <2> QED
    BY <2>1, <2>2, <2>3, <2>4 DEF IInv
<1> QED
  BY <1>1, <1>2

\* In every state a store says of each session what it said last, every id is
\* of one occurrence, and the ids ever issued are within the counters.
THEOREM Invariance == Spec => []IInv
<1> QED
  BY InitEstablishes, NextPreserves, PTL DEF Spec
-----------------------------------------------------------------------------
\* Every variable of the records has its shape, and an id is that of one
\* occurrence of its own session, at most the session's counter.
THEOREM TypeCorrect == Spec => []TypeOK
<1>1. IInv => TypeOK
  BY DEF IInv
<1> QED
  BY <1>1, Invariance, PTL

\* Records that are separate have an id for each of their occurrences.
LEMMA SeparateIsDistinct ==
  ASSUME NEW I, NEW F, NEW recs \in Seq(RecordType(I, F)), Separate(recs)
  PROVE  DistinctIds(recs)
<1> DEFINE Row(i) == {<<i, j>> : j \in 0 .. Len(recs[i].dups)}
           Rows == {Row(i) : i \in DOMAIN recs}
           Places == UNION Rows
           At(t) == IF t[2] = 0 THEN recs[t[1]].id ELSE recs[t[1]].dups[t[2]].id
           f == [t \in Places |-> At(t)]
<1>1. \A i \in DOMAIN recs : /\ Len(recs[i].dups) \in Nat
                             /\ DOMAIN recs[i].dups = 1 .. Len(recs[i].dups)
  <2> TAKE i \in DOMAIN recs
  <2>1. recs[i] \in RecordType(I, F)
    OBVIOUS
  <2>2. recs[i].dups \in Seq(DupType(I, F))
    BY <2>1 DEF RecordType
  <2> QED
    BY <2>2
<1>2. IsFiniteSet(Places)
  <2>1. \A i \in DOMAIN recs : IsFiniteSet(Row(i))
    <3> TAKE i \in DOMAIN recs
    <3> DEFINE n == Len(recs[i].dups)
               h == [j \in 0 .. n |-> <<i, j>>]
    <3>1. n \in Int /\ 0 \in Int
      BY <1>1
    <3>2. IsFiniteSet(0 .. n)
      BY ONLY <3>1, FS_Interval
    <3>3. h \in Surjection(0 .. n, Row(i))
      BY DEF Surjection
    <3> HIDE DEF h, n
    <3> QED
      BY <3>2, <3>3, FS_Surjection
  <2>2. IsFiniteSet(DOMAIN recs)
    <3>1. DOMAIN recs = 1 .. Len(recs) /\ Len(recs) \in Nat
      OBVIOUS
    <3> QED
      BY <3>1, FS_Interval
  <2> HIDE DEF Row
  <2>3. IsFiniteSet(Rows)
    <3> DEFINE h == [i \in DOMAIN recs |-> Row(i)]
    <3>1. h \in Surjection(DOMAIN recs, Rows)
      BY DEF Surjection
    <3> HIDE DEF h
    <3> QED
      BY <2>2, <3>1, FS_Surjection
  <2>4. \A T \in Rows : IsFiniteSet(T)
    BY <2>1
  <2> HIDE DEF Rows
  <2> QED
    BY <2>3, <2>4, FS_UNION
<1>3. \A t \in Places : /\ t[1] \in DOMAIN recs /\ t = <<t[1], t[2]>>
                        /\ t[2] = 0 \/ t[2] \in DOMAIN recs[t[1]].dups
  <2> SUFFICES ASSUME NEW i \in DOMAIN recs, NEW j \in 0 .. Len(recs[i].dups)
               PROVE  j = 0 \/ j \in DOMAIN recs[i].dups
    OBVIOUS
  <2> QED
    BY <1>1
<1>4. \A i \in DOMAIN recs : \A j : j = 0 \/ j \in DOMAIN recs[i].dups => <<i, j>> \in Places
  <2> SUFFICES ASSUME NEW i \in DOMAIN recs, NEW j, j = 0 \/ j \in DOMAIN recs[i].dups
               PROVE  <<i, j>> \in Row(i)
    OBVIOUS
  <2> QED
    BY <1>1
<1>5. \A i \in DOMAIN recs : 0 \notin DOMAIN recs[i].dups
  BY <1>1
<1> HIDE DEF Places
<1>6. \A t \in Places : f[t] \in IdsOf(recs[t[1]])
  BY <1>3 DEF IdsOf
<1>7. f \in Surjection(Places, Ids(recs))
  <2>1. f \in [Places -> Ids(recs)]
    BY <1>3, <1>6 DEF Ids
  <2>2. ASSUME NEW id \in Ids(recs)
        PROVE  \E t \in Places : f[t] = id
    <3>1. PICK i \in DOMAIN recs : id \in IdsOf(recs[i])
      BY DEF Ids
    <3>2. CASE id = recs[i].id
      <4>1. <<i, 0>> \in Places
        BY <1>4
      <4>2. f[<<i, 0>>] = id
        BY <3>2, <4>1
      <4> QED
        BY <4>1, <4>2
    <3>3. CASE \E j \in DOMAIN recs[i].dups : id = recs[i].dups[j].id
      <4>1. PICK j \in DOMAIN recs[i].dups : id = recs[i].dups[j].id
        BY <3>3
      <4>2. <<i, j>> \in Places /\ j # 0
        BY <1>4, <1>5
      <4>3. f[<<i, j>>] = id
        BY <4>1, <4>2
      <4> QED
        BY <4>2, <4>3
    <3> QED
      BY <3>1, <3>2, <3>3 DEF IdsOf
  <2> QED
    BY <2>1, <2>2 DEF Surjection
<1>8. \A t, u \in Places : f[t] = f[u] => t = u
  <2> SUFFICES ASSUME NEW t \in Places, NEW u \in Places, f[t] = f[u]
               PROVE  t = u
    OBVIOUS
  <2>1. t[1] = u[1]
    BY <1>3, <1>6 DEF Separate
  <2>2. Apart(recs[t[1]])
    BY <1>3 DEF Separate
  <2>3. t[2] = u[2]
    BY <1>3, <2>1, <2>2 DEF Apart
  <2> QED
    BY <1>3, <2>1, <2>3
<1> HIDE DEF f
<1>9. f \in Injection(Places, Ids(recs))
  BY <1>7, <1>8 DEF Injection, IsInjective, Surjection
<1>10. Cardinality(Ids(recs)) = Cardinality(Places)
  BY <1>2, <1>7, <1>9, FS_Surjection
<1> QED
  BY <1>10 DEF DistinctIds, Places

\* No two occurrences have one id, whatever is ingested again.
THEOREM IdsAreUnique == Spec => []UniqueIds
<1>1. IInv => UniqueIds
  BY SeparateIsDistinct DEF IInv, TypeOK, UniqueIds
<1> QED
  BY <1>1, Invariance, PTL

\* The id of a claim that was dropped never names another one.
THEOREM RetiredIdsNeverReturn == Spec => RetiredNeverReturn
<1>1. IInv /\ [Next]_vars => [issued \cap Ids(records') \subseteq Ids(records)]_vars
  <2> SUFFICES ASSUME IInv, Next
               PROVE  issued \cap Ids(records') \subseteq Ids(records)
    OBVIOUS
  <2>1. PICK s \in Sessions : \E units \in Extractions(s) : Ingest(s, units)
    BY DEF Next
  <2>2. PICK units \in Extractions(s) : Ingest(s, units)
    BY <2>1
  <2>3. \A id \in Ids(records') : id \in Ids(records) \/ NewNumber(s, units, id)
    BY <2>2, IngestFacts DEF Ingested
  <2>4. ASSUME NEW id \in issued, NewNumber(s, units, id)
        PROVE  FALSE
    <3>1. id[2] <= counters[id[1]]
      BY DEF IInv, IssuedCovered
    <3>2. PICK n \in Nat : id = <<s, n>> /\ n > counters[s]
      BY <2>4 DEF NewNumber
    <3>3. n <= counters[s] /\ counters[s] \in Nat
      BY <3>1, <3>2, RecordConstants DEF IInv, TypeOK
    <3> QED
      BY <3>2, <3>3
  <2> QED
    BY <2>3, <2>4
<1> QED
  BY <1>1, Invariance, PTL DEF Spec, RetiredNeverReturn

\* The store says of each session what that session last said.
THEOREM StoreIsFaithful == Spec => []SaysWhatSessionsSaid
<1>1. IInv => SaysWhatSessionsSaid
  <2> SUFFICES ASSUME IInv, NEW s \in Sessions, NEW u \in Units[s]
               PROVE  Cardinality({o \in Occurrences(records, s) :
                                     <<o[2], o[3]>> = <<u.text, u.ctx>>})
                        = Cardinality({p \in DOMAIN latest[s] : latest[s][p] = u})
    BY DEF SaysWhatSessionsSaid
  <2> DEFINE S == {p \in DOMAIN latest[s] : latest[s][p] = u}
             T == {o \in Sayings(records, s) : <<o[2], o[3]>> = <<u.text, u.ctx>>}
  <2>1. PICK name \in [DOMAIN latest[s] -> Id] : Says(records, s, latest[s], name)
    BY DEF IInv, Faithful
  <2>2. /\ Sayings(records, s) = {<<name[p], latest[s][p].text, latest[s][p].ctx>> :
                                    p \in DOMAIN latest[s]}
        /\ \A p, q \in DOMAIN latest[s] : name[p] = name[q] => p = q
    BY <2>1 DEF Says
  <2>3. latest[s] \in Seq(UnitType) /\ u \in UnitType
    BY RecordConstants DEF IInv, UnitType
  <2>4. \A p \in DOMAIN latest[s] :
           latest[s][p] = u <=> latest[s][p].text = u.text /\ latest[s][p].ctx = u.ctx
    <3>1. \A p \in DOMAIN latest[s] : latest[s][p] \in UnitType
      BY <2>3
    <3> QED
      BY <2>3, <3>1 DEF UnitType
  <2> DEFINE f == [p \in S |-> <<name[p], u.text, u.ctx>>]
  <2>5. \A p \in S : f[p] = <<name[p], latest[s][p].text, latest[s][p].ctx>>
    BY <2>4
  <2>6. f \in [S -> T]
    <3>1. ASSUME NEW p \in S
          PROVE  f[p] \in T
      <4>1. f[p] \in Sayings(records, s)
        BY <2>2, <2>5
      <4> QED
        BY <4>1
    <3> QED
      BY <3>1
  <2>7. \A o \in T : \E p \in S : f[p] = o
    <3> SUFFICES ASSUME NEW o \in T
                 PROVE  \E p \in S : f[p] = o
      OBVIOUS
    <3>1. PICK p \in DOMAIN latest[s] : o = <<name[p], latest[s][p].text, latest[s][p].ctx>>
      BY <2>2
    <3>2. latest[s][p].text = u.text /\ latest[s][p].ctx = u.ctx
      BY <3>1
    <3>3. p \in S
      BY <2>4, <3>2
    <3> QED
      BY <3>1, <3>2, <3>3
  <2>8. \A p, q \in S : f[p] = f[q] => p = q
    BY <2>2
  <2>9. IsFiniteSet(S)
    <3>1. DOMAIN latest[s] = 1 .. Len(latest[s]) /\ Len(latest[s]) \in Nat
      BY <2>3
    <3>2. IsFiniteSet(1 .. Len(latest[s]))
      BY <3>1, FS_Interval
    <3> QED
      BY <3>1, <3>2, FS_Subset
  <2> HIDE DEF f, S, T
  <2>10. f \in Surjection(S, T) /\ f \in Injection(S, T)
    BY <2>6, <2>7, <2>8 DEF Surjection, Injection, IsInjective
  <2>11. Cardinality(T) = Cardinality(S)
    BY <2>9, <2>10, FS_Surjection
  <2> QED
    BY <2>11, OccurrencesAreSayings DEF S, T
<1> QED
  BY <1>1, Invariance, PTL
-----------------------------------------------------------------------------
\* A session's claims of a form, when one unit has it: the ids are one id.
LEMMA OneNamed ==
  ASSUME NEW recs, NEW s, NEW units, NEW name, Says(recs, s, units, name), NEW form,
         NEW p, Saying(units, form) = {p}
  PROVE  IdsSaying(recs, s, form) = {name[p]}
<1> DEFINE of(q) == <<name[q], units[q].text, units[q].ctx>>
           S == {x \in Occurrences(recs, s) : Form[x[2]] = form}
<1>1. /\ p \in DOMAIN units /\ Form[units[p].text] = form
      /\ \A q \in DOMAIN units : Form[units[q].text] = form => q = p
  BY DEF Saying
<1>2. Occurrences(recs, s) = {of(q) : q \in DOMAIN units}
  BY OccurrencesAreSayings DEF Says
<1>3. of(p) \in S /\ of(p)[1] = name[p]
  BY <1>2, <1>1
<1>4. \A x \in S : x[1] = name[p]
  <2> SUFFICES ASSUME NEW q \in DOMAIN units, of(q) \in S
               PROVE  of(q)[1] = name[p]
    BY <1>2
  <2>1. Form[units[q].text] = form
    OBVIOUS
  <2>2. q = p
    BY <1>1, <2>1
  <2> QED
    BY <2>2
<1> HIDE DEF S, of
<1>5. {o[1] : o \in S} = {name[p]}
  BY <1>3, <1>4
<1> QED
  BY <1>5 DEF S, IdsSaying

\* A claim whose form occurs once in a session, before and after, keeps its id.
THEOREM ReassertedClaimsKeepIds == Spec => ReassertedKeepsId
<1>1. ASSUME IInv, Next
      PROVE  KeepsLoneIds
  <2>1. PICK r \in Sessions : \E units \in Extractions(r) : Ingest(r, units)
    BY <1>1 DEF Next
  <2>2. PICK units \in Extractions(r) : Ingest(r, units)
    BY <2>1
  <2>3. Ingested(r, units)
    BY <1>1, <2>2, IngestFacts
  <2>4. latest \in [Sessions -> Seq(UnitType)] /\ latest' = [latest EXCEPT ![r] = units]
    BY <1>1, <2>3 DEF IInv, Ingested
  <2> SUFFICES ASSUME NEW s \in Sessions, NEW t \in Texts,
                      Cardinality(Saying(latest[s], Form[t])) = 1,
                      Cardinality(Saying(latest'[s], Form[t])) = 1
               PROVE  IdsSaying(records', s, Form[t]) = IdsSaying(records, s, Form[t])
    BY DEF KeepsLoneIds
  <2>5. CASE s # r
    <3>1. Sayings(records', s) = Sayings(records, s)
      BY <2>3, <2>5 DEF Ingested
    <3>2. Occurrences(records', s) = Occurrences(records, s)
      BY <3>1, OccurrencesAreSayings
    <3> QED
      BY <3>2 DEF IdsSaying
  <2>6. CASE s = r
    <3> DEFINE form == Form[t]
               old == latest[s]
    <3>1. latest'[s] = units
      BY <2>4, <2>6
    <3>2. old \in Seq(UnitType) /\ units \in Seq(UnitType)
      BY <2>4, <2>6, ExtractionsAreUnits
    <3>3. IsFiniteSet(Saying(old, form)) /\ IsFiniteSet(Saying(units, form))
      <4>1. ASSUME NEW us \in Seq(UnitType)
            PROVE  IsFiniteSet(Saying(us, form))
        <5>1. DOMAIN us = 1 .. Len(us) /\ Len(us) \in Nat
          OBVIOUS
        <5>2. IsFiniteSet(1 .. Len(us))
          BY <5>1, FS_Interval
        <5>3. Saying(us, form) \subseteq 1 .. Len(us)
          BY <5>1 DEF Saying
        <5> QED
          BY <5>2, <5>3, FS_Subset
      <4> QED
        BY <3>2, <4>1
    <3>4. \E x : Saying(old, form) = {x}
      BY <3>3, FS_Singleton
    <3>5. \E x : Saying(units, form) = {x}
      <4>1. Cardinality(Saying(units, form)) = 1
        BY <3>1
      <4> QED
        BY <3>3, <4>1, FS_Singleton
    <3>6. PICK p : Saying(old, form) = {p}
      BY <3>4
    <3>7. PICK q : Saying(units, form) = {q}
      BY <3>5
    <3>8. /\ p \in DOMAIN old /\ Form[old[p].text] = form
          /\ \A x \in DOMAIN old : Form[old[x].text] = form => x = p
      BY <3>6 DEF Saying
    <3>9. /\ q \in DOMAIN units /\ Form[units[q].text] = form
          /\ \A x \in DOMAIN units : Form[units[x].text] = form => x = q
      BY <3>7 DEF Saying
    <3>10. PICK name \in [DOMAIN old -> Id] : Says(records, s, old, name)
      BY <1>1 DEF IInv, Faithful
    <3>11. PICK new \in [DOMAIN units -> Id] :
              /\ Says(records', s, units, new)
              /\ \A x \in DOMAIN units :
                    /\ \A y \in DOMAIN units :
                          Form[units[y].text] = Form[units[x].text] => y = x
                    /\ \E o \in SaidIn(records) :
                          o.from = s /\ Form[o.text] = Form[units[x].text]
                    => TakesOver(s, new[x], units[x])
      BY <2>3, <2>6 DEF Ingested, Named
    <3> HIDE DEF form, old
    <3>12. IdsSaying(records, s, form) = {name[p]}
      BY <3>6, <3>10, OneNamed
    <3>13. IdsSaying(records', s, form) = {new[q]}
      <4>1. Says(records', s, units, new) /\ Saying(units, form) = {q}
        BY <3>7, <3>11
      <4> QED
        BY ONLY <4>1, OneNamed
    <3>14. \E o \in SaidIn(records) : o.from = s /\ Form[o.text] = form
      <4> DEFINE x == <<name[p], old[p].text, old[p].ctx>>
      <4>1. x \in Sayings(records, s)
        BY <3>8, <3>10 DEF Says
      <4>2. PICK o \in SaidIn(records) : o.from = s /\ x = <<o.id, o.text, o.ctx>>
        BY <4>1 DEF Sayings
      <4>3. o.text = old[p].text
        BY <4>2
      <4> QED
        BY <3>8, <4>2, <4>3
    <3>15. TakesOver(s, new[q], units[q])
      BY <3>9, <3>11, <3>14
    <3>16. PICK o \in SaidIn(records) : o.from = s /\ o.id = new[q] /\ Form[o.text] = form
      BY <3>9, <3>15 DEF TakesOver
    <3>17. new[q] \in IdsSaying(records, s, form)
      <4> DEFINE x == <<o.id, o.text, o.ctx>>
      <4>1. x \in Sayings(records, s) /\ x[1] = new[q] /\ Form[x[2]] = form
        BY <3>16 DEF Sayings
      <4> HIDE DEF x
      <4> QED
        BY <4>1, OccurrencesAreSayings DEF IdsSaying
    <3> QED
      BY <3>12, <3>13, <3>17 DEF form
  <2> QED
    BY <2>5, <2>6
<1>2. IInv /\ [Next]_vars => [KeepsLoneIds]_vars
  BY <1>1
<1> QED
  BY <1>2, Invariance, PTL DEF Spec, ReassertedKeepsId
=============================================================================
