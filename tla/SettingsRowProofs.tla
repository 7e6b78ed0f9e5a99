-------------------------- MODULE SettingsRowProofs -------------------------
(***************************************************************************)
(* The merge of packages/core/src/sync/field-order.ts is the join of a     *)
(* total order on fields, for every revision, step and value; and what the *)
(* operators of SettingsRow return, for every document, request and row.   *)
(* SettingsStoreProofs and SettingsSyncProofs rest on these facts.         *)
(***************************************************************************)
EXTENDS SettingsRow, TLAPS

-----------------------------------------------------------------------------
(* The order of one field                                                  *)

(***************************************************************************)
(* Merging is closed: the winner is one of the two fields.                 *)
(***************************************************************************)
LEMMA MergeChooses ==
    ASSUME NEW a \in OrderedField, NEW b \in OrderedField
    PROVE  /\ Merge(a, b) \in {a, b}
           /\ Merge(a, b) \in OrderedField
  BY DEF Merge

(***************************************************************************)
(* A field merged with itself is itself: a duplicate delivery of an        *)
(* operation changes nothing.                                              *)
(***************************************************************************)
LEMMA MergeIdempotent ==
    ASSUME NEW a \in OrderedField
    PROVE  Merge(a, a) = a
  BY DEF Merge

(***************************************************************************)
(* Equal stamps and equal values are equal fields.                         *)
(***************************************************************************)
LEMMA SameFieldEqual ==
    ASSUME NEW a \in OrderedField, NEW b \in OrderedField,
           SameOrder(a, b), a.value = b.value
    PROVE  a = b
  BY DEF SameOrder, OrderedField

(***************************************************************************)
(* Any two fields are ordered one way or the other, or share their stamp.  *)
(***************************************************************************)
LEMMA StampsTotal ==
    ASSUME NEW a \in OrderedField, NEW b \in OrderedField
    PROVE  /\ SameOrder(a, b) \/ Outranks(a, b) \/ Outranks(b, a)
           /\ ~(Outranks(a, b) /\ Outranks(b, a))
           /\ ~(SameOrder(a, b) /\ Outranks(a, b))
  BY DEF SameOrder, Outranks, OrderedField

(***************************************************************************)
(* Both sides of an exchange choose the same winner, whichever of them     *)
(* merges: device and server agree without a message.                      *)
(***************************************************************************)
THEOREM MergeCommutative ==
    ASSUME NEW a \in OrderedField, NEW b \in OrderedField
    PROVE  Merge(a, b) = Merge(b, a)
<1>1. CASE SameOrder(a, b)
  <2>1. SameOrder(b, a)
    BY <1>1 DEF SameOrder
  <2>2. CASE a.value = b.value
    BY <2>2, <1>1, SameFieldEqual
  <2>3. CASE a.value # b.value
    <3>1. a.value \in BOOLEAN /\ b.value \in BOOLEAN
      BY DEF OrderedField
    <3>2. a.value = ~b.value
      BY <2>3, <3>1
    <3> QED
      BY <1>1, <2>1, <3>1, <3>2 DEF Merge
  <2> QED
    BY <2>2, <2>3
<1>2. CASE ~SameOrder(a, b)
  <2>1. ~SameOrder(b, a)
    BY <1>2 DEF SameOrder
  <2>2. Outranks(a, b) <=> ~Outranks(b, a)
    BY <1>2, StampsTotal
  <2> QED
    BY <1>2, <2>1, <2>2 DEF Merge
<1> QED
  BY <1>1, <1>2

(***************************************************************************)
(* What absorption means: a later stamp, or the same one and not On over   *)
(* Off.                                                                    *)
(***************************************************************************)
LEMMA AbsorbedMeans ==
    ASSUME NEW a \in OrderedField, NEW b \in OrderedField
    PROVE  Absorbed(a, b) <=>
             \/ Outranks(b, a)
             \/ SameOrder(a, b) /\ (b.value => a.value)
<1> USE DEF Absorbed
<1>1. CASE SameOrder(a, b)
  <2>1. ~Outranks(b, a)
    BY <1>1 DEF SameOrder, Outranks, OrderedField
  <2>2. CASE a.value
    BY <1>1, <2>2 DEF Merge
  <2>3. CASE ~a.value
    <3>1. Merge(a, b) = a
      BY <1>1, <2>3 DEF Merge
    <3>2. a.value \in BOOLEAN /\ b.value \in BOOLEAN
      BY DEF OrderedField
    <3>3. CASE b.value
      BY <1>1, <2>1, <2>3, <3>1, <3>3
    <3>4. CASE ~b.value
      <4>1. a.value = b.value
        BY <2>3, <3>2, <3>4
      <4>2. a = b
        BY <1>1, <4>1, SameFieldEqual
      <4> QED
        BY <1>1, <3>1, <3>4, <4>2
    <3> QED
      BY <3>3, <3>4
  <2> QED
    BY <2>2, <2>3
<1>2. CASE ~SameOrder(a, b) /\ Outranks(a, b)
  <2>1. ~Outranks(b, a)
    BY <1>2, StampsTotal
  <2>2. Merge(a, b) = a /\ a # b
    BY <1>2 DEF Merge, SameOrder
  <2> QED
    BY <1>2, <2>1, <2>2
<1>3. CASE ~SameOrder(a, b) /\ ~Outranks(a, b)
  <2>1. Outranks(b, a)
    BY <1>3, StampsTotal
  <2>2. Merge(a, b) = b
    BY <1>3 DEF Merge
  <2> QED
    BY <2>1, <2>2
<1> QED
  BY <1>1, <1>2, <1>3

(***************************************************************************)
(* Stamps are ordered transitively, ties included.                         *)
(***************************************************************************)
LEMMA StampsTransitive ==
    ASSUME NEW a \in OrderedField, NEW b \in OrderedField, NEW c \in OrderedField
    PROVE  /\ Outranks(b, a) /\ Outranks(c, b) => Outranks(c, a)
           /\ SameOrder(a, b) /\ Outranks(c, b) => Outranks(c, a)
           /\ Outranks(b, a) /\ SameOrder(b, c) => Outranks(c, a)
           /\ SameOrder(a, b) /\ SameOrder(b, c) => SameOrder(a, c)
  BY DEF SameOrder, Outranks, OrderedField

(***************************************************************************)
(* Absorption is a partial order: a field that was overtaken stays         *)
(* overtaken by everything that overtakes its successor.                   *)
(***************************************************************************)
THEOREM AbsorbedOrder ==
    ASSUME NEW a \in OrderedField, NEW b \in OrderedField, NEW c \in OrderedField
    PROVE  /\ Absorbed(a, a)
           /\ Absorbed(a, b) /\ Absorbed(b, a) => a = b
           /\ Absorbed(a, b) /\ Absorbed(b, c) => Absorbed(a, c)
<1>1. Absorbed(a, a)
  BY MergeIdempotent DEF Absorbed
<1>2. Absorbed(a, b) /\ Absorbed(b, a) => a = b
  BY MergeCommutative DEF Absorbed
<1>3. Absorbed(a, b) /\ Absorbed(b, c) => Absorbed(a, c)
  BY AbsorbedMeans, StampsTransitive, Zenon
<1> QED
  BY <1>1, <1>2, <1>3

(***************************************************************************)
(* The merge is the least upper bound: it absorbs both fields, and         *)
(* whatever absorbs both of them absorbs it.                               *)
(***************************************************************************)
THEOREM MergeIsJoin ==
    ASSUME NEW a \in OrderedField, NEW b \in OrderedField
    PROVE  /\ Absorbed(a, Merge(a, b))
           /\ Absorbed(b, Merge(a, b))
           /\ \A c \in OrderedField :
                 Absorbed(a, c) /\ Absorbed(b, c) => Absorbed(Merge(a, b), c)
<1>1. Merge(a, b) = a \/ Merge(a, b) = b
  BY MergeChooses
<1>2. CASE Merge(a, b) = a
  <2>1. Absorbed(b, a)
    BY <1>2, MergeCommutative DEF Absorbed
  <2> QED
    BY <1>2, <2>1, AbsorbedOrder
<1>3. CASE Merge(a, b) = b
  <2>1. Absorbed(a, b)
    BY <1>3 DEF Absorbed
  <2> QED
    BY <1>3, <2>1, AbsorbedOrder
<1> QED
  BY <1>1, <1>2, <1>3

(***************************************************************************)
(* The order of arrival does not matter.                                   *)
(***************************************************************************)
THEOREM MergeAssociative ==
    ASSUME NEW a \in OrderedField, NEW b \in OrderedField, NEW c \in OrderedField
    PROVE  Merge(Merge(a, b), c) = Merge(a, Merge(b, c))
<1> DEFINE l == Merge(Merge(a, b), c)
           r == Merge(a, Merge(b, c))
<1>1. /\ Merge(a, b) \in OrderedField /\ Merge(b, c) \in OrderedField
      /\ l \in OrderedField /\ r \in OrderedField
  BY MergeChooses
<1>2. Absorbed(a, l) /\ Absorbed(b, l) /\ Absorbed(c, l)
  <2>1. Absorbed(Merge(a, b), l) /\ Absorbed(c, l)
    BY <1>1, MergeIsJoin
  <2>2. Absorbed(a, Merge(a, b)) /\ Absorbed(b, Merge(a, b))
    BY MergeIsJoin
  <2> HIDE DEF l
  <2> QED
    BY <1>1, <2>1, <2>2, AbsorbedOrder
<1>3. Absorbed(a, r) /\ Absorbed(b, r) /\ Absorbed(c, r)
  <2>1. Absorbed(Merge(b, c), r) /\ Absorbed(a, r)
    BY <1>1, MergeIsJoin
  <2>2. Absorbed(b, Merge(b, c)) /\ Absorbed(c, Merge(b, c))
    BY MergeIsJoin
  <2> HIDE DEF r
  <2> QED
    BY <1>1, <2>1, <2>2, AbsorbedOrder
<1>4. Absorbed(l, r)
  <2>1. Absorbed(Merge(a, b), r)
    BY <1>1, <1>3, MergeIsJoin
  <2> QED
    BY <1>1, <1>3, <2>1, MergeIsJoin
<1>5. Absorbed(r, l)
  <2>1. Absorbed(Merge(b, c), l)
    BY <1>1, <1>2, MergeIsJoin
  <2> QED
    BY <1>1, <1>2, <2>1, MergeIsJoin
<1> QED
  BY <1>1, <1>4, <1>5, AbsorbedOrder

(***************************************************************************)
(* A deliberate choice that allocates a stamp is well typed and strictly   *)
(* outranks the field it changes, so nothing older can win over it.        *)
(***************************************************************************)
THEOREM EditWins ==
    ASSUME NEW prior \in OrderedField, NEW ack \in Nat, NEW v \in BOOLEAN,
           EditStatus(prior, ack, v) = "edited"
    PROVE  /\ Edited(prior, ack, v) \in OrderedField
           /\ Edited(prior, ack, v).step >= 1
           /\ Outranks(Edited(prior, ack, v), prior)
<1>1. ack >= prior.base /\ ~(ack = prior.base /\ prior.step = MaxStep)
  BY DEF EditStatus, OrderedField
<1>2. ack > prior.base \/ (ack = prior.base /\ prior.step < MaxStep)
  BY <1>1, MaxStepAssumption DEF OrderedField
<1> QED
  BY <1>2, MaxStepAssumption DEF Edited, OrderedField, Outranks

(***************************************************************************)
(* A choice leaves the journal exactly when the account absorbs it.        *)
(***************************************************************************)
THEOREM AckRetiresAbsorbed ==
    ASSUME NEW p \in OrderedField, NEW c \in OrderedField
    PROVE  SurvivesAck(p, c) <=> ~Absorbed(p, c)
<1>1. Merge(p, c) \in {p, c}
  BY MergeChooses
<1>2. p = c => Merge(p, c) = c
  BY MergeIdempotent
<1> QED
  BY <1>1, <1>2 DEF SurvivesAck, Absorbed

-----------------------------------------------------------------------------
(* Documents, requests and rows                                            *)

(***************************************************************************)
(* An operation is a field whose step is at least one.                     *)
(***************************************************************************)
LEMMA OperationType ==
    ASSUME NEW o \in OpSets, NEW f \in DOMAIN o
    PROVE  f \in Fields /\ o[f] \in Operation /\ o[f] \in OrderedField
  BY OpSetsAssumption, MaxStepAssumption DEF Operation, OrderedField

(***************************************************************************)
(* Applying a request to a document gives a document, field by field.      *)
(***************************************************************************)
LEMMA ApplyType ==
    ASSUME NEW d \in Doc, NEW o \in OpSets
    PROVE  /\ Apply(d, o) \in Doc
           /\ \A f \in Fields :
                Apply(d, o)[f] = IF f \in DOMAIN o THEN Merge(d[f], o[f]) ELSE d[f]
<1>1. \A f \in Fields : d[f] \in OrderedField
  BY DEF Doc
<1>2. \A f \in DOMAIN o : Merge(d[f], o[f]) \in OrderedField
  BY <1>1, OperationType, MergeChooses
<1> QED
  BY <1>1, <1>2 DEF Apply, Doc

(***************************************************************************)
(* No field of a document loses rank to a request.                         *)
(***************************************************************************)
LEMMA ApplyAbsorbs ==
    ASSUME NEW d \in Doc, NEW o \in OpSets, NEW f \in Fields
    PROVE  Absorbed(d[f], Apply(d, o)[f])
<1>1. d[f] \in OrderedField
  BY DEF Doc
<1>2. CASE f \in DOMAIN o
  BY <1>1, <1>2, OperationType, ApplyType, MergeIsJoin
<1>3. CASE f \notin DOMAIN o
  BY <1>1, <1>3, ApplyType, AbsorbedOrder
<1> QED
  BY <1>2, <1>3

(***************************************************************************)
(* A request is part of a document exactly when every operation of it is   *)
(* absorbed there.                                                         *)
(***************************************************************************)
LEMMA ApplyFixed ==
    ASSUME NEW d \in Doc, NEW o \in OpSets
    PROVE  Apply(d, o) = d <=> \A f \in DOMAIN o : Absorbed(o[f], d[f])
<1>1. \A f \in DOMAIN o : /\ f \in Fields
                          /\ o[f] \in OrderedField
                          /\ d[f] \in OrderedField
  BY OperationType DEF Doc
<1>2. \A f \in DOMAIN o : Merge(d[f], o[f]) = Merge(o[f], d[f])
  BY <1>1, MergeCommutative
<1>3. Apply(d, o) = d <=> \A f \in Fields : Apply(d, o)[f] = d[f]
  BY ApplyType DEF Doc
<1>4. (\A f \in Fields : Apply(d, o)[f] = d[f])
        <=> \A f \in DOMAIN o : Merge(d[f], o[f]) = d[f]
  BY <1>1, ApplyType
<1> QED
  BY <1>2, <1>3, <1>4 DEF Absorbed

(***************************************************************************)
(* A request that was applied once changes nothing when it comes again.    *)
(***************************************************************************)
LEMMA ApplyTwice ==
    ASSUME NEW d \in Doc, NEW o \in OpSets
    PROVE  Apply(Apply(d, o), o) = Apply(d, o)
<1> DEFINE e == Apply(d, o)
<1>1. e \in Doc
  BY ApplyType
<1>2. ASSUME NEW f \in DOMAIN o PROVE Absorbed(o[f], e[f])
  <2>1. f \in Fields /\ o[f] \in OrderedField /\ d[f] \in OrderedField
    BY OperationType DEF Doc
  <2>2. e[f] = Merge(d[f], o[f])
    BY <2>1, ApplyType
  <2> QED
    BY <2>1, <2>2, MergeIsJoin
<1> HIDE DEF e
<1>3. Apply(e, o) = e
  BY <1>1, <1>2, ApplyFixed
<1> QED
  BY <1>3 DEF e

(***************************************************************************)
(* What is part of a document stays part of it whatever is applied next.   *)
(***************************************************************************)
LEMMA ApplyKeeps ==
    ASSUME NEW d \in Doc, NEW o \in OpSets, NEW p \in OpSets, Apply(d, p) = d
    PROVE  Apply(Apply(d, o), p) = Apply(d, o)
<1> DEFINE e == Apply(d, o)
<1>1. e \in Doc
  BY ApplyType
<1>2. ASSUME NEW f \in DOMAIN p PROVE Absorbed(p[f], e[f])
  <2>1. /\ f \in Fields
        /\ p[f] \in OrderedField /\ d[f] \in OrderedField /\ e[f] \in OrderedField
    BY <1>1, OperationType DEF Doc
  <2>2. Absorbed(p[f], d[f])
    BY ApplyFixed
  <2>3. Absorbed(d[f], e[f])
    BY <2>1, ApplyAbsorbs
  <2> HIDE DEF e
  <2> QED
    BY <2>1, <2>2, <2>3, AbsorbedOrder
<1> HIDE DEF e
<1>3. Apply(e, p) = e
  BY <1>1, <1>2, ApplyFixed
<1> QED
  BY <1>3 DEF e
(***************************************************************************)
(* Every row reads as a document, at a natural revision.                   *)
(***************************************************************************)
LEMMA RevisionType ==
    ASSUME NEW r \in Row
    PROVE  Revision(r) \in Nat
  BY DEF Revision, AtLeastOne, Row

(***************************************************************************)
(* The bundled defaults are a document, unstamped.                         *)
(***************************************************************************)
LEMMA FreshDocType == FreshDoc \in Doc
  BY FieldsAssumption, MaxStepAssumption DEF FreshDoc, Doc, OrderedField

(***************************************************************************)
(* The lazy migration of a schema-1 document is a document.                *)
(***************************************************************************)
LEMMA MigratedType ==
    ASSUME NEW values \in LegacyDoc, NEW n \in Nat
    PROVE  MigratedLegacy(values, n) \in Doc
<1>1. ASSUME NEW f \in Fields
      PROVE  MigratedLegacy(values, n)[f] \in OrderedField
  <2>1. CASE f \in LegacyFields
    <3>1. MigratedLegacy(values, n)[f] = [value |-> values[f], base |-> n, step |-> 0]
      BY <2>1 DEF MigratedLegacy
    <3>2. values[f] \in BOOLEAN
      BY <2>1 DEF LegacyDoc
    <3>3. 0 \in 0..MaxStep
      BY MaxStepAssumption
    <3> QED
      BY <3>1, <3>2, <3>3 DEF OrderedField
  <2>2. CASE f \notin LegacyFields
    <3> DEFINE v == f \in DOMAIN Parent /\ values[Parent[f]]
    <3>1. MigratedLegacy(values, n)[f] = [value |-> v, base |-> 0, step |-> 0]
      BY <2>2 DEF MigratedLegacy
    <3>2. v \in BOOLEAN
      BY Zenon
    <3>3. 0 \in 0..MaxStep
      BY MaxStepAssumption
    <3> HIDE DEF v
    <3> QED
      BY <3>1, <3>2, <3>3 DEF OrderedField
  <2> QED
    BY <2>1, <2>2
<1> QED
  BY <1>1 DEF MigratedLegacy, Doc

(***************************************************************************)
(* Whatever the kind of the row, its canonical reading is a document.      *)
(***************************************************************************)
LEMMA CanonicalType ==
    ASSUME NEW r \in Row
    PROVE  Canonical(r) \in Doc
<1>1. r.kind \in {"none", "legacy", "modern"} /\ r.legacy \in LegacyDoc /\ r.doc \in Doc
  BY DEF Row
<1> QED
  BY <1>1, FreshDocType, MigratedType, RevisionType DEF Canonical

(***************************************************************************)
(* The stamps of a row that is not modern: no step was ever allocated, and *)
(* a base other than 0 is that of a supplied field of a schema-1 row.      *)
(***************************************************************************)
LEMMA UnstampedUntilModern ==
    ASSUME NEW r \in Row, r.kind # "modern", NEW f \in Fields
    PROVE  /\ Canonical(r)[f].step = 0
           /\ Canonical(r)[f].base \in {0, Revision(r)}
           /\ Canonical(r)[f].base > 0 =>
                /\ r.kind = "legacy"
                /\ f \in LegacyFields
<1>1. CASE r.kind = "none"
  BY <1>1 DEF Canonical, FreshDoc
<1>2. CASE r.kind = "legacy"
  <2>1. Canonical(r) = MigratedLegacy(r.legacy, Revision(r))
    BY <1>2 DEF Canonical
  <2> QED
    BY <1>2, <2>1 DEF MigratedLegacy
<1> QED
  BY <1>1, <1>2 DEF Row

(***************************************************************************)
(* The answers of syncSettings: each is one of seven.                      *)
(***************************************************************************)
LEMMA StatusCases ==
    ASSUME NEW lineage, NEW r, NEW req
    PROVE  Status(lineage, r, req) \in {"hold", "rejected", "conflict", "error", "ready"}
  BY DEF Status

(***************************************************************************)
(* A commit leaves a well-typed row whose document is the request merged   *)
(* into the old one; its revision moves by one exactly when that differs.  *)
(***************************************************************************)
LEMMA CommittedRow ==
    ASSUME NEW r \in Row, NEW req \in Request
    PROVE  /\ Committed(r, req) \in Row
           /\ Canonical(Committed(r, req)) = Apply(Canonical(r), req.ops)
           /\ Committed(r, req).writes = r.writes
           /\ Changes(r, req) =>
                /\ Revision(Committed(r, req)) = Revision(r) + 1
                /\ Committed(r, req).kind = "modern"
                /\ Committed(r, req).modernUsed
           /\ ~Changes(r, req) => Committed(r, req) = r
<1> DEFINE d == Apply(Canonical(r), req.ops)
           c == [r EXCEPT !.kind = "modern", !.version = Revision(r) + 1,
                          !.doc = d, !.modernUsed = TRUE]
<1>1. req.ops \in OpSets
  BY DEF Request
<1>2. d \in Doc
  BY <1>1, CanonicalType, ApplyType
<1>3. Revision(r) + 1 \in Nat
  BY RevisionType
<1>4. CASE Changes(r, req)
  <2>1. Committed(r, req) = c
    BY <1>4 DEF Committed
  <2> HIDE DEF d
  <2>2. c \in Row
    BY <1>2, <1>3 DEF Row
  <2>3. /\ c.kind = "modern" /\ c.version = Revision(r) + 1
        /\ c.doc = d /\ c.modernUsed /\ c.writes = r.writes
    BY DEF Row
  <2>4. Canonical(c) = d /\ Revision(c) = Revision(r) + 1
    BY <2>3 DEF Canonical, Revision
  <2> QED
    BY <1>4, <2>1, <2>2, <2>3, <2>4 DEF d
<1>5. CASE ~Changes(r, req)
  BY <1>5 DEF Committed, Changes
<1> QED
  BY <1>4, <1>5

(***************************************************************************)
(* Keeping, adding or dropping identities touches nothing else of a row.   *)
(***************************************************************************)
LEMMA WithWrites ==
    ASSUME NEW r \in Row, NEW ws \in SUBSET [req : Request, old : BOOLEAN]
    PROVE  /\ [r EXCEPT !.writes = ws] \in Row
           /\ [r EXCEPT !.writes = ws].writes = ws
           /\ [r EXCEPT !.writes = ws].kind = r.kind
           /\ [r EXCEPT !.writes = ws].version = r.version
           /\ [r EXCEPT !.writes = ws].modernUsed = r.modernUsed
           /\ Revision([r EXCEPT !.writes = ws]) = Revision(r)
           /\ Canonical([r EXCEPT !.writes = ws]) = Canonical(r)
<1> DEFINE s == [r EXCEPT !.writes = ws]
<1>1. s \in Row
  BY DEF Row
<1>2. /\ s.writes = ws /\ s.kind = r.kind /\ s.version = r.version
      /\ s.legacy = r.legacy /\ s.doc = r.doc /\ s.modernUsed = r.modernUsed
  BY DEF Row
<1> HIDE DEF s
<1>3. Revision(s) = Revision(r)
  BY <1>2 DEF Revision
<1>4. Canonical(s) = Canonical(r)
  BY <1>2, <1>3 DEF Canonical
<1> QED
  BY <1>1, <1>2, <1>3, <1>4 DEF s
(***************************************************************************)
(* What "ready" guarantees: a receipt of this account that is not ahead,   *)
(* admitted bases, a claim that is new or a repetition, and room for one   *)
(* more revision if the document changes.                                  *)
(***************************************************************************)
LEMMA ReadyMeans ==
    ASSUME NEW lineage, NEW r, NEW req, Status(lineage, r, req) = "ready"
    PROVE  /\ ReceiptVerified(lineage, r, req)
           /\ BasesAdmitted(req)
           /\ Claim(r, req) \in {"new", "duplicate"}
           /\ Claim(r, req) = "new" /\ Changes(r, req) => Revision(r) # MaxRevision
<1>1. Claim(r, req) \in {"new", "duplicate", "conflict", "full"}
  BY DEF Claim
<1> QED
  BY <1>1 DEF Status

(***************************************************************************)
(* A transaction of the settings function is one of two things: a new      *)
(* request committed and remembered, or nothing but forgotten identities.  *)
(***************************************************************************)
LEMMA RowAfterCases ==
    ASSUME NEW lineage, NEW r \in Row, NEW req \in Request
    PROVE  \/ /\ Status(lineage, r, req) = "ready"
              /\ Claim(r, req) = "new"
              /\ RowAfter(lineage, r, req) =
                   [Committed(r, req) EXCEPT
                      !.writes = Retained(r) \union {[req |-> req, old |-> FALSE]}]
           \/ /\ Status(lineage, r, req) = "ready" => Claim(r, req) = "duplicate"
              /\ \/ RowAfter(lineage, r, req) = r
                 \/ RowAfter(lineage, r, req) = [r EXCEPT !.writes = Retained(r)]
<1> DEFINE st == Status(lineage, r, req)
           row2 == RowAfter(lineage, r, req)
<1>1. CASE st \in {"hold", "rejected", "error"}
  <2>1. row2 = r
    BY <1>1 DEF RowAfter
  <2> QED
    BY <1>1, <2>1
<1>2. CASE st = "conflict"
  <2>1. row2 = [r EXCEPT !.writes = Retained(r)]
    BY <1>2 DEF RowAfter
  <2> QED
    BY <1>2, <2>1
<1>3. CASE st = "ready" /\ Claim(r, req) = "new"
  BY <1>3 DEF RowAfter
<1>4. CASE st = "ready" /\ Claim(r, req) # "new"
  <2>1. row2 = [r EXCEPT !.writes = Retained(r)]
    BY <1>4 DEF RowAfter
  <2>2. Claim(r, req) = "duplicate"
    BY <1>4, ReadyMeans
  <2> QED
    BY <2>1, <2>2
<1> QED
  BY <1>1, <1>2, <1>3, <1>4, StatusCases

(***************************************************************************)
(* The effect of a transaction on what the account's clients can see.      *)
(***************************************************************************)
LEMMA RowAfterEffect ==
    ASSUME NEW lineage, NEW r \in Row, NEW req \in Request
    PROVE  LET row2 == RowAfter(lineage, r, req)
               st == Status(lineage, r, req)
           IN  /\ row2 \in Row
               /\ \A w \in row2.writes : w \in r.writes \/ (st = "ready" /\ w.req = req)
               /\ \/ /\ Canonical(row2) = Canonical(r)
                     /\ Revision(row2) = Revision(r)
                     /\ row2.kind = r.kind
                     /\ row2.modernUsed = r.modernUsed
                  \/ /\ st = "ready" /\ Claim(r, req) = "new" /\ Changes(r, req)
                     /\ Revision(row2) = Revision(r) + 1
                     /\ row2.kind = "modern"
                     /\ row2.modernUsed
               /\ st = "ready" =>
                    \/ Canonical(row2) = Apply(Canonical(r), req.ops)
                    \/ /\ Canonical(row2) = Canonical(r)
                       /\ \E w \in r.writes : w.req = req
<1> DEFINE row2 == RowAfter(lineage, r, req)
           st == Status(lineage, r, req)
           ws == Retained(r) \union {[req |-> req, old |-> FALSE]}
           c == Committed(r, req)
<1>1. /\ r.writes \in SUBSET [req : Request, old : BOOLEAN]
      /\ Retained(r) \in SUBSET [req : Request, old : BOOLEAN]
      /\ Retained(r) \subseteq r.writes
      /\ ws \in SUBSET [req : Request, old : BOOLEAN]
  <2>1. r.writes \in SUBSET [req : Request, old : BOOLEAN]
    BY DEF Row
  <2>2. Retained(r) \subseteq r.writes
    BY DEF Retained
  <2>3. [req |-> req, old |-> FALSE] \in [req : Request, old : BOOLEAN]
    OBVIOUS
  <2> QED
    BY <2>1, <2>2, <2>3
<1>2. CASE st = "ready" /\ Claim(r, req) = "new" /\ row2 = [c EXCEPT !.writes = ws]
  <2>1. /\ c \in Row
        /\ Canonical(c) = Apply(Canonical(r), req.ops)
        /\ Changes(r, req) => /\ Revision(c) = Revision(r) + 1
                              /\ c.kind = "modern"
                              /\ c.modernUsed
        /\ ~Changes(r, req) => c = r
    BY CommittedRow
  <2> HIDE DEF c
  <2>2. /\ row2 \in Row /\ row2.writes = ws /\ row2.kind = c.kind
        /\ row2.modernUsed = c.modernUsed /\ Revision(row2) = Revision(c)
        /\ Canonical(row2) = Canonical(c)
    BY <1>1, <1>2, <2>1, WithWrites
  <2>3. \A w \in ws : w \in r.writes \/ w.req = req
    BY <1>1
  <2> HIDE DEF row2, ws, st
  <2>4. CASE Changes(r, req)
    BY <1>2, <2>1, <2>2, <2>3, <2>4 DEF row2, st
  <2>5. CASE ~Changes(r, req)
    BY <1>2, <2>1, <2>2, <2>3, <2>5 DEF row2, st
  <2> QED
    BY <2>4, <2>5
<1>3. CASE /\ st = "ready" => Claim(r, req) = "duplicate"
           /\ row2 = r \/ row2 = [r EXCEPT !.writes = Retained(r)]
  <2>1. /\ row2 \in Row /\ row2.writes \subseteq r.writes /\ row2.kind = r.kind
        /\ row2.modernUsed = r.modernUsed /\ Revision(row2) = Revision(r)
        /\ Canonical(row2) = Canonical(r)
    <3>1. CASE row2 = r
      BY <3>1
    <3>2. CASE row2 = [r EXCEPT !.writes = Retained(r)]
      <4> HIDE DEF row2
      <4> QED
        BY <1>1, <3>2, WithWrites
    <3> QED
      BY <1>3, <3>1, <3>2
  <2>2. Claim(r, req) = "duplicate" => \E w \in r.writes : w.req = req
    BY <1>1 DEF Claim
  <2> HIDE DEF row2, st
  <2> QED
    BY <1>3, <2>1, <2>2 DEF row2, st
<1>4. \/ st = "ready" /\ Claim(r, req) = "new" /\ row2 = [c EXCEPT !.writes = ws]
      \/ /\ st = "ready" => Claim(r, req) = "duplicate"
         /\ row2 = r \/ row2 = [r EXCEPT !.writes = Retained(r)]
  BY RowAfterCases, Zenon
<1> QED
  BY <1>2, <1>3, <1>4, Zenon

(***************************************************************************)
(* A whole-document write gives a well-typed schema-1 row, at a revision   *)
(* that is not lower, whose document is the migration of its values.       *)
(***************************************************************************)
LEMMA LegacyWrittenEffect ==
    ASSUME NEW r \in Row, r.kind # "modern", NEW values \in LegacyDoc
    PROVE  LET row2 == LegacyWritten(r, values)
           IN  /\ row2 \in Row
               /\ row2.kind = "legacy"
               /\ row2.modernUsed = r.modernUsed
               /\ row2.writes = r.writes
               /\ Revision(row2) = IF r.kind = "none" THEN 1 ELSE r.version + 1
               /\ Revision(r) <= Revision(row2)
<1> DEFINE row2 == LegacyWritten(r, values)
           n == IF r.kind = "none" THEN 1 ELSE r.version + 1
<1>1. r.version \in Nat /\ r.kind \in {"none", "legacy"}
  BY DEF Row
<1>2. n \in Nat \ {0}
  BY <1>1
<1>3. row2 = [r EXCEPT !.kind = "legacy", !.legacy = values, !.version = n]
  BY DEF LegacyWritten
<1> HIDE DEF n
<1>4. row2 \in Row
  BY <1>2, <1>3 DEF Row
<1>5. /\ row2.kind = "legacy" /\ row2.version = n
      /\ row2.modernUsed = r.modernUsed /\ row2.writes = r.writes
  BY <1>3 DEF Row
<1>6. Revision(row2) = n
  BY <1>2, <1>5 DEF Revision, AtLeastOne
<1>7. Revision(r) <= n
  BY <1>1 DEF n, Revision, AtLeastOne
<1> HIDE DEF row2
<1> QED
  BY <1>4, <1>5, <1>6, <1>7 DEF row2, n

(***************************************************************************)
(* A transaction that leaves the row other than modern leaves its version. *)
(***************************************************************************)
LEMMA RowVersionKept ==
    ASSUME NEW lineage, NEW r \in Row, NEW req \in Request,
           RowAfter(lineage, r, req).kind # "modern"
    PROVE  RowAfter(lineage, r, req).version = r.version
<1> DEFINE row2 == RowAfter(lineage, r, req)
           ws == Retained(r) \union {[req |-> req, old |-> FALSE]}
           c == Committed(r, req)
<1>1. CASE row2 = [c EXCEPT !.writes = ws]
  <2>1. r.writes \in SUBSET [req : Request, old : BOOLEAN]
    BY DEF Row
  <2>2. ws \in SUBSET [req : Request, old : BOOLEAN]
    <3>1. Retained(r) \subseteq r.writes
      BY DEF Retained
    <3>2. [req |-> req, old |-> FALSE] \in [req : Request, old : BOOLEAN]
      OBVIOUS
    <3> QED
      BY <2>1, <3>1, <3>2
  <2>3. c \in Row /\ (Changes(r, req) => c.kind = "modern") /\ (~Changes(r, req) => c = r)
    BY CommittedRow
  <2> HIDE DEF c, ws
  <2>4. row2.kind = c.kind /\ row2.version = c.version
    BY <1>1, <2>2, <2>3, WithWrites
  <2> QED
    BY <2>3, <2>4
<1>2. CASE row2 = r
  BY <1>2
<1>3. CASE row2 = [r EXCEPT !.writes = Retained(r)]
  <2>1. Retained(r) \in SUBSET [req : Request, old : BOOLEAN]
    BY DEF Row, Retained
  <2>2. row2.version = r.version
    BY <1>3, <2>1, WithWrites
  <2> QED
    BY <2>2
<1>4. row2 = [c EXCEPT !.writes = ws] \/ row2 = r \/ row2 = [r EXCEPT !.writes = Retained(r)]
  BY RowAfterCases, Zenon
<1> QED
  BY <1>1, <1>2, <1>3, <1>4

(***************************************************************************)
(* A whole-document write costs no field its rank, and what the row has    *)
(* absorbed stays absorbed: a request it absorbed without becoming modern  *)
(* lies below the revision that the write stamps anew.                     *)
(***************************************************************************)
LEMMA LegacyWrittenRanks ==
    ASSUME NEW r \in Row, r.kind # "modern", NEW values \in LegacyDoc, NEW f \in Fields
    PROVE  LET old == Canonical(r)[f]
               new == Canonical(LegacyWritten(r, values))[f]
           IN  /\ ~Outranks(old, new)
               /\ old.base > 0 => new.base = Revision(LegacyWritten(r, values)) /\ new.step = 0
<1> DEFINE row2 == LegacyWritten(r, values)
           old == Canonical(r)[f]
           new == Canonical(row2)[f]
<1>1. /\ row2 \in Row /\ row2.kind = "legacy"
      /\ Revision(r) <= Revision(row2)
      /\ Revision(r) \in Nat /\ Revision(row2) \in Nat
  BY LegacyWrittenEffect, RevisionType, SMTT(30)
<1>2. /\ old.step = 0 /\ old.base \in {0, Revision(r)}
      /\ old.base > 0 => f \in LegacyFields
  BY UnstampedUntilModern
<1>3. Canonical(row2) = MigratedLegacy(row2.legacy, Revision(row2))
  BY <1>1 DEF Canonical
<1>4. f \in LegacyFields => new.base = Revision(row2) /\ new.step = 0
  BY <1>3 DEF MigratedLegacy
<1>5. new \in OrderedField
  BY <1>1, CanonicalType DEF Doc
<1> HIDE DEF row2, old, new
<1>6. ~Outranks(old, new)
  BY <1>1, <1>2, <1>4, <1>5 DEF Outranks, OrderedField
<1> QED
  BY <1>2, <1>4, <1>6 DEF row2, old, new

(***************************************************************************)
(* What a row that has had no per-field write absorbs anyway, it absorbs   *)
(* after a whole-document write by a 2.x client too.                       *)
(***************************************************************************)
LEMMA LegacyWrittenKeeps ==
    ASSUME NEW r \in Row, r.kind # "modern", NEW values \in LegacyDoc,
           NEW o \in OpSets, Apply(Canonical(r), o) = Canonical(r)
    PROVE  Apply(Canonical(LegacyWritten(r, values)), o) = Canonical(LegacyWritten(r, values))
<1> DEFINE row2 == LegacyWritten(r, values)
<1>1. /\ row2 \in Row /\ Revision(r) <= Revision(row2)
      /\ Revision(r) \in Nat /\ Revision(row2) \in Nat
      /\ Canonical(r) \in Doc /\ Canonical(row2) \in Doc
  BY LegacyWrittenEffect, RevisionType, CanonicalType, SMTT(30)
<1>2. ASSUME NEW f \in DOMAIN o PROVE Absorbed(o[f], Canonical(row2)[f])
  <2> DEFINE op == o[f]
             old == Canonical(r)[f]
             new == Canonical(row2)[f]
  <2>1. /\ f \in Fields /\ op \in OrderedField /\ op.step >= 1
        /\ old \in OrderedField /\ new \in OrderedField
    BY <1>1, OperationType DEF Doc, Operation
  <2>2. Absorbed(op, old)
    BY <1>1, ApplyFixed
  <2>3. old.step = 0 /\ old.base \in {0, Revision(r)}
    BY <2>1, UnstampedUntilModern
  <2>4. old.base > 0 => new.base = Revision(row2) /\ new.step = 0
    BY <2>1, LegacyWrittenRanks
  <2> HIDE DEF op, old, new
  <2>5. Outranks(old, op)
    BY <2>1, <2>2, <2>3, AbsorbedMeans DEF SameOrder
  <2>6. op.base < old.base /\ op.base \in Nat /\ old.base \in Nat
    BY <2>1, <2>3, <2>5 DEF Outranks, OrderedField
  <2>7. Outranks(new, op)
    BY <1>1, <2>3, <2>4, <2>6 DEF Outranks
  <2>8. Absorbed(op, new)
    BY <2>1, <2>7, AbsorbedMeans
  <2> QED
    BY <2>8 DEF op, new
<1> QED
  BY <1>1, <1>2, ApplyFixed
=============================================================================
