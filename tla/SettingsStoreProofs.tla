------------------------- MODULE SettingsStoreProofs ------------------------
(***************************************************************************)
(* The safety properties of SettingsStore, for every set of fields, of     *)
(* write identities and of requests, and every bound.                      *)
(*                                                                         *)
(* RetriesChangeNothing is the invariant of interest.  It is not inductive *)
(* by itself: a repeated request is answered without being applied again,  *)
(* so one needs that a retained identity belongs to an accepted request    *)
(* (BookkeepingAgrees); a whole-document write keeps it because an         *)
(* accepted operation that changed nothing has a base below the revision   *)
(* of the schema-1 row; and bases stay below it because receipts do        *)
(* (ReceiptsStayValid, StampsWithinRevision).                              *)
(***************************************************************************)
EXTENDS SettingsStore, SettingsRowProofs

\* The inductive invariant: RetriesChangeNothing with the four parts it rests on.
IInv ==
    /\ TypeOK
    /\ BookkeepingAgrees
    /\ StampsWithinRevision
    /\ ReceiptsStayValid
    /\ RetriesChangeNothing

(***************************************************************************)
(* An account without a profile starts within the invariant.               *)
(***************************************************************************)
LEMMA StartEmpty ==
    /\ EmptyRow \in Row
    /\ Revision(EmptyRow) = 0
    /\ EmptyRow.kind = "none" /\ ~EmptyRow.modernUsed /\ EmptyRow.writes = {}
<1>1. [f \in LegacyFields |-> FALSE] \in LegacyDoc
  BY DEF LegacyDoc
<1>2. EmptyRow \in Row
  BY <1>1, FreshDocType DEF EmptyRow, Row
<1> QED
  BY <1>2 DEF EmptyRow, Revision

(***************************************************************************)
(* A schema-1 row left by a 2.x client starts within the invariant: its    *)
(* migrated stamps are at its revision, which is at least one.             *)
(***************************************************************************)
LEMMA StartLegacy ==
    ASSUME NEW values \in LegacyDoc, NEW v \in StartVersions
    PROVE  /\ LegacyRow(values, v) \in Row
           /\ Revision(LegacyRow(values, v)) <= MaxRevision
           /\ LegacyRow(values, v).kind = "legacy"
           /\ ~LegacyRow(values, v).modernUsed
           /\ LegacyRow(values, v).writes = {}
<1>1. v \in Nat /\ AtLeastOne(v) <= MaxRevision
  BY StoreBoundsAssumption, BoundsAssumption DEF AtLeastOne
<1>2. LegacyRow(values, v) \in Row
  BY <1>1, StartEmpty DEF LegacyRow, Row
<1>3. /\ LegacyRow(values, v).kind = "legacy"
      /\ LegacyRow(values, v).version = v
      /\ ~LegacyRow(values, v).modernUsed
      /\ LegacyRow(values, v).writes = {}
  BY DEF LegacyRow, EmptyRow
<1> QED
  BY <1>1, <1>2, <1>3 DEF Revision

(***************************************************************************)
(* The invariant holds before the first transaction.                       *)
(***************************************************************************)
LEMMA InitInvariant == Init => IInv
<1> SUFFICES ASSUME Init PROVE IInv
  OBVIOUS
<1>1. issued = {} /\ accepted = {}
  BY DEF Init
<1>2. /\ row \in Row
      /\ row.kind # "modern" /\ ~row.modernUsed /\ row.writes = {}
      /\ Revision(row) <= MaxRevision
  BY StartEmpty, StartLegacy, BoundsAssumption DEF Init
<1>3. TypeOK
  BY <1>1, <1>2 DEF TypeOK
<1>4. BookkeepingAgrees
  BY <1>2 DEF BookkeepingAgrees
<1>5. StampsWithinRevision
  BY <1>2, UnstampedUntilModern, RevisionType DEF StampsWithinRevision
<1> QED
  BY <1>1, <1>3, <1>4, <1>5 DEF IInv, ReceiptsStayValid, RetriesChangeNothing

-----------------------------------------------------------------------------
(* The steps                                                               *)

(***************************************************************************)
(* Merging an admitted request brings in no stamp above the row's          *)
(* revision.                                                               *)
(***************************************************************************)
LEMMA AppliedStamps ==
    ASSUME NEW r \in Row, NEW req \in Request,
           \A f \in Fields : Canonical(r)[f].base <= Revision(r),
           ReceiptVerified(Account, r, req), BasesAdmitted(req)
    PROVE  \A f \in Fields : Apply(Canonical(r), req.ops)[f].base <= Revision(r)
<1> TAKE f \in Fields
<1>1. /\ Canonical(r) \in Doc /\ req.ops \in OpSets
      /\ Revision(r) \in Nat /\ req.revision \in 0..MaxRevision
  BY CanonicalType, RevisionType DEF Request
<1>2. CASE f \in DOMAIN req.ops
  <2>1. req.ops[f] \in OrderedField /\ Canonical(r)[f] \in OrderedField
    BY <1>1, <1>2, OperationType DEF Doc
  <2>2. req.ops[f].base <= Revision(r)
    BY <1>1, <1>2, <2>1 DEF ReceiptVerified, BasesAdmitted
  <2>3. Apply(Canonical(r), req.ops)[f] \in {Canonical(r)[f], req.ops[f]}
    BY <1>1, <1>2, <2>1, ApplyType, MergeChooses
  <2> QED
    BY <2>2, <2>3
<1>3. CASE f \notin DOMAIN req.ops
  BY <1>1, <1>3, ApplyType
<1> QED
  BY <1>2, <1>3

(***************************************************************************)
(* syncSettings with a request preserves the invariant.                    *)
(***************************************************************************)
LEMMA SyncSettingsStep ==
    ASSUME IInv, NEW req \in Requests, SyncSettings(req)
    PROVE  IInv'
<1> DEFINE st == Status(Account, row, req)
<1>1. /\ row \in Row /\ req \in Request /\ req.ops \in OpSets
      /\ issued \in SUBSET (0..MaxRevision) /\ accepted \in SUBSET Request
      /\ Canonical(row) \in Doc /\ Revision(row) \in Nat
  BY CanonicalType, RevisionType DEF IInv, TypeOK, Requests, Request
<1>2. row' = RowAfter(Account, row, req)
  BY DEF SyncSettings
<1>3. /\ row' \in Row
      /\ \A w \in row'.writes : w \in row.writes \/ (st = "ready" /\ w.req = req)
      /\ \/ /\ Canonical(row') = Canonical(row)
            /\ Revision(row') = Revision(row)
            /\ row'.kind = row.kind
            /\ row'.modernUsed = row.modernUsed
         \/ /\ st = "ready" /\ Claim(row, req) = "new" /\ Changes(row, req)
            /\ Revision(row') = Revision(row) + 1
            /\ row'.kind = "modern"
            /\ row'.modernUsed
      /\ st = "ready" =>
           \/ Canonical(row') = Apply(Canonical(row), req.ops)
           \/ /\ Canonical(row') = Canonical(row)
              /\ \E w \in row.writes : w.req = req
  BY <1>1, <1>2, RowAfterEffect, SMTT(30)
<1>4. IF st = "ready"
        THEN accepted' = accepted \union {req} /\ issued' = issued \union {Revision(row')}
        ELSE accepted' = accepted /\ issued' = issued
  BY DEF SyncSettings
<1> HIDE DEF st
<1>5. Revision(row) <= Revision(row') /\ Revision(row') <= MaxRevision
  <2>1. CASE Revision(row') = Revision(row)
    BY <1>1, <2>1 DEF IInv, BookkeepingAgrees
  <2>2. CASE /\ st = "ready" /\ Claim(row, req) = "new" /\ Changes(row, req)
             /\ Revision(row') = Revision(row) + 1
    <3>1. Revision(row) # MaxRevision
      BY <2>2, ReadyMeans DEF st
    <3>2. Revision(row) <= MaxRevision
      BY DEF IInv, BookkeepingAgrees
    <3> QED
      BY <1>1, <2>2, <3>1, <3>2, BoundsAssumption
  <2> QED
    BY <1>3, <2>1, <2>2
<1>6. TypeOK'
  <2>1. Revision(row') \in 0..MaxRevision
    BY <1>3, <1>5, RevisionType, BoundsAssumption
  <2> QED
    BY <1>1, <1>3, <1>4, <2>1 DEF TypeOK
<1>7. BookkeepingAgrees'
  <2>1. row'.modernUsed <=> row'.kind = "modern"
    BY <1>3 DEF IInv, BookkeepingAgrees
  <2>2. \A w \in row'.writes : w.req \in accepted'
    BY <1>3, <1>4 DEF IInv, BookkeepingAgrees
  <2> QED
    BY <1>5, <2>1, <2>2 DEF BookkeepingAgrees
<1>8. StampsWithinRevision'
  <2>1. \A f \in Fields : Canonical(row)[f].base <= Revision(row)
    BY DEF IInv, StampsWithinRevision
  <2>2. CASE Canonical(row') = Canonical(row)
    <3>1. \A f \in Fields : Canonical(row)[f].base \in Nat
      BY <1>1 DEF Doc, OrderedField
    <3> QED
      BY <1>1, <1>5, <2>1, <2>2, <3>1, <1>3, RevisionType DEF StampsWithinRevision
  <2>3. CASE st = "ready" /\ Canonical(row') = Apply(Canonical(row), req.ops)
    <3>1. ReceiptVerified(Account, row, req) /\ BasesAdmitted(req)
      BY <2>3, ReadyMeans DEF st
    <3>2. \A f \in Fields : Canonical(row')[f].base <= Revision(row)
      BY <1>1, <2>1, <2>3, <3>1, AppliedStamps
    <3>3. \A f \in Fields : Canonical(row')[f].base \in Nat
      BY <1>3, CanonicalType DEF Doc, OrderedField
    <3> QED
      BY <1>1, <1>3, <1>5, <3>2, <3>3, RevisionType DEF StampsWithinRevision
  <2> QED
    BY <1>3, <2>2, <2>3
<1>9. ReceiptsStayValid'
  <2>1. \A n \in issued : n \in Nat /\ n <= Revision(row)
    BY <1>1, BoundsAssumption DEF IInv, ReceiptsStayValid
  <2>2. Revision(row') \in Nat
    BY <1>3, RevisionType
  <2>3. ASSUME NEW n \in issued' PROVE n <= Revision(row')
    <3>1. n \in issued \/ n = Revision(row')
      BY <1>4, <2>3
    <3>2. CASE n \in issued
      BY <1>1, <1>5, <2>1, <2>2, <3>2
    <3>3. CASE n = Revision(row')
      BY <2>2, <3>3
    <3> QED
      BY <3>1, <3>2, <3>3
  <2> QED
    BY <2>3 DEF ReceiptsStayValid
<1>10. RetriesChangeNothing'
  <2>1. \A p \in accepted : p.ops \in OpSets /\ Apply(Canonical(row), p.ops) = Canonical(row)
    BY <1>1 DEF IInv, RetriesChangeNothing, Request
  <2>2. CASE Canonical(row') = Canonical(row) /\ accepted' = accepted
    BY <2>1, <2>2 DEF RetriesChangeNothing
  <2>3. CASE /\ st = "ready" /\ Canonical(row') = Canonical(row)
             /\ \E w \in row.writes : w.req = req
    <3>1. req \in accepted
      BY <2>3 DEF IInv, BookkeepingAgrees
    <3> QED
      BY <1>4, <2>1, <2>3, <3>1 DEF RetriesChangeNothing
  <2>4. CASE st = "ready" /\ Canonical(row') = Apply(Canonical(row), req.ops)
    <3>1. Apply(Canonical(row'), req.ops) = Canonical(row')
      BY <1>1, <2>4, ApplyTwice
    <3>2. \A p \in accepted : Apply(Canonical(row'), p.ops) = Canonical(row')
      BY <1>1, <2>1, <2>4, ApplyKeeps
    <3> QED
      BY <1>4, <2>4, <3>1, <3>2 DEF RetriesChangeNothing
  <2> QED
    BY <1>3, <1>4, <2>2, <2>3, <2>4
<1> QED
  BY <1>6, <1>7, <1>8, <1>9, <1>10 DEF IInv
(***************************************************************************)
(* write_profile_settings preserves the invariant.  An operation accepted  *)
(* before the account was modern changed nothing, so its base is below the *)
(* revision of a schema-1 row and the new document absorbs it too.         *)
(***************************************************************************)
LEMMA WriteProfileSettingsStep ==
    ASSUME IInv, NEW values \in LegacyDoc, WriteProfileSettings(values)
    PROVE  IInv'
<1>1. /\ row \in Row /\ row.kind # "modern" /\ ~row.modernUsed
      /\ row.version < MaxRevision /\ row.version \in Nat
      /\ row' = LegacyWritten(row, values)
      /\ issued' = issued /\ accepted' = accepted
      /\ issued \in SUBSET (0..MaxRevision) /\ accepted \in SUBSET Request
      /\ Canonical(row) \in Doc /\ Revision(row) \in Nat
  BY CanonicalType, RevisionType
     DEF IInv, TypeOK, WriteProfileSettings, LegacyWriteAdmitted, Row
<1>2. /\ row' \in Row
      /\ row'.kind = "legacy"
      /\ row'.modernUsed = row.modernUsed
      /\ row'.writes = row.writes
      /\ Revision(row') = IF row.kind = "none" THEN 1 ELSE row.version + 1
      /\ Revision(row) <= Revision(row')
  BY <1>1, LegacyWrittenEffect, SMTT(30)
<1>3. Canonical(row') \in Doc /\ Revision(row') \in Nat
  BY <1>2, CanonicalType, RevisionType
<1>4. TypeOK'
  BY <1>1, <1>2 DEF TypeOK
<1>5. BookkeepingAgrees'
  <2>1. Revision(row') <= MaxRevision
    BY <1>1, <1>2, BoundsAssumption
  <2>2. row'.modernUsed <=> row'.kind = "modern"
    BY <1>1, <1>2
  <2>3. \A w \in row'.writes : w.req \in accepted'
    BY <1>1, <1>2 DEF IInv, BookkeepingAgrees
  <2> QED
    BY <2>1, <2>2, <2>3 DEF BookkeepingAgrees
<1>6. StampsWithinRevision'
  BY <1>2, <1>3, UnstampedUntilModern DEF StampsWithinRevision
<1>7. ReceiptsStayValid'
  <2>1. ASSUME NEW n \in issued PROVE n <= Revision(row')
    <3>1. n \in Nat /\ n <= Revision(row)
      BY <1>1, BoundsAssumption DEF IInv, ReceiptsStayValid
    <3> QED
      BY <1>1, <1>2, <1>3, <3>1
  <2> QED
    BY <1>1, <2>1 DEF ReceiptsStayValid
<1>8. RetriesChangeNothing'
  <2>1. ASSUME NEW p \in accepted
        PROVE  Apply(Canonical(row'), p.ops) = Canonical(row')
    <3>1. p.ops \in OpSets /\ Apply(Canonical(row), p.ops) = Canonical(row)
      BY <1>1 DEF IInv, RetriesChangeNothing, Request
    <3> QED
      BY <1>1, <3>1, LegacyWrittenKeeps
  <2> QED
    BY <1>1, <2>1 DEF RetriesChangeNothing
<1> QED
  BY <1>4, <1>5, <1>6, <1>7, <1>8 DEF IInv

(***************************************************************************)
(* A step that only ages or forgets identities preserves the invariant.    *)
(***************************************************************************)
LEMMA IdentitiesStep ==
    ASSUME IInv, UNCHANGED <<issued, accepted>>,
           NEW ws \in SUBSET [req : Request, old : BOOLEAN],
           row' = [row EXCEPT !.writes = ws],
           \A w \in ws : w.req \in accepted
    PROVE  IInv'
<1>1. row \in Row
  BY DEF IInv, TypeOK
<1>2. /\ row' \in Row /\ row'.writes = ws /\ row'.kind = row.kind
      /\ row'.modernUsed = row.modernUsed
      /\ Revision(row') = Revision(row) /\ Canonical(row') = Canonical(row)
  BY <1>1, WithWrites
<1>3. TypeOK'
  BY <1>2 DEF IInv, TypeOK
<1>4. BookkeepingAgrees'
  BY <1>2 DEF IInv, BookkeepingAgrees
<1>5. StampsWithinRevision'
  BY <1>2 DEF IInv, StampsWithinRevision
<1>6. ReceiptsStayValid'
  BY <1>2 DEF IInv, ReceiptsStayValid
<1>7. RetriesChangeNothing'
  BY <1>2 DEF IInv, RetriesChangeNothing
<1> QED
  BY <1>3, <1>4, <1>5, <1>6, <1>7 DEF IInv

(***************************************************************************)
(* An identity that grows old preserves the invariant.                     *)
(***************************************************************************)
LEMMA ExpireStep ==
    ASSUME IInv, NEW w \in row.writes, Expire(w)
    PROVE  IInv'
<1> DEFINE ws == (row.writes \ {w}) \union {[w EXCEPT !.old = TRUE]}
<1>1. row' = [row EXCEPT !.writes = ws] /\ UNCHANGED <<issued, accepted>>
  BY DEF Expire
<1>2. row.writes \in SUBSET [req : Request, old : BOOLEAN]
  BY DEF IInv, TypeOK, Row
<1>3. [w EXCEPT !.old = TRUE] \in [req : Request, old : BOOLEAN]
  BY <1>2
<1>4. [w EXCEPT !.old = TRUE].req = w.req
  BY <1>2
<1>5. \A x \in row.writes : x.req \in accepted
  BY DEF IInv, BookkeepingAgrees
<1>6. ws \in SUBSET [req : Request, old : BOOLEAN]
  BY <1>2, <1>3
<1>7. \A x \in ws : x.req \in accepted
  BY <1>4, <1>5
<1> HIDE DEF ws
<1> QED
  BY <1>1, <1>6, <1>7, IdentitiesStep

(***************************************************************************)
(* The cron job that deletes old identities preserves the invariant.       *)
(***************************************************************************)
LEMMA CleanupStep ==
    ASSUME IInv, CleanupSettingsWrites
    PROVE  IInv'
<1>1. PICK gone \in SUBSET {w \in row.writes : w.old} :
        /\ row' = [row EXCEPT !.writes = @ \ gone]
        /\ UNCHANGED <<issued, accepted>>
  BY DEF CleanupSettingsWrites
<1>2. row.writes \ gone \in SUBSET [req : Request, old : BOOLEAN]
  BY DEF IInv, TypeOK, Row
<1>3. \A x \in row.writes \ gone : x.req \in accepted
  BY DEF IInv, BookkeepingAgrees
<1> QED
  BY <1>1, <1>2, <1>3, IdentitiesStep

(***************************************************************************)
(* A read preserves the invariant: the receipt it hands out names the      *)
(* present revision.                                                       *)
(***************************************************************************)
LEMMA ReadCanonicalStep ==
    ASSUME IInv, ReadCanonical
    PROVE  IInv'
<1>1. row' = row /\ accepted' = accepted /\ issued' = issued \union {Revision(row)}
  BY DEF ReadCanonical
<1>2. Revision(row) \in 0..MaxRevision
  BY RevisionType, BoundsAssumption DEF IInv, TypeOK, BookkeepingAgrees
<1>3. TypeOK'
  BY <1>1, <1>2 DEF IInv, TypeOK
<1>4. BookkeepingAgrees' /\ StampsWithinRevision' /\ RetriesChangeNothing'
  BY <1>1 DEF IInv, BookkeepingAgrees, StampsWithinRevision, RetriesChangeNothing
<1>5. ReceiptsStayValid'
  BY <1>1, <1>2 DEF IInv, ReceiptsStayValid
<1> QED
  BY <1>3, <1>4, <1>5 DEF IInv

(***************************************************************************)
(* Every reachable state satisfies the invariant.                          *)
(***************************************************************************)
THEOREM Invariance == Spec => []IInv
<1>1. Init => IInv
  BY InitInvariant
<1>2. IInv /\ [Next]_vars => IInv'
  <2> SUFFICES ASSUME IInv, [Next]_vars PROVE IInv'
    OBVIOUS
  <2>1. CASE ReadCanonical
    BY <2>1, ReadCanonicalStep
  <2>2. ASSUME NEW req \in Requests, SyncSettings(req) PROVE IInv'
    BY <2>2, SyncSettingsStep
  <2>3. ASSUME NEW values \in LegacyDoc, WriteProfileSettings(values) PROVE IInv'
    BY <2>3, WriteProfileSettingsStep
  <2>4. ASSUME NEW w \in row.writes, Expire(w) PROVE IInv'
    BY <2>4, ExpireStep
  <2>5. CASE CleanupSettingsWrites
    BY <2>5, CleanupStep
  <2>6. CASE UNCHANGED vars
    BY <2>6 DEF vars, IInv, TypeOK, BookkeepingAgrees, StampsWithinRevision,
                ReceiptsStayValid, RetriesChangeNothing
  <2> QED
    BY <2>1, <2>2, <2>3, <2>4, <2>5, <2>6 DEF Next
<1> QED
  BY <1>1, <1>2, PTL DEF Spec

(***************************************************************************)
(* Type correctness of the row and of the history.                         *)
(***************************************************************************)
THEOREM TypeCorrect == Spec => []TypeOK
  BY Invariance, PTL DEF IInv

(***************************************************************************)
(* No stamp of a row names a revision the row has not reached, so the      *)
(* function never locks an account out with "hold: future-stamp".          *)
(***************************************************************************)
THEOREM NoFutureStamps == Spec => []StampsWithinRevision
  BY Invariance, PTL DEF IInv

(***************************************************************************)
(* A receipt verifies for ever, so no queued write is orphaned.            *)
(***************************************************************************)
THEOREM ReceiptsNeverOrphaned == Spec => []ReceiptsStayValid
  BY Invariance, PTL DEF IInv

(***************************************************************************)
(* Whatever was accepted stays part of the document, so a retry never      *)
(* changes anything, however late it comes.                                *)
(***************************************************************************)
THEOREM RetriesAreIdempotent == Spec => []RetriesChangeNothing
  BY Invariance, PTL DEF IInv

(***************************************************************************)
(* Revision, seal and retained identities agree with the document.         *)
(***************************************************************************)
THEOREM BookkeepingCorrect == Spec => []BookkeepingAgrees
  BY Invariance, PTL DEF IInv
-----------------------------------------------------------------------------
(* What a step may do to the document                                      *)

(***************************************************************************)
(* Every step leaves the document and its revision alone, replaces a       *)
(* document that is not modern, or joins a request into it.                *)
(***************************************************************************)
Unseen ==
    /\ Canonical(row') = Canonical(row)
    /\ Revision(row') = Revision(row)
    /\ row'.modernUsed = row.modernUsed

(***************************************************************************)
(* The step of a 2.x client: a whole document over a row that is not       *)
(* modern.                                                                 *)
(***************************************************************************)
Replaced ==
    /\ row.kind # "modern" /\ ~row.modernUsed
    /\ row'.kind = "legacy" /\ ~row'.modernUsed
    /\ Revision(row') = IF row.kind = "none" THEN 1 ELSE row.version + 1

(***************************************************************************)
(* The step of a per-field commit: the document rises, the row is sealed.  *)
(***************************************************************************)
Joined ==
    /\ row'.modernUsed
    /\ Canonical(row') # Canonical(row)
    /\ Revision(row') = Revision(row) + 1
    /\ \A f \in Fields : Absorbed(Canonical(row)[f], Canonical(row')[f])

\* Every step leaves the document alone, replaces it, or joins newer fields to it.
LEMMA StepShape ==
    ASSUME IInv, IInv', [Next]_vars
    PROVE  Unseen \/ Replaced \/ Joined
<1>1. row \in Row /\ row' \in Row /\ Canonical(row) \in Doc
  BY CanonicalType DEF IInv, TypeOK
<1>2. ASSUME row' = row PROVE Unseen
  BY <1>2 DEF Unseen
<1>3. ASSUME NEW ws \in SUBSET [req : Request, old : BOOLEAN],
             row' = [row EXCEPT !.writes = ws]
      PROVE  Unseen
  BY <1>1, <1>3, WithWrites DEF Unseen
<1>4. ASSUME NEW req \in Requests, SyncSettings(req) PROVE Unseen \/ Joined
  <2>1. req \in Request /\ req.ops \in OpSets /\ row' = RowAfter(Account, row, req)
    BY <1>4 DEF Requests, Request, SyncSettings
  <2>2. CASE /\ Status(Account, row, req) = "ready" /\ Claim(row, req) = "new"
             /\ row' = [Committed(row, req) EXCEPT
                          !.writes = Retained(row) \union {[req |-> req, old |-> FALSE]}]
    <3> DEFINE ws == Retained(row) \union {[req |-> req, old |-> FALSE]}
               c == Committed(row, req)
    <3>1. /\ c \in Row
          /\ Canonical(c) = Apply(Canonical(row), req.ops)
          /\ Changes(row, req) => Revision(c) = Revision(row) + 1 /\ c.modernUsed
          /\ ~Changes(row, req) => c = row
      BY <1>1, <2>1, CommittedRow
    <3>2. ws \in SUBSET [req : Request, old : BOOLEAN]
      <4>1. row.writes \in SUBSET [req : Request, old : BOOLEAN]
        BY <1>1 DEF Row
      <4>2. Retained(row) \subseteq row.writes
        BY DEF Retained
      <4>3. [req |-> req, old |-> FALSE] \in [req : Request, old : BOOLEAN]
        BY <2>1
      <4> QED
        BY <4>1, <4>2, <4>3
    <3> HIDE DEF ws, c
    <3>3. row' = [c EXCEPT !.writes = ws]
      BY <2>2 DEF c, ws
    <3>4. /\ row'.modernUsed = c.modernUsed
          /\ Revision(row') = Revision(c)
          /\ Canonical(row') = Canonical(c)
      BY <3>1, <3>2, <3>3, WithWrites
    <3>5. CASE Changes(row, req)
      <4>1. Canonical(row') # Canonical(row)
        BY <3>1, <3>4, <3>5 DEF Changes
      <4>2. \A f \in Fields : Absorbed(Canonical(row)[f], Canonical(row')[f])
        BY <1>1, <2>1, <3>1, <3>4, ApplyAbsorbs
      <4> QED
        BY <3>1, <3>4, <3>5, <4>1, <4>2 DEF Joined
    <3>6. CASE ~Changes(row, req)
      BY <3>1, <3>4, <3>6 DEF Unseen
    <3> QED
      BY <3>5, <3>6
  <2>3. CASE row' = [row EXCEPT !.writes = Retained(row)]
    <3>1. Retained(row) \in SUBSET [req : Request, old : BOOLEAN]
      BY <1>1 DEF Row, Retained
    <3> QED
      BY <1>3, <2>3, <3>1
  <2> DEFINE st == Status(Account, row, req)
             cl == Claim(row, req)
             after == RowAfter(Account, row, req)
             new == [Committed(row, req) EXCEPT
                       !.writes = Retained(row) \union {[req |-> req, old |-> FALSE]}]
             kept == [row EXCEPT !.writes = Retained(row)]
  <2>4. \/ st = "ready" /\ cl = "new" /\ after = new
        \/ (st = "ready" => cl = "duplicate") /\ (after = row \/ after = kept)
    BY <1>1, <2>1, RowAfterCases, Z3
  <2>5. ASSUME row' = row PROVE Unseen
    BY <1>2, <2>5
  <2>6. row' = after
    BY <2>1
  <2> HIDE DEF st, cl, after, new, kept
  <2>7. CASE st = "ready" /\ cl = "new" /\ row' = new
    BY <2>2, <2>7 DEF st, cl, new
  <2>8. CASE row' = kept
    BY <2>3, <2>8 DEF kept
  <2> QED
    BY <2>4, <2>5, <2>6, <2>7, <2>8
<1>5. ASSUME NEW values \in LegacyDoc, WriteProfileSettings(values) PROVE Replaced
  <2>1. row.kind # "modern" /\ ~row.modernUsed /\ row' = LegacyWritten(row, values)
    BY <1>5 DEF WriteProfileSettings, LegacyWriteAdmitted
  <2> QED
    BY <1>1, <2>1, LegacyWrittenEffect, SMTT(30) DEF Replaced
<1>6. ASSUME NEW w \in row.writes, Expire(w) PROVE Unseen
  <2>1. row' = [row EXCEPT !.writes = (@ \ {w}) \union {[w EXCEPT !.old = TRUE]}]
    BY <1>6 DEF Expire
  <2>2. (row.writes \ {w}) \union {[w EXCEPT !.old = TRUE]}
          \in SUBSET [req : Request, old : BOOLEAN]
    <3>1. row.writes \in SUBSET [req : Request, old : BOOLEAN]
      BY <1>1 DEF Row
    <3>2. [w EXCEPT !.old = TRUE] \in [req : Request, old : BOOLEAN]
      BY <3>1
    <3> QED
      BY <3>1, <3>2
  <2> QED
    BY <1>3, <2>1, <2>2
<1>7. CASE CleanupSettingsWrites
  <2>1. PICK gone \in SUBSET {w \in row.writes : w.old} :
          row' = [row EXCEPT !.writes = @ \ gone]
    BY <1>7 DEF CleanupSettingsWrites
  <2>2. row.writes \ gone \in SUBSET [req : Request, old : BOOLEAN]
    BY <1>1 DEF Row
  <2> QED
    BY <1>3, <2>1, <2>2
<1> QED
  BY <1>2, <1>4, <1>5, <1>6, <1>7 DEF Next, ReadCanonical, vars

(***************************************************************************)
(* From the first per-field write on no field loses rank, whatever arrives *)
(* and in whatever order.                                                  *)
(***************************************************************************)
THEOREM RankMonotone == Spec => RankNeverRegresses
<1>1. IInv /\ IInv' /\ [Next]_vars
        => [\/ row'.kind = "legacy" /\ row.kind # "modern"
            \/ \A f \in Fields : Absorbed(Canonical(row)[f], Canonical(row')[f])]_vars
  <2> SUFFICES ASSUME IInv, IInv', [Next]_vars
               PROVE  \/ row'.kind = "legacy" /\ row.kind # "modern"
                      \/ \A f \in Fields : Absorbed(Canonical(row)[f], Canonical(row')[f])
    OBVIOUS
  <2>1. CASE Unseen
    <3>1. \A f \in Fields : Canonical(row)[f] \in OrderedField
      BY CanonicalType DEF IInv, TypeOK, Doc
    <3> QED
      BY <2>1, <3>1, AbsorbedOrder DEF Unseen
  <2>2. CASE Replaced
    BY <2>2 DEF Replaced
  <2>3. CASE Joined
    BY <2>3 DEF Joined
  <2> QED
    BY <2>1, <2>2, <2>3, StepShape
<1> QED
  BY <1>1, Invariance, PTL DEF Spec, RankNeverRegresses

(***************************************************************************)
(* A changed document has a new revision, so a device may compare          *)
(* documents by revision.                                                  *)
(***************************************************************************)
THEOREM RevisionsNameDocuments == Spec => RevisionNamesDocument
<1>1. IInv /\ IInv' /\ [Next]_vars
        => [\/ row.kind = "legacy" /\ row.version = 0
            \/ Canonical(row') = Canonical(row)
            \/ Revision(row') = Revision(row) + 1]_vars
  <2> SUFFICES ASSUME IInv, IInv', [Next]_vars
               PROVE  \/ row.kind = "legacy" /\ row.version = 0
                      \/ Canonical(row') = Canonical(row)
                      \/ Revision(row') = Revision(row) + 1
    OBVIOUS
  <2>1. CASE Unseen
    BY <2>1 DEF Unseen
  <2>2. CASE Replaced
    <3>1. row.kind \in {"none", "legacy"} /\ row.version \in Nat
      BY <2>2 DEF Replaced, IInv, TypeOK, Row
    <3>2. CASE row.kind = "none"
      BY <2>2, <3>2 DEF Replaced, Revision
    <3>3. CASE row.kind = "legacy" /\ row.version # 0
      <4>1. Revision(row) = row.version
        BY <3>1, <3>3 DEF Revision, AtLeastOne
      <4> QED
        BY <2>2, <3>3, <4>1 DEF Replaced
    <3> QED
      BY <3>1, <3>2, <3>3
  <2>3. CASE Joined
    BY <2>3 DEF Joined
  <2> QED
    BY <2>1, <2>2, <2>3, StepShape
<1> QED
  BY <1>1, Invariance, PTL DEF Spec, RevisionNamesDocument

(***************************************************************************)
(* The register orders fields as the row does.                             *)
(***************************************************************************)
LEMMA SameOrders ==
    /\ Register!Doc = Doc
    /\ \A f, g : Absorbed(f, g) <=> Register!Absorbed(f, g)
<1>1. Register!Doc = Doc
  BY DEF Register!Doc, Doc, Register!OrderedField, OrderedField
<1>2. \A f, g : Absorbed(f, g) <=> Register!Absorbed(f, g)
  BY DEF Absorbed, Merge, SameOrder, Outranks, Register!Absorbed, Register!Merge,
         Register!SameOrder, Register!Outranks
<1> QED
  BY <1>1, <1>2

(***************************************************************************)
(* The row, its receipts and its log of identities implement a register    *)
(* per field that, once sealed, only joins.                                *)
(***************************************************************************)
THEOREM Refinement == Spec => ImplementsRegister
<1>1. Init => Register!Init
  <2> SUFFICES ASSUME Init PROVE Register!Init
    OBVIOUS
  <2>1. row \in Row /\ ~row.modernUsed
    BY StartEmpty, StartLegacy DEF Init
  <2>2. row.modernUsed = FALSE
    BY <2>1 DEF Row
  <2> QED
    BY <2>1, <2>2, CanonicalType, SameOrders DEF Register!Init
<1>2. IInv /\ IInv' /\ [Next]_vars
        => [Register!Next]_<<Canonical(row), row.modernUsed>>
  <2> SUFFICES ASSUME IInv, IInv', [Next]_vars
               PROVE  [Register!Next]_<<Canonical(row), row.modernUsed>>
    OBVIOUS
  <2>1. /\ row \in Row /\ row' \in Row
        /\ row.modernUsed \in BOOLEAN /\ row'.modernUsed \in BOOLEAN
        /\ Canonical(row') \in Register!Doc
    BY CanonicalType, SameOrders DEF IInv, TypeOK, Row
  <2>2. CASE Unseen
    BY <2>2 DEF Unseen
  <2>3. CASE Replaced
    <3>1. \A f \in Fields : Canonical(row')[f].step = 0
      BY <2>1, <2>3, UnstampedUntilModern DEF Replaced
    <3> QED
      BY <2>1, <2>3, <3>1 DEF Replaced, Register!Replace, Register!Next
  <2>4. CASE Joined
    BY <2>1, <2>4, SameOrders DEF Joined, Register!Join, Register!Next
  <2> QED
    BY <2>2, <2>3, <2>4, StepShape
<1> QED
  BY <1>1, <1>2, Invariance, PTL DEF Spec, ImplementsRegister, Register!Spec
=============================================================================
