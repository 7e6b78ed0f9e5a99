----------------------------- MODULE SettingsRow ----------------------------
(***************************************************************************)
(* One account's settings row and what the settings function computes from *)
(* it: supabase/functions/_shared/settings-store.ts with the SQL helpers   *)
(* of migrations/0015_settings_sync_per_field.sql, and the lazy migration  *)
(* of packages/core/src/storage/settings-v2.ts.                            *)
(*                                                                         *)
(* A row is a record                                                       *)
(*   kind        "none" (no profile), "legacy" (schema 1), "modern" (2)    *)
(*   version     profiles.settings_version                                 *)
(*   legacy      the values a schema-1 document supplies                   *)
(*   doc         the stamped fields of a schema-2 document                 *)
(*   modernUsed  settings_anchors.modern_used                              *)
(*   writes      the retained write identities, with their age             *)
(***************************************************************************)
EXTENDS FieldOrder, FiniteSets

CONSTANTS
    Fields,        \* SETTINGS_FIELDS: every switch that syncs
    LegacyFields,  \* the fields a schema-1 document supplies
    Parent,        \* a free-tier site switch |-> the service it copies
    Fresh,         \* the bundled default of every field
    Lineages,      \* one anchor lineage per account
    Ids,           \* write identities
    OpSets,        \* what requests may carry: operations on some of the fields
    MaxRevision,   \* MAX_SETTINGS_REVISION
    MaxWrites      \* the retained identities one account may hold (4096)

ASSUME FieldsAssumption ==
    /\ LegacyFields \subseteq Fields
    /\ DOMAIN Parent \subseteq Fields \ LegacyFields
    /\ \A f \in DOMAIN Parent : Parent[f] \in LegacyFields
    /\ Fresh \in [Fields -> BOOLEAN]

ASSUME BoundsAssumption ==
    /\ MaxRevision \in Nat \ {0}
    /\ MaxWrites \in Nat \ {0}

\* What one field of a per-field request asks for, with its rank.
Operation == [value : BOOLEAN, base : Nat, step : 1..MaxStep]

ASSUME OpSetsAssumption ==
    \A o \in OpSets :
        /\ DOMAIN o \subseteq Fields
        /\ \A f \in DOMAIN o : o[f] \in Operation

Doc == [Fields -> OrderedField]

LegacyDoc == [LegacyFields -> BOOLEAN]

\* A request with the receipt it is bound to: a lineage and a revision.
Request == [id : Ids, lineage : Lineages, revision : 0..MaxRevision, ops : OpSets]

Row ==
    [kind : {"none", "legacy", "modern"}, version : Nat, legacy : LegacyDoc,
     doc : Doc, modernUsed : BOOLEAN,
     writes : SUBSET [req : Request, old : BOOLEAN]]

-----------------------------------------------------------------------------
(* The lazy migration: the canonical document a row is read as.            *)

FreshDoc == [f \in Fields |-> [value |-> Fresh[f], base |-> 0, step |-> 0]]

EmptyRow ==
    [kind |-> "none", version |-> 0, legacy |-> [f \in LegacyFields |-> FALSE],
     doc |-> FreshDoc, modernUsed |-> FALSE, writes |-> {}]

LegacyRow(values, version) ==
    [EmptyRow EXCEPT !.kind = "legacy", !.version = version, !.legacy = values]

AtLeastOne(n) == IF n = 0 THEN 1 ELSE n

\* lock_settings: a missing profile is revision 0, a schema-1 document never is.
Revision(row) ==
    CASE row.kind = "none"   -> 0
      [] row.kind = "legacy" -> AtLeastOne(row.version)
      [] row.kind = "modern" -> row.version

\* A supplied field was decided at the row's revision; a field the document
\* does not know copies its service (free tier) or is Off, and is unstamped.
MigratedLegacy(values, revision) ==
    [f \in Fields |->
        IF f \in LegacyFields
          THEN [value |-> values[f], base |-> revision, step |-> 0]
          ELSE [value |-> f \in DOMAIN Parent /\ values[Parent[f]],
                base |-> 0, step |-> 0]]

Canonical(row) ==
    CASE row.kind = "none"   -> FreshDoc
      [] row.kind = "legacy" -> MigratedLegacy(row.legacy, Revision(row))
      [] row.kind = "modern" -> row.doc

-----------------------------------------------------------------------------
(* syncSettings                                                            *)

FutureStamp(row) ==
    row.kind = "modern" /\ \E f \in Fields : row.doc[f].base > Revision(row)

\* verifySettingsAnchorReceipt for the account whose anchor lineage is `lineage`
ReceiptVerified(lineage, row, req) ==
    /\ req.lineage = lineage
    /\ req.revision <= Revision(row)

BasesAdmitted(req) ==
    \A f \in DOMAIN req.ops : req.ops[f].base \in {0, req.revision}

\* Seeded fault: the request's fields replace the row's.
ApplyOverwrites(doc, ops) ==
    [f \in Fields |-> IF f \in DOMAIN ops THEN ops[f] ELSE doc[f]]

\* Seeded fault: ranks are compared by revision alone.
ApplyByRevision(doc, ops) ==
    [f \in Fields |->
        IF f \in DOMAIN ops /\ ops[f].base > doc[f].base THEN ops[f] ELSE doc[f]]

\* Every operation merged into the document, independently of the others.
Apply(doc, ops) ==
    [f \in Fields |-> IF f \in DOMAIN ops THEN Merge(doc[f], ops[f]) ELSE doc[f]]

\* Identities younger than thirty days; a claim deletes the others first.
Retained(row) == {w \in row.writes : ~w.old}

\* claim_settings_write
Claim(row, req) ==
    IF \E w \in Retained(row) : w.req.id = req.id
      THEN IF \E w \in Retained(row) : w.req = req THEN "duplicate" ELSE "conflict"
      ELSE IF Cardinality(Retained(row)) >= MaxWrites THEN "full" ELSE "new"

Changes(row, req) == Apply(Canonical(row), req.ops) # Canonical(row)

\* Seeded fault: a saturated revision does not hold the commit.
StatusUnsaturated(lineage, row, req) ==
    IF FutureStamp(row) THEN "hold"
    ELSE IF ~ReceiptVerified(lineage, row, req) \/ ~BasesAdmitted(req) THEN "rejected"
    ELSE IF Claim(row, req) = "conflict" THEN "conflict"
    ELSE IF Claim(row, req) = "full" THEN "error"
    ELSE "ready"

\* What the function answers.  "error" is a refused claim and "hold" a held
\* commit: both roll the whole transaction back.
Status(lineage, row, req) ==
    IF FutureStamp(row) THEN "hold"
    ELSE IF ~ReceiptVerified(lineage, row, req) \/ ~BasesAdmitted(req) THEN "rejected"
    ELSE IF Claim(row, req) = "conflict" THEN "conflict"
    ELSE IF Claim(row, req) = "full" THEN "error"
    ELSE IF Claim(row, req) = "new" /\ Changes(row, req) /\ Revision(row) = MaxRevision
      THEN "hold"
    ELSE "ready"

\* Seeded fault: the new revision is counted from the request's receipt.
CommittedAtReceipt(row, req) ==
    IF Changes(row, req)
      THEN [row EXCEPT !.kind = "modern", !.version = req.revision + 1,
                       !.doc = Apply(Canonical(row), req.ops), !.modernUsed = TRUE]
      ELSE row

\* Seeded fault: a commit over a row that exists keeps its revision.
CommittedSilently(row, req) ==
    IF Changes(row, req)
      THEN [row EXCEPT !.kind = "modern", !.version = AtLeastOne(row.version),
                       !.doc = Apply(Canonical(row), req.ops), !.modernUsed = TRUE]
      ELSE row

\* Seeded fault: a commit does not close the account to whole documents.
CommittedUnsealed(row, req) ==
    IF Changes(row, req)
      THEN [row EXCEPT !.kind = "modern", !.version = Revision(row) + 1,
                       !.doc = Apply(Canonical(row), req.ops)]
      ELSE row

\* commit_settings
Committed(row, req) ==
    IF Changes(row, req)
      THEN [row EXCEPT !.kind = "modern", !.version = Revision(row) + 1,
                       !.doc = Apply(Canonical(row), req.ops), !.modernUsed = TRUE]
      ELSE row

\* The row the transaction leaves.
RowAfter(lineage, row, req) ==
    LET kept == [row EXCEPT !.writes = Retained(row)]
    IN  CASE Status(lineage, row, req) \in {"hold", "rejected", "error"} -> row
          [] Status(lineage, row, req) = "conflict" -> kept
          [] Status(lineage, row, req) = "ready" ->
               IF Claim(row, req) = "new"
                 THEN [Committed(row, req) EXCEPT
                         !.writes = Retained(row) \union {[req |-> req, old |-> FALSE]}]
                 ELSE kept

-----------------------------------------------------------------------------
(* write_profile_settings, the whole-document path shipped 2.x clients use *)

\* Seeded fault: the 0015 guard is missing.
LegacyWriteUnguarded(row) == TRUE

LegacyWriteAdmitted(row) == ~row.modernUsed /\ row.kind # "modern"

LegacyWritten(row, values) ==
    [row EXCEPT !.kind = "legacy", !.legacy = values,
                !.version = IF row.kind = "none" THEN 1 ELSE row.version + 1]
=============================================================================
