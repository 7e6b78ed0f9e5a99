---------------------------- MODULE SettingsStore ----------------------------
(***************************************************************************)
(* The settings row of one account as the server runs it: every            *)
(* transaction locks the account (`for no key update`), so each is one     *)
(* step here.  Clients are an environment that may send any request whose  *)
(* receipt the server issued, in any order, any number of times.           *)
(***************************************************************************)
EXTENDS SettingsRow

CONSTANTS
    Account,         \* the lineage of the account whose row this is
    StartVersions,   \* the versions a schema-1 row found at the start may have
    MaxAccepted      \* bound: distinct requests ever accepted

ASSUME AccountAssumption == Account \in Lineages

ASSUME StoreBoundsAssumption ==
    /\ StartVersions \subseteq 0..MaxRevision
    /\ MaxAccepted \in Nat

VARIABLES
    row,        \* the account's row
    issued,     \* history: revisions whose receipt some client may hold
    accepted    \* history: requests the server answered "ready"

vars == <<row, issued, accepted>>

\* The row, the receipts and the accepted requests stay well typed; a revision
\* that overflowed MAX_SETTINGS_REVISION would leave a receipt outside its range.
TypeOK ==
    /\ row \in Row
    /\ issued \in SUBSET (0..MaxRevision)
    /\ accepted \in SUBSET Request

Init ==
    /\ \/ row = EmptyRow
       \/ \E values \in LegacyDoc, v \in StartVersions : row = LegacyRow(values, v)
    /\ issued = {}
    /\ accepted = {}

\* syncSettings without a request: the canonical document and its receipt
ReadCanonical ==
    /\ ~FutureStamp(row)
    /\ issued' = issued \union {Revision(row)}
    /\ UNCHANGED <<row, accepted>>

\* syncSettings with a request, new or repeated.  The answer carries a receipt.
SyncSettings(req) ==
    /\ req.lineage = Account => req.revision \in issued
    /\ req \in accepted \/ Cardinality(accepted) < MaxAccepted
    /\ row' = RowAfter(Account, row, req)
    /\ IF Status(Account, row, req) = "ready"
         THEN /\ accepted' = accepted \union {req}
              /\ issued' = issued \union {Revision(row')}
         ELSE UNCHANGED <<accepted, issued>>

WriteProfileSettings(values) ==
    /\ LegacyWriteAdmitted(row)
    /\ row.version < MaxRevision      \* bound: the code does not bound this path
    /\ row' = LegacyWritten(row, values)
    /\ UNCHANGED <<issued, accepted>>

\* Thirty days pass for a retained identity.
Expire(w) ==
    /\ w \in row.writes /\ ~w.old
    /\ row' = [row EXCEPT !.writes = (@ \ {w}) \union {[w EXCEPT !.old = TRUE]}]
    /\ UNCHANGED <<issued, accepted>>

\* cleanup_settings_writes: the cron job deletes old identities, some per run
CleanupSettingsWrites ==
    \E gone \in SUBSET {w \in row.writes : w.old} :
        /\ gone # {}
        /\ row' = [row EXCEPT !.writes = @ \ gone]
        /\ UNCHANGED <<issued, accepted>>

\* A request as a client builds it: every base is 0 or the receipt's revision.
Requests ==
    {r \in Request : BasesAdmitted(r)}

Next ==
    \/ ReadCanonical
    \/ \E req \in Requests : SyncSettings(req)
    \/ \E values \in LegacyDoc : WriteProfileSettings(values)
    \/ \E w \in row.writes : Expire(w)
    \/ CleanupSettingsWrites

Spec == Init /\ [][Next]_vars

-----------------------------------------------------------------------------
(* Safety                                                                  *)

\* No stamp names a revision the row has not reached.  The function answers
\* "hold: future-stamp" for such a row, so breaking this locks the account out.
StampsWithinRevision ==
    \A f \in Fields : Canonical(row)[f].base <= Revision(row)

\* A receipt, once issued, verifies for ever: the revision of the row never
\* falls below one a client may hold, so a queued write can never be orphaned.
ReceiptsStayValid == \A r \in issued : r <= Revision(row)

\* An accepted request is already part of the document and stays part of it.
\* A retry therefore changes nothing, even after its identity has expired.
RetriesChangeNothing ==
    \A req \in accepted : Apply(Canonical(row), req.ops) = Canonical(row)

\* What the row keeps besides the document agrees with it: the revision stays in
\* its range, the account is closed to 2.x writes exactly when its document is
\* modern, and every retained identity belongs to a request that was accepted.
BookkeepingAgrees ==
    /\ Revision(row) <= MaxRevision
    /\ row.modernUsed <=> row.kind = "modern"
    /\ \A w \in row.writes : w.req \in accepted

\* From the first per-field write on, no field ever loses rank: not to a stale
\* request, not to a retry, not to a 2.x client's whole-document write.
RankNeverRegresses ==
    [][\/ row'.kind = "legacy"  /\ row.kind # "modern"
       \/ \A f \in Fields : Absorbed(Canonical(row)[f], Canonical(row')[f])]_vars

\* A device tells documents apart by revision alone, so a changed document must
\* have a new revision.  The exception is a schema-1 row still at version 0: it
\* already reads as revision 1, and its next whole-document write is revision 1.
RevisionNamesDocument ==
    [][\/ row.kind = "legacy" /\ row.version = 0
       \/ Canonical(row') = Canonical(row)
       \/ Revision(row') = Revision(row) + 1]_vars

\* The row implements a register per field.
Register == INSTANCE SettingsRegister
              WITH reg <- Canonical(row), sealed <- row.modernUsed
ImplementsRegister == Register!Spec
=============================================================================
