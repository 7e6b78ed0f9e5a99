--------------------------- MODULE AtomicSettings ---------------------------
(***************************************************************************)
(* The durable settings record of one installation and the operations of   *)
(* its single writer: AtomicSettingsWriter of packages/core/src/storage/   *)
(* atomic-settings.ts.  The writer runs its operations one at a time, each *)
(* reading the stored record, computing the next and storing it, so every  *)
(* operation is a function from records to records.                        *)
(*                                                                         *)
(* The journal is an array the code only appends to and filters, so it is  *)
(* kept here as the set of its requests: the number in a request's id is   *)
(* that of its append, and the request with the lowest is the first.       *)
(*                                                                         *)
(* A record is                                                             *)
(*   doc        every switch with its stamp                                *)
(*   ownership  whose choices these may be                                 *)
(*   scope      account, generation and auth session the record serves     *)
(*   anchor     the receipt of the last canonical document, or None        *)
(*   pending    the journal of requests not yet seen in the account        *)
(*   held       choices that could not be ranked yet, or None per field    *)
(*   paused     why the journal and the switches stand still, or None      *)
(* `sequence`, `updatedAt`, `syncEpoch` and `syncMetadata` order copies of *)
(* the record between processes and are not modelled here.                 *)
(***************************************************************************)
EXTENDS SettingsRow

CONSTANTS
    None,          \* null: no account, session, receipt, hold or pause
    MaxPending     \* the journal's limit (64)

Receipt == [lineage : Lineages, revision : Nat]

Pauses == {"ownership-unconfirmed", "awaiting-anchor", "pending-limit", "ordering-hold"}

Ownerships == {"never-linked", "previous-account", "unknown"}

ASSUME NoneAssumption == None \notin Lineages \union BOOLEAN \union Receipt \union Pauses

NothingHeld == [f \in Fields |-> None]

LocalScope == [account |-> None, generation |-> 0, session |-> None]

Initialized(doc, ownership) ==
    [doc |-> doc, ownership |-> ownership, scope |-> LocalScope, anchor |-> None,
     pending |-> {}, held |-> NothingHeld, paused |-> None]

\* initializeFresh: the only way to "never-linked", at the install event
FreshRecord == Initialized(FreshDoc, "never-linked")

\* convertLegacy for a host that cannot prove whose choices it holds
UpgradedRecord(values) == Initialized(MigratedLegacy(values, 0), "unknown")

AnchorRevision(rec) == IF rec.anchor = None THEN 0 ELSE rec.anchor.revision

\* A request nothing has ever sent: no receipt and no earlier account scope.
Unsubmitted(rec, p) ==
    p.receipt = None /\ p.origin = None /\ p.scope = rec.scope

-----------------------------------------------------------------------------
(* commit: one deliberate choice                                           *)

\* permitsUnknownLocalEdit and permitsPreviousAccountLocalEdit
PermitsLocalEdit(rec) ==
    /\ rec.scope.account = None
    /\ rec.anchor = None
    /\ rec.paused = None
    /\ \/ rec.ownership = "unknown" /\ \A p \in rec.pending : Unsubmitted(rec, p)
       \/ rec.ownership = "previous-account" /\ rec.pending = {}

\* The branch that saves a signed-out choice without queueing a request.
LocalOnly(rec) ==
    /\ rec.scope.account = None
    /\ \/ rec.ownership = "unknown"
       \/ rec.ownership = "previous-account" /\ rec.pending = {}

\* The revision a local-only choice is ranked at: the field's own, or 0.
LocalRevision(rec, f) ==
    IF rec.ownership = "previous-account" THEN rec.doc[f].base ELSE 0

\* Seeded fault: nothing ever lifts a pause of order.
ResolvedPauseNever(rec, anchor, held) == rec.paused

ResolvedPause(rec, anchor, held) ==
    IF /\ held = NothingHeld
       /\ rec.scope.account = None \/ anchor # None
       /\ rec.paused # "ownership-unconfirmed"
      THEN None
      ELSE rec.paused

\* The journal nothing was sent from: the only one that may drop requests.
Compactable(rec) ==
    /\ rec.ownership = "never-linked"
    /\ rec.scope = LocalScope
    /\ rec.anchor = None
    /\ \A p \in rec.pending : Unsubmitted(rec, p)

\* Seeded fault: the order of the ranks is turned round.
SupersededByOlder(rec, p) ==
    \E q \in rec.pending : q.path = p.path /\ Outranks(p.op, q.op)

Superseded(rec, p) ==
    \E q \in rec.pending : q.path = p.path /\ Outranks(q.op, p.op)

\* compactNeverLinkedPending: such a journal keeps, for every field, only the
\* highest rank (and its ties).
Compacted(rec) ==
    IF Compactable(rec)
      THEN {p \in rec.pending : ~Superseded(rec, p)}
      ELSE rec.pending

Journal(rec) == {p \in Compacted(rec) : p.scope = rec.scope}

Shown(rec, f) == IF rec.held[f] = None THEN rec.doc[f].value ELSE rec.held[f]

\* Seeded fault: one request too many is admitted.
HasRoomAtLimit(rec) == Cardinality(Journal(rec)) <= MaxPending

HasRoom(rec) == Cardinality(Journal(rec)) < MaxPending

\* Why a choice that cannot be ranked is held.
HoldReason(rec) ==
    IF rec.paused = "ownership-unconfirmed" THEN rec.paused
    ELSE IF ~HasRoom(rec) THEN "pending-limit"
    ELSE IF rec.scope.account # None /\ rec.anchor = None THEN "awaiting-anchor"
    ELSE "ordering-hold"

CommitLocal(rec, f, v) ==
    LET prior == rec.doc[f]
        status == EditStatus(prior, LocalRevision(rec, f), v)
    IN  IF ~PermitsLocalEdit(rec) \/ status \in {"hold", "recovery"} THEN rec
        ELSE IF prior.value = v /\ rec.held[f] = None THEN rec
        ELSE [rec EXCEPT
                !.held[f] = None,
                !.doc[f] = IF status = "edited" THEN Edited(@, LocalRevision(rec, f), v)
                                                ELSE @]

CommitQueued(rec, f, v, id) ==
    LET status == EditStatus(rec.doc[f], AnchorRevision(rec), v)
        edited == Edited(rec.doc[f], AnchorRevision(rec), v)
        cleared == [rec.held EXCEPT ![f] = None]
        request == [id |-> id, scope |-> rec.scope, origin |-> None,
                    receipt |-> rec.anchor, path |-> f, op |-> edited]
        ready == /\ status = "edited"
                 /\ HasRoom(rec)
                 /\ rec.scope.account = None \/ rec.anchor # None
    IN  IF Shown(rec, f) = v THEN rec
        ELSE IF ready
          THEN [rec EXCEPT !.doc[f] = edited, !.held = cleared,
                           !.paused = ResolvedPause(rec, rec.anchor, cleared),
                           !.pending = Journal(rec) \union {request}]
        ELSE IF status = "unchanged"
          THEN [rec EXCEPT !.held = cleared, !.pending = Journal(rec),
                           !.paused = ResolvedPause(rec, rec.anchor, cleared)]
        ELSE [rec EXCEPT !.held[f] = v, !.pending = Journal(rec),
                         !.paused = HoldReason(rec)]

Commit(rec, f, v, id) ==
    IF LocalOnly(rec) THEN CommitLocal(rec, f, v) ELSE CommitQueued(rec, f, v, id)

-----------------------------------------------------------------------------
(* enterScope: the record starts to serve an account, or none              *)

EntersScope(rec, account, session) ==
    /\ ~(account = None /\ rec.scope.account = None /\ rec.ownership = "never-linked")
    /\ ~(account # None /\ account = rec.scope.account /\ session = rec.scope.session)

\* Seeded fault: every journal moves on and is bound afresh to the next account.
TransferredAfresh(rec, next) ==
    {[p EXCEPT !.origin = LocalScope, !.scope = next, !.receipt = None] : p \in rec.pending}

\* Seeded fault: only the first link itself carries the journal over.
TransferredOnce(rec, next) ==
    IF rec.ownership = "never-linked" /\ rec.scope.account = None /\ next.account # None
      THEN {[p EXCEPT !.origin = p.scope, !.scope = next] : p \in rec.pending}
      ELSE {}

\* The journal at the scope boundary.  A pristine first link transfers it, with
\* its origin; a record no acknowledgement has reached keeps what was provably
\* never sent; every other journal is retired.
Transferred(rec, next) ==
    LET firstLink == /\ rec.ownership = "never-linked"
                     /\ rec.scope.account = None
                     /\ next.account # None
        NeverSent(p) ==
            /\ p.receipt = None
            /\ p.scope = rec.scope
            /\ IF p.origin = None THEN p.scope.account = None ELSE p.origin.account = None
    IN  IF firstLink
          THEN {[p EXCEPT !.origin = p.scope, !.scope = next] : p \in rec.pending}
        ELSE IF rec.ownership = "never-linked" /\ rec.anchor = None
          THEN {[p EXCEPT !.scope = next] : p \in {q \in rec.pending : NeverSent(q)}}
        ELSE {}

EnterScope(rec, account, session) ==
    LET next == [account |-> account, generation |-> rec.scope.generation + 1,
                 session |-> session]
        releases == account = None /\ rec.paused = "ownership-unconfirmed"
    IN  IF ~EntersScope(rec, account, session) THEN rec
        ELSE [rec EXCEPT
                !.held = IF releases THEN NothingHeld ELSE @,
                !.scope = next,
                !.anchor = None,
                !.pending = Transferred(rec, next),
                !.paused = IF account # None /\ rec.ownership # "never-linked"
                             THEN "ownership-unconfirmed"
                           ELSE IF releases THEN None ELSE @]

\* initialize on a wake: an ownership pause outside any account is released, and
\* so is an ordering hold of a signed-out record that may edit locally again.
Wake(rec) ==
    IF /\ rec.paused = "ordering-hold"
       /\ rec.ownership = "previous-account"
       /\ PermitsLocalEdit([rec EXCEPT !.paused = None])
      THEN [rec EXCEPT !.paused = None]
    ELSE IF rec.scope.account = None /\ rec.paused = "ownership-unconfirmed"
      THEN [rec EXCEPT !.held = NothingHeld, !.paused = None]
    ELSE rec

-----------------------------------------------------------------------------
(* acknowledge: a canonical document read, or returned by a write          *)

\* The receipt may not change lineage or step back.
AnchorAccepted(rec, reply) ==
    rec.anchor # None => /\ rec.anchor.lineage = reply.lineage
                         /\ rec.anchor.revision <= reply.revision

\* Seeded fault: the account's document replaces the record's.
MergedWithoutPending(rec, canonical) == canonical

\* What the account and the journal say of one field.
Versions(rec, canonical, f) ==
    {canonical[f]} \union
        {p.op : p \in {q \in rec.pending : q.scope = rec.scope /\ q.path = f}}

\* The journal merged into the document, request by request.  Merge is the join
\* of a total order, so every order of merging leaves the greatest version.
MergedPending(rec, canonical) ==
    [f \in Fields |->
        CHOOSE x \in Versions(rec, canonical, f) :
            \A y \in Versions(rec, canonical, f) : Absorbed(y, x)]

\* Seeded fault: a transferred request never gets a receipt to be sent with.
BoundNever(p, receipt) == p

\* A transferred request is bound to the first receipt of its account.
Bound(p, receipt) ==
    IF p.receipt = None /\ p.origin # None /\ p.origin.account = None
      THEN [p EXCEPT !.receipt = receipt] ELSE p

\* Seeded fault: an acknowledgement empties the journal.
StillPendingNever(rec, canonical) == {}

StillPending(rec, canonical) ==
    {p \in rec.pending : p.scope = rec.scope /\ SurvivesAck(p.op, canonical[p.path])}

\* The earlier owner's choices end here; a held choice the account now shows is
\* no longer held.
HeldAfterAck(rec, doc) ==
    [f \in Fields |->
        IF \/ rec.paused = "ownership-unconfirmed"
           \/ rec.paused # None /\ rec.held[f] = doc[f].value
          THEN None ELSE rec.held[f]]

\* Seeded fault: the ownership pause outlives the account's answer.
PauseAfterAckKept(rec, receipt, held) == ResolvedPause(rec, receipt, held)

PauseAfterAck(rec, receipt, held) ==
    IF rec.paused = "ownership-unconfirmed" THEN None
    ELSE ResolvedPause(rec, receipt, held)

\* Seeded fault: the record forgets that an account has answered it.
OwnershipKept(rec) == rec.ownership

OwnershipAfterAck(rec) ==
    IF rec.scope.account # None THEN "previous-account" ELSE rec.ownership

\* The caller has checked AnchorAccepted; `reply` is [lineage, revision, doc].
Acknowledge(rec, reply, captured) ==
    LET receipt == [lineage |-> reply.lineage, revision |-> reply.revision]
        doc == MergedPending(rec, reply.doc)
        held == HeldAfterAck(rec, doc)
    IN  IF captured # rec.scope THEN rec
        ELSE [rec EXCEPT
                !.doc = doc,
                !.anchor = receipt,
                !.pending = {Bound(p, receipt) : p \in StillPending(rec, reply.doc)},
                !.held = held,
                !.paused = PauseAfterAck(rec, receipt, held),
                !.ownership = OwnershipAfterAck(rec)]

-----------------------------------------------------------------------------
(* pendingSettingsRequest                                                  *)

Submittable(rec, p) == p.scope = rec.scope /\ p.receipt # None

Queue(rec) == {p \in rec.pending : Submittable(rec, p)}

\* The request of a queue that was appended first.
First(queue) == CHOOSE p \in queue : \A q \in queue : p.id[2] <= q.id[2]

\* The saved body, whose receipt and rank no retry ever renews.
RequestOf(p) ==
    [id |-> p.id, lineage |-> p.receipt.lineage, revision |-> p.receipt.revision,
     ops |-> [f \in {p.path} |-> p.op]]
=============================================================================
