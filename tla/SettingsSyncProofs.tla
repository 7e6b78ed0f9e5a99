-------------------------- MODULE SettingsSyncProofs ------------------------
(***************************************************************************)
(* What SettingsSync promises, for any number of devices, accounts, fields *)
(* and bounds: choices stay with their account, every answer and every     *)
(* anchored record fits the account's row, and no field of an anchored     *)
(* record falls in rank.                                                   *)
(*                                                                         *)
(* All of it follows from one inductive invariant, IInv, that relates the  *)
(* records of the devices, the sessions of their services, the requests on *)
(* their way, the accounts' rows and the choices that were made.  A step   *)
(* changes the state of one device (DeviceStep) or of one row (RowStep),   *)
(* so each action needs only what it does to that one.                     *)
(***************************************************************************)
EXTENDS SettingsSync, SettingsRowProofs, FiniteSetTheorems

-----------------------------------------------------------------------------
(* Greatest versions and finite journals.                                  *)

(***************************************************************************)
(* A finite set of versions of one field has a greatest one.               *)
(***************************************************************************)
LEMMA GreatestVersion ==
    ASSUME NEW S \in SUBSET OrderedField, IsFiniteSet(S), S # {}
    PROVE  \E x \in S : \A y \in S : Absorbed(y, x)
<1> DEFINE R == StrictSubsetOrdering(S)
           Topped(T) == \E x \in T : \A y \in T : Absorbed(y, x)
           Bad == {T \in SUBSET S : T # {} /\ ~Topped(T)}
<1>1. IsWellFoundedOn(R, SUBSET S)
  BY FS_StrictSubsetOrderingWellFounded, FS_FiniteSubsetsOfFinite
<1>2. ASSUME Bad # {} PROVE FALSE
  <2>1. PICK T \in Bad : \A U \in Bad : ~(<<U, T>> \in R)
    <3>1. Bad \subseteq SUBSET S
      OBVIOUS
    <3> HIDE DEF R, Bad
    <3> QED
      BY <1>1, <1>2, <3>1, WFMin
  <2>2. PICK x \in T : TRUE
    OBVIOUS
  <2> DEFINE U == T \ {x}
  <2>3. <<U, T>> \in R
    BY <2>1, <2>2 DEF StrictSubsetOrdering
  <2>4. U \notin Bad
    BY <2>1, <2>3
  <2>5. x \in OrderedField /\ \A y \in T : y \in OrderedField
    BY <2>1, <2>2
  <2>6. CASE U = {}
    <3>1. \A y \in T : y = x
      BY <2>6
    <3>2. \A y \in T : Absorbed(y, x)
      BY <2>5, <3>1, AbsorbedOrder
    <3> QED
      BY <2>1, <2>2, <3>2
  <2>7. CASE U # {}
    <3>1. PICK m \in U : \A y \in U : Absorbed(y, m)
      BY <2>1, <2>4, <2>7
    <3> DEFINE z == Merge(m, x)
    <3>2. m \in OrderedField /\ m \in T
      BY <2>5, <3>1
    <3>3. z \in T /\ z \in OrderedField
      BY <2>2, <2>5, <3>2, MergeChooses
    <3>4. Absorbed(m, z) /\ Absorbed(x, z)
      BY <2>5, <3>2, MergeIsJoin
    <3>5. ASSUME NEW y \in T PROVE Absorbed(y, z)
      <4>1. CASE y = x
        BY <3>4, <4>1
      <4>2. CASE y # x
        <5>1. Absorbed(y, m) /\ y \in OrderedField
          BY <2>5, <3>1, <4>2
        <5> HIDE DEF z
        <5> QED
          BY <5>1, <3>2, <3>3, <3>4, AbsorbedOrder
      <4> QED
        BY <4>1, <4>2
    <3> HIDE DEF z
    <3> QED
      BY <2>1, <3>3, <3>5
  <2> QED
    BY <2>6, <2>7
<1> QED
  BY <1>2

(***************************************************************************)
(* The image of a finite set is finite and no larger.                      *)
(***************************************************************************)
LEMMA ImageBound ==
    ASSUME NEW S, IsFiniteSet(S), NEW g, DOMAIN g = S
    PROVE  /\ IsFiniteSet({g[x] : x \in S})
           /\ Cardinality({g[x] : x \in S}) <= Cardinality(S)
<1> DEFINE T == {g[x] : x \in S}
           h == [x \in S |-> g[x]]
<1>1. h \in Surjection(S, T)
  BY DEF Surjection
<1> HIDE DEF h, T
<1>2. IsFiniteSet(T) /\ Cardinality(T) <= Cardinality(S)
  BY <1>1, FS_Surjection
<1> QED
  BY <1>2 DEF T

(***************************************************************************)
(* The merged document has, for every field, the greatest version that the *)
(* account and the journal know.                                           *)
(***************************************************************************)
LEMMA MergedMeans ==
    ASSUME NEW r, IsFiniteSet(r.pending), \A p \in r.pending : p.op \in OrderedField,
           NEW doc \in Doc, NEW f \in Fields
    PROVE  /\ Versions(r, doc, f) \subseteq OrderedField
           /\ MergedPending(r, doc)[f] \in Versions(r, doc, f)
           /\ MergedPending(r, doc)[f] \in OrderedField
           /\ \A y \in Versions(r, doc, f) : Absorbed(y, MergedPending(r, doc)[f])
<1> DEFINE J == {q \in r.pending : q.scope = r.scope /\ q.path = f}
           g == [p \in J |-> p.op]
           V == Versions(r, doc, f)
<1>1. doc[f] \in OrderedField
  BY DEF Doc
<1>2. V \subseteq OrderedField
  BY <1>1 DEF Versions
<1>3. IsFiniteSet(V)
  <2>1. IsFiniteSet(J)
    BY FS_Subset
  <2>2. IsFiniteSet({g[p] : p \in J})
    <3> HIDE DEF J
    <3>1. DOMAIN g = J
      OBVIOUS
    <3> HIDE DEF g
    <3> QED
      BY <2>1, <3>1, ImageBound
  <2>3. {g[p] : p \in J} = {p.op : p \in J}
    OBVIOUS
  <2>4. V = {p.op : p \in J} \union {doc[f]}
    BY DEF Versions
  <2> HIDE DEF g, J, V
  <2> QED
    BY <2>2, <2>3, <2>4, FS_AddElement
<1>4. doc[f] \in V
  BY DEF Versions
<1>5. \E x \in V : \A y \in V : Absorbed(y, x)
  <2> HIDE DEF V
  <2> QED
    BY <1>2, <1>3, <1>4, GreatestVersion
<1>6. MergedPending(r, doc)[f] = CHOOSE x \in V : \A y \in V : Absorbed(y, x)
  BY DEF MergedPending
<1> HIDE DEF V
<1>7. /\ MergedPending(r, doc)[f] \in V
      /\ \A y \in V : Absorbed(y, MergedPending(r, doc)[f])
  BY <1>5, <1>6
<1> QED
  BY <1>2, <1>7 DEF V

(***************************************************************************)
(* Only one version is the greatest.                                       *)
(***************************************************************************)
LEMMA MergedIs ==
    ASSUME NEW r, IsFiniteSet(r.pending), \A p \in r.pending : p.op \in OrderedField,
           NEW doc \in Doc, NEW f \in Fields,
           NEW x \in Versions(r, doc, f), \A y \in Versions(r, doc, f) : Absorbed(y, x)
    PROVE  MergedPending(r, doc)[f] = x
<1> DEFINE m == MergedPending(r, doc)[f]
<1>1. /\ m \in OrderedField /\ m \in Versions(r, doc, f) /\ x \in OrderedField
      /\ Absorbed(x, m)
  BY MergedMeans
<1>2. Absorbed(m, x)
  BY <1>1
<1> HIDE DEF m
<1>3. m = x
  BY <1>1, <1>2, AbsorbedOrder
<1> QED
  BY <1>3 DEF m

(***************************************************************************)
(* What is absorbed does not outrank, and what outranks absorbs; not to be *)
(* outranked is transitive.                                                *)
(***************************************************************************)
LEMMA RankFacts ==
    ASSUME NEW a \in OrderedField, NEW b \in OrderedField, NEW c \in OrderedField
    PROVE  /\ Absorbed(a, b) => ~Outranks(a, b)
           /\ Outranks(b, a) => Absorbed(a, b)
           /\ ~Outranks(a, a)
           /\ ~Outranks(a, b) /\ ~Outranks(b, c) => ~Outranks(a, c)
<1>1. Absorbed(a, b) => ~Outranks(a, b)
  BY AbsorbedMeans, StampsTotal
<1>2. Outranks(b, a) => Absorbed(a, b)
  BY AbsorbedMeans
<1>3. ~Outranks(a, a) /\ (~Outranks(a, b) /\ ~Outranks(b, c) => ~Outranks(a, c))
  BY DEF Outranks, OrderedField
<1> QED
  BY <1>1, <1>2, <1>3

-----------------------------------------------------------------------------
(* The inductive invariant, part by part.                                  *)

\* The bounds on edits, sign-ins, faults and 2.x writes.
Counts ==
    /\ count.edits \in 0..MaxEdits /\ count.logins \in 0..MaxLogins
    /\ count.faults \in 0..MaxFaults /\ count.legacy \in 0..MaxLegacyWrites
    /\ DOMAIN count = {"edits", "logins", "faults", "legacy"}

\* A receipt the settings function may have issued.
IssuedReceipt == [lineage : Lineages, revision : 0..MaxRevision]

\* A stored record has its type, a finite journal within its limit, and
\* receipts and bases that an account may have answered.
RecordType(r) ==
    /\ r \in Record
    /\ r.anchor \in IssuedReceipt \union {None}
    /\ IsFiniteSet(r.pending)
    /\ Cardinality(r.pending) <= MaxPending
    /\ \A p \in r.pending : /\ p.receipt \in IssuedReceipt \union {None}
                            /\ p.op.base \in 0..MaxRevision

\* The anchor and the journal belong to the account the record is scoped to.
OneHome(r) ==
    /\ r.anchor # None => r.anchor.lineage = r.scope.account
    /\ \A p \in r.pending :
         /\ p.scope = r.scope
         /\ p.receipt # None => p.receipt.lineage = r.scope.account

\* What a receipt, or its absence, says of an installation: an anchor is an
\* account's answer, so its record is linked and not waiting for ownership; a
\* linked record without an anchor has no journal and a linked journal has
\* receipts; the journal of an installation never linked has none, and was made
\* outside any account.
Provenance(r) ==
    /\ r.anchor # None => /\ r.ownership = "previous-account"
                          /\ r.paused # "ownership-unconfirmed"
    /\ r.ownership # "never-linked" =>
         /\ r.anchor = None => r.pending = {}
         /\ \A p \in r.pending : p.receipt # None
    /\ r.ownership = "never-linked" =>
         \A p \in r.pending :
            /\ p.receipt = None
            /\ p.origin = None => r.scope.account = None
            /\ p.origin # None => p.origin.account = None

\* The document shows at least what the journal holds, and a write identity
\* names one request.
JournalUnderDoc(r) ==
    /\ \A p \in r.pending : Absorbed(p.op, r.doc[p.path])
    /\ \A p, q \in r.pending : p.id = q.id => p = q

\* Before the first account answers, a switch that was ever set here still has
\* its request in the journal.
Kept(r) ==
    r.ownership = "never-linked" =>
        \A f \in Fields : r.doc[f].step > 0 => \E p \in r.pending : p.path = f /\ p.op = r.doc[f]

\* A record that has its account's answer is paused only over a held choice.
Reasoned(r) == r.anchor # None /\ r.paused # None => r.held # NothingHeld

\* Everything that is true of a stored record by itself.
RecordOK(r) ==
    /\ RecordType(r)
    /\ OneHome(r)
    /\ Provenance(r)
    /\ JournalUnderDoc(r)
    /\ Kept(r)
    /\ Reasoned(r)

\* Every record is right, and the installations ever linked are remembered.
RecordsOK ==
    /\ rec \in [Devices -> Record]
    /\ \A d \in Devices : RecordOK(rec[d])
    /\ linked = {d \in Devices : rec[d].ownership # "never-linked"}

\* Where a service may stand.
Pcs == {"off", "idle", "retire", "enter", "read", "readReply", "flush", "write",
        "writeReply", "leave", "leaving"}
\* Where a service works for an entered scope.
Exchange == {"read", "readReply", "flush", "write", "writeReply"}
\* What the settings function may answer.
Reply == [lineage : Accounts, revision : 0..MaxRevision, doc : Doc]
\* The state of one service.
Svc == [userId : Accounts \union {None}, atomicScope : Scope \union {None},
        atomicRetirementPending : BOOLEAN, pc : Pcs, session : 0..MaxLogins,
        req : Request \union {None}, reply : Reply \union {None}]

\* The session a service was started for, against the one the device stores.
SessionOK(s, stored, logins) ==
    /\ stored # None => stored.session <= logins
    /\ s.session <= logins
    /\ s.pc = "off" => s.userId = None /\ s.atomicScope = None
    /\ s.pc # "off" =>
         /\ s.userId \in Accounts
         /\ s.session > 0
         /\ stored # None => \/ stored.session = s.session /\ stored.account = s.userId
                             \/ stored.session > s.session
    /\ s.pc \in {"retire", "enter", "leave", "leaving"} => s.atomicScope = None
    /\ s.pc \in Exchange => s.atomicScope # None
    /\ s.atomicScope # None =>
          /\ s.atomicScope.account = s.userId
          /\ s.atomicScope.session = s.session
    /\ s.pc \in {"write", "writeReply"} => s.req \in Request
    /\ s.pc \in {"readReply", "writeReply"} => s.reply \in Reply

\* Every service is consistent with the session of its device.
SessionsOK ==
    /\ auth \in [Devices -> Session \union {None}]
    /\ svc \in [Devices -> Svc]
    /\ \A d \in Devices : SessionOK(svc[d], auth[d], count.logins)

\* The accounts start with rows whose schema-1 documents have a revision.
StartRowsNumbered ==
    \A rows \in StartRows : \A a \in Accounts : rows[a].kind = "legacy" => rows[a].version > 0

\* What a row has absorbed stays absorbed, and its revision has room left.
RowOK(a, r, used) ==
    /\ r \in Row
    /\ Revision(r) <= MaxRevision
    /\ r.kind # "modern" => Revision(r) + (MaxLegacyWrites - used) <= MaxRevision
    /\ StartRowsNumbered /\ r.kind = "legacy" => r.version > 0
    /\ \A w \in r.writes : /\ w.req.lineage = a
                           /\ Apply(Canonical(r), w.req.ops) = Canonical(r)

\* Every account's row is right.
RowsOK ==
    /\ row \in [Accounts -> Row]
    /\ \A a \in Accounts : RowOK(a, row[a], count.legacy)

\* The requests that have left a journal and may still count somewhere: in
\* flight, in an account's row, or in the hands of a service.
SentAway == {w.req : w \in inFlight}

\* The requests a row remembers.
ClaimedBy(r) == {w.req : w \in r.writes}

\* The requests that some row remembers.
Claimed == UNION {ClaimedBy(row[a]) : a \in Accounts}

\* A service that has sent a request and not yet dealt with its answer.
Writing(s) == s.pc \in {"write", "writeReply"}

\* The requests in the hands of a service.
InHand == {svc[d].req : d \in {e \in Devices : Writing(svc[e])}}

\* Every request that was sent and may still have an effect.
Sent == SentAway \union Claimed \union InHand

\* A choice may go to account a: it was made there, or on an installation that
\* no account had ever answered.
HomeOf(m, a) == m.account = a \/ (m.account = None /\ m.pristine)

\* Where the choices behind a journal's requests were made.
JournalHome(r, choices) ==
    \A p \in r.pending : \A m \in choices :
        m.id = p.id => IF p.receipt = None THEN m.account = None /\ m.pristine
                                           ELSE HomeOf(m, p.receipt.lineage)

\* A request that was sent is still the one the journal holds.
JournalSent(r, sent) ==
    \A p \in r.pending : \A q \in sent :
        p.id = q.id => p.receipt # None /\ q = RequestOf(p)

\* A journal holds requests of its own device, of choices already made.
JournalIds(d, r, edits) == \A p \in r.pending : p.id \in {d} \X (1..edits)

\* Every journal fits what was chosen and what was sent.
JournalsOK ==
    \A d \in Devices :
        /\ JournalIds(d, rec[d], count.edits)
        /\ JournalHome(rec[d], made)
        /\ JournalSent(rec[d], Sent)

\* A request was sent for one choice, to a home of it, and once: two requests
\* with the same identity are the same request.
SentOK ==
    /\ inFlight \subseteq [subject : Accounts, req : Request]
    /\ \A m \in made : m.id \in Devices \X (1..count.edits)
    /\ \A q \in Sent : q.id \in Devices \X (1..count.edits)
    /\ \A q \in Sent : \A m \in made : m.id = q.id => HomeOf(m, q.lineage)
    /\ \A p, q \in Sent : p.id = q.id => p = q

\* What an answer says of the account's row, now and later.
AnswerStands(reply, r) ==
    /\ reply.revision <= Revision(r)
    /\ StartRowsNumbered /\ reply.revision = Revision(r) => reply.doc = Canonical(r)
    /\ \A f \in Fields : ~Outranks(reply.doc[f], Canonical(r)[f])

\* A service that holds an answer.
Answered(s) == s.pc \in {"readReply", "writeReply"}

\* A held answer stands; unless its device is signed out or has a newer session,
\* it is the scoped account's; and the answer to a write has absorbed the write.
ReplyOK(s, stored, rows) ==
    Answered(s) =>
        /\ AnswerStands(s.reply, rows[s.reply.lineage])
        /\ \/ s.reply.lineage = s.atomicScope.account
           \/ stored = None
           \/ stored.session > s.session
        /\ s.pc = "writeReply" =>
              \A f \in DOMAIN s.req.ops : Absorbed(s.req.ops[f], s.reply.doc[f])

\* Every held answer is right.
RepliesOK == \A d \in Devices : ReplyOK(svc[d], auth[d], row)

\* Every field of r is one of the journal's or does not outrank the document's.
Covered(r, doc) ==
    \A f \in Fields :
        \/ \E p \in r.pending : p.path = f /\ p.op = r.doc[f]
        \/ ~Outranks(r.doc[f], doc[f])

\* What an anchored record shows, against the row of its account.
Anchored(r, accountRow) ==
    /\ r.anchor.revision <= Revision(accountRow)
    /\ StartRowsNumbered /\ r.anchor.revision = Revision(accountRow)
         => r.doc = MergedPending(r, Canonical(accountRow))
    /\ Covered(r, Canonical(accountRow))

\* An anchored record is right against its row, and stays so when it accepts the
\* answer its service holds.
AnchorOK(r, s, rows) ==
    r.anchor # None =>
        /\ Anchored(r, rows[r.anchor.lineage])
        /\ Answered(s) /\ AnchorAccepted(r, s.reply) => Covered(r, s.reply.doc)

\* Every anchored record is right.
AnchorsOK == \A d \in Devices : AnchorOK(rec[d], svc[d], row)

\* The inductive invariant.
IInv ==
    /\ Counts
    /\ RecordsOK
    /\ SessionsOK
    /\ RowsOK
    /\ JournalsOK
    /\ SentOK
    /\ RepliesOK
    /\ AnchorsOK

-----------------------------------------------------------------------------
(* Records: the writer's commit, scope changes and acknowledgements.       *)

(***************************************************************************)
(* The parts of a record and of its requests have their types.             *)
(***************************************************************************)
LEMMA RecordParts ==
    ASSUME NEW r \in Record
    PROVE  /\ r.doc \in Doc /\ r.ownership \in Ownerships /\ r.scope \in Scope
           /\ r.anchor \in Receipt \union {None} /\ r.pending \subseteq Pending
           /\ r.held \in [Fields -> BOOLEAN \union {None}]
           /\ r.paused \in Pauses \union {None}
  BY DEF Record

\* The fields of a document have their types.
LEMMA DocParts ==
    ASSUME NEW d \in Doc, NEW f \in Fields
    PROVE  /\ d[f] \in OrderedField /\ d[f].base \in Nat /\ d[f].step \in Nat
           /\ d[f].value \in BOOLEAN
  BY DEF Doc, OrderedField

\* The parts of a request in a journal have their types.
LEMMA PendingParts ==
    ASSUME NEW p \in Pending
    PROVE  /\ p.id \in Ids /\ p.scope \in Scope /\ p.origin \in Scope \union {None}
           /\ p.receipt \in Receipt \union {None} /\ p.path \in Fields
           /\ p.op \in Operation /\ p.op \in OrderedField
  BY MaxStepAssumption DEF Pending, Operation, OrderedField

(***************************************************************************)
(* A record without an account has no receipt.                             *)
(***************************************************************************)
LEMMA SignedOutMeans ==
    ASSUME NEW r, RecordOK(r), r.scope.account = None
    PROVE  /\ r.anchor = None
           /\ r.ownership # "never-linked" => r.pending = {}
<1>1. r \in Record
  BY DEF RecordOK, RecordType
<1>2. r.anchor = None
  BY <1>1, RecordParts, NoneAssumption DEF RecordOK, OneHome, Receipt
<1> QED
  BY <1>2 DEF RecordOK, Provenance

(***************************************************************************)
(* The journal a choice is saved into: the record's, without what a higher *)
(* rank of the same field supersedes while nothing was ever sent.          *)
(***************************************************************************)
LEMMA JournalMeans ==
    ASSUME NEW r, RecordOK(r)
    PROVE  /\ Journal(r) \subseteq r.pending
           /\ IsFiniteSet(Journal(r)) /\ Cardinality(Journal(r)) <= MaxPending
           /\ Cardinality(Journal(r)) \in Nat
           /\ r.anchor # None => Journal(r) = r.pending
           /\ \A f \in Fields :
                r.ownership = "never-linked" /\ r.doc[f].step > 0 =>
                    \E p \in Journal(r) : p.path = f /\ p.op = r.doc[f]
<1>1. r \in Record /\ IsFiniteSet(r.pending) /\ Cardinality(r.pending) <= MaxPending
  BY DEF RecordOK, RecordType
<1>2. /\ Journal(r) \subseteq r.pending
      /\ \A p \in r.pending : ~Superseded(r, p) => p \in Journal(r)
      /\ r.anchor # None => Journal(r) = r.pending
  BY DEF Journal, Compacted, Compactable, RecordOK, OneHome
<1>3. /\ IsFiniteSet(Journal(r)) /\ Cardinality(Journal(r)) \in Nat
      /\ Cardinality(Journal(r)) <= MaxPending
  <2>1. /\ Cardinality(r.pending) \in Nat /\ IsFiniteSet(Journal(r))
        /\ Cardinality(Journal(r)) <= Cardinality(r.pending)
    BY <1>1, <1>2, FS_Subset, FS_CardinalityType
  <2>2. Cardinality(Journal(r)) \in Nat
    BY <2>1, FS_CardinalityType
  <2> QED
    BY <1>1, <2>1, <2>2, SyncBoundsAssumption
<1>4. ASSUME NEW f \in Fields, r.ownership = "never-linked", r.doc[f].step > 0
      PROVE  \E p \in Journal(r) : p.path = f /\ p.op = r.doc[f]
  <2>1. PICK p \in r.pending : p.path = f /\ p.op = r.doc[f]
    BY <1>4 DEF RecordOK, Kept
  <2>2. \A q \in r.pending : q.path = f => ~Outranks(q.op, r.doc[f])
    BY <1>1, RecordParts, PendingParts, DocParts, RankFacts DEF RecordOK, JournalUnderDoc
  <2>3. ~Superseded(r, p)
    BY <2>1, <2>2 DEF Superseded
  <2> QED
    BY <1>2, <2>1, <2>3
<1> QED
  BY <1>2, <1>3, <1>4

(***************************************************************************)
(* A record that keeps its document, and its journal but for superseded    *)
(* requests, stays right.                                                  *)
(***************************************************************************)
LEMMA KeepOK ==
    ASSUME NEW r, RecordOK(r), NEW c \in Record,
           c.scope = r.scope, c.anchor = r.anchor, c.ownership = r.ownership,
           c.doc = r.doc, c.pending \in {r.pending, Journal(r)},
           c.anchor # None => c.paused # "ownership-unconfirmed",
           Reasoned(c)
    PROVE  RecordOK(c)
<1>1. c.pending \subseteq r.pending
  BY JournalMeans
<1>2. RecordType(c)
  <2>1. /\ r.anchor \in IssuedReceipt \union {None}
        /\ IsFiniteSet(c.pending)
        /\ Cardinality(c.pending) <= MaxPending
        /\ \A p \in r.pending : /\ p.receipt \in IssuedReceipt \union {None}
                                /\ p.op.base \in 0..MaxRevision
    BY JournalMeans DEF RecordOK, RecordType
  <2> QED
    BY <1>1, <2>1 DEF RecordType
<1>3. OneHome(c)
  BY <1>1 DEF RecordOK, OneHome
<1>4. Provenance(c)
  BY <1>1 DEF RecordOK, Provenance
<1>5. JournalUnderDoc(c)
  BY <1>1 DEF RecordOK, JournalUnderDoc
<1>6. Kept(c)
  <2>1. c.pending = r.pending => Kept(c)
    BY DEF RecordOK, Kept
  <2>2. \A f \in Fields :
           r.ownership = "never-linked" /\ r.doc[f].step > 0 =>
               \E p \in Journal(r) : p.path = f /\ p.op = r.doc[f]
    BY JournalMeans
  <2>3. c.pending = Journal(r) => Kept(c)
    BY <2>2 DEF Kept
  <2> QED
    BY <2>1, <2>3
<1> QED
  BY <1>2, <1>3, <1>4, <1>5, <1>6 DEF RecordOK

(***************************************************************************)
(* A record whose journal takes a choice of a higher rank stays right.     *)
(***************************************************************************)
LEMMA AddOK ==
    ASSUME NEW r, RecordOK(r), NEW c \in Record, NEW f \in Fields, NEW n \in Pending,
           c.scope = r.scope, c.anchor = r.anchor, c.ownership = r.ownership,
           c.doc = [r.doc EXCEPT ![f] = n.op],
           c.pending = Journal(r) \union {n},
           c.anchor # None => c.paused # "ownership-unconfirmed",
           Reasoned(c),
           HasRoom(r), Outranks(n.op, r.doc[f]),
           n.path = f, n.scope = r.scope, n.origin = None, n.receipt = r.anchor,
           n.op.base = AnchorRevision(r),
           \A p \in r.pending : p.id # n.id,
           r.scope.account = None => r.ownership = "never-linked",
           r.scope.account = None \/ r.anchor # None
    PROVE  RecordOK(c)
<1> DEFINE J == Journal(r)
<1>1. J \subseteq r.pending /\ IsFiniteSet(J) /\ Cardinality(J) \in Nat
  BY JournalMeans
<1>2. /\ r \in Record /\ r.anchor \in IssuedReceipt \union {None}
      /\ \A p \in r.pending : /\ p \in Pending
                              /\ p.receipt \in IssuedReceipt \union {None}
                              /\ p.op.base \in 0..MaxRevision
  BY DEF RecordOK, RecordType, Record
<1>3. RecordType(c)
  <2>1. Cardinality(J) < MaxPending /\ MaxPending \in Nat
    BY SyncBoundsAssumption DEF HasRoom
  <2>2. IsFiniteSet(c.pending) /\ Cardinality(c.pending) <= MaxPending
    <3> HIDE DEF J
    <3>1. c.pending = J \union {n}
      BY DEF J
    <3>2. IsFiniteSet(J \union {n})
      BY <1>1, FS_AddElement
    <3>3. Cardinality(J \union {n}) = IF n \in J THEN Cardinality(J) ELSE Cardinality(J) + 1
      BY <1>1, FS_AddElement
    <3>4. Cardinality(J \union {n}) <= MaxPending
      BY <1>1, <2>1, <3>3
    <3> QED
      BY <3>1, <3>2, <3>4
  <2>3. n.op.base \in 0..MaxRevision /\ n.receipt \in IssuedReceipt \union {None}
    BY <1>2, BoundsAssumption DEF AnchorRevision, IssuedReceipt
  <2>4. c.anchor \in IssuedReceipt \union {None}
    BY <1>2
  <2>5. \A p \in c.pending : /\ p.receipt \in IssuedReceipt \union {None}
                             /\ p.op.base \in 0..MaxRevision
    BY <1>1, <1>2, <2>3
  <2> QED
    BY <2>2, <2>4, <2>5 DEF RecordType
<1>4. OneHome(c)
  BY <1>1 DEF RecordOK, OneHome
<1>5. Provenance(c)
  <2>1. CASE r.scope.account = None
    <3>1. r.anchor = None /\ r.ownership = "never-linked"
      BY <2>1, SignedOutMeans
    <3> QED
      BY <1>1, <2>1, <3>1 DEF RecordOK, Provenance
  <2>2. CASE r.scope.account # None
    <3>1. r.anchor # None /\ r.ownership = "previous-account"
      BY <2>2 DEF RecordOK, Provenance
    <3> QED
      BY <1>1, <2>2, <3>1 DEF RecordOK, Provenance
  <2> QED
    BY <2>1, <2>2
<1>6. /\ n.op \in OrderedField /\ r.doc \in Doc /\ DOMAIN r.doc = Fields
      /\ c.doc[f] = n.op
      /\ \A g \in Fields : g # f => c.doc[g] = r.doc[g]
  BY <1>2, PendingParts DEF Record, Doc
<1>7. JournalUnderDoc(c)
  <2>1. ASSUME NEW p \in J PROVE Absorbed(p.op, c.doc[p.path])
    <3>1. /\ p \in r.pending /\ p.op \in OrderedField /\ p.path \in Fields
          /\ Absorbed(p.op, r.doc[p.path]) /\ r.doc[p.path] \in OrderedField
      BY <1>1, <1>2, <1>6, PendingParts, DocParts DEF RecordOK, JournalUnderDoc
    <3>2. CASE p.path = f
      <4>1. Absorbed(r.doc[f], n.op)
        BY <1>6, <3>1, <3>2, RankFacts
      <4> QED
        BY <1>6, <3>1, <3>2, <4>1, AbsorbedOrder
    <3>3. CASE p.path # f
      BY <1>6, <3>1, <3>3
    <3> QED
      BY <3>2, <3>3
  <2>2. Absorbed(n.op, c.doc[n.path])
    BY <1>6, AbsorbedOrder
  <2>3. \A p, q \in c.pending : p.id = q.id => p = q
    BY <1>1 DEF RecordOK, JournalUnderDoc
  <2> QED
    BY <2>1, <2>2, <2>3 DEF JournalUnderDoc
<1>8. Kept(c)
  <2> SUFFICES ASSUME c.ownership = "never-linked", NEW g \in Fields, c.doc[g].step > 0
               PROVE  \E p \in c.pending : p.path = g /\ p.op = c.doc[g]
    BY DEF Kept
  <2>1. CASE g = f
    BY <1>6, <2>1
  <2>2. CASE g # f
    <3>1. r.ownership = "never-linked" /\ r.doc[g].step > 0
      BY <1>6, <2>2
    <3>2. PICK p \in J : p.path = g /\ p.op = r.doc[g]
      BY <3>1, JournalMeans
    <3>3. p \in c.pending /\ c.doc[g] = r.doc[g]
      BY <1>6, <2>2, <3>2
    <3> QED
      BY <3>2, <3>3
  <2> QED
    BY <2>1, <2>2
<1> QED
  BY <1>3, <1>4, <1>5, <1>7, <1>8 DEF RecordOK

(***************************************************************************)
(* What saving a choice may do to a record: keep its document, change a    *)
(* field of a record without a journal, or add a request that outranks the *)
(* field.                                                                  *)
(***************************************************************************)
SameService(r, c) ==
    c.scope = r.scope /\ c.anchor = r.anchor /\ c.ownership = r.ownership

\* The document stays and the journal at most drops what is not its scope's.
Keeps(r, c) ==
    c.doc = r.doc /\ c.pending \in {r.pending, Journal(r)}

\* A field changes where no journal is kept.
EditsAlone(r, c, f) ==
    /\ r.anchor = None /\ r.ownership # "never-linked"
    /\ r.pending = {} /\ c.pending = {}
    /\ \E e \in OrderedField : c.doc = [r.doc EXCEPT ![f] = e]

\* A request is added for a field, and the field shows it.
Adds(r, c, f, n) ==
    /\ n \in Pending
    /\ n.path = f /\ n.scope = r.scope /\ n.origin = None /\ n.receipt = r.anchor
    /\ n.op.base = AnchorRevision(r) /\ Outranks(n.op, r.doc[f])
    /\ c.doc = [r.doc EXCEPT ![f] = n.op]
    /\ c.pending = Journal(r) \union {n}
    /\ r.scope.account = None => r.ownership = "never-linked"
    /\ r.scope.account = None \/ r.anchor # None

(***************************************************************************)
(* The local-only branch of a commit.                                      *)
(***************************************************************************)
LEMMA CommitLocalOK ==
    ASSUME NEW r, RecordOK(r), LocalOnly(r), NEW f \in Fields, NEW v \in BOOLEAN
    PROVE  LET c == CommitLocal(r, f, v)
           IN  /\ RecordOK(c) /\ SameService(r, c)
               /\ Keeps(r, c) \/ EditsAlone(r, c, f)
<1> DEFINE c == CommitLocal(r, f, v)
           e == Edited(r.doc[f], LocalRevision(r, f), v)
           held == [r.held EXCEPT ![f] = None]
<1>1. /\ r \in Record /\ r.ownership # "never-linked" /\ r.scope.account = None
      /\ r.anchor = None /\ r.pending = {}
  BY SignedOutMeans DEF RecordOK, RecordType, LocalOnly
<1>2. /\ r.doc \in Doc /\ r.held \in [Fields -> BOOLEAN \union {None}]
      /\ DOMAIN r.doc = Fields
  BY <1>1, RecordParts DEF Doc
<1>3. ASSUME NEW x \in Record, SameService(r, x), x.pending = {}
      PROVE  RecordOK(x)
  <2>1. RecordType(x) /\ OneHome(x) /\ Provenance(x)
    BY <1>1, <1>3, FS_EmptySet, SyncBoundsAssumption
       DEF SameService, RecordType, OneHome, Provenance
  <2>2. JournalUnderDoc(x) /\ Kept(x) /\ Reasoned(x)
    BY <1>1, <1>3 DEF SameService, JournalUnderDoc, Kept, Reasoned
  <2> QED
    BY <2>1, <2>2 DEF RecordOK
<1>4. CASE c = r
  BY <1>1, <1>4 DEF SameService, Keeps
<1>5. CASE c = [r EXCEPT !.held = held, !.doc = [r.doc EXCEPT ![f] = r.doc[f]]]
  <2>1. held \in [Fields -> BOOLEAN \union {None}]
    BY <1>2
  <2>2. [r.doc EXCEPT ![f] = r.doc[f]] = r.doc
    BY <1>2 DEF Doc
  <2> HIDE DEF held
  <2>3. /\ c \in Record /\ SameService(r, c) /\ c.pending = {} /\ c.doc = r.doc
    BY <1>1, <1>5, <2>1, <2>2 DEF Record, SameService
  <2> QED
    BY <1>1, <1>3, <2>3 DEF Keeps
<1>6. CASE /\ EditStatus(r.doc[f], LocalRevision(r, f), v) = "edited"
           /\ c = [r EXCEPT !.held = held, !.doc = [r.doc EXCEPT ![f] = e]]
  <2>1. LocalRevision(r, f) \in Nat /\ r.doc[f] \in OrderedField
    BY <1>2, DocParts DEF LocalRevision
  <2>2. e \in OrderedField
    BY <1>6, <2>1, EditWins
  <2>3. held \in [Fields -> BOOLEAN \union {None}] /\ [r.doc EXCEPT ![f] = e] \in Doc
    BY <1>2, <2>2 DEF Doc
  <2> HIDE DEF held, e
  <2>4. /\ c \in Record /\ SameService(r, c) /\ c.pending = {}
        /\ c.doc = [r.doc EXCEPT ![f] = e]
    BY <1>1, <1>6, <2>3 DEF Record, SameService
  <2> QED
    BY <1>1, <1>3, <2>2, <2>4 DEF EditsAlone
<1>7. \/ c = r
      \/ c = [r EXCEPT !.held = held, !.doc = [r.doc EXCEPT ![f] = r.doc[f]]]
      \/ /\ EditStatus(r.doc[f], LocalRevision(r, f), v) = "edited"
         /\ c = [r EXCEPT !.held = held, !.doc = [r.doc EXCEPT ![f] = e]]
  <2> DEFINE st == EditStatus(r.doc[f], LocalRevision(r, f), v)
  <2>1. st \in {"unchanged", "recovery", "hold", "edited"}
    BY DEF EditStatus
  <2>2. CASE ~PermitsLocalEdit(r) \/ st \in {"hold", "recovery"}
             \/ (r.doc[f].value = v /\ r.held[f] = None)
    BY <2>2 DEF CommitLocal
  <2>3. CASE ~(~PermitsLocalEdit(r) \/ st \in {"hold", "recovery"}
               \/ (r.doc[f].value = v /\ r.held[f] = None))
    <3>1. c = [r EXCEPT !.held = held,
                        !.doc = [r.doc EXCEPT ![f] = IF st = "edited" THEN e ELSE r.doc[f]]]
      BY <2>3 DEF CommitLocal
    <3> HIDE DEF c, held, e
    <3>2. CASE st = "edited"
      BY <3>1, <3>2
    <3>3. CASE st # "edited"
      BY <3>1, <3>3
    <3> QED
      BY <3>2, <3>3
  <2> QED
    BY <2>2, <2>3
<1> QED
  BY <1>4, <1>5, <1>6, <1>7

(***************************************************************************)
(* Which pause a saved choice leaves: a reason that stands, or none.       *)
(***************************************************************************)
LEMMA ResolvedPauseMeans ==
    ASSUME NEW r, RecordOK(r), NEW held \in [Fields -> BOOLEAN \union {None}]
    PROVE  /\ ResolvedPause(r, r.anchor, held) \in Pauses \union {None}
           /\ r.anchor # None /\ ResolvedPause(r, r.anchor, held) # None
                => /\ held # NothingHeld
                   /\ ResolvedPause(r, r.anchor, held) # "ownership-unconfirmed"
<1>1. /\ r.paused \in Pauses \union {None}
      /\ r.anchor # None => r.paused # "ownership-unconfirmed"
  BY RecordParts DEF RecordOK, RecordType, Provenance
<1> QED
  BY <1>1 DEF ResolvedPause

(***************************************************************************)
(* The branches of a commit that may queue a request.                      *)
(***************************************************************************)
LEMMA CommitQueuedOK ==
    ASSUME NEW r, RecordOK(r), ~LocalOnly(r), NEW f \in Fields, NEW v \in BOOLEAN,
           NEW id \in Ids, \A p \in r.pending : p.id # id
    PROVE  LET c == CommitQueued(r, f, v, id)
           IN  /\ RecordOK(c) /\ SameService(r, c)
               /\ Keeps(r, c) \/ \E n : Adds(r, c, f, n) /\ n.id = id
<1> DEFINE c == CommitQueued(r, f, v, id)
           ack == AnchorRevision(r)
           e == Edited(r.doc[f], ack, v)
           cleared == [r.held EXCEPT ![f] = None]
           n == [id |-> id, scope |-> r.scope, origin |-> None,
                 receipt |-> r.anchor, path |-> f, op |-> e]
           st == EditStatus(r.doc[f], ack, v)
           J == Journal(r)
           resolved == ResolvedPause(r, r.anchor, cleared)
<1>1. /\ r \in Record /\ r.anchor \in IssuedReceipt \union {None}
      /\ r.anchor # None => r.paused # "ownership-unconfirmed"
      /\ Reasoned(r)
  BY DEF RecordOK, RecordType, Provenance
<1>2. /\ r.doc \in Doc /\ r.doc[f] \in OrderedField /\ r.scope \in Scope
      /\ r.held \in [Fields -> BOOLEAN \union {None}] /\ r.anchor \in Receipt \union {None}
      /\ r.paused \in Pauses \union {None} /\ r.pending \subseteq Pending
      /\ DOMAIN r.doc = Fields
  BY <1>1, RecordParts, DocParts DEF Doc
<1>3. cleared \in [Fields -> BOOLEAN \union {None}]
  BY <1>2
<1>4. /\ resolved \in Pauses \union {None}
      /\ r.anchor # None /\ resolved # None
           => cleared # NothingHeld /\ resolved # "ownership-unconfirmed"
  <2> HIDE DEF cleared
  <2> QED
    BY <1>3, ResolvedPauseMeans
<1>5. J \subseteq Pending
  BY <1>2, JournalMeans
<1>6. ack \in Nat
  BY <1>2 DEF AnchorRevision, Receipt
<1>7. CASE c = r
  BY <1>7 DEF SameService, Keeps
<1>8. CASE /\ st = "edited" /\ HasRoom(r) /\ (r.scope.account = None \/ r.anchor # None)
           /\ c = [r EXCEPT !.doc = [r.doc EXCEPT ![f] = e], !.held = cleared,
                            !.paused = resolved, !.pending = J \union {n}]
  <2>1. e \in OrderedField /\ e.step >= 1 /\ Outranks(e, r.doc[f]) /\ e.base = ack
    <3>1. e.base = ack
      BY DEF Edited
    <3> HIDE DEF ack
    <3> QED
      BY <1>2, <1>6, <1>8, <3>1, EditWins
  <2>2. e \in Operation
    BY <2>1, MaxStepAssumption DEF Operation, OrderedField
  <2> HIDE DEF e, cleared, resolved, J, ack, st
  <2>3. /\ n \in Pending /\ n.path = f /\ n.scope = r.scope /\ n.origin = None
        /\ n.receipt = r.anchor /\ n.op = e /\ n.id = id
    BY <1>2, <2>2 DEF Pending
  <2>4. [r.doc EXCEPT ![f] = e] \in Doc
    BY <1>2, <2>1 DEF Doc
  <2> HIDE DEF n
  <2>5. J \union {n} \subseteq Pending
    BY <1>5, <2>3
  <2>6. /\ c \in Record /\ c.doc = [r.doc EXCEPT ![f] = n.op] /\ c.held = cleared
        /\ c.paused = resolved /\ c.pending = J \union {n} /\ SameService(r, c)
    <3>1. c.doc = [r.doc EXCEPT ![f] = n.op] /\ c.held = cleared
      BY <1>1, <1>8, <2>3 DEF Record
    <3>2. c.paused = resolved /\ c.pending = J \union {n}
      BY <1>1, <1>8 DEF Record
    <3>3. SameService(r, c)
      BY <1>1, <1>8 DEF Record, SameService
    <3>4. c \in Record
      <4> DEFINE doc == [r.doc EXCEPT ![f] = e]
                 queue == J \union {n}
      <4>1. c = [r EXCEPT !.doc = doc, !.held = cleared, !.paused = resolved, !.pending = queue]
        BY <1>8
      <4>2. doc \in Doc /\ queue \in SUBSET Pending
        BY <2>4, <2>5
      <4> HIDE DEF doc, queue, c
      <4>3. /\ r \in Record /\ cleared \in [Fields -> BOOLEAN \union {None}]
            /\ resolved \in Pauses \union {None}
        BY <1>1, <1>3, <1>4
      <4> QED
        BY <4>1, <4>2, <4>3 DEF Record
    <3> QED
      BY <3>1, <3>2, <3>3, <3>4
  <2>7. Reasoned(c) /\ (c.anchor # None => c.paused # "ownership-unconfirmed")
    BY <1>4, <2>6, NoneAssumption DEF Reasoned, SameService, Pauses
  <2>8. r.scope.account = None => r.ownership = "never-linked"
    BY SignedOutMeans, RecordParts, <1>1 DEF LocalOnly, Ownerships
  <2>9. Adds(r, c, f, n)
    BY <1>8, <2>1, <2>3, <2>6, <2>8 DEF Adds, ack, J
  <2>10. RecordOK(c)
    <3>1. /\ c.scope = r.scope /\ c.anchor = r.anchor /\ c.ownership = r.ownership
          /\ n \in Pending /\ n.path = f /\ n.scope = r.scope /\ n.origin = None
          /\ n.receipt = r.anchor /\ n.op.base = AnchorRevision(r)
          /\ Outranks(n.op, r.doc[f]) /\ c.doc = [r.doc EXCEPT ![f] = n.op]
          /\ c.pending = Journal(r) \union {n}
          /\ r.scope.account = None => r.ownership = "never-linked"
          /\ r.scope.account = None \/ r.anchor # None
      BY <2>6, <2>9 DEF Adds, SameService
    <3>2. HasRoom(r) /\ c \in Record /\ Reasoned(c)
      BY <1>8, <2>6, <2>7
    <3>3. \A p \in r.pending : p.id # n.id
      BY <2>3
    <3>4. c.anchor # None => c.paused # "ownership-unconfirmed"
      BY <2>7
    <3> HIDE DEF c
    <3> QED
      BY <3>1, <3>2, <3>3, <3>4, AddOK
  <2> QED
    BY <2>3, <2>6, <2>9, <2>10
<1>9. CASE c = [r EXCEPT !.held = cleared, !.pending = J, !.paused = resolved]
  <2> HIDE DEF cleared, resolved, J
  <2>1. /\ c \in Record /\ c.doc = r.doc /\ c.held = cleared
        /\ c.paused = resolved /\ c.pending = J /\ SameService(r, c)
    BY <1>1, <1>3, <1>4, <1>5, <1>9 DEF Record, SameService
  <2>2. Reasoned(c) /\ (c.anchor # None => c.paused # "ownership-unconfirmed")
    BY <1>4, <2>1, NoneAssumption DEF Reasoned, SameService, Pauses
  <2>3. Keeps(r, c)
    BY <2>1 DEF Keeps, J
  <2>4. RecordOK(c)
    BY <2>1, <2>2, <2>3, KeepOK DEF Keeps, SameService
  <2> QED
    BY <2>1, <2>3, <2>4
<1>10. CASE c = [r EXCEPT !.held = [r.held EXCEPT ![f] = v], !.pending = J,
                          !.paused = HoldReason(r)]
  <2> DEFINE held == [r.held EXCEPT ![f] = v]
             why == HoldReason(r)
  <2>1. held \in [Fields -> BOOLEAN \union {None}] /\ held[f] = v
    BY <1>2
  <2>2. held # NothingHeld
    BY <2>1, NoneAssumption DEF NothingHeld
  <2>3. why \in Pauses /\ (r.anchor # None => why # "ownership-unconfirmed")
    BY <1>1 DEF HoldReason, Pauses
  <2> HIDE DEF held, why, J
  <2>4. c = [r EXCEPT !.held = held, !.pending = J, !.paused = why]
    BY <1>10 DEF held, why
  <2>5. /\ c \in Record /\ c.doc = r.doc /\ c.held = held
        /\ c.paused = why /\ c.pending = J /\ SameService(r, c)
    BY <1>1, <1>5, <2>1, <2>3, <2>4 DEF Record, SameService
  <2>6. Reasoned(c) /\ (c.anchor # None => c.paused # "ownership-unconfirmed")
    BY <2>2, <2>3, <2>5 DEF Reasoned, SameService
  <2>7. Keeps(r, c)
    BY <2>5 DEF Keeps, J
  <2>8. RecordOK(c)
    BY <2>5, <2>6, <2>7, KeepOK DEF Keeps, SameService
  <2> QED
    BY <2>5, <2>7, <2>8
<1>11. \/ c = r
       \/ /\ st = "edited" /\ HasRoom(r) /\ (r.scope.account = None \/ r.anchor # None)
          /\ c = [r EXCEPT !.doc = [r.doc EXCEPT ![f] = e], !.held = cleared,
                           !.paused = resolved, !.pending = J \union {n}]
       \/ c = [r EXCEPT !.held = cleared, !.pending = J, !.paused = resolved]
       \/ c = [r EXCEPT !.held = [r.held EXCEPT ![f] = v], !.pending = J,
                        !.paused = HoldReason(r)]
  BY Zenon DEF CommitQueued
<1> QED
  BY <1>7, <1>8, <1>9, <1>10, <1>11

(***************************************************************************)
(* Saving a choice keeps a record right.                                   *)
(***************************************************************************)
LEMMA CommitOK ==
    ASSUME NEW r, RecordOK(r), NEW f \in Fields, NEW v \in BOOLEAN,
           NEW id \in Ids, \A p \in r.pending : p.id # id
    PROVE  LET c == Commit(r, f, v, id)
           IN  /\ RecordOK(c) /\ SameService(r, c)
               /\ \/ Keeps(r, c) \/ EditsAlone(r, c, f)
                  \/ \E n : Adds(r, c, f, n) /\ n.id = id
<1>1. CASE LocalOnly(r)
  BY <1>1, CommitLocalOK DEF Commit
<1>2. CASE ~LocalOnly(r)
  BY <1>2, CommitQueuedOK DEF Commit
<1> QED
  BY <1>1, <1>2

(***************************************************************************)
(* A journal that crosses a scope boundary is the old one, request by      *)
(* request, with the scope changed, and none of it was ever sent; what an  *)
(* account has acknowledged leaves nothing behind.                         *)
(***************************************************************************)
Moved(p, t, next) ==
    /\ p.receipt = None /\ t.receipt = None
    /\ t.id = p.id /\ t.path = p.path /\ t.op = p.op
    /\ t.scope = next
    /\ t.origin # None /\ t.origin.account = None

\* What Transferred returns: nothing from a linked installation, the whole
\* journal, moved, from one never linked.
LEMMA TransferredMeans ==
    ASSUME NEW r, RecordOK(r), NEW next \in Scope,
           EntersScope(r, next.account, next.session)
    PROVE  /\ Transferred(r, next) \subseteq Pending
           /\ r.ownership # "never-linked" => Transferred(r, next) = {}
           /\ r.ownership = "never-linked" =>
                \E g : /\ DOMAIN g = r.pending
                       /\ Transferred(r, next) = {g[p] : p \in r.pending}
                       /\ \A p \in r.pending : Moved(p, g[p], next)
<1> DEFINE T == Transferred(r, next)
<1>1. /\ r \in Record /\ r.scope \in Scope /\ r.pending \subseteq Pending
      /\ \A p \in r.pending : p.scope = r.scope
      /\ r.ownership = "never-linked" =>
            /\ r.anchor = None
            /\ \A p \in r.pending :
                  /\ p.receipt = None
                  /\ p.origin = None => r.scope.account = None
                  /\ p.origin # None => p.origin.account = None
  BY RecordParts DEF RecordOK, RecordType, OneHome, Provenance
<1>2. CASE r.ownership # "never-linked"
  <2>1. T = {}
    BY <1>2 DEF Transferred
  <2> QED
    BY <1>2, <2>1
<1>3. CASE r.ownership = "never-linked" /\ r.scope.account = None
  <2> DEFINE g == [p \in r.pending |-> [p EXCEPT !.origin = p.scope, !.scope = next]]
  <2>1. next.account # None
    BY <1>3 DEF EntersScope
  <2>2. T = {[p EXCEPT !.origin = p.scope, !.scope = next] : p \in r.pending}
    BY <1>3, <2>1 DEF Transferred
  <2>3. \A p \in r.pending : g[p] = [p EXCEPT !.origin = p.scope, !.scope = next]
    OBVIOUS
  <2>4. T = {g[p] : p \in r.pending}
    BY <2>2, <2>3
  <2>5. ASSUME NEW p \in r.pending PROVE g[p] \in Pending /\ Moved(p, g[p], next)
    <3>1. p \in Pending /\ p.receipt = None /\ p.scope = r.scope
      BY <1>1, <1>3
    <3>2. r.scope # None /\ r.scope \in Scope
      BY <1>1, NoScopeAssumption
    <3> HIDE DEF g
    <3> QED
      BY <1>3, <2>3, <3>1, <3>2 DEF Pending, Moved
  <2>6. DOMAIN g = r.pending
    OBVIOUS
  <2> HIDE DEF g, T
  <2> QED
    BY <1>3, <2>4, <2>5, <2>6 DEF T
<1>4. CASE r.ownership = "never-linked" /\ r.scope.account # None
  <2> DEFINE g == [p \in r.pending |-> [p EXCEPT !.scope = next]]
             NeverSent(p) ==
                /\ p.receipt = None
                /\ p.scope = r.scope
                /\ IF p.origin = None THEN p.scope.account = None ELSE p.origin.account = None
  <2>1. \A p \in r.pending : NeverSent(p)
    BY <1>1, <1>4
  <2>2. T = {[p EXCEPT !.scope = next] : p \in {q \in r.pending : NeverSent(q)}}
    BY <1>1, <1>4 DEF Transferred
  <2>3. {q \in r.pending : NeverSent(q)} = r.pending
    BY <2>1
  <2>4. T = {[p EXCEPT !.scope = next] : p \in r.pending}
    BY <2>2, <2>3
  <2>5. \A p \in r.pending : g[p] = [p EXCEPT !.scope = next]
    OBVIOUS
  <2>6. T = {g[p] : p \in r.pending}
    BY <2>4, <2>5
  <2>7. ASSUME NEW p \in r.pending PROVE g[p] \in Pending /\ Moved(p, g[p], next)
    <3>1. p \in Pending /\ p.receipt = None /\ p.origin # None /\ p.origin.account = None
      BY <1>1, <1>4
    <3> HIDE DEF g
    <3> QED
      BY <2>5, <3>1 DEF Pending, Moved
  <2>8. DOMAIN g = r.pending
    OBVIOUS
  <2> HIDE DEF g, T
  <2> QED
    BY <1>4, <2>6, <2>7, <2>8 DEF T
<1> QED
  BY <1>2, <1>3, <1>4

(***************************************************************************)
(* Entering a scope keeps a record right and its document as it was; of    *)
(* the journal only what no account has seen goes along.                   *)
(***************************************************************************)
Crosses(r, e) ==
    /\ e.doc = r.doc /\ e.ownership = r.ownership /\ e.anchor = None
    /\ \A t \in e.pending :
          t.receipt = None /\ \E p \in r.pending : p.id = t.id /\ p.receipt = None

\* EnterScope keeps a record right, and either changes nothing or crosses.
LEMMA EnterScopeOK ==
    ASSUME NEW r, RecordOK(r), NEW a \in Accounts \union {None},
           NEW s \in 1..MaxLogins \union {None}
    PROVE  LET e == EnterScope(r, a, s)
           IN  /\ RecordOK(e)
               /\ e = r \/ Crosses(r, e)
               /\ e.scope.account = a
               /\ a # None => e.scope.session = s
<1> DEFINE e == EnterScope(r, a, s)
           next == [account |-> a, generation |-> r.scope.generation + 1, session |-> s]
           T == Transferred(r, next)
<1>1. /\ r \in Record /\ r.scope \in Scope /\ IsFiniteSet(r.pending)
      /\ Cardinality(r.pending) <= MaxPending
      /\ \A p \in r.pending : p.op.base \in 0..MaxRevision
  BY RecordParts DEF RecordOK, RecordType
<1>2. CASE ~EntersScope(r, a, s)
  <2>1. e = r
    BY <1>2 DEF EnterScope
  <2> QED
    BY <1>2, <2>1 DEF EntersScope
<1>3. CASE EntersScope(r, a, s)
  <2> DEFINE releases == a = None /\ r.paused = "ownership-unconfirmed"
             held == IF releases THEN NothingHeld ELSE r.held
             paused == IF a # None /\ r.ownership # "never-linked"
                         THEN "ownership-unconfirmed"
                       ELSE IF releases THEN None ELSE r.paused
  <2>1. next \in Scope /\ next.account = a /\ next.session = s
    BY <1>1 DEF Scope
  <2>2. held \in [Fields -> BOOLEAN \union {None}] /\ paused \in Pauses \union {None}
    BY <1>1, RecordParts DEF NothingHeld, Pauses
  <2>3. e = [r EXCEPT !.held = held, !.scope = next, !.anchor = None,
                      !.pending = T, !.paused = paused]
    BY <1>3, Zenon DEF EnterScope
  <2> HIDE DEF held, paused, next
  <2>4. /\ T \subseteq Pending
        /\ r.ownership # "never-linked" => T = {}
        /\ r.ownership = "never-linked" =>
             \E g : /\ DOMAIN g = r.pending
                    /\ T = {g[p] : p \in r.pending}
                    /\ \A p \in r.pending : Moved(p, g[p], next)
    BY <1>3, <2>1, TransferredMeans
  <2> HIDE DEF T
  <2>5. /\ e \in Record /\ e.doc = r.doc /\ e.ownership = r.ownership
        /\ e.scope = next /\ e.anchor = None /\ e.pending = T
    BY <1>1, <2>1, <2>2, <2>3, <2>4 DEF Record
  <2> HIDE DEF e
  <2>6. CASE r.ownership # "never-linked"
    <3>1. T = {}
      BY <2>4, <2>6
    <3>2. RecordType(e)
      BY <2>5, <3>1, FS_EmptySet, SyncBoundsAssumption DEF RecordType
    <3>3. OneHome(e) /\ Provenance(e) /\ JournalUnderDoc(e) /\ Kept(e) /\ Reasoned(e)
      BY <2>5, <2>6, <3>1 DEF OneHome, Provenance, JournalUnderDoc, Kept, Reasoned
    <3> QED
      BY <2>1, <2>5, <3>1, <3>2, <3>3 DEF RecordOK, Crosses, e
  <2>7. CASE r.ownership = "never-linked"
    <3>1. PICK g : /\ DOMAIN g = r.pending
                   /\ T = {g[p] : p \in r.pending}
                   /\ \A p \in r.pending : Moved(p, g[p], next)
      BY <2>4, <2>7
    <3>2. IsFiniteSet(T) /\ Cardinality(T) <= MaxPending
      <4>1. IsFiniteSet(T) /\ Cardinality(T) <= Cardinality(r.pending)
        BY <1>1, <3>1, ImageBound
      <4>2. Cardinality(T) \in Nat /\ Cardinality(r.pending) \in Nat
        BY <1>1, <4>1, FS_CardinalityType
      <4> QED
        BY <1>1, <4>1, <4>2, SyncBoundsAssumption
    <3>3. RecordType(e)
      <4>1. \A t \in T : t.receipt = None /\ t.op.base \in 0..MaxRevision
        BY <1>1, <3>1 DEF Moved
      <4> QED
        BY <2>5, <3>2, <4>1 DEF RecordType
    <3>4. OneHome(e)
      BY <2>5, <3>1 DEF OneHome, Moved
    <3>5. Provenance(e)
      BY <2>5, <2>7, <3>1 DEF Provenance, Moved
    <3>6. JournalUnderDoc(e)
      BY <2>5, <3>1 DEF RecordOK, JournalUnderDoc, Moved
    <3>7. Kept(e)
      <4> SUFFICES ASSUME NEW f \in Fields, e.doc[f].step > 0
                   PROVE  \E t \in e.pending : t.path = f /\ t.op = e.doc[f]
        BY DEF Kept
      <4>1. PICK p \in r.pending : p.path = f /\ p.op = r.doc[f]
        BY <2>5, <2>7 DEF RecordOK, Kept
      <4>2. g[p] \in e.pending /\ g[p].path = f /\ g[p].op = e.doc[f]
        BY <2>5, <3>1, <4>1 DEF Moved
      <4> QED
        BY <4>2
    <3>8. Reasoned(e)
      BY <2>5 DEF Reasoned
    <3>9. Crosses(r, e)
      BY <2>5, <3>1 DEF Crosses, Moved
    <3>10. RecordOK(e)
      BY <3>3, <3>4, <3>5, <3>6, <3>7, <3>8 DEF RecordOK
    <3> QED
      BY <2>1, <2>5, <3>9, <3>10 DEF e
  <2> QED
    BY <2>6, <2>7
<1> QED
  BY <1>2, <1>3

(***************************************************************************)
(* Waking releases pauses, and nothing else.                               *)
(***************************************************************************)
LEMMA WakeOK ==
    ASSUME NEW r, RecordOK(r)
    PROVE  /\ RecordOK(Wake(r)) /\ SameService(r, Wake(r))
           /\ Wake(r).doc = r.doc /\ Wake(r).pending = r.pending
<1> DEFINE w == Wake(r)
<1>1. r \in Record /\ r.pending \in {r.pending, Journal(r)}
  BY DEF RecordOK, RecordType
<1>2. CASE w = r
  BY <1>2 DEF SameService
<1>3. CASE w = [r EXCEPT !.paused = None]
  <2>1. /\ w \in Record /\ SameService(r, w) /\ w.doc = r.doc /\ w.pending = r.pending
        /\ w.paused = None
    BY <1>1, <1>3 DEF Record, SameService
  <2>2. Reasoned(w) /\ w.paused # "ownership-unconfirmed"
    BY <2>1, NoneAssumption DEF Reasoned, Pauses
  <2>3. RecordOK(w)
    BY <1>1, <2>1, <2>2, KeepOK DEF SameService
  <2> QED
    BY <2>1, <2>3
<1>4. CASE w = [r EXCEPT !.held = NothingHeld, !.paused = None]
  <2>0. NothingHeld \in [Fields -> BOOLEAN \union {None}]
    BY DEF NothingHeld
  <2>1. /\ w \in Record /\ SameService(r, w) /\ w.doc = r.doc /\ w.pending = r.pending
        /\ w.paused = None
    BY <1>1, <1>4, <2>0 DEF Record, SameService
  <2>2. Reasoned(w) /\ w.paused # "ownership-unconfirmed"
    BY <2>1, NoneAssumption DEF Reasoned, Pauses
  <2>3. RecordOK(w)
    BY <1>1, <2>1, <2>2, KeepOK DEF SameService
  <2> QED
    BY <2>1, <2>3
<1>5. w = r \/ w = [r EXCEPT !.paused = None] \/ w = [r EXCEPT !.held = NothingHeld, !.paused = None]
  BY DEF Wake
<1> QED
  BY <1>2, <1>3, <1>4, <1>5

(***************************************************************************)
(* An acknowledgement of a record that serves the answer's account: the    *)
(* journal keeps what survives, bound, and the document is the account's   *)
(* with that journal on top.                                               *)
(***************************************************************************)
LEMMA BoundMeans ==
    ASSUME NEW r, RecordOK(r), r.scope.account # None, NEW receipt \in IssuedReceipt,
           NEW p \in r.pending
    PROVE  /\ Bound(p, receipt) \in Pending
           /\ Bound(p, receipt).id = p.id /\ Bound(p, receipt).path = p.path
           /\ Bound(p, receipt).op = p.op /\ Bound(p, receipt).scope = p.scope
           /\ p.receipt # None => Bound(p, receipt) = p
           /\ p.receipt = None => Bound(p, receipt).receipt = receipt
<1>1. /\ p \in Pending
      /\ p.receipt = None => p.origin # None /\ p.origin.account = None
  BY RecordParts DEF RecordOK, RecordType, Provenance
<1>2. receipt \in Receipt
  BY DEF IssuedReceipt, Receipt
<1>3. CASE p.receipt # None
  BY <1>1, <1>3 DEF Bound, Pending
<1>4. CASE p.receipt = None
  <2>1. Bound(p, receipt) = [p EXCEPT !.receipt = receipt]
    BY <1>1, <1>4 DEF Bound
  <2> QED
    BY <1>1, <1>2, <1>4, <2>1 DEF Pending
<1> QED
  BY <1>3, <1>4

\* what an acknowledgement does to the journal
Settles(r, k, reply) ==
    /\ k.scope = r.scope
    /\ k.anchor = [lineage |-> reply.lineage, revision |-> reply.revision]
    /\ k.ownership = "previous-account"
    /\ k.doc = MergedPending(r, reply.doc)
    /\ \A b \in k.pending : \E p \in r.pending :
         /\ b = Bound(p, k.anchor)
         /\ SurvivesAck(p.op, reply.doc[p.path])
    /\ \A p \in r.pending :
         SurvivesAck(p.op, reply.doc[p.path]) => Bound(p, k.anchor) \in k.pending

\* Acknowledge keeps a record right and settles its journal.
LEMMA AcknowledgeOK ==
    ASSUME NEW r, RecordOK(r), NEW reply \in Reply,
           r.scope.account = reply.lineage
    PROVE  LET k == Acknowledge(r, reply, r.scope)
           IN  RecordOK(k) /\ Settles(r, k, reply)
<1> DEFINE k == Acknowledge(r, reply, r.scope)
           receipt == [lineage |-> reply.lineage, revision |-> reply.revision]
           doc == MergedPending(r, reply.doc)
           S == StillPending(r, reply.doc)
           J == {Bound(p, receipt) : p \in S}
           held == HeldAfterAck(r, doc)
           paused == PauseAfterAck(r, receipt, held)
           owner == OwnershipAfterAck(r)
<1>1. /\ r \in Record /\ IsFiniteSet(r.pending) /\ Cardinality(r.pending) <= MaxPending
      /\ r.pending \subseteq Pending /\ r.scope \in Scope
      /\ r.held \in [Fields -> BOOLEAN \union {None}] /\ r.paused \in Pauses \union {None}
      /\ \A p \in r.pending : /\ p.scope = r.scope
                              /\ p.op \in OrderedField /\ p.path \in Fields
                              /\ p.receipt \in IssuedReceipt \union {None}
                              /\ p.op.base \in 0..MaxRevision
  BY RecordParts, PendingParts DEF RecordOK, RecordType, OneHome
<1>2. /\ reply.doc \in Doc /\ receipt \in IssuedReceipt /\ receipt \in Receipt
      /\ receipt.lineage = reply.lineage /\ receipt.revision = reply.revision
  BY DEF Reply, IssuedReceipt, Receipt, Accounts
<1>3. r.scope.account # None /\ receipt # None
  BY <1>2, NoneAssumption DEF Reply, Accounts
<1>4. doc \in Doc
  <2>1. \A f \in Fields : doc[f] \in OrderedField
    BY <1>1, <1>2, MergedMeans
  <2>2. doc = [f \in Fields |-> doc[f]]
    BY DEF MergedPending
  <2> HIDE DEF doc
  <2> QED
    BY <2>1, <2>2 DEF Doc
<1>5. S \subseteq r.pending /\ S = {p \in r.pending : SurvivesAck(p.op, reply.doc[p.path])}
  BY <1>1 DEF StillPending
<1>6. J \subseteq Pending
  BY <1>2, <1>3, <1>5, BoundMeans
<1>7. held \in [Fields -> BOOLEAN \union {None}]
  BY <1>1 DEF HeldAfterAck
<1>8. /\ paused \in Pauses \union {None}
      /\ paused # None => paused # "ownership-unconfirmed" /\ held # NothingHeld
  BY <1>1, <1>3 DEF PauseAfterAck, ResolvedPause
<1>9. owner = "previous-account"
  BY <1>3 DEF OwnershipAfterAck
<1>10. k = [r EXCEPT !.doc = doc, !.anchor = receipt, !.pending = J, !.held = held,
                     !.paused = paused, !.ownership = owner]
  BY Zenon DEF Acknowledge
<1> HIDE DEF doc, receipt, J, S, held, paused, owner
<1>11. /\ k \in Record /\ k.doc = doc /\ k.anchor = receipt /\ k.pending = J
       /\ k.held = held /\ k.paused = paused /\ k.ownership = "previous-account"
       /\ k.scope = r.scope
  BY <1>1, <1>2, <1>4, <1>6, <1>7, <1>8, <1>9, <1>10 DEF Record, Ownerships
<1> HIDE DEF k
<1>12. \A p \in r.pending :
          LET b == Bound(p, receipt)
          IN  /\ b.id = p.id /\ b.path = p.path /\ b.op = p.op /\ b.scope = r.scope
              /\ p.receipt # None => b = p
              /\ p.receipt = None => b.receipt = receipt
  BY <1>1, <1>2, <1>3, BoundMeans
<1>13. IsFiniteSet(J) /\ Cardinality(J) <= MaxPending
  <2> DEFINE g == [p \in S |-> Bound(p, receipt)]
  <2>1. IsFiniteSet(S) /\ Cardinality(S) <= Cardinality(r.pending)
    BY <1>1, <1>5, FS_Subset
  <2>2. DOMAIN g = S /\ J = {g[p] : p \in S}
    BY DEF J
  <2> HIDE DEF g
  <2>3. IsFiniteSet(J) /\ Cardinality(J) <= Cardinality(S)
    BY <2>1, <2>2, ImageBound
  <2>4. /\ Cardinality(J) \in Nat /\ Cardinality(S) \in Nat
        /\ Cardinality(r.pending) \in Nat
    BY <1>1, <2>1, <2>3, FS_CardinalityType
  <2> QED
    BY <1>1, <2>1, <2>3, <2>4, SyncBoundsAssumption
<1>14. \A b \in J : \E p \in r.pending :
          b = Bound(p, receipt) /\ SurvivesAck(p.op, reply.doc[p.path])
  BY <1>5 DEF J
<1>15. RecordType(k)
  <2>1. ASSUME NEW b \in J
        PROVE  b.receipt \in IssuedReceipt \union {None} /\ b.op.base \in 0..MaxRevision
    BY <1>1, <1>2, <1>12, <1>14
  <2> QED
    BY <1>2, <1>11, <1>13, <2>1 DEF RecordType
<1>16. OneHome(k)
  <2>1. ASSUME NEW b \in J
        PROVE  b.scope = k.scope /\ (b.receipt # None => b.receipt.lineage = k.scope.account)
    BY <1>2, <1>11, <1>12, <1>14 DEF RecordOK, OneHome
  <2> QED
    BY <1>2, <1>11, <2>1 DEF OneHome
<1>17. Provenance(k)
  <2>1. \A b \in J : b.receipt # None
    BY <1>3, <1>12, <1>14
  <2>2. paused # "ownership-unconfirmed"
    BY <1>8, NoneAssumption DEF Pauses
  <2> QED
    BY <1>3, <1>11, <2>1, <2>2 DEF Provenance
<1>18. JournalUnderDoc(k)
  <2>1. ASSUME NEW b \in J PROVE Absorbed(b.op, doc[b.path])
    <3>1. PICK p \in r.pending : b = Bound(p, receipt)
      BY <1>14
    <3>2. b.op = p.op /\ b.path = p.path /\ p.path \in Fields
      BY <1>1, <1>12, <3>1
    <3>3. p.op \in Versions(r, reply.doc, p.path)
      BY <1>1 DEF Versions
    <3>4. \A y \in Versions(r, reply.doc, p.path) : Absorbed(y, doc[p.path])
      BY <1>1, <1>2, <3>2, MergedMeans DEF doc
    <3> QED
      BY <3>2, <3>3, <3>4
  <2>2. ASSUME NEW b1 \in J, NEW b2 \in J, b1.id = b2.id PROVE b1 = b2
    <3>1. PICK p1 \in r.pending : b1 = Bound(p1, receipt)
      BY <1>14
    <3>2. PICK p2 \in r.pending : b2 = Bound(p2, receipt)
      BY <1>14
    <3>3. p1.id = p2.id
      BY <1>12, <2>2, <3>1, <3>2
    <3> QED
      BY <3>1, <3>2, <3>3 DEF RecordOK, JournalUnderDoc
  <2> QED
    BY <1>11, <2>1, <2>2 DEF JournalUnderDoc
<1>19. Kept(k) /\ Reasoned(k)
  BY <1>8, <1>11 DEF Kept, Reasoned
<1>20. RecordOK(k)
  BY <1>15, <1>16, <1>17, <1>18, <1>19 DEF RecordOK
<1>21. Settles(r, k, reply)
  <2>1. \A p \in r.pending :
          SurvivesAck(p.op, reply.doc[p.path]) => Bound(p, receipt) \in J
    BY <1>5 DEF J
  <2>2. k.anchor = [lineage |-> reply.lineage, revision |-> reply.revision]
    BY <1>11 DEF receipt
  <2>3. k.doc = MergedPending(r, reply.doc)
    BY <1>11 DEF doc
  <2> QED
    BY <1>11, <1>14, <2>1, <2>2, <2>3 DEF Settles
<1> QED
  BY <1>20, <1>21 DEF k

(***************************************************************************)
(* The records an installation starts with are right.                      *)
(***************************************************************************)
LEMMA StartRecordOK ==
    ASSUME NEW r \in StartRecords
    PROVE  RecordOK(r) /\ r.pending = {} /\ r.anchor = None
<1> DEFINE Unstamped(doc, owner) ==
              /\ r = Initialized(doc, owner)
              /\ doc \in Doc /\ \A f \in Fields : doc[f].step = 0
              /\ owner \in Ownerships
<1>1. PICK doc, owner : Unstamped(doc, owner)
  <2>1. CASE r = FreshRecord
    <3>1. FreshDoc \in Doc /\ \A f \in Fields : FreshDoc[f].step = 0
      BY FreshDocType DEF FreshDoc
    <3> QED
      BY <2>1, <3>1 DEF FreshRecord, Ownerships
  <2>2. ASSUME NEW values \in LegacyDoc, r = UpgradedRecord(values)
        PROVE  \E doc, owner : Unstamped(doc, owner)
    <3>1. /\ MigratedLegacy(values, 0) \in Doc
          /\ \A f \in Fields : MigratedLegacy(values, 0)[f].step = 0
      BY MigratedType DEF MigratedLegacy
    <3> QED
      BY <2>2, <3>1 DEF UpgradedRecord, Ownerships
  <2>3. r = FreshRecord \/ \E values \in LegacyDoc : r = UpgradedRecord(values)
    BY StartRecordsAssumption
  <2> HIDE DEF Unstamped
  <2> QED
    BY <2>1, <2>2, <2>3
<1>2. LocalScope \in Scope
  BY DEF LocalScope, Scope
<1>3. NothingHeld \in [Fields -> BOOLEAN \union {None}]
  BY DEF NothingHeld
<1>4. /\ r \in Record /\ r.doc = doc /\ r.anchor = None /\ r.pending = {}
      /\ r.paused = None /\ r.scope = LocalScope
  BY <1>1, <1>2, <1>3 DEF Initialized, Record
<1>5. RecordType(r)
  BY <1>4, FS_EmptySet, SyncBoundsAssumption DEF RecordType
<1>6. OneHome(r) /\ Provenance(r) /\ JournalUnderDoc(r) /\ Reasoned(r)
  BY <1>4 DEF OneHome, Provenance, JournalUnderDoc, Reasoned
<1>7. Kept(r)
  BY <1>1, <1>4 DEF Kept
<1> QED
  BY <1>4, <1>5, <1>6, <1>7 DEF RecordOK

-----------------------------------------------------------------------------
(* Rows: what the settings function does to an account.                    *)

(***************************************************************************)
(* An account's row only goes forward: a document that changes has a new   *)
(* revision, and no field loses rank.                                      *)
(***************************************************************************)
Advances(r, s) ==
    /\ Revision(r) <= Revision(s)
    /\ StartRowsNumbered /\ Revision(r) = Revision(s) => Canonical(r) = Canonical(s)
    /\ \A f \in Fields : ~Outranks(Canonical(r)[f], Canonical(s)[f])

\* The parts of a right row have their types.
LEMMA RowParts ==
    ASSUME NEW a, NEW r, NEW used, RowOK(a, r, used)
    PROVE  /\ r \in Row /\ Revision(r) \in Nat /\ Canonical(r) \in Doc
           /\ r.writes \in SUBSET [req : Request, old : BOOLEAN]
           /\ \A f \in Fields : Canonical(r)[f] \in OrderedField
  BY RevisionType, CanonicalType DEF RowOK, Row, Doc

\* A per-field write, whatever the function answers, keeps the row right and
\* advances it, and what it accepts is then in the document.
LEMMA TransactionOK ==
    ASSUME NEW a \in Accounts, NEW r, NEW used \in 0..MaxLegacyWrites, RowOK(a, r, used),
           NEW req \in Request
    PROVE  LET s == RowAfter(a, r, req)
           IN  /\ RowOK(a, s, used) /\ Advances(r, s)
               /\ \A w \in s.writes : w \in r.writes \/ w.req = req
               /\ Status(a, r, req) = "ready" =>
                    \A f \in DOMAIN req.ops : Absorbed(req.ops[f], Canonical(s)[f])
<1> DEFINE s == RowAfter(a, r, req)
           st == Status(a, r, req)
<1>1. /\ r \in Row /\ Revision(r) \in Nat /\ Canonical(r) \in Doc
      /\ r.writes \in SUBSET [req : Request, old : BOOLEAN]
      /\ req.ops \in OpSets
      /\ Revision(r) <= MaxRevision
      /\ StartRowsNumbered /\ r.kind = "legacy" => r.version > 0
      /\ r.kind # "modern" => Revision(r) + (MaxLegacyWrites - used) <= MaxRevision
      /\ \A w \in r.writes : w.req.lineage = a /\ Apply(Canonical(r), w.req.ops) = Canonical(r)
  BY RowParts DEF RowOK, Request
<1>2. /\ s \in Row
      /\ \A w \in s.writes : w \in r.writes \/ (st = "ready" /\ w.req = req)
      /\ \/ /\ Canonical(s) = Canonical(r)
            /\ Revision(s) = Revision(r)
            /\ s.kind = r.kind
            /\ s.modernUsed = r.modernUsed
         \/ /\ st = "ready" /\ Claim(r, req) = "new" /\ Changes(r, req)
            /\ Revision(s) = Revision(r) + 1
            /\ s.kind = "modern"
            /\ s.modernUsed
      /\ st = "ready" =>
           \/ Canonical(s) = Apply(Canonical(r), req.ops)
           \/ /\ Canonical(s) = Canonical(r)
              /\ \E w \in r.writes : w.req = req
  <2>1. r \in Row
    BY <1>1
  <2>2. s \in Row /\ \A w \in s.writes : w \in r.writes \/ (st = "ready" /\ w.req = req)
    BY <2>1, RowAfterEffect
  <2>3. \/ /\ Canonical(s) = Canonical(r)
           /\ Revision(s) = Revision(r)
           /\ s.kind = r.kind
           /\ s.modernUsed = r.modernUsed
        \/ /\ st = "ready" /\ Claim(r, req) = "new" /\ Changes(r, req)
           /\ Revision(s) = Revision(r) + 1
           /\ s.kind = "modern"
           /\ s.modernUsed
    BY <2>1, RowAfterEffect
  <2>4. st = "ready" =>
           \/ Canonical(s) = Apply(Canonical(r), req.ops)
           \/ /\ Canonical(s) = Canonical(r)
              /\ \E w \in r.writes : w.req = req
    BY <2>1, RowAfterEffect
  <2> QED
    BY <2>2, <2>3, <2>4
<1>3. Revision(s) \in Nat /\ Canonical(s) \in Doc
  BY <1>2, RevisionType, CanonicalType
<1>4. st = "ready" => req.lineage = a /\ (Claim(r, req) = "new" /\ Changes(r, req)
                                           => Revision(r) # MaxRevision)
  BY ReadyMeans DEF ReceiptVerified
<1>5. st = "ready" => Apply(Canonical(s), req.ops) = Canonical(s)
  BY <1>1, <1>2, ApplyTwice
<1>6. s.kind # "modern" => /\ s.kind = r.kind /\ Revision(s) = Revision(r)
                           /\ Canonical(s) = Canonical(r)
  BY <1>2
<1>7. s.kind # "modern" => s.version = r.version
  BY <1>1, RowVersionKept
<1>8. Canonical(s) = Canonical(r) \/ Canonical(s) = Apply(Canonical(r), req.ops)
  BY <1>2
<1> HIDE DEF s, st
<1>9. \A w \in s.writes : w.req.lineage = a /\ Apply(Canonical(s), w.req.ops) = Canonical(s)
  <2>1. ASSUME NEW w \in r.writes PROVE Apply(Canonical(s), w.req.ops) = Canonical(s)
    <3>1. w.req.ops \in OpSets /\ Apply(Canonical(r), w.req.ops) = Canonical(r)
      BY <1>1 DEF Request
    <3> QED
      BY <1>1, <1>8, <3>1, ApplyKeeps
  <2> QED
    BY <1>1, <1>2, <1>4, <1>5, <2>1
<1>10. Revision(s) <= MaxRevision
  BY <1>1, <1>2, <1>4, BoundsAssumption
<1>11. RowOK(a, s, used)
  BY <1>1, <1>2, <1>6, <1>7, <1>9, <1>10 DEF RowOK
<1>12. Advances(r, s)
  <2>1. \A f \in Fields : ~Outranks(Canonical(r)[f], Canonical(s)[f])
    <3>1. \A f \in Fields : /\ Canonical(r)[f] \in OrderedField
                            /\ Canonical(s)[f] \in OrderedField
      BY <1>1, <1>3 DEF Doc
    <3>2. CASE Canonical(s) = Canonical(r)
      BY <3>1, <3>2, RankFacts
    <3>3. CASE Canonical(s) = Apply(Canonical(r), req.ops)
      BY <1>1, <3>1, <3>3, ApplyAbsorbs, RankFacts
    <3> QED
      BY <1>8, <3>2, <3>3
  <2>2. Revision(r) <= Revision(s) /\ (Revision(r) = Revision(s) => Canonical(r) = Canonical(s))
    BY <1>1, <1>2, <1>3
  <2> QED
    BY <2>1, <2>2 DEF Advances
<1>13. st = "ready" => \A f \in DOMAIN req.ops : Absorbed(req.ops[f], Canonical(s)[f])
  BY <1>1, <1>3, <1>5, ApplyFixed
<1>14. \A w \in s.writes : w \in r.writes \/ w.req = req
  BY <1>2
<1> QED
  BY <1>11, <1>12, <1>13, <1>14 DEF s, st

\* So does a 2.x client's write of the whole document.
LEMMA LegacyWriteOK ==
    ASSUME NEW a \in Accounts, NEW r, NEW used \in 0..MaxLegacyWrites, used < MaxLegacyWrites,
           RowOK(a, r, used), r.kind # "modern", NEW values \in LegacyDoc
    PROVE  LET s == LegacyWritten(r, values)
           IN  RowOK(a, s, used + 1) /\ Advances(r, s) /\ s.writes = r.writes
<1> DEFINE s == LegacyWritten(r, values)
<1>1. /\ r \in Row /\ Revision(r) \in Nat /\ Canonical(r) \in Doc
      /\ r.writes \in SUBSET [req : Request, old : BOOLEAN]
      /\ r.version \in Nat /\ r.kind \in {"none", "legacy"}
      /\ StartRowsNumbered /\ r.kind = "legacy" => r.version > 0
      /\ Revision(r) + (MaxLegacyWrites - used) <= MaxRevision
      /\ \A w \in r.writes : w.req.lineage = a /\ Apply(Canonical(r), w.req.ops) = Canonical(r)
  BY RowParts DEF RowOK, Row
<1>2. /\ s \in Row
      /\ s.kind = "legacy"
      /\ s.writes = r.writes
      /\ Revision(s) = IF r.kind = "none" THEN 1 ELSE r.version + 1
      /\ Revision(r) <= Revision(s)
  BY <1>1, LegacyWrittenEffect
<1>3. s.version = (IF r.kind = "none" THEN 1 ELSE r.version + 1)
  BY <1>1 DEF LegacyWritten, Row
<1>4. Revision(r) = IF r.kind = "none" THEN 0 ELSE AtLeastOne(r.version)
  BY <1>1 DEF Revision
<1>5. /\ \A f \in Fields : ~Outranks(Canonical(r)[f], Canonical(s)[f])
      /\ \A w \in r.writes : Apply(Canonical(s), w.req.ops) = Canonical(s)
  BY <1>1, LegacyWrittenRanks, LegacyWrittenKeeps DEF Request
<1> HIDE DEF s
<1>6. Revision(s) <= Revision(r) + 1
  BY <1>1, <1>2, <1>4 DEF AtLeastOne
<1>7. /\ Revision(s) + (MaxLegacyWrites - (used + 1)) <= MaxRevision
      /\ Revision(s) <= MaxRevision
  BY <1>1, <1>2, <1>6, SyncBoundsAssumption, BoundsAssumption
<1>8. RowOK(a, s, used + 1)
  BY <1>1, <1>2, <1>3, <1>5, <1>7 DEF RowOK
<1>9. StartRowsNumbered => Revision(r) # Revision(s)
  BY <1>1, <1>2, <1>4 DEF AtLeastOne
<1>10. Advances(r, s)
  BY <1>2, <1>5, <1>9 DEF Advances
<1> QED
  BY <1>2, <1>8, <1>10 DEF s

(***************************************************************************)
(* The rows the accounts start with are right.                             *)
(***************************************************************************)
LEMMA StartRowsOK ==
    ASSUME NEW rows \in StartRows
    PROVE  /\ rows \in [Accounts -> Row]
           /\ \A a \in Accounts : RowOK(a, rows[a], 0) /\ rows[a].writes = {}
<1>1. ASSUME NEW a \in Accounts
      PROVE  RowOK(a, rows[a], 0) /\ rows[a].writes = {}
  <2> DEFINE r == rows[a]
  <2>1. /\ \/ r = EmptyRow
           \/ \E values \in LegacyDoc, n \in 0..MaxRevision : r = LegacyRow(values, n)
        /\ Revision(r) + MaxLegacyWrites <= MaxRevision
    BY StartRowsAssumption DEF Accounts
  <2>2. EmptyRow \in Row /\ EmptyRow.kind = "none" /\ EmptyRow.writes = {}
    <3>1. [f \in LegacyFields |-> FALSE] \in LegacyDoc
      BY DEF LegacyDoc
    <3> QED
      BY <3>1, FreshDocType DEF EmptyRow, Row
  <2>3. r \in Row /\ r.kind \in {"none", "legacy"} /\ r.writes = {}
    <3>1. CASE r = EmptyRow
      BY <2>2, <3>1
    <3>2. ASSUME NEW values \in LegacyDoc, NEW n \in 0..MaxRevision, r = LegacyRow(values, n)
          PROVE  r \in Row /\ r.kind = "legacy" /\ r.writes = {}
      <4>1. r = [EmptyRow EXCEPT !.kind = "legacy", !.version = n, !.legacy = values]
        BY <3>2 DEF LegacyRow
      <4>2. n \in Nat
        BY BoundsAssumption
      <4> HIDE DEF r
      <4> QED
        BY <2>2, <4>1, <4>2 DEF Row
    <3> QED
      BY <2>1, <3>1, <3>2
  <2>4. StartRowsNumbered /\ r.kind = "legacy" => r.version > 0
    BY DEF StartRowsNumbered
  <2>5. Revision(r) \in Nat /\ MaxLegacyWrites \in Nat
    BY <2>3, RevisionType, SyncBoundsAssumption
  <2> HIDE DEF r
  <2>6. RowOK(a, r, 0)
    BY <2>1, <2>3, <2>4, <2>5, BoundsAssumption DEF RowOK
  <2> QED
    BY <2>3, <2>6 DEF r
<1>2. rows \in [Accounts -> Row]
  BY StartRowsAssumption DEF Accounts
<1> QED
  BY <1>1, <1>2

-----------------------------------------------------------------------------
(* The invariant, read part by part.                                       *)

(***************************************************************************)
(* The parts of a right record, session and row that the steps need.       *)
(***************************************************************************)
LEMMA RightRecord ==
    ASSUME NEW r, RecordOK(r)
    PROVE  /\ r \in Record /\ r.scope \in Scope /\ r.doc \in Doc
           /\ IsFiniteSet(r.pending) /\ r.pending \subseteq Pending
           /\ r.anchor \in IssuedReceipt \union {None}
           /\ \A f \in Fields : r.doc[f] \in OrderedField
           /\ \A p \in r.pending :
                /\ p.op \in OrderedField /\ p.op \in Operation /\ p.path \in Fields
                /\ p.scope = r.scope /\ p.id \in Ids
                /\ p.receipt \in IssuedReceipt \union {None}
                /\ p.op.base \in 0..MaxRevision
                /\ Absorbed(p.op, r.doc[p.path])
  BY RecordParts, PendingParts, DocParts
     DEF RecordOK, RecordType, OneHome, JournalUnderDoc

(***************************************************************************)
(* Everything in flight, in a row or in a service's hands counts as sent.  *)
(***************************************************************************)
LEMMA SentMembers ==
    /\ \A w \in inFlight : w.req \in Sent
    /\ \A a \in Accounts : \A w \in row[a].writes : w.req \in Sent
    /\ \A d \in Devices : Writing(svc[d]) => svc[d].req \in Sent
<1>1. \A w \in inFlight : w.req \in SentAway
  BY DEF SentAway
<1>2. ASSUME NEW a \in Accounts, NEW w \in row[a].writes
      PROVE  w.req \in Claimed
  <2>1. w.req \in ClaimedBy(row[a])
    BY DEF ClaimedBy
  <2> QED
    BY <2>1 DEF Claimed
<1>3. \A d \in Devices : Writing(svc[d]) => svc[d].req \in InHand
  BY DEF InHand
<1> QED
  BY <1>1, <1>2, <1>3 DEF Sent

(***************************************************************************)
(* What was not sent before a step is not sent after it, if every place    *)
(* it could be in holds only what was sent.                                *)
(***************************************************************************)
LEMMA SentOnly ==
    ASSUME NEW S,
           \A w \in inFlight' : w.req \in S,
           \A a \in Accounts : \A w \in row'[a].writes : w.req \in S,
           \A d \in Devices : Writing(svc'[d]) => svc'[d].req \in S
    PROVE  Sent' \subseteq S
<1>1. SentAway' \subseteq S
  BY DEF SentAway
<1>2. Claimed' \subseteq S
  <2>1. \A a \in Accounts : ClaimedBy(row'[a]) \subseteq S
    BY DEF ClaimedBy
  <2> QED
    BY <2>1 DEF Claimed
<1>3. InHand' \subseteq S
  BY DEF InHand
<1> QED
  BY <1>1, <1>2, <1>3 DEF Sent

(***************************************************************************)
(* A row that goes forward leaves every answer standing.                   *)
(***************************************************************************)
LEMMA AnswerStays ==
    ASSUME NEW reply \in Reply, NEW r \in Row, NEW s \in Row,
           AnswerStands(reply, r), Advances(r, s)
    PROVE  AnswerStands(reply, s)
<1>1. /\ reply.revision \in Nat /\ Revision(r) \in Nat /\ Revision(s) \in Nat
  BY RevisionType, BoundsAssumption DEF Reply
<1>2. /\ reply.revision <= Revision(s)
      /\ reply.revision = Revision(s) => reply.revision = Revision(r) /\ Revision(r) = Revision(s)
  BY <1>1 DEF AnswerStands, Advances
<1>3. \A f \in Fields : /\ reply.doc[f] \in OrderedField
                        /\ Canonical(r)[f] \in OrderedField
                        /\ Canonical(s)[f] \in OrderedField
  BY CanonicalType DEF Reply, Doc
<1>4. \A f \in Fields : ~Outranks(reply.doc[f], Canonical(s)[f])
  BY <1>3, RankFacts DEF AnswerStands, Advances
<1> QED
  BY <1>2, <1>4 DEF AnswerStands, Advances

(***************************************************************************)
(* A row that goes forward leaves every anchored record as it should be.   *)
(***************************************************************************)
LEMMA AnchoredStays ==
    ASSUME NEW c, RecordOK(c), c.anchor # None, NEW r \in Row, NEW s \in Row,
           Anchored(c, r), Advances(r, s)
    PROVE  Anchored(c, s)
<1>1. c.anchor.revision \in Nat /\ Revision(r) \in Nat /\ Revision(s) \in Nat
  BY RevisionType, BoundsAssumption, RightRecord DEF IssuedReceipt
<1>2. /\ c.anchor.revision <= Revision(s)
      /\ c.anchor.revision = Revision(s)
           => c.anchor.revision = Revision(r) /\ Revision(r) = Revision(s)
  BY <1>1 DEF Anchored, Advances
<1>3. \A f \in Fields : /\ c.doc[f] \in OrderedField
                        /\ Canonical(r)[f] \in OrderedField
                        /\ Canonical(s)[f] \in OrderedField
  BY CanonicalType, RightRecord DEF Doc
<1>4. Covered(c, Canonical(s))
  BY <1>3, RankFacts DEF Anchored, Covered, Advances
<1>5. StartRowsNumbered /\ c.anchor.revision = Revision(s)
         => c.doc = MergedPending(c, Canonical(s))
  BY <1>2 DEF Anchored, Advances
<1> QED
  BY <1>2, <1>4, <1>5 DEF Anchored

(***************************************************************************)
(* A row that stands still goes forward, too.                              *)
(***************************************************************************)
LEMMA AdvancesSelf ==
    ASSUME NEW r \in Row
    PROVE  Advances(r, r)
<1>1. Revision(r) \in Nat /\ \A f \in Fields : Canonical(r)[f] \in OrderedField
  BY RevisionType, CanonicalType DEF Doc
<1> QED
  BY <1>1, RankFacts DEF Advances

(***************************************************************************)
(* After an acknowledgement the document is the account's with the new     *)
(* journal on top: what left the journal, the account's answer absorbs.    *)
(***************************************************************************)
LEMMA SettledDoc ==
    ASSUME NEW r, RecordOK(r), NEW reply \in Reply, NEW k, RecordOK(k),
           r.scope.account # None, Settles(r, k, reply)
    PROVE  /\ k.doc = MergedPending(k, reply.doc)
           /\ Covered(k, reply.doc)
           /\ \A f \in Fields : \/ k.doc[f] = reply.doc[f]
                                \/ \E p \in k.pending : p.path = f /\ p.op = k.doc[f]
<1> DEFINE m == MergedPending(r, reply.doc)
<1>1. /\ reply.doc \in Doc /\ \A f \in Fields : reply.doc[f] \in OrderedField
      /\ k.anchor \in IssuedReceipt /\ k.scope = r.scope /\ k.doc = m
  BY DEF Reply, Doc, Settles, IssuedReceipt, Accounts
<1>2. /\ IsFiniteSet(r.pending) /\ IsFiniteSet(k.pending)
      /\ \A p \in r.pending : p.op \in OrderedField /\ p.path \in Fields /\ p.scope = r.scope
      /\ \A p \in k.pending : p.op \in OrderedField /\ p.path \in Fields /\ p.scope = k.scope
  BY RightRecord
<1>3. \A p \in r.pending : /\ Bound(p, k.anchor).op = p.op
                           /\ Bound(p, k.anchor).path = p.path
  BY <1>1, BoundMeans
<1>4. ASSUME NEW f \in Fields
      PROVE  /\ m[f] \in Versions(k, reply.doc, f)
             /\ m[f] = reply.doc[f] \/ \E p \in k.pending : p.path = f /\ p.op = m[f]
             /\ \A y \in Versions(k, reply.doc, f) : Absorbed(y, m[f])
  <2>1. /\ m[f] \in Versions(r, reply.doc, f) /\ m[f] \in OrderedField
        /\ \A y \in Versions(r, reply.doc, f) : Absorbed(y, m[f])
    BY <1>1, <1>2, MergedMeans
  <2> HIDE DEF m
  <2>2. \A y \in Versions(k, reply.doc, f) : y \in Versions(r, reply.doc, f)
    BY <1>2, <1>3 DEF Settles, Versions
  <2>3. CASE m[f] = reply.doc[f]
    BY <2>1, <2>2, <2>3 DEF Versions
  <2>4. CASE m[f] # reply.doc[f]
    <3>1. PICK p \in r.pending : p.path = f /\ p.op = m[f]
      BY <2>1, <2>4 DEF Versions
    <3>2. Absorbed(reply.doc[f], m[f])
      BY <2>1 DEF Versions
    <3>3. ~Absorbed(p.op, reply.doc[f])
      BY <1>1, <2>1, <2>4, <3>1, <3>2, AbsorbedOrder
    <3>4. SurvivesAck(p.op, reply.doc[p.path])
      <4>1. /\ p.op \in OrderedField /\ reply.doc[f] \in OrderedField
            /\ p.op # reply.doc[f]
        BY <1>1, <1>2, <2>4, <3>1
      <4> QED
        BY <3>1, <3>3, <4>1, MergeChooses DEF SurvivesAck, Absorbed
    <3>5. Bound(p, k.anchor) \in k.pending
      BY <3>4 DEF Settles
    <3>6. \E b \in k.pending : b.path = f /\ b.op = m[f]
      BY <1>3, <3>1, <3>5
    <3>7. m[f] \in Versions(k, reply.doc, f)
      BY <1>2, <3>6 DEF Versions
    <3> QED
      BY <2>1, <2>2, <3>6, <3>7
  <2> QED
    BY <2>3, <2>4
<1> HIDE DEF m
<1>5. \A f \in Fields : MergedPending(k, reply.doc)[f] = m[f]
  BY <1>1, <1>2, <1>4, MergedIs
<1>6. k.doc = MergedPending(k, reply.doc)
  <2>1. MergedPending(k, reply.doc) = [f \in Fields |-> MergedPending(k, reply.doc)[f]]
    BY DEF MergedPending
  <2>2. m = [f \in Fields |-> m[f]]
    BY DEF m, MergedPending
  <2> QED
    BY <1>1, <1>5, <2>1, <2>2
<1>7. Covered(k, reply.doc)
  <2>1. \A f \in Fields : ~Outranks(reply.doc[f], reply.doc[f])
    BY <1>1, RankFacts
  <2> QED
    BY <1>1, <1>4, <2>1 DEF Covered
<1> QED
  BY <1>1, <1>4, <1>6, <1>7

(***************************************************************************)
(* Using up one bound leaves the others as they were.                      *)
(***************************************************************************)
LEMMA SpendOne ==
    ASSUME Counts, NEW kind \in {"edits", "logins", "faults", "legacy"}, NEW limit \in Nat,
           limit = (CASE kind = "edits" -> MaxEdits [] kind = "logins" -> MaxLogins
                      [] kind = "faults" -> MaxFaults [] kind = "legacy" -> MaxLegacyWrites),
           Spend(kind, limit)
    PROVE  /\ Counts'
           /\ count[kind] < limit
           /\ count'[kind] = count[kind] + 1
           /\ \A other \in {"edits", "logins", "faults", "legacy"} \ {kind} :
                 count'[other] = count[other]
<1>1. /\ count' = [count EXCEPT ![kind] = count[kind] + 1] /\ count[kind] < limit
      /\ DOMAIN count = {"edits", "logins", "faults", "legacy"}
      /\ DOMAIN count' = {"edits", "logins", "faults", "legacy"}
  BY DEF Spend, Counts
<1>2. /\ count'[kind] = count[kind] + 1
      /\ \A other \in {"edits", "logins", "faults", "legacy"} \ {kind} :
            count'[other] = count[other]
  BY <1>1
<1>3. Counts'
  <2>1. /\ count["edits"] \in 0..MaxEdits /\ count["logins"] \in 0..MaxLogins
        /\ count["faults"] \in 0..MaxFaults /\ count["legacy"] \in 0..MaxLegacyWrites
    BY DEF Counts
  <2>2. /\ MaxEdits \in Nat /\ MaxLogins \in Nat /\ MaxFaults \in Nat /\ MaxLegacyWrites \in Nat
    BY SyncBoundsAssumption
  <2>3. CASE kind = "edits"
    BY <1>1, <1>2, <2>1, <2>2, <2>3 DEF Counts
  <2>4. CASE kind = "logins"
    BY <1>1, <1>2, <2>1, <2>2, <2>4 DEF Counts
  <2>5. CASE kind = "faults"
    BY <1>1, <1>2, <2>1, <2>2, <2>5 DEF Counts
  <2>6. CASE kind = "legacy"
    BY <1>1, <1>2, <2>1, <2>2, <2>6 DEF Counts
  <2> QED
    BY <2>3, <2>4, <2>5, <2>6
<1> QED
  BY <1>1, <1>2, <1>3

(***************************************************************************)
(* A journal that only loses requests, or changes what was never sent,     *)
(* follows the one before it.                                              *)
(***************************************************************************)
Follows(r, c) ==
    \A t \in c.pending : \E p \in r.pending :
        p.id = t.id /\ (t = p \/ p.receipt = None)

\* What is true of a journal stays true of one that follows it.
LEMMA JournalFollows ==
    ASSUME NEW d, NEW r, NEW c, Follows(r, c), NEW edits, NEW choices, NEW S, NEW T, T \subseteq S,
           JournalIds(d, r, edits), JournalHome(r, choices), JournalSent(r, S)
    PROVE  JournalIds(d, c, edits) /\ JournalHome(c, choices) /\ JournalSent(c, T)
<1> SUFFICES ASSUME NEW t \in c.pending
             PROVE  /\ t.id \in {d} \X (1..edits)
                    /\ \A m \in choices : m.id = t.id =>
                          IF t.receipt = None THEN m.account = None /\ m.pristine
                                              ELSE HomeOf(m, t.receipt.lineage)
                    /\ \A q \in T : t.id = q.id => t.receipt # None /\ q = RequestOf(t)
  BY DEF JournalIds, JournalHome, JournalSent
<1>1. PICK p \in r.pending : p.id = t.id /\ (t = p \/ p.receipt = None)
  BY DEF Follows
<1>2. t.id \in {d} \X (1..edits)
  BY <1>1 DEF JournalIds
<1>3. \A m \in choices : m.id = t.id =>
         IF t.receipt = None THEN m.account = None /\ m.pristine
                             ELSE HomeOf(m, t.receipt.lineage)
  BY <1>1 DEF JournalHome, HomeOf
<1>4. \A q \in T : t.id = q.id => t.receipt # None /\ q = RequestOf(t)
  BY <1>1 DEF JournalSent
<1> QED
  BY <1>2, <1>3, <1>4

(***************************************************************************)
(* When nothing more is sent and no choice is made, the history of the     *)
(* requests stays right.                                                   *)
(***************************************************************************)
LEMMA JournalsFrame ==
    ASSUME JournalsOK, SentOK, made' = made, count'.edits = count.edits, Sent' \subseteq Sent,
           inFlight' \subseteq [subject : Accounts, req : Request],
           \A e \in Devices : Follows(rec[e], rec'[e])
    PROVE  JournalsOK' /\ SentOK'
<1>1. ASSUME NEW e \in Devices
      PROVE  /\ JournalIds(e, rec'[e], count'.edits)
             /\ JournalHome(rec'[e], made')
             /\ JournalSent(rec'[e], Sent')
  BY JournalFollows DEF JournalsOK
<1>2. SentOK'
  BY DEF SentOK
<1> QED
  BY <1>1, <1>2 DEF JournalsOK

(***************************************************************************)
(* Answers stand while rows only go forward and nobody else's are heard.   *)
(***************************************************************************)
LEMMA RepliesFrame ==
    ASSUME SessionsOK, RowsOK, RepliesOK, row' \in [Accounts -> Row],
           \A a \in Accounts : Advances(row[a], row'[a]),
           \A e \in Devices :
              \/ ReplyOK(svc'[e], auth'[e], row')
              \/ /\ svc'[e] = svc[e]
                 /\ auth'[e] = auth[e] \/ auth'[e] = None \/ auth'[e].session > svc[e].session
    PROVE  RepliesOK'
<1> SUFFICES ASSUME NEW e \in Devices,
                    svc'[e] = svc[e],
                    auth'[e] = auth[e] \/ auth'[e] = None \/ auth'[e].session > svc[e].session,
                    Answered(svc[e])
             PROVE  ReplyOK(svc'[e], auth'[e], row')
  BY DEF RepliesOK, ReplyOK
<1> DEFINE reply == svc[e].reply
<1>1. /\ reply \in Reply /\ ReplyOK(svc[e], auth[e], row)
  BY DEF SessionsOK, SessionOK, Answered, RepliesOK
<1>2. /\ row[reply.lineage] \in Row /\ row'[reply.lineage] \in Row
      /\ Advances(row[reply.lineage], row'[reply.lineage])
  BY <1>1 DEF Reply, RowsOK
<1>3. AnswerStands(reply, row'[reply.lineage])
  BY <1>1, <1>2, AnswerStays DEF ReplyOK
<1> QED
  BY <1>1, <1>3 DEF ReplyOK

(***************************************************************************)
(* Anchored records stay right while rows only go forward.                 *)
(***************************************************************************)
LEMMA AnchorsFrame ==
    ASSUME RecordsOK, RowsOK, AnchorsOK, row' \in [Accounts -> Row],
           \A a \in Accounts : Advances(row[a], row'[a]),
           \A e \in Devices :
              \/ AnchorOK(rec'[e], svc'[e], row')
              \/ rec'[e] = rec[e] /\ (svc'[e] = svc[e] \/ ~Answered(svc'[e]))
    PROVE  AnchorsOK'
<1> SUFFICES ASSUME NEW e \in Devices, rec'[e] = rec[e], rec[e].anchor # None,
                    svc'[e] = svc[e] \/ ~Answered(svc'[e])
             PROVE  AnchorOK(rec'[e], svc'[e], row')
  BY DEF AnchorsOK, AnchorOK
<1> DEFINE a == rec[e].anchor.lineage
<1>1. RecordOK(rec[e]) /\ AnchorOK(rec[e], svc[e], row)
  BY DEF RecordsOK, AnchorsOK
<1>2. a \in Accounts
  BY <1>1, RightRecord DEF IssuedReceipt, Accounts
<1>3. row[a] \in Row /\ row'[a] \in Row /\ Advances(row[a], row'[a])
  BY <1>2 DEF RowsOK
<1>4. Anchored(rec[e], row'[a])
  BY <1>1, <1>3, AnchoredStays DEF AnchorOK
<1> QED
  BY <1>1, <1>4 DEF AnchorOK

(***************************************************************************)
(* A write that is deserted was sent, for one of the accounts.             *)
(***************************************************************************)
LEMMA DesertedMeans ==
    ASSUME SessionsOK, NEW d \in Devices, NEW sent \in Deserted(d), NEW w \in sent
    PROVE  w \in [subject : Accounts, req : Request] /\ w.req \in Sent
<1>1. /\ svc[d].pc = "write"
      /\ \E a \in Subjects(d) : w = [subject |-> a, req |-> svc[d].req]
  BY DEF Deserted
<1>2. PICK a \in Subjects(d) : w = [subject |-> a, req |-> svc[d].req]
  BY <1>1
<1>3. /\ svc[d].req \in Request /\ svc[d].atomicScope.account \in Accounts
      /\ auth[d] \in Session \union {None}
  BY <1>1 DEF SessionsOK, SessionOK, Exchange
<1>4. a \in Accounts
  BY <1>2, <1>3 DEF Subjects, Session
<1>5. svc[d].req \in Sent
  BY <1>1, SentMembers DEF Writing
<1> QED
  BY <1>2, <1>3, <1>4, <1>5

-----------------------------------------------------------------------------
(* Steps of one device.                                                    *)

(***************************************************************************)
(* A step of one installation by itself: its record, its service and       *)
(* perhaps its stored session change, the rows and the choices do not, and *)
(* nothing is sent that was not.                                           *)
(***************************************************************************)
DeviceStep(d, c, s, stored) ==
    /\ rec' = [rec EXCEPT ![d] = c]
    /\ svc' = [svc EXCEPT ![d] = s]
    /\ auth' = [auth EXCEPT ![d] = stored]
    /\ row' = row /\ made' = made
    /\ count'.edits = count.edits /\ count'.logins = count.logins
    /\ count'.legacy = count.legacy
    /\ Counts'
    /\ linked' = {e \in Devices : rec'[e].ownership # "never-linked"}
    /\ inFlight' \subseteq [subject : Accounts, req : Request]
    /\ \A w \in inFlight' : w.req \in Sent

\* A step of one device keeps the invariant if its own record, session, answer
\* and anchor come out right.
LEMMA DeviceStepKeeps ==
    ASSUME IInv, NEW d \in Devices, NEW c, NEW s \in Svc, NEW stored \in {auth[d], None},
           DeviceStep(d, c, s, stored),
           RecordOK(c), Follows(rec[d], c), AnchorOK(c, s, row),
           SessionOK(s, stored, count.logins), ReplyOK(s, stored, row),
           Writing(s) => s.req \in Sent
    PROVE  IInv'
<1>1. /\ Counts /\ RecordsOK /\ SessionsOK /\ RowsOK /\ JournalsOK /\ SentOK
      /\ RepliesOK /\ AnchorsOK
  BY DEF IInv
<1>2. /\ rec' \in [Devices -> Record] /\ rec'[d] = c
      /\ \A e \in Devices : e # d => rec'[e] = rec[e]
  BY <1>1, RightRecord DEF DeviceStep, RecordsOK
<1>3. /\ svc' \in [Devices -> Svc] /\ svc'[d] = s
      /\ \A e \in Devices : e # d => svc'[e] = svc[e]
  BY <1>1 DEF DeviceStep, SessionsOK
<1>4. /\ auth' \in [Devices -> Session \union {None}] /\ auth'[d] = stored
      /\ \A e \in Devices : e # d => auth'[e] = auth[e]
  BY <1>1 DEF DeviceStep, SessionsOK
<1>5. Counts'
  BY DEF DeviceStep
<1>6. RecordsOK'
  <2>1. \A e \in Devices : RecordOK(rec'[e])
    BY <1>1, <1>2 DEF RecordsOK
  <2> QED
    BY <1>2, <2>1 DEF RecordsOK, DeviceStep
<1>7. SessionsOK'
  <2>1. \A e \in Devices : SessionOK(svc'[e], auth'[e], count'.logins)
    BY <1>1, <1>3, <1>4 DEF SessionsOK, DeviceStep
  <2> QED
    BY <1>3, <1>4, <2>1 DEF SessionsOK
<1>8. RowsOK'
  BY <1>1 DEF RowsOK, DeviceStep
<1>9. row' \in [Accounts -> Row] /\ \A a \in Accounts : Advances(row[a], row'[a])
  BY <1>1, AdvancesSelf DEF RowsOK, DeviceStep
<1>10. Sent' \subseteq Sent
  <2>1. \A w \in inFlight' : w.req \in Sent
    BY DEF DeviceStep
  <2>2. \A a \in Accounts : \A w \in row'[a].writes : w.req \in Sent
    BY SentMembers DEF DeviceStep
  <2>3. \A e \in Devices : Writing(svc'[e]) => svc'[e].req \in Sent
    BY <1>3, SentMembers
  <2> QED
    BY <2>1, <2>2, <2>3, SentOnly
<1>11. JournalsOK' /\ SentOK'
  <2>1. \A e \in Devices : Follows(rec[e], rec'[e])
    BY <1>2 DEF Follows
  <2> QED
    BY <1>1, <1>10, <2>1, JournalsFrame DEF DeviceStep
<1>12. RepliesOK'
  <2>1. \A e \in Devices :
           \/ ReplyOK(svc'[e], auth'[e], row')
           \/ svc'[e] = svc[e] /\ auth'[e] = auth[e]
    BY <1>3, <1>4 DEF DeviceStep
  <2> QED
    BY <1>1, <1>9, <2>1, RepliesFrame
<1>13. AnchorsOK'
  <2>1. \A e \in Devices :
           \/ AnchorOK(rec'[e], svc'[e], row')
           \/ rec'[e] = rec[e] /\ svc'[e] = svc[e]
    BY <1>2, <1>3 DEF DeviceStep
  <2> QED
    BY <1>1, <1>9, <2>1, AnchorsFrame
<1> QED
  BY <1>5, <1>6, <1>7, <1>8, <1>11, <1>12, <1>13 DEF IInv

(***************************************************************************)
(* What leaves a service's hands unanswered stays sent.                    *)
(***************************************************************************)
LEMMA DesertedKeeps ==
    ASSUME IInv, NEW d \in Devices,
           inFlight' = inFlight \/ \E sent \in Deserted(d) : inFlight' = inFlight \union sent
    PROVE  /\ inFlight' \subseteq [subject : Accounts, req : Request]
           /\ \A w \in inFlight' : w.req \in Sent
<1>1. /\ inFlight \subseteq [subject : Accounts, req : Request]
      /\ \A w \in inFlight : w.req \in Sent
  BY SentMembers DEF IInv, SentOK
<1>2. SessionsOK
  BY DEF IInv
<1> QED
  BY <1>1, <1>2, DesertedMeans

(***************************************************************************)
(* A step that changes one service only, into one that waits for nothing.  *)
(***************************************************************************)
LEMMA ServiceStepKeeps ==
    ASSUME IInv, NEW d \in Devices, NEW s \in Svc,
           UNCHANGED <<rec, auth, row, linked, made>>,
           svc' = [svc EXCEPT ![d] = s],
           count' = count \/ Spend("faults", MaxFaults),
           inFlight' = inFlight \/ \E sent \in Deserted(d) : inFlight' = inFlight \union sent,
           SessionOK(s, auth[d], count.logins),
           ~Answered(s) /\ ~Writing(s)
    PROVE  IInv'
<1>1. /\ Counts /\ RecordsOK /\ auth \in [Devices -> Session \union {None}]
      /\ rec \in [Devices -> Record]
      /\ RecordOK(rec[d]) /\ AnchorOK(rec[d], svc[d], row)
  BY DEF IInv, RecordsOK, SessionsOK, AnchorsOK
<1>2. rec' = [rec EXCEPT ![d] = rec[d]] /\ auth' = [auth EXCEPT ![d] = auth[d]]
  BY <1>1
<1>3. /\ Counts' /\ count'.edits = count.edits /\ count'.logins = count.logins
      /\ count'.legacy = count.legacy
  <2>1. CASE count' = count
    BY <1>1, <2>1 DEF Counts
  <2>2. CASE Spend("faults", MaxFaults)
    BY <1>1, <2>2, SpendOne, SyncBoundsAssumption
  <2> QED
    BY <2>1, <2>2
<1>4. /\ inFlight' \subseteq [subject : Accounts, req : Request]
      /\ \A w \in inFlight' : w.req \in Sent
  BY DesertedKeeps
<1>5. linked' = {e \in Devices : rec'[e].ownership # "never-linked"}
  BY <1>1 DEF RecordsOK
<1>6. DeviceStep(d, rec[d], s, auth[d])
  BY <1>2, <1>3, <1>4, <1>5 DEF DeviceStep
<1>7. Follows(rec[d], rec[d]) /\ AnchorOK(rec[d], s, row) /\ ReplyOK(s, auth[d], row)
  BY <1>1 DEF Follows, AnchorOK, ReplyOK
<1> QED
  BY <1>1, <1>6, <1>7, DeviceStepKeeps

(***************************************************************************)
(* A step that moves one record across a scope boundary, or wakes it.      *)
(***************************************************************************)
LEMMA ScopeStepKeeps ==
    ASSUME IInv, NEW d \in Devices, NEW c, NEW s \in Svc,
           rec' = [rec EXCEPT ![d] = c],
           UNCHANGED <<auth, row, linked, made>>,
           svc' = [svc EXCEPT ![d] = s],
           count' = count \/ Spend("faults", MaxFaults),
           inFlight' = inFlight \/ \E sent \in Deserted(d) : inFlight' = inFlight \union sent,
           RecordOK(c), c.ownership = rec[d].ownership, Follows(rec[d], c),
           \/ c.anchor = None
           \/ /\ c.anchor = rec[d].anchor /\ c.doc = rec[d].doc /\ c.scope = rec[d].scope
              /\ c.pending = rec[d].pending,
           SessionOK(s, auth[d], count.logins),
           ~Answered(s) /\ ~Writing(s)
    PROVE  IInv'
<1>1. /\ Counts /\ RecordsOK /\ auth \in [Devices -> Session \union {None}]
      /\ rec \in [Devices -> Record]
      /\ AnchorOK(rec[d], svc[d], row)
  BY DEF IInv, RecordsOK, SessionsOK, AnchorsOK
<1>2. auth' = [auth EXCEPT ![d] = auth[d]]
  BY <1>1
<1>3. /\ Counts' /\ count'.edits = count.edits /\ count'.logins = count.logins
      /\ count'.legacy = count.legacy
  <2>1. CASE count' = count
    BY <1>1, <2>1 DEF Counts
  <2>2. CASE Spend("faults", MaxFaults)
    BY <1>1, <2>2, SpendOne, SyncBoundsAssumption
  <2> QED
    BY <2>1, <2>2
<1>4. /\ inFlight' \subseteq [subject : Accounts, req : Request]
      /\ \A w \in inFlight' : w.req \in Sent
  BY DesertedKeeps
<1>5. linked' = {e \in Devices : rec'[e].ownership # "never-linked"}
  <2>1. \A e \in Devices : rec'[e].ownership = rec[e].ownership
    BY <1>1
  <2> QED
    BY <1>1, <2>1 DEF RecordsOK
<1>6. DeviceStep(d, c, s, auth[d])
  BY <1>2, <1>3, <1>4, <1>5 DEF DeviceStep
<1>7. ReplyOK(s, auth[d], row)
  BY DEF ReplyOK
<1>8. AnchorOK(c, s, row)
  <2>1. CASE c.anchor = None
    BY <2>1 DEF AnchorOK
  <2>2. CASE /\ c.anchor = rec[d].anchor /\ c.doc = rec[d].doc /\ c.scope = rec[d].scope
             /\ c.pending = rec[d].pending
    <3>1. \A x : MergedPending(c, x) = MergedPending(rec[d], x)
      BY <2>2 DEF MergedPending, Versions
    <3> QED
      BY <1>1, <2>2, <3>1 DEF AnchorOK, Anchored, Covered
  <2> QED
    BY <2>1, <2>2
<1> QED
  BY <1>1, <1>6, <1>7, <1>8, DeviceStepKeeps

-----------------------------------------------------------------------------
(* Sessions and scopes.                                                    *)

(***************************************************************************)
(* What a right session of a service consists of.                          *)
(***************************************************************************)
LEMMA RightSession ==
    ASSUME IInv, NEW d \in Devices
    PROVE  /\ svc[d] \in Svc /\ auth[d] \in Session \union {None}
           /\ SessionOK(svc[d], auth[d], count.logins)
           /\ count.logins \in 0..MaxLogins /\ MaxLogins \in Nat
           /\ svc[d].session \in 0..MaxLogins
           /\ svc[d].pc \in Pcs
           /\ svc[d].userId \in Accounts \union {None}
           /\ svc[d].atomicScope \in Scope \union {None}
           /\ svc[d].atomicRetirementPending \in BOOLEAN
           /\ auth[d] # None => /\ auth[d].account \in Accounts
                                /\ auth[d].session \in 1..MaxLogins
           /\ None \notin Accounts
           /\ svc[d].pc # "off" => svc[d].session \in 1..MaxLogins
<1>1. /\ svc[d] \in Svc /\ auth[d] \in Session \union {None}
      /\ SessionOK(svc[d], auth[d], count.logins)
      /\ count.logins \in 0..MaxLogins /\ MaxLogins \in Nat
  BY SyncBoundsAssumption DEF IInv, SessionsOK, Counts
<1>2. /\ svc[d].session \in 0..MaxLogins /\ svc[d].pc \in Pcs
      /\ svc[d].userId \in Accounts \union {None}
      /\ svc[d].atomicScope \in Scope \union {None}
      /\ svc[d].atomicRetirementPending \in BOOLEAN
  BY <1>1 DEF Svc
<1>3. /\ auth[d] # None => auth[d].account \in Accounts /\ auth[d].session \in 1..MaxLogins
      /\ None \notin Accounts
  BY <1>1, NoneAssumption DEF Session, Accounts
<1>4. svc[d].pc # "off" => svc[d].session \in 1..MaxLogins
  BY <1>1, <1>2 DEF SessionOK
<1> QED
  BY <1>1, <1>2, <1>3, <1>4

(***************************************************************************)
(* Leaving an await empties a service's hands.                             *)
(***************************************************************************)
Left(s, pc) == [s EXCEPT !.pc = pc, !.req = None, !.reply = None]

\* Goto leaves every other part of the service as it was.
LEMMA GotoMeans ==
    ASSUME IInv, NEW d \in Devices, NEW pc \in Pcs, Goto(d, pc)
    PROVE  /\ svc' = [svc EXCEPT ![d] = Left(svc[d], pc)]
           /\ Left(svc[d], pc) \in Svc
           /\ Left(svc[d], pc).pc = pc
           /\ Left(svc[d], pc).userId = svc[d].userId
           /\ Left(svc[d], pc).session = svc[d].session
           /\ Left(svc[d], pc).atomicScope = svc[d].atomicScope
<1>1. svc \in [Devices -> Svc] /\ svc[d] \in Svc
  BY DEF IInv, SessionsOK
<1>2. svc' = [svc EXCEPT ![d] = Left(svc[d], pc)]
  BY <1>1, Zenon DEF Goto, Left
<1> QED
  BY <1>1, <1>2 DEF Left, Svc

\* A service that has left an await is consistent with its session.
LEMMA LeftSession ==
    ASSUME IInv, NEW d \in Devices, svc[d].pc # "off",
           NEW pc \in {"idle", "read", "flush"},
           pc # "idle" => svc[d].atomicScope # None,
           Goto(d, pc)
    PROVE  /\ svc' = [svc EXCEPT ![d] = Left(svc[d], pc)]
           /\ Left(svc[d], pc) \in Svc
           /\ SessionOK(Left(svc[d], pc), auth[d], count.logins)
           /\ ~Answered(Left(svc[d], pc)) /\ ~Writing(Left(svc[d], pc))
<1>1. pc \in Pcs
  BY DEF Pcs
<1> DEFINE s == Left(svc[d], pc)
<1>2. /\ svc' = [svc EXCEPT ![d] = s] /\ s \in Svc /\ s.pc = pc
      /\ s.userId = svc[d].userId /\ s.session = svc[d].session
      /\ s.atomicScope = svc[d].atomicScope
  BY <1>1, GotoMeans
<1>3. SessionOK(svc[d], auth[d], count.logins)
  BY RightSession
<1> HIDE DEF s
<1>4. SessionOK(s, auth[d], count.logins)
  BY <1>2, <1>3 DEF SessionOK, Exchange
<1>5. ~Answered(s) /\ ~Writing(s)
  BY <1>2 DEF Answered, Writing
<1> QED
  BY <1>2, <1>4, <1>5 DEF s

(***************************************************************************)
(* A sign-in event: the service starts for the stored session.             *)
(***************************************************************************)
LEMMA FollowsScope ==
    ASSUME NEW r, RecordOK(r), NEW e, e = r \/ Crosses(r, e)
    PROVE  /\ Follows(r, e) /\ e.ownership = r.ownership
           /\ \/ e.anchor = None
              \/ /\ e.anchor = r.anchor /\ e.doc = r.doc /\ e.scope = r.scope
                 /\ e.pending = r.pending
<1>1. Follows(r, e)
  BY DEF Follows, Crosses
<1> QED
  BY <1>1 DEF Crosses

\* A stopped service has its type.
LEMMA OffType ==
    /\ Off \in Svc /\ Off.atomicScope = None /\ Off.userId = None /\ Off.pc = "off"
    /\ Off.session = 0 /\ Off.atomicRetirementPending = FALSE
  BY SyncBoundsAssumption DEF Off, Svc, Pcs

\* Adopting a session keeps the invariant.
LEMMA OnSignedInKeeps ==
    ASSUME IInv, NEW d \in Devices, OnSignedIn(d)
    PROVE  IInv'
<1> DEFINE s == [Start(auth[d].account, auth[d].session) EXCEPT
                    !.atomicRetirementPending = svc[d].atomicRetirementPending]
           e == EnterScope(rec[d], None, None)
<1>1. /\ auth[d].account \in Accounts /\ auth[d].session \in 1..MaxLogins
      /\ svc[d].atomicRetirementPending \in BOOLEAN
      /\ auth[d].session <= count.logins /\ None \notin Accounts /\ auth[d] # None
      /\ auth[d].session \in 0..MaxLogins
  BY RightSession DEF OnSignedIn, SessionOK
<1>2. /\ s \in Svc /\ s.userId = auth[d].account /\ s.session = auth[d].session
      /\ s.pc = "idle" /\ s.atomicScope = None
  <2> DEFINE t == Start(auth[d].account, auth[d].session)
  <2>1. /\ Off \in Svc /\ Off.atomicScope = None
    BY OffType
  <2>2. t = [Off EXCEPT !.userId = auth[d].account, !.pc = "idle", !.session = auth[d].session]
    BY DEF Start
  <2> HIDE DEF t
  <2>3. /\ t \in Svc /\ t.userId = auth[d].account /\ t.session = auth[d].session
        /\ t.pc = "idle" /\ t.atomicScope = None
    BY <1>1, <2>1, <2>2 DEF Svc, Pcs
  <2>4. s = [t EXCEPT !.atomicRetirementPending = svc[d].atomicRetirementPending]
    BY DEF t
  <2> HIDE DEF s
  <2> QED
    BY <1>1, <2>3, <2>4 DEF Svc
<1>3. RecordOK(rec[d])
  BY DEF IInv, RecordsOK
<1>4. RecordOK(e) /\ (e = rec[d] \/ Crosses(rec[d], e))
  BY <1>3, EnterScopeOK
<1>5. /\ svc' = [svc EXCEPT ![d] = s]
      /\ UNCHANGED <<auth, row, linked, made>>
      /\ count' = count
      /\ \E sent \in Deserted(d) : inFlight' = inFlight \union sent
      /\ rec' = rec \/ rec' = [rec EXCEPT ![d] = e]
  BY DEF OnSignedIn
<1> HIDE DEF s, e
<1>6. SessionOK(s, auth[d], count.logins) /\ ~Answered(s) /\ ~Writing(s)
  BY <1>1, <1>2 DEF SessionOK, Answered, Writing, Exchange
<1>7. CASE rec' = rec
  BY <1>2, <1>5, <1>6, <1>7, ServiceStepKeeps
<1>8. CASE rec' = [rec EXCEPT ![d] = e]
  <2>1. /\ Follows(rec[d], e) /\ e.ownership = rec[d].ownership
        /\ \/ e.anchor = None
           \/ /\ e.anchor = rec[d].anchor /\ e.doc = rec[d].doc /\ e.scope = rec[d].scope
              /\ e.pending = rec[d].pending
    BY <1>3, <1>4, FollowsScope
  <2> QED
    BY <1>2, <1>4, <1>5, <1>6, <1>8, <2>1, ScopeStepKeeps
<1> QED
  BY <1>5, <1>7, <1>8

(***************************************************************************)
(* Signing out: the teardown, the scope left or not, the session cleared.  *)
(***************************************************************************)
LEMMA SignOutKeeps ==
    ASSUME IInv, NEW d \in Devices, SignOut(d)
    PROVE  IInv'
<1> DEFINE s == [svc[d] EXCEPT !.pc = "leave", !.atomicScope = None,
                               !.atomicRetirementPending = TRUE,
                               !.req = None, !.reply = None]
<1>1. /\ svc \in [Devices -> Svc] /\ svc[d] \in Svc
      /\ SessionOK(svc[d], auth[d], count.logins) /\ svc[d].pc # "off"
  BY RightSession DEF IInv, SessionsOK, SignOut
<1>2. svc' = [svc EXCEPT ![d] = s]
  BY <1>1, Zenon DEF SignOut
<1>3. /\ s \in Svc /\ s.pc = "leave" /\ s.atomicScope = None
      /\ s.userId = svc[d].userId /\ s.session = svc[d].session
  BY <1>1 DEF Svc, Pcs
<1> HIDE DEF s
<1>4. SessionOK(s, auth[d], count.logins) /\ ~Answered(s) /\ ~Writing(s)
  BY <1>1, <1>3 DEF SessionOK, Answered, Writing, Exchange
<1>5. /\ UNCHANGED <<rec, auth, row, linked, made>> /\ count' = count
      /\ \E sent \in Deserted(d) : inFlight' = inFlight \union sent
  BY DEF SignOut
<1> QED
  BY <1>2, <1>3, <1>4, <1>5, ServiceStepKeeps

\* Leaving an account's scope keeps the invariant.
LEMMA LeaveScopeKeeps ==
    ASSUME IInv, NEW d \in Devices, LeaveScope(d)
    PROVE  IInv'
<1> DEFINE s == [svc[d] EXCEPT !.pc = "leaving", !.atomicRetirementPending = FALSE]
           e == EnterScope(rec[d], None, None)
<1>1. /\ svc \in [Devices -> Svc] /\ svc[d] \in Svc
      /\ SessionOK(svc[d], auth[d], count.logins) /\ svc[d].pc = "leave"
  BY RightSession DEF IInv, SessionsOK, LeaveScope
<1>2. svc' = [svc EXCEPT ![d] = s]
  BY <1>1, Zenon DEF LeaveScope
<1>3. /\ s \in Svc /\ s.pc = "leaving" /\ s.atomicScope = svc[d].atomicScope
      /\ s.userId = svc[d].userId /\ s.session = svc[d].session
  BY <1>1 DEF Svc, Pcs
<1>4. RecordOK(rec[d])
  BY DEF IInv, RecordsOK
<1>5. RecordOK(e) /\ (e = rec[d] \/ Crosses(rec[d], e))
  BY <1>4, EnterScopeOK
<1>6. /\ UNCHANGED <<auth, row, linked, made>> /\ count' = count /\ inFlight' = inFlight
      /\ rec' = [rec EXCEPT ![d] = e]
  BY DEF LeaveScope
<1> HIDE DEF s, e
<1>7. SessionOK(s, auth[d], count.logins) /\ ~Answered(s) /\ ~Writing(s)
  BY <1>1, <1>3 DEF SessionOK, Answered, Writing, Exchange
<1>8. /\ Follows(rec[d], e) /\ e.ownership = rec[d].ownership
      /\ \/ e.anchor = None
         \/ /\ e.anchor = rec[d].anchor /\ e.doc = rec[d].doc /\ e.scope = rec[d].scope
            /\ e.pending = rec[d].pending
  BY <1>4, <1>5, FollowsScope
<1> QED
  BY <1>2, <1>3, <1>5, <1>6, <1>7, <1>8, ScopeStepKeeps

\* A failed leave keeps the invariant.
LEMMA LeaveScopeFailsKeeps ==
    ASSUME IInv, NEW d \in Devices, LeaveScopeFails(d)
    PROVE  IInv'
<1> DEFINE s == [svc[d] EXCEPT !.pc = "leaving"]
<1>1. /\ svc \in [Devices -> Svc] /\ svc[d] \in Svc
      /\ SessionOK(svc[d], auth[d], count.logins) /\ svc[d].pc = "leave"
  BY RightSession DEF IInv, SessionsOK, LeaveScopeFails
<1>2. svc' = [svc EXCEPT ![d] = s]
  BY <1>1, Zenon DEF LeaveScopeFails
<1>3. /\ s \in Svc /\ s.pc = "leaving" /\ s.atomicScope = svc[d].atomicScope
      /\ s.userId = svc[d].userId /\ s.session = svc[d].session
  BY <1>1 DEF Svc, Pcs
<1> HIDE DEF s
<1>4. SessionOK(s, auth[d], count.logins) /\ ~Answered(s) /\ ~Writing(s)
  BY <1>1, <1>3 DEF SessionOK, Answered, Writing, Exchange
<1>5. /\ UNCHANGED <<rec, auth, row, linked, made>> /\ Spend("faults", MaxFaults)
      /\ inFlight' = inFlight
  BY DEF LeaveScopeFails
<1> QED
  BY <1>2, <1>3, <1>4, <1>5, ServiceStepKeeps

\* A stopped service is consistent with any session.
LEMMA OffSession ==
    ASSUME IInv, NEW d \in Devices, NEW pending \in BOOLEAN, NEW stored \in {auth[d], None}
    PROVE  LET s == [Off EXCEPT !.atomicRetirementPending = pending]
           IN  /\ s \in Svc /\ SessionOK(s, stored, count.logins)
               /\ ~Answered(s) /\ ~Writing(s)
<1> DEFINE s == [Off EXCEPT !.atomicRetirementPending = pending]
<1>1. /\ SessionOK(svc[d], auth[d], count.logins) /\ count.logins \in Nat /\ MaxLogins \in Nat
  BY RightSession
<1>2. /\ s \in Svc /\ s.pc = "off" /\ s.session = 0 /\ s.userId = None /\ s.atomicScope = None
  BY <1>1 DEF Off, Svc, Pcs
<1> HIDE DEF s
<1>3. SessionOK(s, stored, count.logins) /\ ~Answered(s) /\ ~Writing(s)
  BY <1>1, <1>2 DEF SessionOK, Answered, Writing, Exchange
<1> QED
  BY <1>2, <1>3 DEF s

\* The end of a sign-out keeps the invariant.
LEMMA SignedOutKeeps ==
    ASSUME IInv, NEW d \in Devices, SignedOut(d)
    PROVE  IInv'
<1> DEFINE s == [Off EXCEPT !.atomicRetirementPending = svc[d].atomicRetirementPending]
<1>1. /\ s \in Svc /\ SessionOK(s, None, count.logins) /\ ~Answered(s) /\ ~Writing(s)
  BY RightSession, OffSession
<1>2. /\ UNCHANGED <<rec, row, inFlight, linked, made, count>>
      /\ auth' = [auth EXCEPT ![d] = None] /\ svc' = [svc EXCEPT ![d] = s]
  BY DEF SignedOut
<1> HIDE DEF s
<1>3. /\ Counts /\ RecordsOK /\ RecordOK(rec[d]) /\ rec' = [rec EXCEPT ![d] = rec[d]]
      /\ AnchorOK(rec[d], svc[d], row)
  BY <1>2 DEF IInv, RecordsOK, AnchorsOK
<1>4. /\ inFlight' \subseteq [subject : Accounts, req : Request]
      /\ \A w \in inFlight' : w.req \in Sent
  BY <1>2, DesertedKeeps
<1>5. Counts' /\ linked' = {e \in Devices : rec'[e].ownership # "never-linked"}
  BY <1>2, <1>3 DEF Counts, RecordsOK
<1>6. DeviceStep(d, rec[d], s, None)
  BY <1>2, <1>3, <1>4, <1>5 DEF DeviceStep
<1>7. Follows(rec[d], rec[d]) /\ AnchorOK(rec[d], s, row) /\ ReplyOK(s, None, row)
  BY <1>1, <1>3 DEF Follows, AnchorOK, ReplyOK
<1> QED
  BY <1>1, <1>3, <1>6, <1>7, DeviceStepKeeps

(***************************************************************************)
(* A worker that dies and wakes.                                           *)
(***************************************************************************)
LEMMA RestartKeeps ==
    ASSUME IInv, NEW d \in Devices, Restart(d)
    PROVE  IInv'
<1> DEFINE w == Wake(rec[d])
           s == [Off EXCEPT !.atomicRetirementPending = FALSE]
<1>1. /\ s \in Svc /\ SessionOK(s, auth[d], count.logins) /\ ~Answered(s) /\ ~Writing(s)
  BY OffSession
<1>2. s = Off
  <2>1. Off \in Svc /\ Off.atomicRetirementPending = FALSE
    BY OffType
  <2> QED
    BY <2>1 DEF Svc
<1>3. RecordOK(rec[d])
  BY DEF IInv, RecordsOK
<1>4. /\ RecordOK(w) /\ SameService(rec[d], w)
      /\ w.doc = rec[d].doc /\ w.pending = rec[d].pending
  BY <1>3, WakeOK
<1>5. /\ UNCHANGED <<auth, row, linked, made>> /\ Spend("faults", MaxFaults)
      /\ \E sent \in Deserted(d) : inFlight' = inFlight \union sent
      /\ rec' = [rec EXCEPT ![d] = w]
      /\ svc' = [svc EXCEPT ![d] = s]
  BY <1>2 DEF Restart
<1> HIDE DEF w, s
<1>6. Follows(rec[d], w) /\ w.ownership = rec[d].ownership
  BY <1>4 DEF Follows, SameService
<1>7. w.anchor = rec[d].anchor /\ w.doc = rec[d].doc /\ w.scope = rec[d].scope
  BY <1>4 DEF SameService
<1> QED
  BY <1>1, <1>4, <1>5, <1>6, <1>7, ScopeStepKeeps

-----------------------------------------------------------------------------
(* Reading and answering.                                                  *)

(***************************************************************************)
(* The steps of an exchange that change the service only.                  *)
(***************************************************************************)
LEMMA ReconcileKeeps ==
    ASSUME IInv, NEW d \in Devices, Reconcile(d)
    PROVE  IInv'
<1>1. /\ svc \in [Devices -> Svc] /\ svc[d] \in Svc /\ svc[d].pc = "idle"
      /\ SessionOK(svc[d], auth[d], count.logins)
  BY RightSession DEF IInv, SessionsOK, Reconcile
<1>2. /\ UNCHANGED <<rec, auth, row, linked, made>> /\ count' = count
      /\ inFlight' = inFlight
  BY DEF Reconcile
<1>3. CASE svc[d].atomicScope = None
  <2> DEFINE pc == IF svc[d].atomicRetirementPending THEN "retire" ELSE "enter"
             s == [svc[d] EXCEPT !.session = auth[d].session, !.pc = pc]
  <2>1. /\ auth[d] # None /\ auth[d].account = svc[d].userId
        /\ svc' = [svc EXCEPT ![d].session = auth[d].session, ![d].pc = pc]
    BY <1>3 DEF Reconcile
  <2>2. /\ auth[d].session \in 0..MaxLogins /\ auth[d].session > 0
        /\ auth[d].session <= count.logins
    BY <2>1, RightSession DEF SessionOK
  <2>3. pc \in {"retire", "enter"}
    OBVIOUS
  <2> HIDE DEF pc
  <2>4. svc' = [svc EXCEPT ![d] = s]
    BY <1>1, <2>1, Zenon
  <2>5. /\ s \in Svc /\ s.pc = pc /\ s.atomicScope = None
        /\ s.userId = svc[d].userId /\ s.session = auth[d].session
    BY <1>1, <1>3, <2>2, <2>3 DEF Svc, Pcs
  <2> HIDE DEF s
  <2>6. SessionOK(s, auth[d], count.logins) /\ ~Answered(s) /\ ~Writing(s)
    BY <1>1, <2>1, <2>2, <2>3, <2>5 DEF SessionOK, Answered, Writing, Exchange
  <2> QED
    BY <1>2, <2>4, <2>5, <2>6, ServiceStepKeeps
<1>4. CASE svc[d].atomicScope # None
  <2>1. Goto(d, "read")
    BY <1>4 DEF Reconcile
  <2>2. /\ svc' = [svc EXCEPT ![d] = Left(svc[d], "read")] /\ Left(svc[d], "read") \in Svc
        /\ SessionOK(Left(svc[d], "read"), auth[d], count.logins)
        /\ ~Answered(Left(svc[d], "read")) /\ ~Writing(Left(svc[d], "read"))
    BY <1>1, <1>4, <2>1, LeftSession
  <2> QED
    BY <1>2, <2>2, ServiceStepKeeps
<1> QED
  BY <1>3, <1>4

\* Writing a choice through keeps the invariant.
LEMMA WriteThroughKeeps ==
    ASSUME IInv, NEW d \in Devices, WriteThrough(d)
    PROVE  IInv'
<1>1. /\ UNCHANGED <<rec, auth, row, linked, made>> /\ count' = count
      /\ inFlight' = inFlight
      /\ Goto(d, "flush") /\ svc[d].pc # "off" /\ svc[d].atomicScope # None
  BY DEF WriteThrough
<1>2. /\ svc' = [svc EXCEPT ![d] = Left(svc[d], "flush")] /\ Left(svc[d], "flush") \in Svc
      /\ SessionOK(Left(svc[d], "flush"), auth[d], count.logins)
      /\ ~Answered(Left(svc[d], "flush")) /\ ~Writing(Left(svc[d], "flush"))
  BY <1>1, LeftSession
<1> QED
  BY <1>1, <1>2, ServiceStepKeeps

\* A service that gives up and rests keeps the invariant.
LEMMA IdleKeeps ==
    ASSUME IInv, NEW d \in Devices, svc[d].pc # "off", Goto(d, "idle"),
           UNCHANGED <<rec, auth, row, linked, made>>,
           count' = count \/ Spend("faults", MaxFaults),
           inFlight' = inFlight \/ \E sent \in Deserted(d) : inFlight' = inFlight \union sent
    PROVE  IInv'
<1>1. /\ svc' = [svc EXCEPT ![d] = Left(svc[d], "idle")] /\ Left(svc[d], "idle") \in Svc
      /\ SessionOK(Left(svc[d], "idle"), auth[d], count.logins)
      /\ ~Answered(Left(svc[d], "idle")) /\ ~Writing(Left(svc[d], "idle"))
  BY LeftSession
<1> QED
  BY <1>1, ServiceStepKeeps

\* Giving a reconcile up keeps the invariant.
LEMMA AbandonKeeps ==
    ASSUME IInv, NEW d \in Devices, Abandon(d)
    PROVE  IInv'
<1>1. /\ UNCHANGED <<rec, auth, row, linked, made>> /\ count' = count
      /\ \E sent \in Deserted(d) : inFlight' = inFlight \union sent
      /\ Goto(d, "idle") /\ svc[d].pc # "off"
  BY DEF Abandon
<1> QED
  BY <1>1, IdleKeeps

\* A call that fails keeps the invariant.
LEMMA FailsKeeps ==
    ASSUME IInv, NEW d \in Devices, Fails(d)
    PROVE  IInv'
<1>1. /\ UNCHANGED <<rec, auth, row, linked, made>> /\ Spend("faults", MaxFaults)
      /\ \E sent \in Deserted(d) : inFlight' = inFlight \union sent
      /\ Goto(d, "idle") /\ svc[d].pc # "off"
  BY DEF Fails
<1> QED
  BY <1>1, IdleKeeps

(***************************************************************************)
(* The record is retired from a scope, or enters the account's.            *)
(***************************************************************************)
LEMMA RetireKeeps ==
    ASSUME IInv, NEW d \in Devices, Retire(d)
    PROVE  IInv'
<1> DEFINE s == [svc[d] EXCEPT !.pc = "enter", !.atomicRetirementPending = FALSE]
           e == EnterScope(rec[d], None, None)
<1>1. /\ svc \in [Devices -> Svc] /\ svc[d] \in Svc
      /\ SessionOK(svc[d], auth[d], count.logins) /\ svc[d].pc = "retire"
  BY RightSession DEF IInv, SessionsOK, Retire
<1>2. svc' = [svc EXCEPT ![d] = s]
  BY <1>1, Zenon DEF Retire
<1>3. /\ s \in Svc /\ s.pc = "enter" /\ s.atomicScope = svc[d].atomicScope
      /\ s.userId = svc[d].userId /\ s.session = svc[d].session
  BY <1>1 DEF Svc, Pcs
<1>4. RecordOK(rec[d])
  BY DEF IInv, RecordsOK
<1>5. RecordOK(e) /\ (e = rec[d] \/ Crosses(rec[d], e))
  BY <1>4, EnterScopeOK
<1>6. /\ UNCHANGED <<auth, row, linked, made>> /\ count' = count /\ inFlight' = inFlight
      /\ rec' = [rec EXCEPT ![d] = e]
  BY DEF Retire
<1> HIDE DEF s, e
<1>7. SessionOK(s, auth[d], count.logins) /\ ~Answered(s) /\ ~Writing(s)
  BY <1>1, <1>3 DEF SessionOK, Answered, Writing, Exchange
<1>8. /\ Follows(rec[d], e) /\ e.ownership = rec[d].ownership
      /\ \/ e.anchor = None
         \/ /\ e.anchor = rec[d].anchor /\ e.doc = rec[d].doc /\ e.scope = rec[d].scope
            /\ e.pending = rec[d].pending
  BY <1>4, <1>5, FollowsScope
<1> QED
  BY <1>2, <1>3, <1>5, <1>6, <1>7, <1>8, ScopeStepKeeps

\* Entering an account's scope keeps the invariant.
LEMMA EnterKeeps ==
    ASSUME IInv, NEW d \in Devices, Enter(d)
    PROVE  IInv'
<1> DEFINE e == EnterScope(rec[d], svc[d].userId, svc[d].session)
           s == [svc[d] EXCEPT !.pc = "idle", !.atomicScope = e.scope]
<1>1. /\ svc \in [Devices -> Svc] /\ svc[d] \in Svc /\ svc[d].pc = "enter"
      /\ SessionOK(svc[d], auth[d], count.logins)
      /\ svc[d].session \in 1..MaxLogins /\ svc[d].userId \in Accounts /\ None \notin Accounts
  BY RightSession DEF IInv, SessionsOK, Enter, SessionOK
<1>2. RecordOK(rec[d]) /\ rec \in [Devices -> Record]
  BY DEF IInv, RecordsOK
<1>3. /\ RecordOK(e) /\ (e = rec[d] \/ Crosses(rec[d], e))
      /\ e.scope.account = svc[d].userId /\ e.scope.session = svc[d].session
  BY <1>1, <1>2, EnterScopeOK
<1>4. e.scope \in Scope /\ e.scope # None
  BY <1>3, RightRecord, NoScopeAssumption
<1>5. /\ UNCHANGED <<auth, row, linked, made>> /\ count' = count /\ inFlight' = inFlight
      /\ rec' = [rec EXCEPT ![d] = e]
  BY DEF Enter
<1> HIDE DEF e
<1>6. rec'[d] = e
  BY <1>2, <1>5
<1>7. svc' = [svc EXCEPT ![d] = s]
  <2>1. svc' = [svc EXCEPT ![d].pc = "idle", ![d].atomicScope = e.scope]
    BY <1>6 DEF Enter
  <2> QED
    BY <1>1, <2>1, Zenon
<1>8. /\ s \in Svc /\ s.pc = "idle" /\ s.atomicScope = e.scope
      /\ s.userId = svc[d].userId /\ s.session = svc[d].session
  BY <1>1, <1>4 DEF Svc, Pcs
<1> HIDE DEF s
<1>9. SessionOK(s, auth[d], count.logins) /\ ~Answered(s) /\ ~Writing(s)
  BY <1>1, <1>3, <1>8 DEF SessionOK, Answered, Writing, Exchange
<1>10. /\ Follows(rec[d], e) /\ e.ownership = rec[d].ownership
       /\ \/ e.anchor = None
          \/ /\ e.anchor = rec[d].anchor /\ e.doc = rec[d].doc /\ e.scope = rec[d].scope
             /\ e.pending = rec[d].pending
  BY <1>2, <1>3, FollowsScope
<1> QED
  BY <1>3, <1>5, <1>7, <1>8, <1>9, <1>10, ScopeStepKeeps

(***************************************************************************)
(* A canonical read is answered for the service's account or for a newer   *)
(* session's; what a right record shows, the answer covers.                *)
(***************************************************************************)
LEMMA SubjectsMean ==
    ASSUME IInv, NEW d \in Devices, svc[d].pc \in Exchange, NEW a \in Subjects(d)
    PROVE  /\ a \in Accounts
           /\ \/ a = svc[d].atomicScope.account
              \/ auth[d] # None /\ auth[d].session > svc[d].session
<1>1. /\ SessionOK(svc[d], auth[d], count.logins)
      /\ auth[d] # None => auth[d].account \in Accounts
  BY RightSession
<1>2. /\ svc[d].atomicScope # None /\ svc[d].atomicScope.account = svc[d].userId
      /\ svc[d].pc # "off" /\ svc[d].userId \in Accounts
  BY <1>1 DEF SessionOK, Exchange
<1>3. a = svc[d].atomicScope.account \/ (auth[d] # None /\ a = auth[d].account)
  BY DEF Subjects
<1> QED
  BY <1>1, <1>2, <1>3 DEF SessionOK

\* The answer taken from a row stands against it.
LEMMA AnswerOfMeans ==
    ASSUME NEW a \in Accounts, NEW used, NEW r, RowOK(a, r, used)
    PROVE  /\ AnswerOf(a, r) \in Reply /\ AnswerOf(a, r).lineage = a
           /\ AnswerOf(a, r).doc = Canonical(r)
           /\ AnswerStands(AnswerOf(a, r), r)
<1>1. /\ r \in Row /\ Revision(r) \in Nat /\ Canonical(r) \in Doc /\ Revision(r) <= MaxRevision
      /\ \A f \in Fields : Canonical(r)[f] \in OrderedField
  BY RowParts DEF RowOK
<1>2. Revision(r) \in 0..MaxRevision
  BY <1>1, BoundsAssumption
<1>3. \A f \in Fields : ~Outranks(Canonical(r)[f], Canonical(r)[f])
  BY <1>1, RankFacts
<1> QED
  BY <1>1, <1>2, <1>3 DEF AnswerOf, Reply, AnswerStands

\* Reading the account's document keeps the invariant.
LEMMA ReadCanonicalKeeps ==
    ASSUME IInv, NEW d \in Devices, ReadCanonical(d)
    PROVE  IInv'
<1>1. PICK a \in Subjects(d) :
         svc' = [svc EXCEPT ![d].pc = "readReply", ![d].reply = AnswerOf(a, row[a])]
  BY DEF ReadCanonical
<1>2. /\ svc \in [Devices -> Svc] /\ svc[d] \in Svc /\ svc[d].pc = "read"
      /\ SessionOK(svc[d], auth[d], count.logins)
  BY RightSession DEF IInv, SessionsOK, ReadCanonical
<1>3. /\ a \in Accounts
      /\ \/ a = svc[d].atomicScope.account
         \/ auth[d] # None /\ auth[d].session > svc[d].session
  BY <1>2, SubjectsMean DEF Exchange
<1>4. RowOK(a, row[a], count.legacy)
  BY <1>3 DEF IInv, RowsOK
<1> DEFINE reply == AnswerOf(a, row[a])
           s == [svc[d] EXCEPT !.pc = "readReply", !.reply = reply]
<1>5. /\ reply \in Reply /\ reply.lineage = a /\ reply.doc = Canonical(row[a])
      /\ AnswerStands(reply, row[a])
  BY <1>3, <1>4, AnswerOfMeans
<1>6. svc' = [svc EXCEPT ![d] = s]
  BY <1>1, <1>2, Zenon
<1> HIDE DEF reply
<1>7. /\ s \in Svc /\ s.pc = "readReply" /\ s.reply = reply
      /\ s.atomicScope = svc[d].atomicScope
      /\ s.userId = svc[d].userId /\ s.session = svc[d].session
  BY <1>2, <1>5 DEF Svc, Pcs
<1> HIDE DEF s
<1>8. SessionOK(s, auth[d], count.logins) /\ ~Writing(s)
  BY <1>2, <1>5, <1>7 DEF SessionOK, Writing, Exchange
<1>9. ReplyOK(s, auth[d], row)
  BY <1>3, <1>5, <1>7 DEF ReplyOK
<1>10. /\ Counts /\ RecordsOK /\ RecordOK(rec[d])
       /\ auth' = [auth EXCEPT ![d] = auth[d]] /\ rec' = [rec EXCEPT ![d] = rec[d]]
       /\ UNCHANGED <<rec, row, inFlight, linked, made, count>>
       /\ AnchorOK(rec[d], svc[d], row)
  BY DEF IInv, RecordsOK, AnchorsOK, ReadCanonical, SessionsOK
<1>11. AnchorOK(rec[d], s, row)
  BY <1>5, <1>7, <1>10 DEF AnchorOK, Anchored, AnchorAccepted
<1>12. /\ inFlight' \subseteq [subject : Accounts, req : Request]
       /\ \A w \in inFlight' : w.req \in Sent
  BY <1>10, DesertedKeeps
<1>13. Counts' /\ linked' = {e \in Devices : rec'[e].ownership # "never-linked"}
  BY <1>10 DEF Counts, RecordsOK
<1>14. DeviceStep(d, rec[d], s, auth[d])
  BY <1>6, <1>10, <1>12, <1>13 DEF DeviceStep
<1>15. Follows(rec[d], rec[d])
  BY DEF Follows
<1> QED
  BY <1>7, <1>8, <1>9, <1>10, <1>11, <1>14, <1>15, DeviceStepKeeps

(***************************************************************************)
(* An acknowledgement: a service that still owns its session applies the   *)
(* answer it was given.                                                    *)
(***************************************************************************)
Acknowledges(d, pc) ==
    /\ Answered(svc[d])
    /\ Owns(d)
    /\ AnchorAccepted(rec[d], svc[d].reply)
    /\ rec' = [rec EXCEPT ![d] = Acknowledge(@, svc[d].reply, svc[d].atomicScope)]
    /\ Goto(d, pc)
    /\ linked' = linked \union {e \in {d} : rec'[e].anchor # None}
    /\ UNCHANGED <<auth, row, inFlight, made, count>>

\* The answer belongs to the account whose scope the service entered.
LEMMA AnswerIsHome ==
    ASSUME IInv, NEW d \in Devices, Answered(svc[d]), Owns(d)
    PROVE  /\ svc[d].reply \in Reply
           /\ svc[d].reply.lineage = svc[d].atomicScope.account
           /\ AnswerStands(svc[d].reply, row[svc[d].reply.lineage])
           /\ svc[d].atomicScope.account \in Accounts
<1>1. /\ SessionOK(svc[d], auth[d], count.logins) /\ svc[d].session \in Nat
      /\ auth[d] # None /\ auth[d].session \in Nat
      /\ ReplyOK(svc[d], auth[d], row)
  BY RightSession DEF IInv, RepliesOK, Owns
<1>2. auth[d].session = svc[d].session
  BY <1>1 DEF Owns, SessionOK
<1>3. svc[d].reply \in Reply /\ svc[d].reply.lineage = svc[d].atomicScope.account
  BY <1>1, <1>2 DEF SessionOK, Answered, ReplyOK
<1> QED
  BY <1>1, <1>3 DEF ReplyOK, Reply

\* What the acknowledged record is: the old one, or one settled by the answer.
LEMMA AcknowledgedRecord ==
    ASSUME IInv, NEW d \in Devices, NEW pc, Acknowledges(d, pc)
    PROVE  LET k == Acknowledge(rec[d], svc[d].reply, svc[d].atomicScope)
           IN  /\ RecordOK(k)
               /\ k = rec[d] \/ ( /\ rec[d].scope.account # None
                                  /\ svc[d].atomicScope = rec[d].scope
                                  /\ Settles(rec[d], k, svc[d].reply) )
<1> DEFINE k == Acknowledge(rec[d], svc[d].reply, svc[d].atomicScope)
<1>1. /\ svc[d].reply \in Reply
      /\ svc[d].reply.lineage = svc[d].atomicScope.account
      /\ svc[d].atomicScope.account \in Accounts
  BY AnswerIsHome DEF Acknowledges
<1>2. RecordOK(rec[d])
  BY DEF IInv, RecordsOK
<1>3. CASE svc[d].atomicScope # rec[d].scope
  <2>1. k = rec[d]
    BY <1>3 DEF Acknowledge
  <2> QED
    BY <1>2, <2>1
<1>4. CASE svc[d].atomicScope = rec[d].scope
  <2>1. RecordOK(k) /\ Settles(rec[d], k, svc[d].reply)
    BY <1>1, <1>2, <1>4, AcknowledgeOK
  <2>2. rec[d].scope.account # None
    BY <1>1, <1>4, RightSession
  <2> QED
    BY <1>4, <2>1, <2>2
<1> QED
  BY <1>3, <1>4

\* What a settled record shows, against the row that was read.
LEMMA SettledAnchored ==
    ASSUME NEW r, RecordOK(r), NEW reply \in Reply, NEW k, RecordOK(k),
           r.scope.account # None, Settles(r, k, reply),
           NEW accountRow \in Row, AnswerStands(reply, accountRow)
    PROVE  Anchored(k, accountRow)
<1>1. /\ k.doc = MergedPending(k, reply.doc)
      /\ \A f \in Fields : \/ k.doc[f] = reply.doc[f]
                           \/ \E p \in k.pending : p.path = f /\ p.op = k.doc[f]
  BY SettledDoc
<1>2. k.anchor.revision = reply.revision
  BY DEF Settles
<1>3. Covered(k, Canonical(accountRow))
  BY <1>1 DEF Covered, AnswerStands
<1> QED
  BY <1>1, <1>2, <1>3 DEF Anchored, AnswerStands

\* Taking an answer into the record keeps the invariant.
LEMMA AcknowledgesKeeps ==
    ASSUME IInv, NEW d \in Devices, NEW pc \in {"idle", "flush"}, Acknowledges(d, pc)
    PROVE  IInv'
<1> DEFINE k == Acknowledge(rec[d], svc[d].reply, svc[d].atomicScope)
           s == Left(svc[d], pc)
<1>1. /\ RecordOK(k)
      /\ k = rec[d] \/ ( /\ rec[d].scope.account # None
                         /\ svc[d].atomicScope = rec[d].scope
                         /\ Settles(rec[d], k, svc[d].reply) )
  BY AcknowledgedRecord
<1>2. /\ svc[d].reply \in Reply
      /\ svc[d].reply.lineage \in Accounts
      /\ AnswerStands(svc[d].reply, row[svc[d].reply.lineage])
  BY AnswerIsHome DEF Acknowledges, Reply
<1>3. /\ RecordsOK /\ RecordOK(rec[d]) /\ rec \in [Devices -> Record] /\ Counts
      /\ AnchorOK(rec[d], svc[d], row) /\ auth' = [auth EXCEPT ![d] = auth[d]]
      /\ rec' = [rec EXCEPT ![d] = k]
      /\ UNCHANGED <<auth, row, inFlight, made, count>>
  BY DEF IInv, RecordsOK, AnchorsOK, SessionsOK, Acknowledges
<1>4. svc[d].pc # "off" /\ svc[d].atomicScope # None /\ Goto(d, pc)
  BY DEF Acknowledges, Answered, Owns
<1>5. /\ svc' = [svc EXCEPT ![d] = s] /\ s \in Svc
      /\ SessionOK(s, auth[d], count.logins) /\ ~Answered(s) /\ ~Writing(s)
  BY <1>4, LeftSession
<1> HIDE DEF k, s
<1>6. Follows(rec[d], k)
  <2>1. CASE k = rec[d]
    BY <2>1 DEF Follows
  <2>2. CASE rec[d].scope.account # None /\ Settles(rec[d], k, svc[d].reply)
    <3>1. k.anchor \in IssuedReceipt
      BY <1>2, <2>2 DEF Settles, Reply, IssuedReceipt, Accounts
    <3>2. \A p \in rec[d].pending : /\ Bound(p, k.anchor).id = p.id
                                    /\ p.receipt # None => Bound(p, k.anchor) = p
      BY <1>3, <2>2, <3>1, BoundMeans
    <3> QED
      BY <2>2, <3>2 DEF Settles, Follows
  <2> QED
    BY <1>1, <2>1, <2>2
<1>7. AnchorOK(k, s, row)
  <2>1. CASE k = rec[d]
    BY <1>3, <1>5, <2>1 DEF AnchorOK
  <2>2. CASE rec[d].scope.account # None /\ Settles(rec[d], k, svc[d].reply)
    <3>1. row[svc[d].reply.lineage] \in Row
      BY <1>2 DEF IInv, RowsOK
    <3>2. Anchored(k, row[svc[d].reply.lineage])
      BY <1>1, <1>2, <1>3, <2>2, <3>1, SettledAnchored
    <3>3. k.anchor.lineage = svc[d].reply.lineage
      BY <2>2 DEF Settles
    <3> QED
      BY <1>5, <3>2, <3>3 DEF AnchorOK
  <2> QED
    BY <1>1, <2>1, <2>2
<1>8. linked' = {e \in Devices : rec'[e].ownership # "never-linked"}
  <2>1. /\ rec'[d] = k /\ \A e \in Devices : e # d => rec'[e] = rec[e]
        /\ linked = {e \in Devices : rec[e].ownership # "never-linked"}
        /\ linked' = linked \union {e \in {d} : rec'[e].anchor # None}
    BY <1>3 DEF RecordsOK, Acknowledges
  <2>2. k.anchor # None => k.ownership # "never-linked"
    BY <1>1 DEF RecordOK, Provenance
  <2>3. k = rec[d] \/ (k.anchor # None /\ k.ownership # "never-linked")
    <3>1. Settles(rec[d], k, svc[d].reply) => k.anchor # None /\ k.ownership # "never-linked"
      <4>1. [lineage |-> svc[d].reply.lineage, revision |-> svc[d].reply.revision] \in Receipt
        BY <1>2, BoundsAssumption DEF Reply, Receipt, Accounts
      <4> QED
        BY <4>1, NoneAssumption DEF Settles
    <3> QED
      BY <1>1, <3>1
  <2>4. \A e \in Devices : e \in linked' <=> rec'[e].ownership # "never-linked"
    BY <2>1, <2>2, <2>3
  <2> QED
    BY <2>1, <2>4
<1>9. /\ inFlight' \subseteq [subject : Accounts, req : Request]
      /\ \A w \in inFlight' : w.req \in Sent
  BY <1>3, DesertedKeeps
<1>10. Counts'
  BY <1>3 DEF Counts
<1>11. DeviceStep(d, k, s, auth[d])
  BY <1>3, <1>5, <1>8, <1>9, <1>10 DEF DeviceStep
<1>12. ReplyOK(s, auth[d], row)
  BY <1>5 DEF ReplyOK
<1> QED
  BY <1>1, <1>5, <1>6, <1>7, <1>11, <1>12, DeviceStepKeeps

\* Taking a read's answer keeps the invariant.
LEMMA AckReadKeeps ==
    ASSUME IInv, NEW d \in Devices, AckRead(d)
    PROVE  IInv'
<1>1. Acknowledges(d, "flush")
  BY DEF AckRead, Acknowledges, Answered
<1> QED
  BY <1>1, AcknowledgesKeeps

\* A write's answer is taken into the record like a read's.
LEMMA AckWriteAcknowledges ==
    ASSUME NEW d \in Devices, AckWrite(d)
    PROVE  \E pc \in {"idle", "flush"} : Acknowledges(d, pc)
<1> DEFINE pc == IF \E p \in rec'[d].pending : p.id = svc[d].req.id THEN "idle" ELSE "flush"
<1>1. pc \in {"idle", "flush"}
  OBVIOUS
<1>2. Acknowledges(d, pc)
  BY Zenon DEF AckWrite, Acknowledges, Answered
<1> QED
  BY <1>1, <1>2

\* Taking a write's answer keeps the invariant.
LEMMA AckWriteKeeps ==
    ASSUME IInv, NEW d \in Devices, AckWrite(d)
    PROVE  IInv'
  BY AckWriteAcknowledges, AcknowledgesKeeps

(***************************************************************************)
(* A verified code: every earlier service is out of date.                  *)
(***************************************************************************)
LEMMA VerifyCodeKeeps ==
    ASSUME IInv, NEW d \in Devices, NEW a \in Accounts, VerifyCode(d, a)
    PROVE  IInv'
<1> DEFINE stored == [account |-> a, session |-> count.logins + 1]
<1>1. /\ Counts /\ RecordsOK /\ SessionsOK /\ RowsOK /\ JournalsOK /\ SentOK
      /\ RepliesOK /\ AnchorsOK
  BY DEF IInv
<1>2. /\ Spend("logins", MaxLogins) /\ auth' = [auth EXCEPT ![d] = stored]
      /\ UNCHANGED <<rec, svc, row, inFlight, linked, made>>
  BY DEF VerifyCode
<1>3. /\ Counts' /\ count.logins < MaxLogins /\ count'.logins = count.logins + 1
      /\ count'.edits = count.edits /\ count'.legacy = count.legacy
  BY <1>1, <1>2, SpendOne, SyncBoundsAssumption
<1>4. /\ count.logins \in Nat /\ stored \in Session /\ stored.session = count.logins + 1
      /\ \A e \in Devices : svc[e].session \in Nat /\ svc[e].session <= count.logins
  <2>1. count.logins \in Nat /\ count.logins + 1 \in 1..MaxLogins
    BY <1>1, <1>3, SyncBoundsAssumption DEF Counts
  <2>2. \A e \in Devices : svc[e].session \in Nat /\ svc[e].session <= count.logins
    BY <1>1 DEF SessionsOK, Svc, SessionOK
  <2> QED
    BY <2>1, <2>2 DEF Session
<1> HIDE DEF stored
<1>5. /\ auth' \in [Devices -> Session \union {None}] /\ auth'[d] = stored
      /\ \A e \in Devices : e # d => auth'[e] = auth[e]
  BY <1>1, <1>2, <1>4 DEF SessionsOK
<1>6. SessionsOK'
  <2>1. ASSUME NEW e \in Devices PROVE SessionOK(svc[e], auth'[e], count'.logins)
    <3>1. SessionOK(svc[e], auth[e], count.logins) /\ auth[e] \in Session \union {None}
      BY <1>1 DEF SessionsOK
    <3>2. CASE e = d
      BY <1>3, <1>4, <1>5, <3>1, <3>2 DEF SessionOK
    <3>3. CASE e # d
      BY <1>3, <1>4, <1>5, <3>1, <3>3 DEF SessionOK, Session
    <3> QED
      BY <3>2, <3>3
  <2> QED
    BY <1>1, <1>2, <1>5, <2>1 DEF SessionsOK
<1>7. RecordsOK' /\ RowsOK'
  BY <1>1, <1>2, <1>3 DEF RecordsOK, RowsOK
<1>8. Sent' \subseteq Sent
  BY <1>2 DEF Sent, SentAway, Claimed, InHand
<1>9. JournalsOK' /\ SentOK'
  BY <1>1, <1>2, <1>3, <1>8, JournalsFrame DEF Follows, SentOK
<1>10. row' \in [Accounts -> Row] /\ \A b \in Accounts : Advances(row[b], row'[b])
  BY <1>1, <1>2, AdvancesSelf DEF RowsOK
<1>11. RepliesOK'
  <2>1. \A e \in Devices :
           svc'[e] = svc[e] /\ (auth'[e] = auth[e] \/ auth'[e].session > svc[e].session)
    BY <1>2, <1>4, <1>5
  <2> QED
    BY <1>1, <1>10, <2>1, RepliesFrame
<1>12. AnchorsOK'
  BY <1>1, <1>2 DEF AnchorsOK
<1> QED
  BY <1>3, <1>6, <1>7, <1>9, <1>11, <1>12 DEF IInv

-----------------------------------------------------------------------------
(* Writing.                                                                *)

(***************************************************************************)
(* A journal that may be flushed has a first request.                      *)
(***************************************************************************)
LEMMA FirstIsOne ==
    ASSUME NEW Q, IsFiniteSet(Q), Q # {}, \A p \in Q : p.id[2] \in Nat
    PROVE  First(Q) \in Q
<1> DEFINE R == StrictSubsetOrdering(Q)
           Led(T) == \E x \in T : \A y \in T : x.id[2] <= y.id[2]
           Bad == {T \in SUBSET Q : T # {} /\ ~Led(T)}
<1>1. IsWellFoundedOn(R, SUBSET Q)
  BY FS_StrictSubsetOrderingWellFounded, FS_FiniteSubsetsOfFinite
<1>2. ASSUME Bad # {} PROVE FALSE
  <2>1. PICK T \in Bad : \A U \in Bad : ~(<<U, T>> \in R)
    <3>1. Bad \subseteq SUBSET Q
      OBVIOUS
    <3> HIDE DEF R, Bad
    <3> QED
      BY <1>1, <1>2, <3>1, WFMin
  <2>2. PICK x \in T : TRUE
    OBVIOUS
  <2> DEFINE U == T \ {x}
  <2>3. <<U, T>> \in R
    BY <2>1, <2>2 DEF StrictSubsetOrdering
  <2>4. U \notin Bad
    BY <2>1, <2>3
  <2>5. \A y \in T : y.id[2] \in Nat
    BY <2>1
  <2>6. CASE U = {}
    <3>1. \A y \in T : y = x
      BY <2>6
    <3>2. \A y \in T : x.id[2] <= y.id[2]
      BY <2>2, <2>5, <3>1
    <3> QED
      BY <2>1, <2>2, <3>2
  <2>7. CASE U # {}
    <3>1. PICK m \in U : \A y \in U : m.id[2] <= y.id[2]
      BY <2>1, <2>4, <2>7
    <3>2. m.id[2] \in Nat /\ x.id[2] \in Nat /\ m \in T
      BY <2>2, <2>5, <3>1
    <3>3. CASE m.id[2] <= x.id[2]
      <4>1. \A y \in T : m.id[2] <= y.id[2]
        BY <3>1, <3>3
      <4> QED
        BY <2>1, <3>2, <4>1
    <3>4. CASE ~(m.id[2] <= x.id[2])
      <4>1. ASSUME NEW y \in T PROVE x.id[2] <= y.id[2]
        <5>1. y.id[2] \in Nat
          BY <2>5
        <5>2. y = x \/ m.id[2] <= y.id[2]
          BY <3>1
        <5> QED
          BY <3>2, <3>4, <5>1, <5>2
      <4> QED
        BY <2>1, <2>2, <4>1
    <3> QED
      BY <3>3, <3>4
  <2> QED
    BY <2>6, <2>7
<1>3. \E x \in Q : \A y \in Q : x.id[2] <= y.id[2]
  BY <1>2
<1> QED
  BY <1>3 DEF First

(***************************************************************************)
(* The saved body of a request with a receipt is a request.                *)
(***************************************************************************)
LEMMA RequestOfType ==
    ASSUME NEW r, RecordOK(r), NEW p \in r.pending, p.receipt # None
    PROVE  /\ RequestOf(p) \in Request /\ RequestOf(p).id = p.id
           /\ RequestOf(p).lineage = p.receipt.lineage
<1>1. /\ p.id \in Ids /\ p.path \in Fields /\ p.op \in Operation
      /\ p.op.base \in 0..MaxRevision /\ p.receipt \in IssuedReceipt
  BY RightRecord
<1>2. p.op \in [value : BOOLEAN, base : 0..MaxRevision, step : 1..MaxStep]
  BY <1>1 DEF Operation
<1> DEFINE o == [f \in {p.path} |-> p.op]
<1>3. o \in OpSets
  BY <1>1, <1>2, RequestsAssumption
<1> HIDE DEF o
<1>4. RequestOf(p) = [id |-> p.id, lineage |-> p.receipt.lineage,
                      revision |-> p.receipt.revision, ops |-> o]
  BY DEF RequestOf, o
<1> QED
  BY <1>1, <1>3, <1>4 DEF Request, IssuedReceipt

(***************************************************************************)
(* The first request of the journal is sent: the one step that sends what  *)
(* was not sent before.                                                    *)
(***************************************************************************)
LEMMA SendsKeeps ==
    ASSUME IInv, NEW d \in Devices, svc[d].pc = "flush", MayFlush(d),
           UNCHANGED <<rec, auth, row, inFlight, linked, made, count>>,
           svc' = [svc EXCEPT ![d].pc = "write", ![d].req = RequestOf(First(Queue(rec[d])))]
    PROVE  IInv'
<1> DEFINE p == First(Queue(rec[d]))
           q == RequestOf(p)
           s == [svc[d] EXCEPT !.pc = "write", !.req = q]
<1>1. /\ Counts /\ RecordsOK /\ SessionsOK /\ RowsOK /\ JournalsOK /\ SentOK
      /\ RepliesOK /\ AnchorsOK
  BY DEF IInv
<1>2. /\ RecordOK(rec[d]) /\ svc[d] \in Svc /\ svc \in [Devices -> Svc]
      /\ SessionOK(svc[d], auth[d], count.logins) /\ count.edits \in Nat
      /\ JournalIds(d, rec[d], count.edits)
      /\ JournalHome(rec[d], made) /\ JournalSent(rec[d], Sent)
  BY <1>1, SyncBoundsAssumption DEF RecordsOK, SessionsOK, JournalsOK, Counts
<1>3. p \in rec[d].pending /\ p.receipt # None
  <2>1. /\ Queue(rec[d]) \subseteq rec[d].pending
        /\ \A x \in Queue(rec[d]) : x.receipt # None
        /\ Queue(rec[d]) # {}
    BY DEF Queue, Submittable, MayFlush
  <2>2. IsFiniteSet(Queue(rec[d]))
    BY <1>2, <2>1, RightRecord, FS_Subset
  <2>3. \A x \in Queue(rec[d]) : x.id[2] \in Nat
    BY <1>2, <2>1 DEF JournalIds
  <2> QED
    BY <2>1, <2>2, <2>3, FirstIsOne
<1> HIDE DEF p
<1>4. q \in Request /\ q.id = p.id /\ q.lineage = p.receipt.lineage
  BY <1>2, <1>3, RequestOfType
<1>5. q = RequestOf(p)
  OBVIOUS
<1>6. svc' = [svc EXCEPT ![d] = s]
  BY <1>2, Zenon DEF p
<1> HIDE DEF q
<1>7. /\ s \in Svc /\ s.pc = "write" /\ s.req = q /\ s.atomicScope = svc[d].atomicScope
      /\ s.userId = svc[d].userId /\ s.session = svc[d].session
  BY <1>2, <1>4 DEF Svc, Pcs
<1> HIDE DEF s
<1>8. /\ svc' \in [Devices -> Svc] /\ svc'[d] = s
      /\ \A e \in Devices : e # d => svc'[e] = svc[e]
  BY <1>2, <1>6, <1>7
<1>9. SessionsOK'
  <2>1. SessionOK(s, auth[d], count.logins)
    BY <1>2, <1>4, <1>7 DEF SessionOK, Exchange
  <2> QED
    BY <1>1, <1>8, <2>1 DEF SessionsOK
<1>10. Sent' \subseteq Sent \union {q}
  <2>1. /\ \A w \in inFlight' : w.req \in Sent \union {q}
        /\ \A a \in Accounts : \A w \in row'[a].writes : w.req \in Sent \union {q}
    BY SentMembers
  <2>2. \A e \in Devices : Writing(svc'[e]) => svc'[e].req \in Sent \union {q}
    BY <1>7, <1>8, SentMembers
  <2> QED
    BY <2>1, <2>2, SentOnly
<1>11. p.id \in {d} \X (1..count.edits)
  BY <1>2, <1>3 DEF JournalIds
<1>12. JournalsOK'
  <2>1. ASSUME NEW e \in Devices PROVE JournalSent(rec[e], Sent')
    <3> SUFFICES ASSUME NEW t \in rec[e].pending, NEW o \in Sent', t.id = o.id
                 PROVE  t.receipt # None /\ o = RequestOf(t)
      BY DEF JournalSent
    <3>1. CASE o \in Sent
      BY <1>1, <3>1 DEF JournalsOK, JournalSent
    <3>2. CASE o = q
      <4>1. t.id = p.id /\ t.id \in {e} \X (1..count.edits)
        BY <1>1, <1>4, <3>2 DEF JournalsOK, JournalIds
      <4>2. e = d
        BY <1>11, <4>1
      <4>3. t = p
        BY <1>2, <1>3, <4>1, <4>2 DEF RecordOK, JournalUnderDoc
      <4> QED
        BY <1>3, <1>5, <3>2, <4>3
    <3> QED
      BY <1>10, <3>1, <3>2
  <2> QED
    BY <1>1, <2>1 DEF JournalsOK
<1>13. SentOK'
  <2>1. q.id \in Devices \X (1..count.edits)
    BY <1>4, <1>11
  <2>2. \A m \in made : m.id = q.id => HomeOf(m, q.lineage)
    BY <1>2, <1>3, <1>4 DEF JournalHome
  <2>3. \A o \in Sent : o.id = q.id => o = q
    BY <1>2, <1>3, <1>4, <1>5 DEF JournalSent
  <2>4. /\ \A o \in Sent' : o.id \in Devices \X (1..count.edits)
        /\ \A o \in Sent' : \A m \in made : m.id = o.id => HomeOf(m, o.lineage)
    BY <1>1, <1>10, <2>1, <2>2 DEF SentOK
  <2>5. \A x, y \in Sent' : x.id = y.id => x = y
    BY <1>1, <1>10, <2>3 DEF SentOK
  <2> QED
    BY <1>1, <2>4, <2>5 DEF SentOK
<1>14. RecordsOK' /\ RowsOK' /\ Counts'
  BY <1>1 DEF RecordsOK, RowsOK, Counts
<1>15. RepliesOK' /\ AnchorsOK'
  <2>1. ~Answered(s)
    BY <1>7 DEF Answered
  <2>2. \A e \in Devices : ReplyOK(svc'[e], auth'[e], row')
    BY <1>1, <1>8, <2>1 DEF RepliesOK, ReplyOK
  <2>3. \A e \in Devices : AnchorOK(rec'[e], svc'[e], row')
    BY <1>1, <1>8, <2>1 DEF AnchorsOK, AnchorOK
  <2> QED
    BY <2>2, <2>3 DEF RepliesOK, AnchorsOK
<1> QED
  BY <1>9, <1>12, <1>13, <1>14, <1>15 DEF IInv

\* Sending the journal's first request, or none, keeps the invariant.
LEMMA FlushKeeps ==
    ASSUME IInv, NEW d \in Devices, Flush(d)
    PROVE  IInv'
<1>1. svc[d].pc = "flush" /\ UNCHANGED <<rec, auth, row, inFlight, linked, made, count>>
  BY DEF Flush
<1>2. CASE MayFlush(d)
  BY <1>1, <1>2, SendsKeeps DEF Flush
<1>3. CASE ~MayFlush(d)
  BY <1>1, <1>3, IdleKeeps DEF Flush
<1> QED
  BY <1>2, <1>3

(***************************************************************************)
(* A step of one account's row: it goes forward, claims only what was      *)
(* sent, and at most one service is told.                                  *)
(***************************************************************************)
RowStep(a, r) ==
    /\ row' = [row EXCEPT ![a] = r]
    /\ UNCHANGED <<rec, auth, linked, made>>
    /\ inFlight' \subseteq inFlight
    /\ Counts' /\ count'.edits = count.edits /\ count'.logins = count.logins

\* A step of one row keeps the invariant if the row advances and whoever is told
\* holds an answer that stands.
LEMMA RowStepKeeps ==
    ASSUME IInv, NEW a \in Accounts, NEW r, RowStep(a, r),
           Advances(row[a], r), \A w \in r.writes : w.req \in Sent,
           RowOK(a, r, count'.legacy),
           \A b \in Accounts : b # a => RowOK(b, row[b], count'.legacy),
           svc' \in [Devices -> Svc],
           \A e \in Devices :
              \/ svc'[e] = svc[e]
              \/ /\ SessionOK(svc'[e], auth[e], count.logins)
                 /\ Writing(svc'[e]) => svc'[e].req \in Sent
                 /\ ReplyOK(svc'[e], auth[e], row')
                 /\ AnchorOK(rec[e], svc'[e], row')
    PROVE  IInv'
<1>1. /\ Counts /\ RecordsOK /\ SessionsOK /\ RowsOK /\ JournalsOK /\ SentOK
      /\ RepliesOK /\ AnchorsOK
  BY DEF IInv
<1>2. r \in Row
  BY DEF RowOK
<1>3. /\ row' \in [Accounts -> Row] /\ row'[a] = r
      /\ \A b \in Accounts : b # a => row'[b] = row[b]
  BY <1>1, <1>2 DEF RowsOK, RowStep
<1>4. RowsOK'
  BY <1>3 DEF RowsOK
<1>5. \A b \in Accounts : Advances(row[b], row'[b])
  BY <1>1, <1>3, AdvancesSelf DEF RowsOK
<1>6. Sent' \subseteq Sent
  <2>1. \A w \in inFlight' : w.req \in Sent
    BY SentMembers DEF RowStep
  <2>2. \A b \in Accounts : \A w \in row'[b].writes : w.req \in Sent
    BY <1>3, SentMembers
  <2>3. \A e \in Devices : Writing(svc'[e]) => svc'[e].req \in Sent
    BY SentMembers
  <2> QED
    BY <2>1, <2>2, <2>3, SentOnly
<1>7. JournalsOK' /\ SentOK'
  <2>1. inFlight' \subseteq [subject : Accounts, req : Request]
    BY <1>1 DEF SentOK, RowStep
  <2>2. \A e \in Devices : Follows(rec[e], rec'[e])
    BY DEF Follows, RowStep
  <2> QED
    BY <1>1, <1>6, <2>1, <2>2, JournalsFrame DEF RowStep
<1>8. SessionsOK'
  BY <1>1 DEF SessionsOK, RowStep
<1>9. RepliesOK'
  <2>1. \A e \in Devices :
           ReplyOK(svc'[e], auth'[e], row') \/ (svc'[e] = svc[e] /\ auth'[e] = auth[e])
    BY DEF RowStep
  <2> QED
    BY <1>1, <1>3, <1>5, <2>1, RepliesFrame
<1>10. AnchorsOK'
  <2>1. \A e \in Devices :
           AnchorOK(rec'[e], svc'[e], row') \/ (rec'[e] = rec[e] /\ svc'[e] = svc[e])
    BY DEF RowStep
  <2> QED
    BY <1>1, <1>3, <1>5, <2>1, AnchorsFrame
<1>11. RecordsOK'
  BY <1>1 DEF RecordsOK, RowStep
<1> QED
  BY <1>4, <1>7, <1>8, <1>9, <1>10, <1>11 DEF IInv, RowStep

(***************************************************************************)
(* A write nobody waits for reaches its account, or another's.             *)
(***************************************************************************)
LEMMA ServeInFlightKeeps ==
    ASSUME IInv, NEW w \in inFlight, ServeInFlight(w)
    PROVE  IInv'
<1> DEFINE a == w.subject
           r == RowAfter(a, row[a], w.req)
<1>1. /\ Counts /\ RowsOK /\ svc \in [Devices -> Svc]
      /\ w \in [subject : Accounts, req : Request]
  BY DEF IInv, SessionsOK, SentOK
<1>2. /\ a \in Accounts /\ w.req \in Request /\ RowOK(a, row[a], count.legacy)
      /\ count.legacy \in 0..MaxLegacyWrites
  BY <1>1 DEF RowsOK, Counts
<1>3. /\ RowOK(a, r, count.legacy) /\ Advances(row[a], r)
      /\ \A v \in r.writes : v \in row[a].writes \/ v.req = w.req
  BY <1>2, TransactionOK
<1>4. \A v \in r.writes : v.req \in Sent
  BY <1>2, <1>3, SentMembers
<1>5. /\ row' = [row EXCEPT ![a] = r] /\ inFlight' = inFlight \ {w}
      /\ UNCHANGED <<rec, auth, svc, linked, made, count>>
  BY DEF ServeInFlight
<1> HIDE DEF r
<1>6. RowStep(a, r)
  BY <1>1, <1>5 DEF RowStep, Counts
<1>7. \A b \in Accounts : RowOK(b, row[b], count'.legacy)
  BY <1>1, <1>5 DEF RowsOK
<1> QED
  BY <1>1, <1>2, <1>3, <1>4, <1>5, <1>6, <1>7, RowStepKeeps

(***************************************************************************)
(* A shipped client replaces a whole document while it still may.          *)
(***************************************************************************)
LEMMA LegacyClientWritesKeeps ==
    ASSUME IInv, NEW a \in Accounts, NEW values \in LegacyDoc, LegacyClientWrites(a, values)
    PROVE  IInv'
<1> DEFINE r == LegacyWritten(row[a], values)
<1>1. /\ Counts /\ RowsOK /\ svc \in [Devices -> Svc]
  BY DEF IInv, SessionsOK
<1>2. /\ row' = [row EXCEPT ![a] = r] /\ Spend("legacy", MaxLegacyWrites)
      /\ row[a].kind # "modern"
      /\ UNCHANGED <<rec, auth, svc, inFlight, linked, made>>
  BY DEF LegacyClientWrites, LegacyWriteAdmitted
<1>3. /\ Counts' /\ count.legacy < MaxLegacyWrites /\ count'.legacy = count.legacy + 1
      /\ count'.edits = count.edits /\ count'.logins = count.logins
  BY <1>1, <1>2, SpendOne, SyncBoundsAssumption
<1>4. count.legacy \in 0..MaxLegacyWrites /\ MaxLegacyWrites \in Nat /\ MaxRevision \in Nat
  BY <1>1, SyncBoundsAssumption, BoundsAssumption DEF Counts
<1>5. /\ RowOK(a, r, count'.legacy) /\ Advances(row[a], r) /\ r.writes = row[a].writes
  BY <1>1, <1>2, <1>3, <1>4, LegacyWriteOK DEF RowsOK
<1>6. \A b \in Accounts : RowOK(b, row[b], count'.legacy)
  <2>1. ASSUME NEW b \in Accounts PROVE RowOK(b, row[b], count.legacy + 1)
    <3>1. RowOK(b, row[b], count.legacy) /\ Revision(row[b]) \in Nat
      BY <1>1, RowParts DEF RowsOK
    <3> QED
      BY <1>4, <3>1 DEF RowOK
  <2> QED
    BY <1>3, <2>1
<1>7. \A w \in r.writes : w.req \in Sent
  BY <1>5, SentMembers
<1> HIDE DEF r
<1>8. RowStep(a, r)
  BY <1>2, <1>3 DEF RowStep
<1> QED
  BY <1>1, <1>2, <1>5, <1>6, <1>7, <1>8, RowStepKeeps

(***************************************************************************)
(* A write reaches the account of the token it was sent with, and its      *)
(* answer, if there is one, comes back to a service that still waits.      *)
(***************************************************************************)
LEMMA WriteOperationKeeps ==
    ASSUME IInv, NEW d \in Devices, WriteOperation(d)
    PROVE  IInv'
<1> DEFINE q == svc[d].req
           Served(a) ==
              /\ row' = [row EXCEPT ![a] = RowAfter(a, row[a], q)]
              /\ IF Status(a, row[a], q) = "ready"
                   THEN svc' = [svc EXCEPT ![d].pc = "writeReply",
                                           ![d].reply = AnswerOf(a, row'[a])]
                   ELSE Goto(d, "idle")
<1>1. PICK a \in Subjects(d) : Served(a)
  BY Zenon DEF WriteOperation
<1>2. /\ svc \in [Devices -> Svc] /\ svc[d] \in Svc /\ svc[d].pc = "write"
      /\ SessionOK(svc[d], auth[d], count.logins)
      /\ UNCHANGED <<rec, auth, inFlight, linked, made, count>>
      /\ Counts /\ RowsOK /\ row \in [Accounts -> Row]
      /\ RecordOK(rec[d]) /\ AnchorOK(rec[d], svc[d], row)
  BY RightSession DEF IInv, SessionsOK, WriteOperation, RowsOK, RecordsOK, AnchorsOK
<1>3. /\ a \in Accounts
      /\ \/ a = svc[d].atomicScope.account
         \/ auth[d] # None /\ auth[d].session > svc[d].session
  BY <1>2, SubjectsMean DEF Exchange
<1>4. /\ q \in Request /\ q \in Sent /\ RowOK(a, row[a], count.legacy)
      /\ count.legacy \in 0..MaxLegacyWrites
  BY <1>2, <1>3, SentMembers DEF SessionOK, Writing, RowsOK, Counts
<1> HIDE DEF q
<1> DEFINE r == RowAfter(a, row[a], q)
<1>5. /\ RowOK(a, r, count.legacy) /\ Advances(row[a], r)
      /\ \A v \in r.writes : v \in row[a].writes \/ v.req = q
      /\ Status(a, row[a], q) = "ready" =>
           \A f \in DOMAIN q.ops : Absorbed(q.ops[f], Canonical(r)[f])
  BY <1>3, <1>4, TransactionOK
<1>6. \A v \in r.writes : v.req \in Sent
  BY <1>3, <1>4, <1>5, SentMembers
<1>7. row' = [row EXCEPT ![a] = r]
  BY <1>1
<1> HIDE DEF r
<1>8. row'[a] = r /\ r \in Row
  BY <1>2, <1>3, <1>5, <1>7 DEF RowOK
<1>9. RowStep(a, r)
  BY <1>2, <1>7 DEF RowStep, Counts
<1>10. \A b \in Accounts : RowOK(b, row[b], count'.legacy)
  BY <1>2 DEF RowsOK
<1>11. CASE Status(a, row[a], q) # "ready"
  <2>1. Goto(d, "idle")
    BY <1>1, <1>11
  <2> DEFINE s == Left(svc[d], "idle")
  <2>2. /\ svc' = [svc EXCEPT ![d] = s] /\ s \in Svc
        /\ SessionOK(s, auth[d], count.logins) /\ ~Answered(s) /\ ~Writing(s)
    BY <1>2, <2>1, LeftSession
  <2> HIDE DEF s
  <2>3. svc' \in [Devices -> Svc] /\ svc'[d] = s /\ \A e \in Devices : e # d => svc'[e] = svc[e]
    BY <1>2, <2>2
  <2>4. ReplyOK(s, auth[d], row')
    BY <2>2 DEF ReplyOK
  <2>5. AnchorOK(rec[d], s, row')
    <3> SUFFICES ASSUME rec[d].anchor # None
                 PROVE  Anchored(rec[d], row'[rec[d].anchor.lineage])
      BY <2>2 DEF AnchorOK
    <3> DEFINE b == rec[d].anchor.lineage
    <3>1. b \in Accounts /\ Anchored(rec[d], row[b])
      BY <1>2, RightRecord DEF AnchorOK, IssuedReceipt, Accounts
    <3>2. row[b] \in Row /\ row'[b] \in Row /\ Advances(row[b], row'[b])
      BY <1>2, <1>5, <1>7, <1>8, <3>1, AdvancesSelf
    <3> HIDE DEF b
    <3> QED
      BY <1>2, <3>1, <3>2, AnchoredStays DEF b
  <2>6. \A e \in Devices :
           \/ svc'[e] = svc[e]
           \/ /\ SessionOK(svc'[e], auth[e], count.logins)
              /\ Writing(svc'[e]) => svc'[e].req \in Sent
              /\ ReplyOK(svc'[e], auth[e], row')
              /\ AnchorOK(rec[e], svc'[e], row')
    BY <2>2, <2>3, <2>4, <2>5
  <2> QED
    BY <1>2, <1>3, <1>5, <1>6, <1>9, <1>10, <2>3, <2>6, RowStepKeeps
<1>12. CASE Status(a, row[a], q) = "ready"
  <2> DEFINE reply == AnswerOf(a, r)
             s == [svc[d] EXCEPT !.pc = "writeReply", !.reply = reply]
  <2>1. svc' = [svc EXCEPT ![d].pc = "writeReply", ![d].reply = reply]
    BY <1>1, <1>8, <1>12
  <2>2. /\ reply \in Reply /\ reply.lineage = a /\ reply.doc = Canonical(r)
        /\ AnswerStands(reply, r)
    BY <1>3, <1>5, AnswerOfMeans
  <2> HIDE DEF reply
  <2>3. svc' = [svc EXCEPT ![d] = s]
    BY <1>2, <2>1, Zenon
  <2>4. /\ s \in Svc /\ s.pc = "writeReply" /\ s.reply = reply /\ s.req = q
        /\ s.atomicScope = svc[d].atomicScope
        /\ s.userId = svc[d].userId /\ s.session = svc[d].session
    BY <1>2, <2>2 DEF Svc, Pcs, q
  <2> HIDE DEF s
  <2>5. svc' \in [Devices -> Svc] /\ svc'[d] = s /\ \A e \in Devices : e # d => svc'[e] = svc[e]
    BY <1>2, <2>3, <2>4
  <2>6. SessionOK(s, auth[d], count.logins)
    BY <1>2, <1>4, <2>2, <2>4 DEF SessionOK, Exchange
  <2>7. ReplyOK(s, auth[d], row')
    <3>1. AnswerStands(s.reply, row'[s.reply.lineage])
      BY <1>8, <2>2, <2>4
    <3>2. \/ s.reply.lineage = s.atomicScope.account
          \/ auth[d].session > s.session
      BY <1>3, <2>2, <2>4
    <3>3. \A f \in DOMAIN s.req.ops : Absorbed(s.req.ops[f], s.reply.doc[f])
      BY <1>5, <1>12, <2>2, <2>4
    <3> QED
      BY <3>1, <3>2, <3>3 DEF ReplyOK
  <2>8. AnchorOK(rec[d], s, row')
    <3> SUFFICES ASSUME rec[d].anchor # None
                 PROVE  /\ Anchored(rec[d], row'[rec[d].anchor.lineage])
                        /\ AnchorAccepted(rec[d], reply) => Covered(rec[d], reply.doc)
      BY <2>4 DEF AnchorOK
    <3> DEFINE b == rec[d].anchor.lineage
    <3>1. b \in Accounts /\ Anchored(rec[d], row[b])
      BY <1>2, RightRecord DEF AnchorOK, IssuedReceipt, Accounts
    <3>2. row[b] \in Row /\ row'[b] \in Row /\ Advances(row[b], row'[b])
      BY <1>2, <1>5, <1>7, <1>8, <3>1, AdvancesSelf
    <3> HIDE DEF b
    <3>3. Anchored(rec[d], row'[b])
      BY <1>2, <3>1, <3>2, AnchoredStays
    <3>4. AnchorAccepted(rec[d], reply) => b = a
      BY <2>2 DEF AnchorAccepted, b
    <3> QED
      BY <1>8, <2>2, <3>3, <3>4 DEF b, Anchored
  <2>9. \A e \in Devices :
           \/ svc'[e] = svc[e]
           \/ /\ SessionOK(svc'[e], auth[e], count.logins)
              /\ Writing(svc'[e]) => svc'[e].req \in Sent
              /\ ReplyOK(svc'[e], auth[e], row')
              /\ AnchorOK(rec[e], svc'[e], row')
    BY <1>4, <2>4, <2>5, <2>6, <2>7, <2>8
  <2> QED
    BY <1>2, <1>3, <1>5, <1>6, <1>9, <1>10, <2>5, <2>9, RowStepKeeps
<1> QED
  BY <1>11, <1>12

-----------------------------------------------------------------------------
(* Choices and the initial states.                                         *)

(***************************************************************************)
(* A saved choice lies on top of what an anchored record shows.            *)
(***************************************************************************)
LEMMA CommitOnTop ==
    ASSUME NEW r, RecordOK(r), r.anchor # None, NEW c, RecordOK(c), SameService(r, c),
           NEW f \in Fields, Keeps(r, c) \/ \E n : Adds(r, c, f, n),
           NEW doc \in Doc
    PROVE  /\ r.doc = MergedPending(r, doc) => c.doc = MergedPending(c, doc)
           /\ Covered(r, doc) => Covered(c, doc)
<1>1. /\ r.doc \in Doc /\ IsFiniteSet(r.pending) /\ IsFiniteSet(c.pending)
      /\ DOMAIN r.doc = Fields /\ c.scope = r.scope
      /\ \A p \in r.pending : p.op \in OrderedField
      /\ \A p \in c.pending : p.op \in OrderedField
      /\ Journal(r) = r.pending
  BY RightRecord, JournalMeans DEF Doc, SameService
<1>2. CASE Keeps(r, c)
  <2>1. c.doc = r.doc /\ c.pending = r.pending
    BY <1>1, <1>2 DEF Keeps
  <2>2. MergedPending(c, doc) = MergedPending(r, doc)
    BY <1>1, <2>1 DEF MergedPending, Versions
  <2> QED
    BY <2>1, <2>2 DEF Covered
<1>3. ASSUME NEW n, Adds(r, c, f, n)
      PROVE  /\ r.doc = MergedPending(r, doc) => c.doc = MergedPending(c, doc)
             /\ Covered(r, doc) => Covered(c, doc)
  <2>1. /\ n.path = f /\ n.scope = r.scope /\ Outranks(n.op, r.doc[f]) /\ n.op \in OrderedField
        /\ c.doc = [r.doc EXCEPT ![f] = n.op] /\ c.pending = r.pending \union {n}
    BY <1>1, <1>3, PendingParts DEF Adds
  <2>2. /\ c.doc[f] = n.op /\ \A g \in Fields : g # f => c.doc[g] = r.doc[g]
        /\ c.doc = [g \in Fields |-> c.doc[g]]
    BY <1>1, <2>1 DEF Doc
  <2>3. Covered(r, doc) => Covered(c, doc)
    BY <2>1, <2>2 DEF Covered
  <2>4. ASSUME r.doc = MergedPending(r, doc), NEW g \in Fields
        PROVE  c.doc[g] = MergedPending(c, doc)[g]
    <3>1. CASE g = f
      <4>1. Versions(c, doc, f) = Versions(r, doc, f) \union {n.op}
        BY <1>1, <2>1 DEF Versions
      <4>2. /\ Versions(r, doc, f) \subseteq OrderedField /\ r.doc[f] \in OrderedField
            /\ \A y \in Versions(r, doc, f) : Absorbed(y, r.doc[f])
        BY <1>1, <2>4, MergedMeans
      <4>3. Absorbed(r.doc[f], n.op)
        BY <2>1, <4>2, RankFacts
      <4>4. \A y \in Versions(c, doc, f) : Absorbed(y, n.op)
        BY <2>1, <4>1, <4>2, <4>3, AbsorbedOrder
      <4>5. n.op \in Versions(c, doc, f)
        BY <4>1
      <4> QED
        BY <1>1, <2>2, <3>1, <4>4, <4>5, MergedIs
    <3>2. CASE g # f
      <4>1. Versions(c, doc, g) = Versions(r, doc, g)
        BY <1>1, <2>1, <3>2 DEF Versions
      <4>2. MergedPending(c, doc)[g] = MergedPending(r, doc)[g]
        BY <4>1 DEF MergedPending
      <4> QED
        BY <2>2, <2>4, <3>2, <4>2
    <3> QED
      BY <3>1, <3>2
  <2>5. MergedPending(c, doc) = [g \in Fields |-> MergedPending(c, doc)[g]]
    BY DEF MergedPending
  <2>6. r.doc = MergedPending(r, doc) => c.doc = MergedPending(c, doc)
    <3> SUFFICES ASSUME r.doc = MergedPending(r, doc) PROVE c.doc = MergedPending(c, doc)
      OBVIOUS
    <3>1. \A g \in Fields : c.doc[g] = MergedPending(c, doc)[g]
      BY <2>4
    <3> QED
      BY <2>2, <2>5, <3>1
  <2> QED
    BY <2>3, <2>6
<1> QED
  BY <1>2, <1>3

(***************************************************************************)
(* A choice is made: it is new, it is remembered with who was served, and  *)
(* it enters the journal, the document, a hold, or nothing.                *)
(***************************************************************************)
SavesChoice(d, f, v, id, c, m) ==
    /\ id = <<d, count.edits + 1>>
    /\ c = Commit(rec[d], f, v, id)
    /\ m = [id |-> id, path |-> f, value |-> v, account |-> rec[d].scope.account,
            pristine |-> d \notin linked]

\* What saving a choice does to a record.
Chosen(r, c, f, id) ==
    \/ Keeps(r, c) \/ EditsAlone(r, c, f)
    \/ \E n : Adds(r, c, f, n) /\ n.id = id

\* A saved choice leaves its record, its journal and its anchor right.
LEMMA SavedChoice ==
    ASSUME IInv, NEW d \in Devices, NEW f \in Fields, NEW v \in BOOLEAN,
           count.edits < MaxEdits, NEW id, NEW c, NEW m, SavesChoice(d, f, v, id, c, m)
    PROVE  /\ RecordOK(c) /\ SameService(rec[d], c)
           /\ Chosen(rec[d], c, f, id)
           /\ AnchorOK(c, svc[d], row)
           /\ JournalIds(d, c, count.edits + 1)
           /\ JournalHome(c, made \union {m})
           /\ JournalSent(c, Sent)
<1>1. /\ RecordOK(rec[d]) /\ count.edits \in Nat /\ AnchorOK(rec[d], svc[d], row)
      /\ JournalIds(d, rec[d], count.edits) /\ JournalHome(rec[d], made)
      /\ JournalSent(rec[d], Sent)
      /\ \A q \in Sent : q.id \in Devices \X (1..count.edits)
      /\ \A x \in made : x.id \in Devices \X (1..count.edits)
      /\ linked = {e \in Devices : rec[e].ownership # "never-linked"}
  BY SyncBoundsAssumption DEF IInv, RecordsOK, AnchorsOK, JournalsOK, SentOK, Counts
<1>2. /\ id = <<d, count.edits + 1>> /\ m.id = id /\ m.account = rec[d].scope.account
      /\ m.pristine = (d \notin linked) /\ id \in Devices \X (1..MaxEdits)
  BY <1>1, SyncBoundsAssumption DEF SavesChoice
<1>3. /\ \A e, x : x \in {e} \X (1..count.edits) => x # id
      /\ \A x \in Devices \X (1..count.edits) : x # id
  BY <1>1, <1>2
<1>4. id \in Ids /\ \A p \in rec[d].pending : p.id # id
  BY <1>1, <1>2, <1>3, RequestsAssumption DEF JournalIds
<1>5. /\ RecordOK(c) /\ SameService(rec[d], c)
      /\ \/ Keeps(rec[d], c) \/ EditsAlone(rec[d], c, f)
         \/ \E n : Adds(rec[d], c, f, n) /\ n.id = id
  BY <1>1, <1>4, CommitOK DEF SavesChoice
<1>6. AnchorOK(c, svc[d], row)
  <2> SUFFICES ASSUME c.anchor # None PROVE AnchorOK(c, svc[d], row)
    BY DEF AnchorOK
  <2>1. /\ rec[d].anchor # None /\ c.anchor = rec[d].anchor
        /\ rec[d].anchor.lineage \in Accounts
    BY <1>1, <1>5, RightRecord DEF SameService, IssuedReceipt, Accounts
  <2>2. Keeps(rec[d], c) \/ \E n : Adds(rec[d], c, f, n)
    BY <1>5, <2>1 DEF EditsAlone
  <2>3. Canonical(row[rec[d].anchor.lineage]) \in Doc
    BY <2>1, CanonicalType DEF IInv, RowsOK
  <2>4. Anchored(c, row[rec[d].anchor.lineage])
    BY <1>1, <1>5, <2>1, <2>2, <2>3, CommitOnTop DEF AnchorOK, Anchored
  <2>5. Answered(svc[d]) /\ AnchorAccepted(c, svc[d].reply) => Covered(c, svc[d].reply.doc)
    <3> SUFFICES ASSUME Answered(svc[d]), AnchorAccepted(c, svc[d].reply)
                 PROVE  Covered(c, svc[d].reply.doc)
      OBVIOUS
    <3>1. svc[d].reply.doc \in Doc
      BY RightSession DEF SessionOK, Answered, Reply
    <3>2. Covered(rec[d], svc[d].reply.doc)
      BY <1>1, <2>1 DEF AnchorOK, AnchorAccepted
    <3> QED
      BY <1>1, <1>5, <2>1, <2>2, <3>1, <3>2, CommitOnTop
  <2> QED
    BY <2>1, <2>4, <2>5 DEF AnchorOK
<1>7. \A p \in c.pending :
         \/ p \in rec[d].pending
         \/ /\ p.id = id
            /\ p.receipt = rec[d].anchor
            /\ rec[d].scope.account = None => rec[d].ownership = "never-linked"
            /\ rec[d].scope.account = None \/ rec[d].anchor # None
  <2>1. Journal(rec[d]) \subseteq rec[d].pending
    BY <1>1, JournalMeans
  <2> QED
    BY <1>5, <2>1 DEF Keeps, EditsAlone, Adds
<1>8. JournalIds(d, c, count.edits + 1)
  BY <1>1, <1>2, <1>7 DEF JournalIds
<1>9. JournalSent(c, Sent)
  BY <1>1, <1>3, <1>7 DEF JournalSent
<1>10. JournalHome(c, made \union {m})
  <2> SUFFICES ASSUME NEW p \in c.pending, NEW x \in made \union {m}, x.id = p.id
               PROVE  IF p.receipt = None THEN x.account = None /\ x.pristine
                                          ELSE HomeOf(x, p.receipt.lineage)
    BY DEF JournalHome
  <2>1. CASE p \in rec[d].pending
    <3>1. p.id # id
      BY <1>4, <2>1
    <3>2. x \in made
      BY <1>2, <3>1
    <3> QED
      BY <1>1, <2>1, <3>2 DEF JournalHome
  <2>2. CASE p \notin rec[d].pending
    <3>1. /\ p.id = id /\ p.receipt = rec[d].anchor
          /\ rec[d].scope.account = None => rec[d].ownership = "never-linked"
          /\ rec[d].scope.account = None \/ rec[d].anchor # None
      BY <1>7, <2>2
    <3>2. x = m
      BY <1>1, <1>3, <3>1
    <3>3. rec[d].anchor # None => rec[d].anchor.lineage = rec[d].scope.account
      BY <1>1 DEF RecordOK, OneHome
    <3> QED
      BY <1>1, <1>2, <3>1, <3>2, <3>3 DEF HomeOf
  <2> QED
    BY <2>1, <2>2
<1> QED
  BY <1>5, <1>6, <1>8, <1>9, <1>10 DEF Chosen

\* Saving a choice keeps the invariant.
LEMMA SaveChoiceKeeps ==
    ASSUME IInv, NEW d \in Devices, NEW f \in Fields, NEW v \in BOOLEAN, SaveChoice(d, f, v)
    PROVE  IInv'
<1>1. PICK id, c, m : SavesChoice(d, f, v, id, c, m)
  BY DEF SavesChoice
<1>2. /\ Counts /\ RecordsOK /\ SessionsOK /\ RowsOK /\ JournalsOK /\ SentOK
      /\ RepliesOK /\ AnchorsOK /\ rec \in [Devices -> Record]
  BY DEF IInv, RecordsOK
<1>3. /\ Spend("edits", MaxEdits) /\ rec' = [rec EXCEPT ![d] = c]
      /\ made' = made \union {m}
      /\ UNCHANGED <<auth, svc, row, inFlight, linked>>
      /\ m.id = id /\ id = <<d, count.edits + 1>>
      /\ m.account = rec[d].scope.account /\ m.pristine = (d \notin linked)
  BY <1>1 DEF SaveChoice, SavesChoice
<1>4. /\ Counts' /\ count.edits < MaxEdits /\ count'.edits = count.edits + 1
      /\ count'.logins = count.logins /\ count'.legacy = count.legacy
  BY <1>2, <1>3, SpendOne, SyncBoundsAssumption
<1>5. /\ RecordOK(c) /\ SameService(rec[d], c) /\ AnchorOK(c, svc[d], row)
      /\ JournalIds(d, c, count.edits + 1) /\ JournalHome(c, made \union {m})
      /\ JournalSent(c, Sent)
  BY <1>1, <1>4, SavedChoice
<1>6. /\ rec' \in [Devices -> Record] /\ rec'[d] = c
      /\ \A e \in Devices : e # d => rec'[e] = rec[e]
  BY <1>2, <1>3, <1>5, RightRecord
<1>7. RecordsOK'
  <2>1. \A e \in Devices : RecordOK(rec'[e]) /\ rec'[e].ownership = rec[e].ownership
    BY <1>2, <1>5, <1>6 DEF RecordsOK, SameService
  <2> QED
    BY <1>2, <1>3, <1>6, <2>1 DEF RecordsOK
<1>8. Sent' = Sent
  BY <1>3 DEF Sent, SentAway, Claimed, InHand
<1>9. /\ count.edits \in Nat
      /\ \A x \in made : x.id \in Devices \X (1..count.edits)
      /\ \A q \in Sent : q.id \in Devices \X (1..count.edits)
  BY <1>2, SyncBoundsAssumption DEF SentOK, Counts
<1>10. /\ \A e, x : x \in {e} \X (1..count.edits) => x # id /\ x \in {e} \X (1..count.edits + 1)
       /\ \A x \in Devices \X (1..count.edits) :
             x # id /\ x \in Devices \X (1..count.edits + 1)
       /\ id \in Devices \X (1..count.edits + 1)
  BY <1>3, <1>9
<1>11. JournalsOK'
  <2>1. ASSUME NEW e \in Devices
        PROVE  /\ JournalIds(e, rec'[e], count'.edits)
               /\ JournalHome(rec'[e], made')
               /\ JournalSent(rec'[e], Sent')
    <3>1. CASE e = d
      BY <1>3, <1>4, <1>5, <1>6, <1>8, <3>1
    <3>2. CASE e # d
      <4>1. /\ JournalIds(e, rec[e], count.edits) /\ JournalHome(rec[e], made)
            /\ JournalSent(rec[e], Sent)
        BY <1>2 DEF JournalsOK
      <4>2. JournalHome(rec[e], made \union {m})
        BY <1>3, <1>10, <4>1 DEF JournalHome, JournalIds
      <4>3. JournalIds(e, rec[e], count.edits + 1)
        BY <1>10, <4>1 DEF JournalIds
      <4> QED
        BY <1>3, <1>4, <1>6, <1>8, <3>2, <4>1, <4>2, <4>3
    <3> QED
      BY <3>1, <3>2
  <2> QED
    BY <2>1 DEF JournalsOK
<1>12. SentOK'
  <2>1. \A x \in made' : x.id \in Devices \X (1..count'.edits)
    BY <1>3, <1>4, <1>9, <1>10
  <2>2. \A q \in Sent' : q.id \in Devices \X (1..count'.edits)
    BY <1>4, <1>8, <1>9, <1>10
  <2>3. \A q \in Sent' : \A x \in made' : x.id = q.id => HomeOf(x, q.lineage)
    BY <1>2, <1>3, <1>8, <1>9, <1>10 DEF SentOK
  <2> QED
    BY <1>2, <1>3, <1>8, <2>1, <2>2, <2>3 DEF SentOK
<1>13. SessionsOK' /\ RowsOK' /\ RepliesOK'
  BY <1>2, <1>3, <1>4 DEF SessionsOK, RowsOK, RepliesOK
<1>14. AnchorsOK'
  BY <1>2, <1>3, <1>5, <1>6 DEF AnchorsOK
<1> QED
  BY <1>4, <1>7, <1>11, <1>12, <1>13, <1>14 DEF IInv

(***************************************************************************)
(* The system starts right.                                                *)
(***************************************************************************)
LEMMA InitInv == Init => IInv
<1> SUFFICES ASSUME Init PROVE IInv
  OBVIOUS
<1>1. /\ rec \in [Devices -> StartRecords] /\ auth = [e \in Devices |-> None]
      /\ svc = [e \in Devices |-> Off] /\ row \in StartRows
      /\ inFlight = {} /\ made = {}
      /\ linked = {e \in Devices : rec[e].ownership # "never-linked"}
      /\ count = [edits |-> 0, logins |-> 0, faults |-> 0, legacy |-> 0]
  BY DEF Init
<1>2. Counts
  BY <1>1, SyncBoundsAssumption DEF Counts
<1>3. \A e \in Devices : RecordOK(rec[e]) /\ rec[e].pending = {} /\ rec[e].anchor = None
  BY <1>1, StartRecordOK
<1>4. RecordsOK
  <2>1. \A e \in Devices : rec[e] \in Record
    BY <1>3, RightRecord
  <2> QED
    BY <1>1, <1>3, <2>1 DEF RecordsOK
<1>5. SessionsOK
  <2>1. svc \in [Devices -> Svc] /\ auth \in [Devices -> Session \union {None}]
    BY <1>1, OffType
  <2>2. \A e \in Devices : SessionOK(svc[e], auth[e], count.logins)
    BY <1>1, OffType DEF SessionOK, Exchange
  <2> QED
    BY <2>1, <2>2 DEF SessionsOK
<1>6. /\ row \in [Accounts -> Row]
      /\ \A a \in Accounts : RowOK(a, row[a], count.legacy) /\ row[a].writes = {}
  BY <1>1, StartRowsOK
<1>7. \A e \in Devices : ~Answered(svc[e]) /\ ~Writing(svc[e])
  BY <1>1, OffType DEF Answered, Writing
<1>8. Sent = {}
  BY <1>1, <1>6, <1>7 DEF Sent, SentAway, Claimed, ClaimedBy, InHand
<1>9. JournalsOK /\ SentOK
  BY <1>1, <1>3, <1>8 DEF JournalsOK, SentOK, JournalIds, JournalHome, JournalSent
<1>10. RepliesOK /\ AnchorsOK
  BY <1>3, <1>7 DEF RepliesOK, ReplyOK, AnchorsOK, AnchorOK
<1> QED
  BY <1>2, <1>4, <1>5, <1>6, <1>9, <1>10 DEF IInv, RowsOK

-----------------------------------------------------------------------------
(* The theorems.                                                           *)

(***************************************************************************)
(* Every step keeps the invariant.                                         *)
(***************************************************************************)
LEMMA ServiceKeeps ==
    ASSUME IInv, NEW d \in Devices, Service(d)
    PROVE  IInv'
<1>1. CASE OnSignedIn(d)
  BY <1>1, OnSignedInKeeps
<1>2. CASE LeaveScope(d)
  BY <1>2, LeaveScopeKeeps
<1>3. CASE SignedOut(d)
  BY <1>3, SignedOutKeeps
<1>4. CASE Reconcile(d)
  BY <1>4, ReconcileKeeps
<1>5. CASE Retire(d)
  BY <1>5, RetireKeeps
<1>6. CASE Enter(d)
  BY <1>6, EnterKeeps
<1>7. CASE ReadCanonical(d)
  BY <1>7, ReadCanonicalKeeps
<1>8. CASE AckRead(d)
  BY <1>8, AckReadKeeps
<1>9. CASE WriteThrough(d)
  BY <1>9, WriteThroughKeeps
<1>10. CASE Flush(d)
  BY <1>10, FlushKeeps
<1>11. CASE WriteOperation(d)
  BY <1>11, WriteOperationKeeps
<1>12. CASE AckWrite(d)
  BY <1>12, AckWriteKeeps
<1>13. CASE Abandon(d)
  BY <1>13, AbandonKeeps
<1> QED
  BY <1>1, <1>2, <1>3, <1>4, <1>5, <1>6, <1>7, <1>8, <1>9, <1>10, <1>11, <1>12, <1>13
     DEF Service

\* A step that changes nothing keeps the invariant.
LEMMA StutterKeeps ==
    ASSUME IInv, UNCHANGED vars
    PROVE  IInv'
<1>1. UNCHANGED <<rec, auth, svc, row, inFlight, linked, made, count>>
  BY DEF vars
<1>2. Sent' = Sent
  BY <1>1 DEF Sent, SentAway, Claimed, InHand
<1>3. /\ Counts /\ RecordsOK /\ SessionsOK /\ RowsOK /\ JournalsOK /\ SentOK
      /\ RepliesOK /\ AnchorsOK
  BY DEF IInv
<1>4. Counts' /\ RecordsOK' /\ SessionsOK' /\ RowsOK'
  BY <1>1, <1>3 DEF Counts, RecordsOK, SessionsOK, RowsOK
<1>5. JournalsOK' /\ SentOK'
  BY <1>1, <1>2, <1>3 DEF JournalsOK, SentOK
<1>6. RepliesOK' /\ AnchorsOK'
  BY <1>1, <1>3 DEF RepliesOK, AnchorsOK
<1> QED
  BY <1>4, <1>5, <1>6 DEF IInv

\* Every step keeps the invariant.
LEMMA NextKeeps ==
    ASSUME IInv, [Next]_vars
    PROVE  IInv'
<1>1. ASSUME NEW d \in Devices, Service(d) PROVE IInv'
  BY <1>1, ServiceKeeps
<1>2. ASSUME NEW d \in Devices, NEW f \in Fields, NEW v \in BOOLEAN, SaveChoice(d, f, v)
      PROVE  IInv'
  BY <1>2, SaveChoiceKeeps
<1>3. ASSUME NEW d \in Devices, NEW a \in Accounts, VerifyCode(d, a) PROVE IInv'
  BY <1>3, VerifyCodeKeeps
<1>4. ASSUME NEW d \in Devices, SignOut(d) \/ LeaveScopeFails(d) \/ Restart(d) \/ Fails(d)
      PROVE  IInv'
  BY <1>4, SignOutKeeps, LeaveScopeFailsKeeps, RestartKeeps, FailsKeeps
<1>5. ASSUME NEW w \in inFlight, ServeInFlight(w) PROVE IInv'
  BY <1>5, ServeInFlightKeeps
<1>6. ASSUME NEW a \in Accounts, NEW values \in LegacyDoc, LegacyClientWrites(a, values)
      PROVE  IInv'
  BY <1>6, LegacyClientWritesKeeps
<1>7. CASE UNCHANGED vars
  BY <1>7, StutterKeeps
<1> QED
  BY <1>1, <1>2, <1>3, <1>4, <1>5, <1>6, <1>7 DEF Next

(***************************************************************************)
(* The inductive invariant: in every reachable state.                      *)
(***************************************************************************)
THEOREM Invariance == Spec => []IInv
<1>1. Init => IInv
  BY InitInv
<1>2. IInv /\ [Next]_vars => IInv'
  BY NextKeeps
<1> QED
  BY <1>1, <1>2, PTL DEF Spec

(***************************************************************************)
(* Records, rows and sessions stay well typed, and no journal outgrows the *)
(* limit beyond which readAtomicSettingsState rejects the record.          *)
(***************************************************************************)
THEOREM TypeCorrect == Spec => []TypeOK
<1>1. IInv => TypeOK
  <2> SUFFICES ASSUME IInv PROVE TypeOK
    OBVIOUS
  <2>1. /\ rec \in [Devices -> Record] /\ \A d \in Devices : Cardinality(rec[d].pending) <= MaxPending
        /\ linked \in SUBSET Devices
    BY DEF IInv, RecordsOK, RecordOK, RecordType
  <2>2. /\ auth \in [Devices -> Session \union {None}]
        /\ \A d \in Devices : /\ svc[d].userId \in Accounts \union {None}
                              /\ svc[d].atomicScope \in Scope \union {None}
    BY RightSession DEF IInv, SessionsOK
  <2>3. row \in [Accounts -> Row]
    BY DEF IInv, RowsOK
  <2>4. \A w \in inFlight : w.subject \in Accounts /\ w.req \in Request
    BY DEF IInv, SentOK
  <2> QED
    BY <2>1, <2>2, <2>3, <2>4 DEF TypeOK
<1> QED
  BY <1>1, Invariance, PTL

(***************************************************************************)
(* AccountIsolation: a record that serves an account is anchored in that   *)
(* account alone and every request it may send carries a receipt of it,    *)
(* whatever token the reads in between were sent with.                     *)
(***************************************************************************)
THEOREM AccountsIsolated == Spec => []AccountIsolation
<1>1. IInv => AccountIsolation
  BY DEF IInv, RecordsOK, RecordOK, OneHome, AccountIsolation
<1> QED
  BY <1>1, Invariance, PTL

(***************************************************************************)
(* ChoicesStayHome: a choice that reached an account was made while that   *)
(* account was served, or before the installation was ever anyone's.       *)
(***************************************************************************)
THEOREM ChoicesGoHome == Spec => []ChoicesStayHome
<1>1. IInv => ChoicesStayHome
  <2> SUFFICES ASSUME IInv, NEW a \in Accounts, NEW w \in row[a].writes, NEW m \in made,
                      m.id = w.req.id
               PROVE  m.account = a \/ (m.account = None /\ m.pristine)
    BY DEF ChoicesStayHome
  <2>1. w.req \in Sent /\ w.req.lineage = a
    BY SentMembers DEF IInv, RowsOK, RowOK
  <2> QED
    BY <2>1 DEF IInv, SentOK, HomeOf
<1> QED
  BY <1>1, Invariance, PTL

(***************************************************************************)
(* OneAccountPerChoice: no choice reaches two accounts.                    *)
(***************************************************************************)
THEOREM ChoicesReachOneAccount == Spec => []OneAccountPerChoice
<1>1. IInv => OneAccountPerChoice
  <2> SUFFICES ASSUME IInv, NEW a \in Accounts, NEW b \in Accounts,
                      NEW v \in row[a].writes, NEW w \in row[b].writes,
                      v.req.id = w.req.id
               PROVE  a = b
    BY DEF OneAccountPerChoice
  <2>1. v.req \in Sent /\ w.req \in Sent /\ v.req.lineage = a /\ w.req.lineage = b
    BY SentMembers DEF IInv, RowsOK, RowOK
  <2>2. v.req = w.req
    BY <2>1 DEF IInv, SentOK
  <2> QED
    BY <2>1, <2>2
<1> QED
  BY <1>1, Invariance, PTL

(***************************************************************************)
(* ReplySettlesItsWrite: the answer to a write settles that write, so the  *)
(* upload loop of flushAtomic never repeats it.                            *)
(***************************************************************************)
THEOREM RepliesSettle == Spec => []ReplySettlesItsWrite
<1>1. IInv => ReplySettlesItsWrite
  <2> SUFFICES ASSUME IInv, NEW d \in Devices, svc[d].pc = "writeReply",
                      NEW p \in rec[d].pending, p.id = svc[d].req.id
               PROVE  ~SurvivesAck(p.op, svc[d].reply.doc[p.path])
    BY DEF ReplySettlesItsWrite
  <2>1. svc[d].req \in Sent
    BY SentMembers DEF Writing
  <2>2. svc[d].req = RequestOf(p)
    BY <2>1 DEF IInv, JournalsOK, JournalSent
  <2>3. \A f \in DOMAIN svc[d].req.ops : Absorbed(svc[d].req.ops[f], svc[d].reply.doc[f])
    BY DEF IInv, RepliesOK, ReplyOK, Answered
  <2>4. p.path \in DOMAIN RequestOf(p).ops /\ RequestOf(p).ops[p.path] = p.op
    BY DEF RequestOf
  <2>5. Absorbed(p.op, svc[d].reply.doc[p.path])
    BY <2>2, <2>3, <2>4
  <2> QED
    BY <2>5 DEF SurvivesAck, Absorbed
<1> QED
  BY <1>1, Invariance, PTL

(***************************************************************************)
(* PristineChoicesSurvive: an installation no account has answered still   *)
(* has every choice in its journal, at its rank.                           *)
(***************************************************************************)
THEOREM PristineChoicesKept == Spec => []PristineChoicesSurvive
<1>1. IInv => PristineChoicesSurvive
  BY DEF IInv, RecordsOK, RecordOK, Kept, PristineChoicesSurvive
<1> QED
  BY <1>1, Invariance, PTL

(***************************************************************************)
(* NoPauseWithoutReason: once an account has answered, a paused record     *)
(* holds a choice.                                                         *)
(***************************************************************************)
THEOREM PausesHaveReasons == Spec => []NoPauseWithoutReason
<1>1. IInv => NoPauseWithoutReason
  BY DEF IInv, RecordsOK, RecordOK, Reasoned, NoPauseWithoutReason
<1> QED
  BY <1>1, Invariance, PTL

(***************************************************************************)
(* RecordIsAccountPlusPending: a record anchored at the account's present  *)
(* revision shows the account's document with the journal on top.          *)
(***************************************************************************)
THEOREM RecordsShowTheAccount ==
    ASSUME StartRowsNumbered
    PROVE  Spec => []RecordIsAccountPlusPending
<1>1. IInv => RecordIsAccountPlusPending
  BY DEF IInv, AnchorsOK, AnchorOK, Anchored, RecordIsAccountPlusPending
<1> QED
  BY <1>1, Invariance, PTL

(***************************************************************************)
(* No field of an anchored record falls in rank at an acknowledgement: the *)
(* journal is merged again, and what is not of the journal came from an    *)
(* earlier answer.                                                         *)
(***************************************************************************)
LEMMA SettledRanks ==
    ASSUME NEW r, RecordOK(r), NEW reply \in Reply, Covered(r, reply.doc), NEW f \in Fields
    PROVE  ~Outranks(r.doc[f], MergedPending(r, reply.doc)[f])
<1> DEFINE m == MergedPending(r, reply.doc)[f]
<1>1. /\ reply.doc \in Doc /\ reply.doc[f] \in OrderedField /\ r.doc[f] \in OrderedField
      /\ IsFiniteSet(r.pending) /\ \A p \in r.pending : p.op \in OrderedField /\ p.scope = r.scope
  BY RightRecord DEF Reply, Doc
<1>2. /\ m \in OrderedField
      /\ \A y \in Versions(r, reply.doc, f) : Absorbed(y, m)
  BY <1>1, MergedMeans
<1> HIDE DEF m
<1>3. CASE \E p \in r.pending : p.path = f /\ p.op = r.doc[f]
  <2>1. r.doc[f] \in Versions(r, reply.doc, f)
    BY <1>1, <1>3 DEF Versions
  <2> QED
    BY <1>1, <1>2, <2>1, RankFacts DEF m
<1>4. CASE ~Outranks(r.doc[f], reply.doc[f])
  <2>1. reply.doc[f] \in Versions(r, reply.doc, f)
    BY DEF Versions
  <2>2. ~Outranks(reply.doc[f], m)
    BY <1>1, <1>2, <2>1, RankFacts
  <2> QED
    BY <1>1, <1>2, <1>4, <2>2, RankFacts DEF m
<1> QED
  BY <1>3, <1>4 DEF Covered

\* No field of an anchored record falls in rank.
RankKept(d) ==
    rec[d].anchor # None => \A f \in Fields : ~Outranks(rec[d].doc[f], rec'[d].doc[f])

\* A document that stays keeps its ranks.
LEMMA SameDocRanks ==
    ASSUME IInv, NEW d \in Devices, rec'[d].doc = rec[d].doc
    PROVE  RankKept(d)
<1>1. \A f \in Fields : rec[d].doc[f] \in OrderedField
  BY RightRecord DEF IInv, RecordsOK
<1> QED
  BY <1>1, RankFacts DEF RankKept

\* Taking an answer into the record keeps its ranks.
LEMMA AcknowledgesRanks ==
    ASSUME IInv, NEW e \in Devices, NEW pc, Acknowledges(e, pc), NEW d \in Devices
    PROVE  RankKept(d)
<1> DEFINE k == Acknowledge(rec[e], svc[e].reply, svc[e].atomicScope)
<1>1. rec' = [rec EXCEPT ![e] = k] /\ rec \in [Devices -> Record]
  BY DEF Acknowledges, IInv, RecordsOK
<1>2. RecordOK(rec[e]) /\ AnchorOK(rec[e], svc[e], row)
  BY DEF IInv, RecordsOK, AnchorsOK
<1>3. k = rec[e] \/ Settles(rec[e], k, svc[e].reply)
  BY AcknowledgedRecord
<1>4. svc[e].reply \in Reply
  BY AnswerIsHome DEF Acknowledges
<1> HIDE DEF k
<1>5. CASE d # e \/ k = rec[e]
  BY <1>1, <1>5, SameDocRanks
<1>6. CASE d = e /\ Settles(rec[e], k, svc[e].reply)
  <2> SUFFICES ASSUME rec[e].anchor # None, NEW f \in Fields
               PROVE  ~Outranks(rec[e].doc[f], k.doc[f])
    BY <1>1, <1>6 DEF RankKept
  <2>1. Covered(rec[e], svc[e].reply.doc)
    BY <1>2 DEF AnchorOK, Acknowledges
  <2>2. k.doc = MergedPending(rec[e], svc[e].reply.doc)
    BY <1>6 DEF Settles
  <2> QED
    BY <1>2, <1>4, <2>1, <2>2, SettledRanks
<1> QED
  BY <1>3, <1>5, <1>6

\* Saving a choice keeps the ranks.
LEMMA SaveChoiceRanks ==
    ASSUME IInv, NEW e \in Devices, NEW f \in Fields, NEW v \in BOOLEAN, SaveChoice(e, f, v),
           NEW d \in Devices
    PROVE  RankKept(d)
<1>1. PICK id, c, m : SavesChoice(e, f, v, id, c, m)
  BY DEF SavesChoice
<1>2. /\ rec' = [rec EXCEPT ![e] = c] /\ rec \in [Devices -> Record]
      /\ count.edits < MaxEdits /\ RecordOK(rec[e])
  BY <1>1 DEF SaveChoice, SavesChoice, Spend, IInv, RecordsOK
<1>3. Chosen(rec[e], c, f, id)
  BY <1>1, <1>2, SavedChoice
<1>4. CASE d # e
  BY <1>2, <1>4, SameDocRanks
<1>5. CASE d = e
  <2>1. rec'[d] = c
    BY <1>2, <1>5
  <2>2. CASE Keeps(rec[e], c)
    BY <1>5, <2>1, <2>2, SameDocRanks DEF Keeps
  <2>3. CASE EditsAlone(rec[e], c, f)
    BY <1>5, <2>3 DEF EditsAlone, RankKept
  <2>4. ASSUME NEW n, Adds(rec[e], c, f, n) PROVE RankKept(d)
    <3>1. /\ rec[e].doc \in Doc /\ \A g \in Fields : rec[e].doc[g] \in OrderedField
          /\ n.op \in OrderedField
      BY <1>2, <2>4, RightRecord, PendingParts DEF Adds
    <3>2. c.doc = [rec[e].doc EXCEPT ![f] = n.op] /\ Outranks(n.op, rec[e].doc[f])
      BY <2>4 DEF Adds
    <3>3. \A g \in Fields : c.doc[g] = IF g = f THEN n.op ELSE rec[e].doc[g]
      BY <3>1, <3>2 DEF Doc
    <3>4. ~Outranks(rec[e].doc[f], n.op) /\ \A g \in Fields : ~Outranks(rec[e].doc[g], rec[e].doc[g])
      BY <3>1, <3>2, RankFacts
    <3> QED
      BY <1>5, <2>1, <3>3, <3>4 DEF RankKept
  <2> QED
    BY <1>3, <2>2, <2>3, <2>4 DEF Chosen
<1> QED
  BY <1>4, <1>5

\* Crossing a scope keeps the document and so the ranks.
LEMMA ScopeRanks ==
    ASSUME IInv, NEW e \in Devices, NEW c, rec' = [rec EXCEPT ![e] = c], c.doc = rec[e].doc,
           NEW d \in Devices
    PROVE  RankKept(d)
<1>1. rec'[d].doc = rec[d].doc
  BY DEF IInv, RecordsOK
<1> QED
  BY <1>1, SameDocRanks

\* The steps that move a record.
LEMMA RecMoves ==
    ASSUME [Next]_vars
    PROVE  \/ rec' = rec
           \/ \E e \in Devices : OnSignedIn(e) \/ LeaveScope(e) \/ Retire(e) \/ Enter(e)
           \/ \E e \in Devices : Restart(e)
           \/ \E e \in Devices : AckRead(e) \/ AckWrite(e)
           \/ \E e \in Devices, f \in Fields, v \in BOOLEAN : SaveChoice(e, f, v)
<1>1. ASSUME NEW d \in Devices,
             SignedOut(d) \/ Reconcile(d) \/ ReadCanonical(d) \/ WriteThrough(d) \/ Flush(d)
               \/ WriteOperation(d) \/ Abandon(d) \/ SignOut(d) \/ LeaveScopeFails(d) \/ Fails(d)
      PROVE  rec' = rec
  BY <1>1 DEF SignedOut, Reconcile, ReadCanonical, WriteThrough, Flush, WriteOperation, Abandon,
              SignOut, LeaveScopeFails, Fails
<1>2. ASSUME NEW d \in Devices, NEW a \in Accounts, VerifyCode(d, a) PROVE rec' = rec
  BY <1>2 DEF VerifyCode
<1>3. ASSUME NEW w \in inFlight, ServeInFlight(w) PROVE rec' = rec
  BY <1>3 DEF ServeInFlight
<1>4. ASSUME NEW a \in Accounts, NEW values \in LegacyDoc, LegacyClientWrites(a, values)
      PROVE  rec' = rec
  BY <1>4 DEF LegacyClientWrites
<1>5. CASE UNCHANGED vars
  BY <1>5 DEF vars
<1> QED
  BY <1>1, <1>2, <1>3, <1>4, <1>5 DEF Next, Service

(***************************************************************************)
(* LocalRankHolds: within one account scope no field falls in rank.        *)
(***************************************************************************)
THEOREM RanksHold == Spec => LocalRankHolds
<1> DEFINE RankStep == \A d \in Devices : \A f \in Fields :
                          rec[d].anchor # None /\ rec'[d].scope = rec[d].scope
                            => ~Outranks(rec[d].doc[f], rec'[d].doc[f])
<1>1. ASSUME IInv, [Next]_vars, NEW d \in Devices PROVE RankKept(d)
  <2>1. CASE rec' = rec
    BY <1>1, <2>1, SameDocRanks
  <2>2. ASSUME NEW e \in Devices, OnSignedIn(e) \/ LeaveScope(e) \/ Retire(e) \/ Enter(e),
               rec' # rec
        PROVE  RankKept(d)
    <3>1. \E a \in Accounts \union {None}, s \in 1..MaxLogins \union {None} :
             rec' = [rec EXCEPT ![e] = EnterScope(rec[e], a, s)]
      <4>1. svc[e].pc # "off" => svc[e].userId \in Accounts /\ svc[e].session \in 1..MaxLogins
        BY <1>1, RightSession DEF SessionOK
      <4> QED
        BY <2>2, <4>1 DEF OnSignedIn, LeaveScope, Retire, Enter
    <3>2. PICK a \in Accounts \union {None}, s \in 1..MaxLogins \union {None} :
             rec' = [rec EXCEPT ![e] = EnterScope(rec[e], a, s)]
      BY <3>1
    <3>3. EnterScope(rec[e], a, s).doc = rec[e].doc
      BY <1>1, EnterScopeOK DEF IInv, RecordsOK, Crosses
    <3> QED
      BY <1>1, <3>2, <3>3, ScopeRanks
  <2>3. ASSUME NEW e \in Devices, Restart(e) PROVE RankKept(d)
    <3>1. rec' = [rec EXCEPT ![e] = Wake(rec[e])]
      BY <2>3 DEF Restart
    <3>2. Wake(rec[e]).doc = rec[e].doc
      BY <1>1, WakeOK DEF IInv, RecordsOK
    <3> QED
      BY <1>1, <3>1, <3>2, ScopeRanks
  <2>4. ASSUME NEW e \in Devices, AckRead(e) \/ AckWrite(e) PROVE RankKept(d)
    <3>1. \E pc : Acknowledges(e, pc)
      <4>1. CASE AckRead(e)
        <5>1. Acknowledges(e, "flush")
          BY <4>1 DEF AckRead, Acknowledges, Answered
        <5> QED
          BY <5>1
      <4>2. CASE AckWrite(e)
        BY <4>2, AckWriteAcknowledges
      <4> QED
        BY <2>4, <4>1, <4>2
    <3> QED
      BY <1>1, <3>1, AcknowledgesRanks
  <2>5. ASSUME NEW e \in Devices, NEW f \in Fields, NEW v \in BOOLEAN, SaveChoice(e, f, v)
        PROVE  RankKept(d)
    BY <1>1, <2>5, SaveChoiceRanks
  <2>6. \/ rec' = rec
        \/ \E e \in Devices : OnSignedIn(e) \/ LeaveScope(e) \/ Retire(e) \/ Enter(e)
        \/ \E e \in Devices : Restart(e)
        \/ \E e \in Devices : AckRead(e) \/ AckWrite(e)
        \/ \E e \in Devices, f \in Fields, v \in BOOLEAN : SaveChoice(e, f, v)
    BY <1>1, RecMoves
  <2> QED
    BY <2>1, <2>2, <2>3, <2>4, <2>5, <2>6
<1>2. IInv /\ [Next]_vars => [RankStep]_vars
  BY <1>1 DEF RankKept
<1> QED
  BY <1>2, Invariance, PTL DEF Spec, LocalRankHolds
=============================================================================
