---------------------------- MODULE SettingsSync ----------------------------
(***************************************************************************)
(* Settings sync end to end: installations, each with its durable record   *)
(* (AtomicSettings), its auth session and the volatile SyncService of      *)
(* packages/core/src/sync/service.ts, and the accounts' rows on the server *)
(* (SettingsRow).                                                          *)
(*                                                                         *)
(* The service is a set of awaits.  Between two of them a choice may be    *)
(* saved, the auth session may be replaced, the service may be torn down   *)
(* and started for someone else, and the worker may die; every action here *)
(* is the code from one await to the next.  Tearing the service down       *)
(* (`lifecycle += 1`) makes it deaf to its calls in flight, but not the    *)
(* server: a write already sent may still be processed (`inFlight`).       *)
(***************************************************************************)
EXTENDS AtomicSettings

CONSTANTS
    Devices,
    StartRecords,   \* the records an installation may start with
    StartRows,      \* the rows the accounts may start with
    MaxEdits,       \* bound: deliberate choices, over all devices
    MaxLogins,      \* bound: sign-ins, over all devices
    MaxFaults,      \* bound: lost calls, failed stores and worker deaths
    MaxLegacyWrites \* bound: whole-document writes by shipped 2.x clients

ASSUME SyncBoundsAssumption ==
    {MaxEdits, MaxLogins, MaxFaults, MaxLegacyWrites, MaxPending} \subseteq Nat

ASSUME StartRecordsAssumption ==
    StartRecords \subseteq {FreshRecord} \union {UpgradedRecord(values) : values \in LegacyDoc}

\* The accounts start without a row or with a schema-1 row, far enough below the
\* last revision: the code does not bound the revisions the 2.x path allocates.
ASSUME StartRowsAssumption ==
    \A rows \in StartRows :
        /\ rows \in [Lineages -> Row]
        /\ \A a \in Lineages :
             /\ \/ rows[a] = EmptyRow
                \/ \E values \in LegacyDoc, n \in 0..MaxRevision : rows[a] = LegacyRow(values, n)
             /\ Revision(rows[a]) + MaxLegacyWrites <= MaxRevision

\* There are identities for every choice, and a request may carry any single one.
ASSUME RequestsAssumption ==
    /\ Devices \X (1..MaxEdits) \subseteq Ids
    /\ \A f \in Fields, op \in [value : BOOLEAN, base : 0..MaxRevision, step : 1..MaxStep] :
         [g \in {f} |-> op] \in OpSets

VARIABLES
    rec,        \* the durable record of each device
    auth,       \* the auth session each device stores, or None
    svc,        \* the SyncService each device runs
    row,        \* the settings row of each account
    inFlight,   \* writes sent by a service that no longer listens
    linked,     \* history: devices that may hold an account's settings
    made,       \* history: who was served when each choice was made
    count       \* how much of each bound is used up

vars == <<rec, auth, svc, row, inFlight, linked, made, count>>

Accounts == Lineages

Session == [account : Accounts, session : 1..MaxLogins]

Scope == [account : Accounts \union {None}, generation : Nat,
          session : 1..MaxLogins \union {None}]

ASSUME NoScopeAssumption == None \notin Scope \union Session \union (1..MaxLogins)

(* The program counter of a service names the await it is in:              *)
(*   off       no session entered, or torn down after a sign-out           *)
(*   idle      write-through armed, no exchange                            *)
(*   retire, enter             reconcileAtomic before the scope is entered *)
(*   read, readReply           readCanonicalSettings, its answer in hand   *)
(*   flush, write, writeReply  one turn of flushAtomic                     *)
(*   leave, leaving            signOut before and after enterScope(null)   *)
Off == [userId |-> None, atomicScope |-> None, atomicRetirementPending |-> FALSE,
        pc |-> "off", session |-> 0, req |-> None, reply |-> None]

Start(account, session) ==
    [Off EXCEPT !.userId = account, !.pc = "idle", !.session = session]

Init ==
    /\ rec \in [Devices -> StartRecords]
    /\ auth = [d \in Devices |-> None]
    /\ svc = [d \in Devices |-> Off]
    /\ row \in StartRows
    /\ inFlight = {}
    /\ linked = {d \in Devices : rec[d].ownership # "never-linked"}
    /\ made = {}
    /\ count = [edits |-> 0, logins |-> 0, faults |-> 0, legacy |-> 0]

Spend(kind, limit) ==
    count[kind] < limit /\ count' = [count EXCEPT ![kind] = @ + 1]

-----------------------------------------------------------------------------
(* The person: choices, sign-ins and sign-outs                             *)

\* A choice reaches the writer whatever the service is doing: any open surface
\* may send it, with a view of the record that is already out of date.
SaveChoice(d, f, v) ==
    LET id == <<d, count.edits + 1>>
    IN  /\ Spend("edits", MaxEdits)
        /\ rec' = [rec EXCEPT ![d] = Commit(rec[d], f, v, id)]
        /\ rec' # rec
        /\ made' = made \union {[id |-> id, path |-> f, value |-> v,
                                 account |-> rec[d].scope.account,
                                 pristine |-> d \notin linked]}
        /\ UNCHANGED <<auth, svc, row, inFlight, linked>>

\* A verified code stores a new auth session; the service hears of it later.
VerifyCode(d, a) ==
    /\ Spend("logins", MaxLogins)
    /\ auth' = [auth EXCEPT ![d] = [account |-> a, session |-> count.logins + 1]]
    /\ UNCHANGED <<rec, svc, row, inFlight, linked, made>>

\* A call is sent with the token stored at that moment: the one the check before
\* it saw, or one a verified code has put in its place since.
Subjects(d) ==
    {svc[d].atomicScope.account} \union
        (IF auth[d] = None THEN {} ELSE {auth[d].account})

\* A write that was sent and not answered goes on without a listener.
Deserted(d) ==
    IF svc[d].pc = "write"
      THEN {{}} \union {{[subject |-> a, req |-> svc[d].req]} : a \in Subjects(d)}
      ELSE {{}}

\* onSignedIn, or resume when a worker finds a stored session.  A sign-out it
\* overtakes has queued its enterScope already, which runs first or fails.
OnSignedIn(d) ==
    /\ auth[d] # None
    /\ svc[d].pc = "off" \/ svc[d].session # auth[d].session
    /\ \/ UNCHANGED rec
       \/ svc[d].pc = "leave" /\ rec' = [rec EXCEPT ![d] = EnterScope(@, None, None)]
    /\ svc' = [svc EXCEPT ![d] =
                 [Start(auth[d].account, auth[d].session) EXCEPT
                    !.atomicRetirementPending = svc[d].atomicRetirementPending]]
    /\ \E sent \in Deserted(d) : inFlight' = inFlight \union sent
    /\ UNCHANGED <<auth, row, linked, made, count>>

\* signOut tears the service down first and then retires the scope ...
SignOut(d) ==
    /\ svc[d].pc \notin {"off", "leave", "leaving"}
    /\ svc' = [svc EXCEPT ![d].pc = "leave", ![d].atomicScope = None,
                          ![d].atomicRetirementPending = TRUE,
                          ![d].req = None, ![d].reply = None]
    /\ \E sent \in Deserted(d) : inFlight' = inFlight \union sent
    /\ UNCHANGED <<rec, auth, row, linked, made, count>>

LeaveScope(d) ==
    /\ svc[d].pc = "leave"
    /\ rec' = [rec EXCEPT ![d] = EnterScope(@, None, None)]
    /\ svc' = [svc EXCEPT ![d].pc = "leaving", ![d].atomicRetirementPending = FALSE]
    /\ UNCHANGED <<auth, row, inFlight, linked, made, count>>

\* ... which may fail: the retirement is retried before any later exchange ...
LeaveScopeFails(d) ==
    /\ svc[d].pc = "leave"
    /\ Spend("faults", MaxFaults)
    /\ svc' = [svc EXCEPT ![d].pc = "leaving"]
    /\ UNCHANGED <<rec, auth, row, inFlight, linked, made>>

\* ... and clears the stored auth session last.
SignedOut(d) ==
    /\ svc[d].pc = "leaving"
    /\ auth' = [auth EXCEPT ![d] = None]
    /\ svc' = [svc EXCEPT ![d] =
                 [Off EXCEPT !.atomicRetirementPending = svc[d].atomicRetirementPending]]
    /\ UNCHANGED <<rec, row, inFlight, linked, made, count>>

\* The worker dies and wakes: nothing volatile is left, the record is initialized.
Restart(d) ==
    /\ Spend("faults", MaxFaults)
    /\ svc' = [svc EXCEPT ![d] = Off]
    /\ rec' = [rec EXCEPT ![d] = Wake(@)]
    /\ \E sent \in Deserted(d) : inFlight' = inFlight \union sent
    /\ UNCHANGED <<auth, row, linked, made>>

-----------------------------------------------------------------------------
(* An exchange                                                             *)

\* Seeded fault: the session is not proved again around an await.
OwnsUnproved(d) == TRUE

\* ownsAtomicSession: the live session is still the one the scope was entered with
Owns(d) ==
    /\ auth[d] # None
    /\ svc[d].atomicScope # None
    /\ auth[d].account = svc[d].atomicScope.account
    /\ auth[d].session = svc[d].atomicScope.session

Goto(d, pc) == svc' = [svc EXCEPT ![d].pc = pc, ![d].req = None, ![d].reply = None]

\* reconcileAtomic: prove the session, then enter its scope ...
Reconcile(d) ==
    /\ svc[d].pc = "idle"
    /\ IF svc[d].atomicScope = None
         THEN /\ auth[d] # None /\ auth[d].account = svc[d].userId
              /\ svc' = [svc EXCEPT ![d].session = auth[d].session, ![d].pc =
                           IF svc[d].atomicRetirementPending THEN "retire" ELSE "enter"]
         ELSE Owns(d) /\ Goto(d, "read")
    /\ UNCHANGED <<rec, auth, row, inFlight, linked, made, count>>

Retire(d) ==
    /\ svc[d].pc = "retire"
    /\ rec' = [rec EXCEPT ![d] = EnterScope(@, None, None)]
    /\ svc' = [svc EXCEPT ![d].pc = "enter", ![d].atomicRetirementPending = FALSE]
    /\ UNCHANGED <<auth, row, inFlight, linked, made, count>>

\* ... after which the exchange goes on from "idle" with a scope.
Enter(d) ==
    /\ svc[d].pc = "enter"
    /\ rec' = [rec EXCEPT ![d] = EnterScope(@, svc[d].userId, svc[d].session)]
    /\ svc' = [svc EXCEPT ![d].pc = "idle", ![d].atomicScope = rec'[d].scope]
    /\ UNCHANGED <<auth, row, inFlight, linked, made, count>>

\* A canonical document with the receipt of its revision.
AnswerOf(a, accountRow) ==
    [lineage |-> a, revision |-> Revision(accountRow), doc |-> Canonical(accountRow)]

ReadCanonical(d) ==
    /\ svc[d].pc = "read"
    /\ \E a \in Subjects(d) :
         svc' = [svc EXCEPT ![d].pc = "readReply", ![d].reply = AnswerOf(a, row[a])]
    /\ UNCHANGED <<rec, auth, row, inFlight, linked, made, count>>

AckRead(d) ==
    /\ svc[d].pc = "readReply"
    /\ Owns(d)
    /\ AnchorAccepted(rec[d], svc[d].reply)
    /\ rec' = [rec EXCEPT ![d] = Acknowledge(@, svc[d].reply, svc[d].atomicScope)]
    /\ Goto(d, "flush")
    /\ linked' = linked \union {e \in {d} : rec'[e].anchor # None}
    /\ UNCHANGED <<auth, row, inFlight, made, count>>

\* A saved choice starts an upload of its own, without a read.
WriteThrough(d) ==
    /\ svc[d].pc = "idle"
    /\ svc[d].atomicScope # None
    /\ Queue(rec[d]) # {}
    /\ Goto(d, "flush")
    /\ UNCHANGED <<rec, auth, row, inFlight, linked, made, count>>

\* The first request of the journal goes out, if nothing pauses it.
MayFlush(d) ==
    /\ rec[d].scope = svc[d].atomicScope
    /\ rec[d].paused \in {None, "pending-limit"}
    /\ Queue(rec[d]) # {}

Flush(d) ==
    /\ svc[d].pc = "flush"
    /\ IF MayFlush(d)
         THEN /\ Owns(d)
              /\ svc' = [svc EXCEPT ![d].pc = "write",
                                    ![d].req = RequestOf(First(Queue(rec[d])))]
         ELSE Goto(d, "idle")
    /\ UNCHANGED <<rec, auth, row, inFlight, linked, made, count>>

\* Only an answer of status 200 is an answer.
WriteOperation(d) ==
    /\ svc[d].pc = "write"
    /\ \E a \in Subjects(d) :
         /\ row' = [row EXCEPT ![a] = RowAfter(a, @, svc[d].req)]
         /\ IF Status(a, row[a], svc[d].req) = "ready"
              THEN svc' = [svc EXCEPT ![d].pc = "writeReply", ![d].reply = AnswerOf(a, row'[a])]
              ELSE Goto(d, "idle")
    /\ UNCHANGED <<rec, auth, inFlight, linked, made, count>>

\* An own request still in the journal ends the loop instead of repeating it.
AckWrite(d) ==
    /\ svc[d].pc = "writeReply"
    /\ Owns(d)
    /\ AnchorAccepted(rec[d], svc[d].reply)
    /\ rec' = [rec EXCEPT ![d] = Acknowledge(@, svc[d].reply, svc[d].atomicScope)]
    /\ Goto(d, IF \E p \in rec'[d].pending : p.id = svc[d].req.id
                 THEN "idle" ELSE "flush")
    /\ linked' = linked \union {e \in {d} : rec'[e].anchor # None}
    /\ UNCHANGED <<auth, row, inFlight, made, count>>

\* A failed proof of ownership or a refused anchor ends the exchange.
Abandon(d) ==
    /\ svc[d].pc \in {"readReply", "writeReply", "flush", "read", "write"}
    /\ \/ ~Owns(d)
       \/ svc[d].reply # None /\ ~AnchorAccepted(rec[d], svc[d].reply)
    /\ Goto(d, "idle")
    /\ \E sent \in Deserted(d) : inFlight' = inFlight \union sent
    /\ UNCHANGED <<rec, auth, row, linked, made, count>>

\* A lost or late answer, or a store that fails, ends it too.
Fails(d) ==
    /\ svc[d].pc \in {"retire", "enter", "read", "readReply", "flush", "write", "writeReply"}
    /\ Spend("faults", MaxFaults)
    /\ Goto(d, "idle")
    /\ \E sent \in Deserted(d) : inFlight' = inFlight \union sent
    /\ UNCHANGED <<rec, auth, row, linked, made>>

-----------------------------------------------------------------------------
(* The server and its other clients                                        *)

\* A write nobody waits for is processed late, or never.
ServeInFlight(w) ==
    /\ w \in inFlight
    /\ row' = [row EXCEPT ![w.subject] = RowAfter(w.subject, @, w.req)]
    /\ inFlight' = inFlight \ {w}
    /\ UNCHANGED <<rec, auth, svc, linked, made, count>>

LegacyClientWrites(a, values) ==
    /\ Spend("legacy", MaxLegacyWrites)
    /\ LegacyWriteAdmitted(row[a])
    /\ row' = [row EXCEPT ![a] = LegacyWritten(@, values)]
    /\ UNCHANGED <<rec, auth, svc, inFlight, linked, made>>

\* What the service does by itself, once the person has acted.
Service(d) ==
    \/ OnSignedIn(d) \/ LeaveScope(d) \/ SignedOut(d)
    \/ Reconcile(d) \/ Retire(d) \/ Enter(d)
    \/ ReadCanonical(d) \/ AckRead(d)
    \/ WriteThrough(d) \/ Flush(d) \/ WriteOperation(d) \/ AckWrite(d)
    \/ Abandon(d)

Next ==
    \/ \E d \in Devices : Service(d)
    \/ \E d \in Devices, f \in Fields, v \in BOOLEAN : SaveChoice(d, f, v)
    \/ \E d \in Devices, a \in Accounts : VerifyCode(d, a)
    \/ \E d \in Devices : SignOut(d) \/ LeaveScopeFails(d) \/ Restart(d) \/ Fails(d)
    \/ \E w \in inFlight : ServeInFlight(w)
    \/ \E a \in Accounts, values \in LegacyDoc : LegacyClientWrites(a, values)

Spec == Init /\ [][Next]_vars

(***************************************************************************)
(* A step the service can take is taken: its awaits settle or time out, a  *)
(* sign-in event is delivered.  The retry and refresh timers start a read  *)
(* again and again whatever uploads come between (scheduleRetry,           *)
(* scheduleRefresh), hence the strong fairness of Reconcile.               *)
(***************************************************************************)
Fairness ==
    \A d \in Devices :
        /\ WF_vars(Service(d))
        /\ WF_vars(OnSignedIn(d))
        /\ SF_vars(Reconcile(d))

FairSpec == Spec /\ Fairness

-----------------------------------------------------------------------------
(* Properties                                                              *)

Pending == [id : Ids, scope : Scope, origin : Scope \union {None},
            receipt : Receipt \union {None}, path : Fields, op : Operation]

Record == [doc : Doc, ownership : Ownerships, scope : Scope,
           anchor : Receipt \union {None}, pending : SUBSET Pending,
           held : [Fields -> BOOLEAN \union {None}], paused : Pauses \union {None}]

\* Records, rows and sessions stay well typed and no journal outgrows its limit:
\* readAtomicSettingsState rejects a longer one, and the record with it.
TypeOK ==
    /\ rec \in [Devices -> Record]
    /\ auth \in [Devices -> Session \union {None}]
    /\ row \in [Accounts -> Row]
    /\ \A d \in Devices :
         /\ svc[d].userId \in Accounts \union {None}
         /\ svc[d].atomicScope \in Scope \union {None}
         /\ Cardinality(rec[d].pending) <= MaxPending
    /\ linked \in SUBSET Devices
    /\ \A w \in inFlight : w.subject \in Accounts /\ w.req \in Request

\* A record that serves an account is anchored in that account alone, and every
\* request it may send carries a receipt of that account, although reads are
\* answered for whoever's token was stored when they were sent.
AccountIsolation ==
    \A d \in Devices :
        /\ rec[d].anchor # None => rec[d].anchor.lineage = rec[d].scope.account
        /\ \A p \in rec[d].pending :
             /\ p.scope = rec[d].scope
             /\ p.receipt # None => p.receipt.lineage = rec[d].scope.account

\* A choice ends up in an account only if it was made while that account was
\* served, or before the installation ever belonged to anyone.
ChoicesStayHome ==
    \A a \in Accounts : \A w \in row[a].writes : \A m \in made :
        m.id = w.req.id =>
            \/ m.account = a
            \/ m.account = None /\ m.pristine

\* No choice reaches two accounts.
OneAccountPerChoice ==
    \A a, b \in Accounts : \A v \in row[a].writes, w \in row[b].writes :
        v.req.id = w.req.id => a = b

\* A record whose anchor is the account's present revision shows the account's
\* document with the choices still in the journal on top, nothing else.
RecordIsAccountPlusPending ==
    \A d \in Devices :
        LET r == rec[d]
            a == r.anchor.lineage
        IN  r.anchor # None /\ r.anchor.revision = Revision(row[a])
              => r.doc = MergedPending(r, Canonical(row[a]))

\* Within one account scope a field never falls in rank: no read, no late or
\* repeated answer undoes a newer local choice.
LocalRankHolds ==
    [][\A d \in Devices : \A f \in Fields :
          rec[d].anchor # None /\ rec'[d].scope = rec[d].scope
            => ~Outranks(rec[d].doc[f], rec'[d].doc[f])]_vars

\* The answer to a write always settles that write, whatever happened to the row
\* or to its retained identity in between, so the upload loop never spins.
ReplySettlesItsWrite ==
    \A d \in Devices :
        svc[d].pc = "writeReply" =>
            \A p \in rec[d].pending :
                p.id = svc[d].req.id => ~SurvivesAck(p.op, svc[d].reply.doc[p.path])

\* An installation no account has acknowledged loses no choice: each is still in
\* the journal at its rank, through compaction, failed first links, sign-outs,
\* account changes and restarts.
PristineChoicesSurvive ==
    \A d \in Devices : \A f \in Fields :
        d \notin linked /\ rec[d].doc[f].step > 0 =>
            \E p \in rec[d].pending : p.path = f /\ p.op = rec[d].doc[f]

\* Once the account has answered, a record is paused only for choices it still
\* holds: no pause, of ownership or of order, outlives its reason.
NoPauseWithoutReason ==
    \A d \in Devices :
        rec[d].anchor # None /\ rec[d].paused # None => rec[d].held # NothingHeld

\* When the person rests, every signed-in installation that nothing pauses ends
\* up with an empty journal and exactly the account's document.
Converges ==
    <>[](\A d \in Devices :
            svc[d].userId # None /\ rec[d].paused = None =>
                /\ rec[d].pending = {}
                /\ rec[d].doc = Canonical(row[svc[d].userId]))

\* A choice held back in one account's scope does not show over another account.
HeldChoicesStayHome ==
    \A d \in Devices : \A f \in Fields :
        rec[d].anchor # None /\ rec[d].held[f] # None =>
            \E m \in made :
                /\ m.id[1] = d /\ m.path = f /\ m.value = rec[d].held[f]
                /\ m.account \in {None, rec[d].scope.account}

\* Every pause that disables the switches has a way out by signing out.
SignOutReleasesPauses ==
    \A d \in Devices :
        svc[d].pc = "off" /\ auth[d] = None /\ rec[d].scope.account = None
            => rec[d].paused = None
=============================================================================
