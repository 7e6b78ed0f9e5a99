-------------------------- MODULE ExtensionSession --------------------------
(***************************************************************************)
(* The account session of a browser extension.  One background worker runs *)
(* reconciles, checkouts, sign-ins, sign-outs and account deletions as     *)
(* tasks that interleave wherever they await.  All of them read and write  *)
(* the same few records: the persisted Supabase session, the entitlement   *)
(* record, the identity last synced and the purchase operation in hand.  An*)
(* entitlement answer is told apart only by the account it is about.       *)
(* The worker may be stopped at any time and starts again from the records.*)
(***************************************************************************)
EXTENDS Naturals, FiniteSets

CONSTANTS
    Accounts,
    Tasks,          \* bound: operations of the session that run at once
    None,
    MaxSignIns,     \* bound: codes verified
    MaxPurchases    \* bound: purchase operations that are made

ASSUME NoneAssumption == None \notin Accounts \union Tasks

ASSUME AccountsAssumption == IsFiniteSet(Accounts)

ASSUME BoundsAssumption == MaxSignIns \in Nat /\ MaxPurchases \in Nat \ {0}

VARIABLES
    purchase,   \* server: the newest purchase operation of each account
    stored,     \* the persisted Supabase session
    signIns,    \* sessions issued so far
    record,     \* the account whose answer the entitlement record holds; None: locked
    lastSynced, \* the last-synced identity
    slot,       \* the stored checkout operation
    sync,       \* the state of SyncService
    task        \* the running operations

vars == <<purchase, stored, signIns, record, lastSynced, slot, sync, task>>

records == <<record, lastSynced, slot>>

NoSession == [user |-> None, id |-> 0]

\* SyncService: the user it publishes, whether the entitlement is confirmed, and
\* its lifecycle: whether write-through runs and the sign-in that started it
SignedOut == [user |-> None, confirmed |-> TRUE, live |-> FALSE, owner |-> None]

\* The n-th purchase operation of an account
NoPurchase == [owner |-> None, n |-> 0]

Purchase == [owner : Accounts, n : 1..MaxPurchases]

Idle ==
    [kind |-> "none", pc |-> "idle", session |-> NoSession, fresh |-> TRUE,
     op |-> NoPurchase, previous |-> None]

Session == [user : Accounts, id : 1..MaxSignIns] \union {NoSession}

\* The variables stay well typed.
TypeOK ==
    /\ purchase \in [Accounts -> [n : 0..MaxPurchases, state : {"open", "seen", "closed"}]]
    /\ stored \in Session /\ signIns \in 0..MaxSignIns
    /\ record \in Accounts \union {None} /\ lastSynced \in Accounts \union {None}
    /\ slot \in [account : Accounts, op : Purchase] \union {[account |-> None, op |-> NoPurchase]}
    /\ sync \in [user : Accounts \union {None}, confirmed : BOOLEAN, live : BOOLEAN,
                 owner : Tasks \union {None}]
    /\ task \in [Tasks -> [kind : {"none", "reconcile", "checkout", "verify", "leave", "delete"},
                           pc : {"idle", "queue", "slot", "complete", "completed", "read",
                                 "tell", "create", "send", "created", "code", "identity", "record", "purge",
                                 "forget", "drop", "signin", "settle", "check", "grant",
                                 "revoke", "erase"},
                           session : Session \union [user : Accounts, id : {0}],
                           fresh : BOOLEAN, op : Purchase \union {NoPurchase},
                           previous : Accounts \union {None}]]

EmptySlot == [account |-> None, op |-> NoPurchase]

Init ==
    /\ purchase = [a \in Accounts |-> [n |-> 0, state |-> "closed"]]
    /\ stored = NoSession
    /\ signIns = 0
    /\ record = None
    /\ lastSynced = None
    /\ slot = EmptySlot
    /\ sync = SignedOut
    /\ task = [t \in Tasks |-> Idle]

-----------------------------------------------------------------------------
(* The server                                                               *)

\* An operation comes to its end: access_observed, which still is the open
\* operation of its account, or refunded or closed.
EndPurchase(a) ==
    /\ \/ purchase[a].state = "open" /\ purchase' = [purchase EXCEPT ![a].state = "seen"]
       \/ purchase[a].n > 0 /\ purchase[a].state # "closed"
            /\ purchase' = [purchase EXCEPT ![a].state = "closed"]
    /\ UNCHANGED <<stored, signIns, records, sync, task>>

Ended(op) == op.n < purchase[op.owner].n \/ purchase[op.owner].state # "open"

-----------------------------------------------------------------------------
(* Fences of the session                                                    *)

\* accountStatusTeardowns: sign-ins, sign-outs and deletions that run
TeardownsRunning == {t \in Tasks : task[t].kind \in {"verify", "leave", "delete"}}

\* generations.bump: every task that has captured a generation is stale.
Bumped == [t \in Tasks |-> [task[t] EXCEPT !.fresh = FALSE]]

\* Seeded fault: the generation alone is trusted, not the session in the store.
CurrentGeneration(t) == TeardownsRunning = {} /\ task[t].fresh

\* current() of reconcile and checkout: no teardown, no purge since the start, and
\* the very session it started with
Current(t) ==
    /\ TeardownsRunning = {} /\ task[t].fresh /\ stored = task[t].session

\* A task ends: its fence failed, a call failed or went unanswered, or it is done.
End(t) ==
    /\ task[t].pc # "idle"
    /\ task[t].kind \in {"reconcile", "checkout"} \/ task[t].pc \in {"code", "settle", "check", "grant", "erase"}
    /\ task' = [task EXCEPT ![t] = Idle]
    /\ UNCHANGED <<purchase, stored, signIns, records, sync>>

Begins(t, kind, pc, session) ==
    /\ task[t].pc = "idle"
    /\ task' = [task EXCEPT ![t] = [Idle EXCEPT !.kind = kind, !.pc = pc, !.session = session]]
    /\ UNCHANGED <<purchase, stored, signIns, records, sync>>

Goes(t, pc) == task' = [task EXCEPT ![t].pc = pc]

\* Seeded fault: completion and creation are not queued behind each other.
LaneOpen(t) == task[t].pc = "queue"

\* serializeCheckout: completion and creation share one queue.
LaneFree(t) ==
    \A u \in Tasks \ {t} :
        task[u].pc \notin {"slot", "complete", "completed", "create", "send", "created"}

-----------------------------------------------------------------------------
(* runReconcile                                                             *)

StartReconcile(t) == stored # NoSession /\ Begins(t, "reconcile", "queue", stored)

\* The stored operation is completed if it is the account's; the host may hold
\* its completion back.
TakeLane(t) ==
    /\ task[t].pc = "queue" /\ LaneFree(t) /\ Current(t)
    /\ IF task[t].kind = "checkout"
         THEN task' = [task EXCEPT ![t].pc = "create",
                 ![t].op = IF slot.account = task[t].session.user THEN slot.op ELSE NoPurchase]
         ELSE \/ slot.account = task[t].session.user
                 /\ task' = [task EXCEPT ![t].pc = "slot", ![t].op = slot.op]
              \/ Goes(t, "read")
    /\ UNCHANGED <<purchase, stored, signIns, records, sync>>

\* current() is asked for the last time before completeWebCheckout ...
AskComplete(t) ==
    /\ task[t].pc = "slot" /\ Current(t)
    /\ Goes(t, "complete")
    /\ UNCHANGED <<purchase, stored, signIns, records, sync>>

\* ... which awaits the admission and then reads the token: it travels under the
\* session stored by then, and the server knows the operation of no other account.
Complete(t) ==
    /\ task[t].pc = "complete"
    /\ \/ stored.user = task[t].op.owner /\ Goes(t, "completed")
       \/ task' = [task EXCEPT ![t] = Idle]
    /\ UNCHANGED <<purchase, stored, signIns, records, sync>>

\* A terminal operation leaves the slot, whatever the slot holds by then.
Completed(t) ==
    /\ task[t].pc = "completed" /\ Current(t)
    /\ slot' = IF Ended(task[t].op) THEN EmptySlot ELSE slot
    /\ task' = [task EXCEPT ![t].pc = "read", ![t].op = NoPurchase]
    /\ UNCHANGED <<purchase, stored, signIns, record, lastSynced, sync>>

\* reconcileEntitlementChecked and readEntitlement gave a definitive answer; it is
\* written after one more look at generation and session.
WriteRecord(t) ==
    /\ task[t].pc = "read" /\ Current(t)
    /\ record' = task[t].session.user
    /\ Goes(t, "tell")
    /\ UNCHANGED <<purchase, stored, signIns, lastSynced, slot, sync>>

\* sync.onEntitlementConfirmed, with no look at the session any more
TellSync(t) ==
    /\ task[t].pc = "tell"
    /\ sync' = [user |-> task[t].session.user, confirmed |-> TRUE, live |-> TRUE,
                owner |-> IF sync.user = task[t].session.user /\ sync.live
                            THEN sync.owner ELSE t]
    /\ task' = [task EXCEPT ![t] = Idle]
    /\ UNCHANGED <<purchase, stored, signIns, records>>

-----------------------------------------------------------------------------
(* createCheckout                                                           *)

StartCheckout(t) ==
    /\ stored # NoSession /\ TeardownsRunning = {}
    /\ \A u \in Tasks : task[u].kind # "checkout"
    /\ Begins(t, "checkout", "queue", stored)

Made == {made \in Accounts \X (1..MaxPurchases) : made[2] <= purchase[made[1]].n}

\* Seeded fault: the answer names the operation that was there before the call.
StaleAnswer(a) == [owner |-> a, n |-> purchase[a].n]

\* The operation create-web-checkout answers with
Answer(a) == [owner |-> a, n |-> purchase'[a].n]

\* canCreateCheckout and current() are asked for the last time before the call ...
AskCreate(t) ==
    /\ task[t].pc = "create" /\ Current(t)
    /\ Goes(t, "send")
    /\ UNCHANGED <<purchase, stored, signIns, records, sync>>

\* ... which again travels under the session stored by then.  create-web-checkout
\* resumes the operation it is named, if it is the caller's, else the open one of
\* the caller, else prepares a new one.
Create(t) ==
    LET a == stored.user
        named == task[t].op
        opens == purchase[a].state = "closed"
    IN
    /\ task[t].pc = "send" /\ a # None
    /\ IF named # NoPurchase
         THEN named.owner = a /\ Goes(t, "created") /\ UNCHANGED purchase
         ELSE /\ opens => Cardinality(Made) < MaxPurchases
              /\ purchase' = IF opens
                    THEN [purchase EXCEPT ![a] = [n |-> @.n + 1, state |-> "open"]] ELSE purchase
              /\ task' = [task EXCEPT ![t].pc = "created", ![t].op = Answer(a)]
    /\ UNCHANGED <<stored, signIns, records, sync>>

\* The operation is stored before a payment tab opens.
StoreOperation(t) ==
    /\ task[t].pc = "created" /\ Current(t)
    /\ slot' = [account |-> task[t].session.user, op |-> task[t].op]
    /\ task' = [task EXCEPT ![t] = Idle]
    /\ UNCHANGED <<purchase, stored, signIns, record, lastSynced, sync>>

-----------------------------------------------------------------------------
(* verifyCode                                                               *)

\* The teardown count goes up before the code travels.
StartVerify(t, u) == signIns < MaxSignIns /\ Begins(t, "verify", "code", [user |-> u, id |-> 0])

\* The verified session replaces the stored one before anything is purged.
Authenticate(t) ==
    /\ task[t].pc = "code"
    /\ signIns < MaxSignIns
    /\ signIns' = signIns + 1
    /\ stored' = [user |-> task[t].session.user, id |-> signIns + 1]
    /\ Goes(t, "identity")
    /\ UNCHANGED <<purchase, records, sync>>

ReadIdentity(t) ==
    /\ task[t].pc = "identity"
    /\ task' = [task EXCEPT ![t].pc = "record", ![t].previous = lastSynced]
    /\ UNCHANGED <<purchase, stored, signIns, records, sync>>

\* The previous person is the last-synced identity, else the one in the record.
ReadRecord(t) ==
    LET previous == IF task[t].previous # None THEN task[t].previous ELSE record IN
    /\ task[t].pc = "record"
    /\ task' = [task EXCEPT ![t].previous = previous,
                 ![t].pc = IF previous \in {None, task[t].session.user} THEN "signin" ELSE "purge"]
    /\ UNCHANGED <<purchase, stored, signIns, records, sync>>

\* clearUserScopedState bumps the generation and locks the record ...
Purge(t) ==
    /\ task[t].pc = "purge"
    /\ record' = None
    /\ task' = [Bumped EXCEPT ![t].pc = "forget"]
    /\ UNCHANGED <<purchase, stored, signIns, lastSynced, slot, sync>>

\* ... then forgets the stored operation; the last-synced identity stays.
Forget(t) ==
    /\ task[t].pc = "forget"
    /\ slot' = EmptySlot
    /\ Goes(t, IF task[t].kind = "verify" THEN "signin" ELSE "drop")
    /\ UNCHANGED <<purchase, stored, signIns, record, lastSynced, sync>>

\* sync.onSignedIn: a new lifecycle with the entitlement unconfirmed
SignIn(t) ==
    /\ task[t].pc = "signin"
    /\ sync' = [user |-> task[t].session.user, confirmed |-> FALSE, live |-> TRUE, owner |-> t]
    /\ task' = [task EXCEPT ![t].pc = "settle", ![t].fresh = TRUE]
    /\ UNCHANGED <<purchase, stored, signIns, records>>

\* The answer under the stored token settles only the lifecycle that asked; an
\* unknown answer settles nothing.
Settle(t) ==
    /\ task[t].pc = "settle"
    /\ \/ UNCHANGED sync
       \/ /\ sync.owner = t /\ sync.user = task[t].session.user /\ stored # NoSession
          /\ sync' = [sync EXCEPT !.confirmed = TRUE]
    /\ Goes(t, "check")
    /\ UNCHANGED <<purchase, stored, signIns, records>>

\* The published state and the generation are read, then the user is awaited ...
Check(t) ==
    /\ task[t].pc = "check" /\ sync.confirmed /\ task[t].fresh
    /\ stored.user = task[t].session.user
    /\ Goes(t, "grant")
    /\ UNCHANGED <<purchase, stored, signIns, records, sync>>

\* ... and the record is written with no second look at either.
Grant(t) ==
    /\ task[t].pc = "grant"
    /\ record' = task[t].session.user
    /\ task' = [task EXCEPT ![t] = Idle]
    /\ UNCHANGED <<purchase, stored, signIns, lastSynced, slot, sync>>

-----------------------------------------------------------------------------
(* signOut and deleteAccountWithOutcome                                     *)

StartSignOut(t) ==
    /\ task[t].pc = "idle" /\ stored # NoSession
    /\ task' = [task EXCEPT ![t] = [Idle EXCEPT !.kind = "leave", !.pc = "revoke"]]
    /\ sync' = [sync EXCEPT !.live = FALSE, !.owner = None]
    /\ UNCHANGED <<purchase, stored, signIns, records>>

\* The revoke is best effort; a lifecycle begun meanwhile keeps its state.
Revoke(t) ==
    /\ task[t].pc = "revoke"
    /\ stored' \in {stored, NoSession}
    /\ sync' = IF sync.live \/ stored' # NoSession THEN sync ELSE SignedOut
    /\ Goes(t, "purge")
    /\ UNCHANGED <<purchase, signIns, records>>

StartDelete(t) == stored # NoSession /\ Begins(t, "delete", "erase", stored)

\* delete-account erases whoever is stored; a different person signed in by then,
\* or a purge in between, keeps this browser's records.
Erase(t) ==
    LET gone == stored.user IN
    /\ task[t].pc = "erase" /\ gone # None
    /\ purchase' = [purchase EXCEPT ![gone].state = "closed"]
    /\ IF task[t].fresh /\ gone = task[t].session.user
         THEN sync' = SignedOut /\ stored' = NoSession /\ Goes(t, "purge")
         ELSE task' = [task EXCEPT ![t] = Idle] /\ UNCHANGED <<sync, stored>>
    /\ UNCHANGED <<signIns, records>>

\* The person leaves: the persisted session is dropped too.
Drop(t) ==
    /\ task[t].pc = "drop"
    /\ stored' = NoSession
    /\ task' = [task EXCEPT ![t] = Idle]
    /\ UNCHANGED <<purchase, signIns, records, sync>>

-----------------------------------------------------------------------------
(* The worker                                                               *)

\* A mirror of the running lifecycle reaches the account.
Mirror ==
    /\ sync.live /\ lastSynced # sync.user
    /\ lastSynced' = sync.user
    /\ UNCHANGED <<purchase, stored, signIns, record, slot, sync, task>>

\* The worker is stopped; the next one resumes from the records.
Restart ==
    /\ task' = [t \in Tasks |-> Idle]
    /\ sync' = IF stored = NoSession THEN SignedOut
               ELSE [user |-> stored.user, confirmed |-> FALSE, live |-> TRUE, owner |-> None]
    /\ UNCHANGED <<purchase, stored, signIns, records>>

Next ==
    \/ \E a \in Accounts : EndPurchase(a)
    \/ Mirror \/ Restart
    \/ \E t \in Tasks :
        \/ StartReconcile(t) \/ TakeLane(t) \/ AskComplete(t) \/ Complete(t) \/ Completed(t)
        \/ WriteRecord(t) \/ TellSync(t)
        \/ StartCheckout(t) \/ AskCreate(t) \/ Create(t) \/ StoreOperation(t)
        \/ \E u \in Accounts : StartVerify(t, u)
        \/ Authenticate(t) \/ ReadIdentity(t) \/ ReadRecord(t) \/ Purge(t) \/ Forget(t)
        \/ SignIn(t) \/ Settle(t) \/ Check(t) \/ Grant(t)
        \/ StartSignOut(t) \/ Revoke(t) \/ StartDelete(t) \/ Erase(t) \/ Drop(t)
        \/ End(t)

Spec == Init /\ [][Next]_vars

-----------------------------------------------------------------------------
(* What the records of a shared browser must keep                           *)

\* A sign-in over the records of another account
Replaces(t) ==
    /\ task[t].kind = "verify"
    /\ task[t].previous \notin {None, task[t].session.user}

\* The slot never names one account beside the operation of another, although a
\* call may travel under the token of a newer session than the one that was checked;
\* and from its purge on, a sign-in over the records of another account runs with
\* the slot empty, whatever the reconciles and checkouts of that account still do.
PurchasesStayHome ==
    /\ slot.account = slot.op.owner
    /\ \A t \in Tasks :
        Replaces(t) /\ task[t].pc \in {"signin", "settle", "check", "grant"} => slot = EmptySlot

\* While its account is the one signed in, an operation whose payment may still
\* complete leaves the slot only when the person leaves, or when a code is verified
\* on a browser whose last-synced identity (with none, whose record) is of another
\* account.  That last purge takes the operation of the very person who signs in
\* again before anything of hers was synced: this property allows it.
OperationsAreKept ==
    [][slot'.op # slot.op =>
         \/ slot.op = NoPurchase \/ Ended(slot.op) \/ stored.user # slot.account
         \/ \E t \in Tasks :
              task[t].pc = "forget" /\ (task[t].kind # "verify" \/ Replaces(t))]_vars

=============================================================================
