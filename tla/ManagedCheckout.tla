-------------------------- MODULE ManagedCheckout --------------------------
(***************************************************************************)
(* Web purchases.  A purchase operation is prepared for an account, its    *)
(* creation is claimed once, one Stripe Checkout Session is created and    *)
(* bound to it, and once the Session is paid its receipt is imported into  *)
(* RevenueCat, from where the account's right is observed.  Requests of    *)
(* the client, webhooks about Sessions and webhooks about refunds process  *)
(* the same operation at the same time; every call they make may fail or   *)
(* lose its answer, and accounts are deleted meanwhile.                    *)
(***************************************************************************)
EXTENDS Naturals, FiniteSets

CONSTANTS
    Holders,        \* accounts
    Operations,     \* operation ids (random uuids)
    Sessions,       \* ids of the Checkout Sessions Stripe makes
    Requests,       \* bound: invocations of the functions that run at once
    None,
    MaxPayments     \* bound: Sessions that customers pay

ASSUME SessionsAssumption == Sessions \subseteq Nat

ASSUME PaymentsAssumption == MaxPayments \in Nat

ASSUME NoneAssumption == None \notin Holders \union Operations \union Sessions \union Requests

VARIABLES
    users,          \* auth.users
    operation,      \* private.production_purchase_operations
    session,        \* Stripe: the Checkout Sessions, with their charges
    listing,        \* RevenueCat: purchases imported from a Session
    right,          \* private.access_rights, by the Session of the purchase
    observed,       \* private.access_observations: whose token is stored
    request,        \* the running invocations
    settled         \* history: refunds answered 200 once RevenueCat showed them

vars == <<users, operation, session, listing, right, observed, request, settled>>

external == <<session, listing>>

Terminal == {"refunded", "closed_unpaid"}

Granted == {"imported", "access_observed"}

Statuses ==
    {"prepared", "session_bound", "paid_verified", "import_pending",
     "recovery_required"} \union Granted \union Terminal

NoOperation ==
    [holder |-> None, status |-> "absent", started |-> FALSE, session |-> None, paid |-> FALSE]

Row ==
    [holder : Holders \union {None}, status : Statuses \union {"absent"}, started : BOOLEAN,
     session : Sessions \union {None}, paid : BOOLEAN]

\* receipt: the rows that purchase-operation-store.ts reads without refusing them
Receipt ==
    {row \in Row :
        /\ row.status # "absent"
        /\ ~row.started => row.status = "prepared" /\ row.session = None
        /\ row.status = "prepared" => row.session = None /\ ~row.paid
        /\ row.status \notin {"prepared", "recovery_required"} => row.session # None
        /\ row.status \in {"paid_verified", "import_pending", "refunded"} \union Granted => row.paid
        /\ row.status \in {"session_bound", "closed_unpaid"} => ~row.paid
        /\ row.paid => row.session # None}

SessionStates ==
    {"none", "open", "offered", "pending", "paid", "expired", "refunded"}

\* What a reader of Stripe makes of a Session.
Recoveries == {"unknown", "created", "payment_pending", "expired_unpaid", "paid"}

Idle ==
    [pc |-> "idle", kind |-> "none", op |-> None, holder |-> None, row |-> NoOperation,
     hint |-> None, found |-> "none", session |-> None, owned |-> {}, revoked |-> {}]

\* Every row the ledger can hold is one the functions can read again: no order of
\* transitions leaves a row that receipt() refuses, which would end recovery for
\* good.  The other variables stay well typed.
TypeOK ==
    /\ users \subseteq Holders
    /\ operation \in [Operations -> Receipt \union {NoOperation}]
    /\ session \in [Sessions -> [op : Operations \union {None}, state : SessionStates]]
    /\ listing \in [Sessions -> {"none", "owned", "refunded"}]
    /\ right \in [Sessions -> {"none", "active", "inactive"}]
    /\ observed \in [Holders -> Requests \union {None}]
    /\ \A i \in Requests :
        /\ request[i].kind \in {"none", "checkout", "session", "refund"}
        /\ request[i].row \in Row
        /\ request[i].found \in Recoveries \union {"none"}
        /\ request[i].owned \union request[i].revoked \subseteq Sessions
    /\ settled \subseteq Sessions

Init ==
    /\ users = Holders
    /\ operation = [o \in Operations |-> NoOperation]
    /\ session = [s \in Sessions |-> [op |-> None, state |-> "none"]]
    /\ listing = [s \in Sessions |-> "none"]
    /\ right = [s \in Sessions |-> "none"]
    /\ observed = [h \in Holders |-> None]
    /\ request = [i \in Requests |-> Idle]
    /\ settled = {}

-----------------------------------------------------------------------------
(* private.production_purchase_operations                                   *)

\* Rows are read and bound under the account, which must exist.
Scoped(row, h) == row.holder = h /\ row.status # "absent" /\ h \in users

\* production_prepare_checkout_operation: the open operation of the account
Open(o, h) == operation[o].holder = h /\ operation[o].status \notin Terminal \union {"absent"}

Prepared(h) == [NoOperation EXCEPT !.holder = h, !.status = "prepared"]

\* Seeded fault: a claim whose Session never arrived may be claimed again.
ClaimableAgain(row) == row.session = None /\ row.status = "prepared"

\* production_claim_checkout_creation: the claim is taken once and never released
Claimable(row) == ~row.started /\ row.session = None /\ row.status = "prepared"

\* production_bind_checkout_session
Bindable(row, h, s) ==
    /\ Scoped(row, h) /\ row.started
    /\ row.session \in {None, s}
    /\ row.status \in Terminal => row.session # None

Bound(row, s) ==
    [row EXCEPT !.session = s, !.status = IF @ = "prepared" THEN "session_bound" ELSE @]

\* production_record_checkout_status: the transitions it allows
Recordable(row, s, status) ==
    /\ row.status # "absent" /\ row.session = s
    /\ s = None => status = "recovery_required" /\ row.started
    /\ \/ row.status = status
       \/ /\ row.status \notin Terminal
          /\ \/ status \in {"refunded", "recovery_required"}
             \/ /\ status = "closed_unpaid" /\ ~row.paid
                /\ row.status \in {"session_bound", "recovery_required"}
             \/ <<row.status, status>> \in
                  {<<"session_bound", "paid_verified">>, <<"recovery_required", "paid_verified">>,
                   <<"paid_verified", "import_pending">>, <<"recovery_required", "import_pending">>,
                   <<"import_pending", "imported">>, <<"recovery_required", "imported">>,
                   <<"imported", "access_observed">>}

\* Seeded fault: a refund straight from an unpaid row does not mark it paid.
RecordedUnpaid(row, status) ==
    [row EXCEPT !.status = status,
                !.paid = @ \/ (row.status # status
                               /\ status \in {"paid_verified", "import_pending"} \union Granted)]

Recorded(row, status) ==
    [row EXCEPT !.status = status,
                !.paid = @ \/ (row.status # status
                               /\ status \in {"paid_verified", "import_pending", "refunded"}
                                             \union Granted)]

Record(o, status) == operation' = [operation EXCEPT ![o] = Recorded(@, status)]

-----------------------------------------------------------------------------
(* Stripe, RevenueCat and the customer                                      *)

\* Seeded fault: a completed Session counts as paid before its money arrives.
ReadingComplete(s) ==
    CASE session[s].state \in {"open", "offered"} -> "created"
      [] session[s].state = "expired" -> "expired_unpaid"
      [] OTHER -> "paid"

\* Stripe reports a Session as paid also after its charge was refunded.
Reading(s) ==
    CASE session[s].state \in {"open", "offered"} -> "created"
      [] session[s].state = "pending" -> "payment_pending"
      [] session[s].state = "expired" -> "expired_unpaid"
      [] OTHER -> "paid"

SessionsOf(o) == {s \in Sessions : session[s].op = o}

Unused == {s \in Sessions : session[s].state = "none"}

Becomes(s, from, to) ==
    /\ session[s].state \in from
    /\ session' = [session EXCEPT ![s].state = to]
    /\ UNCHANGED <<users, operation, listing, right, observed, request, settled>>

Chosen == {s \in Sessions : session[s].state \in {"pending", "paid", "refunded"}}

MayPay(s) == Cardinality(Chosen \union {s}) <= MaxPayments

\* The customer pays where he was sent to, at once or by a delayed method.
Pay(s) == MayPay(s) /\ Becomes(s, {"offered", "pending"}, "paid")
PayLater(s) == MayPay(s) /\ Becomes(s, {"offered"}, "pending")
Expire(s) == Becomes(s, {"open", "offered"}, "expired")
RefundCharge(s) == Becomes(s, {"paid"}, "refunded")

\* RevenueCat learns of a refund after the import, in its own time.
ListRefund(s) ==
    /\ listing[s] = "owned" /\ session[s].state = "refunded"
    /\ listing' = [listing EXCEPT ![s] = "refunded"]
    /\ UNCHANGED <<users, operation, session, right, observed, request, settled>>

-----------------------------------------------------------------------------
(* handleManagedCheckout                                                    *)

\* A request goes on with the row it read or prepared.  One that is refused, or
\* finds nothing left to do, ends here and changes nothing.
Begun(i, kind, o, row, hint) ==
    /\ request[i].pc = "idle"
    /\ request' = [request EXCEPT ![i] = [Idle EXCEPT
            !.pc = IF row.started THEN "recover" ELSE "claim",
            !.kind = kind, !.op = o, !.holder = row.holder, !.row = row, !.hint = hint]]

\* Names an operation, or prepares one and is given the open one.
StartCheckout(i, o) ==
    /\ operation[o].holder \in users /\ operation[o].status \notin Terminal
    /\ Begun(i, "checkout", o, operation[o], None)
    /\ UNCHANGED <<users, operation, external, right, observed, settled>>

\* production_prepare_checkout_operation inserts
Prepare(i, o, h) ==
    /\ h \in users /\ operation[o] = NoOperation
    /\ \A p \in Operations : ~Open(p, h)
    /\ operation' = [operation EXCEPT ![o] = Prepared(h)]
    /\ Begun(i, "checkout", o, Prepared(h), None)
    /\ UNCHANGED <<users, external, right, observed, settled>>

\* claimCreation: the winner creates the Session, everyone else recovers it.
Claim(i) ==
    LET o == request[i].op IN
    /\ request[i].pc = "claim" /\ Scoped(operation[o], request[i].holder)
    /\ IF Claimable(operation[o])
         THEN /\ operation' = [operation EXCEPT ![o].started = TRUE]
              /\ request' = [request EXCEPT ![i].pc = "create", ![i].row = operation'[o]]
         ELSE /\ request' = [request EXCEPT ![i].pc = "recover", ![i].row = operation[o]]
              /\ UNCHANGED operation
    /\ UNCHANGED <<users, external, right, observed, settled>>

\* The recovery of a request; a Session it names is bound first if none is.
Recovered(i, found, s) ==
    request' = [request EXCEPT
        ![i].pc = IF s # None /\ request[i].row.session = None THEN "bind" ELSE "decide",
        ![i].found = found, ![i].session = s, ![i].hint = None]

\* createCheckout posts once.  Stripe makes the Session or does not, and its
\* answer arrives, arrives without the readback, or is lost.
Create(i) ==
    LET r == request[i] IN
    /\ r.pc = "create"
    /\ \/ /\ \E s \in Unused :
              /\ \A t \in Unused : s <= t
              /\ session' = [session EXCEPT ![s] = [op |-> r.op, state |-> "open"]]
              /\ \/ Recovered(i, "created", s)
                 \/ Recovered(i, "unknown", s)
                 \/ Recovered(i, "unknown", None)
       \/ Recovered(i, "unknown", None) /\ UNCHANGED session
    /\ UNCHANGED <<users, operation, listing, right, observed, settled>>

\* recoverCheckout reads the bound Session; recoverUnknownCheckout looks for the
\* one Session made for the operation.  Either may learn nothing.
Recover(i) ==
    LET r == request[i] IN
    /\ r.pc = "recover"
    /\ \/ \E s \in SessionsOf(r.op) :
            /\ r.row.session \in {None, s}
            /\ r.row.session = None => SessionsOf(r.op) = {s}
            /\ r.hint \in {None, s}
            /\ \E found \in {Reading(s), "unknown"} : Recovered(i, found, s)
       \/ /\ r.row.session = None /\ r.hint = None
          /\ Recovered(i, "unknown", None)
    /\ UNCHANGED <<users, operation, external, right, observed, settled>>

-----------------------------------------------------------------------------
(* processManagedCheckout                                                   *)

Bind(i) ==
    LET r == request[i] IN
    /\ r.pc = "bind" /\ Bindable(operation[r.op], r.holder, r.session)
    /\ operation' = [operation EXCEPT ![r.op] = Bound(@, r.session)]
    /\ request' = [request EXCEPT ![i].pc = "decide", ![i].row = operation'[r.op]]
    /\ UNCHANGED <<users, external, right, observed, settled>>

Deciding(i, found) ==
    /\ request[i].pc = "decide" /\ request[i].found = found
    /\ request[i].row.status \notin Terminal

RecordOf(i, status) ==
    /\ Recordable(operation[request[i].op], request[i].row.session, status)
    /\ Record(request[i].op, status)

\* An unknown outcome keeps the operation, its claim and its Session.
DecideUnknown(i) ==
    /\ Deciding(i, "unknown")
    /\ RecordOf(i, "recovery_required")
    /\ request' = [request EXCEPT ![i] = Idle]
    /\ UNCHANGED <<users, external, right, observed, settled>>

\* The claim is read once more as the last fence before the customer gets the URL.
Offer(i) ==
    LET r == request[i]
        stored == operation[r.op]
    IN
    /\ Deciding(i, "created") /\ ~r.row.paid /\ r.kind = "checkout"
    /\ Scoped(stored, r.holder) /\ stored.session = r.session
    /\ ~stored.paid /\ stored.status \notin Terminal
    /\ session' = [session EXCEPT ![r.session].state = IF @ = "open" THEN "offered" ELSE @]
    /\ request' = [request EXCEPT ![i] = Idle]
    /\ UNCHANGED <<users, operation, listing, right, observed, settled>>

DecideExpired(i) ==
    /\ Deciding(i, "expired_unpaid") /\ ~request[i].row.paid
    /\ RecordOf(i, "closed_unpaid")
    /\ request' = [request EXCEPT ![i] = Idle]
    /\ UNCHANGED <<users, external, right, observed, settled>>

\* A paid Session: paid_verified, then import_pending, from where the row is.
DecidePaid(i) ==
    LET r == request[i] IN
    /\ Deciding(i, "paid")
    /\ \/ /\ r.row.status \in {"session_bound", "recovery_required"}
          /\ RecordOf(i, "paid_verified")
       \/ r.row.status = "paid_verified" /\ RecordOf(i, "import_pending")
    /\ request' = [request EXCEPT ![i].row = operation'[r.op]]
    /\ UNCHANGED <<users, external, right, observed, settled>>

\* refresh: the row as it is now, with the binding the request knows
Refreshed(i, row) ==
    /\ row = operation[request[i].op]
    /\ Scoped(row, request[i].holder) /\ row.session = request[i].row.session

\* A refund may have committed while the readback was pending.
Refresh(i) ==
    /\ Deciding(i, "paid")
    /\ request[i].row.status \in {"import_pending"} \union Granted
    /\ \E row \in Receipt :
        /\ IF request[i].row.status \in Granted
             THEN row = request[i].row ELSE Refreshed(i, row)
        /\ request' = [request EXCEPT ![i] =
             IF row.status \in Granted THEN [@ EXCEPT !.pc = "begin", !.row = row]
             ELSE IF row.status = "import_pending" THEN [@ EXCEPT !.pc = "charge", !.row = row]
             ELSE Idle]
    /\ UNCHANGED <<users, operation, external, right, observed, settled>>

\* trackCompletedPurchase reads the charge, which must not be refunded ...
ReadCharge(i) ==
    LET paid == session[request[i].row.session].state = "paid" IN
    /\ request[i].pc = "charge"
    /\ request' = [request EXCEPT ![i].pc = IF paid THEN "import" ELSE "tracked",
                                  ![i].found = IF paid THEN @ ELSE "unknown"]
    /\ UNCHANGED <<users, operation, external, right, observed, settled>>

\* ... and posts the receipt: it arrives or not, and its answer arrives or not.
Import(i) ==
    LET s == request[i].row.session IN
    /\ request[i].pc = "import"
    /\ \/ /\ listing' = [listing EXCEPT ![s] = IF @ = "none" THEN "owned" ELSE @]
          /\ \E heard \in {"paid", "unknown"} :
                request' = [request EXCEPT ![i].pc = "tracked", ![i].found = heard]
       \/ /\ request' = [request EXCEPT ![i].pc = "tracked", ![i].found = "unknown"]
          /\ UNCHANGED listing
    /\ UNCHANGED <<users, operation, session, right, observed, settled>>

Tracked(i) ==
    /\ request[i].pc = "tracked" /\ request[i].found = "paid"
    /\ \E row \in Receipt :
        /\ Refreshed(i, row)
        /\ request' = [request EXCEPT ![i] =
             IF row.status \in Terminal THEN Idle
             ELSE [@ EXCEPT !.row = row,
                            !.pc = IF row.status \in Granted THEN "begin" ELSE "record"]]
    /\ UNCHANGED <<users, operation, external, right, observed, settled>>

NotTracked(i) ==
    /\ request[i].pc = "tracked" /\ request[i].found = "unknown"
    /\ Scoped(operation[request[i].op], request[i].holder)
    /\ operation[request[i].op].status \notin Terminal
    /\ RecordOf(i, "recovery_required")
    /\ request' = [request EXCEPT ![i] = Idle]
    /\ UNCHANGED <<users, external, right, observed, settled>>

RecordImported(i) ==
    /\ request[i].pc = "record"
    /\ RecordOf(i, "imported")
    /\ request' = [request EXCEPT ![i].pc = "begin", ![i].row = operation'[request[i].op]]
    /\ UNCHANGED <<users, external, right, observed, settled>>

\* A call threw or lost its answer: the attempt is kept for recovery, even when
\* the row had been imported.
Catch(i) ==
    LET o == request[i].op IN
    /\ request[i].pc \in {"bind", "decide", "tracked", "record", "begin", "observe", "done"}
    /\ request[i].kind \in {"checkout", "session"}
    /\ \E row \in Receipt : Refreshed(i, row) /\ row.started /\ row.status \notin Terminal
    /\ Record(o, "recovery_required")
    /\ request' = [request EXCEPT ![i] = Idle]
    /\ UNCHANGED <<users, external, right, observed, settled>>

-----------------------------------------------------------------------------
(* reconcileScopedAccess and the rights it observes                         *)

PurchasesOf(h) ==
    {s \in Sessions : listing[s] # "none" /\ operation[session[s].op].holder = h}

\* begin_access_observation: the newest lookup of the account is the one that counts
BeginAccess(i) ==
    /\ request[i].pc = "begin" /\ request[i].holder \in users
    /\ observed' = [observed EXCEPT ![request[i].holder] = i]
    /\ request' = [request EXCEPT ![i].pc = "lookup", ![i].found = "none",
                        ![i].row = [NoOperation EXCEPT !.session = request[i].row.session]]
    /\ UNCHANGED <<users, operation, external, right, settled>>

\* getRights, with a complete listing (partial ones are those of AccessRights)
ReadListing(i) ==
    LET purchases == PurchasesOf(request[i].holder) IN
    /\ request[i].pc = "lookup"
    /\ request' = [request EXCEPT
            ![i].pc = IF request[i].kind = "checkout" THEN "gate" ELSE "commit",
            ![i].owned = {s \in purchases : listing[s] = "owned"},
            ![i].revoked = {s \in purchases : listing[s] = "refunded"}]
    /\ UNCHANGED <<users, operation, external, right, observed, settled>>

\* canGrant of a checkout request reads its operation again: only an imported
\* one lets a positive observation through.
Gate(i) ==
    LET granting == \E row \in Receipt : Refreshed(i, row) /\ row.status \in Granted /\ row.paid
    IN
    /\ request[i].pc = "gate"
    /\ request' = [request EXCEPT ![i].pc = "commit", ![i].owned = IF granting THEN @ ELSE {}]
    /\ UNCHANGED <<users, operation, external, right, observed, settled>>

\* A webhook commits refunds only; a client's request commits purchases too.
Grants(i) == IF request[i].kind = "checkout" THEN request[i].owned ELSE {}

\* Seeded fault: a lookup is committed although a newer one has begun.
Outlived(i) == request[i].holder \in users

Current(i) == observed[request[i].holder] = i

Observed(i) ==
    [s \in Sessions |->
        CASE s \in Grants(i) -> "active"
          [] s \in request[i].revoked /\ right[s] = "active" -> "inactive"
          [] OTHER -> right[s]]

\* commit_access_observation, and for a refund the answer to Stripe: 200 unless
\* a right that could be of this purchase may still be active.
CommitAccess(i) ==
    LET r == request[i]
        stillActive == {s \in PurchasesOf(r.holder) : right'[s] = "active"}
        answered == r.kind = "refund" /\ r.owned = {} /\ (r.revoked # {} \/ stillActive = {})
    IN
    /\ r.pc = "commit" /\ r.holder \in users /\ Current(i)
    /\ right' = Observed(i)
    /\ settled' = IF answered /\ r.hint \in r.revoked THEN settled \union {r.hint} ELSE settled
    /\ request' = [request EXCEPT ![i] =
         IF r.kind = "checkout" /\ r.owned # {}
           THEN [@ EXCEPT !.pc = "observe", !.owned = {}, !.revoked = {}] ELSE Idle]
    \* Nobody asks again with the token of a lookup that was committed.
    /\ observed' = [observed EXCEPT ![r.holder] = None]
    /\ UNCHANGED <<users, operation, external>>

\* An account access seen after the import is noted on the operation.
Observe(i) ==
    LET o == request[i].op IN
    /\ request[i].pc = "observe"
    /\ \E row \in Receipt : Refreshed(i, row) /\ row.status \in Granted
    /\ Record(o, "access_observed")
    /\ request' = [request EXCEPT ![i].pc = "done"]
    /\ UNCHANGED <<users, external, right, observed, settled>>

\* A lookup of the account outside the checkout, on sign-in or for RevenueCat's
\* webhook, taken as one step (AccessRights has its interleavings).
Reconcile(h) ==
    /\ h \in users
    /\ right' = [s \in Sessions |->
            IF s \in PurchasesOf(h)
              THEN CASE listing[s] = "owned" -> "active"
                     [] right[s] = "active" -> "inactive"
                     [] OTHER -> right[s]
              ELSE right[s]]
    /\ observed' = [observed EXCEPT ![h] = None]
    /\ UNCHANGED <<users, operation, external, request, settled>>

-----------------------------------------------------------------------------
(* handleManagedStripeWebhook                                               *)

\* The row an event about a Session may act on
Matching(row, s) == row.started /\ row.session \in {None, s}

\* An event about a Session arrives at any time after the change it announces,
\* any number of times.
SessionEvent(i, s) ==
    LET row == operation[session[s].op] IN
    /\ session[s].state \in {"pending", "paid", "expired", "refunded"}
    /\ row.holder \in users /\ Matching(row, s) /\ row.status \notin Terminal
    /\ Begun(i, "session", session[s].op, row, s)
    /\ UNCHANGED <<users, operation, external, right, observed, settled>>

\* charge.refunded: the terminal state is stored before anything else.
RefundEvent(i, s) ==
    LET row == operation[session[s].op] IN
    /\ request[i].pc = "idle" /\ session[s].state = "refunded"
    /\ row.holder \in users /\ Matching(row, s) /\ row.status # "closed_unpaid"
    /\ request' = [request EXCEPT ![i] = [Idle EXCEPT !.kind = "refund",
            !.op = session[s].op, !.holder = row.holder, !.row = row, !.hint = s,
            !.pc = IF row.status = "refunded" THEN "begin" ELSE "refund"]]
    /\ UNCHANGED <<users, operation, external, right, observed, settled>>

\* A refunded Session was offered, so it is bound and need not be bound here.
RecordRefund(i) ==
    /\ request[i].pc = "refund"
    /\ Recordable(operation[request[i].op], request[i].hint, "refunded")
    /\ Record(request[i].op, "refunded")
    /\ request' = [request EXCEPT ![i].pc = "begin", ![i].row = operation'[request[i].op]]
    /\ UNCHANGED <<users, external, right, observed, settled>>

\* deletedAccountRefund: no account, or its row could not be read
RefundDetached(s) ==
    LET o == session[s].op IN
    /\ session[s].state = "refunded" /\ Recordable(operation[o], s, "refunded")
    /\ Record(o, "refunded")
    /\ UNCHANGED <<users, external, right, observed, request, settled>>

-----------------------------------------------------------------------------

\* Seeded fault: the operations of an account are deleted with it.
Forgotten(h) ==
    [o \in Operations |-> IF operation[o].holder = h THEN NoOperation ELSE operation[o]]

\* Account deletion keeps the payment record and clears its account.
Detached(h) ==
    [o \in Operations |->
        IF operation[o].holder = h THEN [operation[o] EXCEPT !.holder = None] ELSE operation[o]]

DeleteAccount(h) ==
    /\ h \in users
    /\ users' = users \ {h}
    /\ operation' = Detached(h)
    /\ right' = [s \in Sessions |->
            IF right[s] = "active" /\ operation[session[s].op].holder = h
              THEN "inactive" ELSE right[s]]
    /\ observed' = [observed EXCEPT ![h] = None]
    /\ UNCHANGED <<external, request, settled>>

\* A request is refused, crashes, times out, or has nothing left to do.
Abandon(i) ==
    /\ request[i].pc # "idle"
    /\ request' = [request EXCEPT ![i] = Idle]
    /\ observed' = [h \in Holders |-> IF observed[h] = i THEN None ELSE observed[h]]
    /\ UNCHANGED <<users, operation, external, right, settled>>

Steps(i) ==
    \/ Claim(i) \/ Create(i) \/ Recover(i) \/ Bind(i)
    \/ DecideUnknown(i) \/ Offer(i) \/ DecideExpired(i) \/ DecidePaid(i)
    \/ Refresh(i) \/ ReadCharge(i) \/ Import(i) \/ Tracked(i) \/ NotTracked(i)
    \/ RecordImported(i) \/ Catch(i)
    \/ BeginAccess(i) \/ ReadListing(i) \/ Gate(i) \/ CommitAccess(i) \/ Observe(i)
    \/ RecordRefund(i) \/ Abandon(i)

Next ==
    \/ \E i \in Requests :
        \/ Steps(i)
        \/ \E o \in Operations : StartCheckout(i, o)
        \/ \E o \in Operations, h \in Holders : Prepare(i, o, h)
        \/ \E s \in Sessions : SessionEvent(i, s) \/ RefundEvent(i, s)
    \/ \E s \in Sessions :
        \/ Pay(s) \/ PayLater(s) \/ Expire(s) \/ RefundCharge(s) \/ ListRefund(s)
        \/ RefundDetached(s)
    \/ \E h \in Holders : Reconcile(h) \/ DeleteAccount(h)

Spec == Init /\ [][Next]_vars

-----------------------------------------------------------------------------
(* Properties                                                               *)

\* A Session at which the account can pay, or has paid and not been refunded
Payable(s) == session[s].state \in {"open", "offered", "pending", "paid"}

\* However requests, retries and lost answers cross, an account never has two
\* Sessions that take its money: not of one operation claimed twice, and not of
\* a new operation opened while an older one can still be paid.
OnePayableSession ==
    \A s, t \in Sessions :
        /\ Payable(s) /\ Payable(t)
        /\ operation[session[s].op].holder = operation[session[t].op].holder
        /\ operation[session[s].op].holder # None
        => s = t

\* Every Session a customer was sent to is bound to its operation, so that a
\* payment, or its refund after the account is gone, finds the record.
PaymentsAreTraceable ==
    \A s \in Sessions :
        session[s].state \in {"offered", "pending", "paid", "refunded"}
            => operation[session[s].op].session = s

\* The ledger never contradicts Stripe: what it calls paid was paid, what it
\* closed as unpaid expired unpaid, what it calls refunded was refunded, and a
\* receipt reached RevenueCat only for a Session that was paid.
LedgerFollowsStripe ==
    /\ \A o \in Operations :
        LET s == operation[o].session IN
        /\ operation[o].paid => session[s].state \in {"paid", "refunded"}
        /\ operation[o].status = "closed_unpaid" => session[s].state = "expired"
        /\ operation[o].status = "refunded" => session[s].state = "refunded"
    /\ \A s \in Sessions : listing[s] # "none" => session[s].state \in {"paid", "refunded"}

\* Once a refund that RevenueCat shows was answered 200, the right of the
\* purchase is not active again, whatever older lookup is still in flight.
AnsweredRefundIsFinal == \A s \in settled : right[s] # "active"
=============================================================================
