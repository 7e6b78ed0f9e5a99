-------------------------- MODULE RevenueCatWebhook --------------------------
(***************************************************************************)
(* Notifications of the purchase provider and the projection they keep.    *)
(* A notification is claimed before its side effects, every user it names  *)
(* is looked up at the provider and written to public.entitlements, and    *)
(* the claim is completed, or released so that the sender's retry can      *)
(* claim it again.  Sign-ins reconcile the same rows.  Workers may crash,  *)
(* outlive their claim, and lose the answer of any call they make.         *)
(***************************************************************************)
EXTENDS Naturals, FiniteSets

CONSTANTS
    Users,          \* accounts (uuids)
    Events,         \* notifications, each with its own event id
    Affected,       \* affectedUuids: the users an event names
    Workers,        \* invocations of the function that may run at once
    Tokens,         \* claim tokens; one that nobody holds may serve again
    None,           \* no event, no user, no lookup
    SignIns,        \* bound: users who reconcile on sign-in
    Leavers,        \* bound: users who delete their account
    MaxFaults       \* bound: crashes, failed calls and lost answers

ASSUME AffectedAssumption == Affected \in [Events -> SUBSET Users]

ASSUME TokensAssumption == Tokens \subseteq Nat \ {0}

ASSUME NoneAssumption == None \notin Users \union Events \union Nat

ASSUME FaultsAssumption == MaxFaults \in Nat

VARIABLES
    canon,      \* the provider: version of each user's canonical subscriber
    cause,      \* the provider: versions an event announces, 0 before it
    acked,      \* the provider: events answered 200, not sent again
    exists,     \* auth.users
    ent,        \* public.entitlements: the version each row was derived from
    written,    \* history: the newest version ever written for a user
    claims,     \* public.revenuecat_events
    worker,     \* the running invocations of the webhook
    signIn,     \* the version a reconcile of the user has read but not written
    faults

vars == <<canon, cause, acked, exists, ent, written, claims, worker, signIn, faults>>

provider == <<canon, cause>>

IdleWorker ==
    [pc |-> "idle", event |-> None, token |-> 0, left |-> {}, user |-> None,
     seen |-> 0, late |-> FALSE]

NoClaim == [status |-> "none", token |-> 0, old |-> FALSE]

Claim == [status : {"none", "processing", "completed"}, token : Nat, old : BOOLEAN]

Worker ==
    [pc : {"idle", "lookup", "write", "refresh", "release"},
     event : Events \union {None}, token : Nat, left : SUBSET Users,
     user : Users \union {None}, seen : Nat, late : BOOLEAN]

\* The variables stay well typed.
TypeOK ==
    /\ canon \in [Users -> Nat]
    /\ cause \in [Events -> [Users -> Nat]]
    /\ acked \subseteq Events
    /\ exists \subseteq Users
    /\ ent \in [Users -> Nat \union {None}]
    /\ written \in [Users -> Nat]
    /\ claims \in [Events -> Claim]
    /\ worker \in [Workers -> Worker]
    /\ signIn \in [Users -> Nat \union {None}]
    /\ faults \in 0..MaxFaults

Init ==
    /\ canon = [u \in Users |-> 0]
    /\ cause = [e \in Events |-> [u \in Users |-> 0]]
    /\ acked = {}
    /\ exists = Users
    /\ ent = [u \in Users |-> None]
    /\ written = [u \in Users |-> 0]
    /\ claims = [e \in Events |-> NoClaim]
    /\ worker = [w \in Workers |-> IdleWorker]
    /\ signIn = [u \in Users |-> None]
    /\ faults = 0

Emitted == {e \in Events : \E u \in Affected[e] : cause[e][u] # 0}

\* An odd version grants: bought, refunded, bought again, ...
stillProActive(version) == version % 2 = 1

Fault == faults < MaxFaults /\ faults' = faults + 1

\* A call that answers costs nothing; one that does not is a fault.
Answered(ok) == IF ok THEN UNCHANGED faults ELSE Fault

-----------------------------------------------------------------------------
(* The provider changes the subscribers of an event and announces it.       *)

Emit(e) ==
    /\ e \notin Emitted
    /\ canon' = [u \in Users |-> IF u \in Affected[e] THEN canon[u] + 1 ELSE canon[u]]
    /\ cause' = [cause EXCEPT ![e] = [u \in Users |-> IF u \in Affected[e] THEN canon[u] + 1 ELSE 0]]
    /\ UNCHANGED <<acked, exists, ent, written, claims, worker, signIn, faults>>

-----------------------------------------------------------------------------
(* public.revenuecat_events                                                 *)

InUse == {claims[e].token : e \in Events} \union {worker[w].token : w \in Workers}

\* gen_random_uuid: the least token nobody holds
FreshToken(t) == t \in Tokens \ InUse /\ \A s \in Tokens \ InUse : t <= s

\* claim_revenuecat_event inserts the row, or takes over one claimed more than
\* fifteen minutes ago.
Claimable(e) ==
    \/ claims[e].status = "none"
    \/ claims[e].status = "processing" /\ claims[e].old

\* Seeded fault: the event is recorded before its side effects, once and for all.
ClaimedForGood(e, t) ==
    claims' = [claims EXCEPT ![e] = [status |-> "completed", token |-> t, old |-> FALSE]]

Claimed(e, t) ==
    claims' = [claims EXCEPT ![e] = [status |-> "processing", token |-> t, old |-> FALSE]]

\* complete_revenuecat_event and release_revenuecat_event act on the row only
\* for the token it holds now.
OwnsRow(w) ==
    /\ claims[worker[w].event].status = "processing"
    /\ claims[worker[w].event].token = worker[w].token

ClaimCompleted(w) ==
    claims' = IF OwnsRow(w)
                THEN [claims EXCEPT ![worker[w].event].status = "completed"]
                ELSE claims

\* Seeded fault: a worker releases the event it works for, whoever holds it now.
ClaimReleasedByName(w) ==
    claims' = [claims EXCEPT ![worker[w].event] = NoClaim]

\* Seeded fault: a release marks the row instead of deleting it.
ClaimMarked(w) ==
    claims' = IF OwnsRow(w)
                THEN [claims EXCEPT ![worker[w].event].status = "released"]
                ELSE claims

ClaimReleased(w) ==
    claims' = IF OwnsRow(w)
                THEN [claims EXCEPT ![worker[w].event] = NoClaim]
                ELSE claims

\* Fifteen minutes pass for a claim, whether or not its worker still runs.
Age(e) ==
    /\ claims[e].status = "processing" /\ ~claims[e].old
    /\ claims' = [claims EXCEPT ![e].old = TRUE]
    /\ worker' = [w \in Workers |->
                    IF worker[w].event = e /\ worker[w].token = claims[e].token
                      THEN [worker[w] EXCEPT !.late = TRUE] ELSE worker[w]]
    /\ UNCHANGED <<provider, acked, exists, ent, written, signIn, faults>>

-----------------------------------------------------------------------------
(* handleWebhook                                                            *)

\* claimEvent answers "claimed" and the worker starts, or the answer is lost
\* and the invocation fails without a token to release.
Start(w, e, ok) ==
    /\ worker[w].pc = "idle" /\ e \in Emitted
    /\ Claimable(e)
    /\ Answered(ok)
    /\ \E t \in Tokens :
        /\ FreshToken(t)
        /\ Claimed(e, t)
        /\ worker' = IF ok
             THEN [worker EXCEPT ![w] = [IdleWorker EXCEPT
                     !.pc = "lookup", !.event = e, !.token = t, !.left = Affected[e]]]
             ELSE worker
    /\ UNCHANGED <<provider, acked, exists, ent, written, signIn>>

\* claimEvent answers "duplicate": 200 without a side effect.  (An event in
\* flight is answered 503 and changes nothing.)
AnswerDuplicate(e) ==
    /\ e \in Emitted \ acked
    /\ claims[e].status = "completed"
    /\ acked' = acked \union {e}
    /\ UNCHANGED <<provider, exists, ent, written, claims, worker, signIn, faults>>

\* getSubscriber of the next affected user
Lookup(w, u) ==
    /\ worker[w].pc = "lookup" /\ u \in worker[w].left
    /\ worker' = [worker EXCEPT ![w].pc = "write", ![w].user = u, ![w].seen = canon[u]]
    /\ UNCHANGED <<provider, acked, exists, ent, written, claims, signIn, faults>>

\* set_entitlement upserts whatever it is given; a row for a deleted user
\* violates its foreign key.
SetEntitlement(u, version) ==
    IF u \in exists
      THEN /\ ent' = [ent EXCEPT ![u] = version]
           /\ written' = [written EXCEPT ![u] = IF version > @ THEN version ELSE @]
      ELSE UNCHANGED <<ent, written>>

\* Seeded fault: a user who left makes every attempt at the event fail.
WriteUnskipped(w, ok) ==
    /\ worker[w].pc = "write"
    /\ Answered(ok)
    /\ SetEntitlement(worker[w].user, worker[w].seen)
    /\ worker' = [worker EXCEPT ![w].pc =
                    IF ok /\ worker[w].user \in exists THEN "refresh" ELSE "release"]
    /\ UNCHANGED <<provider, acked, exists, claims, signIn>>

\* A MissingUserError skips the user; any other failure releases the claim.
Write(w, ok) ==
    LET u == worker[w].user IN
    /\ worker[w].pc = "write"
    /\ Answered(ok)
    /\ SetEntitlement(u, worker[w].seen)
    /\ worker' =
         IF ~ok THEN [worker EXCEPT ![w].pc = "release"]
         ELSE IF u \in exists THEN [worker EXCEPT ![w].pc = "refresh"]
         ELSE [worker EXCEPT ![w].pc = "lookup", ![w].left = @ \ {u}]
    /\ UNCHANGED <<provider, acked, exists, claims, signIn>>

\* refreshProductionWebhookAccess (its own state is that of AccessRights).  Its
\* answer is ready only when the provider knew the customer and listed every
\* purchase, Apple was ready and no newer observation took over; the observation of
\* a user deleted since cannot begin.  Anything else ends in a 500, and is no fault.
Refresh(w, ready) ==
    LET u == worker[w].user IN
    /\ worker[w].pc = "refresh"
    /\ worker' = IF ready /\ u \in exists
                   THEN [worker EXCEPT ![w].pc = "lookup", ![w].left = @ \ {u}]
                   ELSE [worker EXCEPT ![w].pc = "release"]
    /\ UNCHANGED <<provider, acked, exists, ent, written, claims, signIn, faults>>

\* completeEvent, then 200, which the sender may not receive
Complete(w, ok) ==
    /\ worker[w].pc = "lookup" /\ worker[w].left = {}
    /\ ClaimCompleted(w)
    /\ Answered(ok)
    /\ acked' = IF ok THEN acked \union {worker[w].event} ELSE acked
    /\ worker' = [worker EXCEPT ![w] = IdleWorker]
    /\ UNCHANGED <<provider, exists, ent, written, signIn>>

\* completeEvent committed but its answer was lost: the handler goes on to release
CompleteUnanswered(w) ==
    /\ worker[w].pc = "lookup" /\ worker[w].left = {}
    /\ ClaimCompleted(w)
    /\ Fault
    /\ worker' = [worker EXCEPT ![w].pc = "release"]
    /\ UNCHANGED <<provider, acked, exists, ent, written, signIn>>

\* Seeded fault: a user whose lookup failed is passed over.
FailQuietly(w) ==
    /\ worker[w].pc = "write"
    /\ Fault
    /\ worker' = [worker EXCEPT ![w].pc = "lookup", ![w].left = @ \ {worker[w].user}]
    /\ UNCHANGED <<provider, acked, exists, ent, written, claims, signIn>>

\* A lookup, write, refresh or completion throws before it has any effect.
Fail(w) ==
    /\ worker[w].pc \in {"lookup", "write", "refresh"}
    /\ Fault
    /\ worker' = [worker EXCEPT ![w].pc = "release"]
    /\ UNCHANGED <<provider, acked, exists, ent, written, claims, signIn>>

\* releaseEvent, best effort, then 500
Release(w, ok) ==
    /\ worker[w].pc = "release"
    /\ Answered(ok)
    /\ IF ok THEN ClaimReleased(w) ELSE UNCHANGED claims
    /\ worker' = [worker EXCEPT ![w] = IdleWorker]
    /\ UNCHANGED <<provider, acked, exists, ent, written, signIn>>

\* The isolate dies; the row keeps its claim.
Crash(w) ==
    /\ worker[w].pc # "idle"
    /\ Fault
    /\ worker' = [worker EXCEPT ![w] = IdleWorker]
    /\ UNCHANGED <<provider, acked, exists, ent, written, claims, signIn>>

-----------------------------------------------------------------------------
(* The other writers of a row: handleReconcile and account deletion          *)

ReconcileLookup(u) ==
    /\ u \in SignIns \cap exists /\ signIn[u] = None
    /\ signIn' = [signIn EXCEPT ![u] = canon[u]]
    /\ UNCHANGED <<provider, acked, exists, ent, written, claims, worker, faults>>

ReconcileWrite(u) ==
    /\ signIn[u] # None
    /\ SetEntitlement(u, signIn[u])
    /\ signIn' = [signIn EXCEPT ![u] = None]
    /\ UNCHANGED <<provider, acked, exists, claims, worker, faults>>

\* auth.users row deleted; the entitlement row goes by cascade
DeleteUser(u) ==
    /\ u \in Leavers \cap exists
    /\ exists' = exists \ {u}
    /\ ent' = [ent EXCEPT ![u] = None]
    /\ UNCHANGED <<provider, acked, written, claims, worker, signIn, faults>>

Steps(w) ==
    \/ \E u \in Users : Lookup(w, u)
    \/ Write(w, TRUE) \/ (\E ready \in BOOLEAN : Refresh(w, ready))
    \/ Complete(w, TRUE) \/ Release(w, TRUE)

Next ==
    \/ \E e \in Events :
        \/ Emit(e) \/ Age(e) \/ AnswerDuplicate(e)
        \/ \E w \in Workers, ok \in BOOLEAN : Start(w, e, ok)
    \/ \E w \in Workers :
        \/ Steps(w) \/ Fail(w) \/ Crash(w) \/ CompleteUnanswered(w)
        \/ Write(w, FALSE) \/ Complete(w, FALSE) \/ Release(w, FALSE)
    \/ \E u \in Users : ReconcileLookup(u) \/ ReconcileWrite(u) \/ DeleteUser(u)

Spec == Init /\ [][Next]_vars

\* The platform runs what was invoked, time passes, and the provider sends an
\* event again until it is answered 200.
Fairness ==
    /\ \A w \in Workers : WF_vars(Steps(w))
    /\ \A e \in Events :
        /\ WF_vars(Age(e))
        /\ WF_vars(AnswerDuplicate(e))
        /\ WF_vars(\E w \in Workers : Start(w, e, TRUE))

\* A delivery gets past the refresh that has these users left.
GetsPast(e, left) ==
    \E w \in Workers : worker[w].event = e /\ worker[w].left = left /\ Refresh(w, TRUE)

\* An assumption about the provider and Apple, which nothing in the code enforces:
\* a refresh that deliveries of an event reach again and again is ready again and
\* again.  Without it the event is retried for ever, and rightly so.
SourcesSettle ==
    \A e \in Events : \A left \in SUBSET Affected[e] \ {{}} : SF_vars(GetsPast(e, left))

FairSpec == Spec /\ Fairness /\ SourcesSettle

-----------------------------------------------------------------------------
(* Properties                                                               *)

Reflected(e) == \A u \in Affected[e] \cap exists : written[u] >= cause[e][u]

\* An event is recorded as completed, and answered 200, only when every user it
\* names that still exists has been written from a lookup at least as recent as
\* the change it announces: no crash, takeover, lost answer or duplicate
\* delivery makes the provider forget an event that was never applied.
AcknowledgedIsApplied ==
    \A e \in Events :
        e \in acked \/ claims[e].status = "completed" => e \in Emitted /\ Reflected(e)

\* A worker within its fifteen minutes holds the claim of its event for as long
\* as it works: a slower worker that lost the event can neither complete nor
\* release it under its successor, so no two of them run the same event.
LiveClaimStands ==
    \A w \in Workers :
        worker[w].pc \in {"lookup", "write", "refresh"} /\ ~worker[w].late
            => /\ OwnsRow(w)
               /\ \A v \in Workers \ {w} :
                    worker[v].event = worker[w].event => worker[v].token # worker[w].token

\* The webhook implements the promise of EventLedger: what was applied stays
\* applied, and an acknowledged event was applied before.
Ledger == INSTANCE EventLedger WITH
    emitted <- Emitted,
    applied <- {e \in Emitted : Reflected(e)},
    acked <- acked

ImplementsLedger == Ledger!LedgerSpec

\* Where the provider's listing and Apple become ready again and again
\* (SourcesSettle), every announced change is acknowledged in the end: workers that
\* die with a claim, lost answers, refreshes that are not ready any number of times
\* and the deletion of users the event names never wedge it.
EventuallyAcknowledged == \A e \in Events : e \in Emitted ~> e \in acked

Settled ==
    /\ Emitted \subseteq acked
    /\ \A w \in Workers : worker[w].pc = "idle"
    /\ \A u \in Users : signIn[u] = None

\* revenuecat.ts:4 and handler.ts:68: once every event is processed and nothing
\* runs, the projection is the canonical state of the provider.
RacesCollapse ==
    Settled => \A u \in exists :
        ent[u] # None => stillProActive(ent[u]) = stillProActive(canon[u])
=============================================================================
