---------------------------- MODULE AccessRights ----------------------------
(***************************************************************************)
(* The ledger of paid rights.  A lookup takes an observation token, reads  *)
(* the provider, commits what it read, and confirms that its result still  *)
(* stands before a signed proof leaves the server.  Lookups of one account *)
(* or one Apple transaction run concurrently and end in any order; a newer *)
(* token supersedes an older lookup.  Refunds, links from one account to   *)
(* another and account deletions fall between any two steps.               *)
(***************************************************************************)
EXTENDS Naturals, FiniteSets

CONSTANTS
    Holders,        \* accounts
    Purchases,      \* RevenueCat transactions (provider_source = 'revenuecat')
    AppleRights,    \* Apple transactions (provider_source = 'apple')
    Operations,     \* operation ids of account links
    Lookups,        \* bound: lookups in flight at once; a lookup is its token
    None,
    MaxRevision     \* bound on the ownership_revision a link may expect

Rights == Purchases \union AppleRights

ASSUME RightsAssumption ==
    /\ Purchases \cap AppleRights = {}
    /\ Holders \cap AppleRights = {}
    /\ None \notin Holders \union Rights \union Operations \union Lookups
    /\ MaxRevision \in Nat

VARIABLES
    charge,         \* the providers: state of each transaction
    customer,       \* RevenueCat: the customer a purchase is listed under
    users,          \* auth.users
    rights,         \* private.access_rights
    revocations,    \* private.access_revocations: newest revision, 0 for none
    observed,       \* private.access_observations, apple_access_observations:
                    \* the lookup whose token is stored
    links,          \* private.apple_access_link_operations
    look,           \* the lookups in flight
    issued,         \* history: account proofs the server has sent
    refunded        \* history: refunds an account's own lookup has committed

vars == <<charge, customer, users, rights, revocations, observed, links, look,
          issued, refunded>>

provider == <<charge, customer>>

Right ==
    [stage : {"none", "placeholder", "seen"}, holder : Holders \union {None},
     revision : Nat, active : BOOLEAN]

NoRight == [stage |-> "none", holder |-> None, revision |-> 0, active |-> FALSE]

\* The link a request asks for: no operation, or an operation with its scope
NoLink == [op |-> None, target |-> None, source |-> None, revision |-> 0]

Links ==
    {l \in [op : Operations, target : Holders, source : Holders \union {None},
            revision : 0..MaxRevision] : l.target # l.source}

Idle ==
    [pc |-> "idle", subject |-> None, target |-> None, owned |-> {}, revoked |-> {},
     held |-> {}, signed |-> {}]

Version == [right : Rights, revision : Nat]

\* The variables stay well typed.
TypeOK ==
    /\ charge \in [Rights -> {"owned", "refunded"}]
    /\ customer \in [Purchases -> Holders]
    /\ users \subseteq Holders
    /\ rights \in [Rights -> Right]
    /\ revocations \in [Holders -> [Rights -> Nat]]
    /\ observed \in [Holders \union AppleRights -> Lookups \union {None}]
    /\ \A l \in links :
        l \in [op : Operations, right : AppleRights, target : Holders \union {None},
               source : Holders \union {None}, expected : Nat, resulting : Nat]
    /\ look \in [Lookups ->
                    [pc : {"idle", "begun", "read", "committed"},
                     subject : Holders \union AppleRights \union {None},
                     target : Holders \union {None},
                     owned : SUBSET Rights, revoked : SUBSET Rights,
                     held : SUBSET Version, signed : SUBSET Version]]
    /\ issued \subseteq [holder : Holders, right : Rights, revision : Nat]
    /\ refunded \subseteq Holders \X Purchases

Init ==
    /\ charge = [r \in Rights |-> "owned"]
    /\ customer \in [Purchases -> Holders]
    /\ users = Holders
    /\ rights = [r \in Rights |-> NoRight]
    /\ revocations = [h \in Holders |-> [r \in Rights |-> 0]]
    /\ observed = [s \in Holders \union AppleRights |-> None]
    /\ links = {}
    /\ look = [i \in Lookups |-> Idle]
    /\ issued = {}
    /\ refunded = {}

-----------------------------------------------------------------------------
(* The providers.  A transaction not yet made is one no lookup has listed.   *)

Refund(r) ==
    /\ charge[r] = "owned"
    /\ charge' = [charge EXCEPT ![r] = "refunded"]
    /\ UNCHANGED <<customer, users, rights, revocations, observed, links, look, issued, refunded>>

\* A RevenueCat TRANSFER lists the purchase under another customer.
MovePurchase(r, h) ==
    /\ charge[r] = "owned" /\ customer[r] # h
    /\ customer' = [customer EXCEPT ![r] = h]
    /\ UNCHANGED <<charge, users, rights, revocations, observed, links, look, issued, refunded>>

Listed(h, state) == {r \in Purchases : customer[r] = h /\ charge[r] = state}

-----------------------------------------------------------------------------
(* Observations                                                             *)

\* Seeded fault: any open observation of the subject will do.
CurrentAnyToken(i) == observed[look[i].subject] # None

\* The stored token is that of the lookup.
Current(i) == observed[look[i].subject] = i

\* Nobody asks again with the token of a lookup that has ended.
Finish(i) ==
    /\ look' = [look EXCEPT ![i] = Idle]
    /\ observed' = [s \in DOMAIN observed |-> IF observed[s] = i THEN None ELSE observed[s]]

\* begin_access_observation: its foreign key needs the account
Begin(i, h) ==
    /\ look[i].pc = "idle" /\ h \in users
    /\ observed' = [observed EXCEPT ![h] = i]
    /\ look' = [look EXCEPT ![i].pc = "begun", ![i].subject = h]
    /\ UNCHANGED <<provider, users, rights, revocations, links, issued, refunded>>

\* begin_apple_access_observation, of a transaction Apple's signature authenticates
BeginApple(i, r) ==
    /\ look[i].pc = "idle"
    /\ rights' = [rights EXCEPT ![r].stage = IF @ = "none" THEN "placeholder" ELSE @]
    /\ observed' = [observed EXCEPT ![r] = i]
    /\ look' = [look EXCEPT ![i].pc = "begun", ![i].subject = r]
    /\ UNCHANGED <<provider, users, revocations, links, issued, refunded>>

\* getRights: a listing may be partial; what it leaves out is unknown, not absent.
ReadListing(i) ==
    /\ look[i].pc = "begun" /\ look[i].subject \in Holders
    /\ \E owned \in SUBSET Listed(look[i].subject, "owned"),
          revoked \in SUBSET Listed(look[i].subject, "refunded") :
        look' = [look EXCEPT ![i].pc = "read", ![i].owned = owned, ![i].revoked = revoked]
    /\ UNCHANGED <<provider, users, rights, revocations, observed, links, issued, refunded>>

\* The verifier's refresh of one Apple transaction; its answer may be older than
\* a refund.
ReadApple(i) ==
    LET r == look[i].subject IN
    /\ look[i].pc = "begun" /\ r \in AppleRights
    /\ \/ look' = [look EXCEPT ![i].pc = "read", ![i].owned = {r}]
       \/ charge[r] = "refunded" /\ look' = [look EXCEPT ![i].pc = "read", ![i].revoked = {r}]
    /\ UNCHANGED <<provider, users, rights, revocations, observed, links, issued, refunded>>

\* A lookup that fails, is superseded, or outlives the deadline of its token, ends
\* without a grant.
Abandon(i) ==
    /\ look[i].pc # "idle"
    /\ Finish(i)
    /\ UNCHANGED <<provider, users, rights, revocations, links, issued, refunded>>

-----------------------------------------------------------------------------
(* commit_access_observation                                                *)

\* Seeded fault: the revision is lowered.
DeactivatedDown(right) == [right EXCEPT !.active = FALSE, !.revision = @ - 1]

Deactivated(right) == [right EXCEPT !.active = FALSE, !.revision = @ + 1]

\* Seeded fault: a right is activated again under the revision it has.
CommittedInPlace(h, r, owned, revoked) ==
    LET right == rights[r] IN
    CASE r \in owned /\ right.stage = "none" ->
            [stage |-> "seen", holder |-> h, revision |-> 0, active |-> TRUE]
      [] r \in owned /\ right.holder = h -> [right EXCEPT !.active = TRUE]
      [] r \in revoked /\ right.active -> Deactivated(right)
      [] OTHER -> right

\* An owned purchase is inserted for the account, or activated if the account
\* holds it; a refunded one is deactivated whoever holds it.
Committed(h, r, owned, revoked) ==
    LET right == rights[r] IN
    CASE r \in owned /\ right.stage = "none" ->
            [stage |-> "seen", holder |-> h, revision |-> 0, active |-> TRUE]
      [] r \in owned /\ right.holder = h /\ ~right.active ->
            [right EXCEPT !.active = TRUE, !.revision = @ + 1]
      [] r \in revoked /\ right.active -> Deactivated(right)
      [] OTHER -> right

\* A holder keeps the newest revision at which a right of his was taken away.
Revoked(h, r, revision) ==
    [revocations EXCEPT ![h][r] = IF revision > @ THEN revision ELSE @]

\* The account's active rights, as the result of the observation records them
HeldBy(h, ledger) ==
    {[right |-> r, revision |-> ledger[r].revision] :
        r \in {q \in Rights : ledger[q].holder = h /\ ledger[q].active}}

CommitAccess(i) ==
    LET h == look[i].subject
        owned == look[i].owned
        revoked == look[i].revoked
    IN
    /\ look[i].pc = "read" /\ h \in Holders
    /\ Current(i) /\ h \in users
    /\ rights' = [r \in Rights |-> Committed(h, r, owned, revoked)]
    /\ revocations' = [k \in Holders |-> [r \in Rights |->
            IF r \in revoked /\ rights[r].active /\ rights[r].holder = k
              THEN rights[r].revision + 1 ELSE revocations[k][r]]]
    \* signed: what this lookup saw owned, and Apple rights refreshed beside it
    /\ \E fresh \in SUBSET AppleRights :
        look' = [look EXCEPT ![i] = [Idle EXCEPT !.pc = "committed", !.subject = h,
                   !.held = HeldBy(h, rights'),
                   !.signed = {v \in HeldBy(h, rights') : v.right \in owned \union fresh}]]
    /\ refunded' = refunded \union
            {<<h, r>> : r \in {q \in revoked : rights[q].stage # "none"}}
    /\ UNCHANGED <<provider, users, observed, links, issued>>

\* confirm_access_observation, the last fence before the reply
ConfirmAccess(i) ==
    LET h == look[i].subject IN
    /\ look[i].pc = "committed" /\ h \in Holders
    /\ Current(i)
    /\ \A v \in look[i].held :
        rights[v.right].holder = h /\ rights[v.right].active
            /\ rights[v.right].revision = v.revision
    /\ issued' = issued \union
            {[holder |-> h, right |-> v.right, revision |-> v.revision] : v \in look[i].signed}
    /\ Finish(i)
    /\ UNCHANGED <<provider, users, rights, revocations, links, refunded>>

-----------------------------------------------------------------------------
(* commit_apple_access_observation                                          *)

\* Seeded fault: a refund is remembered only for a right somebody was granted.
KnownRefundedOfHolder(right) == right.holder # None /\ ~right.active

\* Apple rights are deactivated by nothing but a refund.
KnownRefunded(right) == right.stage = "seen" /\ ~right.active

\* A refund, or a right already refunded, ends the lookup without a grant: the
\* negative fact is stored even when nothing had been activated before.
CommitAppleRefund(i) ==
    LET r == look[i].subject
        right == rights[r]
    IN
    /\ look[i].pc = "read" /\ r \in AppleRights
    /\ Current(i)
    /\ r \in look[i].revoked \/ KnownRefunded(right)
    /\ rights' = [rights EXCEPT ![r] =
                    [(IF right.active THEN Deactivated(right) ELSE right) EXCEPT !.stage = "seen"]]
    /\ revocations' = IF right.active /\ right.holder # None
                        THEN Revoked(right.holder, r, right.revision + 1) ELSE revocations
    /\ Finish(i)
    /\ UNCHANGED <<provider, users, links, issued, refunded>>

\* Seeded fault: a link changes the account under the revision the other one has.
LinkedInPlace(right, link) == [right EXCEPT !.holder = link.target]

\* The right an authorized link leaves behind: its first association, a transfer
\* from the account that released it, or the account that has it already.
Linked(right, link) ==
    IF right.holder = link.target THEN right
    ELSE [right EXCEPT !.holder = link.target, !.revision = @ + 1]

LinkAdmitted(right, link) ==
    /\ right.holder \in {None, link.target, link.source}
    /\ link.source # None => right.holder = link.source
    /\ right.revision = link.revision
    /\ right.holder = None => right.revision = 0

\* An operation replayed exactly is answered from the ledger while its result stands.
Replayed(right, r, link) ==
    \E l \in links :
        /\ l = [op |-> link.op, right |-> r, target |-> link.target, source |-> link.source,
                expected |-> link.revision, resulting |-> right.revision]
        /\ right.holder = link.target /\ right.active

\* The link is that of the request; nothing before this step depends on it.
CommitApple(i, link) ==
    LET r == look[i].subject
        right == rights[r]
        after == IF link = NoLink \/ Replayed(right, r, link) THEN right ELSE Linked(right, link)
    IN
    /\ look[i].pc = "read" /\ r \in AppleRights
    /\ Current(i)
    /\ r \in look[i].owned /\ ~KnownRefunded(right)
    /\ link # NoLink =>
        /\ {link.target, link.source} \subseteq users \union {None}
        /\ \/ Replayed(right, r, link)
           \/ LinkAdmitted(right, link) /\ \A l \in links : l.op # link.op
    /\ rights' = [rights EXCEPT ![r] = [after EXCEPT !.active = TRUE, !.stage = "seen"]]
    /\ revocations' = IF after.holder # right.holder /\ right.holder # None
                        THEN Revoked(right.holder, r, after.revision) ELSE revocations
    /\ links' = IF link = NoLink THEN links
                ELSE links \union {[op |-> link.op, right |-> r, target |-> link.target,
                                    source |-> link.source, expected |-> link.revision,
                                    resulting |-> after.revision]}
    /\ look' = [look EXCEPT ![i] = [Idle EXCEPT !.pc = "committed", !.subject = r,
                  !.target = link.target, !.signed = {[right |-> r, revision |-> after.revision]}]]
    /\ UNCHANGED <<provider, users, observed, issued, refunded>>

\* confirm_apple_access_observation; a proof for an account needs a link
ConfirmApple(i) ==
    LET r == look[i].subject
        target == look[i].target
    IN
    /\ look[i].pc = "committed" /\ r \in AppleRights
    /\ Current(i)
    /\ rights[r].active /\ [right |-> r, revision |-> rights[r].revision] \in look[i].signed
    /\ target # None => rights[r].holder = target
    /\ issued' = IF target = None THEN issued
                 ELSE issued \union {[holder |-> target, right |-> r,
                                      revision |-> rights[r].revision]}
    /\ Finish(i)
    /\ UNCHANGED <<provider, users, rights, revocations, links, refunded>>

-----------------------------------------------------------------------------
(* Account deletion: the trigger of 0022, then the foreign keys' cascades    *)

\* Seeded fault: the foreign keys alone, as before 0022.
Orphaned(r) == [rights[r] EXCEPT !.holder = None]

LeftBehind(r) ==
    IF r \in Purchases /\ rights[r].active
      THEN [Deactivated(rights[r]) EXCEPT !.holder = None]
      ELSE [rights[r] EXCEPT !.holder = None]

DeleteAccount(h) ==
    /\ h \in users
    /\ users' = users \ {h}
    /\ rights' = [r \in Rights |->
            IF rights[r].holder = h THEN LeftBehind(r) ELSE rights[r]]
    /\ revocations' = [revocations EXCEPT ![h] = [r \in Rights |-> 0]]
    /\ observed' = [observed EXCEPT ![h] = None]
    /\ links' = {[l EXCEPT !.target = IF @ = h THEN None ELSE @,
                           !.source = IF @ = h THEN None ELSE @] : l \in links}
    /\ UNCHANGED <<provider, look, issued, refunded>>

Next ==
    \/ \E r \in Rights : Refund(r)
    \/ \E r \in Purchases, h \in Holders : MovePurchase(r, h)
    \/ \E h \in Holders : DeleteAccount(h)
    \/ \E i \in Lookups :
        \/ \E h \in Holders : Begin(i, h)
        \/ \E r \in AppleRights : BeginApple(i, r)
        \/ ReadListing(i) \/ ReadApple(i) \/ Abandon(i)
        \/ CommitAccess(i) \/ ConfirmAccess(i)
        \/ CommitAppleRefund(i) \/ ConfirmApple(i)
        \/ \E link \in Links \union {NoLink} : CommitApple(i, link)

Spec == Init /\ [][Next]_vars

-----------------------------------------------------------------------------
(* Properties                                                               *)

\* The ledger keeps the promise of RightsLedger: whatever lookups, links, refunds
\* and deletions cross, a revision belongs to one account, and a right that ends
\* leaves its account a revocation past every proof it was sent.
InForce ==
    {[holder |-> rights[r].holder, right |-> r, revision |-> rights[r].revision] :
        r \in {q \in Rights : rights[q].active /\ rights[q].holder # None}}

NextRevision(r) ==
    IF rights[r].stage = "none" \/ (rights[r].holder = None /\ rights[r].revision = 0)
      THEN 0 ELSE rights[r].revision + 1

\* The revision each right would be given next
Numbering == [r \in Rights |-> NextRevision(r)]

Ledger == INSTANCE RightsLedger WITH
    members <- users,
    live <- InForce,
    next <- Numbering,
    removed <- revocations,
    sent <- issued

ImplementsLedger == Ledger!LedgerSpec

\* Every account proof the server ever sent that the ledger no longer backs is
\* covered by a revocation its account will be told of: no device keeps a proof
\* that nobody can withdraw.
OutdatedProofsAreRevoked ==
    \A p \in issued :
        p.holder \in users => p \in InForce \/ revocations[p.holder][p.right] > p.revision

\* A refund that an account's own lookup has committed is not undone by an older
\* lookup of that account still in flight.
KnownRefundStands ==
    \A h \in Holders, r \in Purchases :
        <<h, r>> \in refunded => ~(rights[r].holder = h /\ rights[r].active)

\* A purchase whose account was deleted stays inactive and is adopted by nobody.
OrphansStayInactive ==
    \A r \in Purchases : rights[r].holder = None => ~rights[r].active

\* An Apple transaction seen as refunded, even before anything was granted for
\* it, is never active again.
AppleRefundIsFinal ==
    [][\A r \in AppleRights :
          rights[r].stage = "seen" /\ ~rights[r].active => ~rights'[r].active]_vars
=============================================================================
