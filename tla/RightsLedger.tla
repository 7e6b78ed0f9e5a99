---------------------------- MODULE RightsLedger ----------------------------
(***************************************************************************)
(* What a ledger of rights promises to the accounts it sends proofs to.  A *)
(* right is in force for one account at a time, under a revision that is   *)
(* never used again; and whoever ends it leaves its account a removal that *)
(* reaches past every proof the account was sent.                          *)
(***************************************************************************)
EXTENDS Naturals

CONSTANTS Holders, Rights

VARIABLES
    members,    \* accounts that exist
    live,       \* versions of rights in force
    next,       \* per right, a revision past all that were ever in force
    removed,    \* per account and right, the newest removal
    sent        \* proofs that left the ledger

ledgerVars == <<members, live, next, removed, sent>>

Proof == [holder : Holders, right : Rights, revision : Nat]

LedgerInit ==
    /\ members = Holders
    /\ live = {}
    /\ next = [r \in Rights |-> 0]
    /\ removed = [h \in Holders |-> [r \in Rights |-> 0]]
    /\ sent = {}

Alone(versions) == \A v, w \in versions : v.right = w.right => v = w

\* One transaction ends some versions and puts newer ones in force.
Change ==
    /\ live' \subseteq Proof /\ Alone(live')
    /\ \A v \in live' \ live : v.holder \in members /\ v.revision >= next[v.right]
    /\ next' \in [Rights -> Nat]
    /\ \A r \in Rights : next'[r] >= next[r]
    /\ \A v \in live' : v.revision < next'[v.right]
    /\ removed' \in [Holders -> [Rights -> Nat]]
    /\ \A h \in Holders, r \in Rights : removed'[h][r] >= removed[h][r]
    /\ \A v \in live \ live' : removed'[v.holder][v.right] > v.revision
    /\ \A v \in live' : removed'[v.holder][v.right] <= v.revision
    /\ UNCHANGED <<members, sent>>

\* An account leaves; its rights and removals go with it.
Leave(h) ==
    /\ members' = members \ {h}
    /\ live' = {v \in live : v.holder # h}
    /\ removed' = [removed EXCEPT ![h] = [r \in Rights |-> 0]]
    /\ next' \in [Rights -> Nat]
    /\ \A r \in Rights : next'[r] >= next[r]
    /\ UNCHANGED sent

Send(proofs) ==
    /\ proofs \subseteq live
    /\ sent' = sent \union proofs
    /\ UNCHANGED <<members, live, next, removed>>

LedgerNext ==
    \/ Change
    \/ \E h \in Holders : Leave(h)
    \/ \E proofs \in SUBSET live : Send(proofs)

LedgerSpec == LedgerInit /\ [][LedgerNext]_ledgerVars

-----------------------------------------------------------------------------
(* What the promise gives an account                                        *)

\* A proof that is no longer in force lies under a removal of its account.
Covered ==
    \A p \in sent : p.holder \in members =>
        p \in live \/ removed[p.holder][p.right] > p.revision

\* Two accounts never receive a proof of the same revision of a right.
OneHolderPerRevision ==
    \A p, q \in sent : p.right = q.right /\ p.revision = q.revision => p = q
=============================================================================
