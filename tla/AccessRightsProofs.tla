------------------------- MODULE AccessRightsProofs -------------------------
(***************************************************************************)
(* The safety properties of AccessRights, for any accounts, transactions,  *)
(* operations and lookups, and any bound on revisions.                     *)
(*                                                                         *)
(* The way goes over the abstract ledger: AccessRights implements          *)
(* RightsLedger (Refinement), whose promise is proved below (PromiseKept). *)
(* The mapping needs an invariant of its own: a revocation never outruns   *)
(* the revision of its right, a right without a row has no holder, and one *)
(* that changed hands or ended has a positive revision, so that no version *)
(* is ever put in force twice; and what a lookup signs was among the rights*)
(* it confirms.                                                            *)
(***************************************************************************)
EXTENDS AccessRights, TLAPS

\* The row of a right: what its stage, holder, state and revision say together
RowAgrees(r) ==
    /\ rights[r].stage = "none" => rights[r] = NoRight
    /\ rights[r].active \/ rights[r].holder # None => rights[r].stage = "seen"
    /\ rights[r].holder # None /\ (r \in AppleRights \/ ~rights[r].active)
            => rights[r].revision > 0
    /\ rights[r].holder \in users \union {None}

RowsAgree == \A r \in Rights : RowAgrees(r)

RevocationsWithinRevision ==
    \A h \in Holders, r \in Rights : revocations[h][r] <= rights[r].revision

\* A lookup of an account reads purchases alone, and what it will sign is part
\* of what it will confirm.
LookAgrees(i) ==
    /\ look[i].pc # "committed" => look[i].signed = {}
    /\ look[i].pc \in {"idle", "begun"} => look[i].owned = {} /\ look[i].revoked = {}
    /\ look[i].subject \in Holders =>
        /\ look[i].signed \subseteq look[i].held
        /\ look[i].owned \union look[i].revoked \subseteq Purchases

LooksAgree == \A i \in Lookups : LookAgrees(i)

\* The inductive invariant
IInv ==
    /\ TypeOK
    /\ RowsAgree
    /\ RevocationsWithinRevision
    /\ LooksAgree
    /\ OrphansStayInactive

(***************************************************************************)
(* An empty ledger keeps the invariant.                                    *)
(***************************************************************************)
LEMMA InitInvariant == Init => IInv
<1> SUFFICES ASSUME Init PROVE IInv
  OBVIOUS
<1>1. NoRight \in Right
  BY DEF NoRight, Right
<1>2. TypeOK
  BY <1>1 DEF Init, TypeOK, Idle, Rights
<1>3. RowsAgree
  BY DEF Init, RowsAgree, RowAgrees, NoRight
<1>4. RevocationsWithinRevision
  BY DEF Init, RevocationsWithinRevision, NoRight
<1>5. LooksAgree
  BY DEF Init, LooksAgree, LookAgrees, Idle
<1>6. OrphansStayInactive
  BY DEF Init, OrphansStayInactive, NoRight, Rights
<1> QED
  BY <1>2, <1>3, <1>4, <1>5, <1>6 DEF IInv

(***************************************************************************)
(* The providers, and everything a lookup does before it commits, leave    *)
(* the ledger's rows alone but for the placeholder of an Apple             *)
(* transaction.                                                            *)
(***************************************************************************)
LEMMA ProviderStep ==
    ASSUME IInv, (\E r \in Rights : Refund(r)) \/ (\E r \in Purchases, h \in Holders : MovePurchase(r, h))
    PROVE  IInv'
<1>1. UNCHANGED <<users, rights, revocations, observed, links, look, issued, refunded>>
  BY DEF Refund, MovePurchase
<1>2. charge' \in [Rights -> {"owned", "refunded"}] /\ customer' \in [Purchases -> Holders]
  BY DEF Refund, MovePurchase, IInv, TypeOK
<1> QED
  BY <1>1, <1>2 DEF IInv, TypeOK, RowsAgree, RowAgrees, RevocationsWithinRevision, LooksAgree,
                    LookAgrees, OrphansStayInactive

\* The lookups as TypeOK has them
Looks ==
    [pc : {"idle", "begun", "read", "committed"},
     subject : Holders \union AppleRights \union {None},
     target : Holders \union {None},
     owned : SUBSET Rights, revoked : SUBSET Rights,
     held : SUBSET Version, signed : SUBSET Version]

\* An idle lookup is well typed.
LEMMA IdleLook == Idle \in Looks
  BY DEF Idle, Looks

(***************************************************************************)
(* Finishing a lookup keeps the types of lookups and tokens.               *)
(***************************************************************************)
LEMMA FinishType ==
    ASSUME TypeOK, LooksAgree, NEW i \in Lookups, Finish(i)
    PROVE  /\ look' \in [Lookups -> Looks]
           /\ observed' \in [Holders \union AppleRights -> Lookups \union {None}]
           /\ LooksAgree'
<1>1. look' \in [Lookups -> Looks]
  BY IdleLook DEF TypeOK, Finish, Looks
<1>2. observed' \in [Holders \union AppleRights -> Lookups \union {None}]
  BY DEF TypeOK, Finish
<1>3. LooksAgree'
  BY DEF TypeOK, Finish, LooksAgree, LookAgrees, Idle
<1> QED
  BY <1>1, <1>2, <1>3

(***************************************************************************)
(* A step that touches lookups, tokens and sent proofs alone keeps the     *)
(* invariant when it keeps their types and signs only what is held.        *)
(***************************************************************************)
LEMMA QuietStep ==
    ASSUME IInv,
           UNCHANGED <<charge, customer, users, rights, revocations, links, refunded>>,
           look' \in [Lookups -> Looks],
           observed' \in [Holders \union AppleRights -> Lookups \union {None}],
           issued' \subseteq [holder : Holders, right : Rights, revision : Nat],
           LooksAgree'
    PROVE  IInv'
<1>1. TypeOK'
  BY DEF IInv, TypeOK, Looks
<1>2. RowsAgree' /\ RevocationsWithinRevision' /\ OrphansStayInactive'
  BY DEF IInv, RowsAgree, RowAgrees, RevocationsWithinRevision, OrphansStayInactive
<1> QED
  BY <1>1, <1>2 DEF IInv

(***************************************************************************)
(* A lookup begins, reads or ends.                                         *)
(***************************************************************************)
LEMMA LookupStep ==
    ASSUME IInv, NEW i \in Lookups,
           \/ \E h \in Holders : Begin(i, h)
           \/ ReadListing(i) \/ ReadApple(i) \/ Abandon(i)
    PROVE  IInv'
<1>1. /\ look \in [Lookups -> Looks] /\ look[i] \in Looks
      /\ observed \in [Holders \union AppleRights -> Lookups \union {None}]
      /\ issued \subseteq [holder : Holders, right : Rights, revision : Nat]
      /\ customer \in [Purchases -> Holders] /\ charge \in [Rights -> {"owned", "refunded"}]
  BY DEF IInv, TypeOK, Looks
<1>2. ASSUME NEW h \in Holders, Begin(i, h) PROVE IInv'
  <2>1. look' = [look EXCEPT ![i] = [@ EXCEPT !.pc = "begun", !.subject = h]]
    BY <1>1, <1>2 DEF Begin
  <2>2. [look[i] EXCEPT !.pc = "begun", !.subject = h] \in Looks
    BY <1>1 DEF Looks
  <2>3. look[i].signed = {} /\ look[i].owned = {} /\ look[i].revoked = {}
    BY <1>2 DEF Begin, IInv, LooksAgree, LookAgrees
  <2>4. LooksAgree'
    BY <1>1, <2>1, <2>3 DEF IInv, LooksAgree, LookAgrees, Looks
  <2>5. look' \in [Lookups -> Looks]
    BY <1>1, <2>1, <2>2
  <2>6. observed' \in [Holders \union AppleRights -> Lookups \union {None}]
    BY <1>1, <1>2 DEF Begin
  <2> QED
    BY <1>1, <1>2, <2>4, <2>5, <2>6, QuietStep DEF Begin, provider
<1>3. ASSUME NEW owned \in SUBSET Rights, NEW revoked \in SUBSET Rights, look[i].pc = "begun",
             look[i].subject \in Holders => owned \union revoked \subseteq Purchases,
             look' = [look EXCEPT ![i] = [@ EXCEPT !.pc = "read", !.owned = owned, !.revoked = revoked]],
             UNCHANGED <<provider, users, rights, revocations, observed, links, issued, refunded>>
      PROVE  IInv'
  <2>1. [look[i] EXCEPT !.pc = "read", !.owned = owned, !.revoked = revoked] \in Looks
    BY <1>1 DEF Looks
  <2>2. look[i].signed = {}
    BY <1>3 DEF IInv, LooksAgree, LookAgrees
  <2>3. LooksAgree'
    BY <1>1, <1>3, <2>2 DEF IInv, LooksAgree, LookAgrees, Looks
  <2>4. look' \in [Lookups -> Looks]
    BY <1>1, <1>3, <2>1
  <2> QED
    BY <1>1, <1>3, <2>3, <2>4, QuietStep DEF provider
<1>4. ASSUME ReadListing(i) PROVE IInv'
  <2>1. PICK owned \in SUBSET Listed(look[i].subject, "owned"),
             revoked \in SUBSET Listed(look[i].subject, "refunded") :
          look' = [look EXCEPT ![i].pc = "read", ![i].owned = owned, ![i].revoked = revoked]
    BY <1>4 DEF ReadListing
  <2>2. /\ owned \in SUBSET Rights /\ revoked \in SUBSET Rights
        /\ owned \union revoked \subseteq Purchases
    BY DEF Listed, Rights
  <2>3. look' = [look EXCEPT ![i] = [@ EXCEPT !.pc = "read", !.owned = owned, !.revoked = revoked]]
    BY <1>1, <2>1
  <2> QED
    BY <1>3, <1>4, <2>2, <2>3 DEF ReadListing
<1>5. ASSUME ReadApple(i) PROVE IInv'
  <2>1. /\ look[i].pc = "begun" /\ look[i].subject \in Rights /\ look[i].subject \notin Holders
        /\ UNCHANGED <<provider, users, rights, revocations, observed, links, issued, refunded>>
    BY <1>5, RightsAssumption DEF ReadApple, Rights
  <2>2. look[i].owned \in SUBSET Rights /\ look[i].revoked \in SUBSET Rights
    BY <1>1 DEF Looks
  <2>3. CASE look' = [look EXCEPT ![i].pc = "read", ![i].owned = {look[i].subject}]
    <3>1. look' = [look EXCEPT ![i] = [@ EXCEPT !.pc = "read", !.owned = {look[i].subject},
                                                !.revoked = look[i].revoked]]
      BY <1>1, <2>3 DEF Looks
    <3> QED
      BY <1>3, <2>1, <2>2, <3>1
  <2>4. CASE look' = [look EXCEPT ![i].pc = "read", ![i].revoked = {look[i].subject}]
    <3>1. look' = [look EXCEPT ![i] = [@ EXCEPT !.pc = "read", !.owned = look[i].owned,
                                                !.revoked = {look[i].subject}]]
      BY <1>1, <2>4 DEF Looks
    <3>2. {look[i].subject} \in SUBSET Rights
      BY <2>1
    <3> QED
      BY <1>3, <2>1, <2>2, <3>1, <3>2
  <2> QED
    BY <1>5, <2>3, <2>4 DEF ReadApple
<1>6. ASSUME Abandon(i) PROVE IInv'
  BY <1>1, <1>6, FinishType, QuietStep DEF Abandon, IInv, provider
<1> QED
  BY <1>2, <1>4, <1>5, <1>6

(***************************************************************************)
(* The confirmations, which send proofs and end the lookup.                *)
(***************************************************************************)
LEMMA ConfirmStep ==
    ASSUME IInv, NEW i \in Lookups, ConfirmAccess(i) \/ ConfirmApple(i)
    PROVE  IInv'
<1>1. /\ look \in [Lookups -> Looks] /\ look[i] \in Looks
      /\ rights \in [Rights -> Right]
      /\ issued \subseteq [holder : Holders, right : Rights, revision : Nat]
  BY DEF IInv, TypeOK, Looks
<1>2. look[i].signed \subseteq Version /\ look[i].target \in Holders \union {None}
  BY <1>1 DEF Looks
<1>3. CASE ConfirmAccess(i)
  <2>1. issued' \subseteq [holder : Holders, right : Rights, revision : Nat]
    BY <1>1, <1>2, <1>3 DEF ConfirmAccess, Version
  <2> QED
    BY <1>3, <2>1, FinishType, QuietStep DEF ConfirmAccess, IInv, provider
<1>4. CASE ConfirmApple(i)
  <2>1. look[i].subject \in Rights /\ rights[look[i].subject].revision \in Nat
    BY <1>1, <1>4 DEF ConfirmApple, Rights, Right
  <2>2. issued' \subseteq [holder : Holders, right : Rights, revision : Nat]
    BY <1>1, <1>2, <1>4, <2>1 DEF ConfirmApple
  <2> QED
    BY <1>4, <2>2, FinishType, QuietStep DEF ConfirmApple, IInv, provider
<1> QED
  BY <1>3, <1>4


-----------------------------------------------------------------------------
(* The commits                                                              *)

\* What a commit may make of the row of a right: it keeps the version, or gives
\* it the next revision, or is the first to insert it; and the holder of a
\* version that ends is told so.
RowChange(r) ==
    /\ \/ /\ rights'[r].holder = rights[r].holder
          /\ rights'[r].revision = rights[r].revision
          /\ rights[r].holder = None \/ rights'[r].active = rights[r].active
       \/ rights'[r].revision = rights[r].revision + 1
       \/ rights[r] = NoRight /\ rights'[r].revision = 0
    /\ RowAgrees(r)'
    /\ r \in Purchases /\ rights'[r].holder = None => ~rights'[r].active
    /\ \A h \in Holders :
        /\ revocations'[h][r] >= revocations[h][r]
        /\ revocations'[h][r] <= rights'[r].revision
        /\ rights[r].active /\ rights[r].holder = h
            => \/ rights'[r].active /\ rights'[r].holder = h
                    /\ rights'[r].revision = rights[r].revision
               \/ revocations'[h][r] > rights[r].revision

\* A commit changes rows one by one, and revocations with them.
Commits ==
    /\ UNCHANGED <<provider, users, issued>>
    /\ rights' \in [Rights -> Right]
    /\ revocations' \in [Holders -> [Rights -> Nat]]
    /\ \A r \in Rights : RowChange(r)

(***************************************************************************)
(* The row of a right in another state, under its own or the next revision *)
(***************************************************************************)
LEMMA RowType ==
    ASSUME NEW q \in Right, NEW active \in BOOLEAN
    PROVE  /\ [q EXCEPT !.active = active] \in Right
           /\ [q EXCEPT !.active = active, !.revision = @ + 1] \in Right
<1>1. [q EXCEPT !.active = active] \in Right
  BY DEF Right
<1>2. \A p \in Right : [p EXCEPT !.revision = @ + 1] \in Right
  BY DEF Right
<1>3. [q EXCEPT !.active = active, !.revision = @ + 1]
        = [[q EXCEPT !.active = active] EXCEPT !.revision = @ + 1]
  BY DEF Right
<1> QED
  BY <1>1, <1>2, <1>3

\* commit_access_observation leaves a right alone, inserts it for the account,
\* activates it again or deactivates it.
Kept(r, revoked, after) ==
    after = rights[r] /\ ~(r \in revoked /\ rights[r].active)
Inserted(h, r, owned, after) ==
    /\ r \in owned /\ rights[r] = NoRight
    /\ after = [stage |-> "seen", holder |-> h, revision |-> 0, active |-> TRUE]
Reactivated(h, r, owned, after) ==
    /\ r \in owned /\ rights[r].holder = h /\ ~rights[r].active
    /\ after = [rights[r] EXCEPT !.active = TRUE, !.revision = @ + 1]
Ended(r, revoked, after) ==
    r \in revoked /\ rights[r].active /\ after = Deactivated(rights[r])

CommittedShape(h, r, owned, revoked, after) ==
    /\ after \in Right
    /\ \/ Kept(r, revoked, after) \/ Inserted(h, r, owned, after)
       \/ Reactivated(h, r, owned, after) \/ Ended(r, revoked, after)

(***************************************************************************)
(* These are all the cases of Committed.                                   *)
(***************************************************************************)
LEMMA CommittedCases ==
    ASSUME IInv, NEW h \in Holders, NEW r \in Rights, NEW owned, NEW revoked
    PROVE  CommittedShape(h, r, owned, revoked, Committed(h, r, owned, revoked))
<1>1. rights[r] \in Right /\ RowAgrees(r)
  BY DEF IInv, TypeOK, RowsAgree
<1>2. Deactivated(rights[r]) \in Right
  BY <1>1, RowType DEF Deactivated
<1>3. [rights[r] EXCEPT !.active = TRUE, !.revision = @ + 1] \in Right
  BY <1>1, RowType
<1>4. [stage |-> "seen", holder |-> h, revision |-> 0, active |-> TRUE] \in Right
  BY DEF Right
<1>5. rights[r].holder = h => rights[r].stage # "none"
  BY <1>1, RightsAssumption DEF RowAgrees
<1>6. rights[r].active => rights[r].stage # "none"
  BY <1>1 DEF RowAgrees
<1>7. rights[r].stage = "none" => rights[r] = NoRight
  BY <1>1 DEF RowAgrees
<1> USE DEF CommittedShape, Kept, Inserted, Reactivated, Ended
<1>8. CASE r \in owned /\ rights[r].stage = "none"
  <2>1. Committed(h, r, owned, revoked)
            = [stage |-> "seen", holder |-> h, revision |-> 0, active |-> TRUE]
    BY <1>5, <1>6, <1>8 DEF Committed
  <2> QED
    BY <1>4, <1>7, <1>8, <2>1
<1>9. CASE r \in owned /\ rights[r].holder = h /\ ~rights[r].active
  <2>1. Committed(h, r, owned, revoked) = [rights[r] EXCEPT !.active = TRUE, !.revision = @ + 1]
    BY <1>5, <1>9 DEF Committed
  <2> QED
    BY <1>3, <1>9, <2>1
<1>10. CASE r \in revoked /\ rights[r].active
  <2>1. Committed(h, r, owned, revoked) = Deactivated(rights[r])
    BY <1>6, <1>10 DEF Committed
  <2> QED
    BY <1>2, <1>10, <2>1
<1>11. CASE /\ ~(r \in owned /\ rights[r].stage = "none")
            /\ ~(r \in owned /\ rights[r].holder = h /\ ~rights[r].active)
            /\ ~(r \in revoked /\ rights[r].active)
  <2>1. Committed(h, r, owned, revoked) = rights[r]
    BY <1>11 DEF Committed
  <2> QED
    BY <1>1, <1>11, <2>1
<1> QED
  BY <1>8, <1>9, <1>10, <1>11

(***************************************************************************)
(* commit_access_observation changes rows as a commit may.                 *)
(***************************************************************************)
LEMMA CommitAccessRows ==
    ASSUME IInv, NEW i \in Lookups, CommitAccess(i)
    PROVE  Commits
<1> DEFINE h == look[i].subject
           owned == look[i].owned
           revoked == look[i].revoked
<1>1. /\ h \in Holders /\ h \in users /\ h # None
      /\ owned \subseteq Purchases /\ revoked \subseteq Purchases
      /\ UNCHANGED <<provider, users, issued>>
  BY RightsAssumption DEF CommitAccess, IInv, LooksAgree, LookAgrees
<1>2. /\ rights \in [Rights -> Right] /\ revocations \in [Holders -> [Rights -> Nat]]
  BY DEF IInv, TypeOK
<1>3. rights' = [r \in Rights |-> Committed(h, r, owned, revoked)]
  BY DEF CommitAccess
<1>4. revocations' = [k \in Holders |-> [r \in Rights |->
            IF r \in revoked /\ rights[r].active /\ rights[r].holder = k
              THEN rights[r].revision + 1 ELSE revocations[k][r]]]
  BY DEF CommitAccess
<1>5. \A r \in Rights : rights[r] \in Right /\ rights[r].revision \in Nat
  BY <1>2 DEF Right
<1>6. rights' \in [Rights -> Right]
  <2>1. \A r \in Rights : CommittedShape(h, r, owned, revoked, Committed(h, r, owned, revoked))
    BY <1>1, CommittedCases
  <2>2. \A r \in Rights : Committed(h, r, owned, revoked) \in Right
    BY <2>1 DEF CommittedShape
  <2> QED
    BY <1>3, <2>2
<1>7. revocations' \in [Holders -> [Rights -> Nat]]
  BY <1>2, <1>4, <1>5
<1>8. ASSUME NEW r \in Rights PROVE RowChange(r)
  <2>1. /\ rights[r] \in Right /\ RowAgrees(r)
        /\ r \in Purchases /\ rights[r].holder = None => ~rights[r].active
        /\ \A k \in Holders : revocations[k][r] \in Nat /\ revocations[k][r] <= rights[r].revision
    BY <1>2 DEF IInv, RowsAgree, RevocationsWithinRevision, OrphansStayInactive
  <2>2. rights'[r] = Committed(h, r, owned, revoked)
    BY <1>3
  <2>3. CASE Kept(r, revoked, rights'[r])
    <3>1. \A k \in Holders : revocations'[k][r] = revocations[k][r]
      BY <1>4, <2>3 DEF Kept
    <3>2. RowAgrees(r)'
      BY <1>1, <2>1, <2>3 DEF RowAgrees, Kept
    <3> QED
      BY <1>5, <2>1, <2>3, <3>1, <3>2 DEF RowChange, Kept
  <2>4. CASE Inserted(h, r, owned, rights'[r])
    <3>1. \A k \in Holders : revocations'[k][r] = revocations[k][r]
      BY <1>4, <2>4 DEF NoRight, Inserted
    <3>2. RowAgrees(r)'
      BY <1>1, <2>4, RightsAssumption DEF RowAgrees, Inserted
    <3> QED
      BY <1>1, <2>1, <2>4, <3>1, <3>2 DEF RowChange, NoRight, Inserted
  <2>5. CASE Reactivated(h, r, owned, rights'[r])
    <3>1. \A k \in Holders : revocations'[k][r] = revocations[k][r]
      BY <1>4, <2>5 DEF Reactivated
    <3>2. /\ rights'[r].stage = rights[r].stage /\ rights'[r].holder = h
          /\ rights'[r].revision = rights[r].revision + 1 /\ rights'[r].active
      BY <2>1, <2>5 DEF Right, Reactivated
    <3>3. RowAgrees(r)'
      BY <1>1, <1>5, <2>1, <2>5, <3>2 DEF RowAgrees, Reactivated
    <3> QED
      BY <1>1, <1>5, <2>1, <2>5, <3>1, <3>2, <3>3 DEF RowChange, Reactivated
  <2>6. CASE Ended(r, revoked, rights'[r])
    <3>1. \A k \in Holders : revocations'[k][r] =
            IF rights[r].holder = k THEN rights[r].revision + 1 ELSE revocations[k][r]
      BY <1>4, <2>6 DEF Ended
    <3>2. /\ rights'[r].stage = rights[r].stage /\ rights'[r].holder = rights[r].holder
          /\ rights'[r].revision = rights[r].revision + 1 /\ ~rights'[r].active
      BY <2>1, <2>6 DEF Right, Deactivated, Ended
    <3>3. RowAgrees(r)'
      BY <1>1, <1>5, <2>1, <2>6, <3>2 DEF RowAgrees, Ended
    <3> QED
      BY <1>1, <1>5, <2>1, <2>6, <3>1, <3>2, <3>3 DEF RowChange, Ended
  <2>7. CommittedShape(h, r, owned, revoked, rights'[r])
    BY <1>1, <2>2, CommittedCases
  <2> QED
    BY <2>3, <2>4, <2>5, <2>6, <2>7 DEF CommittedShape
<1> QED
  BY <1>1, <1>6, <1>7, <1>8 DEF Commits

(***************************************************************************)
(* A row that a commit does not touch, and whose revocations stay.         *)
(***************************************************************************)
LEMMA UntouchedRow ==
    ASSUME IInv, NEW r \in Rights, UNCHANGED users, rights'[r] = rights[r],
           \A k \in Holders : revocations'[k][r] = revocations[k][r]
    PROVE  RowChange(r)
<1>1. /\ RowAgrees(r) /\ rights[r].revision \in Nat
      /\ r \in Purchases /\ rights[r].holder = None => ~rights[r].active
      /\ \A k \in Holders : revocations[k][r] \in Nat /\ revocations[k][r] <= rights[r].revision
  BY DEF IInv, TypeOK, Right, RowsAgree, RevocationsWithinRevision, OrphansStayInactive
<1>2. RowAgrees(r)'
  BY <1>1 DEF RowAgrees
<1> QED
  BY <1>1, <1>2 DEF RowChange

(***************************************************************************)
(* Recording a revocation touches one account and one right.               *)
(***************************************************************************)
LEMMA RevokedCells ==
    ASSUME revocations \in [Holders -> [Rights -> Nat]],
           NEW h \in Holders, NEW r \in Rights, NEW n \in Nat
    PROVE  /\ Revoked(h, r, n) \in [Holders -> [Rights -> Nat]]
           /\ \A k \in Holders, q \in Rights :
                ~(k = h /\ q = r) => Revoked(h, r, n)[k][q] = revocations[k][q]
           /\ Revoked(h, r, n)[h][r] = IF n > revocations[h][r] THEN n ELSE revocations[h][r]
  BY DEF Revoked

(***************************************************************************)
(* A version that ends, its holder being told.                             *)
(***************************************************************************)
LEMMA EndedRow ==
    ASSUME IInv, NEW r \in Rights, UNCHANGED users, rights'[r] \in Right,
           rights'[r].stage = "seen", rights'[r].revision = rights[r].revision + 1,
           rights'[r].holder \in users \union {None},
           rights'[r].holder = None => r \notin Purchases \/ ~rights'[r].active,
           \A k \in Holders : revocations'[k][r] =
                IF rights[r].holder = k THEN rights[r].revision + 1 ELSE revocations[k][r]
    PROVE  RowChange(r)
<1>1. /\ rights[r].revision \in Nat
      /\ \A k \in Holders : revocations[k][r] \in Nat /\ revocations[k][r] <= rights[r].revision
  BY DEF IInv, TypeOK, Right, RevocationsWithinRevision
<1>2. RowAgrees(r)'
  BY <1>1 DEF RowAgrees
<1>3. \A k \in Holders :
        /\ revocations'[k][r] >= revocations[k][r]
        /\ revocations'[k][r] <= rights'[r].revision
        /\ rights[r].holder = k => revocations'[k][r] > rights[r].revision
  BY <1>1
<1> QED
  BY <1>2, <1>3 DEF RowChange

(***************************************************************************)
(* A row first seen, or seen again, under the version it has.              *)
(***************************************************************************)
LEMMA SeenRow ==
    ASSUME IInv, NEW r \in Rights, UNCHANGED users, r \notin Purchases,
           rights'[r].stage = "seen", rights'[r].revision = rights[r].revision,
           rights'[r].holder = rights[r].holder,
           rights[r].holder = None \/ rights'[r].active = rights[r].active,
           \A k \in Holders : revocations'[k][r] = revocations[k][r]
    PROVE  RowChange(r)
<1>1. /\ rights[r].revision \in Nat /\ RowAgrees(r) /\ r \in AppleRights
      /\ \A k \in Holders : revocations[k][r] \in Nat /\ revocations[k][r] <= rights[r].revision
  BY DEF IInv, TypeOK, Right, RowsAgree, RevocationsWithinRevision, Rights
<1>2. RowAgrees(r)'
  BY <1>1 DEF RowAgrees
<1>3. \A k \in Holders :
        /\ revocations'[k][r] >= revocations[k][r]
        /\ revocations'[k][r] <= rights'[r].revision
        /\ rights[r].active /\ rights[r].holder = k => rights'[r].active
  BY <1>1, RightsAssumption
<1> QED
  BY <1>2, <1>3 DEF RowChange

(***************************************************************************)
(* The refund of an Apple transaction changes its row as a commit may.     *)
(***************************************************************************)
LEMMA CommitAppleRefundRows ==
    ASSUME IInv, NEW i \in Lookups, CommitAppleRefund(i)
    PROVE  Commits
<1> DEFINE ended(q) == IF rights[q].active THEN Deactivated(rights[q]) ELSE rights[q]
<1>1. PICK r \in AppleRights :
        /\ rights' = [rights EXCEPT ![r] = [ended(r) EXCEPT !.stage = "seen"]]
        /\ revocations' = IF rights[r].active /\ rights[r].holder # None
                            THEN Revoked(rights[r].holder, r, rights[r].revision + 1)
                            ELSE revocations
        /\ UNCHANGED <<provider, users, issued>>
  BY DEF CommitAppleRefund
<1>2. /\ rights \in [Rights -> Right] /\ revocations \in [Holders -> [Rights -> Nat]]
      /\ r \in Rights /\ r \notin Purchases
      /\ rights[r] \in Right /\ RowAgrees(r) /\ rights[r].revision \in Nat
      /\ rights[r].revision + 1 \in Nat /\ rights[r].holder \in Holders \union {None}
      /\ rights[r].holder \in users \union {None}
      /\ \A k \in Holders : revocations[k][r] \in Nat /\ revocations[k][r] <= rights[r].revision
  BY RightsAssumption DEF IInv, TypeOK, Right, RowsAgree, RowAgrees, RevocationsWithinRevision, Rights
<1>3. /\ ended(r) \in Right
      /\ ended(r).holder = rights[r].holder
      /\ rights[r].active => ended(r).revision = rights[r].revision + 1
      /\ ~rights[r].active => ended(r) = rights[r]
  <2>1. Deactivated(rights[r]) \in Right
    BY <1>2, RowType DEF Deactivated
  <2>2. /\ Deactivated(rights[r]).holder = rights[r].holder
        /\ Deactivated(rights[r]).revision = rights[r].revision + 1
    BY <1>2 DEF Deactivated, Right
  <2> QED
    BY <1>2, <2>1, <2>2
<1> HIDE DEF ended
<1>4. /\ [ended(r) EXCEPT !.stage = "seen"] \in Right
      /\ rights'[r].stage = "seen" /\ rights'[r].holder = ended(r).holder
      /\ rights'[r].active = ended(r).active /\ rights'[r].revision = ended(r).revision
  BY <1>1, <1>2, <1>3 DEF Right
<1>5. rights' \in [Rights -> Right] /\ \A q \in Rights \ {r} : rights'[q] = rights[q]
  BY <1>1, <1>2, <1>4
<1>6. CASE rights[r].active /\ rights[r].holder # None
  <2>1. /\ rights[r].holder \in Holders
        /\ revocations' = Revoked(rights[r].holder, r, rights[r].revision + 1)
        /\ rights[r].revision + 1 > revocations[rights[r].holder][r]
    BY <1>1, <1>2, <1>6
  <2>2. /\ revocations' \in [Holders -> [Rights -> Nat]]
        /\ \A q \in Rights \ {r}, k \in Holders : revocations'[k][q] = revocations[k][q]
        /\ \A k \in Holders : revocations'[k][r] =
                IF rights[r].holder = k THEN rights[r].revision + 1 ELSE revocations[k][r]
    BY SMTT(60), <1>2, <2>1, RevokedCells
  <2>3. RowChange(r)
    BY <1>1, <1>2, <1>3, <1>4, <1>5, <1>6, <2>2, EndedRow
  <2>4. \A q \in Rights \ {r} : RowChange(q)
    BY <1>1, <1>5, <2>2, UntouchedRow
  <2> QED
    BY <1>1, <1>5, <2>2, <2>3, <2>4 DEF Commits
<1>7. CASE ~(rights[r].active /\ rights[r].holder # None)
  <2>1. revocations' = revocations
    BY <1>1, <1>7
  <2>2. RowChange(r)
    <3>1. CASE ~rights[r].active
      BY <1>1, <1>2, <1>3, <1>4, <2>1, <3>1, SeenRow
    <3>2. CASE rights[r].active
      <4>1. \A k \in Holders : revocations'[k][r] =
                IF rights[r].holder = k THEN rights[r].revision + 1 ELSE revocations[k][r]
        BY <1>7, <2>1, <3>2, RightsAssumption
      <4> QED
        BY <1>1, <1>2, <1>3, <1>4, <1>5, <3>2, <4>1, EndedRow
    <3> QED
      BY <3>1, <3>2
  <2>3. \A q \in Rights \ {r} : RowChange(q)
    BY <1>1, <1>5, <2>1, UntouchedRow
  <2> QED
    BY <1>1, <1>2, <1>5, <2>1, <2>2, <2>3 DEF Commits
<1> QED
  BY <1>6, <1>7

(***************************************************************************)
(* A link, or the lookup of an Apple transaction without one, changes its  *)
(* row as a commit may.                                                    *)
(***************************************************************************)
LEMMA CommitAppleRows ==
    ASSUME IInv, NEW i \in Lookups, NEW link \in Links \union {NoLink}, CommitApple(i, link)
    PROVE  Commits
<1> DEFINE linked(q) == IF link = NoLink \/ Replayed(rights[q], q, link)
                          THEN rights[q] ELSE Linked(rights[q], link)
<1>1. PICK r \in AppleRights :
        /\ ~KnownRefunded(rights[r])
        /\ link # NoLink => {link.target, link.source} \subseteq users \union {None}
        /\ rights' = [rights EXCEPT ![r] = [linked(r) EXCEPT !.active = TRUE, !.stage = "seen"]]
        /\ revocations' = IF linked(r).holder # rights[r].holder /\ rights[r].holder # None
                            THEN Revoked(rights[r].holder, r, linked(r).revision)
                            ELSE revocations
        /\ UNCHANGED <<provider, users, issued>>
  BY DEF CommitApple
<1>2. /\ rights \in [Rights -> Right] /\ revocations \in [Holders -> [Rights -> Nat]]
      /\ r \in Rights /\ r \notin Purchases
      /\ rights[r] \in Right /\ RowAgrees(r) /\ rights[r].revision \in Nat
      /\ rights[r].revision + 1 \in Nat /\ rights[r].holder \in Holders \union {None}
      /\ rights[r].holder \in users \union {None}
      /\ \A k \in Holders : revocations[k][r] \in Nat /\ revocations[k][r] <= rights[r].revision
  BY RightsAssumption DEF IInv, TypeOK, Right, RowsAgree, RowAgrees, RevocationsWithinRevision, Rights
<1>3. /\ linked(r) \in Right
      /\ \/ linked(r) = rights[r]
         \/ /\ linked(r).revision = rights[r].revision + 1
            /\ linked(r).holder \in users \union {None} /\ linked(r).holder # rights[r].holder
  <2>1. CASE linked(r) = rights[r]
    BY <1>2, <2>1
  <2>2. CASE linked(r) # rights[r]
    <3>1. /\ link \in Links /\ link # NoLink
          /\ linked(r) = Linked(rights[r], link) /\ rights[r].holder # link.target
      BY <2>2 DEF Linked
    <3>2. link.target \in Holders /\ link.target \in users \union {None}
      BY <1>1, <3>1 DEF Links
    <3>3. linked(r) = [rights[r] EXCEPT !.holder = link.target, !.revision = @ + 1]
      BY <3>1 DEF Linked
    <3>4. /\ [rights[r] EXCEPT !.holder = link.target] \in Right
          /\ \A q \in Right : [q EXCEPT !.revision = @ + 1] \in Right
      BY <1>2, <3>2 DEF Right
    <3>5. [rights[r] EXCEPT !.holder = link.target, !.revision = @ + 1]
            = [[rights[r] EXCEPT !.holder = link.target] EXCEPT !.revision = @ + 1]
      BY <1>2 DEF Right
    <3>6. linked(r) \in Right
      BY <3>3, <3>4, <3>5
    <3>7. linked(r).revision = rights[r].revision + 1 /\ linked(r).holder = link.target
      BY <1>2, <3>3 DEF Right
    <3> QED
      BY <3>1, <3>2, <3>6, <3>7
  <2> QED
    BY <2>1, <2>2
<1> HIDE DEF linked
<1>4. /\ [linked(r) EXCEPT !.active = TRUE, !.stage = "seen"] \in Right
      /\ rights'[r].stage = "seen" /\ rights'[r].holder = linked(r).holder
      /\ rights'[r].active = TRUE /\ rights'[r].revision = linked(r).revision
  BY <1>1, <1>2, <1>3 DEF Right
<1>5. rights' \in [Rights -> Right] /\ \A q \in Rights \ {r} : rights'[q] = rights[q]
  BY <1>1, <1>2, <1>4
<1>6. CASE linked(r) = rights[r]
  <2>1. revocations' = revocations
    BY <1>1, <1>6
  <2>2. rights[r].holder # None => rights[r].active = TRUE
    BY <1>1, <1>2 DEF RowAgrees, KnownRefunded, Right
  <2>3. RowChange(r)
    BY <1>1, <1>2, <1>4, <1>6, <2>1, <2>2, SeenRow
  <2>4. \A q \in Rights \ {r} : RowChange(q)
    BY <1>1, <1>5, <2>1, UntouchedRow
  <2> QED
    BY <1>1, <1>2, <1>5, <2>1, <2>3, <2>4 DEF Commits
<1>7. CASE linked(r) # rights[r]
  <2>1. /\ linked(r).revision = rights[r].revision + 1 /\ linked(r).holder \in users \union {None}
        /\ linked(r).holder # rights[r].holder
    BY <1>3, <1>7
  <2>2. /\ revocations' \in [Holders -> [Rights -> Nat]]
        /\ \A q \in Rights \ {r}, k \in Holders : revocations'[k][q] = revocations[k][q]
        /\ \A k \in Holders : revocations'[k][r] =
                IF rights[r].holder = k THEN rights[r].revision + 1 ELSE revocations[k][r]
    <3>1. CASE rights[r].holder # None
      <4>1. /\ rights[r].holder \in Holders
            /\ revocations' = Revoked(rights[r].holder, r, rights[r].revision + 1)
            /\ rights[r].revision + 1 > revocations[rights[r].holder][r]
        BY <1>1, <1>2, <2>1, <3>1
      <4> QED
        BY SMTT(60), <1>2, <4>1, RevokedCells
    <3>2. CASE rights[r].holder = None
      BY <1>1, <1>2, <3>2, RightsAssumption
    <3> QED
      BY <3>1, <3>2
  <2>3. RowChange(r)
    BY <1>1, <1>2, <1>4, <1>5, <2>1, <2>2, EndedRow
  <2>4. \A q \in Rights \ {r} : RowChange(q)
    BY <1>1, <1>5, <2>2, UntouchedRow
  <2> QED
    BY <1>1, <1>5, <2>2, <2>3, <2>4 DEF Commits
<1> QED
  BY <1>6, <1>7

(***************************************************************************)
(* The lookup a commit leaves behind is well typed.                        *)
(***************************************************************************)
LEMMA CommittedLook ==
    ASSUME look \in [Lookups -> Looks], LooksAgree, NEW i \in Lookups,
           NEW s \in Holders \union AppleRights, NEW t \in Holders \union {None},
           NEW held \in SUBSET Version, NEW signed \in SUBSET Version,
           s \in Holders => signed \subseteq held,
           look' = [look EXCEPT ![i] =
                      [Idle EXCEPT !.pc = "committed", !.subject = s, !.target = t,
                                   !.held = held, !.signed = signed]]
    PROVE  /\ look' \in [Lookups -> Looks] /\ LooksAgree'
           /\ look'[i].pc = "committed" /\ \A j \in Lookups \ {i} : look'[j] = look[j]
<1>1. /\ Idle \in Looks /\ Idle.owned = {} /\ Idle.revoked = {}
  BY IdleLook DEF Idle
<1> DEFINE after == [Idle EXCEPT !.pc = "committed", !.subject = s, !.target = t,
                                 !.held = held, !.signed = signed]
<1>2. /\ after \in Looks
      /\ after.pc = "committed" /\ after.subject = s
      /\ after.owned = {} /\ after.revoked = {}
      /\ after.held = held /\ after.signed = signed
  BY <1>1 DEF Looks
<1>3. look' = [look EXCEPT ![i] = after]
  OBVIOUS
<1> HIDE DEF after
<1>4. look' \in [Lookups -> Looks]
  BY <1>2, <1>3
<1>5. \A j \in Lookups : look'[j] = IF j = i THEN after ELSE look[j]
  BY <1>3
<1>6. \A j \in Lookups : LookAgrees(j)'
  BY <1>2, <1>5 DEF LooksAgree, LookAgrees
<1> QED
  BY <1>2, <1>4, <1>5, <1>6 DEF LooksAgree

\* The links as TypeOK has them
LinkRows ==
    [op : Operations, right : AppleRights, target : Holders \union {None},
     source : Holders \union {None}, expected : Nat, resulting : Nat]

(***************************************************************************)
(* What the commit of an account's lookup leaves is well typed.            *)
(***************************************************************************)
LEMMA CommitAccessType ==
    ASSUME IInv, NEW i \in Lookups, CommitAccess(i)
    PROVE  /\ look' \in [Lookups -> Looks] /\ LooksAgree'
           /\ look'[i].pc = "committed" /\ \A j \in Lookups \ {i} : look'[j] = look[j]
           /\ refunded' \subseteq Holders \X Purchases
<1>1. Commits
  BY CommitAccessRows
<1>2. /\ look \in [Lookups -> Looks] /\ look[i] \in Looks /\ LooksAgree
      /\ rights' \in [Rights -> Right]
      /\ refunded \subseteq Holders \X Purchases
  BY <1>1 DEF IInv, TypeOK, Looks, Commits
<1>3. PICK h \in Holders, owned \in SUBSET Rights, revoked \in SUBSET Purchases,
           fresh \in SUBSET AppleRights :
        /\ look' = [look EXCEPT ![i] = [Idle EXCEPT !.pc = "committed", !.subject = h,
                      !.held = HeldBy(h, rights'),
                      !.signed = {v \in HeldBy(h, rights') : v.right \in owned \union fresh}]]
        /\ refunded' = refunded \union
              {<<h, r>> : r \in {q \in revoked : rights[q].stage # "none"}}
  <2>1. look[i].subject \in Holders /\ look[i].owned \in SUBSET Rights
    BY <1>2 DEF CommitAccess, Looks
  <2>2. look[i].revoked \in SUBSET Purchases
    BY <1>2, <2>1 DEF LooksAgree, LookAgrees
  <2> QED
    BY <2>1, <2>2 DEF CommitAccess
<1> DEFINE held == HeldBy(h, rights')
           signed == {v \in held : v.right \in owned \union fresh}
<1>4. held \in SUBSET Version /\ signed \in SUBSET Version /\ signed \subseteq held
  BY <1>2 DEF HeldBy, Version, Right
<1>5. look' = [look EXCEPT ![i] = [Idle EXCEPT !.pc = "committed", !.subject = h,
                 !.target = None, !.held = held, !.signed = signed]]
  <2>1. Idle \in Looks /\ Idle.target = None
    BY IdleLook DEF Idle
  <2> QED
    BY <1>3, <2>1 DEF Looks
<1> HIDE DEF held, signed
<1>6. /\ look' \in [Lookups -> Looks] /\ LooksAgree'
      /\ look'[i].pc = "committed" /\ \A j \in Lookups \ {i} : look'[j] = look[j]
  BY <1>2, <1>4, <1>5, CommittedLook
<1>7. refunded' \subseteq Holders \X Purchases
  BY <1>2, <1>3
<1> QED
  BY <1>6, <1>7

(***************************************************************************)
(* What the commit of an Apple transaction leaves is well typed.           *)
(***************************************************************************)
LEMMA CommitAppleType ==
    ASSUME IInv, NEW i \in Lookups, NEW link \in Links \union {NoLink}, CommitApple(i, link)
    PROVE  /\ look' \in [Lookups -> Looks] /\ LooksAgree'
           /\ look'[i].pc = "committed" /\ \A j \in Lookups \ {i} : look'[j] = look[j]
           /\ \A l \in links' : l \in LinkRows
<1>1. /\ look \in [Lookups -> Looks] /\ LooksAgree
      /\ rights \in [Rights -> Right]
      /\ \A l \in links : l \in LinkRows
  BY DEF IInv, TypeOK, Looks, LinkRows
<1> DEFINE Outcome(q, after) ==
        /\ after \in {rights[q], Linked(rights[q], link)}
        /\ links' = IF link = NoLink THEN links
                    ELSE links \union {[op |-> link.op, right |-> q, target |-> link.target,
                                        source |-> link.source, expected |-> link.revision,
                                        resulting |-> after.revision]}
        /\ look' = [look EXCEPT ![i] = [Idle EXCEPT !.pc = "committed", !.subject = q,
                      !.target = link.target, !.signed = {[right |-> q, revision |-> after.revision]}]]
<1>0. PICK r \in AppleRights : \E after : Outcome(r, after)
  BY DEF CommitApple
<1>2. PICK after : Outcome(r, after)
  BY <1>0
<1>3. r \in Rights /\ r \notin Holders /\ rights[r] \in Right
  BY <1>1, RightsAssumption DEF Rights
<1>4. after.revision \in Nat
  <2>1. /\ \A q \in Right : q.revision \in Nat
        /\ [rights[r] EXCEPT !.holder = link.target, !.revision = @ + 1].revision \in Nat
    BY <1>3 DEF Right
  <2> QED
    BY <1>2, <1>3, <2>1 DEF Linked
<1>5. link.target \in Holders \union {None}
  BY DEF Links, NoLink
<1> DEFINE signed == {[right |-> r, revision |-> after.revision]}
<1>6. signed \in SUBSET Version
  BY <1>3, <1>4 DEF Version
<1>7. look' = [look EXCEPT ![i] = [Idle EXCEPT !.pc = "committed", !.subject = r,
                 !.target = link.target, !.held = {}, !.signed = signed]]
  <2>1. Idle \in Looks /\ Idle.held = {}
    BY IdleLook DEF Idle
  <2> QED
    BY <1>2, <2>1 DEF Looks
<1> HIDE DEF signed
<1>8. /\ look' \in [Lookups -> Looks] /\ LooksAgree'
      /\ look'[i].pc = "committed" /\ \A j \in Lookups \ {i} : look'[j] = look[j]
  BY <1>1, <1>3, <1>5, <1>6, <1>7, CommittedLook
<1>9. \A l \in links' : l \in LinkRows
  <2>1. CASE link = NoLink
    BY <1>1, <1>2, <2>1
  <2>2. CASE link # NoLink
    <3>1. /\ link.op \in Operations /\ link.target \in Holders
          /\ link.source \in Holders \union {None} /\ link.revision \in Nat
      BY <2>2, RightsAssumption DEF Links
    <3>2. [op |-> link.op, right |-> r, target |-> link.target, source |-> link.source,
           expected |-> link.revision, resulting |-> after.revision] \in LinkRows
      BY <1>4, <3>1 DEF LinkRows
    <3> QED
      BY <1>1, <1>2, <2>2, <3>2
  <2> QED
    BY <2>1, <2>2
<1> QED
  BY <1>8, <1>9

(***************************************************************************)
(* A commit preserves the invariant.                                       *)
(***************************************************************************)
LEMMA CommitStep ==
    ASSUME IInv, NEW i \in Lookups,
           \/ CommitAccess(i) \/ CommitAppleRefund(i)
           \/ \E link \in Links \union {NoLink} : CommitApple(i, link)
    PROVE  IInv' /\ Commits
<1>1. Commits
  BY CommitAccessRows, CommitAppleRefundRows, CommitAppleRows
<1>2. /\ look \in [Lookups -> Looks] /\ LooksAgree /\ TypeOK
      /\ observed \in [Holders \union AppleRights -> Lookups \union {None}]
      /\ \A l \in links : l \in LinkRows
      /\ refunded \subseteq Holders \X Purchases
  BY DEF IInv, TypeOK, Looks, LinkRows
<1>3. /\ look' \in [Lookups -> Looks] /\ LooksAgree'
      /\ observed' \in [Holders \union AppleRights -> Lookups \union {None}]
      /\ \A l \in links' : l \in LinkRows
      /\ refunded' \subseteq Holders \X Purchases
  <2>1. CASE CommitAccess(i)
    <3>1. UNCHANGED <<observed, links>>
      BY <2>1 DEF CommitAccess
    <3> QED
      BY <1>2, <2>1, <3>1, CommitAccessType
  <2>2. CASE CommitAppleRefund(i)
    <3>1. Finish(i) /\ UNCHANGED <<links, refunded>>
      BY <2>2 DEF CommitAppleRefund
    <3> QED
      BY <1>2, <3>1, FinishType
  <2>3. ASSUME NEW link \in Links \union {NoLink}, CommitApple(i, link)
        PROVE  /\ look' \in [Lookups -> Looks] /\ LooksAgree'
               /\ observed' \in [Holders \union AppleRights -> Lookups \union {None}]
               /\ \A l \in links' : l \in LinkRows
               /\ refunded' \subseteq Holders \X Purchases
    <3>1. UNCHANGED <<observed, refunded>>
      BY <2>3 DEF CommitApple
    <3> QED
      BY <1>2, <2>3, <3>1, CommitAppleType
  <2> QED
    BY <2>1, <2>2, <2>3
<1>4. TypeOK'
  BY <1>1, <1>2, <1>3 DEF TypeOK, Commits, Looks, LinkRows, provider
<1>5. RowsAgree' /\ RevocationsWithinRevision'
  BY <1>1 DEF Commits, RowChange, RowsAgree, RevocationsWithinRevision
<1>6. OrphansStayInactive'
  BY <1>1 DEF Commits, RowChange, OrphansStayInactive, Rights
<1> QED
  BY <1>1, <1>3, <1>4, <1>5, <1>6 DEF IInv

(***************************************************************************)
(* The lookup of an Apple transaction may begin a row: a placeholder that  *)
(* nobody holds and nothing activates.                                     *)
(***************************************************************************)
LEMMA BeginAppleStep ==
    ASSUME IInv, NEW i \in Lookups, NEW r \in AppleRights, BeginApple(i, r)
    PROVE  /\ IInv'
           /\ \A q \in Rights :
                /\ rights'[q].holder = rights[q].holder /\ rights'[q].active = rights[q].active
                /\ rights'[q].revision = rights[q].revision
                /\ rights'[q].stage = "none" => rights[q].stage = "none"
                /\ rights[q].stage = "seen" => rights'[q] = rights[q]
<1>1. /\ look \in [Lookups -> Looks] /\ look[i] \in Looks /\ LooksAgree /\ TypeOK
      /\ observed \in [Holders \union AppleRights -> Lookups \union {None}]
      /\ rights \in [Rights -> Right] /\ r \in Rights /\ rights[r] \in Right
  BY DEF IInv, TypeOK, Looks, Rights
<1> DEFINE stage == IF rights[r].stage = "none" THEN "placeholder" ELSE rights[r].stage
<1>2. rights' = [rights EXCEPT ![r] = [@ EXCEPT !.stage = stage]]
  BY <1>1 DEF BeginApple
<1>3. stage \in {"placeholder", "seen"}
  BY <1>1 DEF Right
<1>4. rights' \in [Rights -> Right]
  BY <1>1, <1>2, <1>3 DEF Right
<1>5. \A q \in Rights :
        /\ rights'[q].holder = rights[q].holder /\ rights'[q].active = rights[q].active
        /\ rights'[q].revision = rights[q].revision
        /\ rights'[q].stage = "none" => rights[q].stage = "none" /\ rights'[q] = rights[q]
        /\ rights[q].stage = "seen" => rights'[q] = rights[q]
  BY <1>1, <1>2, <1>3 DEF Right
<1>6. /\ observed' \in [Holders \union AppleRights -> Lookups \union {None}]
      /\ UNCHANGED <<charge, customer, users, revocations, links, issued, refunded>>
  BY <1>1 DEF BeginApple, provider
<1>7. look' \in [Lookups -> Looks] /\ LooksAgree'
  <2>1. look' = [look EXCEPT ![i] = [@ EXCEPT !.pc = "begun", !.subject = r]]
    BY <1>1 DEF BeginApple
  <2>2. [look[i] EXCEPT !.pc = "begun", !.subject = r] \in Looks
    BY <1>1 DEF Looks
  <2>3. look[i].signed = {} /\ look[i].owned = {} /\ look[i].revoked = {}
    BY DEF BeginApple, IInv, LooksAgree, LookAgrees
  <2>4. LooksAgree'
    BY <1>1, <2>1, <2>3 DEF LooksAgree, LookAgrees, Looks
  <2> QED
    BY <1>1, <2>1, <2>2, <2>4
<1>8. TypeOK'
  BY <1>1, <1>4, <1>6, <1>7 DEF TypeOK, Looks
<1>9. RowsAgree'
  BY <1>5, <1>6 DEF IInv, RowsAgree, RowAgrees
<1>10. RevocationsWithinRevision' /\ OrphansStayInactive'
  BY <1>5, <1>6 DEF IInv, RevocationsWithinRevision, OrphansStayInactive, Rights
<1> QED
  BY <1>5, <1>7, <1>8, <1>9, <1>10 DEF IInv

\* What the departure of an account makes of the row of a right: the rights of
\* others stay, and its own lose their holder without going back.
RowLeft(h, r) ==
    /\ rights[r].holder # h => rights'[r] = rights[r]
    /\ rights[r].holder = h =>
        /\ rights'[r].holder = None /\ rights'[r].stage = rights[r].stage
        /\ rights'[r].revision >= rights[r].revision /\ rights'[r].revision > 0
        /\ r \in Purchases => rights'[r].active = FALSE
        /\ r \in AppleRights => rights'[r].active = rights[r].active

(***************************************************************************)
(* The deletion of an account deactivates the purchases it held, releases  *)
(* its Apple rights, and preserves the invariant.                          *)
(***************************************************************************)
LEMMA DeleteStep ==
    ASSUME IInv, NEW h \in Holders, DeleteAccount(h)
    PROVE  IInv' /\ \A r \in Rights : RowLeft(h, r)
<1>1. /\ rights \in [Rights -> Right] /\ LooksAgree /\ TypeOK
      /\ revocations \in [Holders -> [Rights -> Nat]]
      /\ \A r \in Rights :
            /\ rights[r] \in Right /\ RowAgrees(r)
            /\ r \in Purchases /\ rights[r].holder = None => ~rights[r].active
            /\ \A k \in Holders : revocations[k][r] <= rights[r].revision
  BY DEF IInv, TypeOK, RowsAgree, RevocationsWithinRevision, OrphansStayInactive
<1>2. h # None
  BY RightsAssumption
<1>3. \A r \in Rights : LeftBehind(r) \in Right
  <2> TAKE r \in Rights
  <2>1. Deactivated(rights[r]) \in Right
    BY <1>1, RowType DEF Deactivated
  <2>2. \A q \in Right : [q EXCEPT !.holder = None] \in Right
    BY DEF Right
  <2> QED
    BY <1>1, <2>1, <2>2 DEF LeftBehind
<1>4. \A r \in Rights :
        /\ LeftBehind(r).holder = None /\ LeftBehind(r).stage = rights[r].stage
        /\ r \in Purchases /\ rights[r].active =>
              LeftBehind(r).revision = rights[r].revision + 1 /\ LeftBehind(r).active = FALSE
        /\ ~(r \in Purchases /\ rights[r].active) =>
              LeftBehind(r).revision = rights[r].revision /\ LeftBehind(r).active = rights[r].active
  <2> TAKE r \in Rights
  <2>1. /\ Deactivated(rights[r]) \in Right
        /\ Deactivated(rights[r]).stage = rights[r].stage
        /\ Deactivated(rights[r]).revision = rights[r].revision + 1
        /\ Deactivated(rights[r]).active = FALSE
    BY <1>1, RowType DEF Deactivated, Right
  <2>2. \A q \in Right :
          /\ [q EXCEPT !.holder = None].holder = None /\ [q EXCEPT !.holder = None].stage = q.stage
          /\ [q EXCEPT !.holder = None].revision = q.revision
          /\ [q EXCEPT !.holder = None].active = q.active
    BY DEF Right
  <2> QED
    BY <1>1, <2>1, <2>2 DEF LeftBehind
<1>5. /\ \A r \in Rights :
          rights'[r] = IF rights[r].holder = h THEN LeftBehind(r) ELSE rights[r]
      /\ rights' \in [Rights -> Right]
  BY <1>1, <1>3 DEF DeleteAccount
<1>6. \A r \in Rights : rights[r].revision \in Nat /\ rights[r].active \in BOOLEAN
  BY <1>1 DEF Right
<1>7. \A r \in Rights : RowLeft(h, r)
  <2> TAKE r \in Rights
  <2>1. CASE rights[r].holder # h
    BY <1>5, <2>1 DEF RowLeft
  <2>2. CASE rights[r].holder = h
    <3>1. rights[r].revision > 0 \/ (r \notin AppleRights /\ rights[r].active)
      BY <1>1, <1>2, <2>2 DEF RowAgrees
    <3>2. r \in AppleRights => r \notin Purchases
      BY RightsAssumption
    <3>3. r \in Purchases \/ r \in AppleRights
      BY DEF Rights
    <3>4. /\ rights'[r] = LeftBehind(r)
          /\ rights[r].active = TRUE \/ rights[r].active = FALSE
      BY <1>5, <1>6, <2>2
    <3> QED
      BY <1>4, <1>6, <2>2, <3>1, <3>2, <3>3, <3>4 DEF RowLeft
  <2> QED
    BY <2>1, <2>2
<1>8. /\ users' = users \ {h} /\ UNCHANGED <<charge, customer, look, issued, refunded>>
      /\ observed' = [observed EXCEPT ![h] = None]
      /\ revocations' = [revocations EXCEPT ![h] = [r \in Rights |-> 0]]
  BY DEF DeleteAccount, provider
<1>9. /\ revocations' \in [Holders -> [Rights -> Nat]]
      /\ \A k \in Holders, r \in Rights :
            revocations'[k][r] = IF k = h THEN 0 ELSE revocations[k][r]
  BY <1>1, <1>8
<1>10. \A l \in links' : l \in LinkRows
  <2>1. \A l \in LinkRows :
          [l EXCEPT !.target = IF @ = h THEN None ELSE @,
                    !.source = IF @ = h THEN None ELSE @] \in LinkRows
    BY DEF LinkRows
  <2>2. \A l \in links : l \in LinkRows
    BY <1>1 DEF TypeOK, LinkRows
  <2> QED
    BY <2>1, <2>2 DEF DeleteAccount
<1>11. TypeOK'
  BY <1>1, <1>5, <1>8, <1>9, <1>10 DEF TypeOK, LinkRows
<1>12. RowsAgree'
  BY <1>1, <1>2, <1>7, <1>8 DEF RowsAgree, RowAgrees, RowLeft, NoRight
<1>13. RevocationsWithinRevision'
  BY <1>1, <1>5, <1>6, <1>7, <1>9 DEF RevocationsWithinRevision, RowLeft, Right
<1>14. OrphansStayInactive'
  BY <1>1, <1>7 DEF OrphansStayInactive, RowLeft, Rights
<1>15. LooksAgree'
  BY <1>1, <1>8 DEF LooksAgree, LookAgrees
<1> QED
  BY <1>7, <1>11, <1>12, <1>13, <1>14, <1>15 DEF IInv

(***************************************************************************)
(* The invariant holds of every state of the ledger.                       *)
(***************************************************************************)
THEOREM Invariance == Spec => []IInv
<1>1. Init => IInv
  BY InitInvariant
<1>2. ASSUME IInv, [Next]_vars PROVE IInv'
  <2>1. CASE (\E r \in Rights : Refund(r)) \/ (\E r \in Purchases, h \in Holders : MovePurchase(r, h))
    BY <1>2, <2>1, ProviderStep
  <2>2. ASSUME NEW h \in Holders, DeleteAccount(h) PROVE IInv'
    BY <1>2, <2>2, DeleteStep
  <2>3. ASSUME NEW i \in Lookups, NEW r \in AppleRights, BeginApple(i, r) PROVE IInv'
    BY <1>2, <2>3, BeginAppleStep
  <2>4. ASSUME NEW i \in Lookups,
               \/ \E h \in Holders : Begin(i, h)
               \/ ReadListing(i) \/ ReadApple(i) \/ Abandon(i)
        PROVE  IInv'
    BY <1>2, <2>4, LookupStep
  <2>5. ASSUME NEW i \in Lookups, ConfirmAccess(i) \/ ConfirmApple(i) PROVE IInv'
    BY <1>2, <2>5, ConfirmStep
  <2>6. ASSUME NEW i \in Lookups,
               \/ CommitAccess(i) \/ CommitAppleRefund(i)
               \/ \E link \in Links \union {NoLink} : CommitApple(i, link)
        PROVE  IInv'
    BY <1>2, <2>6, CommitStep
  <2>7. CASE UNCHANGED vars
    BY <1>2, <2>7 DEF vars, IInv, TypeOK, RowsAgree, RowAgrees, RevocationsWithinRevision,
                      LooksAgree, LookAgrees, OrphansStayInactive
  <2> QED
    BY <1>2, <2>1, <2>2, <2>3, <2>4, <2>5, <2>6, <2>7 DEF Next
<1> QED
  BY <1>1, <1>2, PTL DEF Spec

(***************************************************************************)
(* The variables stay well typed.                                          *)
(***************************************************************************)
THEOREM TypeCorrect == Spec => []TypeOK
<1>1. IInv => TypeOK
  BY DEF IInv
<1> QED
  BY <1>1, Invariance, PTL

(***************************************************************************)
(* OrphansStayInactive: what a deleted account bought stays inactive       *)
(* until a lookup finds it listed under an account of its own.             *)
(***************************************************************************)
THEOREM OrphansInactive == Spec => []OrphansStayInactive
<1>1. IInv => OrphansStayInactive
  BY DEF IInv
<1> QED
  BY <1>1, Invariance, PTL

(***************************************************************************)
(* AppleRefundIsFinal: no step activates an Apple right again once its row *)
(* has been seen inactive.                                                 *)
(***************************************************************************)
THEOREM AppleRefundsAreFinal == Spec => AppleRefundIsFinal
<1> DEFINE Final == \A r \in AppleRights :
                        rights[r].stage = "seen" /\ ~rights[r].active => ~rights'[r].active
<1>1. ASSUME IInv, [Next]_vars PROVE Final
  <2>1. CASE UNCHANGED rights
    BY <2>1
  <2>2. ASSUME NEW h \in Holders, DeleteAccount(h) PROVE Final
    <3>1. \A r \in AppleRights : RowLeft(h, r) /\ r \in Rights
      BY <1>1, <2>2, DeleteStep DEF Rights
    <3> QED
      BY <3>1 DEF RowLeft
  <2>3. ASSUME NEW i \in Lookups, NEW r \in AppleRights, BeginApple(i, r) PROVE Final
    BY <1>1, <2>3, BeginAppleStep DEF Rights
  <2>4. ASSUME NEW i \in Lookups, CommitAccess(i) PROVE Final
    <3> DEFINE h == look[i].subject
               owned == look[i].owned
               revoked == look[i].revoked
    <3>1. h \in Holders /\ owned \subseteq Purchases
      BY <1>1, <2>4 DEF CommitAccess, IInv, LooksAgree, LookAgrees
    <3>2. \A r \in Rights : rights'[r] = Committed(h, r, owned, revoked)
      BY <2>4 DEF CommitAccess
    <3> HIDE DEF h, owned, revoked
    <3>3. \A r \in Rights : CommittedShape(h, r, owned, revoked, rights'[r])
      BY <1>1, <3>1, <3>2, CommittedCases
    <3>4. \A r \in AppleRights : r \in Rights /\ r \notin owned
      BY <3>1, RightsAssumption DEF Rights
    <3> QED
      BY <3>3, <3>4 DEF CommittedShape, Kept, Inserted, Reactivated, Ended
  <2>5. ASSUME NEW i \in Lookups, CommitAppleRefund(i) PROVE Final
    <3>1. PICK r \in AppleRights :
            rights' = [rights EXCEPT ![r] =
              [(IF rights[r].active THEN Deactivated(rights[r]) ELSE rights[r]) EXCEPT !.stage = "seen"]]
      BY <2>5 DEF CommitAppleRefund
    <3>2. rights \in [Rights -> Right] /\ r \in Rights /\ rights[r] \in Right
      BY <1>1 DEF IInv, TypeOK, Rights
    <3>3. ~rights[r].active => ~rights'[r].active
      BY <3>1, <3>2 DEF Right
    <3>4. \A q \in AppleRights \ {r} : rights'[q] = rights[q]
      BY <3>1, <3>2 DEF Rights
    <3> QED
      BY <3>3, <3>4
  <2>6. ASSUME NEW i \in Lookups, NEW link \in Links \union {NoLink}, CommitApple(i, link)
        PROVE  Final
    <3>0. PICK r \in AppleRights : \E after :
            /\ ~KnownRefunded(rights[r])
            /\ rights' = [rights EXCEPT ![r] = after]
      BY <2>6 DEF CommitApple
    <3>1. PICK after :
            /\ ~KnownRefunded(rights[r])
            /\ rights' = [rights EXCEPT ![r] = after]
      BY <3>0
    <3>2. \A q \in AppleRights \ {r} : rights'[q] = rights[q]
      BY <1>1, <3>1 DEF IInv, TypeOK, Rights
    <3> QED
      BY <3>1, <3>2 DEF KnownRefunded
  <2> QED
    BY <1>1, <2>1, <2>2, <2>3, <2>4, <2>5, <2>6
    DEF Next, vars, Refund, MovePurchase, Begin, ReadListing, ReadApple, Abandon, ConfirmAccess,
        ConfirmApple
<1> QED
  BY <1>1, Invariance, PTL DEF Spec, AppleRefundIsFinal

-----------------------------------------------------------------------------
(* The refinement                                                           *)

Proofs == [holder : Holders, right : Rights, revision : Nat]

\* What the mapping makes of the rows
MappingFacts ==
    /\ \A v : v \in InForce <=>
        /\ v \in Proofs
        /\ rights[v.right].active /\ rights[v.right].holder = v.holder
        /\ rights[v.right].revision = v.revision
    /\ \A r \in Rights :
        /\ NextRevision(r) \in Nat
        /\ rights[r].active /\ rights[r].holder # None => rights[r].revision < NextRevision(r)
        /\ NextRevision(r) <= rights[r].revision + 1
        /\ rights[r] = NoRight => NextRevision(r) = 0

(***************************************************************************)
(* The mapping, read row by row.                                           *)
(***************************************************************************)
LEMMA Mapping == IInv => MappingFacts
<1> SUFFICES ASSUME IInv PROVE MappingFacts
  OBVIOUS
<1>1. \A r \in Rights : rights[r] \in Right /\ RowAgrees(r) /\ rights[r].revision \in Nat
  BY DEF IInv, TypeOK, RowsAgree, Right
<1>2. \A r \in Rights :
        /\ NextRevision(r) \in Nat
        /\ rights[r].active /\ rights[r].holder # None => rights[r].revision < NextRevision(r)
        /\ NextRevision(r) <= rights[r].revision + 1
        /\ rights[r] = NoRight => NextRevision(r) = 0
  BY <1>1 DEF NextRevision, RowAgrees, NoRight
<1>3. ASSUME NEW v, v \in InForce
      PROVE  /\ v \in Proofs
             /\ rights[v.right].active /\ rights[v.right].holder = v.holder
             /\ rights[v.right].revision = v.revision
  <2>1. PICK r \in Rights :
          /\ v = [holder |-> rights[r].holder, right |-> r, revision |-> rights[r].revision]
          /\ rights[r].active /\ rights[r].holder # None
    BY <1>3 DEF InForce
  <2>2. rights[r].holder \in Holders /\ rights[r].revision \in Nat
    BY <1>1, <2>1 DEF Right
  <2> QED
    BY <2>1, <2>2 DEF Proofs
<1>4. ASSUME NEW v \in Proofs,
             rights[v.right].active, rights[v.right].holder = v.holder,
             rights[v.right].revision = v.revision
      PROVE  v \in InForce
  <2>1. v = [holder |-> v.holder, right |-> v.right, revision |-> v.revision]
    BY DEF Proofs
  <2>2. v.right \in Rights /\ v.holder # None
    BY RightsAssumption DEF Proofs
  <2> QED
    BY <1>4, <2>1, <2>2 DEF InForce
<1> QED
  BY <1>2, <1>3, <1>4 DEF MappingFacts

(***************************************************************************)
(* A commit, row by row, is a Change of the abstract ledger.               *)
(***************************************************************************)
LEMMA CommitIsChange ==
    ASSUME IInv, IInv', MappingFacts, MappingFacts', Commits
    PROVE  Ledger!Change
<1>1. \A r \in Rights :
        /\ rights[r].revision \in Nat /\ rights'[r].revision \in Nat
        /\ RowChange(r) /\ RowAgrees(r) /\ RowAgrees(r)'
  BY DEF IInv, TypeOK, Right, RowsAgree, Commits
<1>2. \A r \in Rights, h \in Holders :
        revocations[h][r] \in Nat /\ revocations'[h][r] \in Nat
  BY DEF IInv, TypeOK
<1>3. InForce' \subseteq Ledger!Proof
  BY DEF MappingFacts, Proofs, Ledger!Proof
<1>4. Ledger!Alone(InForce')
  <2>1. ASSUME NEW v \in Proofs, NEW w \in Proofs, v.right = w.right, v.holder = w.holder,
               v.revision = w.revision
        PROVE  v = w
    BY <2>1 DEF Proofs
  <2> QED
    BY <2>1 DEF MappingFacts, Ledger!Alone
<1>5. ASSUME NEW v \in InForce' \ InForce
      PROVE  v.holder \in users /\ v.revision >= NextRevision(v.right)
  <2>1. /\ v \in Proofs /\ v.right \in Rights /\ v.holder \in Holders /\ v.holder # None
        /\ rights'[v.right].active /\ rights'[v.right].holder = v.holder
        /\ rights'[v.right].revision = v.revision
        /\ ~(/\ rights[v.right].active /\ rights[v.right].holder = v.holder
             /\ rights[v.right].revision = v.revision)
    BY RightsAssumption DEF MappingFacts, Proofs
  <2>2. v.holder \in users
    BY <1>1, <2>1 DEF RowAgrees, Commits
  <2>3. \/ v.revision = rights[v.right].revision + 1
        \/ rights[v.right] = NoRight /\ v.revision = 0
    BY <1>1, <2>1 DEF RowChange
  <2> QED
    BY <1>1, <2>1, <2>2, <2>3 DEF MappingFacts
<1>6. \A r \in Rights : NextRevision(r)' \in Nat /\ NextRevision(r)' >= NextRevision(r)
  <2> TAKE r \in Rights
  <2>1. /\ NextRevision(r)' \in Nat /\ NextRevision(r) \in Nat
        /\ NextRevision(r) <= rights[r].revision + 1
        /\ rights[r] = NoRight => NextRevision(r) = 0
    BY DEF MappingFacts
  <2>2. CASE rights[r] = NoRight
    BY <2>1, <2>2
  <2>3. CASE rights'[r].revision = rights[r].revision + 1
    <3>1. rights'[r].stage # "none" /\ rights'[r].revision # 0
      BY <1>1, <2>3 DEF RowAgrees, NoRight
    <3>2. NextRevision(r)' = rights'[r].revision + 1
      BY <3>1 DEF NextRevision
    <3> QED
      BY <1>1, <2>1, <2>3, <3>2
  <2>4. CASE /\ rights'[r].holder = rights[r].holder
             /\ rights'[r].revision = rights[r].revision
    <3>1. rights'[r].stage = "none" => rights[r].holder = None /\ rights[r].revision = 0
      BY <1>1, <2>4 DEF RowAgrees, NoRight
    <3> QED
      BY <1>1, <2>1, <2>4, <3>1 DEF NextRevision
  <2> QED
    BY <1>1, <2>2, <2>3, <2>4 DEF RowChange
<1>7. ASSUME NEW v \in InForce'
      PROVE  v.revision < NextRevision(v.right)' /\ revocations'[v.holder][v.right] <= v.revision
  <2>1. /\ v.right \in Rights /\ v.holder \in Holders /\ v.holder # None
        /\ rights'[v.right].active /\ rights'[v.right].holder = v.holder
        /\ rights'[v.right].revision = v.revision
    BY <1>7, RightsAssumption DEF MappingFacts, Proofs
  <2> QED
    BY <1>1, <2>1 DEF MappingFacts, RowChange
<1>8. ASSUME NEW v \in InForce \ InForce'
      PROVE  revocations'[v.holder][v.right] > v.revision
  <2>1. /\ v \in Proofs /\ v.right \in Rights /\ v.holder \in Holders
        /\ rights[v.right].active /\ rights[v.right].holder = v.holder
        /\ rights[v.right].revision = v.revision
        /\ ~(/\ rights'[v.right].active /\ rights'[v.right].holder = v.holder
             /\ rights'[v.right].revision = v.revision)
    BY <1>8 DEF MappingFacts, Proofs
  <2> QED
    BY <1>1, <2>1 DEF RowChange
<1>9. [r \in Rights |-> NextRevision(r)'] \in [Rights -> Nat]
  BY <1>6
<1>10. /\ revocations' \in [Holders -> [Rights -> Nat]]
       /\ \A h \in Holders, r \in Rights : revocations'[h][r] >= revocations[h][r]
       /\ UNCHANGED <<users, issued>>
  BY <1>1 DEF Commits, RowChange
<1>11. \A v \in InForce' \union InForce : v.right \in Rights
  BY DEF MappingFacts, Proofs
<1> QED
  BY <1>3, <1>4, <1>5, <1>6, <1>7, <1>8, <1>9, <1>10, <1>11 DEF Ledger!Change, Numbering

(***************************************************************************)
(* A deletion is the departure of an account from the abstract ledger.     *)
(***************************************************************************)
LEMMA DeletionIsLeave ==
    ASSUME IInv, IInv', MappingFacts, MappingFacts', NEW h \in Holders, DeleteAccount(h)
    PROVE  Ledger!Leave(h)
<1>1. \A r \in Rights :
        /\ rights[r].revision \in Nat /\ rights'[r].revision \in Nat
        /\ RowLeft(h, r) /\ RowAgrees(r) /\ RowAgrees(r)'
  BY DeleteStep DEF IInv, TypeOK, Right, RowsAgree
<1>2. InForce' = {v \in InForce : v.holder # h}
  <2>1. ASSUME NEW v
        PROVE  v \in InForce' <=> v \in InForce /\ v.holder # h
    <3>1. CASE v \in Proofs
      <4>1. v.right \in Rights /\ v.holder # None /\ v.holder \in Holders
        BY <3>1, RightsAssumption DEF Proofs
      <4> QED
        BY <1>1, <3>1, <4>1 DEF MappingFacts, RowLeft
    <3>2. CASE v \notin Proofs
      BY <3>2 DEF MappingFacts
    <3> QED
      BY <3>1, <3>2
  <2> QED
    BY <2>1
<1>3. \A r \in Rights : NextRevision(r)' \in Nat /\ NextRevision(r)' >= NextRevision(r)
  <2> TAKE r \in Rights
  <2>1. CASE rights[r].holder # h
    BY <1>1, <2>1 DEF RowLeft, NextRevision, MappingFacts
  <2>2. CASE rights[r].holder = h
    <3>1. rights'[r].stage # "none" /\ rights'[r].revision > 0
          /\ rights'[r].revision >= rights[r].revision
      BY <1>1, <2>2, RightsAssumption DEF RowLeft, RowAgrees
    <3>2. NextRevision(r)' = rights'[r].revision + 1
      BY <1>1, <3>1 DEF NextRevision
    <3> QED
      BY <1>1, <3>1, <3>2 DEF MappingFacts
  <2> QED
    BY <2>1, <2>2
<1>4. [r \in Rights |-> NextRevision(r)'] \in [Rights -> Nat]
  BY <1>3
<1> QED
  BY <1>2, <1>3, <1>4 DEF Ledger!Leave, Numbering, DeleteAccount

(***************************************************************************)
(* What a confirmation sends is in force at that moment.                   *)
(***************************************************************************)
LEMMA ConfirmationIsSend ==
    ASSUME IInv, MappingFacts, NEW i \in Lookups, ConfirmAccess(i) \/ ConfirmApple(i)
    PROVE  \E proofs \in SUBSET InForce : Ledger!Send(proofs)
<1>1. /\ look[i] \in Looks /\ LookAgrees(i)
      /\ rights \in [Rights -> Right]
  BY DEF IInv, TypeOK, LooksAgree, Looks
<1>2. UNCHANGED <<users, rights, revocations>>
  BY DEF ConfirmAccess, ConfirmApple
<1>3. ASSUME NEW proofs \in SUBSET InForce, issued' = issued \union proofs
      PROVE  Ledger!Send(proofs)
  BY <1>2, <1>3 DEF Ledger!Send, Numbering, InForce, NextRevision
<1>4. CASE ConfirmAccess(i)
  <2> DEFINE h == look[i].subject
             proofs == {[holder |-> h, right |-> v.right, revision |-> v.revision] :
                          v \in look[i].signed}
  <2>1. h \in Holders /\ look[i].signed \subseteq look[i].held /\ look[i].signed \subseteq Version
    BY <1>1, <1>4 DEF ConfirmAccess, LookAgrees, Looks
  <2>2. ASSUME NEW v \in look[i].signed
        PROVE  [holder |-> h, right |-> v.right, revision |-> v.revision] \in InForce
    <3>1. /\ v.right \in Rights /\ v.revision \in Nat
          /\ rights[v.right].holder = h /\ rights[v.right].active
          /\ rights[v.right].revision = v.revision
      BY <1>4, <2>1 DEF ConfirmAccess, Version
    <3> QED
      BY <2>1, <3>1 DEF MappingFacts, Proofs
  <2>3. proofs \in SUBSET InForce
    BY <2>2
  <2>4. issued' = issued \union proofs
    BY <1>4 DEF ConfirmAccess
  <2> QED
    BY <1>3, <2>3, <2>4
<1>5. CASE ConfirmApple(i)
  <2> DEFINE r == look[i].subject
             target == look[i].target
             sent == [holder |-> target, right |-> r, revision |-> rights[r].revision]
  <2>1. /\ r \in Rights /\ target \in Holders \union {None}
        /\ rights[r].active /\ rights[r].revision \in Nat
        /\ target # None => rights[r].holder = target
    BY <1>1, <1>5 DEF ConfirmApple, Looks, Rights, Right
  <2>2. issued' = IF target = None THEN issued ELSE issued \union {sent}
    BY <1>5 DEF ConfirmApple
  <2>3. CASE target = None
    <3>1. issued' = issued \union {} /\ {} \in SUBSET InForce
      BY <2>2, <2>3
    <3> QED
      BY <1>3, <3>1
  <2>4. CASE target # None
    <3>1. sent \in InForce
      BY <2>1, <2>4 DEF MappingFacts, Proofs
    <3> QED
      BY <1>3, <2>2, <2>4, <3>1
  <2> QED
    BY <2>3, <2>4
<1> QED
  BY <1>4, <1>5

(***************************************************************************)
(* ImplementsLedger: under any interleaving of lookups, refunds, links and *)
(* deletions, the ledger of rights behaves as RightsLedger.                *)
(***************************************************************************)
THEOREM Refinement == Spec => ImplementsLedger
<1>1. Init => Ledger!LedgerInit
  BY DEF Init, Ledger!LedgerInit, Numbering, InForce, NextRevision, NoRight
<1>2. ASSUME IInv, IInv', MappingFacts, MappingFacts', [Next]_vars
      PROVE  [Ledger!LedgerNext]_Ledger!ledgerVars
  <2>1. CASE UNCHANGED <<users, rights, revocations, issued>>
    BY <2>1 DEF Ledger!ledgerVars, Numbering, InForce, NextRevision
  <2>2. ASSUME NEW h \in Holders, DeleteAccount(h) PROVE Ledger!LedgerNext
    BY <1>2, <2>2, DeletionIsLeave DEF Ledger!LedgerNext
  <2>3. ASSUME NEW i \in Lookups, NEW r \in AppleRights, BeginApple(i, r)
        PROVE  UNCHANGED Ledger!ledgerVars
    <3>1. \A q \in Rights :
            /\ rights'[q].holder = rights[q].holder /\ rights'[q].active = rights[q].active
            /\ rights'[q].revision = rights[q].revision
            /\ rights'[q].stage = "none" => rights[q].stage = "none"
            /\ rights[q].stage = "seen" => rights'[q] = rights[q]
      BY <1>2, <2>3, BeginAppleStep
    <3>2. InForce' = InForce
      BY <3>1 DEF InForce
    <3>3. \A q \in Rights : NextRevision(q)' = NextRevision(q)
      <4> TAKE q \in Rights
      <4>1. RowAgrees(q) /\ RowAgrees(q)' /\ rights[q] \in Right
        BY <1>2 DEF IInv, RowsAgree, TypeOK
      <4>2. CASE rights[q].stage = "seen"
        BY <3>1, <4>2 DEF NextRevision
      <4>3. CASE rights[q].stage # "seen"
        <5>1. rights[q].stage = "none" => rights[q].holder = None /\ rights[q].revision = 0
          BY <4>1 DEF RowAgrees, NoRight
        <5> QED
          BY <3>1, <4>1, <4>3, <5>1 DEF NextRevision
      <4> QED
        BY <4>2, <4>3
    <3> QED
      BY <2>3, <3>2, <3>3 DEF Ledger!ledgerVars, Numbering, BeginApple
  <2>4. ASSUME NEW i \in Lookups, ConfirmAccess(i) \/ ConfirmApple(i)
        PROVE  Ledger!LedgerNext
    BY <1>2, <2>4, ConfirmationIsSend DEF Ledger!LedgerNext
  <2>5. ASSUME NEW i \in Lookups,
               \/ CommitAccess(i) \/ CommitAppleRefund(i)
               \/ \E link \in Links \union {NoLink} : CommitApple(i, link)
        PROVE  Ledger!LedgerNext
    BY <1>2, <2>5, CommitStep, CommitIsChange DEF Ledger!LedgerNext
  <2>6. ASSUME NEW i \in Lookups,
               \/ \E h \in Holders : Begin(i, h)
               \/ ReadListing(i) \/ ReadApple(i) \/ Abandon(i)
        PROVE  UNCHANGED <<users, rights, revocations, issued>>
    BY <2>6 DEF Begin, ReadListing, ReadApple, Abandon
  <2>7. ASSUME \/ \E r \in Rights : Refund(r)
               \/ \E r \in Purchases, h \in Holders : MovePurchase(r, h)
               \/ UNCHANGED vars
        PROVE  UNCHANGED <<users, rights, revocations, issued>>
    BY <2>7 DEF Refund, MovePurchase, vars
  <2> QED
    BY <1>2, <2>1, <2>2, <2>3, <2>4, <2>5, <2>6, <2>7 DEF Next
<1> QED
  BY <1>1, <1>2, Invariance, Mapping, PTL DEF Spec, ImplementsLedger, Ledger!LedgerSpec

-----------------------------------------------------------------------------
(* The promise of the ledger.  Covered and OneHolderPerRevision speak of the *)
(* proofs that were sent.  Neither is inductive: a proof is sent because its *)
(* version is in force, so the versions in force must be unique per revision *)
(* as well, and a version put in force must not meet an older proof, which   *)
(* the next revision of its right rules out.  These lemmas use nothing of the*)
(* detailed ledger but that it takes the steps of the abstract one.          *)

LedgerType ==
    /\ users \subseteq Holders
    /\ InForce \subseteq Ledger!Proof
    /\ Numbering \in [Rights -> Nat]
    /\ revocations \in [Holders -> [Rights -> Nat]]
    /\ issued \subseteq Ledger!Proof

\* Versions in force belong to accounts that exist.
LiveIsHeld == \A v \in InForce : v.holder \in users

\* No version ever in force or sent has the next revision of its right.
PastVersions == \A v \in InForce \union issued : v.revision < Numbering[v.right]

\* Revisions are told apart by version, in force or sent.
OneVersion ==
    \A v, w \in InForce \union issued : v.right = w.right /\ v.revision = w.revision => v = w

\* The inductive invariant
LedgerInv ==
    /\ LedgerType
    /\ LiveIsHeld
    /\ PastVersions
    /\ OneVersion
    /\ Ledger!Covered

(***************************************************************************)
(* An empty ledger keeps every part of the invariant.                      *)
(***************************************************************************)
LEMMA LedgerStart == Ledger!LedgerInit => LedgerInv
  BY DEF Ledger!LedgerInit, LedgerInv, LedgerType, LiveIsHeld, PastVersions, OneVersion, Ledger!Covered

(***************************************************************************)
(* A transaction that changes the versions in force preserves it.          *)
(***************************************************************************)
LEMMA ChangeStep ==
    ASSUME LedgerInv, Ledger!Change
    PROVE  LedgerInv'
<1>1. LedgerType'
  BY DEF LedgerInv, LedgerType, Ledger!Change
<1>2. LiveIsHeld'
  BY DEF LedgerInv, LiveIsHeld, Ledger!Change
<1>3. PastVersions'
  <2> SUFFICES ASSUME NEW v \in InForce' \union issued' PROVE v.revision < Numbering'[v.right]
    BY DEF PastVersions
  <2>1. CASE v \in InForce'
    BY <2>1 DEF Ledger!Change
  <2>2. CASE v \in issued'
    <3>1. v \in issued /\ v \in Ledger!Proof
      BY <2>2 DEF Ledger!Change, LedgerInv, LedgerType
    <3>2. /\ v.right \in Rights /\ v.revision \in Nat
          /\ Numbering[v.right] \in Nat /\ Numbering'[v.right] \in Nat
      BY <1>1, <3>1 DEF Ledger!Proof, LedgerInv, LedgerType
    <3>3. v.revision < Numbering[v.right] /\ Numbering'[v.right] >= Numbering[v.right]
      BY <3>1, <3>2 DEF Ledger!Change, LedgerInv, PastVersions
    <3> QED
      BY <3>2, <3>3
  <2> QED
    BY <2>1, <2>2
<1>4. OneVersion'
  <2> SUFFICES ASSUME NEW v \in InForce' \union issued', NEW w \in InForce' \union issued',
                      v.right = w.right, v.revision = w.revision
               PROVE  v = w
    BY DEF OneVersion
  <2>1. \A u \in InForce' \union issued' : u \in Ledger!Proof /\ (u \in InForce \union issued \/ u \in InForce' \ InForce)
    BY <1>1 DEF Ledger!Change, LedgerType
  <2>2. \A u \in InForce' \ InForce : u.revision >= Numbering[u.right]
    BY DEF Ledger!Change
  <2>3. \A u \in InForce \union issued : u.revision < Numbering[u.right]
    BY DEF LedgerInv, PastVersions
  <2>4. \A u \in Ledger!Proof : u.revision \in Nat /\ Numbering[u.right] \in Nat
    BY DEF LedgerInv, LedgerType, Ledger!Proof
  <2>5. CASE v \in InForce' /\ w \in InForce'
    BY <2>5 DEF Ledger!Change, Ledger!Alone
  <2>6. CASE v \in InForce \union issued /\ w \in InForce \union issued
    BY <2>6 DEF LedgerInv, OneVersion
  <2>7. ASSUME NEW a \in InForce' \ InForce, NEW b \in InForce \union issued,
               a.right = b.right, a.revision = b.revision, a \in Ledger!Proof
        PROVE  FALSE
    BY <2>2, <2>3, <2>4, <2>7
  <2> QED
    BY <2>1, <2>5, <2>6, <2>7
<1>5. Ledger!Covered'
  <2> SUFFICES ASSUME NEW p \in issued', p.holder \in users'
               PROVE  p \in InForce' \/ revocations'[p.holder][p.right] > p.revision
    BY DEF Ledger!Covered
  <2>1. p \in issued /\ p \in Ledger!Proof /\ p.holder \in users
    BY DEF Ledger!Change, LedgerInv, LedgerType
  <2>2. /\ p.holder \in Holders /\ p.right \in Rights /\ p.revision \in Nat
        /\ revocations[p.holder][p.right] \in Nat /\ revocations'[p.holder][p.right] \in Nat
    BY <1>1, <2>1 DEF Ledger!Proof, LedgerInv, LedgerType
  <2>3. CASE p \in InForce
    BY <2>3 DEF Ledger!Change
  <2>4. CASE revocations[p.holder][p.right] > p.revision
    <3>1. revocations'[p.holder][p.right] >= revocations[p.holder][p.right]
      BY <2>2 DEF Ledger!Change
    <3> QED
      BY <2>2, <2>4, <3>1
  <2> QED
    BY <2>1, <2>3, <2>4 DEF LedgerInv, Ledger!Covered
<1> QED
  BY <1>1, <1>2, <1>3, <1>4, <1>5 DEF LedgerInv

(***************************************************************************)
(* An account that leaves takes its versions and removals with it; its     *)
(* proofs are no longer anybody's.                                         *)
(***************************************************************************)
LEMMA LeaveStep ==
    ASSUME LedgerInv, NEW h \in Holders, Ledger!Leave(h)
    PROVE  LedgerInv'
<1>1. LedgerType'
  BY DEF LedgerInv, LedgerType, Ledger!Leave
<1>2. LiveIsHeld'
  BY DEF LedgerInv, LiveIsHeld, Ledger!Leave
<1>3. PastVersions'
  <2> SUFFICES ASSUME NEW v \in InForce' \union issued' PROVE v.revision < Numbering'[v.right]
    BY DEF PastVersions
  <2>1. v \in InForce \union issued /\ v \in Ledger!Proof
    BY DEF Ledger!Leave, LedgerInv, LedgerType
  <2>2. v.right \in Rights /\ v.revision \in Nat /\ Numbering[v.right] \in Nat /\ Numbering'[v.right] \in Nat
    BY <1>1, <2>1 DEF Ledger!Proof, LedgerInv, LedgerType
  <2>3. v.revision < Numbering[v.right] /\ Numbering'[v.right] >= Numbering[v.right]
    BY <2>1, <2>2 DEF Ledger!Leave, LedgerInv, PastVersions
  <2> QED
    BY <2>2, <2>3
<1>4. OneVersion'
  BY DEF LedgerInv, OneVersion, Ledger!Leave
<1>5. Ledger!Covered'
  <2> SUFFICES ASSUME NEW p \in issued', p.holder \in users'
               PROVE  p \in InForce' \/ revocations'[p.holder][p.right] > p.revision
    BY DEF Ledger!Covered
  <2>1. p \in issued /\ p \in Ledger!Proof /\ p.holder \in users /\ p.holder # h
    BY DEF Ledger!Leave, LedgerInv, LedgerType
  <2>2. revocations'[p.holder] = revocations[p.holder]
    BY <2>1 DEF Ledger!Leave, Ledger!Proof, LedgerInv, LedgerType
  <2> QED
    BY <2>1, <2>2 DEF Ledger!Leave, LedgerInv, Ledger!Covered
<1> QED
  BY <1>1, <1>2, <1>3, <1>4, <1>5 DEF LedgerInv

(***************************************************************************)
(* What is sent is in force.                                               *)
(***************************************************************************)
LEMMA SendStep ==
    ASSUME LedgerInv, NEW proofs \in SUBSET InForce, Ledger!Send(proofs)
    PROVE  LedgerInv'
<1>1. issued' = issued \union proofs /\ proofs \subseteq InForce /\ UNCHANGED <<users, InForce, Numbering, revocations>>
  BY DEF Ledger!Send
<1>2. LedgerType'
  BY <1>1 DEF LedgerInv, LedgerType
<1>3. LiveIsHeld' /\ PastVersions' /\ OneVersion' /\ Ledger!Covered'
  BY <1>1 DEF LedgerInv, LiveIsHeld, PastVersions, OneVersion, Ledger!Covered
<1> QED
  BY <1>2, <1>3 DEF LedgerInv

(***************************************************************************)
(* The invariant of the ledger holds throughout.                           *)
(***************************************************************************)
THEOREM LedgerInvariance == Ledger!LedgerSpec => []LedgerInv
<1>1. LedgerInv /\ [Ledger!LedgerNext]_Ledger!ledgerVars => LedgerInv'
  <2> SUFFICES ASSUME LedgerInv, [Ledger!LedgerNext]_Ledger!ledgerVars PROVE LedgerInv'
    OBVIOUS
  <2>1. CASE UNCHANGED Ledger!ledgerVars
    BY <2>1 DEF Ledger!ledgerVars, LedgerInv, LedgerType, LiveIsHeld, PastVersions, OneVersion, Ledger!Covered
  <2> QED
    BY <2>1, ChangeStep, LeaveStep, SendStep DEF Ledger!LedgerNext
<1> QED
  BY <1>1, LedgerStart, PTL DEF Ledger!LedgerSpec

(***************************************************************************)
(* A proof its account still holds is in force or lies under a removal the *)
(* account is told of, and no two accounts hold a proof of one revision.   *)
(***************************************************************************)
THEOREM PromiseKept == Ledger!LedgerSpec => [](Ledger!Covered /\ Ledger!OneHolderPerRevision)
<1>1. LedgerInv => Ledger!Covered /\ Ledger!OneHolderPerRevision
  BY DEF LedgerInv, OneVersion, Ledger!OneHolderPerRevision
<1> QED
  BY <1>1, LedgerInvariance, PTL

(***************************************************************************)
(* OutdatedProofsAreRevoked: the promise of the abstract ledger.           *)
(***************************************************************************)
THEOREM OutdatedRevoked == Spec => []OutdatedProofsAreRevoked
<1>1. Ledger!Covered => OutdatedProofsAreRevoked
  BY DEF Ledger!Covered, OutdatedProofsAreRevoked
<1> QED
  BY <1>1, Refinement, PromiseKept, PTL DEF ImplementsLedger

-----------------------------------------------------------------------------
(* Refunds an account's own lookup committed                                *)

\* A lookup that has read a listing, and whose token still stands, grants
\* nothing its account was already refunded.
FreshLook(i) ==
    look[i].pc = "read" /\ look[i].subject \in Holders =>
        /\ \A r \in look[i].revoked : charge[r] = "refunded"
        /\ look[i].owned \cap look[i].revoked = {}
        /\ Current(i) => \A r \in look[i].owned : <<look[i].subject, r>> \notin refunded

RefundInv ==
    /\ \A h \in Holders, r \in Purchases : <<h, r>> \in refunded => charge[r] = "refunded"
    /\ \A i \in Lookups : FreshLook(i)
    /\ KnownRefundStands

(***************************************************************************)
(* The end of a lookup leaves the others as fresh as they were.            *)
(***************************************************************************)
LEMMA FinishKeepsRefunds ==
    ASSUME IInv, RefundInv, NEW i \in Lookups, Finish(i), UNCHANGED <<charge, refunded>>,
           \A r \in Purchases : rights'[r] = rights[r]
    PROVE  RefundInv'
<1>1. /\ look \in [Lookups -> Looks]
      /\ observed \in [Holders \union AppleRights -> Lookups \union {None}]
  BY DEF IInv, TypeOK, Looks
<1>2. look'[i].pc = "idle" /\ \A j \in Lookups \ {i} : look'[j] = look[j]
  BY <1>1 DEF Finish, Idle
<1>3. \A s \in Holders, j \in Lookups \ {i} : observed'[s] = j => observed[s] = j
  BY <1>1, RightsAssumption DEF Finish
<1>4. \A j \in Lookups : FreshLook(j)'
  BY <1>2, <1>3 DEF RefundInv, FreshLook, Current
<1> QED
  BY <1>4 DEF RefundInv, KnownRefundStands

(***************************************************************************)
(* A listing shows a purchase refunded from the refund on, so a lookup     *)
(* that reads it grants nothing refunded.                                  *)
(***************************************************************************)
LEMMA ReadKeepsRefunds ==
    ASSUME IInv, RefundInv, NEW i \in Lookups, ReadListing(i) \/ ReadApple(i)
    PROVE  RefundInv'
<1>1. /\ look \in [Lookups -> Looks]
      /\ UNCHANGED <<charge, rights, refunded, observed>>
      /\ \A j \in Lookups \ {i} : look'[j] = look[j]
  BY DEF IInv, TypeOK, Looks, ReadListing, ReadApple, provider
<1>2. CASE ReadListing(i)
  <2>1. PICK owned \in SUBSET Listed(look[i].subject, "owned"),
             revoked \in SUBSET Listed(look[i].subject, "refunded") :
          look' = [look EXCEPT ![i].pc = "read", ![i].owned = owned, ![i].revoked = revoked]
    BY <1>2 DEF ReadListing
  <2>2. /\ look'[i].owned = owned /\ look'[i].revoked = revoked
        /\ look'[i].subject = look[i].subject /\ look[i].subject \in Holders
    <3>1. look[i] \in Looks /\ look[i].subject \in Holders
      BY <1>1, <1>2 DEF ReadListing
    <3>2. look'[i] = [look[i] EXCEPT !.pc = "read", !.owned = owned, !.revoked = revoked]
      BY <1>1, <2>1
    <3> QED
      BY <3>1, <3>2 DEF Looks
  <2>3. /\ \A r \in revoked : charge[r] = "refunded"
        /\ \A r \in owned : charge[r] = "owned" /\ r \in Purchases
    BY DEF Listed
  <2>4. FreshLook(i)'
    BY <1>1, <2>2, <2>3 DEF FreshLook, RefundInv
  <2> QED
    BY <1>1, <2>4 DEF RefundInv, FreshLook, Current, KnownRefundStands
<1>3. CASE ReadApple(i)
  <2>1. look'[i].subject = look[i].subject /\ look[i].subject \notin Holders
    BY <1>1, <1>3, RightsAssumption DEF ReadApple, Looks
  <2> QED
    BY <1>1, <2>1 DEF RefundInv, FreshLook, Current, KnownRefundStands
<1> QED
  BY <1>2, <1>3

(***************************************************************************)
(* The commit of an account's lookup: what it saw refunded ends, and what  *)
(* it activates was not refunded.                                          *)
(***************************************************************************)
LEMMA CommitKeepsRefunds ==
    ASSUME IInv, RefundInv, NEW i \in Lookups, CommitAccess(i)
    PROVE  RefundInv'
<1> DEFINE h == look[i].subject
           owned == look[i].owned
           revoked == look[i].revoked
<1>1. /\ look[i].pc = "read" /\ h \in Holders /\ Current(i) /\ UNCHANGED <<charge, observed>>
      /\ \A r \in Rights : rights'[r] = Committed(h, r, owned, revoked)
      /\ refunded' = refunded \union {<<h, r>> : r \in {q \in revoked : rights[q].stage # "none"}}
  BY DEF CommitAccess, provider
<1>2. look \in [Lookups -> Looks] /\ rights \in [Rights -> Right]
  BY DEF IInv, TypeOK, Looks
<1>3. look'[i].pc = "committed" /\ \A j \in Lookups \ {i} : look'[j] = look[j]
  BY CommitAccessType
<1>4. /\ \A r \in revoked : charge[r] = "refunded"
      /\ owned \cap revoked = {}
      /\ \A r \in owned : <<h, r>> \notin refunded
  BY <1>1 DEF RefundInv, FreshLook
<1>5. \A r \in Rights : CommittedShape(h, r, owned, revoked, rights'[r])
  BY <1>1, CommittedCases
<1>6. \A k \in Holders : \A r : <<k, r>> \in refunded' <=>
        <<k, r>> \in refunded \/ (k = h /\ r \in revoked /\ rights[r].stage # "none")
  BY <1>1
<1> HIDE DEF h, owned, revoked
<1>7. \A j \in Lookups : FreshLook(j)'
  <2> SUFFICES ASSUME NEW j \in Lookups \ {i}, look[j].pc = "read", look[j].subject \in Holders
               PROVE  FreshLook(j)'
    BY <1>3 DEF FreshLook
  <2>1. Current(j) => look[j].subject # h
    BY <1>1 DEF Current, h
  <2> QED
    BY <1>1, <1>3, <1>6, <2>1 DEF RefundInv, FreshLook, Current
<1>8. ASSUME NEW k \in Holders, NEW r \in Purchases, <<k, r>> \in refunded'
      PROVE  charge[r] = "refunded" /\ ~(rights'[r].holder = k /\ rights'[r].active)
  <2>1. r \in Rights /\ rights[r] \in Right /\ k # None
    BY <1>2, RightsAssumption DEF Rights
  <2>2. charge[r] = "refunded"
    BY <1>4, <1>6, <1>8 DEF RefundInv
  <2>3. CASE <<k, r>> \in refunded
    <3>1. ~(rights[r].holder = k /\ rights[r].active)
      BY <2>3 DEF RefundInv, KnownRefundStands
    <3>2. k = h => r \notin owned
      BY <1>4, <2>3
    <3>3. Deactivated(rights[r]).active = FALSE
      BY <2>1, RowType DEF Deactivated, Right
    <3>4. CASE Inserted(h, r, owned, rights'[r])
      BY <2>1, <2>2, <3>2, <3>4 DEF Inserted, Right
    <3>5. CASE Reactivated(h, r, owned, rights'[r])
      BY <2>1, <2>2, <3>2, <3>5 DEF Reactivated, Right
    <3> QED
      BY <1>5, <2>1, <2>2, <3>1, <3>3, <3>4, <3>5 DEF CommittedShape, Kept, Ended
  <2>4. CASE k = h /\ r \in revoked /\ rights[r].stage # "none"
    <3>1. r \notin owned
      BY <1>4, <2>4
    <3>2. Deactivated(rights[r]).active = FALSE
      BY <2>1, RowType DEF Deactivated, Right
    <3> QED
      BY <1>5, <2>1, <2>2, <2>4, <3>1, <3>2 DEF CommittedShape, Kept, Inserted, Reactivated, Ended
  <2> QED
    BY <1>6, <1>8, <2>2, <2>3, <2>4
<1> QED
  BY <1>1, <1>7, <1>8 DEF RefundInv, KnownRefundStands

(***************************************************************************)
(* KnownRefundStands: an older lookup never brings back what a newer one   *)
(* of the account has seen refunded.                                       *)
(***************************************************************************)
THEOREM KnownRefundsStand == Spec => []KnownRefundStands
<1>1. Init => RefundInv
  BY RightsAssumption DEF Init, RefundInv, FreshLook, KnownRefundStands, Idle
<1>2. ASSUME IInv, RefundInv, [Next]_vars PROVE RefundInv'
  <2> USE <1>2
  <2>1. /\ look \in [Lookups -> Looks] /\ rights \in [Rights -> Right]
        /\ observed \in [Holders \union AppleRights -> Lookups \union {None}]
        /\ charge \in [Rights -> {"owned", "refunded"}]
        /\ \A r \in Purchases : r \in Rights /\ r \notin AppleRights
        /\ \A h \in Holders : h # None /\ h \notin AppleRights
    BY RightsAssumption DEF IInv, TypeOK, Looks, Rights
  <2>2. ASSUME NEW r \in Rights, Refund(r) PROVE RefundInv'
    <3>1. UNCHANGED <<rights, observed, look, refunded>>
      BY <2>2 DEF Refund
    <3>2. \A q \in Rights : charge[q] = "refunded" => charge'[q] = "refunded"
      BY <2>1, <2>2 DEF Refund
    <3>3. \A j \in Lookups : look[j].revoked \subseteq Rights
      BY <2>1 DEF Looks
    <3>4. \A j \in Lookups : FreshLook(j)'
      BY <3>1, <3>2, <3>3 DEF RefundInv, FreshLook, Current
    <3> QED
      BY <2>1, <3>1, <3>2, <3>4 DEF RefundInv, KnownRefundStands
  <2>3. ASSUME NEW i \in Lookups, NEW s \in Holders \union AppleRights,
               look' = [look EXCEPT ![i].pc = "begun", ![i].subject = s],
               observed' = [observed EXCEPT ![s] = i],
               UNCHANGED <<charge, refunded>>, \A r \in Purchases : rights'[r] = rights[r]
        PROVE  RefundInv'
    <3>1. look'[i].pc = "begun" /\ \A j \in Lookups \ {i} : look'[j] = look[j]
      BY <2>1, <2>3 DEF Looks
    <3>2. \A k \in Holders, j \in Lookups \ {i} : observed'[k] = j => observed[k] = j
      BY <2>1, <2>3
    <3>3. \A j \in Lookups : FreshLook(j)'
      <4>1. FreshLook(i)'
        BY <3>1 DEF FreshLook
      <4>2. ASSUME NEW j \in Lookups \ {i}, look[j].pc = "read", look[j].subject \in Holders
            PROVE  FreshLook(j)'
        <5>1. Current(j)' => Current(j)
          BY <3>1, <3>2, <4>2 DEF Current
        <5>2. /\ \A r \in look[j].revoked : charge[r] = "refunded"
              /\ look[j].owned \cap look[j].revoked = {}
              /\ Current(j) => \A r \in look[j].owned : <<look[j].subject, r>> \notin refunded
          BY <4>2 DEF RefundInv, FreshLook
        <5>3. look'[j] = look[j] /\ charge' = charge /\ refunded' = refunded
          BY <2>3, <3>1
        <5> QED
          BY <5>1, <5>2, <5>3 DEF FreshLook
      <4> QED
        BY <3>1, <4>1, <4>2 DEF FreshLook
    <3> QED
      BY <2>3, <3>3 DEF RefundInv, KnownRefundStands
  <2>4. ASSUME NEW i \in Lookups, NEW h \in Holders, Begin(i, h) PROVE RefundInv'
    BY <2>3, <2>4 DEF Begin, provider
  <2>5. ASSUME NEW i \in Lookups, NEW r \in AppleRights, BeginApple(i, r) PROVE RefundInv'
    <3>1. \A q \in Purchases : rights'[q] = rights[q]
      BY <2>1, <2>5 DEF BeginApple
    <3> QED
      BY <2>3, <2>5, <3>1 DEF BeginApple, provider
  <2>6. ASSUME NEW i \in Lookups,
               Abandon(i) \/ ConfirmAccess(i) \/ ConfirmApple(i) \/ CommitAppleRefund(i)
        PROVE  RefundInv'
    <3>1. Finish(i) /\ UNCHANGED <<charge, refunded>>
      BY <2>6 DEF Abandon, ConfirmAccess, ConfirmApple, CommitAppleRefund, provider
    <3>2. \A r \in Purchases : rights'[r] = rights[r]
      BY <2>1, <2>6 DEF Abandon, ConfirmAccess, ConfirmApple, CommitAppleRefund
    <3> QED
      BY <3>1, <3>2, FinishKeepsRefunds
  <2>7. ASSUME NEW i \in Lookups, NEW link \in Links \union {NoLink}, CommitApple(i, link)
        PROVE  RefundInv'
    <3>1. UNCHANGED <<charge, observed, refunded>>
      BY <2>7 DEF CommitApple, provider
    <3>2. \A r \in Purchases : rights'[r] = rights[r]
      BY <2>1, <2>7 DEF CommitApple
    <3>3. look'[i].pc = "committed" /\ \A j \in Lookups \ {i} : look'[j] = look[j]
      BY <2>7, CommitAppleType
    <3>4. \A j \in Lookups : FreshLook(j)'
      BY <3>1, <3>3 DEF RefundInv, FreshLook, Current
    <3> QED
      BY <3>1, <3>2, <3>4 DEF RefundInv, KnownRefundStands
  <2>8. ASSUME NEW h \in Holders, DeleteAccount(h) PROVE RefundInv'
    <3>1. UNCHANGED <<charge, look, refunded>> /\ observed' = [observed EXCEPT ![h] = None]
      BY <2>8 DEF DeleteAccount, provider
    <3>2. \A j \in Lookups, k \in Holders : observed'[k] = j => observed[k] = j
      BY <2>1, <3>1, RightsAssumption
    <3>3. \A j \in Lookups : FreshLook(j)'
      BY <3>1, <3>2 DEF RefundInv, FreshLook, Current
    <3>4. \A r \in Purchases : rights'[r] = rights[r] \/ rights'[r].holder = None
      BY <2>1, <2>8, DeleteStep DEF RowLeft
    <3>5. KnownRefundStands'
      BY <2>1, <3>1, <3>4 DEF RefundInv, KnownRefundStands
    <3> QED
      BY <3>1, <3>3, <3>5 DEF RefundInv
  <2>9. CASE UNCHANGED <<charge, rights, observed, look, refunded>>
    BY <2>9 DEF RefundInv, FreshLook, Current, KnownRefundStands
  <2> QED
    BY <2>2, <2>4, <2>5, <2>6, <2>7, <2>8, <2>9, ReadKeepsRefunds, CommitKeepsRefunds
    DEF Next, MovePurchase, vars
<1>3. RefundInv => KnownRefundStands
  BY DEF RefundInv
<1> QED
  BY <1>1, <1>2, <1>3, Invariance, PTL DEF Spec
=============================================================================
