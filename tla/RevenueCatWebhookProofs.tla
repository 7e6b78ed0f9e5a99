----------------------- MODULE RevenueCatWebhookProofs -----------------------
(***************************************************************************)
(* The safety properties of RevenueCatWebhook, for any users, events and   *)
(* workers, any users an event names, and any number of faults.            *)
(*                                                                         *)
(* Two facts make the properties inductive.  A worker, at whatever point   *)
(* it has been delayed, knows for which users it is done: those it no      *)
(* longer has to visit are written from a lookup at least as recent as     *)
(* the change, or are gone (WorkerAgrees).  And a claim old enough to be   *)
(* taken over belongs to no worker within its fifteen minutes, so that a   *)
(* live worker's token is nobody else's.                                   *)
(***************************************************************************)
EXTENDS RevenueCatWebhook, TLAPS

Live == {"lookup", "write", "refresh"}

\* Where a worker stands with the event it works for
WorkerAgrees(w) ==
    LET e == worker[w].event
        u == worker[w].user
    IN
    /\ worker[w].pc = "idle" => e = None
    /\ worker[w].pc # "idle" =>
        /\ e \in Emitted
        /\ worker[w].left \subseteq Affected[e]
        /\ \A k \in (Affected[e] \cap exists) \ worker[w].left : written[k] >= cause[e][k]
        /\ worker[w].pc \in {"write", "refresh"} => u \in worker[w].left
        /\ worker[w].pc = "write" => worker[w].seen >= cause[e][u]
        /\ worker[w].pc = "refresh" /\ u \in exists => written[u] >= cause[e][u]
        /\ claims[e].old /\ claims[e].token = worker[w].token => worker[w].late

CauseWithinCanon == \A e \in Events, u \in Users : cause[e][u] <= canon[u]

\* The inductive invariant
IInv ==
    /\ TypeOK
    /\ CauseWithinCanon
    /\ \A w \in Workers : WorkerAgrees(w)
    /\ AcknowledgedIsApplied
    /\ LiveClaimStands

(***************************************************************************)
(* The records a worker starts from and returns to.                        *)
(***************************************************************************)
LEMMA IdleWorkerType ==
    IdleWorker \in Worker /\ IdleWorker.pc = "idle" /\ IdleWorker.event = None
  BY DEF IdleWorker, Worker

(***************************************************************************)
(* Nothing has happened yet.                                               *)
(***************************************************************************)
LEMMA InitInvariant == Init => IInv
<1> SUFFICES ASSUME Init PROVE IInv
  OBVIOUS
<1>1. NoClaim \in Claim /\ NoClaim.status = "none"
  BY DEF NoClaim, Claim
<1>2. TypeOK
  BY <1>1, IdleWorkerType, FaultsAssumption DEF Init, TypeOK
<1>3. CauseWithinCanon
  BY DEF Init, CauseWithinCanon
<1>4. \A w \in Workers : WorkerAgrees(w)
  BY IdleWorkerType DEF Init, WorkerAgrees
<1>5. AcknowledgedIsApplied
  BY <1>1 DEF Init, AcknowledgedIsApplied
<1>6. LiveClaimStands
  BY IdleWorkerType DEF Init, LiveClaimStands
<1> QED
  BY <1>2, <1>3, <1>4, <1>5, <1>6 DEF IInv

(***************************************************************************)
(* A call that answers or not is counted within the bound.                 *)
(***************************************************************************)
LEMMA FaultType ==
    ASSUME TypeOK, Fault \/ (\E ok \in BOOLEAN : Answered(ok)) \/ UNCHANGED faults
    PROVE  faults' \in 0..MaxFaults
  BY FaultsAssumption DEF TypeOK, Fault, Answered

(***************************************************************************)
(* set_entitlement never lowers the newest version written, and writes the *)
(* row of a user who exists.                                               *)
(***************************************************************************)
LEMMA WrittenGrows ==
    ASSUME TypeOK, NEW u \in Users, NEW n \in Nat, SetEntitlement(u, n)
    PROVE  /\ ent' \in [Users -> Nat \union {None}]
           /\ written' \in [Users -> Nat]
           /\ \A k \in Users : written'[k] >= written[k]
           /\ u \in exists => written'[u] >= n
<1>1. ent \in [Users -> Nat \union {None}] /\ written \in [Users -> Nat]
  BY DEF TypeOK
<1>2. CASE u \in exists
  <2> DEFINE newest == IF n > written[u] THEN n ELSE written[u]
  <2>1. newest \in Nat /\ newest >= n /\ newest >= written[u]
    BY <1>1
  <2>2. ent' = [ent EXCEPT ![u] = n] /\ written' = [written EXCEPT ![u] = newest]
    BY <1>2 DEF SetEntitlement
  <2> HIDE DEF newest
  <2> QED
    BY <1>1, <2>1, <2>2
<1>3. CASE u \notin exists
  BY <1>1, <1>3 DEF SetEntitlement
<1> QED
  BY <1>2, <1>3

\* What the world may do to a worker it does not touch: users leave, rows are
\* written again, and no claim grows old unnoticed.
WorldMoves ==
    /\ UNCHANGED cause
    /\ exists' \subseteq exists
    /\ \A u \in Users : written'[u] \in Nat /\ written'[u] >= written[u]
    /\ \A e \in Events : claims'[e].old =>
            claims[e].old /\ claims'[e].token = claims[e].token

(***************************************************************************)
(* Such a worker stands with its event where it stood.                     *)
(***************************************************************************)
LEMMA UntouchedWorker ==
    ASSUME IInv, NEW w \in Workers, worker'[w] = worker[w], WorldMoves
    PROVE  WorkerAgrees(w)'
<1>1. /\ Emitted' = Emitted /\ Emitted \subseteq Events
      /\ \A e \in Events : Affected[e] \subseteq Users
      /\ written \in [Users -> Nat] /\ cause \in [Events -> [Users -> Nat]]
      /\ WorkerAgrees(w)
  BY AffectedAssumption DEF WorldMoves, Emitted, IInv, TypeOK
<1> DEFINE e == worker[w].event
           u == worker[w].user
<1>2. CASE worker[w].pc = "idle"
  BY <1>1, <1>2 DEF WorkerAgrees
<1>3. CASE worker[w].pc # "idle"
  <2>1. /\ e \in Emitted /\ e \in Events
        /\ worker[w].left \subseteq Affected[e]
        /\ \A k \in (Affected[e] \cap exists) \ worker[w].left : written[k] >= cause[e][k]
        /\ worker[w].pc \in {"write", "refresh"} => u \in worker[w].left
        /\ worker[w].pc = "write" => worker[w].seen >= cause[e][u]
        /\ worker[w].pc = "refresh" /\ u \in exists => written[u] >= cause[e][u]
        /\ claims[e].old /\ claims[e].token = worker[w].token => worker[w].late
    BY <1>1, <1>3 DEF WorkerAgrees
  <2>2. \A k \in Affected[e] : k \in Users /\ written'[k] >= written[k]
          /\ written'[k] \in Nat /\ written[k] \in Nat /\ cause[e][k] \in Nat
    BY <1>1, <2>1 DEF WorldMoves
  <2>3. \A k \in (Affected[e] \cap exists') \ worker[w].left : written'[k] >= cause[e][k]
    BY <2>1, <2>2 DEF WorldMoves
  <2>4. worker[w].pc = "refresh" /\ u \in exists' => written'[u] >= cause[e][u]
    BY <2>1, <2>2 DEF WorldMoves
  <2>5. claims'[e].old /\ claims'[e].token = worker[w].token => worker[w].late
    BY <2>1 DEF WorldMoves
  <2>6. cause' = cause
    BY DEF WorldMoves
  <2> QED
    BY <1>1, <1>3, <2>1, <2>3, <2>4, <2>5, <2>6 DEF WorkerAgrees
<1> QED
  BY <1>2, <1>3

(***************************************************************************)
(* What was applied stays applied, so an acknowledgement stays justified;  *)
(* a new one must be.                                                      *)
(***************************************************************************)
LEMMA Acknowledge ==
    ASSUME IInv, WorldMoves,
           \A e \in Events : e \in acked' \/ claims'[e].status = "completed" =>
                \/ e \in acked \/ claims[e].status = "completed"
                \/ e \in Emitted /\ Reflected(e)
    PROVE  AcknowledgedIsApplied' /\ \A e \in Events : Reflected(e) => Reflected(e)'
<1>1. /\ Emitted' = Emitted
      /\ \A e \in Events : Affected[e] \subseteq Users
      /\ written \in [Users -> Nat] /\ cause \in [Events -> [Users -> Nat]]
  BY AffectedAssumption DEF WorldMoves, Emitted, IInv, TypeOK
<1>2. ASSUME NEW e \in Events, Reflected(e) PROVE Reflected(e)'
  <2>1. \A k \in Affected[e] \cap exists : written[k] >= cause[e][k]
    BY <1>2 DEF Reflected
  <2>2. \A k \in Affected[e] : written'[k] >= written[k]
          /\ written'[k] \in Nat /\ written[k] \in Nat /\ cause[e][k] \in Nat
    BY <1>1 DEF WorldMoves
  <2>3. exists' \subseteq exists /\ cause' = cause
    BY DEF WorldMoves
  <2>4. \A k \in Affected[e] \cap exists' : written'[k] >= cause'[e][k]
    BY <2>1, <2>2, <2>3
  <2> QED
    BY <2>4 DEF Reflected
<1> QED
  BY <1>1, <1>2 DEF IInv, AcknowledgedIsApplied

\* A worker goes on with its event under its claim, or ends
GoesOn(w, q) ==
    \/ q = IdleWorker
    \/ /\ q.event = worker[w].event /\ q.token = worker[w].token /\ q.late = worker[w].late
       /\ worker[w].pc # "idle" /\ q.pc # "idle"
       /\ q.pc \in Live => worker[w].pc \in Live

(***************************************************************************)
(* Live workers keep their claims while another goes on or ends, and while *)
(* it gives up the row it holds: a row held by two is held by none live.   *)
(***************************************************************************)
LEMMA LiveMove ==
    ASSUME IInv, NEW w \in Workers, NEW q \in Worker, GoesOn(w, q),
           worker' = [worker EXCEPT ![w] = q],
           \/ UNCHANGED claims
           \/ /\ q.pc \notin Live
              /\ \A e \in Events :
                    claims'[e] = claims[e] \/ (e = worker[w].event /\ OwnsRow(w))
    PROVE  LiveClaimStands'
<1>1. /\ worker \in [Workers -> Worker] /\ Emitted \subseteq Events
      /\ \A v \in Workers : WorkerAgrees(v)
  BY DEF IInv, TypeOK, Emitted
<1>2. worker'[w] = q /\ \A v \in Workers \ {w} : worker'[v] = worker[v]
  BY <1>1
<1> SUFFICES ASSUME NEW v \in Workers, worker'[v].pc \in Live, ~worker'[v].late
             PROVE  /\ OwnsRow(v)'
                    /\ \A x \in Workers \ {v} :
                          worker'[x].event = worker'[v].event => worker'[x].token # worker'[v].token
  BY DEF LiveClaimStands, Live
<1>3. /\ worker[v].pc \in Live /\ ~worker[v].late
      /\ worker'[v].event = worker[v].event /\ worker'[v].token = worker[v].token
  <2>1. CASE v = w
    BY <1>2, <2>1, IdleWorkerType DEF GoesOn, Live
  <2>2. CASE v # w
    BY <1>2, <2>2
  <2> QED
    BY <2>1, <2>2
<1>4. worker[v].event \in Events /\ worker[v].event # None
  BY <1>1, <1>3, NoneAssumption DEF WorkerAgrees, Live
<1>5. /\ OwnsRow(v)
      /\ \A x \in Workers \ {v} :
            worker[x].event = worker[v].event => worker[x].token # worker[v].token
  BY <1>3 DEF IInv, LiveClaimStands, Live
<1>6. claims'[worker[v].event] = claims[worker[v].event]
  <2>1. SUFFICES ASSUME q.pc \notin Live, worker[v].event = worker[w].event, OwnsRow(w)
                 PROVE  FALSE
    BY <1>4
  <2>2. v # w
    BY <1>2, <2>1
  <2>3. worker[w].token # worker[v].token
    BY <1>5, <2>1, <2>2
  <2> QED
    BY <1>5, <2>1, <2>3 DEF OwnsRow
<1>7. OwnsRow(v)'
  BY <1>3, <1>5, <1>6 DEF OwnsRow
<1>8. ASSUME NEW x \in Workers \ {v}, worker'[x].event = worker'[v].event
      PROVE  worker'[x].token # worker'[v].token
  <2>1. CASE x # w
    BY <1>2, <1>3, <1>5, <1>8, <2>1
  <2>2. CASE x = w
    <3>1. q # IdleWorker
      BY <1>2, <1>3, <1>4, <1>8, <2>2, IdleWorkerType
    <3> QED
      BY <1>2, <1>3, <1>5, <1>8, <2>2, <3>1 DEF GoesOn
  <2> QED
    BY <2>1, <2>2
<1> QED
  BY <1>7, <1>8

(***************************************************************************)
(* A step of a worker on its way preserves the invariant when it leaves    *)
(* the worker standing where WorkerAgrees wants it.                        *)
(***************************************************************************)
LEMMA WorkerMove ==
    ASSUME IInv, NEW w \in Workers, NEW q \in Worker, GoesOn(w, q),
           worker' = [worker EXCEPT ![w] = q], WorkerAgrees(w)',
           UNCHANGED <<canon, cause, exists, signIn>>,
           acked' \subseteq Events, claims' \in [Events -> Claim],
           ent' \in [Users -> Nat \union {None}], written' \in [Users -> Nat],
           \A u \in Users : written'[u] >= written[u],
           faults' \in 0..MaxFaults,
           \A e \in Events : e \in acked' \/ claims'[e].status = "completed" =>
                \/ e \in acked \/ claims[e].status = "completed"
                \/ e \in Emitted /\ Reflected(e),
           \A e \in Events : claims'[e].old =>
                claims[e].old /\ claims'[e].token = claims[e].token,
           \/ UNCHANGED claims
           \/ /\ q.pc \notin Live
              /\ \A e \in Events :
                    claims'[e] = claims[e] \/ (e = worker[w].event /\ OwnsRow(w))
    PROVE  IInv'
<1>1. worker \in [Workers -> Worker]
  BY DEF IInv, TypeOK
<1>2. TypeOK'
  BY <1>1 DEF IInv, TypeOK
<1>3. WorldMoves
  BY DEF WorldMoves
<1>4. \A v \in Workers : WorkerAgrees(v)'
  <2>1. \A v \in Workers \ {w} : worker'[v] = worker[v]
    BY <1>1
  <2> QED
    BY <1>3, <2>1, UntouchedWorker
<1>5. AcknowledgedIsApplied'
  BY <1>3, Acknowledge
<1>6. LiveClaimStands'
  BY LiveMove
<1>7. CauseWithinCanon'
  BY DEF IInv, CauseWithinCanon
<1> QED
  BY <1>2, <1>4, <1>5, <1>6, <1>7 DEF IInv

\* What the type invariant and WorkerAgrees say of a worker that is running
Running(w) ==
    /\ worker[w] \in Worker
    /\ worker[w].event \in Emitted /\ worker[w].event \in Events
    /\ worker[w].left \subseteq Affected[worker[w].event]
    /\ Affected[worker[w].event] \subseteq Users
    /\ \A k \in (Affected[worker[w].event] \cap exists) \ worker[w].left :
            written[k] >= cause[worker[w].event][k]
    /\ \A k \in Users : cause[worker[w].event][k] \in Nat /\ written[k] \in Nat
                        /\ cause[worker[w].event][k] <= canon[k] /\ canon[k] \in Nat
    /\ worker[w].pc \in {"write", "refresh"} =>
            worker[w].user \in worker[w].left /\ worker[w].user \in Users
    /\ worker[w].pc = "write" => worker[w].seen >= cause[worker[w].event][worker[w].user]
    /\ worker[w].pc = "refresh" /\ worker[w].user \in exists =>
            written[worker[w].user] >= cause[worker[w].event][worker[w].user]
    /\ claims[worker[w].event].old /\ claims[worker[w].event].token = worker[w].token
            => worker[w].late

(***************************************************************************)
(* A running worker has all of it.                                         *)
(***************************************************************************)
LEMMA RunningWorker ==
    ASSUME IInv, NEW w \in Workers, worker[w].pc # "idle"
    PROVE  Running(w)
<1>1. /\ worker[w] \in Worker /\ WorkerAgrees(w) /\ CauseWithinCanon
      /\ written \in [Users -> Nat] /\ canon \in [Users -> Nat]
      /\ cause \in [Events -> [Users -> Nat]]
  BY DEF IInv, TypeOK
<1>2. worker[w].event \in Emitted /\ worker[w].event \in Events
  BY <1>1 DEF WorkerAgrees, Emitted
<1>3. Affected[worker[w].event] \subseteq Users
  BY <1>2, AffectedAssumption
<1> QED
  BY <1>1, <1>2, <1>3 DEF WorkerAgrees, CauseWithinCanon, Running

\* What a step of a worker alone must leave for WorkerMove
Unmoved == UNCHANGED <<canon, cause, acked, exists, claims, signIn>>

(***************************************************************************)
(* A step that changes no claim, and writes rows forward if at all.        *)
(***************************************************************************)
LEMMA PlainMove ==
    ASSUME IInv, NEW w \in Workers, NEW q \in Worker, GoesOn(w, q),
           worker' = [worker EXCEPT ![w] = q], WorkerAgrees(w)', Unmoved,
           ent' \in [Users -> Nat \union {None}], written' \in [Users -> Nat],
           \A u \in Users : written'[u] >= written[u],
           faults' \in 0..MaxFaults
    PROVE  IInv'
<1>1. acked' \subseteq Events /\ claims' \in [Events -> Claim]
  BY DEF IInv, TypeOK, Unmoved
<1>2. UNCHANGED <<canon, cause, exists, signIn>> /\ UNCHANGED claims /\ UNCHANGED acked
  BY DEF Unmoved
<1> QED
  BY <1>1, <1>2, WorkerMove

(***************************************************************************)
(* A worker that idles, or keeps its users for the release to come.        *)
(***************************************************************************)
LEMMA IdleAgrees ==
    ASSUME IInv, NEW w \in Workers, worker' = [worker EXCEPT ![w] = IdleWorker]
    PROVE  WorkerAgrees(w)' /\ GoesOn(w, IdleWorker) /\ IdleWorker \in Worker
<1>1. worker'[w] = IdleWorker
  BY DEF IInv, TypeOK
<1> QED
  BY <1>1, IdleWorkerType DEF WorkerAgrees, GoesOn

(***************************************************************************)
(* Giving up an event: the worker goes to release with what it has.        *)
(***************************************************************************)
LEMMA ToRelease ==
    ASSUME IInv, NEW w \in Workers, worker[w].pc # "idle",
           worker' = [worker EXCEPT ![w].pc = "release"], WorldMoves
    PROVE  /\ WorkerAgrees(w)' /\ GoesOn(w, [worker[w] EXCEPT !.pc = "release"])
           /\ [worker[w] EXCEPT !.pc = "release"] \in Worker
           /\ worker' = [worker EXCEPT ![w] = [worker[w] EXCEPT !.pc = "release"]]
           /\ [worker[w] EXCEPT !.pc = "release"].pc = "release"
<1> DEFINE q == [worker[w] EXCEPT !.pc = "release"]
<1>1. Running(w) /\ worker \in [Workers -> Worker]
  BY RunningWorker DEF IInv, TypeOK
<1>2. /\ q \in Worker /\ q.pc = "release" /\ q.event = worker[w].event
      /\ q.token = worker[w].token /\ q.left = worker[w].left /\ q.late = worker[w].late
      /\ worker' = [worker EXCEPT ![w] = q] /\ worker'[w] = q
  BY <1>1 DEF Running, Worker
<1> HIDE DEF q
<1>3. Emitted' = Emitted /\ cause' = cause
  BY DEF WorldMoves, Emitted
<1>4. \A k \in (Affected[q.event] \cap exists') \ q.left : written'[k] >= cause'[q.event][k]
  <2> SUFFICES ASSUME NEW k \in (Affected[q.event] \cap exists') \ q.left
               PROVE  written'[k] >= cause[q.event][k]
    BY <1>3
  <2>1. k \in Users /\ k \in (Affected[worker[w].event] \cap exists) \ worker[w].left
    BY <1>1, <1>2 DEF Running, WorldMoves
  <2>2. written[k] >= cause[q.event][k] /\ written[k] \in Nat /\ cause[q.event][k] \in Nat
    BY <1>1, <1>2, <2>1 DEF Running
  <2> QED
    BY <2>1, <2>2 DEF WorldMoves
<1>5. claims'[q.event].old /\ claims'[q.event].token = q.token => q.late
  BY <1>1, <1>2 DEF Running, WorldMoves
<1>6. WorkerAgrees(w)'
  BY <1>1, <1>2, <1>3, <1>4, <1>5 DEF WorkerAgrees, Running
<1>7. GoesOn(w, q)
  BY <1>2 DEF GoesOn, Live
<1> QED
  BY <1>2, <1>6, <1>7 DEF q

(***************************************************************************)
(* The lookup of a user reads a version at least as recent as every change *)
(* announced so far.                                                       *)
(***************************************************************************)
LEMMA LookupStep ==
    ASSUME IInv, NEW w \in Workers, NEW u \in Users, Lookup(w, u)
    PROVE  IInv'
<1> DEFINE q == [worker[w] EXCEPT !.pc = "write", !.user = u, !.seen = canon[u]]
<1>1. Running(w) /\ worker \in [Workers -> Worker] /\ worker[w].pc = "lookup" /\ u \in worker[w].left
  BY RunningWorker DEF IInv, TypeOK, Lookup
<1>2. /\ q \in Worker /\ q.pc = "write" /\ q.event = worker[w].event
      /\ q.token = worker[w].token /\ q.left = worker[w].left /\ q.late = worker[w].late
      /\ q.user = u /\ q.seen = canon[u]
  BY <1>1 DEF Running, Worker
<1>3. worker' = [worker EXCEPT ![w] = q] /\ worker'[w] = q
  BY <1>1 DEF Lookup
<1> HIDE DEF q
<1>4. Unmoved /\ UNCHANGED <<ent, written, faults>>
  BY DEF Lookup, Unmoved, provider
<1>5. Emitted' = Emitted /\ UNCHANGED <<cause, claims, exists>>
  BY <1>4 DEF Unmoved, Emitted
<1>6. WorkerAgrees(w)'
  BY <1>1, <1>2, <1>3, <1>4, <1>5 DEF WorkerAgrees, Running
<1>7. GoesOn(w, q)
  BY <1>1, <1>2 DEF GoesOn, Live
<1>8. /\ ent' \in [Users -> Nat \union {None}] /\ written' \in [Users -> Nat]
      /\ \A k \in Users : written'[k] >= written[k]
      /\ faults' \in 0..MaxFaults
  BY <1>4 DEF IInv, TypeOK
<1> QED
  BY <1>2, <1>3, <1>4, <1>6, <1>7, <1>8, PlainMove

(***************************************************************************)
(* Passing to the next user, once this one is written or gone.             *)
(***************************************************************************)
LEMMA NextUser ==
    ASSUME IInv, NEW w \in Workers, worker[w].pc \in {"write", "refresh"},
           worker' = [worker EXCEPT ![w].pc = "lookup", ![w].left = @ \ {worker[w].user}],
           Unmoved, ent' \in [Users -> Nat \union {None}], written' \in [Users -> Nat],
           \A k \in Users : written'[k] >= written[k],
           faults' \in 0..MaxFaults,
           worker[w].user \in exists =>
                written'[worker[w].user] >= cause[worker[w].event][worker[w].user]
    PROVE  IInv'
<1> DEFINE q == [worker[w] EXCEPT !.pc = "lookup", !.left = @ \ {worker[w].user}]
<1>1. Running(w) /\ worker \in [Workers -> Worker]
  BY RunningWorker DEF IInv, TypeOK
<1>2. /\ q \in Worker /\ q.pc = "lookup" /\ q.event = worker[w].event
      /\ q.token = worker[w].token /\ q.late = worker[w].late
      /\ q.left = worker[w].left \ {worker[w].user}
  BY <1>1 DEF Running, Worker
<1>3. worker' = [worker EXCEPT ![w] = q] /\ worker'[w] = q
  BY <1>1
<1> HIDE DEF q
<1>4. Emitted' = Emitted /\ UNCHANGED <<cause, claims, exists>>
  BY DEF Unmoved, Emitted
<1>5. \A k \in (Affected[q.event] \cap exists) \ q.left : written'[k] >= cause[q.event][k]
  <2> SUFFICES ASSUME NEW k \in (Affected[q.event] \cap exists) \ q.left, k # worker[w].user
               PROVE  written'[k] >= cause[q.event][k]
    BY <1>2
  <2>1. k \in Users /\ written[k] >= cause[q.event][k]
    BY <1>1, <1>2 DEF Running
  <2>2. written'[k] >= written[k] /\ written[k] \in Nat /\ cause[q.event][k] \in Nat
        /\ written'[k] \in Nat
    BY <1>1, <1>2, <2>1 DEF Running
  <2> QED
    BY <2>1, <2>2
<1>6. WorkerAgrees(w)'
  BY <1>1, <1>2, <1>3, <1>4, <1>5 DEF WorkerAgrees, Running
<1>7. GoesOn(w, q)
  BY <1>2 DEF GoesOn, Live
<1> QED
  BY <1>2, <1>3, <1>6, <1>7, PlainMove

(***************************************************************************)
(* The write of a user's row, which may fail after it took effect.         *)
(***************************************************************************)
LEMMA WriteStep ==
    ASSUME IInv, NEW w \in Workers, NEW ok \in BOOLEAN, Write(w, ok)
    PROVE  IInv'
<1> DEFINE u == worker[w].user
<1>1. /\ Running(w) /\ worker \in [Workers -> Worker] /\ worker[w].pc = "write"
      /\ u \in Users /\ worker[w].seen \in Nat /\ TypeOK
  BY RunningWorker DEF IInv, TypeOK, Write, Running, Worker
<1>2. /\ ent' \in [Users -> Nat \union {None}] /\ written' \in [Users -> Nat]
      /\ \A k \in Users : written'[k] >= written[k]
      /\ u \in exists => written'[u] >= worker[w].seen
  BY <1>1, WrittenGrows DEF Write
<1>3. faults' \in 0..MaxFaults
  BY <1>1, FaultType DEF Write
<1>4. Unmoved
  BY DEF Write, Unmoved, provider
<1>5. u \in exists => written'[u] >= cause[worker[w].event][u]
  <2>1. worker[w].seen >= cause[worker[w].event][u] /\ cause[worker[w].event][u] \in Nat
    BY <1>1 DEF Running
  <2> QED
    BY <1>1, <1>2, <2>1
<1>6. CASE ~ok
  <2>1. worker' = [worker EXCEPT ![w].pc = "release"]
    BY <1>6 DEF Write
  <2>2. WorldMoves
    BY <1>2, <1>4 DEF WorldMoves, Unmoved
  <2> QED
    BY <1>1, <1>2, <1>3, <1>4, <2>1, <2>2, ToRelease, PlainMove
<1>7. CASE ok /\ u \notin exists
  BY <1>1, <1>2, <1>3, <1>4, <1>7, NextUser DEF Write
<1>8. CASE ok /\ u \in exists
  <2> DEFINE q == [worker[w] EXCEPT !.pc = "refresh"]
  <2>1. /\ q \in Worker /\ q.pc = "refresh" /\ q.event = worker[w].event
        /\ q.token = worker[w].token /\ q.late = worker[w].late
        /\ q.left = worker[w].left /\ q.user = u
    BY <1>1 DEF Running, Worker
  <2>2. worker' = [worker EXCEPT ![w] = q] /\ worker'[w] = q
    BY <1>1, <1>8 DEF Write
  <2> HIDE DEF q
  <2>3. Emitted' = Emitted /\ UNCHANGED <<cause, claims, exists>>
    BY <1>4 DEF Unmoved, Emitted
  <2>4. \A k \in (Affected[q.event] \cap exists) \ q.left : written'[k] >= cause[q.event][k]
    <3> TAKE k \in (Affected[q.event] \cap exists) \ q.left
    <3>1. k \in Users /\ written[k] >= cause[q.event][k] /\ written[k] \in Nat
          /\ cause[q.event][k] \in Nat
      BY <1>1, <2>1 DEF Running
    <3> QED
      BY <1>2, <3>1
  <2>5. WorkerAgrees(w)'
    BY <1>1, <1>5, <2>1, <2>2, <2>3, <2>4 DEF WorkerAgrees, Running
  <2>6. GoesOn(w, q)
    BY <1>1, <2>1 DEF GoesOn, Live
  <2> QED
    BY <1>2, <1>3, <1>4, <2>1, <2>2, <2>5, <2>6, PlainMove
<1> QED
  BY <1>6, <1>7, <1>8

(***************************************************************************)
(* The other steps of a worker that leave its claim alone.                 *)
(***************************************************************************)
LEMMA OtherMoves ==
    ASSUME IInv, NEW w \in Workers, NEW ready \in BOOLEAN,
           Refresh(w, ready) \/ Fail(w) \/ Crash(w) \/ Release(w, FALSE)
    PROVE  IInv'
<1>1. /\ Running(w) /\ worker \in [Workers -> Worker] /\ TypeOK /\ worker[w].pc # "idle"
  BY RunningWorker DEF IInv, TypeOK, Refresh, Fail, Crash, Release
<1>2. Unmoved /\ UNCHANGED <<ent, written>>
  BY DEF Refresh, Fail, Crash, Release, Unmoved, provider
<1>3. faults' \in 0..MaxFaults
  BY <1>1, FaultType DEF Refresh, Fail, Crash, Release, Answered
<1>4. /\ ent' \in [Users -> Nat \union {None}] /\ written' \in [Users -> Nat]
      /\ \A k \in Users : written'[k] >= written[k]
  BY <1>1, <1>2 DEF TypeOK
<1>5. WorldMoves
  BY <1>2, <1>4 DEF WorldMoves, Unmoved
<1>6. CASE worker' = [worker EXCEPT ![w].pc = "release"]
  BY <1>1, <1>2, <1>3, <1>4, <1>5, <1>6, ToRelease, PlainMove
<1>7. CASE worker' = [worker EXCEPT ![w] = IdleWorker]
  BY <1>2, <1>3, <1>4, <1>7, IdleAgrees, PlainMove
<1>8. CASE Refresh(w, ready) /\ ready /\ worker[w].user \in exists
  <2>1. /\ worker[w].pc \in {"write", "refresh"}
        /\ worker' = [worker EXCEPT ![w].pc = "lookup", ![w].left = @ \ {worker[w].user}]
        /\ written'[worker[w].user] >= cause[worker[w].event][worker[w].user]
    BY <1>1, <1>2, <1>8 DEF Refresh, Running
  <2> QED
    BY <1>2, <1>3, <1>4, <2>1, NextUser
<1> QED
  BY <1>6, <1>7, <1>8 DEF Refresh, Fail, Crash, Release

(***************************************************************************)
(* Completion and release touch the row of the worker's event alone, and   *)
(* only while it holds the worker's token.                                 *)
(***************************************************************************)
LEMMA ClaimGiven ==
    ASSUME IInv, NEW w \in Workers, worker[w].pc # "idle",
           ClaimCompleted(w) \/ ClaimReleased(w)
    PROVE  /\ claims' \in [Events -> Claim]
           /\ \A e \in Events :
                /\ claims'[e] = claims[e] \/ (e = worker[w].event /\ OwnsRow(w))
                /\ claims'[e].old => claims[e].old /\ claims'[e].token = claims[e].token
                /\ claims'[e].status = "completed" =>
                     \/ claims[e].status = "completed"
                     \/ e = worker[w].event /\ ClaimCompleted(w)
<1>1. claims \in [Events -> Claim] /\ worker[w].event \in Events
  BY RunningWorker DEF IInv, TypeOK, Running
<1>2. NoClaim \in Claim /\ NoClaim.old = FALSE /\ NoClaim.status # "completed"
  BY DEF NoClaim, Claim
<1>3. CASE UNCHANGED claims
  BY <1>1, <1>3
<1>4. CASE ClaimCompleted(w) /\ OwnsRow(w)
  <2> DEFINE c == [claims[worker[w].event] EXCEPT !.status = "completed"]
  <2>1. /\ c \in Claim /\ c.old = claims[worker[w].event].old
        /\ c.token = claims[worker[w].event].token
    BY <1>1 DEF Claim
  <2>2. claims' = [claims EXCEPT ![worker[w].event] = c]
    BY <1>1, <1>4 DEF ClaimCompleted
  <2> HIDE DEF c
  <2> QED
    BY <1>1, <1>4, <2>1, <2>2
<1>5. CASE ClaimReleased(w) /\ OwnsRow(w)
  BY <1>1, <1>2, <1>5 DEF ClaimReleased
<1> QED
  BY <1>3, <1>4, <1>5 DEF ClaimCompleted, ClaimReleased

(***************************************************************************)
(* A worker with no user left has applied its event.                       *)
(***************************************************************************)
LEMMA DoneIsReflected ==
    ASSUME NEW w \in Workers, Running(w), worker[w].left = {}
    PROVE  worker[w].event \in Emitted /\ Reflected(worker[w].event)
  BY DEF Running, Reflected

(***************************************************************************)
(* Completing or releasing a claim preserves the invariant.                *)
(***************************************************************************)
LEMMA ClaimStep ==
    ASSUME IInv, NEW w \in Workers,
           \/ \E ok \in BOOLEAN : Complete(w, ok)
           \/ CompleteUnanswered(w) \/ Release(w, TRUE)
    PROVE  IInv'
<1>1. /\ Running(w) /\ worker \in [Workers -> Worker] /\ TypeOK /\ worker[w].pc # "idle"
      /\ ClaimCompleted(w) \/ ClaimReleased(w)
  BY RunningWorker DEF IInv, TypeOK, Complete, CompleteUnanswered, Release
<1>2. /\ claims' \in [Events -> Claim]
      /\ \A e \in Events :
            /\ claims'[e] = claims[e] \/ (e = worker[w].event /\ OwnsRow(w))
            /\ claims'[e].old => claims[e].old /\ claims'[e].token = claims[e].token
            /\ claims'[e].status = "completed" =>
                 \/ claims[e].status = "completed"
                 \/ e = worker[w].event /\ ClaimCompleted(w)
  BY <1>1, ClaimGiven
<1>3. UNCHANGED <<canon, cause, exists, ent, written, signIn>>
  BY DEF Complete, CompleteUnanswered, Release, provider
<1>4. faults' \in 0..MaxFaults
  BY <1>1, FaultType DEF Complete, CompleteUnanswered, Release
<1>5. /\ ent' \in [Users -> Nat \union {None}] /\ written' \in [Users -> Nat]
      /\ \A k \in Users : written'[k] >= written[k]
  BY <1>1, <1>3 DEF TypeOK
<1>6. /\ acked' \subseteq Events
      /\ \A e \in Events : e \in acked' \/ claims'[e].status = "completed" =>
            \/ e \in acked \/ claims[e].status = "completed"
            \/ e \in Emitted /\ Reflected(e)
  <2>1. CASE Release(w, TRUE)
    <3>1. UNCHANGED acked /\ ClaimReleased(w)
      BY <2>1 DEF Release
    <3>2. \A e \in Events : claims'[e].status = "completed" => claims[e].status = "completed"
      <4>1. claims \in [Events -> Claim] /\ NoClaim.status # "completed"
        BY <1>1 DEF TypeOK, NoClaim
      <4> QED
        BY <3>1, <4>1 DEF ClaimReleased
    <3> QED
      BY <1>1, <3>1, <3>2 DEF TypeOK
  <2>2. CASE (\E ok \in BOOLEAN : Complete(w, ok)) \/ CompleteUnanswered(w)
    <3>1. worker[w].left = {} /\ acked' \subseteq acked \union {worker[w].event}
      BY <2>2 DEF Complete, CompleteUnanswered
    <3>2. worker[w].event \in Emitted /\ Reflected(worker[w].event)
      BY <1>1, <3>1, DoneIsReflected
    <3> QED
      BY <1>1, <1>2, <3>1, <3>2 DEF TypeOK, Running
  <2> QED
    BY <2>1, <2>2
<1>7. WorldMoves
  BY <1>2, <1>3, <1>5 DEF WorldMoves
<1>8. CASE worker' = [worker EXCEPT ![w] = IdleWorker]
  BY <1>2, <1>3, <1>4, <1>5, <1>6, <1>8, IdleAgrees, IdleWorkerType, WorkerMove DEF Live
<1>9. CASE worker' = [worker EXCEPT ![w].pc = "release"]
  <2> DEFINE q == [worker[w] EXCEPT !.pc = "release"]
  <2>1. /\ WorkerAgrees(w)' /\ GoesOn(w, q) /\ q \in Worker
        /\ worker' = [worker EXCEPT ![w] = q] /\ q.pc = "release"
    BY <1>1, <1>7, <1>9, ToRelease
  <2> HIDE DEF q
  <2>2. q.pc \notin Live
    BY <2>1 DEF Live
  <2> QED
    BY <1>2, <1>3, <1>4, <1>5, <1>6, <2>1, <2>2, WorkerMove
<1> QED
  BY <1>8, <1>9 DEF Complete, CompleteUnanswered, Release

(***************************************************************************)
(* Time makes a claim old, and its worker late with it.                    *)
(***************************************************************************)
LEMMA AgeStep ==
    ASSUME IInv, NEW e \in Events, Age(e)
    PROVE  IInv'
<1> DEFINE late(w) == worker[w].event = e /\ worker[w].token = claims[e].token
<1>1. /\ claims \in [Events -> Claim] /\ worker \in [Workers -> Worker] /\ TypeOK
      /\ \A w \in Workers : WorkerAgrees(w) /\ worker[w] \in Worker
  BY DEF IInv, TypeOK
<1>2. /\ claims' = [claims EXCEPT ![e] = [@ EXCEPT !.old = TRUE]]
      /\ claims' \in [Events -> Claim]
      /\ \A x \in Events \ {e} : claims'[x] = claims[x]
      /\ claims'[e].status = claims[e].status /\ claims'[e].token = claims[e].token
  BY <1>1 DEF Age, Claim
<1>3. UNCHANGED <<canon, cause, acked, exists, ent, written, signIn, faults>> /\ Emitted' = Emitted
  BY DEF Age, provider, Emitted
<1>4. \A w \in Workers :
        /\ worker'[w] \in Worker
        /\ worker'[w].pc = worker[w].pc /\ worker'[w].event = worker[w].event
        /\ worker'[w].token = worker[w].token /\ worker'[w].left = worker[w].left
        /\ worker'[w].user = worker[w].user /\ worker'[w].seen = worker[w].seen
        /\ late(w) => worker'[w].late
        /\ worker[w].late => worker'[w].late
  <2> TAKE w \in Workers
  <2>1. worker'[w] = IF late(w) THEN [worker[w] EXCEPT !.late = TRUE] ELSE worker[w]
    BY DEF Age
  <2> QED
    BY <1>1, <2>1 DEF Worker
<1>5. worker' \in [Workers -> Worker]
  BY <1>4 DEF Age
<1>6. TypeOK'
  BY <1>1, <1>2, <1>3, <1>5 DEF TypeOK
<1>7. ASSUME NEW w \in Workers PROVE WorkerAgrees(w)'
  <2>1. CASE worker[w].pc = "idle"
    BY <1>1, <1>4, <2>1 DEF WorkerAgrees
  <2>2. CASE worker[w].pc # "idle"
    <3>1. Running(w)
      BY <2>2, RunningWorker
    <3>2. claims'[worker[w].event].old /\ claims'[worker[w].event].token = worker[w].token
            => worker'[w].late
      BY <1>2, <1>4, <3>1 DEF Running
    <3> QED
      BY <1>3, <1>4, <2>2, <3>1, <3>2 DEF WorkerAgrees, Running
  <2> QED
    BY <2>1, <2>2
<1>8. AcknowledgedIsApplied'
  BY <1>2, <1>3 DEF IInv, AcknowledgedIsApplied, Reflected
<1>9. ASSUME NEW w \in Workers, worker'[w].pc \in Live, ~worker'[w].late
      PROVE  /\ OwnsRow(w)'
             /\ \A v \in Workers \ {w} :
                  worker'[v].event = worker'[w].event => worker'[v].token # worker'[w].token
  <2>1. /\ OwnsRow(w) /\ worker[w].event \in Events
        /\ \A v \in Workers \ {w} :
              worker[v].event = worker[w].event => worker[v].token # worker[w].token
    BY <1>4, <1>9, RunningWorker DEF IInv, LiveClaimStands, Live, Running
  <2>2. OwnsRow(w)'
    BY <1>2, <1>4, <2>1 DEF OwnsRow
  <2> QED
    BY <1>4, <2>1, <2>2
<1>10. LiveClaimStands'
  BY <1>9 DEF LiveClaimStands, Live
<1>11. CauseWithinCanon'
  BY <1>3 DEF IInv, CauseWithinCanon
<1> QED
  BY <1>6, <1>7, <1>8, <1>10, <1>11 DEF IInv

(***************************************************************************)
(* A claim, new or taken over, whose answer the worker may not hear.       *)
(***************************************************************************)
LEMMA StartStep ==
    ASSUME IInv, NEW w \in Workers, NEW e \in Events, NEW ok \in BOOLEAN, Start(w, e, ok)
    PROVE  IInv'
<1>1. PICK t \in Tokens :
        /\ FreshToken(t) /\ Claimed(e, t)
        /\ worker' = IF ok
             THEN [worker EXCEPT ![w] = [IdleWorker EXCEPT
                     !.pc = "lookup", !.event = e, !.token = t, !.left = Affected[e]]]
             ELSE worker
  BY DEF Start
<1>2. /\ claims \in [Events -> Claim] /\ worker \in [Workers -> Worker] /\ TypeOK
      /\ t \in Nat /\ t \notin InUse /\ Affected[e] \subseteq Users
      /\ \A v \in Workers : WorkerAgrees(v)
  BY <1>1, TokensAssumption, AffectedAssumption DEF IInv, TypeOK, FreshToken
<1>3. /\ UNCHANGED <<canon, cause, acked, exists, ent, written, signIn>> /\ Emitted' = Emitted
      /\ e \in Emitted /\ Claimable(e) /\ worker[w].pc = "idle"
  BY DEF Start, provider, Emitted
<1>4. faults' \in 0..MaxFaults
  BY <1>2, FaultType DEF Start
<1> DEFINE c == [status |-> "processing", token |-> t, old |-> FALSE]
<1>5. /\ claims' \in [Events -> Claim]
      /\ claims'[e] = c /\ c.status = "processing" /\ c.token = t /\ c.old = FALSE
      /\ \A x \in Events \ {e} : claims'[x] = claims[x]
  BY <1>1, <1>2 DEF Claimed, Claim
<1> HIDE DEF c
<1> DEFINE q == [IdleWorker EXCEPT !.pc = "lookup", !.event = e, !.token = t, !.left = Affected[e]]
<1>6. q \in Worker /\ q.pc = "lookup" /\ q.event = e /\ q.token = t /\ q.left = Affected[e]
  BY <1>2, IdleWorkerType DEF Worker
<1>7. /\ worker' \in [Workers -> Worker]
      /\ worker'[w] = q \/ worker'[w] = worker[w]
      /\ \A v \in Workers \ {w} : worker'[v] = worker[v]
  BY <1>1, <1>2, <1>6
<1> HIDE DEF q
<1>8. WorldMoves
  BY <1>2, <1>3, <1>5 DEF WorldMoves, TypeOK
<1>9. TypeOK'
  BY <1>2, <1>3, <1>4, <1>5, <1>7 DEF TypeOK
<1>10. ASSUME NEW v \in Workers PROVE WorkerAgrees(v)'
  <2>1. CASE worker'[v] = worker[v]
    BY <1>8, <2>1, UntouchedWorker
  <2>2. CASE v = w /\ worker'[w] = q
    <3>1. (Affected[e] \cap exists) \ q.left = {}
      BY <1>6
    <3> QED
      BY <1>3, <1>5, <1>6, <2>2, <3>1 DEF WorkerAgrees
  <2> QED
    BY <1>7, <2>1, <2>2
<1>11. AcknowledgedIsApplied'
  <2>1. \A x \in Events : x \in acked' \/ claims'[x].status = "completed" =>
            x \in acked \/ claims[x].status = "completed"
    BY <1>3, <1>5
  <2> QED
    BY <1>8, <2>1, Acknowledge
<1>12. ASSUME NEW v \in Workers, worker'[v].pc \in Live, ~worker'[v].late
       PROVE  /\ OwnsRow(v)'
              /\ \A x \in Workers \ {v} :
                   worker'[x].event = worker'[v].event => worker'[x].token # worker'[v].token
  <2>1. CASE v = w /\ worker'[w] = q
    <3>1. \A x \in Workers : worker[x].token # t
      BY <1>2 DEF InUse
    <3> QED
      BY <1>5, <1>6, <1>7, <2>1, <3>1 DEF OwnsRow
  <2>2. CASE v # w \/ worker'[w] = worker[w]
    <3>1. worker'[v] = worker[v]
      BY <1>7, <2>2
    <3>2. /\ OwnsRow(v) /\ Running(v)
          /\ \A x \in Workers \ {v} :
                worker[x].event = worker[v].event => worker[x].token # worker[v].token
      BY <1>12, <3>1, RunningWorker DEF IInv, LiveClaimStands, Live
    <3>3. worker[v].event # e
      BY <1>3, <1>12, <3>1, <3>2 DEF OwnsRow, Running, Claimable
    <3>4. OwnsRow(v)'
      BY <1>5, <3>1, <3>2, <3>3 DEF OwnsRow, Running
    <3>5. \A x \in Workers \ {v} :
            worker'[x].event = worker'[v].event => worker'[x].token # worker'[v].token
      BY <1>6, <1>7, <3>1, <3>2, <3>3
    <3> QED
      BY <3>4, <3>5
  <2> QED
    BY <1>7, <2>1, <2>2
<1>13. LiveClaimStands'
  BY <1>12 DEF LiveClaimStands, Live
<1>14. CauseWithinCanon'
  BY <1>3 DEF IInv, CauseWithinCanon
<1> QED
  BY <1>9, <1>10, <1>11, <1>13, <1>14 DEF IInv

(***************************************************************************)
(* A change at the provider, announced by an event that no worker had yet. *)
(***************************************************************************)
LEMMA EmitStep ==
    ASSUME IInv, NEW e \in Events, Emit(e)
    PROVE  /\ IInv'
           /\ \A x \in Events \ {e} : cause'[x] = cause[x]
           /\ Emitted' = Emitted \/ Emitted' = Emitted \union {e}
<1>1. /\ TypeOK /\ e \notin Emitted /\ Affected[e] \subseteq Users
      /\ canon \in [Users -> Nat] /\ cause \in [Events -> [Users -> Nat]]
      /\ UNCHANGED <<acked, exists, ent, written, claims, worker, signIn, faults>>
  BY AffectedAssumption DEF IInv, TypeOK, Emit
<1> DEFINE announced == [u \in Users |-> IF u \in Affected[e] THEN canon[u] + 1 ELSE 0]
<1>2. announced \in [Users -> Nat] /\ cause' = [cause EXCEPT ![e] = announced]
  BY <1>1 DEF Emit
<1>3. /\ cause' \in [Events -> [Users -> Nat]] /\ cause'[e] = announced
      /\ \A x \in Events \ {e} : cause'[x] = cause[x]
  BY <1>1, <1>2
<1>4. /\ canon' \in [Users -> Nat]
      /\ \A u \in Users : canon'[u] = IF u \in Affected[e] THEN canon[u] + 1 ELSE canon[u]
  BY <1>1 DEF Emit
<1>5. Emitted' = Emitted \/ Emitted' = Emitted \union {e}
  <2>1. \A x \in Events \ {e} : x \in Emitted' <=> x \in Emitted
    BY <1>3 DEF Emitted
  <2> QED
    BY <1>1, <2>1 DEF Emitted
<1>6. CauseWithinCanon'
  <2>1. \A u \in Users : announced[u] <= canon'[u]
    BY <1>1, <1>4
  <2>2. \A x \in Events \ {e}, u \in Users : cause'[x][u] <= canon'[u]
    BY <1>1, <1>3, <1>4 DEF IInv, CauseWithinCanon
  <2> QED
    BY <1>3, <2>1, <2>2 DEF CauseWithinCanon
<1>7. TypeOK'
  BY <1>1, <1>3, <1>4 DEF TypeOK
<1>8. ASSUME NEW w \in Workers PROVE WorkerAgrees(w)'
  <2>1. CASE worker[w].pc = "idle"
    BY <1>1, <2>1 DEF IInv, WorkerAgrees
  <2>2. CASE worker[w].pc # "idle"
    <3>1. Running(w)
      BY <2>2, RunningWorker
    <3>2. cause'[worker[w].event] = cause[worker[w].event] /\ worker[w].event \in Emitted'
      BY <1>1, <1>3, <1>5, <3>1 DEF Running
    <3> QED
      BY <1>1, <2>2, <3>1, <3>2 DEF WorkerAgrees, Running
  <2> QED
    BY <2>1, <2>2
<1>9. AcknowledgedIsApplied'
  <2> SUFFICES ASSUME NEW x \in Events, x \in acked \/ claims[x].status = "completed"
               PROVE  (x \in Emitted /\ Reflected(x))'
    BY <1>1 DEF AcknowledgedIsApplied
  <2>1. x \in Emitted /\ Reflected(x)
    BY DEF IInv, AcknowledgedIsApplied
  <2>2. x # e /\ cause'[x] = cause[x] /\ x \in Emitted'
    BY <1>1, <1>3, <1>5, <2>1
  <2> QED
    BY <1>1, <2>1, <2>2 DEF Reflected
<1>10. LiveClaimStands'
  BY <1>1 DEF IInv, LiveClaimStands, OwnsRow
<1> QED
  BY <1>3, <1>5, <1>6, <1>7, <1>8, <1>9, <1>10 DEF IInv

(***************************************************************************)
(* The steps that touch no worker: a duplicate answered, a sign-in, a user *)
(* who leaves.                                                             *)
(***************************************************************************)
LEMMA BystanderStep ==
    ASSUME IInv,
           \/ \E e \in Events : AnswerDuplicate(e)
           \/ \E u \in Users : ReconcileLookup(u) \/ ReconcileWrite(u) \/ DeleteUser(u)
    PROVE  IInv' /\ WorldMoves /\ Emitted' = Emitted
<1>1. TypeOK /\ UNCHANGED <<canon, cause, claims, worker, faults>> /\ Emitted' = Emitted
  BY DEF IInv, AnswerDuplicate, ReconcileLookup, ReconcileWrite, DeleteUser, provider, Emitted
<1>2. /\ ent' \in [Users -> Nat \union {None}] /\ written' \in [Users -> Nat]
      /\ \A k \in Users : written'[k] >= written[k]
      /\ exists' \subseteq exists
      /\ signIn' \in [Users -> Nat \union {None}]
  <2>1. ASSUME NEW u \in Users, ReconcileWrite(u)
        PROVE  /\ ent' \in [Users -> Nat \union {None}] /\ written' \in [Users -> Nat]
               /\ \A k \in Users : written'[k] >= written[k]
               /\ exists' \subseteq exists
               /\ signIn' \in [Users -> Nat \union {None}]
    <3>1. signIn[u] \in Nat /\ SetEntitlement(u, signIn[u])
      BY <1>1, <2>1 DEF ReconcileWrite, TypeOK
    <3>2. UNCHANGED exists /\ signIn' \in [Users -> Nat \union {None}]
      BY <1>1, <2>1 DEF ReconcileWrite, TypeOK
    <3> QED
      BY <1>1, <3>1, <3>2, WrittenGrows
  <2>2. ASSUME (\E e \in Events : AnswerDuplicate(e))
               \/ (\E u \in Users : ReconcileLookup(u) \/ DeleteUser(u))
        PROVE  /\ ent' \in [Users -> Nat \union {None}] /\ UNCHANGED written
               /\ exists' \subseteq exists
               /\ signIn' \in [Users -> Nat \union {None}]
    BY <1>1, <2>2 DEF AnswerDuplicate, ReconcileLookup, DeleteUser, TypeOK
  <2>3. \A k \in Users : written[k] \in Nat
    BY <1>1 DEF TypeOK
  <2> QED
    BY <1>1, <2>1, <2>2, <2>3 DEF TypeOK
<1>3. /\ acked' \subseteq Events
      /\ \A e \in Events : e \in acked' => e \in acked \/ claims[e].status = "completed"
  BY <1>1 DEF AnswerDuplicate, ReconcileLookup, ReconcileWrite, DeleteUser, TypeOK
<1>4. WorldMoves
  BY <1>1, <1>2 DEF WorldMoves
<1>5. \A w \in Workers : WorkerAgrees(w)'
  BY <1>1, <1>4, UntouchedWorker
<1>6. AcknowledgedIsApplied'
  BY <1>1, <1>3, <1>4, Acknowledge
<1>7. LiveClaimStands' /\ CauseWithinCanon'
  BY <1>1 DEF IInv, LiveClaimStands, OwnsRow, CauseWithinCanon
<1>8. TypeOK'
  BY <1>1, <1>2, <1>3 DEF TypeOK
<1> QED
  BY <1>1, <1>4, <1>5, <1>6, <1>7, <1>8 DEF IInv

(***************************************************************************)
(* Every step preserves the invariant.                                     *)
(***************************************************************************)
LEMMA NextStep ==
    ASSUME IInv, [Next]_vars
    PROVE  IInv'
<1>1. ASSUME NEW e \in Events,
             Emit(e) \/ Age(e) \/ AnswerDuplicate(e)
             \/ (\E w \in Workers, ok \in BOOLEAN : Start(w, e, ok))
      PROVE  IInv'
  BY <1>1, EmitStep, AgeStep, BystanderStep, StartStep
<1>2. ASSUME NEW w \in Workers,
             \/ Steps(w) \/ Fail(w) \/ Crash(w) \/ CompleteUnanswered(w)
             \/ Write(w, FALSE) \/ Complete(w, FALSE) \/ Release(w, FALSE)
      PROVE  IInv'
  <2>1. CASE \E u \in Users : Lookup(w, u)
    BY <2>1, LookupStep
  <2>2. CASE Write(w, TRUE) \/ Write(w, FALSE)
    BY <2>2, WriteStep
  <2>3. CASE (\E ready \in BOOLEAN : Refresh(w, ready)) \/ Fail(w) \/ Crash(w) \/ Release(w, FALSE)
    BY <2>3, OtherMoves
  <2>4. CASE Complete(w, TRUE) \/ Complete(w, FALSE) \/ CompleteUnanswered(w) \/ Release(w, TRUE)
    BY <2>4, ClaimStep
  <2> QED
    BY <1>2, <2>1, <2>2, <2>3, <2>4 DEF Steps
<1>3. ASSUME NEW u \in Users, ReconcileLookup(u) \/ ReconcileWrite(u) \/ DeleteUser(u)
      PROVE  IInv'
  BY <1>3, BystanderStep
<1>4. CASE UNCHANGED vars
  BY <1>4 DEF vars, IInv, TypeOK, CauseWithinCanon, WorkerAgrees, AcknowledgedIsApplied,
              LiveClaimStands, OwnsRow, Emitted, Reflected
<1> QED
  BY <1>1, <1>2, <1>3, <1>4 DEF Next

(***************************************************************************)
(* The invariant holds of every state of the webhook.                      *)
(***************************************************************************)
THEOREM Invariance == Spec => []IInv
  BY InitInvariant, NextStep, PTL DEF Spec

(***************************************************************************)
(* The variables stay well typed.                                          *)
(***************************************************************************)
THEOREM TypeCorrect == Spec => []TypeOK
<1>1. IInv => TypeOK
  BY DEF IInv
<1> QED
  BY <1>1, Invariance, PTL

(***************************************************************************)
(* AcknowledgedIsApplied: no event is recorded as completed, or answered   *)
(* 200, before every user it names and still exists is written from a      *)
(* lookup as recent as the change.                                         *)
(***************************************************************************)
THEOREM AcknowledgedApplied == Spec => []AcknowledgedIsApplied
<1>1. IInv => AcknowledgedIsApplied
  BY DEF IInv
<1> QED
  BY <1>1, Invariance, PTL

(***************************************************************************)
(* LiveClaimStands: no worker within its fifteen minutes loses its claim.  *)
(***************************************************************************)
THEOREM LiveClaims == Spec => []LiveClaimStands
<1>1. IInv => LiveClaimStands
  BY DEF IInv
<1> QED
  BY <1>1, Invariance, PTL

-----------------------------------------------------------------------------
(* The refinement                                                           *)

Applied == {e \in Emitted : Reflected(e)}

(***************************************************************************)
(* A step that moves the world only forward, and acknowledges nothing,     *)
(* applies events at most.                                                 *)
(***************************************************************************)
LEMMA WorldStep ==
    ASSUME IInv, WorldMoves, UNCHANGED <<acked, claims>>
    PROVE  Ledger!LedgerNext
<1>1. Emitted' = Emitted
  BY DEF WorldMoves, Emitted
<1>2. \A e \in Events : Reflected(e) => Reflected(e)'
  BY Acknowledge
<1> DEFINE more == Applied'
<1>3. /\ more \in SUBSET Emitted
      /\ {e \in Emitted : Reflected(e)}' = {e \in Emitted : Reflected(e)} \union more
  BY <1>1, <1>2 DEF Applied, Emitted
<1> HIDE DEF more
<1> QED
  BY <1>1, <1>3 DEF Ledger!LedgerNext, Ledger!ApplyEvents

(***************************************************************************)
(* An acknowledgement is one of an applied event.                          *)
(***************************************************************************)
LEMMA AckStep ==
    ASSUME NEW e \in Events, e \in Applied, acked' = acked \union {e},
           UNCHANGED <<cause, exists, written>>
    PROVE  Ledger!LedgerNext
<1>1. Emitted' = Emitted /\ \A x : Reflected(x)' <=> Reflected(x)
  BY DEF Emitted, Reflected
<1>2. {x \in Emitted : Reflected(x)}' = {x \in Emitted : Reflected(x)}
  BY <1>1
<1> QED
  BY <1>1, <1>2 DEF Ledger!LedgerNext, Ledger!AcknowledgeEvent, Applied

(***************************************************************************)
(* ImplementsLedger: whatever crashes, takeovers, lost answers and         *)
(* deletions cross, the webhook behaves as EventLedger.                    *)
(***************************************************************************)
THEOREM Refinement == Spec => ImplementsLedger
<1>1. Init => Ledger!LedgerInit
  BY AffectedAssumption DEF Init, Ledger!LedgerInit, Emitted
<1>2. ASSUME IInv, [Next]_vars PROVE [Ledger!LedgerNext]_Ledger!ledgerVars
  <2>1. CASE UNCHANGED <<cause, exists, written, acked>>
    BY <2>1 DEF Ledger!ledgerVars, Emitted, Reflected
  <2>2. ASSUME NEW e \in Events, Emit(e)
        PROVE  [Ledger!LedgerNext]_Ledger!ledgerVars
    <3>1. /\ \A x \in Events \ {e} : cause'[x] = cause[x]
          /\ Emitted' = Emitted \/ Emitted' = Emitted \union {e}
      BY <1>2, <2>2, EmitStep
    <3>2. UNCHANGED <<acked, exists, written>> /\ e \notin Emitted /\ Emitted \subseteq Events
      BY <2>2 DEF Emit, Emitted
    <3>3. \A x \in Emitted : Reflected(x)' <=> Reflected(x)
      BY <3>1, <3>2 DEF Reflected
    <3>4. CASE Emitted' = Emitted
      <4>1. {x \in Emitted : Reflected(x)}' = {x \in Emitted : Reflected(x)}
        BY <3>3, <3>4
      <4> QED
        BY <3>2, <3>4, <4>1 DEF Ledger!ledgerVars
    <3>5. CASE Emitted' = Emitted \union {e}
      <4>1. \/ {x \in Emitted : Reflected(x)}' = {x \in Emitted : Reflected(x)}
            \/ {x \in Emitted : Reflected(x)}' = {x \in Emitted : Reflected(x)} \union {e}
        <5>1. CASE Reflected(e)'
          BY <3>2, <3>3, <3>5, <5>1
        <5>2. CASE ~Reflected(e)'
          BY <3>2, <3>3, <3>5, <5>2
        <5> QED
          BY <5>1, <5>2
      <4> QED
        BY <3>2, <3>5, <4>1 DEF Ledger!LedgerNext, Ledger!EmitEvent
    <3> QED
      BY <3>1, <3>4, <3>5
  <2>3. ASSUME NEW e \in Events, AnswerDuplicate(e) PROVE Ledger!LedgerNext
    <3>1. e \in Applied
      BY <1>2, <2>3 DEF AnswerDuplicate, IInv, AcknowledgedIsApplied, Applied
    <3> QED
      BY <2>3, <3>1, AckStep DEF AnswerDuplicate, provider
  <2>4. ASSUME NEW w \in Workers, NEW ok \in BOOLEAN, Complete(w, ok)
        PROVE  [Ledger!LedgerNext]_Ledger!ledgerVars
    <3>1. UNCHANGED <<cause, exists, written>>
      BY <2>4 DEF Complete, provider
    <3>2. CASE ~ok
      BY <2>1, <2>4, <3>1, <3>2 DEF Complete
    <3>3. CASE ok
      <4>1. Running(w) /\ worker[w].left = {} /\ acked' = acked \union {worker[w].event}
        BY <1>2, <2>4, <3>3, RunningWorker DEF Complete
      <4>2. worker[w].event \in Applied /\ worker[w].event \in Events
        BY <4>1, DoneIsReflected DEF Applied, Running
      <4> QED
        BY <3>1, <4>1, <4>2, AckStep
    <3> QED
      BY <3>2, <3>3
  <2>5. ASSUME NEW w \in Workers, NEW ok \in BOOLEAN, Write(w, ok) PROVE Ledger!LedgerNext
    <3>1. /\ TypeOK /\ worker[w].user \in Users /\ worker[w].seen \in Nat
          /\ SetEntitlement(worker[w].user, worker[w].seen)
          /\ UNCHANGED <<cause, exists, acked, claims>>
      BY <1>2, <2>5, RunningWorker DEF IInv, Write, provider, Running, Worker
    <3>2. WorldMoves
      BY <3>1, WrittenGrows DEF WorldMoves
    <3> QED
      BY <1>2, <3>1, <3>2, WorldStep
  <2>6. ASSUME NEW u \in Users, ReconcileWrite(u) \/ DeleteUser(u) PROVE Ledger!LedgerNext
    <3>1. WorldMoves
      BY <1>2, <2>6, BystanderStep
    <3> QED
      BY <1>2, <2>6, <3>1, WorldStep DEF ReconcileWrite, DeleteUser
  <2>7. ASSUME \/ \E e \in Events : Age(e) \/ \E w \in Workers, ok \in BOOLEAN : Start(w, e, ok)
               \/ \E w \in Workers :
                    \/ \E u \in Users : Lookup(w, u)
                    \/ \E ready \in BOOLEAN : Refresh(w, ready)
                    \/ Fail(w) \/ Crash(w) \/ CompleteUnanswered(w)
                    \/ \E ok \in BOOLEAN : Release(w, ok)
               \/ \E u \in Users : ReconcileLookup(u)
               \/ UNCHANGED vars
        PROVE  UNCHANGED <<cause, exists, written, acked>>
    BY <2>7 DEF Age, Start, Lookup, Refresh, Fail, Crash, CompleteUnanswered, Release,
                ReconcileLookup, provider, vars
  <2> QED
    BY <1>2, <2>1, <2>2, <2>3, <2>4, <2>5, <2>6, <2>7 DEF Next, Steps
<1> QED
  BY <1>1, <1>2, Invariance, PTL DEF Spec, ImplementsLedger, Ledger!LedgerSpec
=============================================================================
