----------------------- MODULE ExtensionSessionProofs -----------------------
(***************************************************************************)
(* No purchase of a shared browser changes hands, for any number of        *)
(* accounts, of operations of the session that run at once and of sign-ins.*)
(*                                                                         *)
(* Both properties of ExtensionSession compare the stored checkout         *)
(* operation with a session that may be replaced at any await.  What makes *)
(* them inductive is the queue: at most one task at a time is between      *)
(* taking the operation and writing the slot (OneInLane), and what it has  *)
(* taken is its own account's and still what the slot holds, if the slot   *)
(* names that account at all (LaneFollowsSlot): only a purge empties the   *)
(* slot from outside the queue.  A call of the queue may travel under a    *)
(* newer session, so the answer may name another account's operation; but  *)
(* sessions are numbered, the one the task began with is gone for good and *)
(* the last look at it before the slot is written fails (AnswerIsOwn).     *)
(***************************************************************************)
EXTENDS ExtensionSession, FiniteSetTheorems, TLAPS

SessionRecord == [user : Accounts \union {None}, id : Nat]

PurchaseRecord == [owner : Accounts \union {None}, n : Nat]

Kinds == {"none", "reconcile", "checkout", "verify", "leave", "delete"}

Steps == {"idle", "queue", "slot", "complete", "completed", "read", "tell",
          "create", "send", "created", "code", "identity", "record", "purge",
          "forget", "drop", "signin", "settle", "check", "grant", "revoke", "erase"}

TaskRecord == [kind : Kinds, pc : Steps, session : SessionRecord, fresh : BOOLEAN,
               op : PurchaseRecord, previous : Accounts \union {None}]

\* The types the argument needs, without the bounds of the model.
Typed ==
    /\ purchase \in [Accounts -> [n : Nat, state : {"open", "seen", "closed"}]]
    /\ stored \in SessionRecord /\ (stored.user = None => stored = NoSession)
    /\ signIns \in Nat
    /\ record \in Accounts \union {None} /\ lastSynced \in Accounts \union {None}
    /\ slot \in [account : Accounts \union {None}, op : PurchaseRecord]
    /\ sync \in [user : Accounts \union {None}, confirmed : BOOLEAN, live : BOOLEAN,
                 owner : Tasks \union {None}]
    /\ task \in [Tasks -> TaskRecord]

\* The steps inside the queue, and those that are taken for an account.
Lane == {"slot", "complete", "completed", "create", "send", "created"}

Named == Lane \union {"queue", "read", "tell", "code"}

TasksAreNamed ==
    \A t \in Tasks : task[t].pc \in Named => task[t].session.user \in Accounts

OneInLane ==
    \A t, u \in Tasks : task[t].pc \in Lane /\ task[u].pc \in Lane => t = u

LaneOwnsOperation ==
    \A t \in Tasks :
        /\ task[t].pc \in {"slot", "complete", "completed"}
             => task[t].op.owner = task[t].session.user
        /\ task[t].pc \in {"create", "send"} /\ task[t].op # NoPurchase
             => task[t].op.owner = task[t].session.user

LaneFollowsSlot ==
    \A t \in Tasks :
        task[t].pc \in Lane /\ slot.account = task[t].session.user => slot.op = task[t].op

SlotOwnsOperation == slot.account = slot.op.owner

Queue ==
    /\ Typed
    /\ TasksAreNamed
    /\ OneInLane
    /\ LaneOwnsOperation
    /\ LaneFollowsSlot
    /\ SlotOwnsOperation

\* No session in use is numbered beyond the codes verified.
SessionsAreNumbered ==
    /\ stored.id <= signIns
    /\ \A t \in Tasks : task[t].session.id <= signIns

\* An operation that was created under the token of another session is in the hand
\* of a task whose own session is gone.
AnswerIsOwn ==
    \A t \in Tasks :
        task[t].pc = "created" =>
            task[t].op.owner = task[t].session.user \/ stored # task[t].session

\* The steps of a sign-in after its purge
Signing == {"signin", "settle", "check", "grant"}

PurgedStaysEmpty ==
    \A t \in Tasks : Replaces(t) /\ task[t].pc \in Signing => slot = EmptySlot

\* A sign-in purges only over the records of another account.
Purging == {"revoke", "erase", "purge", "forget"}

PurgeOfOthers ==
    \A t \in Tasks : task[t].kind = "verify" /\ task[t].pc \in Purging => Replaces(t)

IInv ==
    /\ Queue
    /\ SessionsAreNumbered
    /\ AnswerIsOwn
    /\ PurgedStaysEmpty
    /\ PurgeOfOthers

-----------------------------------------------------------------------------
(***************************************************************************)
(* Writing the fields of a running operation keeps it an operation.        *)
(***************************************************************************)
LEMMA TaskFields ==
    ASSUME NEW k \in TaskRecord, NEW p \in Steps, NEW o \in PurchaseRecord,
           NEW a \in Accounts \union {None}, NEW b \in BOOLEAN
    PROVE  /\ [k EXCEPT !.pc = p] \in TaskRecord
           /\ [k EXCEPT !.pc = p, !.op = o] \in TaskRecord
           /\ [k EXCEPT !.pc = p, !.previous = a] \in TaskRecord
           /\ [k EXCEPT !.pc = p, !.fresh = b] \in TaskRecord
           /\ [k EXCEPT !.fresh = b] \in TaskRecord
  BY DEF TaskRecord

(***************************************************************************)
(* Nothing, and no operation, are values of the records' types.            *)
(***************************************************************************)
LEMMA EmptyValues ==
    /\ NoSession \in SessionRecord
    /\ NoPurchase \in PurchaseRecord
    /\ Idle \in TaskRecord
    /\ Idle.pc = "idle"
    /\ EmptySlot.account = None /\ EmptySlot.op = NoPurchase
    /\ EmptySlot \in [account : Accounts \union {None}, op : PurchaseRecord]
    /\ None \notin Accounts
<1>1. NoSession \in SessionRecord
  BY DEF NoSession, SessionRecord
<1>2. NoPurchase \in PurchaseRecord
  BY DEF NoPurchase, PurchaseRecord
<1>3. Idle \in TaskRecord /\ Idle.pc = "idle"
  BY <1>1, <1>2 DEF Idle, TaskRecord, Kinds, Steps
<1>4. /\ EmptySlot.account = None /\ EmptySlot.op = NoPurchase
      /\ EmptySlot \in [account : Accounts \union {None}, op : PurchaseRecord]
  BY <1>2 DEF EmptySlot
<1> QED
  BY <1>1, <1>2, <1>3, <1>4, NoneAssumption

(***************************************************************************)
(* Only the task that is written changes.                                  *)
(***************************************************************************)
LEMMA OneTask ==
    ASSUME task \in [Tasks -> TaskRecord], NEW t \in Tasks, NEW k \in TaskRecord,
           task' = [task EXCEPT ![t] = k]
    PROVE  /\ task' \in [Tasks -> TaskRecord]
           /\ task'[t] = k
           /\ \A u \in Tasks : u # t => task'[u] = task[u]
  OBVIOUS

(***************************************************************************)
(* The initial records satisfy the invariant: nobody runs, nothing is held.*)
(***************************************************************************)
LEMMA InitQueue == Init => Queue
<1> SUFFICES ASSUME Init PROVE Queue
  OBVIOUS
<1>1. \A t \in Tasks : task[t] = Idle
  BY DEF Init
<1>2. \A t \in Tasks : task[t].pc = "idle"
  BY <1>1, EmptyValues
<1>3. Typed
  <2>1. purchase \in [Accounts -> [n : Nat, state : {"open", "seen", "closed"}]]
    BY DEF Init
  <2>2. stored \in SessionRecord /\ (stored.user = None => stored = NoSession)
    BY EmptyValues DEF Init
  <2>3. slot \in [account : Accounts \union {None}, op : PurchaseRecord]
    BY EmptyValues DEF Init
  <2>4. sync \in [user : Accounts \union {None}, confirmed : BOOLEAN, live : BOOLEAN,
                  owner : Tasks \union {None}]
    BY DEF Init, SignedOut
  <2>5. task \in [Tasks -> TaskRecord]
    BY EmptyValues DEF Init
  <2> QED
    BY <2>1, <2>2, <2>3, <2>4, <2>5 DEF Init, Typed
<1>4. TasksAreNamed /\ OneInLane /\ LaneOwnsOperation /\ LaneFollowsSlot
  BY <1>2 DEF TasksAreNamed, OneInLane, LaneOwnsOperation, LaneFollowsSlot,
              Named, Lane
<1>5. SlotOwnsOperation
  BY DEF Init, SlotOwnsOperation, EmptySlot, NoPurchase
<1> QED
  BY <1>3, <1>4, <1>5 DEF Queue

(***************************************************************************)
(* A step that touches neither the slot nor a task inside the queue keeps  *)
(* the invariant.                                                          *)
(***************************************************************************)
LEMMA QuietStep ==
    ASSUME Queue, Typed', slot' = slot,
           \A u \in Tasks :
              \/ /\ task'[u].pc \notin Lane
                 /\ task'[u].pc \in Named => task'[u].session.user \in Accounts
              \/ /\ task'[u].pc = task[u].pc
                 /\ task'[u].session = task[u].session
                 /\ task'[u].op = task[u].op
    PROVE  Queue'
<1>1. TasksAreNamed'
  BY DEF Queue, TasksAreNamed
<1>2. OneInLane'
  BY DEF Queue, OneInLane
<1>3. \A u \in Tasks : task'[u].pc \in Lane =>
        /\ task'[u].pc = task[u].pc
        /\ task'[u].session = task[u].session
        /\ task'[u].op = task[u].op
  OBVIOUS
<1>4. LaneOwnsOperation'
  BY <1>3 DEF Queue, LaneOwnsOperation, Lane
<1>5. LaneFollowsSlot'
  BY <1>3 DEF Queue, LaneFollowsSlot
<1>6. SlotOwnsOperation'
  BY DEF Queue, SlotOwnsOperation
<1> QED
  BY <1>1, <1>2, <1>4, <1>5, <1>6 DEF Queue

(***************************************************************************)
(* The same for a step that writes one task and leaves it out of the queue.*)
(***************************************************************************)
LEMMA QuietTask ==
    ASSUME Queue, NEW t \in Tasks, NEW k \in TaskRecord,
           task' = [task EXCEPT ![t] = k],
           k.pc \notin Lane,
           k.pc \in Named => k.session.user \in Accounts,
           slot' = slot,
           purchase' \in [Accounts -> [n : Nat, state : {"open", "seen", "closed"}]],
           stored' \in SessionRecord, stored'.user = None => stored' = NoSession,
           signIns' \in Nat,
           record' \in Accounts \union {None},
           lastSynced' \in Accounts \union {None},
           sync' \in [user : Accounts \union {None}, confirmed : BOOLEAN, live : BOOLEAN,
                      owner : Tasks \union {None}]
    PROVE  Queue'
<1>1. /\ task' \in [Tasks -> TaskRecord]
      /\ task'[t] = k
      /\ \A u \in Tasks : u # t => task'[u] = task[u]
  BY OneTask DEF Queue, Typed
<1>2. Typed'
  BY <1>1 DEF Queue, Typed
<1>3. \A u \in Tasks :
        \/ /\ task'[u].pc \notin Lane
           /\ task'[u].pc \in Named => task'[u].session.user \in Accounts
        \/ /\ task'[u].pc = task[u].pc
           /\ task'[u].session = task[u].session
           /\ task'[u].op = task[u].op
  BY <1>1
<1> QED
  BY <1>2, <1>3, QuietStep

-----------------------------------------------------------------------------
(***************************************************************************)
(* The server's and the mirror's steps, and the death of the worker.       *)
(***************************************************************************)
LEMMA EndPurchaseStep ==
    ASSUME Queue, NEW a \in Accounts, EndPurchase(a)
    PROVE  Queue'
<1>1. purchase' \in [Accounts -> [n : Nat, state : {"open", "seen", "closed"}]]
  <2>1. CASE purchase' = [purchase EXCEPT ![a].state = "seen"]
    BY <2>1 DEF Queue, Typed
  <2>2. CASE purchase' = [purchase EXCEPT ![a].state = "closed"]
    BY <2>2 DEF Queue, Typed
  <2> QED
    BY <2>1, <2>2 DEF EndPurchase
<1>2. Typed'
  BY <1>1 DEF Queue, Typed, EndPurchase, records
<1>3. slot' = slot /\ task' = task
  BY DEF EndPurchase, records
<1> QED
  BY <1>2, <1>3, QuietStep

\* A mirror writes the last-synced identity alone.
LEMMA MirrorStep == ASSUME Queue, Mirror PROVE Queue'
<1>1. Typed'
  BY DEF Queue, Typed, Mirror
<1>2. slot' = slot /\ task' = task
  BY DEF Mirror
<1> QED
  BY <1>1, <1>2, QuietStep

\* A new worker starts with nobody in the queue.
LEMMA RestartStep == ASSUME Queue, Restart PROVE Queue'
<1>1. task' \in [Tasks -> TaskRecord]
  BY EmptyValues DEF Restart
<1>2. sync' \in [user : Accounts \union {None}, confirmed : BOOLEAN, live : BOOLEAN,
                 owner : Tasks \union {None}]
  <2>1. stored.user \in Accounts \union {None}
    BY DEF Queue, Typed, SessionRecord
  <2> QED
    BY <2>1 DEF Restart, SignedOut
<1>3. UNCHANGED <<purchase, stored, signIns, record, lastSynced, slot>>
  BY DEF Restart, records
<1>4. Typed'
  BY <1>1, <1>2, <1>3 DEF Queue, Typed
<1>5. \A u \in Tasks : task'[u].pc = "idle"
  BY EmptyValues DEF Restart
<1>6. \A u \in Tasks : /\ task'[u].pc \notin Lane
                       /\ task'[u].pc \in Named => task'[u].session.user \in Accounts
  BY <1>5 DEF Lane, Named
<1> QED
  BY <1>3, <1>4, <1>6, QuietStep

(***************************************************************************)
(* Beginning an operation, and ending one.                                 *)
(***************************************************************************)
LEMMA BeginStep ==
    ASSUME Queue, NEW t \in Tasks, NEW kind \in Kinds,
           NEW pc \in {"queue", "code", "erase"}, NEW s \in SessionRecord,
           s.user \in Accounts,
           Begins(t, kind, pc, s)
    PROVE  Queue'
<1> DEFINE k == [Idle EXCEPT !.kind = kind, !.pc = pc, !.session = s]
<1>1. pc \in Steps
  BY DEF Steps
<1>2. k \in TaskRecord /\ k.pc = pc /\ k.session = s
  BY <1>1, EmptyValues DEF TaskRecord, Idle
<1>3. task' = [task EXCEPT ![t] = k]
  BY DEF Begins
<1>4. UNCHANGED <<purchase, stored, signIns, record, lastSynced, slot, sync>>
  BY DEF Begins, records
<1> HIDE DEF k
<1>5. k.pc \notin Lane /\ (k.pc \in Named => k.session.user \in Accounts)
  BY <1>2 DEF Lane, Named
<1> QED
  BY <1>2, <1>3, <1>4, <1>5, QuietTask DEF Queue, Typed

\* A task that ends leaves the queue.
LEMMA EndStep == ASSUME Queue, NEW t \in Tasks, End(t) PROVE Queue'
<1>1. task' = [task EXCEPT ![t] = Idle]
  BY DEF End
<1>2. UNCHANGED <<purchase, stored, signIns, record, lastSynced, slot, sync>>
  BY DEF End, records
<1>3. Idle.pc \notin Lane /\ Idle.pc \notin Named
  BY EmptyValues DEF Lane, Named
<1> QED
  BY <1>1, <1>2, <1>3, EmptyValues, QuietTask DEF Queue, Typed

\* A stored session belongs to an account.
LEMMA StoredAccount ==
    ASSUME Queue, stored # NoSession
    PROVE  stored \in SessionRecord /\ stored.user \in Accounts
  BY DEF Queue, Typed, SessionRecord

\* Reconciles, checkouts, deletions and sign-ins begin for an account.
LEMMA StartStep ==
    ASSUME Queue, NEW t \in Tasks,
           \/ StartReconcile(t) \/ StartCheckout(t) \/ StartDelete(t)
           \/ \E u \in Accounts : StartVerify(t, u)
    PROVE  Queue'
<1>1. CASE StartReconcile(t)
  <2>1. stored # NoSession /\ Begins(t, "reconcile", "queue", stored)
    BY <1>1 DEF StartReconcile
  <2> QED
    BY <2>1, StoredAccount, BeginStep DEF Kinds
<1>2. CASE StartCheckout(t)
  <2>1. stored # NoSession /\ Begins(t, "checkout", "queue", stored)
    BY <1>2 DEF StartCheckout
  <2> QED
    BY <2>1, StoredAccount, BeginStep DEF Kinds
<1>3. CASE StartDelete(t)
  <2>1. stored # NoSession /\ Begins(t, "delete", "erase", stored)
    BY <1>3 DEF StartDelete
  <2> QED
    BY <2>1, StoredAccount, BeginStep DEF Kinds
<1>4. ASSUME NEW u \in Accounts, StartVerify(t, u) PROVE Queue'
  <2>1. Begins(t, "verify", "code", [user |-> u, id |-> 0])
    BY <1>4 DEF StartVerify
  <2>2. [user |-> u, id |-> 0] \in SessionRecord
    BY DEF SessionRecord
  <2> QED
    BY <2>1, <2>2, BeginStep DEF Kinds
<1> QED
  BY <1>1, <1>2, <1>3, <1>4

\* A sign-out begins outside the queue.
LEMMA StartSignOutStep ==
    ASSUME Queue, NEW t \in Tasks, StartSignOut(t)
    PROVE  Queue'
<1> DEFINE k == [Idle EXCEPT !.kind = "leave", !.pc = "revoke"]
<1>1. k \in TaskRecord /\ k.pc = "revoke"
  BY EmptyValues DEF TaskRecord, Idle, Kinds, Steps
<1>2. task' = [task EXCEPT ![t] = k]
  BY DEF StartSignOut
<1>3. UNCHANGED <<purchase, stored, signIns, record, lastSynced, slot>>
  BY DEF StartSignOut, records
<1>4. sync' \in [user : Accounts \union {None}, confirmed : BOOLEAN, live : BOOLEAN,
                 owner : Tasks \union {None}]
  BY DEF StartSignOut, Queue, Typed
<1> HIDE DEF k
<1>5. k.pc \notin Lane /\ k.pc \notin Named
  BY <1>1 DEF Lane, Named
<1> QED
  BY <1>1, <1>2, <1>3, <1>4, <1>5, QuietTask DEF Queue, Typed

-----------------------------------------------------------------------------
(***************************************************************************)
(* A task that goes on outside the queue, whatever it does to the session, *)
(* to the entitlement record and to SyncService.                           *)
(***************************************************************************)
LEMMA MoveStep ==
    ASSUME Queue, NEW t \in Tasks, NEW p \in Steps,
           task' = [task EXCEPT ![t].pc = p],
           p \notin Lane,
           p \in Named => task[t].pc \in Named,
           slot' = slot,
           purchase' \in [Accounts -> [n : Nat, state : {"open", "seen", "closed"}]],
           stored' \in SessionRecord, stored'.user = None => stored' = NoSession,
           signIns' \in Nat,
           record' \in Accounts \union {None},
           lastSynced' \in Accounts \union {None},
           sync' \in [user : Accounts \union {None}, confirmed : BOOLEAN, live : BOOLEAN,
                      owner : Tasks \union {None}]
    PROVE  Queue'
<1> DEFINE k == [task[t] EXCEPT !.pc = p]
<1>1. task[t] \in TaskRecord
  BY DEF Queue, Typed
<1>2. k \in TaskRecord
  BY <1>1, TaskFields, EmptyValues
<1>3. k.pc = p /\ k.session = task[t].session
  BY <1>1 DEF TaskRecord
<1>4. task' = [task EXCEPT ![t] = k]
  OBVIOUS
<1>5. k.pc \in Named => k.session.user \in Accounts
  BY <1>3 DEF Queue, TasksAreNamed
<1> HIDE DEF k
<1> QED
  BY <1>2, <1>3, <1>4, <1>5, QuietTask

\* The fields of a running task have their types.
LEMMA TaskUser ==
    ASSUME Queue, NEW t \in Tasks
    PROVE  /\ task[t] \in TaskRecord
           /\ task[t].session \in SessionRecord
           /\ task[t].session.user \in Accounts \union {None}
           /\ task[t].op \in PurchaseRecord
           /\ task[t].pc \in Named => task[t].session.user \in Accounts
<1>1. task[t] \in TaskRecord
  BY DEF Queue, Typed
<1>2. task[t].session \in SessionRecord /\ task[t].op \in PurchaseRecord
  BY <1>1 DEF TaskRecord
<1>3. task[t].session.user \in Accounts \union {None}
  BY <1>2 DEF SessionRecord
<1> QED
  BY <1>1, <1>2, <1>3 DEF Queue, TasksAreNamed

\* The entitlement record is written outside the queue.
LEMMA WriteRecordStep == ASSUME Queue, NEW t \in Tasks, WriteRecord(t) PROVE Queue'
<1>1. task[t].pc = "read" /\ record' = task[t].session.user
      /\ task' = [task EXCEPT ![t].pc = "tell"]
  BY DEF WriteRecord, Goes
<1>2. UNCHANGED <<purchase, stored, signIns, lastSynced, slot, sync>>
  BY DEF WriteRecord
<1>3. "tell" \in Steps /\ "tell" \notin Lane /\ "read" \in Named
  BY DEF Steps, Lane, Named
<1>4. record' \in Accounts \union {None}
  BY <1>1, TaskUser
<1> QED
  BY <1>1, <1>2, <1>3, <1>4, MoveStep DEF Queue, Typed

\* SyncService is told and the reconcile ends.
LEMMA TellSyncStep == ASSUME Queue, NEW t \in Tasks, TellSync(t) PROVE Queue'
<1>1. task' = [task EXCEPT ![t] = Idle]
  BY DEF TellSync
<1>2. UNCHANGED <<purchase, stored, signIns, record, lastSynced, slot>>
  BY DEF TellSync, records
<1>3. sync' \in [user : Accounts \union {None}, confirmed : BOOLEAN, live : BOOLEAN,
                 owner : Tasks \union {None}]
  <2>1. sync.owner \in Tasks \union {None}
    BY DEF Queue, Typed
  <2> QED
    BY <2>1, TaskUser DEF TellSync
<1>4. Idle.pc \notin Lane /\ Idle.pc \notin Named
  BY EmptyValues DEF Lane, Named
<1> QED
  BY <1>1, <1>2, <1>3, <1>4, EmptyValues, QuietTask DEF Queue, Typed

\* The verified session is the session of an account.
LEMMA AuthenticateStep == ASSUME Queue, NEW t \in Tasks, Authenticate(t) PROVE Queue'
<1>1. task[t].session.user \in Accounts /\ None \notin Accounts
  BY TaskUser, EmptyValues DEF Authenticate, Named
<1>2. task' = [task EXCEPT ![t].pc = "identity"]
      /\ signIns' = signIns + 1
      /\ stored' = [user |-> task[t].session.user, id |-> signIns + 1]
  BY DEF Authenticate, Goes
<1>3. UNCHANGED <<purchase, record, lastSynced, slot, sync>>
  BY DEF Authenticate, records
<1>4. "identity" \in Steps /\ "identity" \notin Lane /\ "identity" \notin Named
  BY DEF Steps, Lane, Named
<1>5. /\ stored' \in SessionRecord /\ signIns' \in Nat
      /\ stored'.user # None
  BY <1>1, <1>2, TaskUser DEF SessionRecord, Queue, Typed
<1> QED
  BY <1>1, <1>2, <1>3, <1>4, <1>5, MoveStep DEF Queue, Typed

\* The identity last synced is read into the task.
LEMMA ReadIdentityStep == ASSUME Queue, NEW t \in Tasks, ReadIdentity(t) PROVE Queue'
<1> DEFINE k == [task[t] EXCEPT !.pc = "record", !.previous = lastSynced]
<1>1. task' = [task EXCEPT ![t] = k]
  BY DEF ReadIdentity
<1>2. k \in TaskRecord
  <2>1. lastSynced \in Accounts \union {None} /\ "record" \in Steps
    BY DEF Queue, Typed, Steps
  <2> QED
    BY <2>1, TaskUser, TaskFields, EmptyValues
<1>3. k.pc \notin Lane /\ k.pc \notin Named
  BY TaskUser DEF TaskRecord, Lane, Named
<1>4. UNCHANGED <<purchase, stored, signIns, record, lastSynced, slot, sync>>
  BY DEF ReadIdentity, records
<1> HIDE DEF k
<1> QED
  BY <1>1, <1>2, <1>3, <1>4, QuietTask DEF Queue, Typed

\* The task decides whether it has to purge.
LEMMA ReadRecordStep == ASSUME Queue, NEW t \in Tasks, ReadRecord(t) PROVE Queue'
<1> DEFINE previous == IF task[t].previous # None THEN task[t].previous ELSE record
           p == IF previous \in {None, task[t].session.user} THEN "signin" ELSE "purge"
           k == [task[t] EXCEPT !.pc = p, !.previous = previous]
<1>1. p \in {"signin", "purge"}
  OBVIOUS
<1>2. task' = [task EXCEPT ![t] = k]
  BY DEF ReadRecord
<1>3. UNCHANGED <<purchase, stored, signIns, record, lastSynced, slot, sync>>
  BY DEF ReadRecord, records
<1>6. previous \in Accounts \union {None}
  BY TaskUser DEF Queue, Typed, TaskRecord
<1> HIDE DEF p, previous
<1>4. k \in TaskRecord
  <2>1. p \in Steps
    BY <1>1 DEF Steps
  <2> QED
    BY <1>6, <2>1, TaskUser, TaskFields, EmptyValues
<1>5. k.pc \notin Lane /\ k.pc \notin Named
  BY <1>1, TaskUser DEF TaskRecord, Lane, Named
<1> HIDE DEF k
<1> QED
  BY <1>2, <1>3, <1>4, <1>5, QuietTask DEF Queue, Typed

\* A new lifecycle starts for the person who signed in.
LEMMA SignInStep == ASSUME Queue, NEW t \in Tasks, SignIn(t) PROVE Queue'
<1> DEFINE k == [task[t] EXCEPT !.pc = "settle", !.fresh = TRUE]
<1>1. task' = [task EXCEPT ![t] = k]
  BY DEF SignIn
<1>2. k \in TaskRecord
  <2>1. "settle" \in Steps /\ TRUE \in BOOLEAN
    BY DEF Steps
  <2> QED
    BY <2>1, TaskUser, TaskFields, EmptyValues
<1>3. k.pc \notin Lane /\ k.pc \notin Named
  BY TaskUser DEF TaskRecord, Lane, Named
<1>4. UNCHANGED <<purchase, stored, signIns, record, lastSynced, slot>>
  BY DEF SignIn, records
<1>5. sync' \in [user : Accounts \union {None}, confirmed : BOOLEAN, live : BOOLEAN,
                 owner : Tasks \union {None}]
  BY TaskUser DEF SignIn
<1> HIDE DEF k
<1> QED
  BY <1>1, <1>2, <1>3, <1>4, <1>5, QuietTask DEF Queue, Typed

\* The entitlement answer settles SyncService at most.
LEMMA SettleStep == ASSUME Queue, NEW t \in Tasks, Settle(t) PROVE Queue'
<1>1. task' = [task EXCEPT ![t].pc = "check"]
  BY DEF Settle, Goes
<1>2. UNCHANGED <<purchase, stored, signIns, record, lastSynced, slot>>
  BY DEF Settle, records
<1>3. "check" \in Steps /\ "check" \notin Lane /\ "check" \notin Named
  BY DEF Steps, Lane, Named
<1>4. sync' \in [user : Accounts \union {None}, confirmed : BOOLEAN, live : BOOLEAN,
                 owner : Tasks \union {None}]
  BY DEF Settle, Queue, Typed
<1> QED
  BY <1>1, <1>2, <1>3, <1>4, MoveStep DEF Queue, Typed

\* The grant is decided without a write.
LEMMA CheckStep == ASSUME Queue, NEW t \in Tasks, Check(t) PROVE Queue'
<1>1. task' = [task EXCEPT ![t].pc = "grant"]
  BY DEF Check, Goes
<1>2. UNCHANGED <<purchase, stored, signIns, record, lastSynced, slot, sync>>
  BY DEF Check, records
<1>3. "grant" \in Steps /\ "grant" \notin Lane /\ "grant" \notin Named
  BY DEF Steps, Lane, Named
<1> QED
  BY <1>1, <1>2, <1>3, MoveStep DEF Queue, Typed

\* The grant writes the entitlement record alone.
LEMMA GrantStep == ASSUME Queue, NEW t \in Tasks, Grant(t) PROVE Queue'
<1>1. task' = [task EXCEPT ![t] = Idle] /\ record' = task[t].session.user
  BY DEF Grant
<1>2. UNCHANGED <<purchase, stored, signIns, lastSynced, slot, sync>>
  BY DEF Grant
<1>3. Idle.pc \notin Lane /\ Idle.pc \notin Named
  BY EmptyValues DEF Lane, Named
<1>4. record' \in Accounts \union {None}
  BY <1>1, TaskUser
<1> QED
  BY <1>1, <1>2, <1>3, <1>4, EmptyValues, QuietTask DEF Queue, Typed

\* The revoke drops the session or keeps it.
LEMMA RevokeStep == ASSUME Queue, NEW t \in Tasks, Revoke(t) PROVE Queue'
<1>1. task' = [task EXCEPT ![t].pc = "purge"]
  BY DEF Revoke, Goes
<1>2. UNCHANGED <<purchase, signIns, record, lastSynced, slot>>
  BY DEF Revoke, records
<1>3. "purge" \in Steps /\ "purge" \notin Lane /\ "purge" \notin Named
  BY DEF Steps, Lane, Named
<1>4. sync' \in [user : Accounts \union {None}, confirmed : BOOLEAN, live : BOOLEAN,
                 owner : Tasks \union {None}]
  BY DEF Revoke, Queue, Typed, SignedOut
<1>5. stored' \in SessionRecord /\ (stored'.user = None => stored' = NoSession)
  BY EmptyValues DEF Revoke, Queue, Typed
<1> QED
  BY <1>1, <1>2, <1>3, <1>4, <1>5, MoveStep DEF Queue, Typed

\* A deletion closes a purchase and may drop the session.
LEMMA EraseStep == ASSUME Queue, NEW t \in Tasks, Erase(t) PROVE Queue'
<1>1. purchase' \in [Accounts -> [n : Nat, state : {"open", "seen", "closed"}]]
  BY DEF Erase, Queue, Typed
<1>2. UNCHANGED <<signIns, record, lastSynced, slot>>
  BY DEF Erase, records
<1>3. CASE sync' = SignedOut /\ stored' = NoSession /\ Goes(t, "purge")
  <2>1. "purge" \in Steps /\ "purge" \notin Lane /\ "purge" \notin Named
    BY DEF Steps, Lane, Named
  <2>2. sync' \in [user : Accounts \union {None}, confirmed : BOOLEAN, live : BOOLEAN,
                   owner : Tasks \union {None}]
    BY <1>3 DEF SignedOut
  <2>3. task' = [task EXCEPT ![t].pc = "purge"]
    BY <1>3 DEF Goes
  <2> QED
    BY <1>1, <1>2, <1>3, <2>1, <2>2, <2>3, EmptyValues, MoveStep DEF Queue, Typed
<1>4. CASE task' = [task EXCEPT ![t] = Idle] /\ UNCHANGED <<sync, stored>>
  <2>1. Idle.pc \notin Lane /\ Idle.pc \notin Named
    BY EmptyValues DEF Lane, Named
  <2> QED
    BY <1>1, <1>2, <1>4, <2>1, EmptyValues, QuietTask DEF Queue, Typed
<1> QED
  BY <1>3, <1>4 DEF Erase

\* The persisted session is dropped last.
LEMMA DropStep == ASSUME Queue, NEW t \in Tasks, Drop(t) PROVE Queue'
<1>1. task' = [task EXCEPT ![t] = Idle] /\ stored' = NoSession
  BY DEF Drop
<1>2. UNCHANGED <<purchase, signIns, record, lastSynced, slot, sync>>
  BY DEF Drop, records
<1>3. Idle.pc \notin Lane /\ Idle.pc \notin Named
  BY EmptyValues DEF Lane, Named
<1> QED
  BY <1>1, <1>2, <1>3, EmptyValues, QuietTask DEF Queue, Typed

(***************************************************************************)
(* A purge makes every captured generation stale and then empties the slot,*)
(* under whoever is in the queue.                                          *)
(***************************************************************************)
LEMMA PurgeStep == ASSUME Queue, NEW t \in Tasks, Purge(t) PROVE Queue'
<1>1. task' = [Bumped EXCEPT ![t].pc = "forget"]
      /\ UNCHANGED <<purchase, stored, signIns, lastSynced, slot, sync>>
      /\ record' = None
  BY DEF Purge
<1>2. \A u \in Tasks : /\ [task[u] EXCEPT !.fresh = FALSE] \in TaskRecord
                       /\ [task[u] EXCEPT !.fresh = FALSE].pc = task[u].pc
                       /\ [task[u] EXCEPT !.fresh = FALSE].session = task[u].session
                       /\ [task[u] EXCEPT !.fresh = FALSE].op = task[u].op
  BY TaskUser DEF TaskRecord
<1> DEFINE k == [[task[t] EXCEPT !.fresh = FALSE] EXCEPT !.pc = "forget"]
<1>3. k \in TaskRecord /\ k.pc = "forget"
  <2>1. "forget" \in Steps
    BY DEF Steps
  <2> QED
    BY <1>2, <2>1 DEF TaskRecord
<1>4. task' = [Bumped EXCEPT ![t] = k]
  BY <1>1 DEF Bumped
<1>5. /\ task' \in [Tasks -> TaskRecord]
      /\ task'[t] = k
      /\ \A u \in Tasks : u # t => task'[u] = [task[u] EXCEPT !.fresh = FALSE]
  <2> HIDE DEF k
  <2> QED
    BY <1>2, <1>3, <1>4 DEF Bumped
<1> HIDE DEF k
<1>6. Typed'
  BY <1>1, <1>5 DEF Queue, Typed
<1>7. \A u \in Tasks :
        \/ /\ task'[u].pc \notin Lane
           /\ task'[u].pc \in Named => task'[u].session.user \in Accounts
        \/ /\ task'[u].pc = task[u].pc
           /\ task'[u].session = task[u].session
           /\ task'[u].op = task[u].op
  BY <1>2, <1>3, <1>5 DEF Lane, Named
<1> QED
  BY <1>1, <1>6, <1>7, QuietStep

\* An emptied slot names no account that is in the queue.
LEMMA ForgetStep == ASSUME Queue, NEW t \in Tasks, Forget(t) PROVE Queue'
<1> DEFINE p == IF task[t].kind = "verify" THEN "signin" ELSE "drop"
           k == [task[t] EXCEPT !.pc = p]
<1>1. task' = [task EXCEPT ![t] = k] /\ slot' = EmptySlot
      /\ UNCHANGED <<purchase, stored, signIns, record, lastSynced, sync>>
  BY DEF Forget, Goes
<1>2. p \in {"signin", "drop"}
  OBVIOUS
<1> HIDE DEF p
<1>3. k \in TaskRecord
  <2>1. p \in Steps
    BY <1>2 DEF Steps
  <2> QED
    BY <2>1, TaskUser, TaskFields, EmptyValues
<1>4. k.pc \notin Lane /\ k.pc \notin Named
  BY <1>2, TaskUser DEF TaskRecord, Lane, Named
<1> HIDE DEF k
<1>5. /\ task' \in [Tasks -> TaskRecord]
      /\ task'[t] = k
      /\ \A u \in Tasks : u # t => task'[u] = task[u]
  BY <1>1, <1>3, OneTask DEF Queue, Typed
<1>6. Typed'
  BY <1>1, <1>5, EmptyValues DEF Queue, Typed
<1>7. TasksAreNamed'
  BY <1>4, <1>5 DEF Queue, TasksAreNamed
<1>8. OneInLane'
  BY <1>4, <1>5 DEF Queue, OneInLane
<1>9. LaneOwnsOperation'
  <2>1. k.pc \notin {"slot", "complete", "completed", "create", "send"}
    BY <1>4 DEF Lane
  <2> QED
    BY <2>1, <1>5 DEF Queue, LaneOwnsOperation
<1>10. LaneFollowsSlot'
  BY <1>1, <1>7, EmptyValues DEF LaneFollowsSlot, TasksAreNamed, Named
<1>11. SlotOwnsOperation'
  BY <1>1, EmptyValues DEF Queue, SlotOwnsOperation, NoPurchase
<1> QED
  BY <1>6, <1>7, <1>8, <1>9, <1>10, <1>11 DEF Queue

-----------------------------------------------------------------------------
(***************************************************************************)
(* A task that enters the queue, or goes on in it or out of it without     *)
(* writing the slot.                                                       *)
(***************************************************************************)
LEMMA LaneTask ==
    ASSUME Queue, NEW t \in Tasks, NEW k \in TaskRecord,
           task' = [task EXCEPT ![t] = k],
           k.pc \in Named => k.session.user \in Accounts,
           k.pc \in Lane => \A u \in Tasks : u # t => task[u].pc \notin Lane,
           k.pc \in {"slot", "complete", "completed"} => k.op.owner = k.session.user,
           k.pc \in {"create", "send"} /\ k.op # NoPurchase => k.op.owner = k.session.user,
           k.pc \in Lane /\ slot.account = k.session.user => slot.op = k.op,
           purchase' \in [Accounts -> [n : Nat, state : {"open", "seen", "closed"}]],
           UNCHANGED <<stored, signIns, record, lastSynced, slot, sync>>
    PROVE  Queue'
<1>1. /\ task' \in [Tasks -> TaskRecord]
      /\ task'[t] = k
      /\ \A u \in Tasks : u # t => task'[u] = task[u]
  BY OneTask DEF Queue, Typed
<1>2. Typed'
  BY <1>1 DEF Queue, Typed
<1>3. TasksAreNamed'
  BY <1>1 DEF Queue, TasksAreNamed
<1>4. OneInLane'
  BY <1>1 DEF Queue, OneInLane
<1>5. LaneOwnsOperation'
  BY <1>1 DEF Queue, LaneOwnsOperation
<1>6. LaneFollowsSlot'
  BY <1>1 DEF Queue, LaneFollowsSlot
<1>7. SlotOwnsOperation'
  BY DEF Queue, SlotOwnsOperation
<1> QED
  BY <1>2, <1>3, <1>4, <1>5, <1>6, <1>7 DEF Queue

(***************************************************************************)
(* The task in the queue writes the slot and leaves.                       *)
(***************************************************************************)
LEMMA LaneLeft ==
    ASSUME Queue, NEW t \in Tasks, NEW k \in TaskRecord,
           task[t].pc \in Lane,
           task' = [task EXCEPT ![t] = k],
           k.pc \notin Lane,
           k.pc \in Named => k.session.user \in Accounts,
           slot' \in [account : Accounts \union {None}, op : PurchaseRecord],
           slot'.account = slot'.op.owner,
           UNCHANGED <<purchase, stored, signIns, record, lastSynced, sync>>
    PROVE  Queue'
<1>1. /\ task' \in [Tasks -> TaskRecord]
      /\ task'[t] = k
      /\ \A u \in Tasks : u # t => task'[u] = task[u]
  BY OneTask DEF Queue, Typed
<1>2. Typed'
  BY <1>1 DEF Queue, Typed
<1>3. TasksAreNamed'
  BY <1>1 DEF Queue, TasksAreNamed
<1>4. \A u \in Tasks : task'[u].pc \notin Lane
  BY <1>1 DEF Queue, OneInLane
<1>5. OneInLane' /\ LaneFollowsSlot'
  BY <1>4 DEF OneInLane, LaneFollowsSlot
<1>6. LaneOwnsOperation'
  BY <1>4 DEF LaneOwnsOperation, Lane
<1>7. SlotOwnsOperation'
  BY DEF Queue, SlotOwnsOperation
<1> QED
  BY <1>2, <1>3, <1>5, <1>6, <1>7 DEF Queue

(***************************************************************************)
(* The queue is free, or the task in it is this one.                       *)
(***************************************************************************)
LEMMA NobodyElse ==
    ASSUME Queue, NEW t \in Tasks, LaneFree(t) \/ task[t].pc \in Lane
    PROVE  \A u \in Tasks : u # t => task[u].pc \notin Lane
  BY DEF Queue, OneInLane, LaneFree, Lane

\* A task takes its own account's operation into the queue, or none.
LEMMA TakeLaneStep == ASSUME Queue, NEW t \in Tasks, TakeLane(t) PROVE Queue'
<1> DEFINE account == task[t].session.user
<1>1. /\ task[t] \in TaskRecord /\ account \in Accounts
      /\ \A u \in Tasks : u # t => task[u].pc \notin Lane
      /\ slot.op \in PurchaseRecord /\ slot.account = slot.op.owner
  BY TaskUser, NobodyElse DEF TakeLane, Named, Queue, Typed, SlotOwnsOperation
<1>2. UNCHANGED <<purchase, stored, signIns, record, lastSynced, slot, sync>>
  BY DEF TakeLane, records
<1>3. purchase' \in [Accounts -> [n : Nat, state : {"open", "seen", "closed"}]]
  BY <1>2 DEF Queue, Typed
<1>4. CASE task[t].kind = "checkout"
  <2> DEFINE o == IF slot.account = account THEN slot.op ELSE NoPurchase
             k == [task[t] EXCEPT !.pc = "create", !.op = o]
  <2>1. task' = [task EXCEPT ![t] = k]
    BY <1>4 DEF TakeLane
  <2>2. /\ o \in PurchaseRecord
        /\ o # NoPurchase => o.owner = account
        /\ slot.account = account => slot.op = o
    BY <1>1, EmptyValues
  <2> HIDE DEF o
  <2>3. "create" \in Steps
    BY DEF Steps
  <2>4. k \in TaskRecord
    BY <1>1, <2>2, <2>3, TaskFields, EmptyValues
  <2>5. k.pc = "create" /\ k.op = o /\ k.session = task[t].session
    BY <1>1 DEF TaskRecord
  <2> HIDE DEF k
  <2> QED
    BY <1>1, <1>2, <1>3, <2>1, <2>2, <2>4, <2>5, LaneTask
<1>5. CASE slot.account = account /\ task' = [task EXCEPT ![t].pc = "slot", ![t].op = slot.op]
  <2> DEFINE k == [task[t] EXCEPT !.pc = "slot", !.op = slot.op]
  <2>1. task' = [task EXCEPT ![t] = k]
    BY <1>5
  <2>2. "slot" \in Steps
    BY DEF Steps
  <2>3. k \in TaskRecord
    BY <1>1, <2>2, TaskFields, EmptyValues
  <2>4. k.pc = "slot" /\ k.op = slot.op /\ k.session = task[t].session
    BY <1>1 DEF TaskRecord
  <2> HIDE DEF k
  <2>5. /\ k.op.owner = k.session.user /\ slot.op = k.op
        /\ k.session.user \in Accounts
    BY <1>1, <1>5, <2>4
  <2> QED
    BY <1>1, <1>2, <1>3, <2>1, <2>3, <2>5, LaneTask
<1>6. CASE Goes(t, "read")
  <2>1. "read" \in Steps /\ "read" \notin Lane /\ "queue" \in Named
    BY DEF Steps, Lane, Named
  <2>2. task[t].pc = "queue" /\ task' = [task EXCEPT ![t].pc = "read"]
    BY <1>6 DEF TakeLane, Goes
  <2> QED
    BY <1>2, <2>1, <2>2, MoveStep DEF Queue, Typed
<1> QED
  BY <1>4, <1>5, <1>6 DEF TakeLane

(***************************************************************************)
(* A task goes on in the queue with the operation it has.                  *)
(***************************************************************************)
LEMMA LaneMove ==
    ASSUME Queue, NEW t \in Tasks, task[t].pc \in Lane, NEW p \in Lane,
           task' = [task EXCEPT ![t].pc = p],
           p \in {"slot", "complete", "completed"} =>
                task[t].pc \in {"slot", "complete", "completed"},
           p \in {"create", "send"} => task[t].pc \in {"create", "send"},
           UNCHANGED <<purchase, stored, signIns, records, sync>>
    PROVE  Queue'
<1> DEFINE k == [task[t] EXCEPT !.pc = p]
<1>1. task' = [task EXCEPT ![t] = k]
  OBVIOUS
<1>2. p \in Steps
  BY DEF Lane, Steps
<1>3. k \in TaskRecord
  BY <1>2, TaskUser, TaskFields, EmptyValues
<1>4. k.pc = p /\ k.op = task[t].op /\ k.session = task[t].session
  BY TaskUser DEF TaskRecord
<1> HIDE DEF k
<1>5. \A u \in Tasks : u # t => task[u].pc \notin Lane
  BY NobodyElse
<1>6. /\ k.session.user \in Accounts
      /\ slot.account = k.session.user => slot.op = k.op
  BY <1>4, TaskUser DEF Queue, LaneFollowsSlot, Named
<1>7. /\ k.pc \in {"slot", "complete", "completed"} => k.op.owner = k.session.user
      /\ k.pc \in {"create", "send"} /\ k.op # NoPurchase => k.op.owner = k.session.user
  BY <1>4 DEF Queue, LaneOwnsOperation
<1>8. /\ UNCHANGED <<stored, signIns, record, lastSynced, slot, sync>>
      /\ purchase' \in [Accounts -> [n : Nat, state : {"open", "seen", "closed"}]]
  BY DEF records, Queue, Typed
<1> QED
  BY <1>1, <1>3, <1>5, <1>6, <1>7, <1>8, LaneTask

\* The last question before a call moves the task on and writes nothing.
LEMMA AskStep ==
    ASSUME Queue, NEW t \in Tasks, AskComplete(t) \/ AskCreate(t)
    PROVE  Queue'
<1>1. CASE AskComplete(t)
  BY <1>1, LaneMove DEF AskComplete, Goes, Lane
<1>2. CASE AskCreate(t)
  BY <1>2, LaneMove DEF AskCreate, Goes, Lane
<1> QED
  BY <1>1, <1>2

\* A completion goes on with its own account's operation or ends.
LEMMA CompleteStep == ASSUME Queue, NEW t \in Tasks, Complete(t) PROVE Queue'
<1>1. CASE Goes(t, "completed")
  BY <1>1, LaneMove DEF Complete, Goes, Lane
<1>2. CASE task' = [task EXCEPT ![t] = Idle]
  <2>1. Idle.pc \notin Lane /\ Idle.pc \notin Named
    BY EmptyValues DEF Lane, Named
  <2>2. UNCHANGED <<purchase, stored, signIns, record, lastSynced, slot, sync>>
    BY DEF Complete, records
  <2> QED
    BY <1>2, <2>1, <2>2, EmptyValues, QuietTask DEF Queue, Typed
<1> QED
  BY <1>1, <1>2 DEF Complete

\* A completion that is answered may empty the slot and leaves the queue.
LEMMA CompletedStep == ASSUME Queue, NEW t \in Tasks, Completed(t) PROVE Queue'
<1> DEFINE k == [task[t] EXCEPT !.pc = "read", !.op = NoPurchase]
<1>1. task' = [task EXCEPT ![t] = k] /\ slot' \in {slot, EmptySlot}
      /\ UNCHANGED <<purchase, stored, signIns, record, lastSynced, sync>>
  BY DEF Completed
<1>2. task[t] \in TaskRecord /\ task[t].session.user \in Accounts /\ task[t].pc \in Lane
  BY TaskUser DEF Completed, Lane, Named
<1>3. k \in TaskRecord
  <2>1. "read" \in Steps
    BY DEF Steps
  <2> QED
    BY <2>1, <1>2, TaskFields, EmptyValues
<1>4. k.pc = "read" /\ k.session = task[t].session
  BY <1>2 DEF TaskRecord
<1>5. /\ slot' \in [account : Accounts \union {None}, op : PurchaseRecord]
      /\ slot'.account = slot'.op.owner
  BY <1>1, EmptyValues DEF Queue, Typed, SlotOwnsOperation, NoPurchase
<1> HIDE DEF k
<1>6. k.pc \notin Lane
  BY <1>4 DEF Lane
<1> QED
  BY <1>1, <1>2, <1>3, <1>4, <1>5, <1>6, LaneLeft

\* The answer of create-web-checkout is an operation of the account whose token was
\* sent; a task that named none meets no operation of its account in the slot.
LEMMA CreateStep == ASSUME Queue, NEW t \in Tasks, Create(t) PROVE Queue'
<1> DEFINE a == stored.user
           named == task[t].op
<1>1. /\ task[t] \in TaskRecord /\ task[t].pc = "send" /\ a \in Accounts
      /\ task[t].session.user \in Accounts
      /\ slot.account = task[t].session.user => slot.op = named
      /\ slot.account = slot.op.owner
      /\ None \notin Accounts
  BY TaskUser, EmptyValues
     DEF Create, Lane, Named, Queue, Typed, SessionRecord, LaneFollowsSlot, SlotOwnsOperation
<1>2. UNCHANGED <<stored, signIns, record, lastSynced, slot, sync>>
  BY DEF Create, records
<1>3. \A u \in Tasks : u # t => task[u].pc \notin Lane
  BY <1>1, NobodyElse DEF Lane
<1>4. CASE named # NoPurchase
  BY <1>1, <1>4, LaneMove DEF Create, Goes, Lane
<1>5. CASE named = NoPurchase
  <2> DEFINE opens == purchase[a].state = "closed"
             k == [task[t] EXCEPT !.pc = "created", !.op = Answer(a)]
  <2>1. /\ task' = [task EXCEPT ![t] = k]
        /\ purchase' = IF opens
              THEN [purchase EXCEPT ![a] = [n |-> @.n + 1, state |-> "open"]] ELSE purchase
    BY <1>5 DEF Create
  <2>2. purchase \in [Accounts -> [n : Nat, state : {"open", "seen", "closed"}]]
    BY DEF Queue, Typed
  <2>3. purchase' \in [Accounts -> [n : Nat, state : {"open", "seen", "closed"}]]
    BY <1>1, <2>1, <2>2
  <2>4. Answer(a) \in PurchaseRecord /\ "created" \in Steps
    BY <1>1, <2>3 DEF Answer, PurchaseRecord, Steps
  <2>5. k \in TaskRecord
    BY <1>1, <2>4, TaskFields, EmptyValues
  <2>6. k.pc = "created" /\ k.session = task[t].session
    BY <1>1 DEF TaskRecord
  <2>7. slot.account # task[t].session.user
    BY <1>1, <1>5 DEF NoPurchase
  <2> HIDE DEF k
  <2> QED
    BY <1>1, <1>2, <1>3, <2>1, <2>3, <2>5, <2>6, <2>7, LaneTask
<1> QED
  BY <1>4, <1>5

\* The slot receives the caller's operation.
LEMMA StoreOperationStep ==
    ASSUME Queue, AnswerIsOwn, NEW t \in Tasks, StoreOperation(t)
    PROVE  Queue'
<1>1. /\ task' = [task EXCEPT ![t] = Idle]
      /\ slot' = [account |-> task[t].session.user, op |-> task[t].op]
      /\ task[t].pc = "created" /\ stored = task[t].session
      /\ UNCHANGED <<purchase, stored, signIns, record, lastSynced, sync>>
  BY DEF StoreOperation, Current
<1>2. /\ task[t].session.user \in Accounts /\ task[t].op \in PurchaseRecord
      /\ task[t].op.owner = task[t].session.user /\ task[t].pc \in Lane
  BY <1>1, TaskUser DEF Named, Lane, AnswerIsOwn
<1>3. /\ slot' \in [account : Accounts \union {None}, op : PurchaseRecord]
      /\ slot'.account = slot'.op.owner
  BY <1>1, <1>2
<1>4. Idle.pc \notin Lane /\ Idle.pc \notin Named
  BY EmptyValues DEF Lane, Named
<1> QED
  BY <1>1, <1>2, <1>3, <1>4, EmptyValues, LaneLeft

-----------------------------------------------------------------------------
(***************************************************************************)
(* The invariant depends on the variables alone.                           *)
(***************************************************************************)
LEMMA Stutter == ASSUME Queue, UNCHANGED vars PROVE Queue'
<1>1. Typed'
  BY DEF Queue, Typed, vars
<1> QED
  BY <1>1, QuietStep DEF vars

(***************************************************************************)
(* Every step keeps the queue in order.                                    *)
(***************************************************************************)
LEMMA StepQueue == ASSUME Queue, AnswerIsOwn, [Next]_vars PROVE Queue'
<1>1. ASSUME NEW a \in Accounts, EndPurchase(a) PROVE Queue'
  BY <1>1, EndPurchaseStep
<1>2. ASSUME NEW t \in Tasks,
             TakeLane(t) \/ AskComplete(t) \/ Complete(t) \/ Completed(t)
      PROVE  Queue'
  BY <1>2, TakeLaneStep, AskStep, CompleteStep, CompletedStep
<1>3. ASSUME NEW t \in Tasks, WriteRecord(t) \/ TellSync(t) PROVE Queue'
  BY <1>3, WriteRecordStep, TellSyncStep
<1>4. ASSUME NEW t \in Tasks, AskCreate(t) \/ Create(t) \/ StoreOperation(t) PROVE Queue'
  BY <1>4, AskStep, CreateStep, StoreOperationStep
<1>5. ASSUME NEW t \in Tasks,
             \/ StartReconcile(t) \/ StartCheckout(t) \/ StartDelete(t)
             \/ \E u \in Accounts : StartVerify(t, u)
      PROVE  Queue'
  BY <1>5, StartStep
<1>6. ASSUME NEW t \in Tasks,
             \/ Authenticate(t) \/ ReadIdentity(t) \/ ReadRecord(t)
             \/ Purge(t) \/ Forget(t)
      PROVE  Queue'
  BY <1>6, AuthenticateStep, ReadIdentityStep, ReadRecordStep, PurgeStep, ForgetStep
<1>7. ASSUME NEW t \in Tasks, SignIn(t) \/ Settle(t) \/ Check(t) \/ Grant(t)
      PROVE  Queue'
  BY <1>7, SignInStep, SettleStep, CheckStep, GrantStep
<1>8. ASSUME NEW t \in Tasks,
             StartSignOut(t) \/ Revoke(t) \/ Erase(t) \/ Drop(t) \/ End(t)
      PROVE  Queue'
  BY <1>8, StartSignOutStep, RevokeStep, EraseStep, DropStep, EndStep
<1> QED
  BY <1>1, <1>2, <1>3, <1>4, <1>5, <1>6, <1>7, <1>8,
     MirrorStep, RestartStep, Stutter DEF Next

(***************************************************************************)
(* The steps that write the slot.                                          *)
(***************************************************************************)
LEMMA SlotWriters ==
    ASSUME [Next]_vars, slot' # slot
    PROVE  \E t \in Tasks : Completed(t) \/ StoreOperation(t) \/ Forget(t)
<1>1. slot' = slot \/ Next
  BY DEF vars
<1>2. ASSUME NEW a \in Accounts, EndPurchase(a) PROVE FALSE
  BY <1>2 DEF EndPurchase, records
<1>3. ~Mirror /\ ~Restart
  BY DEF Mirror, Restart, records
<1>4. ASSUME NEW t \in Tasks,
             \/ TakeLane(t) \/ AskComplete(t) \/ Complete(t) \/ WriteRecord(t)
             \/ TellSync(t) \/ AskCreate(t) \/ Create(t)
      PROVE  FALSE
  BY <1>4 DEF TakeLane, AskComplete, Complete, WriteRecord, TellSync, AskCreate, Create, records
<1>5. ASSUME NEW t \in Tasks,
             StartReconcile(t) \/ StartCheckout(t) \/ StartDelete(t) \/ StartSignOut(t)
      PROVE  FALSE
  BY <1>5 DEF StartReconcile, StartCheckout, StartDelete, StartSignOut, Begins, records
<1>6. ASSUME NEW t \in Tasks, NEW u \in Accounts, StartVerify(t, u) PROVE FALSE
  BY <1>6 DEF StartVerify, Begins, records
<1>7. ASSUME NEW t \in Tasks,
             Authenticate(t) \/ ReadIdentity(t) \/ ReadRecord(t) \/ Purge(t)
      PROVE  FALSE
  BY <1>7 DEF Authenticate, ReadIdentity, ReadRecord, Purge, records
<1>8. ASSUME NEW t \in Tasks, SignIn(t) \/ Settle(t) \/ Check(t) \/ Grant(t)
      PROVE  FALSE
  BY <1>8 DEF SignIn, Settle, Check, Grant, records
<1>9. ASSUME NEW t \in Tasks, Revoke(t) \/ Erase(t) \/ Drop(t) \/ End(t) PROVE FALSE
  BY <1>9 DEF Revoke, Erase, Drop, End, records
<1> QED
  BY <1>1, <1>2, <1>3, <1>4, <1>5, <1>6, <1>7, <1>8, <1>9 DEF Next

(***************************************************************************)
(* The steps that write the purchases and the stored session.              *)
(***************************************************************************)
LEMMA OtherWriters ==
    ASSUME [Next]_vars
    PROVE  /\ purchase' # purchase =>
                \/ \E a \in Accounts : EndPurchase(a)
                \/ \E t \in Tasks : Create(t) \/ Erase(t)
           /\ <<stored, signIns>>' # <<stored, signIns>> =>
                \E t \in Tasks : Authenticate(t) \/ Revoke(t) \/ Erase(t) \/ Drop(t)
<1> DEFINE Same == UNCHANGED <<purchase, stored, signIns>>
<1>1. ASSUME Mirror \/ Restart \/ UNCHANGED vars PROVE Same
  BY <1>1 DEF Mirror, Restart, vars
<1>2. ASSUME NEW t \in Tasks, NEW u \in Accounts, StartVerify(t, u) PROVE Same
  BY <1>2 DEF StartVerify, Begins
<1>3. ASSUME NEW t \in Tasks,
             StartReconcile(t) \/ StartCheckout(t) \/ StartDelete(t) \/ StartSignOut(t)
      PROVE  Same
  BY <1>3 DEF StartReconcile, StartCheckout, StartDelete, StartSignOut, Begins
<1>4. ASSUME NEW t \in Tasks,
             \/ TakeLane(t) \/ AskComplete(t) \/ Complete(t) \/ Completed(t)
             \/ WriteRecord(t) \/ TellSync(t) \/ AskCreate(t) \/ StoreOperation(t)
      PROVE  Same
  BY <1>4 DEF TakeLane, AskComplete, Complete, Completed, WriteRecord, TellSync,
              AskCreate, StoreOperation
<1>5. ASSUME NEW t \in Tasks,
             ReadIdentity(t) \/ ReadRecord(t) \/ Purge(t) \/ Forget(t)
      PROVE  Same
  BY <1>5 DEF ReadIdentity, ReadRecord, Purge, Forget
<1>6. ASSUME NEW t \in Tasks, SignIn(t) \/ Settle(t) \/ Check(t) \/ Grant(t) \/ End(t)
      PROVE  Same
  BY <1>6 DEF SignIn, Settle, Check, Grant, End
<1>7. ASSUME NEW a \in Accounts, EndPurchase(a) PROVE UNCHANGED <<stored, signIns>>
  BY <1>7 DEF EndPurchase
<1>8. ASSUME NEW t \in Tasks, Authenticate(t) \/ Revoke(t) \/ Drop(t)
      PROVE  UNCHANGED purchase
  BY <1>8 DEF Authenticate, Revoke, Drop
<1>9. ASSUME NEW t \in Tasks, Create(t) PROVE UNCHANGED <<stored, signIns>>
  BY <1>9 DEF Create
<1> QED
  BY <1>1, <1>2, <1>3, <1>4, <1>5, <1>6, <1>7, <1>8, <1>9 DEF Next

-----------------------------------------------------------------------------
(* What a step does to one task: nothing but its freshness, its end, or a    *)
(* step of its own.                                                          *)

\* Nothing the invariant looks at is written.
Keeps(u) ==
    /\ task'[u].kind = task[u].kind /\ task'[u].pc = task[u].pc
    /\ task'[u].session = task[u].session /\ task'[u].op = task[u].op
    /\ task'[u].previous = task[u].previous

\* The task moves on without another session, operation or previous person.
Moves(u, p) ==
    /\ task'[u].pc = p /\ task'[u].kind = task[u].kind
    /\ task'[u].session = task[u].session /\ task'[u].op = task[u].op
    /\ task'[u].previous = task[u].previous

\* It begins, is done, or goes on: no purge, no sign-in after it, nothing created.
Outside(u) ==
    /\ task'[u].pc \notin Signing \union Purging \union {"created"}
    /\ task'[u].session \in {task[u].session, stored} \/ task'[u].session.id = 0

\* The person begins to leave.
Leaves(u) ==
    /\ task'[u].kind \in {"leave", "delete"} /\ task'[u].pc \in Purging
    /\ task'[u].session = stored \/ task'[u].session.id = 0

(***************************************************************************)
(* Writing one task leaves the others alone.                               *)
(***************************************************************************)
LEMMA WrittenTask ==
    ASSUME Queue, NEW t \in Tasks, NEW k, task' = [task EXCEPT ![t] = k]
    PROVE  task'[t] = k /\ \A u \in Tasks \ {t} : Keeps(u)
  BY DEF Queue, Typed, Keeps

\* A task that ends is outside.
LEMMA EndedTask ==
    ASSUME Queue, NEW t \in Tasks, task' = [task EXCEPT ![t] = Idle]
    PROVE  \A u \in Tasks : Keeps(u) \/ Outside(u)
<1>1. task'[t] = Idle /\ \A u \in Tasks \ {t} : Keeps(u)
  BY WrittenTask
<1>2. Outside(t)
  BY <1>1 DEF Outside, Idle, NoSession, Signing, Purging
<1> QED
  BY <1>1, <1>2

\* A task that goes on moves, and the others are left alone.
LEMMA MovedTask ==
    ASSUME Queue, NEW t \in Tasks, NEW p, task' = [task EXCEPT ![t].pc = p]
    PROVE  \A u \in Tasks : Keeps(u) \/ (u = t /\ Moves(t, p))
<1>1. task[t] \in TaskRecord
  BY TaskUser
<1> DEFINE k == [task[t] EXCEPT !.pc = p]
<1>2. /\ k.pc = p /\ k.kind = task[t].kind /\ k.session = task[t].session
      /\ k.op = task[t].op /\ k.previous = task[t].previous
  BY <1>1 DEF TaskRecord
<1>3. task' = [task EXCEPT ![t] = k]
  OBVIOUS
<1> HIDE DEF k
<1>4. task'[t] = k /\ \A u \in Tasks \ {t} : Keeps(u)
  BY <1>3, WrittenTask
<1> QED
  BY <1>2, <1>4 DEF Moves

\* A task that begins has a session of the store, or none yet.
LEMMA BegunTask ==
    ASSUME Queue, NEW t \in Tasks, NEW kind, NEW pc \in {"queue", "code", "erase"}, NEW s,
           pc = "erase" => kind = "delete",
           s = stored \/ s.id = 0, Begins(t, kind, pc, s)
    PROVE  \A u \in Tasks : Keeps(u) \/ Outside(u) \/ Leaves(u)
<1> DEFINE k == [Idle EXCEPT !.kind = kind, !.pc = pc, !.session = s]
<1>1. task' = [task EXCEPT ![t] = k]
  BY DEF Begins
<1>2. k.pc = pc /\ k.session = s /\ k.kind = kind
  BY DEF Idle
<1> HIDE DEF k
<1>3. task'[t] = k /\ \A u \in Tasks \ {t} : Keeps(u)
  BY <1>1, WrittenTask
<1>4. Outside(t) \/ Leaves(t)
  BY <1>2, <1>3 DEF Outside, Leaves, Signing, Purging
<1> QED
  BY <1>3, <1>4

\* What any step does to one task, as the rest of the invariant sees it
StepOf(u) ==
    \/ Keeps(u) \/ Outside(u) \/ Leaves(u)
    \/ Create(u) /\ task'[u].session = task[u].session /\ task'[u].pc = "created"
    \/ Forget(u) /\ \E p \in {"signin", "drop"} : Moves(u, p)
    \/ /\ task'[u].pc \in {"signin", "purge"} /\ task'[u].session = task[u].session
       /\ task'[u].pc = "signin" <=>
             task'[u].previous \in {None, task'[u].session.user}
    \/ task[u].pc \in Purging /\ \E p \in Purging : Moves(u, p)
    \/ task[u].pc \in Signing /\ \E p \in Signing : Moves(u, p)

(***************************************************************************)
(* The steps of a task as the rest of the invariant sees them: a task      *)
(* reaches "created" by Create alone, and the steps after a purge from a   *)
(* purge, from a sign-in that had nothing to purge, or from one another.   *)
(***************************************************************************)
LEMMA StepsOfTasks ==
    ASSUME Queue, [Next]_vars, NEW u \in Tasks
    PROVE  StepOf(u)
<1> DEFINE Others == Signing \union Purging \union {"created"}
<1> USE DEF StepOf
<1>1. ASSUME task' = task PROVE StepOf(u)
  BY <1>1 DEF Keeps
<1>2. ASSUME Restart PROVE StepOf(u)
  BY <1>2 DEF Restart, Outside, Idle, NoSession, Signing, Purging
<1>3. ASSUME NEW t \in Tasks,
             \/ TellSync(t) \/ StoreOperation(t) \/ Grant(t) \/ Drop(t) \/ End(t)
      PROVE  StepOf(u)
  BY <1>3, EndedTask DEF TellSync, StoreOperation, Grant, Drop, End
<1>4. ASSUME NEW t \in Tasks, NEW p, p \notin Others, Goes(t, p)
      PROVE  StepOf(u)
  <2>1. Keeps(u) \/ Moves(u, p)
    BY <1>4, MovedTask DEF Goes
  <2>2. Moves(u, p) => Outside(u)
    BY <1>4 DEF Moves, Outside
  <2> QED
    BY <2>1, <2>2
<1>5. ASSUME NEW t \in Tasks,
             \/ AskComplete(t) \/ Complete(t) \/ AskCreate(t) \/ WriteRecord(t)
             \/ Authenticate(t)
      PROVE  StepOf(u)
  <2>1. "complete" \notin Others /\ "completed" \notin Others /\ "send" \notin Others
        /\ "tell" \notin Others /\ "identity" \notin Others
    BY DEF Signing, Purging
  <2>2. CASE task' = [task EXCEPT ![t] = Idle]
    BY <2>2, EndedTask
  <2> HIDE DEF StepOf, Others
  <2> QED
    BY <1>4, <1>5, <2>1, <2>2 DEF AskComplete, Complete, AskCreate, WriteRecord, Authenticate
<1>6. ASSUME NEW t \in Tasks, Revoke(t) \/ Erase(t) PROVE StepOf(u)
  <2>1. task[t].pc \in Purging /\ "purge" \in Purging
    BY <1>6 DEF Revoke, Erase, Purging
  <2>2. CASE task' = [task EXCEPT ![t] = Idle]
    BY <2>2, EndedTask
  <2>3. CASE Goes(t, "purge")
    <3>1. Keeps(u) \/ (u = t /\ Moves(t, "purge"))
      BY <2>3, MovedTask DEF Goes
    <3> QED
      BY <2>1, <3>1
  <2> HIDE DEF StepOf
  <2> QED
    BY <1>6, <2>2, <2>3 DEF Revoke, Erase
<1>7. ASSUME NEW t \in Tasks,
             \/ StartReconcile(t) \/ StartCheckout(t) \/ StartDelete(t)
             \/ \E a \in Accounts : StartVerify(t, a)
      PROVE  StepOf(u)
  BY <1>7, BegunTask DEF StartReconcile, StartCheckout, StartDelete, StartVerify
<1>8. ASSUME NEW t \in Tasks, NEW k, task' = [task EXCEPT ![t] = k],
             k.pc \notin Others,
             k.session = task[t].session \/ k.session.id = 0
      PROVE  StepOf(u)
  <2>1. task'[t] = k /\ \A v \in Tasks \ {t} : Keeps(v)
    BY <1>8, WrittenTask
  <2> QED
    BY <1>8, <2>1 DEF Outside
<1>9. ASSUME NEW t \in Tasks, TakeLane(t) PROVE StepOf(u)
  <2>1. task[t] \in TaskRecord
    BY TaskUser
  <2>2. "read" \notin Others /\ "create" \notin Others
        /\ "slot" \notin Others
    BY DEF Signing, Purging
  <2>3. ASSUME NEW o, NEW p \in {"create", "slot"},
               task' = [task EXCEPT ![t].pc = p, ![t].op = o]
        PROVE  StepOf(u)
    <3> DEFINE k == [task[t] EXCEPT !.pc = p, !.op = o]
    <3>1. k.pc = p /\ k.session = task[t].session
      BY <2>1 DEF TaskRecord
    <3>2. task' = [task EXCEPT ![t] = k]
      BY <2>3
    <3> HIDE DEF k
    <3> QED
      BY <1>8, <2>2, <3>1, <3>2
  <2>4. CASE Goes(t, "read")
    BY <1>4, <2>2, <2>4
  <2> HIDE DEF StepOf
  <2> QED
    BY <1>9, <2>3, <2>4 DEF TakeLane
<1>10. ASSUME NEW t \in Tasks, Completed(t) \/ ReadIdentity(t) \/ StartSignOut(t)
      PROVE  StepOf(u)
  <2>1. task[t] \in TaskRecord
    BY TaskUser
  <2>2. CASE Completed(t)
    <3> DEFINE k == [task[t] EXCEPT !.pc = "read", !.op = NoPurchase]
    <3>1. k.pc = "read" /\ k.session = task[t].session
      BY <2>1 DEF TaskRecord
    <3>2. task' = [task EXCEPT ![t] = k]
      BY <2>2 DEF Completed
    <3> HIDE DEF k
    <3>3. k.pc \notin Others
      BY <3>1 DEF Signing, Purging
    <3> QED
      BY <1>8, <3>1, <3>2, <3>3
  <2>3. CASE ReadIdentity(t)
    <3> DEFINE k == [task[t] EXCEPT !.pc = "record", !.previous = lastSynced]
    <3>1. k.pc = "record" /\ k.session = task[t].session
      BY <2>1 DEF TaskRecord
    <3>2. task' = [task EXCEPT ![t] = k]
      BY <2>3 DEF ReadIdentity
    <3> HIDE DEF k
    <3>3. k.pc \notin Others
      BY <3>1 DEF Signing, Purging
    <3> QED
      BY <1>8, <3>1, <3>2, <3>3
  <2>4. CASE StartSignOut(t)
    <3> DEFINE k == [Idle EXCEPT !.kind = "leave", !.pc = "revoke"]
    <3>1. k.kind = "leave" /\ k.pc = "revoke" /\ k.session.id = 0
      BY DEF Idle, NoSession
    <3>2. task' = [task EXCEPT ![t] = k]
      BY <2>4 DEF StartSignOut
    <3> HIDE DEF k
    <3>3. task'[t] = k /\ \A v \in Tasks \ {t} : Keeps(v)
      BY <3>2, WrittenTask
    <3> QED
      BY <3>1, <3>3 DEF Leaves, Purging
  <2> QED
    BY <1>10, <2>2, <2>3, <2>4
<1>11. ASSUME NEW t \in Tasks, Create(t) PROVE StepOf(u)
  <2>1. task[t] \in TaskRecord
    BY TaskUser
  <2>2. CASE Goes(t, "created")
    <3>1. Keeps(u) \/ (u = t /\ Moves(t, "created"))
      BY <2>2, MovedTask DEF Goes
    <3> QED
      BY <1>11, <3>1 DEF Moves
  <2>3. CASE task' = [task EXCEPT ![t].pc = "created", ![t].op = Answer(stored.user)]
    <3> DEFINE k == [task[t] EXCEPT !.pc = "created", !.op = Answer(stored.user)]
    <3>1. k.pc = "created" /\ k.session = task[t].session
      BY <2>1 DEF TaskRecord
    <3>2. task' = [task EXCEPT ![t] = k]
      BY <2>3
    <3> HIDE DEF k
    <3>3. task'[t] = k /\ \A v \in Tasks \ {t} : Keeps(v)
      BY <3>2, WrittenTask
    <3> QED
      BY <1>11, <3>1, <3>3
  <2> QED
    BY <1>11, <2>2, <2>3 DEF Create
<1>12. ASSUME NEW t \in Tasks, ReadRecord(t) PROVE StepOf(u)
  <2> DEFINE previous == IF task[t].previous # None THEN task[t].previous ELSE record
             p == IF previous \in {None, task[t].session.user} THEN "signin" ELSE "purge"
             k == [task[t] EXCEPT !.pc = p, !.previous = previous]
  <2>1. task[t] \in TaskRecord
    BY TaskUser
  <2>2. task' = [task EXCEPT ![t] = k]
    BY <1>12 DEF ReadRecord
  <2>3. k.pc = p /\ k.previous = previous /\ k.session = task[t].session
    BY <2>1 DEF TaskRecord
  <2>4. p \in {"signin", "purge"} /\ (p = "signin" <=> previous \in {None, task[t].session.user})
    OBVIOUS
  <2> HIDE DEF k, p, previous
  <2>5. task'[t] = k /\ \A v \in Tasks \ {t} : Keeps(v)
    BY <2>2, WrittenTask
  <2>6. CASE u = t
    BY <2>3, <2>4, <2>5, <2>6
  <2> QED
    BY <2>5, <2>6
<1>13. ASSUME NEW t \in Tasks, Purge(t) PROVE StepOf(u)
  <2>1. task[u] \in TaskRecord
    BY TaskUser
  <2>2. task' = [Bumped EXCEPT ![t].pc = "forget"]
    BY <1>13 DEF Purge
  <2>3. CASE u # t
    <3>1. task'[u] = [task[u] EXCEPT !.fresh = FALSE]
      BY <2>2, <2>3 DEF Bumped
    <3> QED
      BY <2>1, <3>1 DEF TaskRecord, Keeps
  <2>4. CASE u = t
    <3>1. Moves(u, "forget")
      BY <2>1, <2>2, <2>4 DEF Bumped, TaskRecord, Moves
    <3> QED
      BY <1>13, <2>4, <3>1 DEF Purge, Purging
  <2> QED
    BY <2>3, <2>4
<1>14. ASSUME NEW t \in Tasks, Forget(t) PROVE StepOf(u)
  <2>1. PICK p \in {"signin", "drop"} : task' = [task EXCEPT ![t].pc = p]
    BY <1>14 DEF Forget, Goes
  <2>2. Keeps(u) \/ (u = t /\ Moves(t, p))
    BY <2>1, MovedTask
  <2> QED
    BY <1>14, <2>2
<1>15. ASSUME NEW t \in Tasks, SignIn(t) \/ Settle(t) \/ Check(t) PROVE StepOf(u)
  <2>1. task[t] \in TaskRecord /\ task[t].pc \in Signing
    BY <1>15, TaskUser DEF SignIn, Settle, Check, Signing
  <2>2. CASE SignIn(t)
    <3> DEFINE k == [task[t] EXCEPT !.pc = "settle", !.fresh = TRUE]
    <3>1. /\ k.pc = "settle" /\ k.kind = task[t].kind /\ k.session = task[t].session
          /\ k.op = task[t].op /\ k.previous = task[t].previous
      BY <2>1 DEF TaskRecord
    <3>2. task' = [task EXCEPT ![t] = k]
      BY <2>2 DEF SignIn
    <3> HIDE DEF k
    <3>3. task'[t] = k /\ \A v \in Tasks \ {t} : Keeps(v)
      BY <3>2, WrittenTask
    <3>4. Moves(t, "settle") /\ "settle" \in Signing
      BY <3>1, <3>3 DEF Moves, Signing
    <3> QED
      BY <2>1, <3>3, <3>4
  <2>3. CASE Settle(t) \/ Check(t)
    <3>1. PICK p \in Signing : task' = [task EXCEPT ![t].pc = p]
      BY <2>3 DEF Settle, Check, Goes, Signing
    <3>2. Keeps(u) \/ (u = t /\ Moves(t, p))
      BY <3>1, MovedTask
    <3> QED
      BY <2>1, <3>2
  <2> QED
    BY <1>15, <2>2, <2>3
<1>16. ASSUME NEW t \in Tasks,
              \/ TakeLane(t) \/ AskComplete(t) \/ Complete(t) \/ Completed(t)
              \/ WriteRecord(t) \/ TellSync(t)
              \/ AskCreate(t) \/ Create(t) \/ StoreOperation(t)
       PROVE  StepOf(u)
  BY <1>16, <1>3, <1>5, <1>9, <1>10, <1>11
<1>17. ASSUME NEW t \in Tasks,
              \/ Authenticate(t) \/ ReadIdentity(t) \/ ReadRecord(t) \/ Purge(t)
              \/ Forget(t) \/ SignIn(t) \/ Settle(t) \/ Check(t) \/ Grant(t)
       PROVE  StepOf(u)
  BY <1>17, <1>3, <1>5, <1>10, <1>12, <1>13, <1>14, <1>15
<1>18. ASSUME NEW t \in Tasks,
              StartSignOut(t) \/ Revoke(t) \/ Erase(t) \/ Drop(t) \/ End(t)
       PROVE  StepOf(u)
  BY <1>18, <1>3, <1>6, <1>10
<1>19. ASSUME NEW t \in Tasks,
              \/ StartReconcile(t) \/ StartCheckout(t) \/ StartDelete(t)
              \/ \E a \in Accounts : StartVerify(t, a)
       PROVE  StepOf(u)
  BY <1>19, <1>7
<1>20. ASSUME NEW a \in Accounts, EndPurchase(a) PROVE task' = task
  BY <1>20 DEF EndPurchase
<1>21. Mirror \/ UNCHANGED vars => task' = task
  BY DEF Mirror, vars
<1> QED
  BY <1>1, <1>2, <1>16, <1>17, <1>18, <1>19, <1>20, <1>21 DEF Next

(***************************************************************************)
(* The stored session stays, goes, or is replaced by one with a number     *)
(* that no session had before.                                             *)
(***************************************************************************)
LEMMA StoredSteps ==
    ASSUME [Next]_vars, Queue
    PROVE  \/ stored' \in {stored, NoSession} /\ signIns' = signIns
           \/ stored'.id = signIns + 1 /\ signIns' = signIns + 1
<1> DEFINE Goal == \/ stored' \in {stored, NoSession} /\ signIns' = signIns
                   \/ stored'.id = signIns + 1 /\ signIns' = signIns + 1
<1>1. CASE UNCHANGED <<stored, signIns>>
  BY <1>1
<1>2. ASSUME NEW t \in Tasks, Authenticate(t) \/ Revoke(t) \/ Erase(t) \/ Drop(t) PROVE Goal
  BY <1>2 DEF Authenticate, Revoke, Erase, Drop, records
<1> QED
  BY <1>1, <1>2, OtherWriters

\* Sessions stay numbered.
LEMMA StepNumbers ==
    ASSUME Queue, SessionsAreNumbered, [Next]_vars
    PROVE  SessionsAreNumbered'
<1>1. signIns \in Nat /\ stored \in SessionRecord /\ NoSession.id = 0
  BY DEF Queue, Typed, NoSession
<1>2. stored'.id <= signIns' /\ signIns <= signIns'
  BY <1>1, StoredSteps DEF SessionsAreNumbered, SessionRecord
<1>3. ASSUME NEW u \in Tasks PROVE task'[u].session.id <= signIns'
  <2>1. \/ task'[u].session \in {task[u].session, stored}
        \/ task'[u].session.id = 0
    BY StepsOfTasks DEF StepOf, Keeps, Outside, Leaves, Moves
  <2>2. task[u].session.id \in Nat /\ stored.id \in Nat
    BY <1>1, TaskUser DEF SessionRecord
  <2>3. task[u].session.id <= signIns /\ stored.id <= signIns
    BY DEF SessionsAreNumbered
  <2>4. signIns' \in Nat
    BY <1>1, StoredSteps
  <2> QED
    BY <1>1, <1>2, <2>1, <2>2, <2>3, <2>4
<1> QED
  BY <1>2, <1>3 DEF SessionsAreNumbered

(***************************************************************************)
(* A session that is gone never comes back, so an answer under another     *)
(* session's token is in the hand of a task that can store nothing.        *)
(***************************************************************************)
LEMMA StepAnswers ==
    ASSUME Queue, SessionsAreNumbered, AnswerIsOwn, [Next]_vars
    PROVE  AnswerIsOwn'
<1> SUFFICES ASSUME NEW u \in Tasks, task'[u].pc = "created"
             PROVE  \/ task'[u].op.owner = task'[u].session.user
                    \/ stored' # task'[u].session
  BY DEF AnswerIsOwn
<1>1. /\ task[u] \in TaskRecord /\ task[u].session \in SessionRecord
      /\ task[u].session.id <= signIns /\ signIns \in Nat /\ task[u].session.id \in Nat
  BY TaskUser DEF SessionsAreNumbered, Queue, Typed, SessionRecord
<1>2. CASE Create(u) /\ task'[u].session = task[u].session
  <2>1. stored' = stored /\ task[u].pc = "send"
    BY <1>2 DEF Create
  <2>2. CASE task[u].op # NoPurchase
    <3>1. task' = [task EXCEPT ![u].pc = "created"]
      BY <1>2, <2>2 DEF Create, Goes
    <3>2. task'[u].op = task[u].op
      BY <1>1, <3>1 DEF TaskRecord, Queue, Typed
    <3> QED
      BY <1>2, <2>1, <2>2, <3>2 DEF Queue, LaneOwnsOperation
  <2>3. CASE task[u].op = NoPurchase
    <3>1. task' = [task EXCEPT ![u].pc = "created", ![u].op = Answer(stored.user)]
      BY <1>2, <2>3 DEF Create
    <3>2. task'[u].op = Answer(stored.user)
      BY <1>1, <3>1 DEF TaskRecord, Queue, Typed
    <3>3. task'[u].op.owner = stored.user
      BY <3>2 DEF Answer
    <3> QED
      BY <1>2, <2>1, <3>3
  <2> QED
    BY <2>2, <2>3
<1>3. CASE Keeps(u)
  <2>1. task[u].session.user \in Accounts
    BY <1>3, TaskUser DEF Keeps, Named, Lane
  <2>2. CASE stored' = stored
    BY <1>3, <2>2 DEF Keeps, AnswerIsOwn
  <2>3. CASE stored' = NoSession
    BY <1>3, <2>1, <2>3, EmptyValues DEF Keeps, NoSession
  <2>4. CASE stored'.id = signIns + 1
    BY <1>1, <1>3, <2>4 DEF Keeps
  <2> QED
    BY <2>2, <2>3, <2>4, StoredSteps
<1>4. (Create(u) /\ task'[u].session = task[u].session) \/ Keeps(u)
  <2>1. "created" \notin Signing
    BY DEF Signing
  <2> QED
    BY <2>1, StepsOfTasks DEF StepOf, Outside, Leaves, Moves, Purging
<1> QED
  BY <1>2, <1>3, <1>4

(***************************************************************************)
(* From its purge on a sign-in holds the teardown count, so nothing is     *)
(* stored in the slot it emptied.                                          *)
(***************************************************************************)
LEMMA StepPurged ==
    ASSUME Queue, PurgedStaysEmpty, [Next]_vars
    PROVE  PurgedStaysEmpty'
<1> SUFFICES ASSUME NEW u \in Tasks, Replaces(u)', task'[u].pc \in Signing
             PROVE  slot' = EmptySlot
  BY DEF PurgedStaysEmpty
<1>1. \/ Forget(u)
      \/ Replaces(u) /\ task[u].pc \in Signing
  BY StepsOfTasks DEF StepOf, Keeps, Outside, Leaves, Moves, Replaces, Signing, Purging
<1>2. CASE Forget(u)
  BY <1>2 DEF Forget
<1>3. CASE Replaces(u) /\ task[u].pc \in Signing
  <2>1. slot = EmptySlot /\ u \in TeardownsRunning
    BY <1>3 DEF PurgedStaysEmpty, Replaces, TeardownsRunning
  <2>2. ASSUME NEW t \in Tasks, StoreOperation(t) PROVE FALSE
    BY <2>1, <2>2 DEF StoreOperation, Current
  <2>3. ASSUME NEW t \in Tasks, Completed(t) \/ Forget(t) PROVE slot' \in {slot, EmptySlot}
    BY <2>3 DEF Completed, Forget
  <2> QED
    BY <2>1, <2>2, <2>3, SlotWriters
<1> QED
  BY <1>1, <1>2, <1>3

\* Only a sign-in that read another account's identity or record comes to purge.
LEMMA StepPurges ==
    ASSUME Queue, PurgeOfOthers, [Next]_vars
    PROVE  PurgeOfOthers'
<1> SUFFICES ASSUME NEW u \in Tasks, task'[u].kind = "verify", task'[u].pc \in Purging
             PROVE  Replaces(u)'
  BY DEF PurgeOfOthers
<1> QED
  BY StepsOfTasks
     DEF StepOf, Keeps, Outside, Leaves, Moves, Replaces, Signing, Purging, PurgeOfOthers

-----------------------------------------------------------------------------
\* The initial records satisfy the whole invariant.
LEMMA InitInvariant == Init => IInv
<1> SUFFICES ASSUME Init PROVE IInv
  OBVIOUS
<1>1. \A t \in Tasks : task[t] = Idle
  BY DEF Init
<1>2. SessionsAreNumbered
  BY <1>1 DEF Init, SessionsAreNumbered, Idle, NoSession
<1>3. AnswerIsOwn /\ PurgedStaysEmpty /\ PurgeOfOthers
  BY <1>1, EmptyValues DEF AnswerIsOwn, PurgedStaysEmpty, PurgeOfOthers, Signing, Purging
<1> QED
  BY <1>2, <1>3, InitQueue DEF IInv

\* Every step keeps it.
LEMMA StepInvariant == ASSUME IInv, [Next]_vars PROVE IInv'
  BY StepQueue, StepNumbers, StepAnswers, StepPurged, StepPurges DEF IInv

(***************************************************************************)
(* The invariant of the session: at most one task is in the queue, what it *)
(* took is its own account's and the one the slot holds, and an answer it  *)
(* got under another session's token finds its own session gone.           *)
(***************************************************************************)
THEOREM Invariance == Spec => []IInv
<1>1. Init => IInv
  BY InitInvariant
<1>2. IInv /\ [Next]_vars => IInv'
  BY StepInvariant
<1> QED
  BY <1>1, <1>2, PTL DEF Spec

(***************************************************************************)
(* However sign-ins, sign-outs, deletions, reconciles and checkouts of a   *)
(* shared browser interleave, and although a call may travel under the     *)
(* token of a newer session, no purchase operation is stored beside another*)
(* account's name, and a sign-in over the records of another account finds *)
(* the slot empty from its purge to its end.                               *)
(***************************************************************************)
THEOREM PurchasesStayHomeHolds == Spec => []PurchasesStayHome
<1>1. IInv => PurchasesStayHome
  BY DEF IInv, Queue, SlotOwnsOperation, PurgedStaysEmpty, PurchasesStayHome, Signing
<1> QED
  BY <1>1, Invariance, PTL

(***************************************************************************)
(* While its account is the one signed in, an operation whose payment may  *)
(* still complete leaves the slot only when the person leaves or a sign-in *)
(* purges the records of another account: the completion that clears the   *)
(* slot "whatever it holds" cannot meet another operation of the same      *)
(* account there, and a checkout never replaces a live one.                *)
(***************************************************************************)
THEOREM OperationsAreKeptHolds == Spec => OperationsAreKept
<1> DEFINE Kept ==
        slot'.op # slot.op =>
         \/ slot.op = NoPurchase \/ Ended(slot.op) \/ stored.user # slot.account
         \/ \E t \in Tasks :
              task[t].pc = "forget" /\ (task[t].kind # "verify" \/ Replaces(t))
<1>1. ASSUME IInv, [Next]_vars PROVE [Kept]_vars
  <2> SUFFICES ASSUME slot'.op # slot.op, stored.user = slot.account
               PROVE  \/ Ended(slot.op)
                      \/ \E t \in Tasks :
                           task[t].pc = "forget" /\ (task[t].kind # "verify" \/ Replaces(t))
    OBVIOUS
  <2>1. PICK t \in Tasks : Completed(t) \/ StoreOperation(t) \/ Forget(t)
    BY <1>1, SlotWriters
  <2>2. ASSUME task[t].pc \in Lane, Current(t) PROVE slot.op = task[t].op
    BY <1>1, <2>2 DEF Current, IInv, Queue, LaneFollowsSlot
  <2>3. CASE Completed(t)
    <3>1. task[t].pc = "completed" /\ Current(t) /\ Ended(task[t].op)
      BY <2>3 DEF Completed
    <3>2. slot.op = task[t].op
      BY <2>2, <3>1 DEF Lane
    <3> QED
      BY <3>1, <3>2
  <2>4. CASE StoreOperation(t)
    <3>1. task[t].pc = "created" /\ Current(t) /\ slot'.op = task[t].op
      BY <2>4 DEF StoreOperation
    <3>2. slot.op = task[t].op
      BY <2>2, <3>1 DEF Lane
    <3> QED
      BY <3>1, <3>2
  <2>5. CASE Forget(t)
    <3>1. task[t].pc = "forget" /\ (task[t].kind # "verify" \/ Replaces(t))
      BY <1>1, <2>5 DEF Forget, IInv, PurgeOfOthers, Purging
    <3> QED
      BY <3>1
  <2> QED
    BY <2>1, <2>3, <2>4, <2>5
<1>2. Spec => [][Kept]_vars
  <2> HIDE DEF Kept
  <2>1. IInv /\ [Next]_vars => [Kept]_vars
    BY <1>1
  <2> QED
    BY <2>1, Invariance, PTL DEF Spec
<1> QED
  BY <1>2 DEF OperationsAreKept


-----------------------------------------------------------------------------
(* The bounds of the records: sessions are numbered by the codes verified,   *)
(* operations by the purchases made.                                         *)

Slots == [account : Accounts, op : Purchase] \union {EmptySlot}

TaskSessions == Session \union [user : Accounts, id : {0}]

Operations == Purchase \union {NoPurchase}

\* An account whose purchase is not closed has made one.
PurchasesFit ==
    \A a \in Accounts :
        /\ purchase[a].n <= MaxPurchases
        /\ purchase[a].state # "closed" => purchase[a].n >= 1

StoredFits == signIns <= MaxSignIns /\ stored \in Session

TasksFit ==
    \A t \in Tasks : task[t].session \in TaskSessions /\ task[t].op \in Operations

RecordsFit ==
    /\ IInv
    /\ PurchasesFit
    /\ StoredFits
    /\ slot \in Slots
    /\ TasksFit

\* Nobody signed in, nothing made: the initial records are within the bounds.
LEMMA InitFits == Init => RecordsFit
<1> SUFFICES ASSUME Init PROVE RecordsFit
  OBVIOUS
<1>1. IInv
  BY InitInvariant
<1>2. PurchasesFit
  BY BoundsAssumption DEF Init, PurchasesFit
<1>3. StoredFits
  BY BoundsAssumption DEF Init, StoredFits, Session
<1>4. slot \in Slots
  BY DEF Init, Slots
<1>5. TasksFit
  BY DEF Init, TasksFit, Idle, TaskSessions, Session, Operations
<1> QED
  BY <1>1, <1>2, <1>3, <1>4, <1>5 DEF RecordsFit

(***************************************************************************)
(* The bound on purchase operations bounds those of each account: an       *)
(* account that has made as many as the bound allows fills the set of all. *)
(***************************************************************************)
LEMMA RoomForOneMore ==
    ASSUME Queue, PurchasesFit, NEW a \in Accounts, Cardinality(Made) < MaxPurchases
    PROVE  purchase[a].n + 1 <= MaxPurchases
<1> DEFINE n == purchase[a].n
           own == {a} \X (1..n)
<1>1. n \in Nat /\ n <= MaxPurchases /\ MaxPurchases \in Nat
  BY BoundsAssumption DEF Queue, Typed, PurchasesFit
<1>2. IsFiniteSet(1..n) /\ Cardinality(1..n) = n
  <2> HIDE DEF n
  <2>1. /\ IsFiniteSet(1..n)
        /\ Cardinality(1..n) = IF 1 > n THEN 0 ELSE n - 1 + 1
    BY <1>1, FS_Interval
  <2> QED
    BY <1>1, <2>1
<1>3. IsFiniteSet({a}) /\ Cardinality({a}) = 1
  BY FS_Singleton
<1>4. Cardinality(own) = n
  <2>1. Cardinality(own) = 1 * n
    <3> HIDE DEF n
    <3>1. Cardinality(own) = Cardinality({a}) * Cardinality(1..n)
      BY <1>2, <1>3, FS_Product
    <3> QED
      BY <3>1, <1>2, <1>3
  <2> QED
    BY <2>1, <1>1
<1>5. IsFiniteSet(Made)
  <2>1. IsFiniteSet(1..MaxPurchases)
    BY <1>1, FS_Interval
  <2>2. IsFiniteSet(Accounts \X (1..MaxPurchases))
    BY <2>1, AccountsAssumption, FS_Product
  <2> QED
    BY <2>2, FS_Subset DEF Made
<1>6. own \in SUBSET Made
  BY <1>1 DEF Made
<1>7. Cardinality(own) <= Cardinality(Made) /\ Cardinality(Made) \in Nat
  BY <1>5, <1>6, FS_Subset, FS_CardinalityType
<1> QED
  BY <1>1, <1>4, <1>7

\* No account makes more purchases than the bound, and none is open unmade.
LEMMA PurchasesFitStep == ASSUME RecordsFit, [Next]_vars PROVE PurchasesFit'
<1> USE DEF RecordsFit
<1>1. /\ purchase \in [Accounts -> [n : Nat, state : {"open", "seen", "closed"}]]
      /\ PurchasesFit /\ Queue /\ MaxPurchases \in Nat
  BY BoundsAssumption DEF IInv, Queue, Typed
<1>2. ASSUME NEW a \in Accounts, EndPurchase(a) PROVE PurchasesFit'
  <2>1. CASE purchase[a].state = "open" /\ purchase' = [purchase EXCEPT ![a].state = "seen"]
    BY <1>1, <2>1 DEF PurchasesFit
  <2>2. CASE purchase' = [purchase EXCEPT ![a].state = "closed"]
    BY <1>1, <2>2 DEF PurchasesFit
  <2> QED
    BY <1>2, <2>1, <2>2 DEF EndPurchase
<1>3. ASSUME NEW t \in Tasks, Erase(t) PROVE PurchasesFit'
  <2>1. purchase' = [purchase EXCEPT ![stored.user].state = "closed"]
    BY <1>3 DEF Erase
  <2> QED
    BY <1>1, <2>1 DEF PurchasesFit
<1>4. ASSUME NEW t \in Tasks, Create(t), purchase' # purchase PROVE PurchasesFit'
  <2> DEFINE a == stored.user
  <2>1. /\ Cardinality(Made) < MaxPurchases
        /\ purchase' = [purchase EXCEPT ![a] = [n |-> purchase[a].n + 1, state |-> "open"]]
    BY <1>4 DEF Create
  <2>2. a \in Accounts
    BY <1>4, TaskUser DEF Create, Named, Lane, IInv, Queue, Typed, SessionRecord
  <2>3. purchase[a].n + 1 <= MaxPurchases /\ purchase[a].n \in Nat
    BY <1>1, <2>1, <2>2, RoomForOneMore
  <2> HIDE DEF a
  <2> QED
    BY <1>1, <2>1, <2>2, <2>3 DEF PurchasesFit
<1>5. CASE purchase' = purchase
  BY <1>1, <1>5 DEF PurchasesFit
<1> QED
  BY <1>2, <1>3, <1>4, <1>5, OtherWriters

\* A stored session is numbered by the codes verified.
LEMMA StoredFitsStep == ASSUME RecordsFit, [Next]_vars PROVE StoredFits'
<1>1. StoredFits /\ signIns \in Nat /\ MaxSignIns \in Nat
  BY BoundsAssumption DEF RecordsFit, IInv, Queue, Typed
<1>2. ASSUME NEW t \in Tasks, Authenticate(t) PROVE StoredFits'
  <2>1. /\ signIns < MaxSignIns /\ signIns' = signIns + 1
        /\ stored' = [user |-> task[t].session.user, id |-> signIns + 1]
    BY <1>2 DEF Authenticate
  <2>2. task[t].session.user \in Accounts
    BY <1>2, TaskUser DEF RecordsFit, IInv, Authenticate, Named
  <2> QED
    BY <1>1, <2>1, <2>2 DEF StoredFits, Session
<1>3. ASSUME NEW t \in Tasks, Revoke(t) \/ Erase(t) \/ Drop(t) PROVE StoredFits'
  <2>1. signIns' = signIns /\ stored' \in {stored, NoSession}
    BY <1>3 DEF Revoke, Erase, Drop, records
  <2> QED
    BY <1>1, <2>1 DEF StoredFits, Session
<1>4. CASE UNCHANGED <<stored, signIns>>
  BY <1>1, <1>4 DEF StoredFits
<1> QED
  BY <1>2, <1>3, <1>4, OtherWriters

\* The slot receives an operation of an account, or nothing.
LEMMA SlotFitsStep == ASSUME RecordsFit, [Next]_vars PROVE slot' \in Slots
<1>1. ASSUME NEW t \in Tasks, Completed(t) \/ Forget(t) PROVE slot' \in Slots
  BY <1>1 DEF Completed, Forget, RecordsFit, Slots
<1>2. ASSUME NEW t \in Tasks, StoreOperation(t) PROVE slot' \in Slots
  <2>1. /\ slot' = [account |-> task[t].session.user, op |-> task[t].op]
        /\ task[t].pc = "created" /\ stored = task[t].session
    BY <1>2 DEF StoreOperation, Current
  <2>2. /\ task[t].session.user \in Accounts /\ task[t].op.owner = task[t].session.user
        /\ task[t].op \in Operations
    BY <2>1, TaskUser DEF RecordsFit, TasksFit, Named, Lane, IInv, AnswerIsOwn
  <2>3. task[t].op \in Purchase
    BY <2>2, NoneAssumption DEF Operations, NoPurchase
  <2> QED
    BY <2>1, <2>2, <2>3 DEF Slots
<1>3. CASE slot' = slot
  BY <1>3 DEF RecordsFit
<1> QED
  BY <1>1, <1>2, <1>3, SlotWriters

(***************************************************************************)
(* A task that is written keeps within the bounds when its new session and *)
(* operation do; one that ends or only moves on does.                      *)
(***************************************************************************)
LEMMA TaskFits ==
    ASSUME RecordsFit, NEW t \in Tasks, NEW k, task' = [task EXCEPT ![t] = k],
           k.session \in TaskSessions, k.op \in Operations
    PROVE  TasksFit'
  BY DEF RecordsFit, IInv, Queue, Typed, TasksFit

\* Nothing and no operation are within the bounds.
LEMMA TaskEnds ==
    ASSUME RecordsFit, NEW t \in Tasks, task' = [task EXCEPT ![t] = Idle]
    PROVE  TasksFit'
<1>1. Idle.session \in TaskSessions /\ Idle.op \in Operations
  BY DEF Idle, TaskSessions, Session, Operations
<1> QED
  BY <1>1, TaskFits

\* Moving on leaves session and operation alone.
LEMMA TaskMoves ==
    ASSUME RecordsFit, NEW t \in Tasks, NEW p, task' = [task EXCEPT ![t].pc = p]
    PROVE  TasksFit'
<1> DEFINE k == [task[t] EXCEPT !.pc = p]
<1>1. k.session = task[t].session /\ k.op = task[t].op
  BY TaskUser DEF RecordsFit, TaskRecord
<1>2. k.session \in TaskSessions /\ k.op \in Operations
  BY <1>1 DEF RecordsFit, TasksFit
<1>3. task' = [task EXCEPT ![t] = k]
  OBVIOUS
<1> HIDE DEF k
<1> QED
  BY <1>2, <1>3, TaskFits

\* An operation begins with a session of the store, or that of a code to verify.
LEMMA TaskBegins ==
    ASSUME RecordsFit, NEW t \in Tasks, NEW kind, NEW pc, NEW s \in TaskSessions,
           Begins(t, kind, pc, s)
    PROVE  TasksFit'
<1> DEFINE k == [Idle EXCEPT !.kind = kind, !.pc = pc, !.session = s]
<1>1. k.session \in TaskSessions /\ k.op \in Operations
  BY DEF Idle, Operations
<1>2. task' = [task EXCEPT ![t] = k]
  BY DEF Begins
<1> HIDE DEF k
<1> QED
  BY <1>1, <1>2, TaskFits

\* The operation taken from the slot is the account's, or none.
LEMMA TakeLaneFits == ASSUME RecordsFit, NEW t \in Tasks, TakeLane(t) PROVE TasksFit'
<1>1. /\ task[t] \in TaskRecord /\ task[t].session \in TaskSessions
      /\ slot.op \in Operations
  BY TaskUser DEF RecordsFit, IInv, TasksFit, Slots, EmptySlot, Operations
<1>2. ASSUME NEW p, NEW o \in Operations,
             task' = [task EXCEPT ![t].pc = p, ![t].op = o]
      PROVE  TasksFit'
  <2> DEFINE k == [task[t] EXCEPT !.pc = p, !.op = o]
  <2>1. k.session = task[t].session /\ k.op = o
    BY <1>1 DEF TaskRecord
  <2>2. task' = [task EXCEPT ![t] = k]
    BY <1>2
  <2> HIDE DEF k
  <2> QED
    BY <1>1, <2>1, <2>2, TaskFits
<1>3. NoPurchase \in Operations
  BY DEF Operations
<1> QED
  BY <1>1, <1>2, <1>3, TaskMoves DEF TakeLane, Goes

\* The answer of create-web-checkout is an operation that has been made.
LEMMA CreateFits ==
    ASSUME RecordsFit, [Next]_vars, NEW t \in Tasks, Create(t)
    PROVE  TasksFit'
<1> DEFINE a == stored.user
<1>1. CASE task[t].op # NoPurchase
  BY <1>1, TaskMoves DEF Create, Goes
<1>2. CASE task[t].op = NoPurchase
  <2> DEFINE k == [task[t] EXCEPT !.pc = "created", !.op = Answer(a)]
  <2>1. a \in Accounts /\ task[t] \in TaskRecord /\ task[t].session \in TaskSessions
    BY TaskUser DEF Create, RecordsFit, IInv, TasksFit, StoredFits, Session, NoSession
  <2>2. /\ purchase' \in [Accounts -> [n : Nat, state : {"open", "seen", "closed"}]]
        /\ PurchasesFit'
    BY StepInvariant, PurchasesFitStep DEF RecordsFit, IInv, Queue, Typed
  <2>3. purchase'[a].state # "closed"
    <3>1. purchase \in [Accounts -> [n : Nat, state : {"open", "seen", "closed"}]]
      BY DEF RecordsFit, IInv, Queue, Typed
    <3> QED
      BY <1>2, <2>1, <3>1 DEF Create
  <2>4. purchase'[a].n \in 1..MaxPurchases
    BY <2>1, <2>2, <2>3, BoundsAssumption DEF PurchasesFit
  <2>5. Answer(a) \in Operations
    BY <2>1, <2>4 DEF Answer, Operations, Purchase
  <2>6. k.session = task[t].session /\ k.op = Answer(a)
    BY <2>1 DEF TaskRecord
  <2>7. task' = [task EXCEPT ![t] = k]
    BY <1>2 DEF Create
  <2> HIDE DEF k
  <2> QED
    BY <2>1, <2>5, <2>6, <2>7, TaskFits
<1> QED
  BY <1>1, <1>2

\* The remaining steps write other fields of one task, or end the freshness of all.
LEMMA OtherTaskFits ==
    ASSUME RecordsFit, NEW t \in Tasks,
           \/ Completed(t) \/ ReadIdentity(t) \/ ReadRecord(t) \/ Purge(t)
           \/ SignIn(t) \/ StartSignOut(t)
    PROVE  TasksFit'
<1>1. task \in [Tasks -> TaskRecord] /\ TasksFit
  BY DEF RecordsFit, IInv, Queue, Typed
<1>2. \A u \in Tasks :
        /\ task'[u].session \in {task[u].session, NoSession}
        /\ task'[u].op \in {task[u].op, NoPurchase}
  <2>1. CASE Completed(t)
    BY <1>1, <2>1 DEF Completed, TaskRecord
  <2>2. CASE ReadIdentity(t)
    BY <1>1, <2>2 DEF ReadIdentity, TaskRecord
  <2>3. CASE ReadRecord(t)
    <3>1. PICK p, previous : task' = [task EXCEPT ![t].previous = previous, ![t].pc = p]
      BY <2>3 DEF ReadRecord
    <3> QED
      BY <1>1, <3>1 DEF TaskRecord
  <2>4. CASE Purge(t)
    BY <1>1, <2>4 DEF Purge, Bumped, TaskRecord
  <2>5. CASE SignIn(t)
    BY <1>1, <2>5 DEF SignIn, TaskRecord
  <2>6. CASE StartSignOut(t)
    BY <1>1, <2>6 DEF StartSignOut, Idle, TaskRecord
  <2> QED
    BY <2>1, <2>2, <2>3, <2>4, <2>5, <2>6
<1>3. NoSession \in TaskSessions /\ NoPurchase \in Operations
  BY DEF TaskSessions, Session, Operations
<1> QED
  BY <1>1, <1>2, <1>3 DEF TasksFit

\* The types of the argument and the bounds are the type invariant of the module.
LEMMA FitsType == ASSUME RecordsFit PROVE TypeOK
<1>1. Typed /\ MaxPurchases \in Nat /\ MaxSignIns \in Nat
  BY BoundsAssumption DEF RecordsFit, IInv, Queue
<1>2. purchase \in [Accounts -> [n : 0..MaxPurchases, state : {"open", "seen", "closed"}]]
  BY <1>1 DEF RecordsFit, Typed, PurchasesFit
<1>3. stored \in Session /\ signIns \in 0..MaxSignIns
  BY <1>1 DEF RecordsFit, Typed, StoredFits
<1>4. slot \in [account : Accounts, op : Purchase] \union {[account |-> None, op |-> NoPurchase]}
  BY DEF RecordsFit, Slots, EmptySlot
<1>5. task \in [Tasks -> [kind : Kinds, pc : Steps, session : TaskSessions,
                          fresh : BOOLEAN, op : Operations,
                          previous : Accounts \union {None}]]
  <2>1. \A t \in Tasks : task[t] \in [kind : Kinds, pc : Steps, session : TaskSessions,
                                      fresh : BOOLEAN, op : Operations,
                                      previous : Accounts \union {None}]
    BY <1>1 DEF RecordsFit, TasksFit, Typed, TaskRecord
  <2> QED
    BY <1>1, <2>1 DEF Typed
<1> QED
  BY <1>1, <1>2, <1>3, <1>4, <1>5
     DEF RecordsFit, TypeOK, Typed, Kinds, Steps, TaskSessions, Operations

\* Operations keep the session they began with.
LEMMA TasksFitStep == ASSUME RecordsFit, [Next]_vars PROVE TasksFit'
<1>1. stored \in TaskSessions
  BY DEF RecordsFit, StoredFits, TaskSessions
<1>2. ASSUME NEW t \in Tasks,
             StartReconcile(t) \/ StartCheckout(t) \/ StartDelete(t)
      PROVE  TasksFit'
  BY <1>1, <1>2, TaskBegins DEF StartReconcile, StartCheckout, StartDelete
<1>3. ASSUME NEW t \in Tasks, NEW u \in Accounts, StartVerify(t, u) PROVE TasksFit'
  <2>1. [user |-> u, id |-> 0] \in TaskSessions
    BY DEF TaskSessions
  <2> QED
    BY <1>3, <2>1, TaskBegins DEF StartVerify
<1>4. ASSUME NEW t \in Tasks, TellSync(t) \/ StoreOperation(t) \/ Grant(t) \/ Drop(t) \/ End(t)
      PROVE  TasksFit'
  BY <1>4, TaskEnds DEF TellSync, StoreOperation, Grant, Drop, End
<1>5. ASSUME NEW t \in Tasks,
             \/ AskComplete(t) \/ AskCreate(t) \/ WriteRecord(t) \/ Authenticate(t)
             \/ Forget(t) \/ Settle(t) \/ Check(t) \/ Revoke(t)
      PROVE  TasksFit'
  BY <1>5, TaskMoves DEF AskComplete, AskCreate, WriteRecord, Authenticate, Forget,
                          Settle, Check, Revoke, Goes
<1>6. ASSUME NEW t \in Tasks, Complete(t) \/ Erase(t) PROVE TasksFit'
  BY <1>6, TaskMoves, TaskEnds DEF Complete, Erase, Goes
<1>7. ASSUME NEW t \in Tasks, TakeLane(t) \/ Create(t) PROVE TasksFit'
  BY <1>7, TakeLaneFits, CreateFits
<1>8. ASSUME NEW t \in Tasks,
             \/ Completed(t) \/ ReadIdentity(t) \/ ReadRecord(t) \/ Purge(t)
             \/ SignIn(t) \/ StartSignOut(t)
      PROVE  TasksFit'
  BY <1>8, OtherTaskFits
<1>9. CASE Restart
  <2>1. Idle.session \in TaskSessions /\ Idle.op \in Operations
    BY DEF Idle, TaskSessions, Session, Operations
  <2> QED
    BY <1>9, <2>1 DEF Restart, TasksFit
<1>10. ASSUME Mirror \/ UNCHANGED vars \/ \E a \in Accounts : EndPurchase(a)
       PROVE  TasksFit'
  <2>1. task' = task
    BY <1>10 DEF Mirror, vars, EndPurchase
  <2> QED
    BY <2>1 DEF RecordsFit, TasksFit
<1> QED
  BY <1>2, <1>3, <1>4, <1>5, <1>6, <1>7, <1>8, <1>9, <1>10 DEF Next

(***************************************************************************)
(* Every record of a shared browser keeps its type: no session is stored   *)
(* that was not issued, the slot holds an account's own kind of operation  *)
(* or nothing, and a checkout that goes on always has an operation.        *)
(***************************************************************************)
THEOREM TypeCorrect == Spec => []TypeOK
<1>1. Init => RecordsFit
  BY InitFits
<1>2. RecordsFit /\ [Next]_vars => RecordsFit'
  <2> SUFFICES ASSUME RecordsFit, [Next]_vars PROVE RecordsFit'
    OBVIOUS
  <2>1. IInv'
    BY StepInvariant DEF RecordsFit
  <2> QED
    BY <2>1, PurchasesFitStep, StoredFitsStep, SlotFitsStep, TasksFitStep
       DEF RecordsFit
<1>3. RecordsFit => TypeOK
  BY FitsType
<1> QED
  BY <1>1, <1>2, <1>3, PTL DEF Spec

=============================================================================
