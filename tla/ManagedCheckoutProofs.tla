------------------------ MODULE ManagedCheckoutProofs ------------------------
(***************************************************************************)
(* The safety properties of ManagedCheckout, for any accounts, operations, *)
(* Sessions and requests.                                                  *)
(*                                                                         *)
(* None of the properties is inductive alone.  A claim is taken once, so   *)
(* that an operation never has a second Session (ClaimsAreSingular); a     *)
(* bound Session is the operation's own (BindingsAgree); an account has    *)
(* one operation that is still open (OneOpenOperation); what a running     *)
(* request has read of its Session stays true while it waits               *)
(* (RequestsAgree); and a lookup that saw a purchase before its refund     *)
(* settled is no longer the newest one (SettledLookups).                   *)
(***************************************************************************)
EXTENDS ManagedCheckout, TLAPS

\* The running invocations, with every member's type
Invocation ==
    [pc : {"idle", "claim", "recover", "create", "bind", "decide", "charge", "import",
           "tracked", "record", "begin", "lookup", "gate", "commit", "observe", "done",
           "refund"},
     kind : {"none", "checkout", "session", "refund"},
     op : Operations \union {None}, holder : Holders \union {None}, row : Row,
     hint : Sessions \union {None}, found : Recoveries \union {"none"},
     session : Sessions \union {None},
     owned : SUBSET Sessions, revoked : SUBSET Sessions]

Types ==
    /\ users \subseteq Holders
    /\ operation \in [Operations -> Receipt \union {NoOperation}]
    /\ session \in [Sessions -> [op : Operations \union {None}, state : SessionStates]]
    /\ listing \in [Sessions -> {"none", "owned", "refunded"}]
    /\ right \in [Sessions -> {"none", "active", "inactive"}]
    /\ observed \in [Holders -> Requests \union {None}]
    /\ request \in [Requests -> Invocation]
    /\ settled \subseteq Sessions

-----------------------------------------------------------------------------
(* The ledger and Stripe                                                    *)

Paid == {"paid", "refunded"}

Reached == {"offered", "pending", "paid", "refunded"}

\* A Session is made for an operation whose creation was claimed, and no other
\* Session is made for it.
SessionsAgree ==
    /\ \A s \in Sessions :
        /\ session[s].state = "none" <=> session[s].op = None
        /\ session[s].op # None => operation[session[s].op].started
    /\ \A s, t \in Sessions : session[s].op # None /\ session[s].op = session[t].op => s = t

BindingsAgree ==
    \A o \in Operations :
        operation[o].session # None => session[operation[o].session].op = o

OneOpenOperation ==
    \A h \in Holders, o, p \in Operations : Open(o, h) /\ Open(p, h) => o = p

\* Who may create a Session: one request, of a claimed operation without one
ClaimsAreSingular ==
    \A i \in Requests : request[i].pc = "create" =>
        /\ operation[request[i].op].started /\ request[i].row.session = None
        /\ \A s \in Sessions : session[s].op # request[i].op
        /\ \A j \in Requests : request[j].pc = "create" /\ request[j].op = request[i].op => j = i

-----------------------------------------------------------------------------
(* What a request knows                                                     *)

\* A reading of Stripe that no later event takes back
StillTrue(found, s) ==
    /\ found = "paid" => session[s].state \in Paid
    /\ found = "expired_unpaid" => session[s].state = "expired"

\* The Session a request goes on with is one of its operation.
KnowsSession(r) ==
    r.session \in Sessions /\ session[r.session].op = r.op /\ StillTrue(r.found, r.session)

RequestAgrees(r) ==
    /\ r.pc # "idle" => r.op \in Operations
    /\ r.pc = "bind" => KnowsSession(r)
    /\ r.pc \in {"decide", "charge", "import", "tracked", "record"} /\ r.found # "unknown"
            => r.row.session = r.session /\ KnowsSession(r)
    /\ r.pc \in {"charge", "import", "record"} => r.found = "paid"
    /\ r.pc = "refund" => r.kind = "refund"
    /\ r.kind = "refund" =>
        /\ r.pc \in {"refund", "begin", "lookup", "commit"}
        /\ r.hint \in Sessions /\ session[r.hint].state = "refunded"
    /\ r.pc \notin {"gate", "commit"} => r.owned = {} /\ r.revoked = {}
    /\ \A s \in r.owned \union r.revoked :
        /\ listing[s] # "none"
        /\ r.holder \in users => operation[session[s].op].holder = r.holder
    /\ \A s \in r.revoked : listing[s] = "refunded"

RequestsAgree == \A i \in Requests : RequestAgrees(request[i])

\* A purchase whose refund was answered is listed as refunded, and no lookup
\* that still saw it owned will be committed.
SettledLookups ==
    \A s \in settled :
        /\ listing[s] = "refunded"
        /\ \A i \in Requests :
            s \in request[i].owned /\ request[i].holder \in users => ~Current(i)

\* The inductive invariant
Ledger ==
    /\ SessionsAgree
    /\ BindingsAgree
    /\ OneOpenOperation
    /\ PaymentsAreTraceable
    /\ LedgerFollowsStripe

IInv ==
    /\ Types
    /\ Ledger
    /\ ClaimsAreSingular
    /\ RequestsAgree
    /\ SettledLookups
    /\ AnsweredRefundIsFinal

-----------------------------------------------------------------------------
(* The beginning, and what the invariant says of types                      *)

\* The row of an operation that was never started
LEMMA NoOperationType == NoOperation \in Row /\ NoOperation.holder = None
  BY DEF NoOperation, Row

\* An idle request is well typed.
LEMMA IdleType == Idle \in Invocation
  BY NoOperationType DEF Idle, Invocation

\* The first state: nothing is started, paid or observed.
LEMMA InitInvariant == Init => IInv
<1> SUFFICES ASSUME Init PROVE IInv
  OBVIOUS
<1>1. Types
  BY IdleType DEF Init, Types, SessionStates
<1>2. Ledger
  BY NoneAssumption DEF Init, Ledger, SessionsAgree, BindingsAgree, OneOpenOperation, Open,
     PaymentsAreTraceable, LedgerFollowsStripe, NoOperation
<1>3. ClaimsAreSingular /\ RequestsAgree
  BY DEF Init, ClaimsAreSingular, RequestsAgree, RequestAgrees, Idle
<1>4. SettledLookups /\ AnsweredRefundIsFinal
  BY DEF Init, SettledLookups, AnsweredRefundIsFinal
<1> QED
  BY <1>1, <1>2, <1>3, <1>4 DEF IInv

\* The types used in the proofs imply those of the specification.
LEMMA TypesGiveTypeOK == Types => TypeOK
  BY DEF Types, TypeOK, Invocation

\* A row an operation has is one that receipt() reads.
LEMMA PresentRow ==
    ASSUME Types, NEW o \in Operations
    PROVE  /\ operation[o] \in Row
           /\ operation[o] # NoOperation <=> operation[o].status # "absent"
           /\ operation[o] # NoOperation => operation[o] \in Receipt
<1>1. operation[o] \in Receipt \union {NoOperation}
  BY DEF Types
<1>2. NoOperation.status = "absent"
  BY DEF NoOperation
<1>3. \A row \in Receipt : row \in Row /\ row.status # "absent"
  BY DEF Receipt
<1> QED
  BY <1>1, <1>2, <1>3, NoOperationType

\* A paid or terminal row names its Session.
LEMMA SessionOfRow ==
    ASSUME Types, NEW o \in Operations
    PROVE  /\ operation[o].session \in Sessions \union {None}
           /\ operation[o].paid \/ operation[o].status \in Terminal => operation[o].session \in Sessions
<1>1. operation[o].session \in Sessions \union {None}
  BY PresentRow DEF Row
<1> QED
  BY <1>1, PresentRow DEF Receipt, NoOperation, Terminal

-----------------------------------------------------------------------------
(* Transitions of a row                                                     *)

\* A row goes on: nothing it holds is taken back, and Stripe bears out what it says.
Continues(o, row) ==
    /\ operation[o] # NoOperation /\ row \in Receipt
    /\ row.holder = operation[o].holder
    /\ operation[o].started => row.started
    /\ row.session # operation[o].session =>
            operation[o].session = None /\ session[row.session].op = o
    /\ operation[o].status \in Terminal => row.status \in Terminal
    /\ row.paid => session[row.session].state \in Paid
    /\ row.status = "closed_unpaid" => session[row.session].state = "expired"
    /\ row.status = "refunded" => session[row.session].state = "refunded"

(***************************************************************************)
(* A row that goes on keeps what the ledger and Stripe say of each other.  *)
(***************************************************************************)
LEMMA RowStep ==
    ASSUME Types, Ledger, NEW o \in Operations, NEW row, Continues(o, row),
           operation' = [operation EXCEPT ![o] = row],
           UNCHANGED <<session, listing>>
    PROVE  /\ Ledger'
           /\ operation' \in [Operations -> Receipt \union {NoOperation}]
<1>1. /\ operation' \in [Operations -> Receipt \union {NoOperation}]
      /\ operation'[o] = row
      /\ \A p \in Operations : p # o => operation'[p] = operation[p]
  BY DEF Types, Continues
<1>2. /\ operation[o] \in Row /\ operation[o].status # "absent"
      /\ row \in Row /\ row.status # "absent"
  BY PresentRow DEF Continues, Receipt
<1>3. \A s \in Sessions : session[s].op \in Operations \union {None} /\ s # None
  BY NoneAssumption DEF Types
<1>4. SessionsAgree'
  BY <1>1, <1>3, NoneAssumption DEF Ledger, SessionsAgree, Continues
<1>5. BindingsAgree'
  BY <1>1, <1>2 DEF Ledger, BindingsAgree, Continues
<1>6. OneOpenOperation'
  <2>1. \A h \in Holders, p \in Operations : Open(p, h)' => Open(p, h)
    BY <1>1, <1>2 DEF Open, Continues
  <2> QED
    BY <2>1 DEF Ledger, OneOpenOperation, Open
<1>7. PaymentsAreTraceable'
  <2> SUFFICES ASSUME NEW s \in Sessions, session[s].state \in Reached
               PROVE  operation'[session[s].op].session = s
    BY DEF PaymentsAreTraceable, Reached
  <2>1. operation[session[s].op].session = s
    BY DEF Ledger, PaymentsAreTraceable, Reached
  <2>2. session[s].op \in Operations
    BY <1>3 DEF Ledger, SessionsAgree, Reached
  <2> QED
    BY <1>1, <1>3, <2>1, <2>2 DEF Continues
<1>8. LedgerFollowsStripe'
  BY <1>1 DEF Ledger, LedgerFollowsStripe, Continues, Paid
<1> QED
  BY <1>1, <1>4, <1>5, <1>6, <1>7, <1>8 DEF Ledger

(***************************************************************************)
(* production_record_checkout_status leaves a row that can be read again.  *)
(***************************************************************************)
LEMMA RecordedRow ==
    ASSUME Types, Ledger, NEW o \in Operations, NEW s, NEW status \in Statuses,
           Recordable(operation[o], s, status),
           status \in {"paid_verified", "import_pending", "imported", "access_observed"} =>
               session[s].state \in Paid,
           status = "closed_unpaid" => session[s].state = "expired",
           status = "refunded" => session[s].state = "refunded"
    PROVE  /\ Continues(o, Recorded(operation[o], status))
           /\ Recorded(operation[o], status).session = operation[o].session
<1> DEFINE row == operation[o]
<1>1. row \in Receipt /\ row \in Row /\ row # NoOperation
  BY PresentRow DEF Recordable
<1>2. /\ row.session = s
      /\ row.paid => session[s].state \in Paid
      /\ row.status = "closed_unpaid" => session[s].state = "expired"
      /\ row.status = "refunded" => session[s].state = "refunded"
  BY DEF Recordable, Ledger, LedgerFollowsStripe, Paid
<1>3. CASE status = row.status
  <2>1. Recorded(row, status) = row
    BY <1>1, <1>3 DEF Recorded, Row
  <2> QED
    BY <1>1, <1>2, <2>1 DEF Continues
<1>4. CASE status # row.status
  <2>1. row.status \notin Terminal
    BY <1>4 DEF Recordable
  <2>2. Recorded(row, status) \in Row
    BY <1>1 DEF Recorded, Row
  <2>3. /\ Recorded(row, status).holder = row.holder
        /\ Recorded(row, status).started = row.started
        /\ Recorded(row, status).session = row.session
        /\ Recorded(row, status).status = status
    BY <1>1 DEF Recorded, Row
  <2>4. CASE status = "recovery_required"
    <3>1. Recorded(row, status).paid = row.paid
      BY <1>1, <2>4 DEF Recorded, Row, Granted
    <3>2. row.started
      BY <1>1, <1>4, <2>4 DEF Recordable, Receipt
    <3>3. Recorded(row, status) \in Receipt
      BY <1>1, <2>2, <2>3, <2>4, <3>1, <3>2 DEF Receipt, Granted
    <3> QED
      BY <1>1, <1>2, <2>1, <2>3, <2>4, <3>1, <3>3 DEF Continues
  <2>5. CASE status = "closed_unpaid"
    <3>1. Recorded(row, status).paid = row.paid
      BY <1>1, <2>5 DEF Recorded, Row, Granted
    <3>2. ~row.paid /\ row.session # None /\ row.started
      BY <1>1, <1>4, <2>5 DEF Recordable, Receipt
    <3>3. Recorded(row, status) \in Receipt
      BY <1>1, <2>2, <2>3, <2>5, <3>1, <3>2 DEF Receipt, Granted
    <3> QED
      BY <1>1, <1>2, <2>1, <2>3, <2>5, <3>1, <3>2, <3>3 DEF Continues
  <2>6. CASE status \in {"paid_verified", "import_pending", "imported", "access_observed", "refunded"}
    <3>1. Recorded(row, status).paid
      BY <1>1, <1>4, <2>6 DEF Recorded, Row, Granted
    <3>2. row.session # None /\ row.started
      BY <1>1, <1>4, <2>6 DEF Recordable, Receipt
    <3>3. Recorded(row, status) \in Receipt
      BY <1>1, <2>2, <2>3, <2>6, <3>1, <3>2 DEF Receipt, Granted
    <3> QED
      BY <1>1, <1>2, <2>1, <2>3, <2>6, <3>1, <3>2, <3>3 DEF Continues, Paid
  <2>7. status \notin {"prepared", "session_bound"}
    BY <1>4 DEF Recordable
  <2> QED
    BY <2>4, <2>5, <2>6, <2>7 DEF Statuses, Granted, Terminal
<1> QED
  BY <1>3, <1>4

-----------------------------------------------------------------------------
(* One request acts                                                         *)

\* Stripe, RevenueCat and the ledger go on; what a request relies on stays.
Grows ==
    /\ users' \subseteq users
    /\ \A s \in Sessions :
        /\ session[s].op # None => session'[s].op = session[s].op
        /\ session[s].state \in Paid => session'[s].state \in Paid
        /\ session[s].state \in {"refunded", "expired"} => session'[s].state = session[s].state
        /\ listing[s] # "none" => listing'[s] # "none"
        /\ listing[s] = "refunded" => listing'[s] = "refunded"
    /\ \A o \in Operations :
        operation[o].holder \in users' => operation'[o].holder = operation[o].holder

(***************************************************************************)
(* What a waiting request knows stays true.                                *)
(***************************************************************************)
LEMMA Kept ==
    ASSUME Types, Ledger, NEW r \in Invocation, RequestAgrees(r), Grows
    PROVE  RequestAgrees(r)'
<1>1. \A s \in Sessions : listing[s] # "none" => session[s].op \in Operations
  BY DEF Types, Ledger, LedgerFollowsStripe, SessionsAgree
<1>2. r.op # None => r.op \in Operations
  BY DEF Invocation
<1>3. r.session \in Sessions /\ session[r.session].op = r.op /\ r.op \in Operations
          /\ StillTrue(r.found, r.session)
          => session'[r.session].op = r.op /\ StillTrue(r.found, r.session)'
  BY NoneAssumption DEF Grows, StillTrue
<1>4. \A s \in r.owned \union r.revoked :
        /\ listing'[s] # "none"
        /\ r.holder \in users' => operation'[session'[s].op].holder = r.holder
  <2> SUFFICES ASSUME NEW s \in r.owned \union r.revoked
               PROVE  /\ listing'[s] # "none"
                      /\ r.holder \in users' => operation'[session'[s].op].holder = r.holder
    OBVIOUS
  <2>1. s \in Sessions
    BY DEF Invocation
  <2>2. /\ listing[s] # "none" /\ session[s].op \in Operations
        /\ r.holder \in users => operation[session[s].op].holder = r.holder
    BY <1>1, <2>1 DEF RequestAgrees
  <2> QED
    BY <2>1, <2>2, NoneAssumption DEF Grows
<1>5. \A s \in r.revoked : listing'[s] = "refunded"
  BY DEF Grows, RequestAgrees, Invocation
<1>6. r.kind = "refund" => r.hint \in Sessions /\ session'[r.hint].state = "refunded"
  BY DEF RequestAgrees, Grows
<1> QED
  BY <1>3, <1>4, <1>5, <1>6 DEF RequestAgrees, KnowsSession

(***************************************************************************)
(* One request goes on to q: the others know what they knew.               *)
(***************************************************************************)
LEMMA OthersAgree ==
    ASSUME Types, Ledger, RequestsAgree, NEW i \in Requests, NEW q \in Invocation,
           request' = [request EXCEPT ![i] = q], RequestAgrees(q)', Grows
    PROVE  RequestsAgree'
<1> SUFFICES ASSUME NEW j \in Requests PROVE RequestAgrees(request[j])'
  BY DEF RequestsAgree
<1>1. /\ request'[i] = q
      /\ \A k \in Requests : k # i => request'[k] = request[k]
  BY DEF Types
<1>2. CASE j = i
  BY <1>1, <1>2 DEF RequestAgrees, KnowsSession, StillTrue
<1>3. CASE j # i
  <2>1. request[j] \in Invocation /\ RequestAgrees(request[j]) /\ request'[j] = request[j]
    BY <1>1, <1>3 DEF Types, RequestsAgree
  <2>2. \A r \in Invocation : RequestAgrees(r) => RequestAgrees(r)'
    BY Kept
  <2> QED
    BY <2>1, <2>2 DEF RequestAgrees, KnowsSession, StillTrue
<1> QED
  BY <1>2, <1>3

(***************************************************************************)
(* If q is not to create a Session and no Session is made, claims stay     *)
(* singular.                                                               *)
(***************************************************************************)
LEMMA NoNewClaim ==
    ASSUME Types, RequestsAgree, ClaimsAreSingular, NEW i \in Requests, NEW q,
           request' = [request EXCEPT ![i] = q], q.pc # "create",
           \A s \in Sessions : session'[s].op = session[s].op,
           \A o \in Operations : operation[o].started => operation'[o].started
    PROVE  ClaimsAreSingular'
<1>1. /\ request'[i] = q
      /\ \A j \in Requests : j # i => request'[j] = request[j]
  BY DEF Types
<1> SUFFICES ASSUME NEW j \in Requests, request'[j].pc = "create"
             PROVE  /\ operation'[request'[j].op].started /\ request'[j].row.session = None
                    /\ \A s \in Sessions : session'[s].op # request'[j].op
                    /\ \A k \in Requests :
                        request'[k].pc = "create" /\ request'[k].op = request'[j].op => k = j
  BY DEF ClaimsAreSingular
<1>2. request'[j] = request[j] /\ request[j].op \in Operations
  BY <1>1 DEF RequestsAgree, RequestAgrees
<1> QED
  BY <1>1, <1>2 DEF ClaimsAreSingular

\* One request goes on with what the invariant allows it to hold; the rows, the Sessions
\* and the settled purchases change as other lemmas say.
LEMMA OneGoesOn ==
    ASSUME IInv, NEW i \in Requests, NEW q \in Invocation,
           request' = [request EXCEPT ![i] = q], RequestAgrees(q)',
           \/ q.owned = {} \/ q.owned \intersect settled = {}
           \/ q.owned \subseteq request[i].owned /\ q.holder = request[i].holder,
           Grows,
           operation' \in [Operations -> Receipt \union {NoOperation}],
           session' \in [Sessions -> [op : Operations \union {None}, state : SessionStates]],
           listing' \in [Sessions -> {"none", "owned", "refunded"}],
           UNCHANGED <<users, right, observed, settled>>
    PROVE  Types' /\ RequestsAgree' /\ SettledLookups' /\ AnsweredRefundIsFinal'
<1>1. /\ request' \in [Requests -> Invocation] /\ request'[i] = q
      /\ \A j \in Requests : j # i => request'[j] = request[j]
  BY DEF IInv, Types
<1>2. Types'
  BY <1>1 DEF IInv, Types
<1>3. RequestsAgree'
  BY OthersAgree DEF IInv
<1>4. SettledLookups'
  BY <1>1 DEF IInv, Types, SettledLookups, Grows, Current
<1>5. AnsweredRefundIsFinal'
  BY DEF IInv, AnsweredRefundIsFinal
<1> QED
  BY <1>2, <1>3, <1>4, <1>5

(***************************************************************************)
(* ... and the invariant is kept.                                          *)
(***************************************************************************)
LEMMA OneActs ==
    ASSUME IInv, NEW i \in Requests, NEW q \in Invocation,
           request' = [request EXCEPT ![i] = q],
           q.pc # "create", RequestAgrees(q),
           \/ q.owned = {} \/ q.owned \intersect settled = {}
           \/ q.owned \subseteq request[i].owned /\ q.holder = request[i].holder,
           Grows, \A s \in Sessions : session'[s].op = session[s].op,
           \A o \in Operations : operation[o].started => operation'[o].started,
           operation' \in [Operations -> Receipt \union {NoOperation}],
           session' \in [Sessions -> [op : Operations \union {None}, state : SessionStates]],
           listing' \in [Sessions -> {"none", "owned", "refunded"}],
           Ledger', UNCHANGED <<users, right, observed, settled>>
    PROVE  IInv'
<1>1. ClaimsAreSingular'
  BY NoNewClaim DEF IInv
<1>2. RequestAgrees(q)'
  BY Kept DEF IInv
<1>3. Types' /\ RequestsAgree' /\ SettledLookups' /\ AnsweredRefundIsFinal'
  BY <1>2, OneGoesOn
<1> QED
  BY <1>1, <1>3 DEF IInv

(***************************************************************************)
(* A step of one request that only that request sees.                      *)
(***************************************************************************)
LEMMA QuietStep ==
    ASSUME IInv, NEW i \in Requests, NEW q \in Invocation,
           request' = [request EXCEPT ![i] = q],
           q.pc # "create", RequestAgrees(q),
           \/ q.owned = {} \/ q.owned \intersect settled = {}
           \/ q.owned \subseteq request[i].owned /\ q.holder = request[i].holder,
           UNCHANGED <<users, operation, session, listing, right, observed, settled>>
    PROVE  IInv'
<1>1. Grows
  BY DEF Grows
<1>2. Ledger'
  BY DEF IInv, Ledger, SessionsAgree, BindingsAgree, OneOpenOperation, Open,
         PaymentsAreTraceable, LedgerFollowsStripe
<1> QED
  BY <1>1, <1>2, OneActs DEF IInv, Types

(***************************************************************************)
(* A request changes the row of an operation and goes on to q.             *)
(***************************************************************************)
LEMMA RowActs ==
    ASSUME IInv, NEW i \in Requests, NEW q \in Invocation, NEW o \in Operations, NEW row,
           request' = [request EXCEPT ![i] = q],
           q.pc # "create", RequestAgrees(q), q.owned = {},
           Continues(o, row), operation' = [operation EXCEPT ![o] = row],
           UNCHANGED <<users, session, listing, right, observed, settled>>
    PROVE  IInv'
<1>1. /\ Ledger'
      /\ operation' \in [Operations -> Receipt \union {NoOperation}]
  BY RowStep DEF IInv
<1>2. \A p \in Operations :
        operation'[p].holder = operation[p].holder /\ (operation[p].started => operation'[p].started)
  BY DEF IInv, Types, Continues
<1>3. Grows
  BY <1>2 DEF Grows
<1>4. /\ session' \in [Sessions -> [op : Operations \union {None}, state : SessionStates]]
      /\ listing' \in [Sessions -> {"none", "owned", "refunded"}]
      /\ \A s \in Sessions : session'[s].op = session[s].op
  BY DEF IInv, Types
<1> QED
  BY <1>1, <1>2, <1>3, <1>4, OneActs

-----------------------------------------------------------------------------
(* Requests that begin, end, or read                                        *)

\* Ending a request leaves nothing to agree with.
LEMMA IdleAgrees ==
    /\ Idle \in Invocation /\ Idle.pc # "create" /\ Idle.owned = {}
    /\ RequestAgrees(Idle)
  BY IdleType DEF Idle, RequestAgrees

\* What the invariant says of one request
LEMMA ThisRequest ==
    ASSUME IInv, NEW i \in Requests
    PROVE  /\ request[i] \in Invocation /\ RequestAgrees(request[i])
           /\ request[i].pc # "idle" => request[i].op \in Operations
  BY DEF IInv, Types, RequestsAgree, RequestAgrees

(***************************************************************************)
(* A request begins with a row of its operation.                           *)
(***************************************************************************)
LEMMA BegunAgrees ==
    ASSUME NEW i \in Requests, NEW kind \in {"checkout", "session"}, NEW o \in Operations,
           NEW row \in Row, NEW hint \in Sessions \union {None}, Begun(i, kind, o, row, hint)
    PROVE  \E q \in Invocation :
              /\ request' = [request EXCEPT ![i] = q]
              /\ q.pc # "create" /\ q.owned = {} /\ RequestAgrees(q)
<1> DEFINE pc == IF row.started THEN "recover" ELSE "claim"
           q == [Idle EXCEPT !.pc = pc, !.kind = kind, !.op = o, !.holder = row.holder,
                             !.row = row, !.hint = hint]
<1>0. pc \in {"recover", "claim"}
  OBVIOUS
<1>1. q \in Invocation
  <2> HIDE DEF pc
  <2>1. row.holder \in Holders \union {None}
    BY DEF Row
  <2> QED
    BY <1>0, <2>1, IdleType DEF Invocation
<1>2. q.pc \in {"recover", "claim"} /\ q.owned = {} /\ q.revoked = {} /\ q.op = o /\ q.kind = kind
  BY DEF Idle
<1>3. RequestAgrees(q)
  BY <1>2 DEF RequestAgrees
<1>4. request' = [request EXCEPT ![i] = q]
  BY DEF Begun
<1> QED
  BY <1>1, <1>2, <1>3, <1>4

\* A checkout, a Session event or a refund event begins.
LEMMA BeginStep ==
    ASSUME IInv, NEW i \in Requests,
           \/ \E o \in Operations : StartCheckout(i, o)
           \/ \E s \in Sessions : SessionEvent(i, s) \/ RefundEvent(i, s)
    PROVE  IInv'
<1>1. \A s \in Sessions : session[s].state # "none" =>
          session[s].op \in Operations /\ operation[session[s].op] \in Row
  BY PresentRow DEF IInv, Types, Ledger, SessionsAgree
<1>2. \A o \in Operations : operation[o] \in Row
  BY PresentRow DEF IInv
<1>3. CASE \E o \in Operations : StartCheckout(i, o)
  <2>1. PICK o \in Operations : StartCheckout(i, o)
    BY <1>3
  <2>2. \E q \in Invocation :
              /\ request' = [request EXCEPT ![i] = q]
              /\ q.pc # "create" /\ q.owned = {} /\ RequestAgrees(q)
    BY <1>2, <2>1, BegunAgrees DEF StartCheckout
  <2> QED
    BY <2>1, <2>2, QuietStep DEF StartCheckout, external
<1>4. CASE \E s \in Sessions : SessionEvent(i, s)
  <2>1. PICK s \in Sessions : SessionEvent(i, s)
    BY <1>4
  <2>2. \E q \in Invocation :
              /\ request' = [request EXCEPT ![i] = q]
              /\ q.pc # "create" /\ q.owned = {} /\ RequestAgrees(q)
    BY <1>1, <2>1, BegunAgrees DEF SessionEvent
  <2> QED
    BY <2>1, <2>2, QuietStep DEF SessionEvent, external
<1>5. CASE \E s \in Sessions : RefundEvent(i, s)
  <2>1. PICK s \in Sessions : RefundEvent(i, s)
    BY <1>5
  <2> DEFINE o == session[s].op
             row == operation[o]
             pc == IF row.status = "refunded" THEN "begin" ELSE "refund"
             q == [Idle EXCEPT !.kind = "refund",
                      !.op = o, !.holder = row.holder, !.row = row, !.hint = s, !.pc = pc]
  <2>2. session[s].op \in Operations /\ row \in Row /\ session[s].state = "refunded"
    BY <1>1, <2>1 DEF RefundEvent
  <2>7. row.holder \in Holders \union {None}
    BY <2>2 DEF Row
  <2>9. o \in Operations /\ pc \in {"begin", "refund"}
    BY <2>2
  <2>3. q \in Invocation
    <3> HIDE DEF pc, row, o
    <3> QED
      BY <2>2, <2>7, <2>9, IdleType DEF Invocation
  <2>4. /\ q.pc \in {"begin", "refund"} /\ q.owned = {} /\ q.revoked = {}
        /\ q.op = session[s].op /\ q.kind = "refund" /\ q.hint = s
    BY DEF Idle
  <2>5. RequestAgrees(q)
    BY <2>2, <2>4 DEF RequestAgrees
  <2>6. request' = [request EXCEPT ![i] = q]
    BY <2>1 DEF RefundEvent
  <2>8. UNCHANGED <<users, operation, session, listing, right, observed, settled>>
    BY <2>1 DEF RefundEvent, external
  <2> HIDE DEF q
  <2> QED
    BY <2>3, <2>4, <2>5, <2>6, <2>8, QuietStep
<1> QED
  BY <1>3, <1>4, <1>5

(***************************************************************************)
(* A request reads Stripe: what it is told of a Session stays true.        *)
(***************************************************************************)
LEMMA ReadingIsStillTrue ==
    ASSUME IInv, NEW s \in Sessions, session[s].op # None, NEW found \in {Reading(s), "unknown"}
    PROVE  found \in Recoveries /\ StillTrue(found, s)
<1>1. session[s].state \in {"open", "offered", "pending", "paid", "expired", "refunded"}
  BY DEF IInv, Types, Ledger, SessionsAgree, SessionStates
<1> QED
  BY <1>1 DEF Reading, Recoveries, StillTrue, Paid

\* The bound Session is read, or the one an earlier request created is looked for.
LEMMA RecoverStep ==
    ASSUME IInv, NEW i \in Requests, Recover(i)
    PROVE  IInv'
<1> DEFINE r == request[i]
           q(found, s) == [r EXCEPT
              !.pc = IF s # None /\ r.row.session = None THEN "bind" ELSE "decide",
              !.found = found, !.session = s, !.hint = None]
<1>1. r \in Invocation /\ RequestAgrees(r) /\ r.pc = "recover" /\ r.op \in Operations
  BY ThisRequest DEF Recover
<1>2. ASSUME NEW found, NEW s, Recovered(i, found, s)
      PROVE  request' = [request EXCEPT ![i] = q(found, s)]
  BY <1>2 DEF Recovered
<1>3. PICK s \in Sessions \union {None}, found \in Recoveries :
        /\ request' = [request EXCEPT ![i] = q(found, s)]
        /\ s = None => found = "unknown"
        /\ s # None =>
            session[s].op = r.op /\ StillTrue(found, s) /\ r.row.session \in {None, s}
  <2>1. CASE \E s \in SessionsOf(r.op) :
                /\ r.row.session \in {None, s}
                /\ \E found \in {Reading(s), "unknown"} : Recovered(i, found, s)
    <3>1. PICK s \in SessionsOf(r.op) :
                /\ r.row.session \in {None, s}
                /\ \E found \in {Reading(s), "unknown"} : Recovered(i, found, s)
      BY <2>1
    <3>2. PICK found \in {Reading(s), "unknown"} : Recovered(i, found, s)
      BY <3>1
    <3>3. s \in Sessions /\ session[s].op = r.op /\ session[s].op # None
      BY <1>1, NoneAssumption DEF SessionsOf
    <3>4. found \in Recoveries /\ StillTrue(found, s)
      BY <3>3, ReadingIsStillTrue
    <3>5. request' = [request EXCEPT ![i] = q(found, s)]
      BY <1>2, <3>2
    <3> HIDE DEF q
    <3> QED
      BY <3>1, <3>3, <3>4, <3>5, NoneAssumption
  <2>2. CASE Recovered(i, "unknown", None)
    BY <1>2, <2>2 DEF Recoveries
  <2> QED
    BY <2>1, <2>2 DEF Recover
<1>4. q(found, s) \in Invocation
  BY ZenonT(60), <1>1 DEF Invocation
<1>5. /\ q(found, s).op = r.op /\ q(found, s).kind = r.kind /\ q(found, s).row = r.row
      /\ q(found, s).owned = {} /\ q(found, s).revoked = {}
      /\ q(found, s).found = found /\ q(found, s).session = s
      /\ q(found, s).pc = IF s # None /\ r.row.session = None THEN "bind" ELSE "decide"
  BY <1>1 DEF Invocation, RequestAgrees
<1>6. r.kind # "refund"
  BY <1>1 DEF RequestAgrees
<1>7. RequestAgrees(q(found, s))
  <2> HIDE DEF q
  <2> QED
    BY <1>1, <1>3, <1>5, <1>6 DEF RequestAgrees, KnowsSession
<1>8. q(found, s).pc # "create"
  BY <1>5
<1> HIDE DEF q
<1> QED
  BY <1>3, <1>4, <1>5, <1>7, <1>8, QuietStep DEF Recover, external

(***************************************************************************)
(* A request whose row is read again goes on with the same Session.        *)
(***************************************************************************)
LEMMA RefreshStep ==
    ASSUME IInv, NEW i \in Requests, Refresh(i)
    PROVE  IInv'
<1> DEFINE r == request[i]
<1>1. /\ r \in Invocation /\ RequestAgrees(r) /\ r.op \in Operations
      /\ r.pc = "decide" /\ r.found = "paid"
      /\ UNCHANGED <<users, operation, session, listing, right, observed, settled>>
  BY ThisRequest DEF Refresh, Deciding, external
<1>2. PICK row \in Row :
        /\ row.session = r.row.session
        /\ \/ request' = [request EXCEPT ![i] = [r EXCEPT !.pc = "begin", !.row = row]]
           \/ request' = [request EXCEPT ![i] = [r EXCEPT !.pc = "charge", !.row = row]]
           \/ request' = [request EXCEPT ![i] = Idle]
  BY DEF Refresh, Refreshed, Receipt
<1>3. \A pc \in {"begin", "charge"} :
        LET q == [r EXCEPT !.pc = pc, !.row = row]
        IN  q \in Invocation /\ q.pc # "create" /\ q.owned = {} /\ RequestAgrees(q)
  <2> SUFFICES ASSUME NEW pc \in {"begin", "charge"}
               PROVE  LET q == [r EXCEPT !.pc = pc, !.row = row]
                      IN  q \in Invocation /\ q.pc # "create" /\ q.owned = {} /\ RequestAgrees(q)
    OBVIOUS
  <2> DEFINE q == [r EXCEPT !.pc = pc, !.row = row]
  <2>1. q \in Invocation
    BY <1>1 DEF Invocation
  <2>2. /\ q.pc = pc /\ q.op = r.op /\ q.kind = r.kind /\ q.row = row /\ q.found = "paid"
        /\ q.session = r.session /\ q.owned = {} /\ q.revoked = {}
    BY <1>1 DEF Invocation, RequestAgrees
  <2>3. r.kind # "refund"
    BY <1>1 DEF RequestAgrees
  <2> HIDE DEF q
  <2>4. RequestAgrees(q)
    BY <1>1, <1>2, <2>2, <2>3 DEF RequestAgrees, KnowsSession
  <2> QED
    BY <2>1, <2>2, <2>4 DEF q
<1> QED
  BY <1>1, <1>2, <1>3, IdleAgrees, QuietStep

\* Reading the charge of the Session
LEMMA ChargeStep ==
    ASSUME IInv, NEW i \in Requests, ReadCharge(i)
    PROVE  IInv'
<1> DEFINE r == request[i]
           q(pc, found) == [r EXCEPT !.pc = pc, !.found = found]
<1>1. /\ r \in Invocation /\ RequestAgrees(r) /\ r.op \in Operations /\ r.pc = "charge"
      /\ UNCHANGED <<users, operation, session, listing, right, observed, settled>>
  BY ThisRequest DEF ReadCharge, external
<1>2. \/ request' = [request EXCEPT ![i] = q("import", "paid")]
      \/ request' = [request EXCEPT ![i] = q("tracked", "unknown")]
  BY <1>1 DEF ReadCharge, RequestAgrees
<1>3. \A pc \in {"import", "tracked"}, found \in {"paid", "unknown"} :
        /\ q(pc, found) \in Invocation
        /\ q(pc, found).pc = pc /\ q(pc, found).found = found
        /\ q(pc, found).op = r.op /\ q(pc, found).kind = r.kind /\ q(pc, found).row = r.row
        /\ q(pc, found).session = r.session
        /\ q(pc, found).owned = {} /\ q(pc, found).revoked = {}
  BY ZenonT(60), <1>1 DEF Invocation, Recoveries, RequestAgrees
<1>4. r.kind # "refund"
  BY <1>1 DEF RequestAgrees
<1> HIDE DEF q
<1>5. RequestAgrees(q("import", "paid")) /\ RequestAgrees(q("tracked", "unknown"))
  BY <1>1, <1>3, <1>4 DEF RequestAgrees, KnowsSession
<1> QED
  BY <1>1, <1>2, <1>3, <1>5, QuietStep

(***************************************************************************)
(* The receipt is posted: the request knows its Session was paid.          *)
(***************************************************************************)
LEMMA ImportStep ==
    ASSUME IInv, NEW i \in Requests, Import(i)
    PROVE  IInv'
<1> DEFINE r == request[i]
           q(found) == [r EXCEPT !.pc = "tracked", !.found = found]
<1>1. /\ r \in Invocation /\ RequestAgrees(r) /\ r.op \in Operations /\ r.pc = "import"
      /\ UNCHANGED <<users, operation, session, right, observed, settled>>
  BY ThisRequest DEF Import
<1>2. /\ r.row.session \in Sessions /\ session[r.row.session].state \in Paid
      /\ r.found = "paid" /\ r.kind # "refund"
  BY <1>1 DEF RequestAgrees, KnowsSession, StillTrue
<1>3. PICK found \in {"paid", "unknown"} : request' = [request EXCEPT ![i] = q(found)]
  BY DEF Import
<1>4. \/ listing' = listing
      \/ listing' = [listing EXCEPT ![r.row.session] = IF @ = "none" THEN "owned" ELSE @]
  BY DEF Import
<1>5. /\ listing' \in [Sessions -> {"none", "owned", "refunded"}]
      /\ \A s \in Sessions : listing'[s] = listing[s]
                             \/ (s = r.row.session /\ listing[s] = "none" /\ listing'[s] = "owned")
  BY <1>2, <1>4 DEF IInv, Types
<1>6. Ledger'
  <2>1. SessionsAgree' /\ BindingsAgree' /\ OneOpenOperation' /\ PaymentsAreTraceable'
    BY <1>1 DEF IInv, Ledger, SessionsAgree, BindingsAgree, OneOpenOperation, Open,
                PaymentsAreTraceable
  <2>2. LedgerFollowsStripe'
    BY <1>1, <1>2, <1>5 DEF IInv, Ledger, LedgerFollowsStripe, Paid
  <2> QED
    BY <2>1, <2>2 DEF Ledger
<1>7. Grows
  BY <1>1, <1>5 DEF Grows
<1>8. /\ q(found) \in Invocation
      /\ q(found).pc = "tracked" /\ q(found).found = found
      /\ q(found).op = r.op /\ q(found).kind = r.kind /\ q(found).row = r.row
      /\ q(found).session = r.session
      /\ q(found).owned = {} /\ q(found).revoked = {}
  BY <1>1 DEF Invocation, Recoveries, RequestAgrees
<1> HIDE DEF q
<1>9. RequestAgrees(q(found))
  BY <1>1, <1>2, <1>8 DEF RequestAgrees, KnowsSession, StillTrue
<1>10. /\ operation' \in [Operations -> Receipt \union {NoOperation}]
       /\ session' \in [Sessions -> [op : Operations \union {None}, state : SessionStates]]
  BY <1>1 DEF IInv, Types
<1> QED
  BY <1>1, <1>3, <1>5, <1>6, <1>7, <1>8, <1>9, <1>10, OneActs

\* Reading the row again
LEMMA TrackedStep ==
    ASSUME IInv, NEW i \in Requests, Tracked(i)
    PROVE  IInv'
<1> DEFINE r == request[i]
           q(pc, row) == [r EXCEPT !.row = row, !.pc = pc]
<1>1. /\ r \in Invocation /\ RequestAgrees(r) /\ r.op \in Operations
      /\ r.pc = "tracked" /\ r.found = "paid" /\ r.kind # "refund"
      /\ UNCHANGED <<users, operation, session, listing, right, observed, settled>>
  BY ThisRequest DEF Tracked, external, RequestAgrees
<1>2. PICK row \in Row :
        /\ row.session = r.row.session
        /\ \/ request' = [request EXCEPT ![i] = q("begin", row)]
           \/ request' = [request EXCEPT ![i] = q("record", row)]
           \/ request' = [request EXCEPT ![i] = Idle]
  BY DEF Tracked, Refreshed, Receipt
<1>3. \A pc \in {"begin", "record"} :
        /\ q(pc, row) \in Invocation
        /\ q(pc, row).pc = pc /\ q(pc, row).found = "paid" /\ q(pc, row).row = row
        /\ q(pc, row).op = r.op /\ q(pc, row).kind = r.kind /\ q(pc, row).session = r.session
        /\ q(pc, row).owned = {} /\ q(pc, row).revoked = {}
  BY <1>1 DEF Invocation, RequestAgrees
<1> HIDE DEF q
<1>4. RequestAgrees(q("begin", row)) /\ RequestAgrees(q("record", row))
  BY <1>1, <1>2, <1>3 DEF RequestAgrees, KnowsSession
<1> QED
  BY <1>1, <1>2, <1>3, <1>4, IdleAgrees, QuietStep

-----------------------------------------------------------------------------
(* Requests that change their operation                                     *)

\* What a status says of the Session
Borne(s, status) ==
    /\ status \in {"paid_verified", "import_pending", "imported", "access_observed"} =>
           session[s].state \in Paid
    /\ status = "closed_unpaid" => session[s].state = "expired"
    /\ status = "refunded" => session[s].state = "refunded"

\* The row of one operation is recorded with its new status.
LEMMA RecordStep ==
    ASSUME IInv, NEW i \in Requests, NEW q \in Invocation, NEW o \in Operations, NEW s,
           NEW status \in Statuses,
           request' = [request EXCEPT ![i] = q],
           q.pc # "create", RequestAgrees(q), q.owned = {},
           Recordable(operation[o], s, status), Record(o, status), Borne(s, status),
           UNCHANGED <<users, session, listing, right, observed, settled>>
    PROVE  IInv'
<1>1. Continues(o, Recorded(operation[o], status))
  BY RecordedRow DEF IInv, Borne
<1>2. operation' = [operation EXCEPT ![o] = Recorded(operation[o], status)]
  BY DEF Record
<1> QED
  BY <1>1, <1>2, RowActs

(***************************************************************************)
(* A status is recorded and the request ends.                              *)
(***************************************************************************)
LEMMA EndingStep ==
    ASSUME IInv, NEW i \in Requests, DecideUnknown(i) \/ DecideExpired(i) \/ NotTracked(i)
    PROVE  IInv'
<1>1. /\ request[i] \in Invocation /\ RequestAgrees(request[i]) /\ request[i].op \in Operations
      /\ request' = [request EXCEPT ![i] = Idle]
      /\ UNCHANGED <<users, session, listing, right, observed, settled>>
  BY ThisRequest DEF DecideUnknown, DecideExpired, NotTracked, Deciding, external
<1>2. PICK status \in Statuses :
        RecordOf(i, status) /\ Borne(request[i].row.session, status)
  <2>1. CASE DecideUnknown(i) \/ NotTracked(i)
    BY <2>1 DEF DecideUnknown, NotTracked, Borne, Statuses
  <2>2. CASE DecideExpired(i)
    BY <1>1, <2>2 DEF DecideExpired, Deciding, Borne, Statuses, Terminal, RequestAgrees,
       KnowsSession, StillTrue
  <2> QED
    BY <2>1, <2>2
<1> QED
  BY <1>1, <1>2, IdleAgrees, RecordStep DEF RecordOf

(***************************************************************************)
(* A paid Session is recorded and the request keeps the new row.           *)
(***************************************************************************)
LEMMA PaidStep ==
    ASSUME IInv, NEW i \in Requests, DecidePaid(i) \/ RecordImported(i)
    PROVE  IInv'
<1> DEFINE r == request[i]
           row == operation'[r.op]
           q(pc) == [r EXCEPT !.pc = pc, !.row = row]
<1>1. /\ r \in Invocation /\ RequestAgrees(r) /\ r.op \in Operations
      /\ r.pc \in {"decide", "record"} /\ r.found = "paid" /\ r.kind # "refund"
      /\ UNCHANGED <<users, session, listing, right, observed, settled>>
  BY ThisRequest DEF DecidePaid, RecordImported, Deciding, external, RequestAgrees
<1>2. PICK status \in {"paid_verified", "import_pending", "imported"} : RecordOf(i, status)
  BY DEF DecidePaid, RecordImported
<1>3. status \in Statuses /\ Borne(r.row.session, status)
  BY <1>1, <1>2 DEF Statuses, Granted, Borne, RequestAgrees, KnowsSession, StillTrue
<1>4. /\ Continues(r.op, Recorded(operation[r.op], status))
      /\ Recorded(operation[r.op], status).session = operation[r.op].session
      /\ operation[r.op].session = r.row.session
  <2>1. Recordable(operation[r.op], r.row.session, status)
    BY <1>2 DEF RecordOf
  <2> QED
    BY <1>1, <1>3, <2>1, RecordedRow DEF IInv, Borne, Recordable
<1>5. row \in Row /\ row.session = r.row.session
  BY <1>1, <1>2, <1>4 DEF RecordOf, Record, IInv, Types, Continues, Receipt
<1>6. \E pc \in {"decide", "begin"} : request' = [request EXCEPT ![i] = q(pc)]
  <2>1. CASE DecidePaid(i)
    <3>1. request' = [request EXCEPT ![i] = [r EXCEPT !.row = row]] /\ r.pc = "decide"
      BY <2>1 DEF DecidePaid, Deciding
    <3>2. [r EXCEPT !.row = row] = q("decide")
      BY <1>1, <3>1 DEF Invocation
    <3> QED
      BY <3>1, <3>2
  <2>2. CASE RecordImported(i)
    BY <2>2 DEF RecordImported
  <2> QED
    BY <2>1, <2>2
<1>7. \A pc \in {"decide", "begin"} :
        /\ q(pc) \in Invocation
        /\ q(pc).pc = pc /\ q(pc).found = "paid" /\ q(pc).row = row
        /\ q(pc).op = r.op /\ q(pc).kind = r.kind /\ q(pc).session = r.session
        /\ q(pc).owned = {} /\ q(pc).revoked = {}
  BY <1>1, <1>5 DEF Invocation, RequestAgrees
<1> HIDE DEF q
<1>8. RequestAgrees(q("decide")) /\ RequestAgrees(q("begin"))
  BY <1>1, <1>5, <1>7 DEF RequestAgrees, KnowsSession
<1>9. \A pc \in {"decide", "begin"} : RequestAgrees(q(pc)) /\ q(pc).pc # "create"
  BY <1>7, <1>8
<1> QED
  BY <1>1, <1>2, <1>3, <1>6, <1>7, <1>9, RecordStep DEF RecordOf

(***************************************************************************)
(* charge.refunded: the Session of the event was refunded.                 *)
(***************************************************************************)
LEMMA RefundStep ==
    ASSUME IInv, NEW i \in Requests, RecordRefund(i)
    PROVE  IInv'
<1> DEFINE r == request[i]
           row == operation'[r.op]
           q == [r EXCEPT !.pc = "begin", !.row = row]
<1>1. /\ r \in Invocation /\ RequestAgrees(r) /\ r.op \in Operations /\ r.pc = "refund"
      /\ r.kind = "refund" /\ r.hint \in Sessions /\ session[r.hint].state = "refunded"
      /\ Recordable(operation[r.op], r.hint, "refunded") /\ Record(r.op, "refunded")
      /\ request' = [request EXCEPT ![i] = q]
      /\ UNCHANGED <<users, session, listing, right, observed, settled>>
  BY ThisRequest DEF RecordRefund, external, RequestAgrees
<1>2. "refunded" \in Statuses /\ Borne(r.hint, "refunded")
  BY <1>1 DEF Statuses, Terminal, Borne
<1>3. row \in Row
  <2>1. Continues(r.op, Recorded(operation[r.op], "refunded"))
    BY <1>1, <1>2, RecordedRow DEF IInv, Borne
  <2> QED
    BY <1>1, <2>1 DEF Record, IInv, Types, Continues, Receipt
<1>4. /\ q \in Invocation /\ q.pc = "begin" /\ q.owned = {} /\ q.revoked = {}
      /\ q.op = r.op /\ q.kind = r.kind /\ q.hint = r.hint
  BY <1>1, <1>3 DEF Invocation, RequestAgrees
<1> HIDE DEF q
<1>5. RequestAgrees(q)
  BY <1>1, <1>4 DEF RequestAgrees
<1> QED
  BY <1>1, <1>2, <1>4, <1>5, RecordStep

(***************************************************************************)
(* The attempt is kept for recovery; access is noted on the operation.     *)
(***************************************************************************)
LEMMA UncheckedRow ==
    ASSUME IInv, NEW o \in Operations, operation[o] \in Receipt, NEW status,
           \/ /\ status = "recovery_required" /\ operation[o].started
              /\ operation[o].status \notin Terminal
           \/ status = "access_observed" /\ operation[o].status \in Granted
    PROVE  Continues(o, Recorded(operation[o], status))
<1> DEFINE row == operation[o]
<1>1. row \in Receipt /\ row \in Row /\ row.status # "absent" /\ row # NoOperation
  BY PresentRow DEF IInv, Receipt, NoOperation
<1>2. row.paid => session[row.session].state \in Paid
  BY DEF IInv, Ledger, LedgerFollowsStripe, Paid
<1>3. /\ Recorded(row, status) \in Row
      /\ Recorded(row, status).holder = row.holder
      /\ Recorded(row, status).started = row.started
      /\ Recorded(row, status).session = row.session
      /\ Recorded(row, status).status = status
  BY <1>1 DEF Recorded, Row, Statuses, Granted
<1>4. row.status \notin Terminal /\ row.started
  BY <1>1 DEF Receipt, Terminal, Granted
<1>5. CASE status = "recovery_required"
  <2>1. Recorded(row, status).paid = row.paid
    BY <1>1, <1>5 DEF Recorded, Row, Granted
  <2>2. Recorded(row, status) \in Receipt
    BY <1>1, <1>3, <1>4, <1>5, <2>1 DEF Receipt, Granted
  <2> QED
    BY <1>1, <1>2, <1>3, <1>4, <1>5, <2>1, <2>2 DEF Continues
<1>6. CASE status = "access_observed"
  <2>1. row.paid /\ row.session # None
    BY <1>1, <1>6 DEF Receipt, Granted
  <2>2. Recorded(row, status).paid
    BY <1>1, <2>1 DEF Recorded, Row
  <2>3. Recorded(row, status) \in Receipt
    BY <1>1, <1>3, <1>4, <1>6, <2>1, <2>2 DEF Receipt, Granted
  <2> QED
    BY <1>1, <1>2, <1>3, <1>4, <1>6, <2>1, <2>2, <2>3 DEF Continues
<1> QED
  BY <1>5, <1>6

\* A call threw: the operation is left to recovery and the request ends.
LEMMA CatchStep ==
    ASSUME IInv, NEW i \in Requests, Catch(i)
    PROVE  IInv'
<1> DEFINE o == request[i].op
<1>1. /\ o \in Operations /\ request' = [request EXCEPT ![i] = Idle]
      /\ UNCHANGED <<users, session, listing, right, observed, settled>>
      /\ operation[o] \in Receipt /\ operation[o].started /\ operation[o].status \notin Terminal
      /\ operation' = [operation EXCEPT ![o] = Recorded(operation[o], "recovery_required")]
  BY ThisRequest DEF Catch, Refreshed, Record, external
<1>2. Continues(o, Recorded(operation[o], "recovery_required"))
  BY <1>1, UncheckedRow
<1> QED
  BY <1>1, <1>2, IdleAgrees, RowActs

\* An access seen after the import is noted on the operation.
LEMMA ObserveStep ==
    ASSUME IInv, NEW i \in Requests, Observe(i)
    PROVE  IInv'
<1> DEFINE r == request[i]
           q == [r EXCEPT !.pc = "done"]
<1>1. /\ r \in Invocation /\ RequestAgrees(r) /\ r.op \in Operations /\ r.pc = "observe"
      /\ request' = [request EXCEPT ![i] = q]
      /\ UNCHANGED <<users, session, listing, right, observed, settled>>
      /\ operation[r.op] \in Receipt /\ operation[r.op].status \in Granted
      /\ operation' = [operation EXCEPT ![r.op] = Recorded(operation[r.op], "access_observed")]
  BY ThisRequest DEF Observe, Refreshed, Record, external
<1>2. Continues(r.op, Recorded(operation[r.op], "access_observed"))
  BY <1>1, UncheckedRow
<1>3. /\ q \in Invocation /\ q.pc = "done" /\ q.owned = {} /\ q.revoked = {}
      /\ q.op = r.op /\ q.kind = r.kind
  BY <1>1 DEF Invocation, RequestAgrees
<1> HIDE DEF q
<1>4. RequestAgrees(q)
  BY <1>1, <1>3 DEF RequestAgrees
<1> QED
  BY <1>1, <1>2, <1>3, <1>4, RowActs

(***************************************************************************)
(* A Session is bound to the operation it was made for.                    *)
(***************************************************************************)
LEMMA BoundRow ==
    ASSUME IInv, NEW o \in Operations, NEW h, NEW s \in Sessions,
           Bindable(operation[o], h, s), session[s].op = o
    PROVE  Continues(o, Bound(operation[o], s)) /\ Bound(operation[o], s).session = s
<1> DEFINE row == operation[o]
<1>1. row \in Receipt /\ row \in Row /\ row # NoOperation /\ s # None
  BY PresentRow, NoneAssumption DEF IInv, Bindable, Scoped
<1>2. /\ row.started /\ row.session \in {None, s} /\ (row.status \in Terminal => row.session # None)
      /\ row.paid => session[row.session].state \in Paid
      /\ row.status = "closed_unpaid" => session[row.session].state = "expired"
      /\ row.status = "refunded" => session[row.session].state = "refunded"
  BY DEF Bindable, IInv, Ledger, LedgerFollowsStripe, Paid
<1>3. /\ Bound(row, s) \in Row
      /\ Bound(row, s).holder = row.holder /\ Bound(row, s).started = row.started
      /\ Bound(row, s).session = s /\ Bound(row, s).paid = row.paid
      /\ Bound(row, s).status = IF row.status = "prepared" THEN "session_bound" ELSE row.status
  BY <1>1 DEF Bound, Row, Statuses
<1>4. Bound(row, s) \in Receipt
  BY <1>1, <1>2, <1>3 DEF Receipt, Granted
<1>5. row.paid \/ row.status \in Terminal => row.session = s
  BY <1>1, <1>2 DEF Receipt
<1> QED
  BY <1>1, <1>2, <1>3, <1>4, <1>5 DEF Continues, Terminal

\* The row is bound to the Session of its request.
LEMMA BindStep ==
    ASSUME IInv, NEW i \in Requests, Bind(i)
    PROVE  IInv'
<1> DEFINE r == request[i]
           row == operation'[r.op]
           q == [r EXCEPT !.pc = "decide", !.row = row]
<1>0. /\ r \in Invocation /\ RequestAgrees(r) /\ r.op \in Operations /\ r.pc = "bind"
      /\ r.session \in Sessions /\ session[r.session].op = r.op /\ r.kind # "refund"
  BY ThisRequest DEF Bind, RequestAgrees, KnowsSession
<1>1. /\ Bindable(operation[r.op], r.holder, r.session)
      /\ operation' = [operation EXCEPT ![r.op] = Bound(operation[r.op], r.session)]
      /\ request' = [request EXCEPT ![i] = q]
      /\ UNCHANGED <<users, session, listing, right, observed, settled>>
  <2>1. Bindable(operation[r.op], r.holder, r.session)
    BY DEF Bind
  <2>2. operation' = [operation EXCEPT ![r.op] = Bound(operation[r.op], r.session)]
    BY DEF Bind
  <2>3. request' = [request EXCEPT ![i] = q]
    <3>1. request' = [request EXCEPT ![i].pc = "decide", ![i].row = row]
      BY Zenon DEF Bind
    <3> QED
      BY <3>1, Zenon
  <2>4. UNCHANGED <<users, session, listing, right, observed, settled>>
    BY DEF Bind, external
  <2> QED
    BY <2>1, <2>2, <2>3, <2>4
<1>2. /\ Continues(r.op, Bound(operation[r.op], r.session))
      /\ Bound(operation[r.op], r.session).session = r.session
  BY <1>0, <1>1, BoundRow
<1>3. row \in Row /\ row.session = r.session
  BY <1>0, <1>1, <1>2 DEF IInv, Types, Continues, Receipt
<1>4. /\ q \in Invocation /\ q.pc = "decide" /\ q.owned = {} /\ q.revoked = {}
      /\ q.op = r.op /\ q.kind = r.kind /\ q.row = row
      /\ q.found = r.found /\ q.session = r.session
  BY <1>0, <1>3 DEF Invocation, RequestAgrees
<1> HIDE DEF q
<1>5. RequestAgrees(q)
  BY <1>0, <1>3, <1>4 DEF RequestAgrees, KnowsSession
<1> QED
  BY <1>0, <1>1, <1>2, <1>4, <1>5, RowActs

-----------------------------------------------------------------------------
(* Preparing, claiming, creating and offering                               *)

(***************************************************************************)
(* The one who claims the creation is alone, and no Session exists yet.    *)
(***************************************************************************)
LEMMA ClaimStep ==
    ASSUME IInv, NEW i \in Requests, Claim(i)
    PROVE  IInv'
<1> DEFINE r == request[i]
           o == r.op
           next(pc, row) == [r EXCEPT !.pc = pc, !.row = row]
<1>1. /\ r \in Invocation /\ RequestAgrees(r) /\ o \in Operations /\ r.pc = "claim"
      /\ r.kind # "refund"
      /\ UNCHANGED <<users, session, listing, right, observed, settled>>
  BY ThisRequest DEF Claim, external, RequestAgrees
<1>2. operation[o] \in Receipt /\ operation[o] \in Row /\ operation[o] # NoOperation
  BY <1>1, PresentRow DEF Claim, Scoped, IInv
<1>3. \A pc \in {"create", "recover"}, row \in Row :
        /\ next(pc, row) \in Invocation
        /\ next(pc, row).pc = pc /\ next(pc, row).row = row
        /\ next(pc, row).op = o /\ next(pc, row).kind = r.kind
        /\ next(pc, row).owned = {} /\ next(pc, row).revoked = {}
  BY ZenonT(60), <1>1 DEF Invocation, RequestAgrees
<1>4. CASE Claimable(operation[o])
  <2> DEFINE row == [operation[o] EXCEPT !.started = TRUE]
  <2>1. /\ row \in Receipt /\ row.holder = operation[o].holder /\ row.started
        /\ row.session = None /\ operation[o].session = None
        /\ row.status = "prepared" /\ operation[o].status = "prepared"
        /\ ~row.paid /\ ~operation[o].started
    BY <1>2, <1>4 DEF Claimable, Receipt, Row, Granted
  <2>2. operation' = [operation EXCEPT ![o] = row] /\ operation'[o] = row
    BY <1>1, <1>4 DEF Claim, IInv, Types
  <2>3. PICK q \in Invocation :
            /\ request' = [request EXCEPT ![i] = q]
            /\ q.pc = "create" /\ q.row = row /\ q.op = o /\ q.kind = r.kind
            /\ q.owned = {} /\ q.revoked = {}
    <3>1. request' = [request EXCEPT ![i] = next("create", operation'[o])]
      <4>1. request' = [request EXCEPT ![i].pc = "create", ![i].row = operation'[o]]
        BY <1>4, Zenon DEF Claim
      <4> QED
        BY <4>1, Zenon
    <3>2. row \in Row
      BY <2>1 DEF Receipt
    <3> HIDE DEF next, row
    <3> QED
      BY ZenonT(60), <1>3, <2>2, <3>1, <3>2
  <2> HIDE DEF row
  <2>4. Continues(o, row)
    BY <1>2, <2>1 DEF Continues, Terminal
  <2>5. Ledger' /\ operation' \in [Operations -> Receipt \union {NoOperation}]
    BY <1>1, <2>2, <2>4, RowStep DEF IInv
  <2>6. Grows
    BY <1>1, <2>1, <2>2 DEF Grows, IInv, Types
  <2>7. RequestAgrees(q)'
    BY <1>1, <2>3 DEF RequestAgrees
  <2>8. Types' /\ RequestsAgree' /\ SettledLookups' /\ AnsweredRefundIsFinal'
    <3>1. /\ session' \in [Sessions -> [op : Operations \union {None}, state : SessionStates]]
          /\ listing' \in [Sessions -> {"none", "owned", "refunded"}]
      BY <1>1 DEF IInv, Types
    <3> QED
      BY <1>1, <2>3, <2>5, <2>6, <2>7, <3>1, OneGoesOn
  <2>9. ClaimsAreSingular'
    <3>1. /\ request'[i] = q
          /\ \A j \in Requests : j # i => request'[j] = request[j]
      BY <2>3 DEF IInv, Types
    <3>2. \A s \in Sessions : session[s].op # o
      BY <1>1, <2>1, NoneAssumption DEF IInv, Ledger, SessionsAgree
    <3>3. \A j \in Requests : request[j].pc = "create" => request[j].op # o
      BY <2>1 DEF IInv, ClaimsAreSingular
    <3>4. \A j \in Requests : request[j].pc = "create" =>
              operation'[request[j].op].started /\ request[j].row.session = None
      BY <2>2, <3>3 DEF IInv, Types, ClaimsAreSingular
    <3> QED
      BY <1>1, <2>1, <2>2, <2>3, <3>1, <3>2, <3>3, <3>4 DEF IInv, ClaimsAreSingular
  <2> QED
    BY <2>5, <2>8, <2>9 DEF IInv
<1>5. CASE ~Claimable(operation[o])
  <2>1. request' = [request EXCEPT ![i] = next("recover", operation[o])] /\ operation' = operation
    BY <1>5 DEF Claim
  <2> HIDE DEF next
  <2>2. RequestAgrees(next("recover", operation[o]))
    BY <1>1, <1>2, <1>3 DEF RequestAgrees
  <2> QED
    BY <1>1, <1>2, <1>3, <2>1, <2>2, QuietStep
<1> QED
  BY <1>4, <1>5

(***************************************************************************)
(* An account without an open operation is given a new one.                *)
(***************************************************************************)
LEMMA PrepareStep ==
    ASSUME IInv, NEW i \in Requests, NEW o \in Operations, NEW h \in Holders, Prepare(i, o, h)
    PROVE  IInv'
<1> DEFINE row == Prepared(h)
<1>1. /\ operation[o] = NoOperation /\ operation' = [operation EXCEPT ![o] = row]
      /\ \A p \in Operations : ~Open(p, h)
      /\ Begun(i, "checkout", o, row, None)
      /\ UNCHANGED <<users, session, listing, right, observed, settled>>
  BY DEF Prepare, external
<1>2. /\ row \in Receipt /\ row \in Row /\ row.holder = h /\ row.status = "prepared"
      /\ ~row.started /\ row.session = None /\ ~row.paid
  BY NoOperationType DEF Prepared, Receipt, Row, NoOperation, Statuses, Granted
<1>3. /\ operation[o].status = "absent" /\ operation[o].holder = None /\ ~operation[o].started
      /\ operation[o].session = None
  BY <1>1 DEF NoOperation
<1> HIDE DEF row
<1>4. /\ operation' \in [Operations -> Receipt \union {NoOperation}] /\ operation'[o] = row
      /\ \A p \in Operations : p # o => operation'[p] = operation[p]
  BY <1>1, <1>2 DEF IInv, Types
<1>5. Ledger'
  <2>1. \A s \in Sessions : session[s].op # o
    BY <1>3, NoneAssumption DEF IInv, Ledger, SessionsAgree
  <2>2. SessionsAgree'
    BY <1>1, <1>4, <2>1 DEF IInv, Types, Ledger, SessionsAgree
  <2>3. BindingsAgree'
    BY <1>1, <1>2, <1>4 DEF IInv, Ledger, BindingsAgree
  <2>4. OneOpenOperation'
    BY <1>1, <1>2, <1>4 DEF IInv, Ledger, OneOpenOperation, Open
  <2>5. PaymentsAreTraceable'
    BY <1>1, <1>4, <2>1 DEF IInv, Types, Ledger, SessionsAgree, PaymentsAreTraceable
  <2>6. LedgerFollowsStripe'
    BY <1>1, <1>2, <1>4 DEF IInv, Ledger, LedgerFollowsStripe
  <2> QED
    BY <2>2, <2>3, <2>4, <2>5, <2>6 DEF Ledger
<1>6. Grows
  BY <1>1, <1>3, <1>4, NoneAssumption DEF Grows, IInv, Types
<1>7. PICK q \in Invocation :
        /\ request' = [request EXCEPT ![i] = q]
        /\ q.pc # "create" /\ q.owned = {} /\ RequestAgrees(q)
  BY <1>1, <1>2, BegunAgrees
<1>8. /\ \A p \in Operations : operation[p].started => operation'[p].started
      /\ \A s \in Sessions : session'[s].op = session[s].op
      /\ session' \in [Sessions -> [op : Operations \union {None}, state : SessionStates]]
      /\ listing' \in [Sessions -> {"none", "owned", "refunded"}]
  BY <1>1, <1>3, <1>4 DEF IInv, Types
<1> QED
  BY <1>1, <1>4, <1>5, <1>6, <1>7, <1>8, OneActs

(***************************************************************************)
(* A change of Sessions that breaks no word of the ledger                  *)
(***************************************************************************)
LEMMA SessionsChange ==
    ASSUME Types, Ledger, UNCHANGED <<operation, listing>>,
           session' \in [Sessions -> [op : Operations \union {None}, state : SessionStates]],
           \A s \in Sessions :
              /\ session'[s].op = session[s].op
              /\ session'[s].state = "none" <=> session[s].state = "none"
              /\ session[s].state \in Paid => session'[s].state \in Paid
              /\ session[s].state \in {"refunded", "expired"} =>
                    session'[s].state = session[s].state
              /\ session'[s].state \in Reached =>
                    session[s].state \in Reached \/ operation[session[s].op].session = s
    PROVE  Ledger'
<1>1. SessionsAgree'
  BY DEF Ledger, SessionsAgree
<1>2. \A o \in Operations : operation[o].session \in Sessions \union {None}
  BY SessionOfRow
<1>3. BindingsAgree'
  BY <1>2 DEF Ledger, BindingsAgree
<1>4. OneOpenOperation'
  BY DEF Ledger, OneOpenOperation, Open
<1>5. PaymentsAreTraceable'
  BY DEF Ledger, PaymentsAreTraceable, Reached
<1>6. LedgerFollowsStripe'
  <2>1. \A o \in Operations :
          operation[o].paid \/ operation[o].status \in Terminal => operation[o].session \in Sessions
    BY SessionOfRow
  <2> QED
    BY <2>1 DEF Ledger, LedgerFollowsStripe, Paid, Terminal
<1> QED
  BY <1>1, <1>3, <1>4, <1>5, <1>6 DEF Ledger

(***************************************************************************)
(* The customer is sent to the Session that is bound.                      *)
(***************************************************************************)
LEMMA OfferStep ==
    ASSUME IInv, NEW i \in Requests, Offer(i)
    PROVE  IInv'
<1> DEFINE r == request[i]
<1>1. /\ r \in Invocation /\ RequestAgrees(r) /\ r.op \in Operations
      /\ r.pc = "decide" /\ r.found = "created"
      /\ operation[r.op].session = r.session
      /\ request' = [request EXCEPT ![i] = Idle]
      /\ session' = [session EXCEPT ![r.session].state = IF @ = "open" THEN "offered" ELSE @]
      /\ UNCHANGED <<users, operation, listing, right, observed, settled>>
  BY ThisRequest DEF Offer, Deciding
<1>2. r.session \in Sessions /\ session[r.session].op = r.op
  BY <1>1 DEF RequestAgrees, KnowsSession
<1>3. \A s \in Sessions :
        /\ session'[s].op = session[s].op
        /\ \/ session'[s].state = session[s].state
           \/ s = r.session /\ session[s].state = "open" /\ session'[s].state = "offered"
  BY <1>1, <1>2 DEF IInv, Types
<1>4. session' \in [Sessions -> [op : Operations \union {None}, state : SessionStates]]
  BY <1>1, <1>2 DEF IInv, Types, SessionStates
<1>5. Ledger'
  BY ZenonT(60), <1>1, <1>2, <1>3, <1>4, SessionsChange DEF IInv, Paid, Reached
<1>6. Grows
  BY <1>1, <1>3 DEF Grows, Paid
<1>7. /\ operation' \in [Operations -> Receipt \union {NoOperation}]
      /\ listing' \in [Sessions -> {"none", "owned", "refunded"}]
  BY <1>1 DEF IInv, Types
<1> QED
  BY <1>1, <1>3, <1>4, <1>5, <1>6, <1>7, IdleAgrees, OneActs

(***************************************************************************)
(* Stripe is asked once for a Session: the one it makes is the only one of *)
(* the operation.                                                          *)
(***************************************************************************)
LEMMA CreateStep ==
    ASSUME IInv, NEW i \in Requests, Create(i)
    PROVE  IInv'
<1> DEFINE r == request[i]
           pc(s) == IF s # None /\ r.row.session = None THEN "bind" ELSE "decide"
           next(found, s) == [r EXCEPT !.pc = pc(s),
              !.found = found, !.session = s, !.hint = None]
<1>1. /\ r \in Invocation /\ RequestAgrees(r) /\ r.op \in Operations /\ r.pc = "create"
      /\ r.kind # "refund" /\ r.op # None
      /\ UNCHANGED <<users, operation, listing, right, observed, settled>>
  BY ThisRequest, NoneAssumption DEF Create, RequestAgrees
<1>2. /\ operation[r.op].started /\ r.row.session = None
      /\ \A s \in Sessions : session[s].op # r.op
      /\ \A j \in Requests : request[j].pc = "create" /\ request[j].op = r.op => j = i
  BY <1>1 DEF IInv, ClaimsAreSingular
<1>3. \A found \in {"created", "unknown"}, s \in Sessions \union {None} :
        /\ next(found, s) \in Invocation
        /\ next(found, s).pc = IF s = None THEN "decide" ELSE "bind"
        /\ next(found, s).found = found /\ next(found, s).session = s
        /\ next(found, s).op = r.op /\ next(found, s).kind = r.kind
        /\ next(found, s).owned = {} /\ next(found, s).revoked = {}
  <2> SUFFICES ASSUME NEW found \in {"created", "unknown"}, NEW s \in Sessions \union {None}
               PROVE  /\ next(found, s) \in Invocation
                      /\ next(found, s).pc = IF s = None THEN "decide" ELSE "bind"
                      /\ next(found, s).found = found /\ next(found, s).session = s
                      /\ next(found, s).op = r.op /\ next(found, s).kind = r.kind
                      /\ next(found, s).owned = {} /\ next(found, s).revoked = {}
    OBVIOUS
  <2>1. r.owned = {} /\ r.revoked = {}
    BY <1>1 DEF RequestAgrees
  <2>2. pc(s) \in {"bind", "decide"} /\ pc(s) = IF s = None THEN "decide" ELSE "bind"
    BY <1>2
  <2> HIDE DEF pc
  <2>3. next(found, s) \in Invocation
    BY <1>1, <2>2 DEF Invocation, Recoveries
  <2> QED
    BY <1>1, <2>1, <2>2, <2>3 DEF Invocation
<1>4. ASSUME NEW found, NEW s, Recovered(i, found, s)
      PROVE  request' = [request EXCEPT ![i] = next(found, s)]
  BY <1>4 DEF Recovered
<1> HIDE DEF next
<1>5. CASE session' = session
  <2>1. request' = [request EXCEPT ![i] = next("unknown", None)]
    <3>1. CASE \E s \in Unused : session' = [session EXCEPT ![s] = [op |-> r.op, state |-> "open"]]
      BY <1>1, <1>2, <1>5, <3>1 DEF Unused, IInv, Types
    <3>2. CASE Recovered(i, "unknown", None)
      BY <1>4, <3>2
    <3> QED
      BY <3>1, <3>2 DEF Create
  <2>2. RequestAgrees(next("unknown", None))
    BY <1>1, <1>3 DEF RequestAgrees
  <2> QED
    BY <1>1, <1>3, <1>5, <2>1, <2>2, QuietStep
<1>6. CASE session' # session
  <2>1. PICK s \in Unused : session' = [session EXCEPT ![s] = [op |-> r.op, state |-> "open"]]
    BY <1>6 DEF Create
  <2>2. s \in Sessions /\ session[s].state = "none" /\ session[s].op = None /\ listing[s] = "none"
    BY <2>1 DEF Unused, IInv, Types, Ledger, SessionsAgree, LedgerFollowsStripe
  <2>3. /\ session' \in [Sessions -> [op : Operations \union {None}, state : SessionStates]]
        /\ session'[s].op = r.op /\ session'[s].state = "open"
        /\ \A t \in Sessions : t # s => session'[t] = session[t]
    BY <1>1, <2>1, <2>2 DEF IInv, Types, SessionStates
  <2>4. PICK q \in Invocation :
            /\ request' = [request EXCEPT ![i] = q]
            /\ q.op = r.op /\ q.kind # "refund" /\ q.owned = {} /\ q.revoked = {}
            /\ \/ q.pc = "decide" /\ q.found = "unknown"
               \/ /\ q.pc = "bind" /\ q.session = s
                  /\ q.found \in {"created", "unknown"}
    <3>1. \/ \E t \in Unused :
              /\ session' = [session EXCEPT ![t] = [op |-> r.op, state |-> "open"]]
              /\ \/ \E found \in {"created", "unknown"} : Recovered(i, found, t)
                 \/ Recovered(i, "unknown", None)
          \/ Recovered(i, "unknown", None)
      BY DEF Create
    <3>2. CASE Recovered(i, "unknown", None)
      BY <1>1, <1>3, <1>4, <3>2
    <3>3. CASE \E t \in Unused :
              /\ session' = [session EXCEPT ![t] = [op |-> r.op, state |-> "open"]]
              /\ \E found \in {"created", "unknown"} : Recovered(i, found, t)
      <4>1. PICK t \in Unused :
              /\ session' = [session EXCEPT ![t] = [op |-> r.op, state |-> "open"]]
              /\ \E found \in {"created", "unknown"} : Recovered(i, found, t)
        BY <3>3
      <4>2. t = s
        BY <1>1, <2>2, <2>3, <4>1 DEF Unused, IInv, Types
      <4>3. PICK found \in {"created", "unknown"} : request' = [request EXCEPT ![i] = next(found, s)]
        BY <1>4, <4>1, <4>2
      <4>4. s \in Sessions /\ s # None
        BY <2>2, NoneAssumption
      <4>5. /\ next(found, s) \in Invocation
            /\ next(found, s).pc = "bind" /\ next(found, s).session = s
            /\ next(found, s).found = found
            /\ next(found, s).op = r.op /\ next(found, s).kind = r.kind
            /\ next(found, s).owned = {} /\ next(found, s).revoked = {}
        BY <1>3, <4>4
      <4> QED
        BY <1>1, <4>3, <4>5
    <3> QED
      BY <3>1, <3>2, <3>3
  <2>5. Ledger'
    <3>1. SessionsAgree'
      BY <1>1, <1>2, <2>2, <2>3 DEF IInv, Ledger, SessionsAgree
    <3>2. \A o \in Operations : operation[o].session # s
      BY <2>2, NoneAssumption DEF IInv, Ledger, BindingsAgree
    <3>3. BindingsAgree'
      <4>1. \A o \in Operations : operation[o].session \in Sessions \union {None}
        BY SessionOfRow DEF IInv
      <4> QED
        BY <1>1, <2>3, <3>2, <4>1 DEF IInv, Ledger, BindingsAgree
    <3>4. OneOpenOperation'
      BY <1>1 DEF IInv, Ledger, OneOpenOperation, Open
    <3>5. PaymentsAreTraceable'
      BY <1>1, <2>2, <2>3 DEF IInv, Ledger, PaymentsAreTraceable
    <3>6. LedgerFollowsStripe'
      <4>1. \A o \in Operations :
              operation[o].paid \/ operation[o].status \in Terminal => operation[o].session \in Sessions
        BY SessionOfRow DEF IInv
      <4> QED
        BY <1>1, <2>2, <2>3, <3>2, <4>1 DEF IInv, Ledger, LedgerFollowsStripe, Terminal
    <3> QED
      BY <3>1, <3>3, <3>4, <3>5, <3>6 DEF Ledger
  <2>6. Grows
    BY <1>1, <2>2, <2>3 DEF Grows, Paid
  <2>7. RequestAgrees(q)'
    BY <1>1, <2>2, <2>3, <2>4 DEF RequestAgrees, KnowsSession, StillTrue
  <2>8. /\ operation' \in [Operations -> Receipt \union {NoOperation}]
        /\ listing' \in [Sessions -> {"none", "owned", "refunded"}]
    BY <1>1 DEF IInv, Types
  <2>9. Types' /\ RequestsAgree' /\ SettledLookups' /\ AnsweredRefundIsFinal'
    BY <1>1, <2>3, <2>4, <2>6, <2>7, <2>8, OneGoesOn
  <2>10. ClaimsAreSingular'
    <3>1. /\ request'[i] = q /\ q.pc # "create"
          /\ \A j \in Requests : j # i => request'[j] = request[j]
      BY <2>4 DEF IInv, Types
    <3>2. \A j \in Requests : j # i /\ request[j].pc = "create" => request[j].op # r.op
      BY <1>2
    <3> QED
      BY <1>1, <2>3, <3>1, <3>2 DEF IInv, ClaimsAreSingular
  <2> QED
    BY <2>5, <2>9, <2>10 DEF IInv
<1> QED
  BY <1>5, <1>6

-----------------------------------------------------------------------------
(* Lookups of the account's access                                          *)

(***************************************************************************)
(* What no access step changes, apart from tokens and rights               *)
(***************************************************************************)
LEMMA AccessActs ==
    ASSUME IInv, NEW i \in Requests, NEW q \in Invocation,
           request' = [request EXCEPT ![i] = q],
           q.pc # "create", RequestAgrees(q),
           observed' \in [Holders -> Requests \union {None}],
           right' \in [Sessions -> {"none", "active", "inactive"}],
           settled' \subseteq Sessions,
           UNCHANGED <<users, operation, session, listing>>,
           SettledLookups', AnsweredRefundIsFinal'
    PROVE  IInv'
<1>1. Grows
  BY DEF Grows
<1>2. RequestAgrees(q)'
  BY <1>1, Kept DEF IInv
<1>3. RequestsAgree'
  BY <1>1, <1>2, OthersAgree DEF IInv
<1>4. ClaimsAreSingular'
  BY NoNewClaim DEF IInv
<1>5. Ledger'
  BY DEF IInv, Ledger, SessionsAgree, BindingsAgree, OneOpenOperation, Open,
         PaymentsAreTraceable, LedgerFollowsStripe
<1>6. Types'
  BY DEF IInv, Types
<1> QED
  BY <1>3, <1>4, <1>5, <1>6 DEF IInv

\* The gate reads the operation again before it lets an observed purchase through.
LEMMA GateStep ==
    ASSUME IInv, NEW i \in Requests, Gate(i)
    PROVE  IInv'
<1> DEFINE r == request[i]
           next(owned) == [r EXCEPT !.pc = "commit", !.owned = owned]
<1>1. /\ r \in Invocation /\ RequestAgrees(r) /\ r.op \in Operations /\ r.pc = "gate"
      /\ r.kind # "refund"
      /\ UNCHANGED <<users, operation, session, listing, right, observed, settled>>
  BY ThisRequest DEF Gate, external, RequestAgrees
<1>2. PICK owned \in SUBSET r.owned : request' = [request EXCEPT ![i] = next(owned)]
  <2>1. \/ request' = [request EXCEPT ![i] = next(r.owned)]
        \/ request' = [request EXCEPT ![i] = next({})]
    BY DEF Gate
  <2> QED
    BY <2>1
<1>3. /\ next(owned) \in Invocation
      /\ next(owned).pc = "commit" /\ next(owned).owned = owned
      /\ next(owned).revoked = r.revoked /\ next(owned).holder = r.holder
      /\ next(owned).op = r.op /\ next(owned).kind = r.kind
  BY <1>1 DEF Invocation
<1> HIDE DEF next
<1>4. RequestAgrees(next(owned))
  BY <1>1, <1>3 DEF RequestAgrees
<1> QED
  BY <1>1, <1>2, <1>3, <1>4, QuietStep

(***************************************************************************)
(* A listing read after a refund was answered shows it.                    *)
(***************************************************************************)
LEMMA ListingStep ==
    ASSUME IInv, NEW i \in Requests, ReadListing(i)
    PROVE  IInv'
<1> DEFINE r == request[i]
           purchases == PurchasesOf(r.holder)
           owned == {s \in purchases : listing[s] = "owned"}
           revoked == {s \in purchases : listing[s] = "refunded"}
           pc == IF r.kind = "checkout" THEN "gate" ELSE "commit"
           q == [r EXCEPT !.pc = pc, !.owned = owned, !.revoked = revoked]
<1>1. /\ r \in Invocation /\ RequestAgrees(r) /\ r.op \in Operations /\ r.pc = "lookup"
      /\ request' = [request EXCEPT ![i] = q]
      /\ UNCHANGED <<users, operation, session, listing, right, observed, settled>>
  BY ThisRequest DEF ReadListing, external
<1>2. /\ owned \subseteq Sessions /\ revoked \subseteq Sessions
      /\ \A s \in owned \union revoked :
            listing[s] # "none" /\ operation[session[s].op].holder = r.holder
      /\ \A s \in revoked : listing[s] = "refunded"
      /\ owned \intersect settled = {}
  BY DEF PurchasesOf, IInv, SettledLookups
<1>3. pc \in {"gate", "commit"} /\ (r.kind = "refund" => pc = "commit")
  OBVIOUS
<1> HIDE DEF owned, revoked, pc
<1>4. /\ q \in Invocation /\ q.pc = pc /\ q.owned = owned /\ q.revoked = revoked
      /\ q.op = r.op /\ q.kind = r.kind /\ q.hint = r.hint /\ q.holder = r.holder
  BY <1>1, <1>2, <1>3 DEF Invocation
<1> HIDE DEF q
<1>5. RequestAgrees(q)
  BY <1>1, <1>2, <1>3, <1>4 DEF RequestAgrees
<1> QED
  BY <1>1, <1>2, <1>3, <1>4, <1>5, QuietStep

(***************************************************************************)
(* A new lookup takes the token and has read nothing yet.                  *)
(***************************************************************************)
LEMMA BeginAccessStep ==
    ASSUME IInv, NEW i \in Requests, BeginAccess(i)
    PROVE  IInv'
<1> DEFINE r == request[i]
           row == [NoOperation EXCEPT !.session = r.row.session]
           q == [r EXCEPT !.pc = "lookup", !.found = "none", !.row = row]
<1>1. /\ r \in Invocation /\ RequestAgrees(r) /\ r.op \in Operations /\ r.pc = "begin"
      /\ r.holder \in users
      /\ request' = [request EXCEPT ![i] = q]
      /\ observed' = [observed EXCEPT ![r.holder] = i]
      /\ UNCHANGED <<users, operation, session, listing, right, settled>>
  BY ThisRequest DEF BeginAccess, external
<1>2. row \in Row
  <2>1. r.row.session \in Sessions \union {None}
    BY <1>1 DEF Invocation, Row
  <2> QED
    BY <2>1, NoOperationType DEF Row
<1> HIDE DEF row
<1>3. /\ q \in Invocation /\ q.pc = "lookup" /\ q.owned = {} /\ q.revoked = {}
      /\ q.op = r.op /\ q.kind = r.kind /\ q.hint = r.hint
  BY <1>1, <1>2 DEF Invocation, RequestAgrees
<1> HIDE DEF q
<1>4. RequestAgrees(q)
  BY <1>1, <1>3 DEF RequestAgrees
<1>5. observed' \in [Holders -> Requests \union {None}]
  BY <1>1 DEF IInv, Types
<1>6. SettledLookups'
  <2> SUFFICES ASSUME NEW s \in settled, NEW j \in Requests, s \in request'[j].owned,
                      request'[j].holder \in users
               PROVE  observed'[request'[j].holder] # j
    BY <1>1 DEF IInv, SettledLookups, Current
  <2>1. j # i /\ request'[j] = request[j]
    BY <1>1, <1>3 DEF IInv, Types
  <2>2. observed[request[j].holder] # j /\ request[j].holder \in Holders
    BY <2>1 DEF IInv, Types, SettledLookups, Current
  <2> QED
    BY <1>1, <2>1, <2>2 DEF IInv, Types
<1>7. AnsweredRefundIsFinal' /\ right' \in [Sessions -> {"none", "active", "inactive"}]
          /\ settled' \subseteq Sessions
  BY <1>1 DEF IInv, Types, AnsweredRefundIsFinal
<1> QED
  BY <1>1, <1>3, <1>4, <1>5, <1>6, <1>7, AccessActs

(***************************************************************************)
(* A lookup is committed with the newest token.  When it answers a refund, *)
(* every other lookup that saw the purchase owned has lost the token.      *)
(***************************************************************************)
LEMMA CommitStep ==
    ASSUME IInv, NEW i \in Requests, CommitAccess(i)
    PROVE  IInv'
<1> DEFINE r == request[i]
           h == r.holder
           next == [r EXCEPT !.pc = "observe", !.owned = {}, !.revoked = {}]
<1>1. /\ r \in Invocation /\ RequestAgrees(r) /\ r.op \in Operations /\ r.pc = "commit"
      /\ h \in users /\ h \in Holders /\ Current(i)
      /\ right' = Observed(i)
      /\ observed' = [observed EXCEPT ![h] = None]
      /\ UNCHANGED <<users, operation, session, listing>>
  BY ThisRequest DEF CommitAccess, external, IInv, Types
<1>2. \/ request' = [request EXCEPT ![i] = next] /\ r.kind = "checkout"
      \/ request' = [request EXCEPT ![i] = Idle]
  BY DEF CommitAccess
<1>3. \/ settled' = settled
      \/ settled' = settled \union {r.hint} /\ r.hint \in r.revoked /\ r.kind = "refund"
  BY DEF CommitAccess
<1>4. PICK q \in Invocation :
        /\ request' = [request EXCEPT ![i] = q]
        /\ q.pc # "create" /\ q.owned = {} /\ RequestAgrees(q)
  <2>1. /\ next \in Invocation /\ next.pc = "observe" /\ next.owned = {} /\ next.revoked = {}
        /\ next.op = r.op /\ next.kind = r.kind
    BY <1>1 DEF Invocation
  <2> HIDE DEF next
  <2>2. r.kind = "checkout" => RequestAgrees(next)
    BY <1>1, <2>1 DEF RequestAgrees
  <2> QED
    BY <1>2, <2>1, <2>2, IdleAgrees
<1>5. /\ observed' \in [Holders -> Requests \union {None}] /\ observed'[h] = None
      /\ \A g \in Holders : g # h => observed'[g] = observed[g]
  BY <1>1 DEF IInv, Types
<1>6. /\ right' \in [Sessions -> {"none", "active", "inactive"}]
      /\ \A s \in Sessions : s \notin Grants(i) =>
            /\ right[s] # "active" => right'[s] # "active"
            /\ s \in r.revoked => right'[s] # "active"
      /\ Grants(i) \subseteq r.owned
      /\ r.kind = "refund" => Grants(i) = {}
  BY <1>1 DEF Observed, Grants, IInv, Types
<1>7. r.revoked \subseteq Sessions /\ r.owned \subseteq Sessions
  BY <1>1 DEF Invocation
<1>8. settled' \subseteq Sessions
  BY <1>3, <1>7 DEF IInv, Types
<1>9. /\ request'[i] = q
      /\ \A j \in Requests : j # i => request'[j] = request[j]
  BY <1>4 DEF IInv, Types
<1>10. SettledLookups'
  <2> SUFFICES ASSUME NEW s \in settled'
               PROVE  /\ listing[s] = "refunded"
                      /\ \A j \in Requests :
                            s \in request'[j].owned /\ request'[j].holder \in users
                                => observed'[request'[j].holder] # j
    BY <1>1 DEF SettledLookups, Current
  <2>1. listing[s] = "refunded"
    BY <1>1, <1>3 DEF IInv, SettledLookups, RequestAgrees
  <2>2. ASSUME NEW j \in Requests, s \in request'[j].owned, request'[j].holder \in users
        PROVE  observed'[request'[j].holder] # j
    <3>1. j # i /\ request'[j] = request[j]
      BY <1>4, <1>9, <2>2
    <3>2. request[j].holder \in Holders /\ j # None
      BY <2>2, <3>1, NoneAssumption DEF IInv, Types
    <3>3. CASE request[j].holder = h
      BY <1>5, <3>1, <3>2, <3>3
    <3>4. CASE request[j].holder # h
      <4>1. CASE s \in settled
        BY <1>5, <2>2, <3>1, <3>2, <3>4, <4>1 DEF IInv, SettledLookups, Current
      <4>2. CASE s \in r.revoked
        \* Whoever saw the purchase looked for the account of its operation.
        <5>1. operation[session[s].op].holder = h
          BY <1>1, <4>2 DEF RequestAgrees
        <5>2. operation[session[s].op].holder = request[j].holder
          BY <2>2, <3>1 DEF IInv, RequestsAgree, RequestAgrees
        <5> QED
          BY <3>4, <5>1, <5>2
      <4> QED
        BY <1>3, <4>1, <4>2
    <3> QED
      BY <3>3, <3>4
  <2> QED
    BY <2>1, <2>2
<1>11. AnsweredRefundIsFinal'
  <2> SUFFICES ASSUME NEW s \in settled' PROVE right'[s] # "active"
    BY DEF AnsweredRefundIsFinal
  <2>1. CASE s \in settled
    <3>1. s \notin r.owned
      BY <1>1, <2>1 DEF IInv, SettledLookups
    <3> QED
      BY <1>6, <2>1, <3>1 DEF IInv, Types, AnsweredRefundIsFinal
  <2>2. CASE s \in r.revoked /\ r.kind = "refund"
    BY <1>6, <1>7, <2>2
  <2> QED
    BY <1>3, <2>1, <2>2
<1> QED
  BY <1>1, <1>4, <1>5, <1>6, <1>8, <1>10, <1>11, AccessActs

(***************************************************************************)
(* A request that ends gives its token back.                               *)
(***************************************************************************)
LEMMA AbandonStep ==
    ASSUME IInv, NEW i \in Requests, Abandon(i)
    PROVE  IInv'
<1>1. /\ request' = [request EXCEPT ![i] = Idle]
      /\ observed' = [h \in Holders |-> IF observed[h] = i THEN None ELSE observed[h]]
      /\ UNCHANGED <<users, operation, session, listing, right, settled>>
  BY DEF Abandon, external
<1>2. /\ observed' \in [Holders -> Requests \union {None}]
      /\ right' \in [Sessions -> {"none", "active", "inactive"}] /\ settled' \subseteq Sessions
  BY <1>1 DEF IInv, Types
<1>3. SettledLookups'
  <2> SUFFICES ASSUME NEW s \in settled, NEW j \in Requests, s \in request'[j].owned,
                      request'[j].holder \in users
               PROVE  observed'[request'[j].holder] # j
    BY <1>1 DEF IInv, SettledLookups, Current
  <2>1. request'[j] = request[j]
    BY <1>1, IdleAgrees DEF IInv, Types
  <2>2. observed[request[j].holder] # j /\ request[j].holder \in Holders /\ j # None
    BY <2>1, NoneAssumption DEF IInv, Types, SettledLookups, Current
  <2> QED
    BY <1>1, <2>1, <2>2
<1>4. AnsweredRefundIsFinal'
  BY <1>1 DEF IInv, AnsweredRefundIsFinal
<1> QED
  BY <1>1, <1>2, <1>3, <1>4, IdleAgrees, AccessActs

-----------------------------------------------------------------------------
(* Steps of no request                                                      *)

\* Steps of the world: no request moves.
LEMMA WorldStep ==
    ASSUME IInv, UNCHANGED request, Grows, Types', Ledger', SettledLookups',
           AnsweredRefundIsFinal',
           \A s \in Sessions : session'[s].op = session[s].op,
           \A o \in Operations : operation[o].started => operation'[o].started
    PROVE  IInv'
<1>1. RequestsAgree'
  <2> SUFFICES ASSUME NEW j \in Requests PROVE RequestAgrees(request[j])'
    BY DEF RequestsAgree
  <2>1. \A r \in Invocation : RequestAgrees(r) => RequestAgrees(r)'
    BY Kept DEF IInv
  <2>2. request[j] \in Invocation /\ RequestAgrees(request[j])
    BY DEF IInv, Types, RequestsAgree
  <2> QED
    BY <2>1, <2>2 DEF RequestAgrees, KnowsSession, StillTrue
<1>2. ClaimsAreSingular'
  <2>1. \A i \in Requests : request[i].pc = "create" => request[i].op \in Operations
    BY ThisRequest
  <2> QED
    BY <2>1 DEF IInv, ClaimsAreSingular
<1> QED
  BY <1>1, <1>2 DEF IInv

(***************************************************************************)
(* The customer and Stripe.                                                *)
(***************************************************************************)
LEMMA StripeStep ==
    ASSUME IInv, NEW s \in Sessions, Pay(s) \/ PayLater(s) \/ Expire(s) \/ RefundCharge(s)
    PROVE  IInv'
<1>1. PICK to \in SessionStates :
        /\ session' = [session EXCEPT ![s].state = to]
        /\ session[s].state # "none" /\ to # "none"
        /\ session[s].state \in {"refunded", "expired"} => FALSE
        /\ session[s].state \in Paid => to \in Paid
        /\ to \in Reached => session[s].state \in Reached
        /\ UNCHANGED <<users, operation, listing, right, observed, request, settled>>
  BY DEF Pay, PayLater, Expire, RefundCharge, Becomes, SessionStates, Paid, Reached
<1>2. /\ session' \in [Sessions -> [op : Operations \union {None}, state : SessionStates]]
      /\ session'[s].state = to
      /\ \A t \in Sessions : session'[t].op = session[t].op
      /\ \A t \in Sessions : t # s => session'[t] = session[t]
  BY <1>1 DEF IInv, Types
<1>3. Ledger'
  BY <1>1, <1>2, SessionsChange DEF IInv
<1>4. Grows
  BY <1>1, <1>2 DEF Grows
<1>5. Types'
  BY <1>1, <1>2 DEF IInv, Types
<1>6. SettledLookups' /\ AnsweredRefundIsFinal'
  BY <1>1 DEF IInv, SettledLookups, Current, AnsweredRefundIsFinal
<1> QED
  BY <1>1, <1>2, <1>3, <1>4, <1>5, <1>6, WorldStep

(***************************************************************************)
(* RevenueCat lists a refund; a refund is recorded without its account.    *)
(***************************************************************************)
LEMMA RefundsStep ==
    ASSUME IInv, NEW s \in Sessions, ListRefund(s) \/ RefundDetached(s)
    PROVE  IInv'
<1>1. CASE ListRefund(s)
  <2>1. /\ session[s].state = "refunded" /\ listing[s] = "owned"
        /\ listing' = [listing EXCEPT ![s] = "refunded"]
        /\ UNCHANGED <<users, operation, session, right, observed, request, settled>>
    BY <1>1 DEF ListRefund
  <2>2. /\ listing' \in [Sessions -> {"none", "owned", "refunded"}]
        /\ listing'[s] = "refunded"
        /\ \A t \in Sessions : t # s => listing'[t] = listing[t]
    BY <2>1 DEF IInv, Types
  <2>3. Ledger'
    <3>1. SessionsAgree' /\ BindingsAgree' /\ OneOpenOperation' /\ PaymentsAreTraceable'
      BY <2>1 DEF IInv, Ledger, SessionsAgree, BindingsAgree, OneOpenOperation, Open,
                  PaymentsAreTraceable
    <3>2. LedgerFollowsStripe'
      BY <2>1, <2>2 DEF IInv, Ledger, LedgerFollowsStripe
    <3> QED
      BY <3>1, <3>2 DEF Ledger
  <2>4. Grows
    BY <2>1, <2>2 DEF Grows
  <2>5. Types'
    BY <2>1, <2>2 DEF IInv, Types
  <2>6. SettledLookups' /\ AnsweredRefundIsFinal'
    BY <2>1, <2>2 DEF IInv, Types, SettledLookups, Current, AnsweredRefundIsFinal
  <2> QED
    BY <2>1, <2>3, <2>4, <2>5, <2>6, WorldStep
<1>2. CASE RefundDetached(s)
  <2> DEFINE o == session[s].op
             row == Recorded(operation[o], "refunded")
  <2>1. /\ session[s].state = "refunded" /\ Recordable(operation[o], s, "refunded")
        /\ operation' = [operation EXCEPT ![o] = row]
        /\ UNCHANGED <<users, session, listing, right, observed, request, settled>>
    BY <1>2 DEF RefundDetached, Record, external
  <2>2. o \in Operations
    BY <2>1 DEF IInv, Types, Ledger, SessionsAgree
  <2>3. Continues(o, row)
    BY <2>1, <2>2, RecordedRow DEF IInv, Statuses, Terminal
  <2>4. Ledger' /\ operation' \in [Operations -> Receipt \union {NoOperation}]
    BY <2>1, <2>2, <2>3, RowStep DEF IInv
  <2>5. /\ Grows
        /\ \A p \in Operations : operation[p].started => operation'[p].started
    BY <2>1, <2>2, <2>3 DEF Grows, IInv, Types, Continues
  <2>6. Types' /\ SettledLookups' /\ AnsweredRefundIsFinal'
    BY <2>1, <2>4 DEF IInv, Types, SettledLookups, Current, AnsweredRefundIsFinal
  <2> QED
    BY <2>1, <2>4, <2>5, <2>6, WorldStep
<1> QED
  BY <1>1, <1>2

(***************************************************************************)
(* A lookup outside the checkout takes the token from all that run.        *)
(***************************************************************************)
LEMMA ReconcileStep ==
    ASSUME IInv, NEW h \in Holders, Reconcile(h)
    PROVE  IInv'
<1>1. /\ observed' = [observed EXCEPT ![h] = None]
      /\ UNCHANGED <<users, operation, session, listing, request, settled>>
      /\ right' = [s \in Sessions |->
            IF s \in PurchasesOf(h)
              THEN CASE listing[s] = "owned" -> "active"
                     [] right[s] = "active" -> "inactive"
                     [] OTHER -> right[s]
              ELSE right[s]]
  BY DEF Reconcile, external
<1>2. Ledger' /\ Grows
  BY <1>1 DEF IInv, Ledger, SessionsAgree, BindingsAgree, OneOpenOperation, Open,
              PaymentsAreTraceable, LedgerFollowsStripe, Grows
<1>3. Types'
  BY <1>1 DEF IInv, Types
<1>4. SettledLookups'
  <2> SUFFICES ASSUME NEW s \in settled, NEW j \in Requests, s \in request[j].owned,
                      request[j].holder \in users
               PROVE  observed'[request[j].holder] # j
    BY <1>1 DEF IInv, SettledLookups, Current
  <2>1. observed[request[j].holder] # j /\ request[j].holder \in Holders /\ j # None
    BY NoneAssumption DEF IInv, Types, SettledLookups, Current
  <2> QED
    BY <1>1, <2>1 DEF IInv, Types
<1>5. AnsweredRefundIsFinal'
  <2> SUFFICES ASSUME NEW s \in settled PROVE right'[s] # "active"
    BY <1>1 DEF AnsweredRefundIsFinal
  <2>1. s \in Sessions /\ listing[s] = "refunded" /\ right[s] # "active"
    BY DEF IInv, Types, SettledLookups, AnsweredRefundIsFinal
  <2> QED
    BY <1>1, <2>1
<1> QED
  BY <1>1, <1>2, <1>3, <1>4, <1>5, WorldStep

(***************************************************************************)
(* Deleting an account clears it from its rows and keeps what they record. *)
(***************************************************************************)
LEMMA DeleteStep ==
    ASSUME IInv, NEW h \in Holders, DeleteAccount(h)
    PROVE  IInv'
<1>1. /\ h \in users /\ users' = users \ {h}
      /\ operation' = [o \in Operations |->
            IF operation[o].holder = h THEN [operation[o] EXCEPT !.holder = None] ELSE operation[o]]
      /\ observed' = [observed EXCEPT ![h] = None]
      /\ UNCHANGED <<session, listing, request, settled>>
  BY DEF DeleteAccount, Detached, external
<1>2. \A o \in Operations :
        /\ operation'[o].holder = IF operation[o].holder = h THEN None ELSE operation[o].holder
        /\ operation'[o].status = operation[o].status
        /\ operation'[o].started = operation[o].started
        /\ operation'[o].session = operation[o].session
        /\ operation'[o].paid = operation[o].paid
  BY <1>1, PresentRow DEF IInv, Row
<1>3. operation' \in [Operations -> Receipt \union {NoOperation}]
  <2> SUFFICES ASSUME NEW o \in Operations, operation[o].holder = h
               PROVE  [operation[o] EXCEPT !.holder = None] \in Receipt
    BY <1>1 DEF IInv, Types
  <2>1. operation[o] \in Receipt
    BY PresentRow, NoOperationType, NoneAssumption DEF IInv
  <2> QED
    BY <2>1 DEF Receipt, Row
<1>4. right' \in [Sessions -> {"none", "active", "inactive"}]
      /\ \A s \in Sessions : right'[s] = "active" => right[s] = "active"
  BY DEF DeleteAccount, IInv, Types
<1>5. Types'
  BY <1>1, <1>3, <1>4 DEF IInv, Types
<1>6. Ledger'
  <2>1. \A s \in Sessions : session[s].op # None => session[s].op \in Operations
    BY DEF IInv, Types
  <2>2. SessionsAgree'
    BY <1>1, <1>2, <2>1 DEF IInv, Ledger, SessionsAgree
  <2>3. BindingsAgree'
    BY <1>1, <1>2 DEF IInv, Ledger, BindingsAgree
  <2>4. OneOpenOperation'
    <3>1. \A g \in Holders, o \in Operations : Open(o, g)' => Open(o, g)
      BY <1>2, NoneAssumption DEF Open
    <3> QED
      BY <3>1 DEF IInv, Ledger, OneOpenOperation, Open
  <2>5. PaymentsAreTraceable'
    BY <1>1, <1>2, <2>1 DEF IInv, Ledger, SessionsAgree, PaymentsAreTraceable
  <2>6. LedgerFollowsStripe'
    BY <1>1, <1>2 DEF IInv, Ledger, LedgerFollowsStripe
  <2> QED
    BY <2>2, <2>3, <2>4, <2>5, <2>6 DEF Ledger
<1>7. Grows
  BY <1>1, <1>2 DEF Grows
<1>8. SettledLookups'
  <2> SUFFICES ASSUME NEW s \in settled, NEW j \in Requests, s \in request[j].owned,
                      request[j].holder \in users, request[j].holder # h
               PROVE  observed'[request[j].holder] # j
    BY <1>1 DEF IInv, SettledLookups, Current
  <2>1. observed[request[j].holder] # j /\ request[j].holder \in Holders
    BY DEF IInv, Types, SettledLookups, Current
  <2> QED
    BY <1>1, <2>1 DEF IInv, Types
<1>9. AnsweredRefundIsFinal'
  BY <1>1, <1>4 DEF IInv, Types, AnsweredRefundIsFinal
<1> QED
  BY <1>1, <1>2, <1>5, <1>6, <1>7, <1>8, <1>9, WorldStep

-----------------------------------------------------------------------------
(* The theorems                                                             *)

\* Every step of a request
LEMMA RequestSteps ==
    ASSUME IInv, NEW i \in Requests, Steps(i)
    PROVE  IInv'
<1>1. CASE Claim(i) \/ Create(i) \/ Recover(i) \/ Bind(i) \/ Offer(i)
  BY <1>1, ClaimStep, CreateStep, RecoverStep, BindStep, OfferStep
<1>2. CASE DecideUnknown(i) \/ DecideExpired(i) \/ NotTracked(i) \/ DecidePaid(i)
             \/ RecordImported(i) \/ RecordRefund(i)
  BY <1>2, EndingStep, PaidStep, RefundStep
<1>3. CASE Refresh(i) \/ ReadCharge(i) \/ Import(i) \/ Tracked(i) \/ Catch(i) \/ Observe(i)
  BY <1>3, RefreshStep, ChargeStep, ImportStep, TrackedStep, CatchStep, ObserveStep
<1>4. CASE BeginAccess(i) \/ ReadListing(i) \/ Gate(i) \/ CommitAccess(i) \/ Abandon(i)
  BY <1>4, BeginAccessStep, ListingStep, GateStep, CommitStep, AbandonStep
<1> QED
  BY <1>1, <1>2, <1>3, <1>4 DEF Steps

\* Every step keeps the invariant.
LEMMA StepInvariant == IInv /\ [Next]_vars => IInv'
<1> SUFFICES ASSUME IInv, [Next]_vars PROVE IInv'
  OBVIOUS
<1>1. CASE \E i \in Requests : Steps(i)
  BY <1>1, RequestSteps
<1>2. CASE \E i \in Requests :
              \/ \E o \in Operations : StartCheckout(i, o)
              \/ \E s \in Sessions : SessionEvent(i, s) \/ RefundEvent(i, s)
  BY <1>2, BeginStep
<1>3. CASE \E i \in Requests, o \in Operations, h \in Holders : Prepare(i, o, h)
  BY <1>3, PrepareStep
<1>4. CASE \E s \in Sessions : Pay(s) \/ PayLater(s) \/ Expire(s) \/ RefundCharge(s)
  BY <1>4, StripeStep
<1>5. CASE \E s \in Sessions : ListRefund(s) \/ RefundDetached(s)
  BY <1>5, RefundsStep
<1>6. CASE \E h \in Holders : Reconcile(h) \/ DeleteAccount(h)
  BY <1>6, ReconcileStep, DeleteStep
<1>7. CASE UNCHANGED vars
  <2>1. Types'
    BY <1>7 DEF vars, IInv, Types
  <2>2. Ledger'
    BY <1>7 DEF vars, IInv, Ledger, SessionsAgree, BindingsAgree, OneOpenOperation, Open,
       PaymentsAreTraceable, LedgerFollowsStripe
  <2>3. ClaimsAreSingular'
    BY <1>7 DEF vars, IInv, ClaimsAreSingular
  <2>4. RequestsAgree'
    BY <1>7 DEF vars, IInv, RequestsAgree, RequestAgrees, KnowsSession, StillTrue
  <2>5. SettledLookups' /\ AnsweredRefundIsFinal'
    BY <1>7 DEF vars, IInv, SettledLookups, Current, AnsweredRefundIsFinal
  <2> QED
    BY <2>1, <2>2, <2>3, <2>4, <2>5 DEF IInv
<1> QED
  BY <1>1, <1>2, <1>3, <1>4, <1>5, <1>6, <1>7 DEF Next

(***************************************************************************)
(* The inductive invariant holds in every reachable state.                 *)
(***************************************************************************)
THEOREM Invariance == Spec => []IInv
<1>1. Init => IInv
  BY InitInvariant
<1>2. IInv /\ [Next]_vars => IInv'
  BY StepInvariant
<1> QED
  BY <1>1, <1>2, PTL DEF Spec

(***************************************************************************)
(* Every row of the ledger is one that the functions can read again.       *)
(***************************************************************************)
THEOREM TypeCorrectness == Spec => []TypeOK
<1>1. IInv => TypeOK
  BY TypesGiveTypeOK DEF IInv
<1> QED
  BY <1>1, Invariance, PTL

(***************************************************************************)
(* Two Sessions that take money of one account would be Sessions of one    *)
(* operation, which was claimed once, or of two operations, of which one   *)
(* is terminal and its only Session expired or refunded.                   *)
(***************************************************************************)
LEMMA OneSessionTakesMoney == IInv => OnePayableSession
<1> SUFFICES ASSUME IInv, NEW s \in Sessions, NEW t \in Sessions, Payable(s), Payable(t),
                    operation[session[s].op].holder = operation[session[t].op].holder,
                    operation[session[s].op].holder # None
             PROVE  s = t
  BY DEF OnePayableSession
<1> DEFINE o == session[s].op
           p == session[t].op
           h == operation[o].holder
<1>1. o \in Operations /\ p \in Operations /\ o # None /\ p # None
  BY NoneAssumption DEF Payable, IInv, Types, Ledger, SessionsAgree
<1>2. \A q \in Operations : operation[q].holder = h =>
        operation[q].status # "absent" /\ h \in Holders
  BY <1>1, PresentRow, NoOperationType DEF IInv, Row
<1>3. \A u \in Sessions : Payable(u) => operation[session[u].op].status \notin Terminal
  <2> SUFFICES ASSUME NEW u \in Sessions, Payable(u), operation[session[u].op].status \in Terminal
               PROVE  FALSE
    OBVIOUS
  <2>1. session[u].op \in Operations /\ session[u].op # None
    BY NoneAssumption DEF Payable, IInv, Types, Ledger, SessionsAgree
  <2> DEFINE v == operation[session[u].op].session
  <2>2. v \in Sessions /\ session[v].op = session[u].op
    BY <2>1, SessionOfRow, NoneAssumption DEF IInv, Ledger, BindingsAgree
  <2>3. v = u
    BY <2>1, <2>2 DEF IInv, Ledger, SessionsAgree
  <2>4. session[v].state \in {"expired", "refunded"}
    BY <2>1 DEF IInv, Ledger, LedgerFollowsStripe, Terminal
  <2> QED
    BY <2>3, <2>4 DEF Payable
<1>4. o = p
  BY <1>1, <1>2, <1>3 DEF IInv, Ledger, OneOpenOperation, Open
<1> QED
  BY <1>1, <1>4 DEF IInv, Ledger, SessionsAgree

(***************************************************************************)
(* An account never has two Sessions that take its money.                  *)
(***************************************************************************)
THEOREM OnePayableSessionHolds == Spec => []OnePayableSession
  BY OneSessionTakesMoney, Invariance, PTL

(***************************************************************************)
(* Every Session a customer was sent to is bound to its operation.         *)
(***************************************************************************)
THEOREM PaymentsAreTraceableHolds == Spec => []PaymentsAreTraceable
<1>1. IInv => PaymentsAreTraceable
  BY DEF IInv, Ledger
<1> QED
  BY <1>1, Invariance, PTL

(***************************************************************************)
(* The ledger never contradicts Stripe.                                    *)
(***************************************************************************)
THEOREM LedgerFollowsStripeHolds == Spec => []LedgerFollowsStripe
<1>1. IInv => LedgerFollowsStripe
  BY DEF IInv, Ledger
<1> QED
  BY <1>1, Invariance, PTL

(***************************************************************************)
(* A right whose refund was answered is never active again.                *)
(***************************************************************************)
THEOREM AnsweredRefundIsFinalHolds == Spec => []AnsweredRefundIsFinal
<1>1. IInv => AnsweredRefundIsFinal
  BY DEF IInv
<1> QED
  BY <1>1, Invariance, PTL

=============================================================================
