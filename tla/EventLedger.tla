----------------------------- MODULE EventLedger -----------------------------
(***************************************************************************)
(* What a receiver of notifications promises their sender: it may apply a  *)
(* notification any number of times and in any order, it never forgets one *)
(* it applied, and it acknowledges only what has taken effect.             *)
(***************************************************************************)
CONSTANT Events

VARIABLES
    emitted,    \* notifications the sender made
    applied,    \* those whose effect has reached the receiver's state
    acked       \* those the sender will not send again

ledgerVars == <<emitted, applied, acked>>

LedgerInit == emitted = {} /\ applied = {} /\ acked = {}

\* A notification with nobody left to apply it to has no effect to wait for.
EmitEvent(e) ==
    /\ e \notin emitted
    /\ emitted' = emitted \union {e}
    /\ applied' \in {applied, applied \union {e}}
    /\ UNCHANGED acked

ApplyEvents(more) ==
    /\ applied' = applied \union more
    /\ UNCHANGED <<emitted, acked>>

AcknowledgeEvent(e) ==
    /\ e \in applied
    /\ acked' = acked \union {e}
    /\ UNCHANGED <<emitted, applied>>

LedgerNext ==
    \/ \E e \in Events : EmitEvent(e) \/ AcknowledgeEvent(e)
    \/ \E more \in SUBSET emitted : ApplyEvents(more)

LedgerSpec == LedgerInit /\ [][LedgerNext]_ledgerVars
=============================================================================
