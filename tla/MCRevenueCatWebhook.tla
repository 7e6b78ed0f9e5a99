------------------------ MODULE MCRevenueCatWebhook ------------------------
(* A purchase of one user, then a transfer from that user to another one.    *)
EXTENDS RevenueCatWebhook, TLC

CONSTANTS u1, u2, bought, moved, w1, w2

MCUsers == {u1, u2}
MCEvents == {bought, moved}
MCAffected == (bought :> {u1}) @@ (moved :> {u1, u2})
MCTransfer == {moved}
MCTransferAffected == (moved :> {u1, u2})
MCWorkers == {w1, w2}
MCLeavers == {u2}
MCSignIns == {u1}
=============================================================================
