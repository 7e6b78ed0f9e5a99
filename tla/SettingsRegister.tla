-------------------------- MODULE SettingsRegister --------------------------
(***************************************************************************)
(* What an account's settings promise, without rows, receipts or logs: a   *)
(* register per field.  Until the first per-field write a whole document   *)
(* may replace all of them.  From then on the register is sealed and the   *)
(* only step merges ranked operations, so no field ever loses rank and no  *)
(* delivery, early, late or repeated, can take an accepted choice back.    *)
(***************************************************************************)
EXTENDS FieldOrder

CONSTANT Fields

VARIABLES reg, sealed

Doc == [Fields -> OrderedField]

Init == reg \in Doc /\ sealed = FALSE

Replace ==
    /\ ~sealed
    /\ reg' \in Doc
    /\ \A f \in Fields : reg'[f].step = 0
    /\ UNCHANGED sealed

Join ==
    /\ reg' \in Doc
    /\ \A f \in Fields : Absorbed(reg[f], reg'[f])
    /\ reg' # reg
    /\ sealed' = TRUE

Next == Replace \/ Join

Spec == Init /\ [][Next]_<<reg, sealed>>
=============================================================================
