----------------------------- MODULE FieldOrder -----------------------------
(***************************************************************************)
(* The order of one settings field: packages/core/src/sync/field-order.ts. *)
(* Every switch of Still is a field with a value and a stamp.  The stamp   *)
(* is the server revision its author had acknowledged (`base`) and a local *)
(* step counter (`step`).  Clients and the settings server use the same    *)
(* functions, so this module is shared by every other one.                 *)
(***************************************************************************)
EXTENDS Integers

CONSTANT MaxStep    \* MAX_SETTINGS_LOCAL_STEP, the last step one base allows

ASSUME MaxStepAssumption == MaxStep \in Nat \ {0}

OrderedField == [value : BOOLEAN, base : Nat, step : 0..MaxStep]

SameOrder(left, right) ==
    /\ left.base = right.base
    /\ left.step = right.step

\* The lexicographic order of stamps, revision first.  No clock takes part.
Outranks(left, right) ==
    \/ left.base > right.base
    \/ left.base = right.base /\ left.step > right.step

\* Seeded fault: an exact tie chooses the version that arrives.
MergeArrivalOnTie(left, right) ==
    IF SameOrder(left, right) \/ Outranks(right, left) THEN right ELSE left

\* The winner of two versions of one field.  An exact tie chooses Off.
Merge(left, right) ==
    IF SameOrder(left, right)
      THEN IF left.value THEN right ELSE left
      ELSE IF Outranks(left, right) THEN left ELSE right

\* A deliberate choice `v` over `prior`, made by a device that acknowledged
\* revision `ack`.  Only "edited" allocates a stamp; "hold" and "recovery"
\* leave the field as it was.
EditStatus(prior, ack, v) ==
    IF v = prior.value THEN "unchanged"
    ELSE IF ack < prior.base THEN "recovery"
    ELSE IF ack = prior.base /\ prior.step = MaxStep THEN "hold"
    ELSE "edited"

Edited(prior, ack, v) ==
    [value |-> v, base |-> ack,
     step  |-> IF ack > prior.base THEN 1 ELSE prior.step + 1]

\* Seeded fault: an echo of the account's own field counts as unsent.
SurvivesAckEcho(pending, canonical) == Merge(pending, canonical) = pending

\* Does `pending` survive the acknowledgement of `canonical`?  It does when it
\* wins the merge and is not merely an echo of what the account already holds.
SurvivesAck(pending, canonical) ==
    /\ Merge(pending, canonical) = pending
    /\ pending # canonical

(***************************************************************************)
(* The order of the merge: `left` is absorbed by `right`.                  *)
(***************************************************************************)
Absorbed(left, right) == Merge(left, right) = right
=============================================================================
