------------------------ MODULE MCSafariProjection ------------------------
(* One install of the app after another on one phone.                        *)
EXTENDS SafariProjection

\* A 2.x record with a switch turned Off
OffIn2x == {[atomic |-> FALSE, gen |-> 0, order |-> 1, on |-> FALSE]}

\* In the last install early stays as it is set, and both properties of the run then
\* promise nothing: such states need no successors.
EarlyEndsIt == ~(early /\ install = MaxInstalls)

=============================================================================
