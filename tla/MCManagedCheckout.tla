------------------------- MODULE MCManagedCheckout -------------------------
(* ManagedCheckout for one account that can make two purchases.            *)
EXTENDS ManagedCheckout, TLC

CONSTANTS alice, o1, o2, r1, r2

MCSessions == 1..2
MCSymmetry == Permutations({o1, o2}) \union Permutations({r1, r2})
=============================================================================
