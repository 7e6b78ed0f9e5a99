--------------------------- MODULE MCAccessRights ---------------------------
(* Two accounts, one web purchase, one Apple purchase, two link operations.  *)
EXTENDS AccessRights, TLC

CONSTANTS alice, bob, web, apple, op1, op2, look1, look2

MCHolders == {alice, bob}
MCPurchases == {web}
MCAppleRights == {apple}
MCOperations == {op1, op2}
MCLookups == {look1, look2}
MCSymmetry ==
    Permutations(MCHolders) \union Permutations(MCOperations) \union Permutations(MCLookups)
=============================================================================
