-------------------------- MODULE MCExtensionSession --------------------------
(* Two accounts on one browser, two operations of the session at a time.     *)
EXTENDS ExtensionSession, TLC

MCSymmetry == Permutations(Accounts) \union Permutations(Tasks)

=============================================================================
