--------------------------- MODULE MCPasswordReset ---------------------------
(***************************************************************************)
(* Instances of PasswordReset for TLC.                                     *)
(***************************************************************************)
EXTENDS PasswordResetProperties

SymmetricResets ==
  Permutations(Forgots) \union Permutations(Verifies) \union Permutations(Resets)
=============================================================================
