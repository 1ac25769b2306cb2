----------------------------- MODULE MCAccounts -----------------------------
(***************************************************************************)
(* Instances of Accounts for TLC: one email in two spellings.              *)
(***************************************************************************)
EXTENDS AccountsProperties

MCLower == [e \in Emails |-> "ann"]

SymmetricAccounts ==
  Permutations(Emails) \union Permutations(Logins) \union Permutations(Resets)
=============================================================================
