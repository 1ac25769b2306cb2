--------------------------- MODULE MCTokenSessions ---------------------------
(***************************************************************************)
(* Instances of TokenSessions for TLC.                                     *)
(***************************************************************************)
EXTENDS TokenSessionsProperties

SymmetricSessions == Permutations(Refreshes) \union Permutations(Logins)
=============================================================================
