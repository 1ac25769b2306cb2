\* A password reset while a user with two sessions refreshes them.
CONSTANTS
  None = None
  Initial = Initial
  Logins = {l1, l2}
  Refreshes = {f1, f2}
  Resets = {r1}
  Users = {u1}
  Expiring = {}
SYMMETRY SymmetricSessions
SPECIFICATION Spec
INVARIANTS
  RevocationHasACause
  OldPasswordIsRefused
  OnlyOverlapSurvivesReset
CHECK_DEADLOCK FALSE
