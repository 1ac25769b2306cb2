\* Three requests of a login, typed in two spellings, and of a reading user.
\* One entry fits the fallback, a window is 3 s and the breaker stays open 2 s.
CONSTANTS
  None = None
  Requests = {r1, r2, r3}
  Callers <- MCCallers
  Normal <- MCNormal
  Groups = {"auth", "read"}
  Limit <- MCLimit
  Window <- MCWindow
  Cooldown = 2
  MaxEntries = 1
  Horizon = 3
SPECIFICATION Spec
SYMMETRY SymmetricRequests
INVARIANTS
  TypeOK
  AdmittedWithinBound
  RefusedForACause
  DegradedIsTemporary
CHECK_DEADLOCK FALSE
