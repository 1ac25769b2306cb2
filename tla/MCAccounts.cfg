\* A registration and seed_admin for one email in two spellings, two resets, a
\* login and a request with an access token; the registration may fail.
\* POST /users makes accounts as seed_admin does, but for the role.
CONSTANTS
  None = None
  Registers = {g1}
  Creates = {}
  Seeds = {d1}
  Logins = {l1}
  Resets = {s1, s2}
  Uses = {u1}
  Unreliable = {g1}
  Emails = {ann, Ann}
  Lower <- MCLower
  LastTick = 4
SPECIFICATION Spec
SYMMETRY SymmetricAccounts
INVARIANTS
  TypeOK
  RepliesAreTrue
  RightPasswordLogsIn
  AccessEndsWithReset
  NewSessionsAreAccepted
CHECK_DEADLOCK FALSE
