\* Two requests for a code and three verifications, for an address with an
\* account and one without.
CONSTANTS
  None = None
  Dummy = Dummy
  Blank = Blank
  Emails = {e1, e2}
  Registered = {e1}
  Forgots = {g1, g2}
  Verifies = {v1, v2, v3}
  Resets = {}
  Unreliable = {}
  MaxSends = 1
  MaxAttempts = 2
SPECIFICATION Spec
SYMMETRY SymmetricResets
INVARIANTS
  TypeOK
  WrongGuessesKillCode
  RightCodeWorks
  LockoutUnblocks
CHECK_DEADLOCK FALSE
