\* From the code to the new password, with failing commands.
CONSTANTS
  None = None
  Dummy = Dummy
  Blank = Blank
  Emails = {e1}
  Registered = {e1}
  Forgots = {g1, g2}
  Verifies = {v1, v2}
  Resets = {s1, s2}
  Unreliable = {g1, g2, v1, v2}
  MaxSends = 1
  MaxAttempts = 2
SPECIFICATION Spec
SYMMETRY SymmetricResets
INVARIANTS
  OldCodeIsRefused
  OnlyFailureFreezesCounter
  OldResetTokenIsRefused
CHECK_DEADLOCK FALSE
