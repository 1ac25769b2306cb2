\* Two resets with one token.
CONSTANTS
  None = None
  Dummy = Dummy
  Blank = Blank
  Emails = {e1}
  Registered = {e1}
  Forgots = {g1}
  Verifies = {v1}
  Resets = {s1, s2}
  Unreliable = {}
  MaxSends = 1
  MaxAttempts = 2
SPECIFICATION Spec
INVARIANTS
  TokenUsedOnce
CHECK_DEADLOCK FALSE
