\* Two refreshes with one token at the same time.
CONSTANTS
  None = None
  Initial = Initial
  Logins = {l1}
  Refreshes = {f1, f2}
  Resets = {}
  Users = {u1}
  Expiring = {}
SPECIFICATION Spec
INVARIANT
  ExchangedOnce
CHECK_DEADLOCK FALSE
