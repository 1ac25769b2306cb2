\* Three refreshes of one session, whose first token may expire, under fair
\* scheduling; two of them may deadlock when both revoke the family.
CONSTANTS
  None = None
  Initial = Initial
  Logins = {l1}
  Refreshes = {f1, f2, f3}
  Resets = {}
  Users = {u1}
  Expiring = {l1}
SPECIFICATION FairSpec
INVARIANTS
  SessionInvariant
  SpentTokenIsRefused
  ReuseIsPunished
  OnlyOverlapSurvivesBurn
PROPERTIES
  ImplementsTokenLedger
  EveryRequestIsAnswered
CHECK_DEADLOCK FALSE
