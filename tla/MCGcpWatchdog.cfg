SPECIFICATION TaskSpec
CONSTANTS
  Runner = {r1, r2}
  Caller = {c1}
  MaxAttempts = 2
  MaxResumes = 1
  Lease = 1
  RuntimeDeadline = 1
  CleanupDeadline = 3
  Lag = 1
  MaxClock = 4
  MaxFaults = 1
CHECK_DEADLOCK FALSE
INVARIANTS TaskTypeOK ClaimsDoNotOverlap ConfirmedIsGone
PROPERTIES SettledStays TaskSettles
