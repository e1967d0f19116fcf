SPECIFICATION MCSpec
CONSTANTS
  Lease = {l1, l2}
  Proc = {p1, p2}
  MaxAttempts = 1
  MaxCalls = 3
  MaxFaults = 2
  MaxRecoveries = 1
  MaxClock = 1
SYMMETRY Symmetry
CHECK_DEADLOCK FALSE
INVARIANTS ConfirmedMeansGone OneMachineAtMost DeleteBudget LeftoversNeedAFault
