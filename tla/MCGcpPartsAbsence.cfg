SPECIFICATION PartsSpec
CONSTANTS
  Parts = {"rescue"}
  Runner = {r1}
  Caller = {controller, operator}
  Controller = controller
  MaxAttempts = 1
  MaxResumes = 0
  Lease = 1
  RuntimeDeadline = 1
  CleanupDeadline = 3
  Lag = 0
  MaxClock = 3
  MaxFaults = 1
  Creator = creator
  Watchdog = watchdog
  Successor = {successor}
  Rescuer = {rescuer}
  MaxMishaps = 0
CHECK_DEADLOCK FALSE
INVARIANT AbsenceIsNoProof
