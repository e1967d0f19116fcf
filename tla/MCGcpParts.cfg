SPECIFICATION PartsSpec
CONSTANTS
  Parts = {"supervisor", "restart", "rescue"}
  Runner = {r1}
  Caller = {controller, operator}
  Controller = controller
  MaxAttempts = 1
  MaxResumes = 0
  Lease = 1
  RuntimeDeadline = 1
  CleanupDeadline = 2
  Lag = 0
  MaxClock = 2
  MaxFaults = 1
  Creator = creator
  Watchdog = watchdog
  Successor = {successor}
  Rescuer = {rescuer}
  MaxMishaps = 1
CHECK_DEADLOCK FALSE
INVARIANTS NobodyWritesOff WorkIsCovered CampaignConfirmedIsGone
PROPERTIES CreationIsRecorded JournalsConverge ImplementsTask NothingInsertedAfterCleanup CleanersComeToAnEnd
