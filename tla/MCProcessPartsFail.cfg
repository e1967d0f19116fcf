SPECIFICATION PartsSpec
CONSTANTS
  Parts = {"deployment", "plan", "workspace"}
  Thread = {main}
  Main = main
  MaxSignals = 0
  Leader = leader
  Descendant = {}
  Findable <- MCFindable
  Executor = {e1, e2}
  N = 3
  Baseline = {1, 3}
  Times <- MCShortTimes
  ByHand = {"runs", "trial sets", "results"}
  MaxFaults = 1
  Proc = {p1, p2}
  ClockTimes <- MCOneTime
CHECK_DEADLOCK FALSE
INVARIANTS LiveIsReported AttemptedIsReleased OutcomeMatchesTrace SlotsRunInOrder ReportIsEarned JournalSound ReadIsCurrent
PROPERTIES NoRetry CutShortIsFinal WorkspaceIsRegister WorkspaceCallsReturn
