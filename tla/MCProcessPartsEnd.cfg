SPECIFICATION PartsSpec
CONSTANTS
  Parts = {"token", "plan", "run", "child"}
  Thread = {main, worker, helper}
  Main = main
  MaxSignals = 2
  Leader = leader
  Descendant = {d1}
  Findable = {}
  Executor = {e1, e2}
  N = 4
  Baseline <- MCBaseline
  Times <- MCTimes
  ByHand = {}
  MaxFaults = 2
  Proc = {p1, p2}
  ClockTimes <- MCOneTime
CHECK_DEADLOCK FALSE
INVARIANTS FirstWriterWins ProgressIsTrue CompleteIsVerified ServerIsStopped CancelledIsInterrupted TerminationIsTrue NoAbandonedChild
PROPERTIES CancellationSpreads ImplementsRegister PlanComesToAnEnd RunComesToAnEnd ChildCallReturns
