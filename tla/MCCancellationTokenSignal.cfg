SPECIFICATION TokenFairSpec
CONSTANTS
  Thread = {main, worker}
  Main = main
  MaxSignals = 1
PROPERTIES SignalCancels
CHECK_DEADLOCK FALSE
