SPECIFICATION WorkspaceSpec
CONSTANTS
  Proc = {p1, p2}
  ClockTimes <- MCOneTime
SYMMETRY Symmetry
CHECK_DEADLOCK FALSE
INVARIANTS CrashReadable
