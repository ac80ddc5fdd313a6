\* Two goroutines that open the browser and serve tools; the user closes windows, the application exits, monitors run late.
SPECIFICATION Spec
CONSTANTS
  Nil = Nil
  Callers <- MCCallers
  Ops <- MCOps
  Drivers = {d1, d2}
  Watchers = {}
  Agents = {}
  Drive = {"Open", "Tool"}
  MaxSessions = 2
  AutoStarts = {TRUE}
  TestModes = {FALSE}
  ChromeMayFail = FALSE
  UserCloses = TRUE
  ExitSignals = TRUE
  QuietStarts = FALSE
SYMMETRY DriverSymmetry
INVARIANTS TypeOK CloseIsExclusive OneAnswerPerOpen OneAllocation
CHECK_DEADLOCK FALSE
