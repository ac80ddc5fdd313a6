\* One driver and the file watcher; nobody closes the window by hand.
SPECIFICATION FairSpec
CONSTANTS
  Nil = Nil
  Callers <- MCCallers
  Ops <- MCOps
  Drivers = {d1}
  Watchers = {w1}
  Agents = {}
  Drive = {"Open", "OpenBrowser", "Close", "Restart", "Execute"}
  MaxSessions = 2
  AutoStarts = {TRUE, FALSE}
  TestModes = {TRUE, FALSE}
  ChromeMayFail = TRUE
  UserCloses = FALSE
  ExitSignals = FALSE
  QuietStarts = TRUE
INVARIANTS ReadyIsComplete NoStrayWindow
PROPERTIES OpenReturnsEventually PendingReloadEnds
CHECK_DEADLOCK FALSE
