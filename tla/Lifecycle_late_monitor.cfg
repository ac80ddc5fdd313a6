\* A driver opens and restarts the browser; monitors run as late as they like.
SPECIFICATION Spec
CONSTANTS
  Nil = Nil
  Callers <- MCCallers
  Ops <- MCOps
  Drivers = {d1}
  Watchers = {}
  Agents = {}
  Drive = {"Open", "Restart"}
  MaxSessions = 2
  AutoStarts = {TRUE, FALSE}
  TestModes = {FALSE}
  ChromeMayFail = FALSE
  UserCloses = FALSE
  ExitSignals = FALSE
  QuietStarts = FALSE
PROPERTIES MonitorClosesItsOwn
CHECK_DEADLOCK FALSE
