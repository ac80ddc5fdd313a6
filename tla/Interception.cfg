\* One agent starts and stops the capture of three requests; the browser may restart once.
SPECIFICATION FairSpec
CONSTANTS
  Requests = {r1, r2, r3}
  Agents = {a1}
  BufferCap = 2
  MaxCalls = 4
  MaxRestarts = 1
INVARIANTS TypeOK PausedHasReleaser
PROPERTIES PausedEnds
CHECK_DEADLOCK FALSE
