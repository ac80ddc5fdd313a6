\* A daemon with a persistent profile and one with temporary profiles only.
SPECIFICATION Spec
CONSTANTS
  Daemons = {d1, d2}
  Persistent = {d1}
  Profile = profile
  Grace = 1
  MaxChromes = 3
  Nil = nil
INVARIANTS
  TypeOK
  OneChromePerProfile
  LoginsKept
PROPERTIES
  SweepSparesLive
  NoRestoreBubble
CHECK_DEADLOCK FALSE
