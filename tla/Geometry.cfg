\* Two positions and two sizes; any number of moves, changes, polls and starts.
SPECIFICATION GeometryFairSpec
CONSTANTS
  Origin = p0
  Positions = {p0, p1}
  Sizes = {small, large}
  DefaultSize = small
  MonitorSize = large
  Nil = Nil
INVARIANTS FieldsAreStored
PROPERTIES ReopensAsLeft
CHECK_DEADLOCK FALSE
