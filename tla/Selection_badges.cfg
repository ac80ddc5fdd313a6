\* The instance of Selection.cfg without the tool.
SPECIFICATION Spec
CONSTANTS
  Nil = Nil
  Tool = Tool
  button = button
  icon = icon
  link = link
  Elements <- MCElements
  Owner <- MCOwner
  Selectable = {icon, link}
  HistoryCap = 2
  MaxGestures = 2
  MaxDocuments = 2
  MaxCalls = 0
INVARIANTS BadgeNumbersUnique
CHECK_DEADLOCK FALSE
