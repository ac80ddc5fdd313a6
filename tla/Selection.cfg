\* Two gestures and one tool call at a time over two documents; a history of two.
SPECIFICATION FairSpec
CONSTANTS
  Nil = Nil
  Tool = Tool
  button = button
  icon = icon
  link = link
  Elements <- MCElements
  Owner <- MCOwner
  Selectable = {icon, link}
  HistoryCap = 2
  MaxGestures = 2
  MaxDocuments = 2
  MaxCalls = 1
INVARIANTS TypeOK HistoryIsRecent CaptureKeepsTarget
PROPERTIES QueueDrains
CHECK_DEADLOCK FALSE
