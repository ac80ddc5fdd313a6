\* Callers in turn, two navigations, each of a page that is still loading and whose frame loads.
SPECIFICATION FairSpec
CONSTANTS
  Callers = {c1}
  Overlap = FALSE
  Kinds = {"frame"}
  MaxNavs = 2
  MaxLag = 1
INVARIANTS TypeOK NavigateWaits LogsOfPage
PROPERTIES NavigateReturns
CHECK_DEADLOCK FALSE
