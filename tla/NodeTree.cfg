\* Two loads and two changes of a page whose events the handler takes in turn.
SPECIFICATION FairSpec
CONSTANTS
  Elements = {a, t, s}
  Shadow = {s}
  Target = t
  Doc = doc
  Attach = TRUE
  Quiet = TRUE
  MaxLoads = 2
  MaxMutations = 2
INVARIANTS TypeOK MirrorAgrees
PROPERTY QueryFinishes
CHECK_DEADLOCK FALSE
