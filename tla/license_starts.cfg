SPECIFICATION Spec
CONSTANTS
  None = None
  Torn = Torn
  Unknown = Unknown
  Procs = {api, pipeline}
  Ids = {i1}
  Parts = {mb}
  Serials = {old, new}
  Quorum = 1
  Terms <- MCTerms
  DayLen = 1
  Threshold = 1
  Backs = {1, 2}
  ToolsFail = FALSE
  MaxTime = 3
INVARIANTS TypeOK RefusedForCause LaterStartIsNoMilder
SYMMETRY Symm
CHECK_DEADLOCK FALSE
