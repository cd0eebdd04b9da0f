SPECIFICATION FairSpec
CONSTANTS
  None = None
  c1 = c1
  k1 = k1
  Cams = {c1, c2}
  Plates = {p1}
  Passes = {v1}
  Rules = {r1, r2}
  Ctrls = {k1}
  RuleForms <- VisitorForms
  Listed = {p1}
  Ops = {"pass", "cancel", "delete_ctrl", "delete_rule"}
  KeySet = FALSE
  RelayFails = TRUE
  DbFails = FALSE
  CanRestart = TRUE
  MaxReads = 2
  MaxManual = 0
  MaxTime = 0
INVARIANTS TypeOK UsedMeansOpened
PROPERTIES EvaluationEnds
CHECK_DEADLOCK FALSE
