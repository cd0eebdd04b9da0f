SPECIFICATION Spec
CONSTANTS
  None = None
  c1 = c1
  k1 = k1
  Cams = {c1}
  Plates = {p1}
  Passes = {v1}
  Rules = {r1, r2}
  Ctrls = {k1}
  RuleForms <- LaneForms
  Listed = {p1}
  Ops = {"pass", "patch_ctrl", "patch_rule"}
  KeySet = FALSE
  RelayFails = TRUE
  DbFails = TRUE
  CanRestart = FALSE
  MaxReads = 2
  MaxManual = 1
  MaxTime = 1
INVARIANTS RulesAreServed
PROPERTIES SingleUseOnce
SYMMETRY RuleSymm
CHECK_DEADLOCK FALSE
