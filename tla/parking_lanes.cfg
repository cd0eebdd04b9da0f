SPECIFICATION Spec
CONSTANTS
  NoTariff = NoTariff
  None = None
  Charge <- MCCharge
  EntryCams = {e1, e2}
  ExitCams = {x1}
  Plates = {p1, p2}
  Sids = {s1, s2}
  Tariffs = {}
  DeskOps = {"close", "waive"}
  CanCrash = TRUE
  CallsFail = TRUE
  MaxTime = 1
  KeyTTL = 1
INVARIANTS KeyNamesOwnSession
PROPERTIES DecisionsStand ExitEndsClosed
SYMMETRY Symm
CHECK_DEADLOCK FALSE
