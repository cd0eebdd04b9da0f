SPECIFICATION Spec
CONSTANTS
  EntryCams = {e1, e2}
  ExitCams = {x1}
  Plates = {p1}
  Sids = {s1, s2}
  Tariffs = {}
  NoTariff = NoTariff
  None = None
  Charge <- MCCharge
  DeskOps = {}
  CanCrash = FALSE
  CallsFail = FALSE
  MaxTime = 2
  KeyTTL = 5
INVARIANTS AtMostOneOpenStay
SYMMETRY Symm
CHECK_DEADLOCK FALSE
