SPECIFICATION FairSpec
CONSTANTS
  NoTariff = NoTariff
  None = None
  Charge <- MCCharge
  EntryCams = {e1}
  ExitCams = {x1}
  Plates = {p1}
  Sids = {s1, s2}
  Tariffs <- MCTariffs
  DeskOps = {"paid"}
  CanCrash = FALSE
  CallsFail = FALSE
  MaxTime = 2
  KeyTTL = 5
INVARIANTS TypeOK OneReachableStay BillsAreRight
PROPERTIES ExitReadNotLost ImplementsLedger ExitClosesSession
CHECK_DEADLOCK FALSE
