SPECIFICATION FairSpec
CONSTANTS
  None = None
  Cams = {c1}
  Texts = {t1}
  Lists = {w1}
  Vehicle <- Exact
  Confs = {3, 5, 8}
  Floor = 4
  Threshold = 7
  ExitGap = 1
  MinReads = 2
  Window = 2
  Uptime = 2
  MaxTime = 5
  MaxSeen = 4
  MaxFails = 2
  MaxBoots = 1
  Edits = TRUE
INVARIANTS TypeOK NoReadCountsTwice EventsAreSpaced AlertsAreStored
PROPERTIES NoPassLostOnStop TracksEnd
CHECK_DEADLOCK FALSE
