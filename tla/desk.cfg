SPECIFICATION Spec
CONSTANTS
  None = None
  Cams = {c1, c2}
  Hooks = {w1, w2}
  Items = {i1}
  Labels = {l1, l2}
  Limit = 1
  MaxAlerts = 3
  MaxTime = 1
INVARIANTS EverySubscriberIsReached WalkIsExact LabelMatchesRow
PROPERTIES OperatorsOwnTheirWebhooks
SYMMETRY MCSymmetry
CONSTRAINT MCOneConcern
CHECK_DEADLOCK FALSE
