SPECIFICATION Spec
CONSTANTS
  None = None
  Events = {e1, e2}
  Workers = {w1, w2}
  MonthLen = 2
  Ahead = 1
  Behind = 1
  DefaultRetain = 2
  Retains = {1}
  SnapRetain = 1
  FirstDay = 1
  MaxDay = 4
  Reported = {1}
  MaxJobs = 2
INVARIANTS RowsStayWhole ReportsAreRight RangesAddUp
SYMMETRY MCSymmetry
CHECK_DEADLOCK FALSE
