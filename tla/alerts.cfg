SPECIFICATION Spec
CONSTANTS
  Trackers = {v1}
  Rounds = {r1, r2}
  Threshold = 2
  Window = 2
  MaxTime = 7
  MaxFailures = 1
  Readings = {p1, p2}
  Operators = {o1, o2}
  Alerts = {a1, a2}
  MaxRefusals = 1
SYMMETRY Symmetry
INVARIANTS AlertTypesOK FlagMeansTold
PROPERTIES AlertsStayApart SilentIsTold NoSecondAlarm
CHECK_DEADLOCK FALSE
