SPECIFICATION Spec
CONSTANTS
  Procs = {p1}
  Imeis = {i1}
  Vehicles = {v1, v2}
  Plates = {a1, a2}
  Technicians = {t1}
  None = None
  Ops = {"associate", "uninstall", "reconcile"}
  MaxStarts = 3
  MaxOutages = 1
INVARIANTS PlottedWhereInstalled
CHECK_DEADLOCK FALSE
