SPECIFICATION Spec
CONSTANTS
  Procs = {p1}
  Imeis = {i1}
  Vehicles = {v1, v2}
  Plates = {a1, a2}
  Technicians = {t1}
  None = None
  Ops = {"associate", "uninstall", "removeDevice"}
  MaxStarts = 3
  MaxOutages = 0
INVARIANTS InstalledIsRetrievable
CHECK_DEADLOCK FALSE
