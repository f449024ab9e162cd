SPECIFICATION Spec
CONSTANTS
  Procs = {p1}
  Imeis = {i1}
  Vehicles = {v1, v2}
  Plates = {a1, a2}
  Technicians = {t1}
  None = None
  Ops = {"associate", "uninstall", "unlinkVehicle"}
  MaxStarts = 4
  MaxOutages = 0
PROPERTIES CarKeepsItsRecord
CHECK_DEADLOCK FALSE
