SPECIFICATION Spec
CONSTANTS
  Procs = {p1}
  Imeis = {i1, i2}
  Vehicles = {v1, v2}
  Plates = {a1, a2}
  Technicians = {t1, t2}
  None = None
  Ops = {"associate", "uninstall", "removeDevice", "assign", "unassign", "removeItem", "importItem", "removeVehicle"}
  MaxStarts = 8
  MaxOutages = 1
SYMMETRY Symmetry
INVARIANTS PlottedWhereInstalled ReservedOnShelf
PROPERTIES CarKeepsItsRecord
CHECK_DEADLOCK FALSE
