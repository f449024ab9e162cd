SPECIFICATION Spec
CONSTANTS
  Procs = {p1}
  Imeis = {i1, i2}
  Vehicles = {v1, v2}
  Plates = {a1, a2}
  Technicians = {t1}
  None = None
  Ops = {"associate", "uninstall", "removeDevice", "removeItem", "importItem", "removeVehicle", "createVehicle", "createDevice", "linkVehicle", "unlinkVehicle"}
  MaxStarts = 6
  MaxOutages = 0
SYMMETRY Symmetry
INVARIANTS SettledIsPlotted
CHECK_DEADLOCK FALSE
