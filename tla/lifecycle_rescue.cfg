SPECIFICATION FairSpec
CONSTANTS
  Procs = {p1}
  Imeis = {i1, i2}
  Vehicles = {v1, v2}
  Plates = {a1, a2}
  Technicians = {t1}
  None = None
  Ops = {"associate", "uninstall", "reconcile", "removeVehicle"}
  MaxStarts = 4
  MaxOutages = 2
PROPERTIES NewInstallGetsAnId
CHECK_DEADLOCK FALSE
