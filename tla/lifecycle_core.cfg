SPECIFICATION Spec
CONSTANTS
  Procs = {p1, p2}
  Imeis = {i1, i2}
  Vehicles = {v1, v2}
  Plates = {a1, a2}
  Technicians = {t1}
  None = None
  Ops = {"associate", "uninstall", "removeDevice", "assign", "unassign", "removeItem", "importItem", "removeVehicle", "reconcile"}
  MaxStarts = 5
  MaxOutages = 1
SYMMETRY Symmetry
INVARIANTS TypeOK FieldMatchesStock
PROPERTIES ImplementsCustody
CHECK_DEADLOCK FALSE
