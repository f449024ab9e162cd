--------------------------- MODULE MCTrackerLifecycle ---------------------------
(* TrackerLifecycle on a small fleet.                                        *)
EXTENDS TrackerLifecycle, TLC

Symmetry ==
  Permutations(Imeis) \cup Permutations(Vehicles) \cup Permutations(Plates)
    \cup Permutations(Technicians) \cup Permutations(Procs)

================================================================================
