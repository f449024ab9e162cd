SPECIFICATION FairSpec
CONSTANTS
  Cars = {c1, c2}
  Routes = {r1}
  MaxSgaChanges = 1
  MaxInstalls = 2
  MaxFaults = 1
INVARIANTS InstalledLeavesQueue InstalledIsNotVisited LastStopClosesRoute
PROPERTIES FinishedStays DeadStopEnds
