SPECIFICATION FairSpec
CONSTANTS
  Codes = {1, 2}
  Situations = 2
  Lote = 1
  Bikes = {1}
  MaxMoves = 2
  MaxMirrorFaults = 1
  Points = {x1, x2}
  Screens = {s1}
  Batches = {h1}
  Worker = Worker
  NoPoint = NoPoint
  Interval = 2
  Penalty = 2
  QueueMax = 1
  OwnGeocoder = TRUE
  MaxAsks = 2
  MaxRefusals = 2
INVARIANTS OutsideTypesOK
PROPERTIES SweepSparesTheListed UndisturbedScanIsExact MirrorComesRight NominatimIsSpared QueueIsServed
CHECK_DEADLOCK FALSE
