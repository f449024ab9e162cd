SPECIFICATION PanelSpec
CONSTANTS
  Trackers = {d1}
  Owners = {o1, o2}
  Slots = {q1, q2}
  Kinds = {"install", "retire", "transfer"}
  MaxChanges = 4
  MaxQueryFailures = 1
  MaxRestarts = 1
  Nobody = Nobody
  MaxTableChanges = 2
  MaxLoads = 3
  MaxFaults = 1
  MaxHides = 1
  ReloadsOnReconnect = TRUE
  Keys = {k1, k2}
  Readers = {r1, r2}
  Builds = {b1, b2}
  MaxEntries = 1
  MaxWrites = 1
  MaxReads = 3
  MaxFailures = 3
  None = None
  MaxSaid = 2
  MaxMishaps = 1
INVARIANTS PanelTypesOK ToldIsComing SettledListIsCurrent AnswerIsNotStale SettledPanelIsNewest
PROPERTIES MemoriesConverge EveryRequestEnds
CHECK_DEADLOCK FALSE
