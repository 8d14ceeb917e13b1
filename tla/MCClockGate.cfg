SPECIFICATION MCSpec
CONSTANTS
  Nobody = Nobody
  Owners = {o1, o2, o3, o4}
  Places = {p1, p2, p3, p4}
  Attempts = 2
  Delay = 2
  Wait = 3
  Gap = 1
  Cap = 3
  Checks = 2
  Horizon = 12
  NoProbe = NoProbe
  Intervals = {1, 2}
  CheckEvery = 2
  CheckOptions = {TRUE}
  Late = 1
  Stops = 2
  None = None
INVARIANTS
  Exclusive
  WithinDelay
  OneTimerEach
  DueSurvives
  FileFollows
PROPERTIES
  SpacedRuns
  KeepsTrying
CHECK_DEADLOCK FALSE
