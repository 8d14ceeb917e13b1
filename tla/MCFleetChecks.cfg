SPECIFICATION SysSpec
CONSTANTS
  NoTask = NoTask
  r1 = r1
  r2 = r2
  Repeaters = {r1, r2}
  Managed <- TwoRepeaters
  CheckCalls = {}
  SyncCalls = {s1}
  FleetChecks = {f1, f2}
  FleetSyncs = {}
  Keyed = {r1}
  LoginAttempts = 1
  ClockAttempts = 1
  Rotating = TRUE
INVARIANTS
  FullRunCoversFleet
  GatesFollowRuns
PROPERTY
  FleetRunsEnd
CHECK_DEADLOCK FALSE
