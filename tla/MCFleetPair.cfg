SPECIFICATION SysSpec
CONSTANTS
  NoTask = NoTask
  r1 = r1
  r2 = r2
  Repeaters = {r1, r2}
  Managed <- TwoRepeaters
  CheckCalls = {}
  SyncCalls = {}
  FleetChecks = {f1}
  FleetSyncs = {g1}
  Keyed = {r1, r2}
  LoginAttempts = 1
  ClockAttempts = 1
  Rotating = FALSE
PROPERTY
  StopsBeforeNextRepeater
CHECK_DEADLOCK FALSE
