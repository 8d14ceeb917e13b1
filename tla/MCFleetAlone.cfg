SPECIFICATION SysSpec
CONSTANTS
  NoTask = NoTask
  r1 = r1
  r2 = r2
  Repeaters = {r1}
  Managed <- OneRepeater
  CheckCalls = {}
  SyncCalls = {s1}
  FleetChecks = {}
  FleetSyncs = {g1}
  Keyed = {r1}
  LoginAttempts = 2
  ClockAttempts = 2
  Rotating = FALSE
INVARIANT
  FleetRunsAlone
CHECK_DEADLOCK FALSE
