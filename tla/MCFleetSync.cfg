SPECIFICATION SysSpec
CONSTANTS
  NoTask = NoTask
  r1 = r1
  r2 = r2
  Repeaters = {r1, r2}
  Managed <- TwoRepeaters
  CheckCalls = {}
  SyncCalls = {s1}
  FleetChecks = {}
  FleetSyncs = {g1}
  Keyed = {r1, r2}
  LoginAttempts = 1
  ClockAttempts = 1
  Rotating = FALSE
PROPERTIES
  ImplementsGate
  FleetRunsEnd
CHECK_DEADLOCK FALSE
