SPECIFICATION ManagerSpec
CONSTANTS
  NoTask = NoTask
  r1 = r1
  r2 = r2
  Repeaters = {r1}
  Managed <- OneRepeater
  CheckCalls = {c1, c2}
  SyncCalls = {}
  FleetChecks = {}
  FleetSyncs = {}
  Keyed = {r1}
  LoginAttempts = 2
  ClockAttempts = 2
INVARIANT
  SingleFlight
CHECK_DEADLOCK FALSE
