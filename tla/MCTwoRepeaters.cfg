SPECIFICATION ManagerSpec
CONSTANTS
  NoTask = NoTask
  r1 = r1
  r2 = r2
  Repeaters = {r1, r2}
  Managed <- TwoRepeaters
  CheckCalls = {c1}
  SyncCalls = {s1}
  FleetChecks = {}
  FleetSyncs = {}
  Keyed = {r1, r2}
  LoginAttempts = 2
  ClockAttempts = 2
PROPERTY
  CallsReturn
CHECK_DEADLOCK FALSE
