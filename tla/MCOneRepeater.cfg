SPECIFICATION ManagerSpec
CONSTANTS
  NoTask = NoTask
  r1 = r1
  r2 = r2
  Repeaters = {r1}
  Managed <- OneRepeater
  CheckCalls = {c1}
  SyncCalls = {s1, s2}
  FleetChecks = {}
  FleetSyncs = {}
  Keyed = {r1}
  LoginAttempts = 1
  ClockAttempts = 1
SYMMETRY Symmetry
INVARIANTS
  ManagerTypeOK
  NoLeakedRegistration
  SyncHoldsItsRepeater
  SuccessIsVerified
CHECK_DEADLOCK FALSE
