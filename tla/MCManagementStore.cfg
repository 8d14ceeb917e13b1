SPECIFICATION MCSpec
CONSTANTS
  Repeaters = {r1, r2}
  Requests = {q1, q2, q3}
  Stores = {s1, s2}
  Changes = 3
  None = None
  Ids = {n1, n2}
  Most = 2
  Selections = 2
  Moves = 1
  Reloads = 2
  Faults = 1
  Readings = {38, 46}
  Inputs <- SmallInputs
  Default <- Defaults
  MinAge = 1
  MaxAge = 10
  Poll = 3
  Cooldown = 1
  Asks = 1
  MaxTime = 6
  Down = Down
INVARIANTS
  SavedIsInFile
  FileCatchesUp
  ShownInTime
  ShownIsRight
  RunsSelection
  DeselectionCleans
PROPERTIES
  AgeingOnlyWorsens
  IdentityStays
  ReloadsEnd
CHECK_DEADLOCK FALSE
