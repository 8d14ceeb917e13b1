SPECIFICATION MCSpec
CONSTANTS
  Installs = {i1, i2}
  Newest = 3
  Limit = 2
  Coordinators = 2
  Worlds <- SmallWorlds
  Order <- SmallOrder
  Published = 2
  None = None
  Broken = Broken
INVARIANTS
  Restorable
  WholeWhenSettled
  LaterCanBeInstalled
PROPERTIES
  RollsBack
  OffersGoForward
  InstallsEnd
CHECK_DEADLOCK FALSE
