SPECIFICATION MCSpec
CONSTANTS
  NoOne = NoOne
  r1 = r1
  r2 = r2
  CalmCompanions <- ManyCompanions
  CalmOffsets <- ManyOffsets
  CalmStamps <- ManyStamps
  CalmEstimates <- ManyEstimates
  Repeaters = {r1, r2}
  Access <- Administrators
  SavedAdmin = {r1, r2}
  Advert <- OldAdverts
  Companions <- SharedCompanions
  Offsets <- OneOffset
  Stamps <- NoStamps
  Estimates <- OneEstimate
  Firmware13 = TRUE
  Lossy = TRUE
  LateReplies = FALSE
  Cancels = TRUE
  SlowBoots = TRUE
  MaxRestarts = 0
  MaxSyncs = 1
INVARIANTS
  SafeSource
  SuccessMeansSet
  CalmSyncSucceeds
PROPERTIES
  WritesSafeTime
  SyncsEnd
CHECK_DEADLOCK FALSE
