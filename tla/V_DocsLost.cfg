SPECIFICATION Spec
CONSTANTS
  Task <- MC_Ids
  Rank <- MC_IdRank
  Designs <- MC_Designs
  ApiDesigns <- MC_Designs
  Proposals = {}
  Repo <- MC_NoFiles
  MaxAttempts = 2
  MaxRepair = 1
  Requests <- MC_Undisturbed
  Broken <- MC_Broken
  Unsafe <- MC_Unsafe
  Failing <- MC_Failing
  Idle <- MC_Idle
  IdlePasses = TRUE
  Cuts <- MC_Cuts
PROPERTIES
  NothingIsLost
