SPECIFICATION Spec
CONSTANTS
  Task <- BuiltInTask
  Rank <- MC_Rank
  Designs <- MC_Designs
  ApiDesigns <- MC_ApiDesigns
  Proposals <- MC_Proposals
  Repo <- MC_Repo
  MaxAttempts = 2
  MaxRepair = 1
  Requests <- MC_Requests
  Broken <- MC_Broken
  Unsafe <- MC_Unsafe
  Failing <- MC_Failing
  Idle <- MC_Idle
  IdlePasses = TRUE
  Cuts <- MC_Cuts
INVARIANTS
  AcceptedIsOnDisk
