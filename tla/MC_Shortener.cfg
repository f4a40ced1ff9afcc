SPECIFICATION Spec
CONSTANTS
  Url = {u1, u2}
  Code <- MC_Code
  Alias <- MC_Alias
  AutoCode <- MC_AutoCode
  Ttls <- MC_Ttls
  MaxIds = 3
  MaxTime = 1
  MaxClicks = 1
INVARIANTS
  BackendsAgree
  OnlyAliasesCollide
PROPERTIES
  KeepsItsLinks
CHECK_DEADLOCK FALSE
