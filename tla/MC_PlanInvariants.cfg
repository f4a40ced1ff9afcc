SPECIFICATION Spec
CONSTANTS
  Task <- MC_Task
  Name <- MC_Name
  RawPlans <- MC_RawPlans
INVARIANTS
  LinkingKeepsAcyclic
  AcceptedIsNormalized
  ValidationIsOrdered
