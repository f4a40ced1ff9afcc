SPECIFICATION FairSpec
CONSTANTS
  Run = {w1, w2, w3}
  Issue = {issue1}
  issue1 = issue1
  w1 = w1
  w2 = w2
  w3 = w3
  Traffic <- MC_Traffic
  File <- MC_File
  Records <- MC_Records
  Tree <- MC_Tree
  MaxReruns = 1
  MaxHiccups = 1
CHECK_DEADLOCK FALSE
INVARIANTS
  ProposalsAreAccepted
  ProposalsAreFaithful
  EndedIsTold
  
PROPERTIES
  AcceptedWorkStays
  RequestsEnd
