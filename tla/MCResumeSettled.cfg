\* Two goroutines of one process, its workflow redeployed, one fault.
CONSTANTS
  Process = {x1}
  Worker = {w1, w2}
  ProcOf <- OneProcess
  Pointer = {p1, p2}
  Step = {s1, s2}
  Definition <- Redeployed
  SyncDir = TRUE
  MaxFaults = 1
  None = None
  w1 = w1 w2 = w2 x1 = x1 x2 = x2 p1 = p1 p2 = p2 s1 = s1 s2 = s2
SPECIFICATION FairSpec
PROPERTIES TakenIsSettled
