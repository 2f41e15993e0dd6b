\* Two processes sharing the directory: crashes, power loss, I/O errors, panics.
CONSTANTS
  Process = {x1, x2}
  Worker = {w1, w2}
  ProcOf <- TwoProcesses
  Pointer = {p1, p2}
  Step = {s1, s2}
  Definition <- Stable
  SyncDir = TRUE
  MaxFaults = 2
  None = None
  w1 = w1 w2 = w2 x1 = x1 x2 = x2 p1 = p1 p2 = p2 s1 = s1 s2 = s2
SPECIFICATION Spec
INVARIANTS TypeOK SingleUse QueueExact ClaimSignal NeverTorn AuthorizedOnly
PROPERTIES TicketLife
