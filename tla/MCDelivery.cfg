\* Manifests drafted, published, installed, served and run.
CONSTANTS
  Standard <- MCStandard
  Replies <- MCReplies
  Manuscripts <- MCManuscripts
  Metas <- MCMetas
  UnsafeNames = {"../visa"}
  Neighbours <- MCNeighbours
  HostHooks = {"charge"}
  DefaultMaxAttempts = 3
  MaxDepth = 5
  MaxEntries = 2
  None = None
  Missing = Missing
SPECIFICATION Spec
CHECK_DEADLOCK FALSE
INVARIANTS TypeOK ValidRunsNeverDangle NoSilentLoops DeliveredServes LintedInstalls CyclesAreExact
