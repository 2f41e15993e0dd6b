\* Two branches with fields of their own both take their fallback.
CONSTANTS
  Workflows <- RecoveryWorkflows
  Policies <- MCPolicies
  Scripts <- RecoveryScripts
  Fields = {f, g}
  MaxSteps = 12
  MaxDepth = 2
  MaxResumes = 0
  FailureReasonKey = failure_reason
  FailedStepKey = failed_step
  None = None
  f = f
  g = g
SPECIFICATION Spec
CHECK_DEADLOCK FALSE
INVARIANTS DistinctFieldsJoin
