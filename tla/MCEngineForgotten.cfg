\* Abandoned after a suspension: what came before it.
CONSTANTS
  Workflows <- ApprovalWorkflows
  Policies <- MCPolicies
  Scripts <- OneApproval
  Fields = {f, g}
  MaxSteps = 12
  MaxDepth = 2
  MaxResumes = 1
  FailureReasonKey = failure_reason
  FailedStepKey = failed_step
  None = None
  f = f
  g = g
SPECIFICATION Spec
CHECK_DEADLOCK FALSE
INVARIANTS AbandonUndoesAll
