\* A suspension in the last step restarts the workflow.
CONSTANTS
  Workflows <- ApprovalWorkflows
  Policies <- MCPolicies
  Scripts <- FinalApproval
  Fields = {f, g}
  MaxSteps = 12
  MaxDepth = 2
  MaxResumes = 1
  FailureReasonKey = failure_reason
  FailedStepKey = failed_step
  None = None
  f = f
  g = g
SPECIFICATION Spec
CHECK_DEADLOCK FALSE
INVARIANTS NothingReruns
