\* A booking resumed once, workflows that meet the ceilings, nested fan-outs.
CONSTANTS
  Workflows <- AllWorkflows
  Policies <- MCPolicies
  Scripts <- AllScripts
  Fields = {f, g}
  MaxSteps = 7
  MaxDepth = 3
  MaxResumes = 1
  FailureReasonKey = failure_reason
  FailedStepKey = failed_step
  None = None
  f = f
  g = g
SPECIFICATION Spec
CHECK_DEADLOCK FALSE
INVARIANTS TypeOK CompensationExact AnswersItsMeaning
PROPERTIES RunsReturn StructuralIsNotAbsorbed
