SPECIFICATION Spec
CONSTANTS
  Shape <- MCShape
  Required = {"a"}
  Undeclared <- MCUndeclared
  Values = {"typed", "untyped", "undefined"}
  Typed = {"typed"}
  Undefined = "undefined"
  Rules <- EveryRule
  Steady <- SteadyRules
  MaxChanges = 2
INVARIANTS AsyncAgreesWithSync RejectionIsFatal ClosedOutputIsValidated
CHECK_DEADLOCK FALSE
