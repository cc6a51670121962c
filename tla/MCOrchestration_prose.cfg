SPECIFICATION Spec
CONSTANTS
  NoValue = NoValue
  ConsumedSteps <- AllSteps
  ConsumedInvocations <- AllInvocations
  Intents <- SomeIntents
CHECK_DEADLOCK FALSE
INVARIANTS UnparseableIsInvalidOutput
