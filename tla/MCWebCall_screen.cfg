SPECIFICATION Spec
CONSTANTS
  MaxAttempts = 2
  Messages = {m1}
  MaxTranscriptMessages = 1
  NoValue = NoValue
CHECK_DEADLOCK FALSE
INVARIANTS EndedCallIsCompleted LiveCallIsShown EvaluationIsOfThisCall
