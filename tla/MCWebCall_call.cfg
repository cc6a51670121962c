SPECIFICATION Spec
CONSTANTS
  MaxAttempts = 2
  Messages = {m1, m2, m3}
  MaxTranscriptMessages = 2
  NoValue = NoValue
CHECK_DEADLOCK FALSE
INVARIANTS CompletedOnlyAfterTheEnd LiveCallHasAnEnd TranscriptIsRecent EvaluationOfAnEndedCall
PROPERTIES ConnectingEnds
