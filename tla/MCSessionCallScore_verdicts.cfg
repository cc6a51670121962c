SPECIFICATION ScoreSpec
CONSTANTS
  DemoTools = {"wom.get_customer_usage"}
  OtherTools = {}
  Leaves <- MCLeaves
  ShortLeaves <- MCShortLeaves
  MaxTokens = 1
  Flag = "true"
  Results <- MCOneResult
  Texts <- MCThreeTexts
  Scorers = {s1, s2}
  Hosted = TRUE
  MaxToolCalls = 2
  MaxTurns = 1
  NoValue = NoValue
SYMMETRY MCScorers
CHECK_DEADLOCK FALSE
INVARIANTS FailedForAReason
PROPERTIES RescoringKeepsVerdicts
