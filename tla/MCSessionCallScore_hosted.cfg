SPECIFICATION ScoreSpec
CONSTANTS
  DemoTools = {"wom.get_customer_usage"}
  OtherTools = {}
  Leaves <- MCLeaves
  ShortLeaves <- MCShortLeaves
  MaxTokens = 1
  Flag = "true"
  Results <- MCTwoResults
  Texts <- MCThreeTexts
  Scorers = {s1}
  Hosted = TRUE
  MaxToolCalls = 2
  MaxTurns = 1
  NoValue = NoValue
CHECK_DEADLOCK FALSE
INVARIANTS EvidenceIsStored SameRowsSameScore
