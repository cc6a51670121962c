SPECIFICATION ScoreSpec
CONSTANTS
  DemoTools = {"wom.get_customer_usage"}
  OtherTools = {"demo.echo_token"}
  Leaves <- MCLeaves
  ShortLeaves <- MCShortLeaves
  MaxTokens = 1
  Flag = "true"
  Results <- MCResults
  Texts <- MCTexts
  Scorers = {s1}
  Hosted = FALSE
  MaxToolCalls = 2
  MaxTurns = 2
  NoValue = NoValue
CHECK_DEADLOCK FALSE
INVARIANTS AgentAnswerMeetsTheGoal SecondToolMeetsTheGoal
