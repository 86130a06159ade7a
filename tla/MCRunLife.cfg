SPECIFICATION Spec
CONSTANTS
  NRuns = 2
  NRecords = 2
  Kinds <- SmallPipelines
  Exclude = {1}
  Limit = 1
  DryModes <- RehearseFirst
  Answers = {"pass", "fail"}
  MaxKills = 1
  MaxByHand = 1
INVARIANTS DoneForgetsNobody SpentTokens NewestAnswerDecides OnceWorkedOnce
  TerminusHoldsCompleters HandoffHolds
CHECK_DEADLOCK FALSE
