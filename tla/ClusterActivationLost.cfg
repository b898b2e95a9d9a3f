SPECIFICATION ActivationSpec
CONSTANTS
  Nodes = {n1, n2}
  MaxBoots = 1
  MaxRounds = 2
  RegisterTimes = 3
  PoisonFirst = TRUE
  PromptActivation = TRUE
  NoKey = NoKey
INVARIANT
  LoserHasWinner
CHECK_DEADLOCK FALSE
