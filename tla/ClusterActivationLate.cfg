SPECIFICATION ActivationSpec
CONSTANTS
  Nodes = {n1, n2}
  MaxBoots = 1
  MaxRounds = 2
  RegisterTimes = 1
  PoisonFirst = TRUE
  PromptActivation = FALSE
  NoKey = NoKey
INVARIANT
  SingleActivation
CHECK_DEADLOCK FALSE
