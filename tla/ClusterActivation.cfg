SPECIFICATION ActivationFairSpec
CONSTANTS
  Nodes = {n1, n2}
  MaxBoots = 2
  MaxRounds = 2
  RegisterTimes = 2
  PoisonFirst = TRUE
  PromptActivation = TRUE
  NoKey = NoKey
INVARIANTS
  SingleActivation
PROPERTY
  ShutdownEnds
CHECK_DEADLOCK FALSE
