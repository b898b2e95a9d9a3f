SPECIFICATION ActivationSpec
CONSTANTS
  Nodes = {n1, n2}
  MaxBoots = 1
  MaxRounds = 2
  RegisterTimes = 1
  PoisonFirst = TRUE
  PromptActivation = TRUE
  NoKey = NoKey
INVARIANT
  LockHasLease
CHECK_DEADLOCK FALSE
