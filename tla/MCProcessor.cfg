SPECIFICATION Spec
CONSTANTS
  Drainers = {d1, d2, d3, d4}
  Msgs = {m1, m2}
  Poisons = {}
  Callers = {c1}
  Capacity = 1
  MaxAsks = 1
  Initialize = Initialize
  None = None
SYMMETRY Symmetry
INVARIANTS
  SerialExecution
  SingleDrainOwner
  StopWaitsForCalls
  AcceptedInOrder
  NoLostWakeup
  RegistrationReleasedFirst
CHECK_DEADLOCK FALSE
