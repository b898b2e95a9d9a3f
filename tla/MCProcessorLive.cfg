SPECIFICATION FairSpec
CONSTANTS
  Drainers = {d1, d2, d3}
  Msgs = {m1, p1}
  Poisons = {p1}
  Callers = {}
  Capacity = 2
  MaxAsks = 1
  Initialize = Initialize
  None = None
PROPERTIES
  StopCompletes
  AcceptedSettles
CHECK_DEADLOCK FALSE
