SPECIFICATION Spec
CONSTANTS
  Drainers = {d1, d2, d3}
  Strays = {s1, s2}
  None = None
  Items = {a, b, c}
  InitCap = 2
  MaxCap = 5
  Nil = Nil
  Cancellers = {c1, c2}
  TimeBits = 3
  NodeBits = 1
  StepBits = 1
  Epoch = 1
  Skews <- MCSkews
  MaxMs = 2
  MaxIds = 4
  NoGen = NoGen
  Shards = {1, 2}
  Keys = {"k1", "k2"}
  GetShard <- MCGetShard
  Values = {"v", "w"}
  Absent = Absent
  Texts <- MCTexts
  Addrs <- MCAddrs
  Chars = {"/", "@", "x"}
  MaxWire = 7
  NoRef = NoRef
INVARIANTS
  NoPointerRace
  NoFurtherTick
  ReuseOnlyInReenteredTime
  ParsesIntoItsParts
PROPERTIES
  SnapshotExact
  GateImplementsPermit
  RingImplementsFifo
  CancelSilences
  TimerKeepsTicking
  IterationEnds
CHECK_DEADLOCK FALSE
