SPECIFICATION SpawnFairSpec
CONSTANTS
  Ids = {i1, i2}
  Creators = {c1, c2, c3}
  Slots = {s1, s2}
  Instances = {p1, p2}
  Nil = Nil
INVARIANTS
  OneCreator
  NoUnusedInstance
PROPERTY
  SpawnReturns
