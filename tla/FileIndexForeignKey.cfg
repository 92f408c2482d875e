SPECIFICATION Spec
CONSTANTS
  d1 = d1 d2 = d2 u1 = u1 m1 = m1
  docs = docs upper = upper music = music
  Files = {d1, m1}
  Dirs = {docs, music}
  Under <- MCUnder
  Like <- MCLike
  SubDirs <- MCSubDirs
  TextFiles = {}
  MediaFiles = {d1, m1}
  Configs <- NarrowingConfigs
  FallbackRoots = {docs}
  Clients = {c1}
  BatchSize = 2
  ContentBatch = 1
  MetaBatch = 2
  MaxGen = 1
  MaxVersion = 1
  MaxSets = 1
  MaxFaults = 0
  MaxBoots = 0
  Pausing = FALSE
INVARIANTS MetaPassIsComplete
CHECK_DEADLOCK FALSE
