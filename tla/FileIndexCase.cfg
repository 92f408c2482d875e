SPECIFICATION Spec
CONSTANTS
  d1 = d1 d2 = d2 u1 = u1 m1 = m1
  docs = docs upper = upper music = music
  Files = {d1, u1}
  Dirs = {docs, upper}
  Under <- MCUnder
  Like <- MCLike
  SubDirs <- MCSubDirs
  TextFiles = {}
  MediaFiles = {}
  Configs <- CaseConfigs
  FallbackRoots = {docs}
  Clients = {c1}
  BatchSize = 2
  ContentBatch = 1
  MetaBatch = 1
  MaxGen = 2
  MaxVersion = 1
  MaxSets = 0
  MaxFaults = 0
  MaxBoots = 0
  Pausing = FALSE
PROPERTIES SweptFilesAreGone
CHECK_DEADLOCK FALSE
