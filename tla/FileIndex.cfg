SPECIFICATION Spec
CONSTANTS
  d1 = d1 d2 = d2 u1 = u1 m1 = m1
  docs = docs upper = upper music = music
  Files = {d1, m1}
  Dirs = {docs, music}
  Under <- MCUnder
  Like <- MCLike
  SubDirs <- MCSubDirs
  TextFiles = {d1}
  MediaFiles = {d1}
  Configs <- ConfinementConfigs
  FallbackRoots = {docs}
  Clients = {c1, c2}
  BatchSize = 2
  ContentBatch = 1
  MetaBatch = 1
  MaxGen = 2
  MaxVersion = 2
  MaxSets = 2
  MaxFaults = 1
  MaxBoots = 1
  Pausing = TRUE
INVARIANTS TypeOK ConfinedWhenQuiet ConfinedOrSwept
INVARIANTS MarksAreFresh FreshByOrder FullCrawlIsExact
PROPERTIES SweptFilesAreGone
CONSTRAINT Explored
CHECK_DEADLOCK FALSE
SYMMETRY ClientSymmetry
