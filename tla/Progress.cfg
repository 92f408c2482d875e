SPECIFICATION ProgressSpec
CONSTANTS
  d1 = d1 d2 = d2 u1 = u1 m1 = m1
  docs = docs upper = upper music = music
  Files = {d1, m1}
  Dirs = {docs, music}
  Under <- MCUnder
  Like <- MCLike
  SubDirs <- MCSubDirs
  TextFiles = {d1}
  MediaFiles = {m1}
  Configs <- IncludeConfigs
  FallbackRoots = {docs}
  Clients = {c1}
  BatchSize = 2
  ContentBatch = 1
  MetaBatch = 1
  MaxGen = 1
  MaxVersion = 1
  MaxSets = 1
  MaxFaults = 0
  MaxBoots = 0
  Pausing = TRUE
  Players = {p1, p2}
  Sessions = {s1, s2}
  None = None
  MaxProcs = 1
  MaxSessions = 1
  HW = TRUE
  Ops = {o1, o2}
  MaxDepth = 2
  MaxConcurrent = 1
  MaxTempBytes = 1
  MaxLayerBytes = 1
  Chunk = 1
  CacheSlots = 1
  MaxCacheBytes = 1
  Keyless = {}
  MaxLitter = 0
PROPERTIES CrawlEnds CloseReturns RequestsAreAnswered OperationsEnd
CHECK_DEADLOCK FALSE
