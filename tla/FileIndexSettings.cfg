SPECIFICATION Spec
CONSTANTS
  d1 = d1 d2 = d2 u1 = u1 m1 = m1
  docs = docs upper = upper music = music
  Files = {d1}
  Dirs = {docs}
  Under <- MCUnder
  Like <- MCLike
  SubDirs <- MCSubDirs
  TextFiles = {d1}
  MediaFiles = {}
  Configs <- EmptyingConfigs
  FallbackRoots = {docs}
  Clients = {c1}
  BatchSize = 2
  ContentBatch = 1
  MetaBatch = 1
  MaxGen = 1
  MaxVersion = 1
  MaxSets = 1
  MaxFaults = 0
  MaxBoots = 1
  Pausing = FALSE
PROPERTIES SettingsSurviveRestart
CHECK_DEADLOCK FALSE
