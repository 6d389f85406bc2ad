CONSTANTS
  m1 = m1  m2 = m2  m3 = m3
  tmp = tmp  opt = opt
  NoMap = NoMap  NoProg = NoProg  NoDir = NoDir  Empty = Empty
  MapId <- MCMapId
  Prefix <- MCPrefix
  Bootstrap <- MCBootstrap
  Policies <- MCPoliciesOne
  Dirs <- MCDirs
  MaxEntries = 1
  MaxCrashes = 2
  Shapes = {"legacy", "compatible"}
SPECIFICATION FairSpec
PROPERTIES
  NoEnforcementGap
