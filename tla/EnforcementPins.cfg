CONSTANTS
  m1 = m1  m2 = m2  m3 = m3
  tmp = tmp  opt = opt
  NoMap = NoMap  NoProg = NoProg  NoDir = NoDir  Empty = Empty
  MapId <- MCMapId
  Prefix <- MCPrefix
  Bootstrap <- MCBootstrap
  Policies <- MCPolicies
  Dirs <- MCDirs
  MaxEntries = 2
  MaxCrashes = 2
  Shapes = {"cold", "legacy", "compatible", "unknown", "linkonly"}
SPECIFICATION FairSpec
INVARIANTS
  TypeOK
  AttachedProgramsDeny
  PolicySurvivesRestart
  EnforcingNodeNeverRefuses
PROPERTIES
  HandOffOverlaps
  UnknownLayoutUntouched
  EnforcingNodeRecovers
