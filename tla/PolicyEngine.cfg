CONSTANTS
  tmp = tmp  opt = opt  a1 = a1  x1 = x1
  Absent = Absent
  Prefix = {tmp, opt}
  Floor = {tmp}
  MaxPrefixes = 2
  Document <- MCDocument
  MaxEdits = 3
  MaxCrashes = 1
  MaxFailures = 1
  Rate = 1
  Second = 3
  Cost = 2
  Client = {a1, x1}
  Agents = {a1}
SPECIFICATION FairSpec
INVARIANTS
  TypeOK
  PlanesAgree
  FloorRemovalReported
  BudgetKept
PROPERTIES
  AgentsNeverGoBack
  PlanesConverge
