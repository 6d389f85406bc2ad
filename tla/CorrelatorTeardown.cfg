CONSTANTS
  i1 = i1  i2 = i2  a1 = a1  a2 = a2  b1 = b1  a = a  b = b  sa = sa  sb = sb
  NoRow = NoRow  NoInode = NoInode  NoSpiffe = NoSpiffe
  InvalidSection = InvalidSection
  Inode = {i1, i2}
  Path = {a1, a2}
  Pod = {a}
  Spiffe = {sa}
  PodOf <- OnePod
  SpiffeOf <- IdentityA
  Seeded = {a1}
  Policies = {{sa}, {}, InvalidSection}
  MaxRows = 2
  MaxEvents = 1
  MaxChanges = 0
  MaxOverflows = 1
SYMMETRY InodeSymmetry
SPECIFICATION Spec
INVARIANTS
  KeysBacked
  TrackedLeavesWatched
PROPERTIES
  LiveSeedsStay
