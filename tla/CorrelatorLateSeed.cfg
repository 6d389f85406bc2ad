CONSTANTS
  i1 = i1  i2 = i2  a1 = a1  a2 = a2  b1 = b1  a = a  b = b  sa = sa  sb = sb
  NoRow = NoRow  NoInode = NoInode  NoSpiffe = NoSpiffe
  InvalidSection = InvalidSection
  Inode = {i1}
  Path = {a1}
  Pod = {a}
  Spiffe = {sa}
  PodOf <- IdentityP
  SpiffeOf <- IdentityA
  Seeded = {}
  Policies = {{sa}, {}}
  MaxRows = 1
  MaxEvents = 1
  MaxChanges = 1
  MaxOverflows = 0
SPECIFICATION Spec
INVARIANTS
  RevocationInvalidates
