CONSTANTS
  i1 = i1  i2 = i2  a1 = a1  a2 = a2  b1 = b1  a = a  b = b  sa = sa  sb = sb
  NoRow = NoRow  NoInode = NoInode  NoSpiffe = NoSpiffe
  InvalidSection = InvalidSection
  Inode = {i1, i2}
  Path = {a1, b1}
  Pod = {a, b}
  Spiffe = {sa, sb}
  PodOf <- TwoPods
  SpiffeOf <- Identities
  Seeded = {}
  Policies = {{sa, sb}, {sb}}
  MaxRows = 1
  MaxEvents = 2
  MaxChanges = 1
  MaxOverflows = 0
SYMMETRY InodeSymmetry
SPECIFICATION Spec
INVARIANTS
  TypeOK
  IndexCoherent
  KeysBacked
  DeletedPodsStayOut
