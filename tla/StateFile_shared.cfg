\* Two commands that save and one that only reads, killed anywhere.
SPECIFICATION Spec
CONSTANTS
  Client = {c1, c2, c3}
  Saver = {c1, c2}
  Value = {short, long}
  short = short
  long = long
  Default = short
  Size <- Sizes
  Inode = {i1, i2, i3, i4}
  None = None
  Hole = Hole
  MaxFaults = 1
SYMMETRY ClientsAlike
INVARIANTS
  TypeOK
  LoadsParse
PROPERTIES
  AtomicUntilOverlap
  TornStaysTorn
