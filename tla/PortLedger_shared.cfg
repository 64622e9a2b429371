\* Two machines that ask each other and three files, two of which want one port.  Either
\* two commands overlap on one machine, or one command runs at a time, killed anywhere,
\* and handoff may give a service another port.
SPECIFICATION Spec
CONSTANTS
  here = here
  there = there
  x = x
  y = y
  z = z
  low = 24001
  high = 24002
  fileX = fileX
  fileY = fileY
  fileZ = fileZ
  a1 = a1
  a2 = a2
  b1 = b1
  c1 = c1
  Id = {x, y, z}
  Port = {24001, 24002}
  Path = {fileX, fileY, fileZ}
  HandoffPath <- FilePerId
  NoFile = NoFile
  NoPath = NoPath
  Machine = {here, there}
  Actor = {a1, a2, b1, c1}
  Home <- Places
  Peers <- AllPeers
  Project <- Scattered
  Allowed <- Commands
  Companies = {{a1, a2}, {b1, c1}}
  Overlap = {{a1, a2}}
  MaxFaults = 1
SYMMETRY Alike
\* Once every file is deleted, no command has anything to work on.
CHECK_DEADLOCK FALSE
INVARIANTS
  TypeOK
  RegistrarsKeepPorts
  SuccessMeansNoConflict
  
  EntryNamesItsService
  ScanIsRule
  OneRowPerPort
