\* One command at a time: a handoff of a registered service to a port that is taken.
SPECIFICATION Spec
CONSTANTS
  here = here
  there = there
  x = x
  y = y
  z = z
  low = 24001
  high = 24002
  fileX = fileX
  fileY = fileY
  fileZ = fileZ
  a1 = a1
  a2 = a2
  b1 = b1
  c1 = c1
  Id = {x, y, z}
  Port = {24001, 24002}
  Path = {fileX, fileY, fileZ}
  HandoffPath <- FilePerId
  NoFile = NoFile
  NoPath = NoPath
  Machine = {here}
  Actor = {b1}
  Home <- Places
  Peers <- AllPeers
  Project <- NoProject
  Allowed <- Commands
  Companies = {{b1}}
  Overlap = {}
  MaxFaults = 0
INVARIANTS
  OwnerLocalPorts
