\* Two overlapping actors, one service, every kind of fault.
SPECIFICATION Spec
CONSTANTS
  Service = {1}
  Actor = {a1, a2}
  Pid = {p1, p2}
  NoPid = NoPid
  NoService = NoService
  NoActor = NoActor
  worker = a1
  Allowed <- UpDownSupervise
  LongLived = {}
  UnixHost = TRUE
  OnFailure = {1}
  Autostart = {1}
  HealthUrl = {1}
  Tunnelled = {1}
  SlowStart = {1}
  Faults = {"crash", "wedge", "fork", "foreign", "abort", "spawn"}
  MaxFaults = 1
SYMMETRY ActorSymmetry
INVARIANTS
  TypeOK
  PidFileNamesListener
  DesiredRunningWasVerified
