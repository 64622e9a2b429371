\* The same commands and passes inside one resident process on Unix.
SPECIFICATION FairSpec
CONSTANTS
  Service = {1}
  Actor = {a1}
  Pid = {p1, p2}
  NoPid = NoPid
  NoService = NoService
  NoActor = NoActor
  worker = a1
  Allowed <- AnyCommand
  LongLived = {a1}
  UnixHost = TRUE
  OnFailure = {1}
  Autostart = {1}
  HealthUrl = {1}
  Tunnelled = {}
  SlowStart = {}
  Faults = {"crash"}
  MaxFaults = 1
PROPERTIES
  SuperviseRecovers
