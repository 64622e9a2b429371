\* Commands and supervise passes that are processes of their own, two crashes.
SPECIFICATION FairSpec
CONSTANTS
  Service = {1}
  Actor = {a1}
  Pid = {p1, p2}
  NoPid = NoPid
  NoService = NoService
  NoActor = NoActor
  worker = a1
  Allowed <- AnyCommand
  LongLived = {}
  UnixHost = TRUE
  OnFailure = {1}
  Autostart = {1}
  HealthUrl = {1}
  Tunnelled = {}
  SlowStart = {}
  Faults = {"crash"}
  MaxFaults = 2
PROPERTIES
  EveryCommandEnds
  
