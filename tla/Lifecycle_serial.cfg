\* One command at a time, two services, processes that crash or lose their port.
SPECIFICATION Spec
CONSTANTS
  Service = {1, 2}
  Actor = {a1}
  Pid = {p1, p2, p3}
  NoPid = NoPid
  NoService = NoService
  NoActor = NoActor
  worker = a1
  Allowed <- AnyCommand
  LongLived = {}
  UnixHost = TRUE
  OnFailure = {1, 2}
  Autostart = {1}
  HealthUrl = {2}
  Tunnelled = {1}
  SlowStart = {}
  Faults = {"crash", "wedge"}
  MaxFaults = 2
SYMMETRY PidSymmetry
INVARIANTS
  OneInstance
  ListenerIsRecorded
  DownStops
  SuperviseHeedsDesired
PROPERTIES
  CommandsAdvance
