\* The worker supervises while a user runs up and down, on Windows, with no fault.
SPECIFICATION Spec
CONSTANTS
  Service = {1}
  Actor = {a1, a2}
  Pid = {p1, p2}
  NoPid = NoPid
  NoService = NoService
  NoActor = NoActor
  worker = a1
  Allowed <- WorkerSupervises
  LongLived = {}
  UnixHost = FALSE
  OnFailure = {1}
  Autostart = {1}
  HealthUrl = {1}
  Tunnelled = {}
  SlowStart = {}
  Faults = {}
  MaxFaults = 0
PROPERTIES
  SuperviseNeverResurrects
