\* The first machine runs Windows and runs the service too; no fault, one command at a time.
SPECIFICATION Spec
CONSTANTS
  Machine = {1, 2, 3}
  Service = Service
  Dead = Dead
  NoPid = NoPid
  Peers <- Star
  Nobody = Nobody
  Setups <- OnWindows
  AssumeLocal = FALSE
  OnDemand = TRUE
  Slot = {1, 2, 3, 4}
  NoCommand = NoCommand
  User = User
  Lost = Lost
  May <- AtOne
  LocalPorts <- Spare
  Beside <- Meanwhile
  MaxFaults = 0
PROPERTIES
  TargetSparesOthers
