\* Three machines with one service in five settings; commands on the first one, one fault
\* of any kind or one command given while another is under way.
SPECIFICATION FairSpec
CONSTANTS
  Machine = {1, 2, 3}
  Service = Service
  Dead = Dead
  NoPid = NoPid
  Peers <- Star
  Nobody = Nobody
  Setups <- Settings
  AssumeLocal = FALSE
  OnDemand = TRUE
  Slot = {1, 2, 3, 4}
  NoCommand = NoCommand
  User = User
  Lost = Lost
  May <- AtOne
  LocalPorts <- Spare
  Beside <- Meanwhile
  MaxFaults = 1
INVARIANTS
  TypeOK
  TunnelsAccounted
  UpIsUp
  
PROPERTIES
  UnixTargetSparesOthers
  
  CommandsAdvance
