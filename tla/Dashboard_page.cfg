\* The page with one action and two loads, one peer, one registry that changes once, and one
\* restart or one silent connection.
SPECIFICATION DashFairSpec
CONSTANTS
  Local = local
  Peer = {q1}
  Thread = {1, 2}
  NoThread = NoThread
  Torn = Torn
  MaxVersion = 2
  MaxChanged = 1
  MaxCrashes = 1
  Fetch = {f1, f2}
  Action = {a1}
  Silent = Silent
  MaxTrouble = 1
  NoCall = NoCall
INVARIANTS
  DashTypeOK
  
  MarksAreTrue
PROPERTIES
  ExportsNeverOlder
  
  CallsEnd
  PageCatchesUp
