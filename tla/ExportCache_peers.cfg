\* Nothing changes and nothing restarts, but a peer may not answer.
SPECIFICATION Spec
CONSTANTS
  Local = local
  Peer = {q1, q2}
  Thread = {1, 2}
  NoThread = NoThread
  Torn = Torn
  MaxVersion = 1
  MaxChanged = 1
  MaxCrashes = 0
PROPERTIES
  PeersStay
