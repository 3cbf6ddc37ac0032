SPECIFICATION MCSafeSpec
CONSTANTS
  TxRing = 3
  RxRing = 3
  Mss = 2
  MaxRetries = 0
  SynRetries = 0
  Keepalives = 0
  SynQueueSize = 0
  Word = 8
  Script = 3
  PeerRoom = 1
  Departures = {"close"}
  MaxPort = 1
  MaxIn = 1
  MaxOut = 1
  Escape = 2
INVARIANTS
  EchoInOrder
  FinMeansAll
  DroppedWasReceived
  NumbersFollowPointers
