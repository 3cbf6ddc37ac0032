SPECIFICATION MCSpec
CONSTANTS
  TxRing = 3
  RxRing = 3
  Mss = 2
  MaxRetries = 1
  SynRetries = 1
  Keepalives = 1
  SynQueueSize = 1
  Word = 8
  Script = 2
  PeerRoom = 2
  Departures = {"abort", "vanish"}
  MaxPort = 2
  MaxIn = 1
  MaxOut = 1
  Escape = 2
INVARIANT NotForgotten
PROPERTY Released
