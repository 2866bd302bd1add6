CONSTANTS
  Streams = {s1, s2}
  Requests = {r1}
  RemoteIds = {q1}
  None = None
  Connecting = Connecting
  MaxPending = 1
  StreamDelay = 1
  PeerDelay = 1
  Retrying = FALSE
SPECIFICATION FairSpec
PROPERTIES
  ClosedPeerForgotten
CHECK_DEADLOCK FALSE
