CONSTANTS
  None = None
  Null = Null
  Calls = {c1, c2}
  Cids = {x1}
  MaxId = 3
  Streams = {s1, s2}
  Requests = {r1}
  RemoteIds = {q1}
  Connecting = Connecting
  MaxPending = 1
  StreamDelay = 1
  PeerDelay = 1
  Retrying = FALSE
  small = small
  large = large
  empty = empty
  Messages <- Buffers
  Size <- BufferSize
  MaxAccepted = 5
SPECIFICATION FairRequesterSpec
PROPERTIES
  RejectedDrains
  DeadPeerDetected
  QueueDrains
CHECK_DEADLOCK FALSE
