CONSTANTS
  Streams = {s1, s2}
  Requests = {r1, r2}
  RemoteIds = {q1}
  None = None
  Connecting = Connecting
  MaxPending = 2
  StreamDelay = 1
  PeerDelay = 1
  Retrying = TRUE
SPECIFICATION Spec
INVARIANT
  ErrorsReported
CHECK_DEADLOCK FALSE
