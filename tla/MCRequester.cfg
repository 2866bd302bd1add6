CONSTANTS
  None = None
  Null = Null
  Calls = {c1, c2, c3}
  Cids = {x1}
  MaxId = 3
  Streams = {s1, s2}
  Requests = {r1, r2}
  RemoteIds = {q1}
  Connecting = Connecting
  MaxPending = 1
  StreamDelay = 1
  PeerDelay = 1
  Retrying = FALSE
  small = small
  large = large
  empty = empty
  Messages <- Buffers
  Size <- BufferSize
  MaxAccepted = 5
SPECIFICATION RequesterSpec
SYMMETRY Symmetry
INVARIANTS
  FrontTypeOK
  ToldAtMostOnce
  AcceptedIsKept
  StopTellsAll
  DroppedIsReleased
  CompletedHasBlock
  RejectedHasTask
  FailedIsFailed
  TypeOK
  EndpointOnLiveStream
  ConnectingHasCause
  ResponseSinkLive
  ReportedAtMostOnce
  OpenContextTracksAll
  CloseLosesAtMostOne
  CleanupScheduled
  QueueTypeOK
  OneWriteAtATime
  WritingBytesTellTruth
  NoStrandedBuffer
  PendingBytesExact
PROPERTIES
  ImplementsFifo
CHECK_DEADLOCK FALSE
