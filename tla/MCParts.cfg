SPECIFICATION PartsSpec
CONSTANTS
  None = None
  Names = {a, b}
  Contents = {0, 5}
  Children <- ChildNodes
  Foreign <- ForeignLinks
  Destinations = {"d"}
  SizeMod = 65536
  MaxChanges = 4
  Absent = Absent
  Instances = {i1, i2}
  Contexts = {c1, c2, c3}
  Calls = {k1, k2}
  Frames <- SentFrames
  MaxFrames = 3
  MaxSize = 2
  Requests = {1, 2}
  Blocks <- SmallAndLarge
  SizeOf <- SmallAndLargeSize
  Statuses = {20}
  Extensions <- SameName
  kMaxMessageSize = 9
  kMaxPendingBytes = 24
  MaxOps = 4
SYMMETRY Symmetry
INVARIANTS
  FramesInOrder
  ItemsIntact
  BlockIsCurrent
  GraphsAgree
  BlocksReachPeerUnlessOverlong
  RoundTrip
  CodecAgrees
  OpenIsRegistered
  StoppedIsEmpty
CHECK_DEADLOCK FALSE
