CONSTANTS
  r1 = r1
  r2 = r2
  Instances = {i1}
  Requests = {r1, r2}
  PeerOf <- TwoPeers
  IdOf <- SameId
  Outcomes <- SearchOutcomes
  None = None
SPECIFICATION Spec
INVARIANTS
  NotFoundReported
CHECK_DEADLOCK FALSE
