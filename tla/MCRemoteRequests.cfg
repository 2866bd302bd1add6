CONSTANTS
  r1 = r1
  r2 = r2
  Instances = {i1, i2}
  Requests = {r1, r2}
  PeerOf <- OnePeer
  IdOf <- OwnIds
  Outcomes <- AllOutcomes
  None = None
SPECIFICATION Spec
SYMMETRY Symmetry
INVARIANTS
  TypeOK
  NotFoundIsTrue
  AnsweredUnlessDisturbed
  HoldersReleased
CHECK_DEADLOCK FALSE
