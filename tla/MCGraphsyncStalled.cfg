CONSTANTS
  Calls = {c1, c2}
  Cids = {x1}
  MaxId = 3
  Null = Null
SPECIFICATION FairFrontSpec
PROPERTY
  StalledRequestFails
CHECK_DEADLOCK FALSE
