CONSTANTS
  Calls = {c1, c2}
  Cids = {x1}
  MaxId = 3
  Null = Null
SPECIFICATION FrontSpec
PROPERTY
  RejectedIsTold
CHECK_DEADLOCK FALSE
