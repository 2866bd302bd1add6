SPECIFICATION Spec
CONSTANTS
  Instances = {i1}
  Contexts = {c1, c2}
  Calls = {k1, k2}
  None = None
INVARIANT ContextFound
CHECK_DEADLOCK FALSE
