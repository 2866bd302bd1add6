SPECIFICATION DhtSpec
CONSTANTS
  Cids = {a, b}
  Bootstrap <- BootstrapNodes
  NoCid = NoCid
INVARIANT ProvidedIsReprovided
CHECK_DEADLOCK FALSE
