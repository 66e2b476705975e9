SPECIFICATION FairSpec
CONSTANTS
  Threads = {t1, t2}
  Keys = {k1, k2}
  NoOne = noOne
  MaxOperations = 2
  MaxIds = 3
  MaxDepth = 3
INVARIANTS TypeOK BlocksAreProtected Exclusive
PROPERTIES KeysComeFree ImplementsLeases
CHECK_DEADLOCK FALSE
