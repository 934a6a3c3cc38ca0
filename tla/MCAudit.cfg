SPECIFICATION FairSpec
CONSTANTS
  Thread = {t1, t2}
  Cli = Cli
  None = None
  MaxRequests = 3
  MaxEdits = 2
INVARIANTS
  TypeOK
  ChainVerifies
  ValidMeansIntact
  ChangesAreLoggedInOrder
PROPERTIES
  LockIsReleased
CHECK_DEADLOCK FALSE
