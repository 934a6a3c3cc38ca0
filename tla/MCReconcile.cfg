SPECIFICATION FairSpec
CONSTANTS
  Target = {t1, t2}
  Group = {g1}
  Data = {d1, d2}
  Bad = Bad
  None = None
  MaxEvents = 2
PROPERTIES
  
  LastSecretIsKept
  RetainKeepsTarget
  ReconcileConverges
  DeletionCompletes
CHECK_DEADLOCK FALSE
