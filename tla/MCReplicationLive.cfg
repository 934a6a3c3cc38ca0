SPECIFICATION FairSpec
CONSTANTS
  Group = {g1, g2}
  Secret = {s1}
  None = None
  Acl = {a1}
  MaxClock = 2
  ChannelCap = 1
  MaxFaults = 1
PROPERTIES
  
  Convergence
CHECK_DEADLOCK FALSE
