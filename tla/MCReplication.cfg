SPECIFICATION Spec
CONSTANTS
  Group = {g1}
  Secret = {s1, s2}
  None = None
  Acl = {a1, a2}
  MaxClock = 3
  ChannelCap = 1
  MaxFaults = 1
INVARIANTS
  NoSilentStaleness
PROPERTIES
  AppliedSecretsDecrypt
CHECK_DEADLOCK FALSE
