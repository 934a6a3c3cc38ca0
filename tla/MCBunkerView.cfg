SPECIFICATION ViewSpec
CONSTANTS
  Endpoint = {e1, e2}
  Name = {n1, n2}
  NoName = NoName
  Group = {g1, g2}
  Secret = {s1}
  OpKey = {k1}
  Backup = Backup
  Grants <- MCGrants
  MaxDek = 2
  MaxVersion = 2
  Replica = e1
  None = None
  MaxClock = 2
PROPERTIES
  ImplementsUpstream
SYMMETRY Symmetry
