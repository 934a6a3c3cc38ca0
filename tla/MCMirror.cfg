SPECIFICATION Spec
CONSTANTS
  e1 = e1
  e2 = e2
  alice = alice
  bob = bob
  Endpoint <- MCEndpoint
  Name <- MCName
  Group = {g1, g2}
  None = None
  Perms <- MCPerms
  First <- MCFirst
  MaxChanges = 4
  MaxFaults = 1
INVARIANTS
  TypeOK
  CleanGroupsAnswerAlike
  ApplyNeverWedges
  LastEntryWins
CHECK_DEADLOCK FALSE
