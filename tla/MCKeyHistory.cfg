SPECIFICATION HistorySpec
CONSTANTS
  Endpoint = {e1, e2, e3}
  Name = {n1, n2, n3}
  NoName = NoName
  Group = {g1}
  Secret = {s1}
  OpKey = {k1, k2}
  Backup = Backup
  Grants <- MCGrants
  MaxDek = 3
  MaxVersion = 2
SYMMETRY Symmetry
INVARIANTS
  WrapsMatchReaders
  WrapsJustified
  AdministrableOverTheWire
  AuthorizedGetNeverFails
PROPERTIES
  LastAdminOnlyByRemoval
  BackfillAdvances
  WritesUnderUnheldKeys
