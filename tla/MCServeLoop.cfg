SPECIFICATION FairSpec
CONSTANTS
  BackoffCap = 2
  Pod = {p1, p2}
  Me = p1
  NoKey = NoKey
  Relay = {r1, r2}
  DownSamples = 2
  Threshold = 3
  p1 = p1
  p2 = p2
  r1 = r1
  r2 = r2
INVARIANTS
  GenerationsDoNotOverlap
  RebindsAreJustified
  StoredKeyWins
PROPERTIES
  ShutdownCompletes
  WedgedIsRebound
