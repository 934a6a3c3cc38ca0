SPECIFICATION Spec
CONSTANTS
  g1 = g1
  g2 = g2
  v1 = v1
  v2 = v2
  o1 = o1
  Group = {g1, g2}
  Key = {"?", "a", "b"}
  KeyOrder <- MCKeyOrder
  ValidKey = {"a", "b"}
  Object <- MCObject
  Locked = Locked
  None = None
  Content <- MCContent
  StartMirror <- MCStartMirror
  CrSpec <- MCCrSpec
  Capacity = 2
  Connected = Connected
  Disconnected = Disconnected
  Touch = Touch
  MaxChanges = 3
INVARIANTS
  TypeOK
  
  NoMissedWakeup
  
