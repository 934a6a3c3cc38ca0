SPECIFICATION Spec
CONSTANTS
  Target = {t1, t2}
  Group = {g1, g2}
  Data = {d1}
  Bad = Bad
  None = None
  MaxEvents = 2
SYMMETRY Symmetry
PROPERTIES
  RetainKeepsEverySecret
CHECK_DEADLOCK FALSE
