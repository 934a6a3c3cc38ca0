SPECIFICATION Spec
CONSTANTS
  Group = {1, 2}
  Name = {1, 2}
  Identity = {1, 2}
  Me = 1
  Typed <- MCTyped
  MaxEvents = 2
INVARIANTS
  TypeOK
  SelectionsInRange
  PaneIsOfSelectedGroup
  AclIsOfItsGroup
  
CHECK_DEADLOCK FALSE
