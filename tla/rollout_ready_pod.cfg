SPECIFICATION Spec
CONSTANTS
  NPods = 2
  MaxChanges = 1
  MaxFlaps = 1
  MaxFaults = 0
  Nil = Nil
PROPERTIES ReadySpared
