SPECIFICATION Spec
CONSTANTS
  NPods = 2
  MaxChanges = 2
  MaxFlaps = 1
  MaxFaults = 1
  Nil = Nil
INVARIANTS TypeOK OneLineage
PROPERTIES PatchReachesPods
