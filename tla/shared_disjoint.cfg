SPECIFICATION Spec
CONSTANTS
  Nil = Nil
  Fleet <- DisjointFleet
  MaxEdits = 3
INVARIANTS TypeOK Undisturbed NoRemains
CHECK_DEADLOCK FALSE
