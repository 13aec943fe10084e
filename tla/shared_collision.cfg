SPECIFICATION Spec
CONSTANTS
  Nil = Nil
  Fleet <- CollidingFleet
  MaxEdits = 3
INVARIANTS Undisturbed
CHECK_DEADLOCK FALSE
