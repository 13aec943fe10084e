SPECIFICATION Spec
CONSTANTS
  Namespaces = {n1, n2}
  Names = {a, b}
  Patient = {}
  MaxRemovals = 1
  MaxFaults = 0
INVARIANTS AtMostOne
