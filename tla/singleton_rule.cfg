SPECIFICATION Spec
CONSTANTS
  Namespaces = {n1, n2}
  Names = {a, b}
  Patient = {n1}
  MaxRemovals = 2
  MaxFaults = 1
INVARIANTS TypeOK PatientSingleton
PROPERTIES Provisioned
