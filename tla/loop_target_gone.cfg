SPECIFICATION Spec
CONSTANTS
  Nil = Nil
  Contents = {a}
  NExtras = 1
  Optional <- FirstExtra
  Installed <- FirstExtra
  OmitsZero = TRUE
  VendorFinalizers = TRUE
  HasPVCs = FALSE
  ForeignFinalizer = FALSE
  MaxCreates = 1
  MaxEdits = 1
  MaxFaults = 0
  MaxDrifts = 0
INVARIANTS TargetGoneFirst
CHECK_DEADLOCK FALSE
