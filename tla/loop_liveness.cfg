SPECIFICATION Spec
CONSTANTS
  Nil = Nil
  Contents = {a}
  NExtras = 1
  Optional <- FirstExtra
  Installed <- FirstExtra
  OmitsZero = TRUE
  VendorFinalizers = TRUE
  HasPVCs = FALSE
  ForeignFinalizer = FALSE
  MaxCreates = 2
  MaxEdits = 1
  MaxFaults = 1
  MaxDrifts = 1
PROPERTIES DeletionCompletes Converges StatusFollows
CHECK_DEADLOCK FALSE
