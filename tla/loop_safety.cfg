SPECIFICATION Spec
CONSTANTS
  Nil = Nil
  Contents = {a}
  NExtras = 2
  Optional <- MonitoringExtras
  Installed <- FirstExtra
  OmitsZero = TRUE
  VendorFinalizers = TRUE
  HasPVCs = TRUE
  ForeignFinalizer = TRUE
  MaxCreates = 2
  MaxEdits = 1
  MaxFaults = 1
  MaxDrifts = 0
INVARIANTS TypeOK NoOrphan TeardownJustified ObservedIsApplied NoLostWakeup
PROPERTIES ImplementsGate StorageSpared
CHECK_DEADLOCK FALSE
