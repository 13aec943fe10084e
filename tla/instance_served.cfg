SPECIFICATION Spec
CONSTANTS
  Classes = {"nginx", "haproxy"}
  MaxEdits = 1
INVARIANTS TypeOK NoPrematureReady ForeignKept  OnlyKnownGaps
PROPERTIES ClassUntouched ImplementsGate StatusMeansServed TargetFollowsSpec RouteFollowsDefault DeletionEnds
CHECK_DEADLOCK FALSE
