SPECIFICATION Spec
CONSTANTS
  People = {"ann", "bob"}
  Points <- OnePoint
  Policies <- ZapOrNot
  Operations = {"admit", "manage", "post", "reset"}
  Faults = {"crash", "write", "reset"}
  ResetEnabled = TRUE
  MaxChanges = 2
  MaxFaults = 1
  MaxDay = 1
INVARIANTS
  TypeOK
  PaysOnlyThisCycle
PROPERTIES
  TargetsMoveForward
  NewDayReachesTargets
CHECK_DEADLOCK FALSE
