SPECIFICATION Spec
CONSTANTS
  People = {"ann", "bob"}
  Points <- TwoPoints
  Policies <- ZapTenTwenty
  Operations = {"admit", "settings", "reset"}
  Faults = {"crash", "reset"}
  ResetEnabled = TRUE
  MaxChanges = 3
  MaxFaults = 1
  MaxDay = 1
INVARIANTS
  QuietMeansCurrent
CHECK_DEADLOCK FALSE
