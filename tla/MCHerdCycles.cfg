SPECIFICATION Spec
CONSTANTS
  People <- ThreePeople
  Payments <- ZapNames
  Socials <- SocialNames
  Minimums <- OneTwo
  Capacities <- OneTwo
  OperatorAmounts <- Three
  Author <- AuthorsOf
  Sats <- SatsOf
  Kind <- KindsOf
  Operations = {"restart", "reset", "ban", "refresh"}
  ResetEnabled = TRUE
  TagsConfigured = TRUE
  DayLength = 1
  MaxTime = 1
INVARIANTS
  KindsAwarded
PROPERTIES
  NoUnfairDisplacement
  PaymentsCountOnce
  RolloverKeepsTodaysZaps
ACTION_CONSTRAINT ByFamily
CHECK_DEADLOCK FALSE
