SPECIFICATION Spec
CONSTANTS
  People <- TwoPeople
  Payments <- TwoZaps
  Socials <- NoEvents
  Minimums <- JustTwo
  Capacities <- JustOne
  OperatorAmounts <- Three
  Author <- AuthorsOf
  Sats <- SatsOf
  Kind <- KindsOf
  Operations = {}
  ResetEnabled = FALSE
  TagsConfigured = TRUE
  DayLength = 1
  MaxTime = 0
PROPERTIES
  RefusedZapIsTold
CHECK_DEADLOCK FALSE
