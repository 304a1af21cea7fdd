SPECIFICATION Spec
CONSTANTS
  People <- TwoPeople
  Payments <- OneZap
  Socials <- JustRepost
  Minimums <- OneTwo
  Capacities <- JustOne
  OperatorAmounts <- Three
  Author <- AuthorsOf
  Sats <- SatsOf
  Kind <- KindsOf
  Operations = {"ban", "deactivate", "activate", "put", "post", "delete", "prune", "settings"}
  ResetEnabled = FALSE
  TagsConfigured = TRUE
  DayLength = 1
  MaxTime = 0
INVARIANTS
  TypeOK
  BannedInactive
  PayoutsFresh
PROPERTIES
  AdmissionRespectsCapacity
  AwardsSurvive
CHECK_DEADLOCK FALSE
