SPECIFICATION Spec
CONSTANTS
  Notes <- TwoNotes
  Engagements <- OneRepost
  Target <- OnLater
  Regimes <- OneAtATime
PROPERTIES
  QuietStaysConnected
CHECK_DEADLOCK FALSE
