SPECIFICATION Spec
CONSTANTS
  Notes <- TwoNotes
  Engagements <- OneRepost
  Target <- OnLater
  Regimes <- QuietOrUpset
INVARIANTS
  SubscriptionFollows
  AppendsConverge
PROPERTIES
  NewestTracked
  EngagementsDecided
  Resubscribed
CHECK_DEADLOCK FALSE
