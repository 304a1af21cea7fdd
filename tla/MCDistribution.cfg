SPECIFICATION Spec
CONSTANTS
  Feedings = {"feed"}
  Recipients = {"ann", "goats"}
  Members = {"ann"}
  Invoices = {"inv1", "inv2"}
  MaxFunds = 2
  MaxFaults = 2
CONSTRAINT Small
INVARIANTS
  TypeOK
  FeedingMovesOnce
  RecipientPaidOnce
  NoticesTellTheTruth
PROPERTIES
  RecipientsFixedAtFunding
  OutcomeStands
  PayoutsAsPromised
  SettledIsAccounted
