SPECIFICATION Spec
CONSTANTS
  Notes <- TwoNotes
  Payments <- ThreePayments
  Zapper <- TwoZappers
  Note <- NamedNotes
  Time <- InvoiceTimes
  PageSize = 2
  MaxUpsets = 1
PROPERTIES
  PassComplete
CHECK_DEADLOCK FALSE
