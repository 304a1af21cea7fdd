SPECIFICATION Spec
CONSTANTS
  Payments <- TwoPayments
  Zappers <- BothZappers
  Zapper <- Senders
  Recipient <- PTags
  Noted <- OneOfTwo
  Targets <- TwoTargets
  Requests <- ThreeRequests
  BatchSize = 1
  MaxUpsets = 2
INVARIANTS
  CountedOnce
PROPERTIES
  RefreshComplete
