SPECIFICATION Spec
CONSTANTS
  Endpoint <- MCEndpoint
  Order <- MCOrder
  Persistent <- MCPersistent
  Amounts <- MCAmounts
  FloatBits = 3
  IntBits = 6
CHECK_DEADLOCK FALSE
INVARIANTS TypeOK AskedUntilAnswered AmountsArrive
PROPERTIES ImplementsDelivery
