SPECIFICATION Spec
CONSTANTS
  Tx <- PairTx
  Event <- PairEvent
  TxOf <- PairTxOf
  NoTx = NoTx
  Endpoint <- OneEndpoint
  Silent <- NoEvents
  RetryLimit = 5
  MaxFaults = 0
  MaxRestarts = 0
  MaxRollbacks = 1
CHECK_DEADLOCK FALSE
INVARIANT DeliveriesAreRevoked
