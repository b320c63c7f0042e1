SPECIFICATION Spec
CONSTANTS
  Tx <- PairTx
  Event <- PairEvent
  TxOf <- PairTxOf
  NoTx = NoTx
  Endpoint <- OneEndpoint
  Silent <- NoEvents
  RetryLimit = 5
  MaxFaults = 1
  MaxRestarts = 1
  MaxRollbacks = 1
CHECK_DEADLOCK FALSE
INVARIANTS NotifiedHasDelivery ExclusiveHands NotifiedWasTried AttemptsBounded
PROPERTY NotifiedIsFinal
