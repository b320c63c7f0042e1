SPECIFICATION FairSpec
CONSTANTS
  Tx <- MCTx
  Event <- MCEvent
  TxOf <- MCTxOf
  NoTx = NoTx
  Endpoint <- OneEndpoint
  Silent <- SilentF
  RetryLimit = 2
  MaxFaults = 1
  MaxRestarts = 0
  MaxRollbacks = 0
CHECK_DEADLOCK FALSE
INVARIANT TypeOK
PROPERTY Settles
