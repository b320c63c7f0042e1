SPECIFICATION Spec
CONSTANTS
  Block <- MCBlock
  Genesis = "g0"
  Parent <- MCParent
  Number <- MCNumber
  Chains <- MCBranches
  MaxHeight <- MCMaxHeight
  Tx <- MCTx
  Natives <- MCNatives
  Logs <- MCLogs
  Data <- MCData
  Account <- MCAccount
  Token <- MCToken
  Monitored <- MCMonitored
  OwnContract <- MCOwnContract
  Code <- MCCode
  WithdrawEOA = "vault"
  RollbackDepth = 2
  StartBlock = 2
  MaxReorgs = 1
  MaxFaults = 1
  MaxSwallowed = 1
  MaxRestarts = 1
INVARIANTS TypeOK AsIfScannedOnce NoOrphanRows BalancesAreOnChain
CHECK_DEADLOCK FALSE
