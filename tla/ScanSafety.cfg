SPECIFICATION Spec
CONSTANTS
  Block <- MCBlock
  Genesis = "g0"
  Parent <- MCParent
  Number <- MCNumber
  Tx <- MCTx
  Natives <- MCNatives
  Logs <- MCLogs
  MaxHeight <- MCMaxHeight
  Chains <- MCChains
  Latest = Latest
  NoHead = NoHead
  MinReorgDepth = 2
  Confirmations = 1
  StartBlock = 0
  MaxReorgs = 1
  MaxFaults = 1
  MaxSwallowed = 1
  MaxRestarts = 1
INVARIANTS BlocksLinked CheckpointAfterRows RolledBackIsRescanned ReorgIsReal OrphansAreInvisible
PROPERTY RollbackIsAtomic
