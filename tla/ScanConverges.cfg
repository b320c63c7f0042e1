SPECIFICATION FairSpec
CONSTANTS
  Block <- MCBlock
  Genesis = "g0"
  Parent <- MCParent
  Number <- MCNumber
  Tx <- OneTx
  Natives <- NoNatives
  Logs <- OneLog
  MaxHeight <- MCMaxHeight
  Chains <- MCChains
  Latest = Latest
  NoHead = NoHead
  MinReorgDepth = 2
  Confirmations = 1
  StartBlock = Latest
  MaxReorgs = 1
  MaxFaults = 1
  MaxSwallowed = 1
  MaxRestarts = 1
INVARIANT TypeOK
PROPERTIES Converges ImplementsCheckpoint
