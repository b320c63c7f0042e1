SPECIFICATION FairSpec
CONSTANTS
  Block <- MCBlock
  Genesis = "g0"
  Parent <- MCParent
  Number <- MCNumber
  Tx <- MCTx
  Natives <- NoNatives
  Logs <- MCLogs
  MaxHeight <- MCMaxHeight
  Chains <- TwoBranches
  NoLog = NoLog
  NoHead = NoHead
  Required = 1
  MaxReorgs = 1
  MaxOther = 3
  MaxDrops = 1
  MaxSkips = 1
  MaxRestarts = 1
INVARIANTS TypeOK MissedOnlyUnheard
PROPERTIES FinalIsForGood RowsSettle
