SPECIFICATION FairSpec
CONSTANTS
  Listener <- TwoListeners
  Worker <- OneWorker
  NoListener = NoListener
  HasWebSocket <- OneWebSocket
CHECK_DEADLOCK FALSE
INVARIANTS TypeOK ClosedAfterUse
PROPERTIES StopReturnsOrEntangles ReloadsAreAnswered
