SPECIFICATION FairSpec
CONSTANTS
  N = 3
  MaxFailCount = 3
INVARIANTS TypeOK CurrentIsHealthy
PROPERTIES GivenUpForErrors EndpointsRecover
