SPECIFICATION FairSpec
CONSTANTS
  Address <- MCAddress
  Stable <- MCStable
  Request <- TwoRequests
  NoFilter = NoFilter
  NoAddress = NoAddress
  NoOne = NoOne
  MaxChanges = 2
  MaxFaults = 1
INVARIANTS TypeOK StableAddressesAreSeen AddressesTakeEffect
PROPERTY ScanIsResumed
