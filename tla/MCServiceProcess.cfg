CONSTANTS
  Deployments <- MCDeployments
  MaxRequests = 1
  MaxFaults = 2
  MaxSignals = 1
CHECK_DEADLOCK FALSE
SPECIFICATION FairProcSpec
INVARIANTS
  ServersSound
  EventsFindConnections
PROPERTIES
  StopsOnSignal
  AllServe
