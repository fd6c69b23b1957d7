SPECIFICATION FairSpec
CONSTANTS
  n1 = n1
  n2 = n2
  KeyOrder <- TwoNodes
  Rates <- OneAndAHalf
  MaxBuffered = 1
  MaxEntries = 1
  MaxEntryBytes = 1
  Owned <- EveryNode
  Rosters <- User1OnN1OrAll
  QueueSize = 1
  EventBuffer = 1
  MaxBytes = 2
  MaxBreaks = 1
  MaxRestarts = 1
  Reconfigured = TRUE
  Revocable = TRUE

  
PROPERTIES
  TrafficSteps
  
