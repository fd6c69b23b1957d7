CONSTANTS
    Servers = {s1}
    BumpFails = FALSE
    MaxReadChanges = 2
    MaxReadFaults = 2
    None = None
    Rosters <- ThreeRosters
    UsersDeltaMax = 5
    Midway = FALSE
    Climates = {"rough", "calm"}
    BadConfig = FALSE
    MaxChanges = 2
    MaxFaults = 2
    QueueSize = 2
    EventBuffer = 2
SPECIFICATION MCSpec
INVARIANTS
  
  ReadsInv
PROPERTIES
  
  EveryChangeArrives
