CONSTANTS
    None = None
    Versions <- MCVersions
    FirstVersion = 1
    Bad <- Broken
    FsyncFails = FALSE
    Climates = {"rough", "calm"}
    MaxJobs = 2
    MaxFaults = 2
SPECIFICATION UpgradeFairSpec

  
PROPERTIES
  
  PanelLearns
