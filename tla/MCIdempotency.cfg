CONSTANTS
    None = None
    Requests = {e1, e2, e3}
    Hashes = {h1, h2}
    MaxRows = 2
    MaxFaults = 2
SPECIFICATION KeyFairSpec
CHECK_DEADLOCK FALSE
INVARIANTS
  IdempotencyInv
PROPERTIES
  SuccessIsFinal
  KeyFreed
