SPECIFICATION MCSpec
CONSTANTS
    None = None
    Cycle = 3
    Validity = 2
    Grace = 1
    Window = 3
    PayWindow = 1
    Days = {1, 3}
    DayLimit = 1
    Agendas <- MovingOrCharging
INVARIANTS
  SubscriptionInv
  ChangeInv
PROPERTIES
  RollCatchesUp
CHECK_DEADLOCK FALSE
