\* A limit of two subscriptions and two unpaid orders; amounts on both sides of every minimum payment.
SPECIFICATION MCSpec
CONSTANTS
    r1 = r1
    r2 = r2
    r3 = r3
    u1 = u1
    u2 = u2
    k1 = k1
    k2 = k2
    Requests = {r1, r2, r3}
    MaxSubscriptions = 2
    MaxUnpaidOrders = 2
    MaxOrders = 6
    MaxAmount = 5
    MinPayments = {0, 1, 3, 4}
    SmallDue = 2
    MaxMoves = 2
    Users = {u1, u2}
    Codes = {k1, k2}
    Limits = {0, 1}
    MaxEdits = 3
    None = None
SYMMETRY Symmetric
CHECK_DEADLOCK FALSE
INVARIANTS
  CapsInv
  CheckoutInv
  CardInv
  
PROPERTIES
  CardSteps
