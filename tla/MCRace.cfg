SPECIFICATION Spec
CONSTANTS
  u1 = u1
  u2 = u2
  c1 = c1
  Orders = {o1}
  Users = {u1}
  NoUser = NoUser
  Offline = offline
  Providers = {offline, btcpay}
  StoresRef = {btcpay}
  StrictRef = {btcpay}
  MaxIntents = 2
  MaxCaptures = 2
  MaxAmount = 0
  MaxBalance = 0
  Surcharges = {1}
  Placements <- OneNewOrder
  Adjustments = {}
  Workers = {w1, w2}
  Referrer <- NobodyRefers
  RatePercent = 0
  FirstOrderOnly = FALSE
  Coupons = {}
  NoCoupon = NoCoupon
  Unlimited = Unlimited
  MaxRedemptions <- OneUse
  MaxPerUser <- OneUse
SYMMETRY WorkerSymmetry
CONSTRAINT TwoPagesOrTwoPayments
CHECK_DEADLOCK FALSE
INVARIANTS
  PaymentInv
  PaidExactlyOnce
  MoneyInv
PROPERTIES
  KeepsPromise
