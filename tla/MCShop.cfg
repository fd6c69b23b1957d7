SPECIFICATION Spec
CONSTANTS
  u1 = u1
  u2 = u2
  c1 = c1
  Orders = {o1, o2, o3}
  Users = {u1, u2}
  NoUser = NoUser
  Offline = offline
  Providers = {offline, btcpay}
  StoresRef = {btcpay}
  StrictRef = {btcpay}
  MaxIntents = 1
  MaxCaptures = 1
  MaxAmount = 0
  MaxBalance = 1
  Surcharges = {1}
  Placements <- Mixed
  Adjustments <- UpAndDown
  Workers = {w1}
  Referrer <- SecondIsReferred
  RatePercent = 50
  FirstOrderOnly = TRUE
  Coupons = {c1}
  NoCoupon = NoCoupon
  Unlimited = Unlimited
  MaxRedemptions <- OneUse
  MaxPerUser <- OneUse
CONSTRAINT OfflineOrRivals
SYMMETRY OrderSymmetry
INVARIANTS
  CouponInv
  LedgerInv
  PatrolClean
  ReservationsFollowOrder
  MoneyInv
  CommissionAccruedOnce
PROPERTIES
  RowsAreFinal
