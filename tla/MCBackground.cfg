SPECIFICATION MCSpec
CONSTANTS
  u1 = u1
  w1 = w1
  w2 = w2
  None = None
  Orders = {o1}
  Users = {u1}
  NoUser = NoUser
  Offline = offline
  Providers = {offline, btcpay}
  StoresRef = {btcpay}
  StrictRef = {btcpay}
  MaxIntents = 1
  MaxCaptures = 1
  MaxAmount = 0
  MaxBalance = 0
  Surcharges = {0}
  Placements <- RenewalResetOrTopup
  Adjustments = {}
  Workers = {w1}
  Referrer <- NobodyRefers
  RatePercent = 0
  FirstOrderOnly = FALSE
  Coupons = {}
  NoCoupon = NoCoupon
  Unlimited = Unlimited
  MaxRedemptions <- OneUse
  MaxPerUser <- OneUse
CHECK_DEADLOCK FALSE
PROPERTIES
  PendingOrdersClose
  CapturedMoneyIsRecorded
  RoundsCatchUp
  EveryCallbackBooked
