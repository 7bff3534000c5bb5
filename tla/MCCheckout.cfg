SPECIFICATION McSpec
CONSTANTS
  s1 = s1
  s2 = s2
  u1 = u1
  u2 = u2
  o1 = o1
  o2 = o2
  c1 = c1
  k1 = k1
  k2 = k2
  e1 = e1
  NoTx = NoTx
  NoSku = NoSku
  NoCoupon = NoCoupon
  Sku <- McSku
  User <- McUser
  Order <- McOrder
  Coupon = {c1}
  Modes = {"MANUAL"}
  Tx <- McTx
  CheckoutTx = {k1, k2}
  CartTx = {e1}
  MoveTx = {}
  StockTx = {}
  Actors = {}
  Jobs = {}
  Shoppers = {u1}
  Deltas = {}
  MaxSupply = 0
  MaxQty = 1
  Limit <- McLimit
  Stock0 <- McStock
  Cart0 <- McCart
  Seed <- McSeed
  MaxFaults = 0
CHECK_DEADLOCK FALSE
INVARIANTS TypeOK OneOrderPerCart CouponWithinLimit DeadlocksOverRows
PROPERTIES EveryCheckoutEnds
