SPECIFICATION Spec
CONSTANTS
  s1 = s1
  s2 = s2
  u1 = u1
  o1 = o1
  o2 = o2
  m1 = m1
  m2 = m2
  NoTx = NoTx
  NoSku = NoSku
  NoCoupon = NoCoupon
  Sku <- McSku
  User = {u1}
  Order <- McOrder
  Coupon = {}
  Modes = {}
  Tx <- McTx
  CheckoutTx = {}
  MoveTx <- McTx
  CartTx = {}
  StockTx = {}
  Actors = {"ADMIN", "SUPER_ADMIN"}
  Shoppers = {}
  Jobs = {"cancel", "complete"}
  Deltas = {}
  MaxSupply = 0
  MaxQty = 1
  Limit <- McLimit
  Stock0 <- McStock
  Cart0 <- McCart
  Seed <- McSeed
  MaxFaults = 1
INVARIANTS HistoryIsAWalk EffectsOnce
PROPERTIES ImplementsFulfilment
