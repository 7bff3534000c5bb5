SPECIFICATION McSpec
CONSTANTS
  s1 = s1
  s2 = s2
  u1 = u1
  o1 = o1
  o2 = o2
  k1 = k1
  m1 = m1
  a1 = a1
  NoTx = NoTx
  NoSku = NoSku
  NoCoupon = NoCoupon
  Sku <- McSku
  User = {u1}
  Order <- McOrder
  Coupon = {}
  Modes = {"AUTO_SUCCESS"}
  Tx <- McTx
  CheckoutTx = {k1}
  Shoppers = {}
  MoveTx = {m1}
  CartTx = {}
  StockTx = {a1}
  Actors = {}
  Jobs = {"cancel"}
  Deltas <- McDeltas
  MaxSupply = 1
  MaxQty = 1
  Limit <- McLimit
  Stock0 <- McStock
  Cart0 <- McCart
  Seed <- McSeed
  MaxFaults = 1
INVARIANTS RowsGuarded
PROPERTIES ImplementsFulfilment PendingResolves
