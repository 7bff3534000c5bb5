SPECIFICATION Spec
CONSTANTS
  s1 = s1
  m1 = m1
  g1 = g1
  c1 = c1
  c2 = c2
  c3 = c3
  r1 = r1
  r2 = r2
  NoSession = NoSession
  NoCart = NoCart
  NoOwner = NoOwner
  NoSku = NoSku
  Sku = {s1}
  Member = {m1}
  Session = {g1}
  Cart = {c1, c2, c3}
  Request = {r1, r2}
  Qtys = {1}
  Shelves <- McShelves
  MaxStock = 2
  MaxUnits = 3
PROPERTY SweepSparesLiveCarts
SYMMETRY Alike
