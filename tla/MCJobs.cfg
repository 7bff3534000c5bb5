SPECIFICATION McSpec
CONSTANTS
  s1 = s1
  o1 = o1
  o2 = o2
  p1 = p1
  p2 = p2
  c1 = c1
  c2 = c2
  c3 = c3
  r1 = r1
  r2 = r2
  Sku <- McSku
  Order = {o1, o2}
  Contents <- McContents
  Deltas <- McDeltas
  Process = {p1, p2}
  Conn = {c1, c2, c3}
  PoolOf <- McPoolOf
  Run = {r1, r2}
  NoProcess = NoProcess
INVARIANT OneProcessPerJob
