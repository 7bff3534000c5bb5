SPECIFICATION FairSpec
CONSTANTS
  u1 = u1
  u2 = u2
  r1 = r1
  r2 = r2
  Boot = Boot
  NoUser = NoUser
  NoPass = NoPass
  User = {u1, u2}
  Serial <- McSerial
  Request = {r1, r2}
INVARIANTS TypeOK ShownUserOwnsCookie ReuseOnlyAfterLoss
PROPERTIES RequestsSettle BootFinishes
