SPECIFICATION McSpec
CONSTANTS
  a1 = a1
  a2 = a2
  Admin = {a1, a2}
  Row <- McRow
  MaxAt = 2
  MaxWrites = 2
  NoRow = NoRow
  Limits = {1, 2}
INVARIANTS TypeOK NoRepeats NoneSlipsBack PagesNotEmpty UsedCouponsStay
PROPERTY ScrollEnds
CHECK_DEADLOCK FALSE
