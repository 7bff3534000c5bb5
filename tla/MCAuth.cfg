SPECIFICATION Spec
CONSTANTS
  r1 = r1
  r2 = r2
  Token = {1, 2, 3}
  NoToken = 0
  Device = {1, 2}
  Request = {r1, r2}
  Tabs <- OneAndTwo
INVARIANTS TypeOK OneTokenPerFamily RefusedOnlyLate
PROPERTIES ImplementsSessions
SYMMETRY EitherRequest
