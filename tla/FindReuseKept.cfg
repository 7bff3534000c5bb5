SPECIFICATION Spec
CONSTANTS
  r1 = r1
  r2 = r2
  Token = {1, 2}
  NoToken = 0
  Device = {1}
  Request = {r1}
  Tabs <- One
INVARIANTS ReuseRevokesFamily
