SPECIFICATION Spec
CONSTANTS
  gold = gold
  gems = gems
  Subscriber = {1}
  Currency = {gold}
  Purchase = {p1}
  GrantAmount <- MCGrantAmount
  AdminRef = {}
  AdminAmount = {1}
  SpendRef = {s1, s2, s3}
  SpendAmount = {1}
  Transfer <- MCNoTransfer
  Worker = {w1, w2}
  MaxInt = 3
  MaxTx = 4
SYMMETRY Workers
INVARIANT NoOverdraft
CHECK_DEADLOCK FALSE
