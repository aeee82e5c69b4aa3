SPECIFICATION Spec
CONSTANTS
  gold = gold
  gems = gems
  Subscriber = {1, 2}
  Currency = {gold}
  Purchase = {p1}
  GrantAmount <- MCGrantAmount
  AdminRef = {}
  AdminAmount = {1}
  SpendRef = {s1}
  SpendAmount = {1}
  Transfer <- MCTransferBothWays
  Worker = {w1, w2}
  MaxInt = 3
  MaxTx = 3
INVARIANT TransferKeepsCredits
CHECK_DEADLOCK FALSE
