SPECIFICATION Spec
CONSTANTS
  gold = gold
  gems = gems
  Subscriber = {1, 2}
  Currency = {gold}
  Purchase = {p1}
  GrantAmount <- MCGrantAmount
  AdminRef = {}
  AdminAmount = {1}
  SpendRef = {}
  SpendAmount = {1}
  Transfer <- MCTransferOnce
  Worker = {w1}
  MaxInt = 4
  MaxTx = 3
INVARIANT GrantedOncePerPurchase
CHECK_DEADLOCK FALSE
