SPECIFICATION Spec
CONSTANTS
  gold = gold
  gems = gems
  Subscriber = {1, 2, 3}
  Currency = {gold, gems}
  Purchase = {p1}
  GrantAmount <- MCGrantAmount
  AdminRef = {k1}
  AdminAmount = {1}
  SpendRef = {s1}
  SpendAmount = {1}
  Transfer <- MCTransferBothWays
  Worker = {w1, w2}
  MaxInt = 3
  MaxTx = 3
INVARIANTS IInv GrantOnce SpendOnce LatestBalanceIsTotal   NoWaitCycle
CONSTRAINT AdminApart
CHECK_DEADLOCK FALSE
SYMMETRY Workers
