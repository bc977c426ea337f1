SPECIFICATION Spec
CONSTANTS
  a1 = a1
  a2 = a2
  p1 = p1
  p2 = p2
  Accounts = {a1, a2}
  Pools = {p1, p2}
  StandardPools = {}
  Positions <- OneEach
  Loads = {l1, l2}
  MaxConnects = 1
  None = None

INVARIANTS
  TablesOfOneWallet
  SpinnersHaveLoads
