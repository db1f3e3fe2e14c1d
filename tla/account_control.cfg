SPECIFICATION Spec
CONSTANTS
  Owner = {o1}
  Delegate = {d1}
  SessionKey = {k1}
  Asset = {a1, a2}
  Method = {m1}
  Meta = {x1}
  Account = Account
  Absent = Absent
  Expiries = {3}
  ScopeSets <- MCFullScopes
  Amounts = {2}
  Periods = {1, 2}
  Spends <- MCSpends
  MaxDelegates = 2
  MaxSessionKeys = 2
  NonceMax = 2
  U32Max = 7
  CloseTime = 2
  MaxLedger = 2
  MaxCalls = 2
  HostReentry = FALSE
SYMMETRY MCSymmetry
PROPERTIES
  PausedFreezes
  OwnerConfigures
  ImplementsSpendMeter
