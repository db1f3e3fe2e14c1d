SPECIFICATION Spec
CONSTANTS
  Owner = {o1}
  Delegate = {d1, d2, d3}
  SessionKey = {k1, k2}
  Asset = {}
  Method = {m1}
  Meta = {}
  Account = Account
  Absent = Absent
  Expiries = {3, 6}
  ScopeSets <- MCFullScopes
  Amounts <- MCAmounts
  Periods <- MCPeriods
  Spends <- MCSpends
  MaxDelegates = 2
  MaxSessionKeys = 1
  NonceMax = 2
  U32Max = 7
  CloseTime = 2
  MaxLedger = 3
  MaxCalls = 1
  HostReentry = TRUE
SYMMETRY MCSymmetry
INVARIANTS
  SlotsSound
  IndexSound
PROPERTIES
  LiveDelegatesKept
