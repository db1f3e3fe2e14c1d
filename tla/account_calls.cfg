SPECIFICATION Spec
CONSTANTS
  Owner = {o1}
  Delegate = {}
  SessionKey = {k1}
  Asset = {a1}
  Method = {m1}
  Meta = {}
  Account = Account
  Absent = Absent
  Expiries <- MCExpiries
  ScopeSets <- MCScopeSets
  Amounts <- MCAmounts
  Periods <- MCPeriods
  Spends <- MCSpends
  MaxDelegates = 2
  MaxSessionKeys = 2
  NonceMax = 2
  U32Max = 7
  CloseTime = 2
  MaxLedger = 3
  MaxCalls = 3
  HostReentry = TRUE
SYMMETRY MCSymmetry
INVARIANTS
  TypeOK
  GuardTracksCalls
  NoncesInOrder
  WindowBound
PROPERTIES
  NoDebitInsideCall
  CallsAreGranted
