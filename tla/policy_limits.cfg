SPECIFICATION Spec
CONSTANTS
  Admin = {x1}
  Wallet = {w1, w2, w3}
  Registry = {r1}
  Absent = Absent
  Limits = {0, 2}
  Days <- MCDays
  Spends <- MCSpends
  MaxWallets = 2
  U32Max = 4
  MaxLedger = 3
  MaxFrames = 1
  HostReentry = FALSE
SYMMETRY MCSymmetry
INVARIANTS
  TypeOK
  WalletsCounted
  WindowBound
  ViewPredictsSpend
PROPERTIES
  OnlyWalletCharges
  ImplementsSpendMeter
