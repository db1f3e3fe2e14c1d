SPECIFICATION Spec
CONSTANTS
  Admin = {x1}
  Account = {u1}
  Asset = {n1}
  Absent = Absent
  Limits = {1, 2}
  Periods = {1, 2}
  Spends = {1, 2}
  MaxLedger = 3
  MaxChecks = 2
PROPERTIES
  CheckAdvancesWindow
