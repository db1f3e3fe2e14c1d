SPECIFICATION MCSpec
CONSTANTS
  Absent = Absent
  x1 = x1
  x2 = x2
  u1 = u1
  u2 = u2
  u3 = u3
  n1 = n1
  n2 = n2
  n3 = n3
  m1 = m1
  m2 = m2
  Admin = {x1}
  Meta = {m1}
  Name = {n1, n2, n3}
  Caller = {u1}
  BatcherAddress = u3
  Target = {n1, n2}
  Batches <- MCBatches
  BatcherMeta = {m1, m2}
  MaxBatchSize = 3
  FeePerOp = 100
  MaxEffects = 5
  HostReentry = TRUE
  Owner = {u1, u2}
  Delegate = {u2, u3, n1}
  Permission = {m1, m2}
  PermissionLists <- MCPermissionLists
  Contract = {n1, n2}
  MaxDelegatePerms = 2
  MaxDelegatesPerOwner = 2
  Addresses = {u1, u2, u3}
  AccountMeta <- MCAccountMeta
  MaxAccountsPerOwner = 1
  MaxVersionLength = 1
  MaxDescriptionLength = 1
  MaxAuthorLength = 1
  Wallet = {x1, x2}
  MaxWallets = 2
  Version = {u1, u2}
  MaxContracts = 2
  Account = {u1}
  Asset = {n1, n2}
  Limits = {0, 1, 2}
  Periods = {0, 2}
  Spends <- MCSpends
  MaxLedger = 2
  MaxChecks = 1
INVARIANTS
  TypeOK
  BatchSound
  RecordsAgree
  SimulationPredictsDeploy
PROPERTIES
  NothingBlocksForGood
  ImplementsAtomicBatch
  ImplementsDirectory
  ChangesArePermitted
