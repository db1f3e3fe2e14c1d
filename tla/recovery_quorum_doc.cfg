SPECIFICATION Spec
CONSTANTS
  Guardian = {g1, g2}
  Holder = {o1, o2}
  NoAddress = NoAddress
  GuardianLists <- MCDistinctLists
  Registry = {r1}
  DeployedWasm = w0
  Wasm = {w0}
  Timelock = 2
  Expiry = 3
  MaxGuardians = 2
  U32Max = 5
INVARIANTS
  QuorumWithinGuardians
