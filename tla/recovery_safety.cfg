SPECIFICATION Spec
CONSTANTS
  Guardian = {g1, g2, g3}
  Holder = {o1, o2}
  NoAddress = NoAddress
  GuardianLists <- MCListsUpTo2
  Registry = {r1}
  DeployedWasm = w0
  Wasm = {w0, w1}
  Timelock = 2
  Expiry = 3
  MaxGuardians = 3
  U32Max = 5
SYMMETRY MCSymmetry
INVARIANTS
  TypeOK
  RequestSound
PROPERTIES
  TimelockRespected
  QuorumRespected
  ApprovalsAreSigned
  OwnerControlsConfiguration
  ImplementsTimelockedOwnership
