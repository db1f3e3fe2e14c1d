------------------------------ MODULE MCTests ------------------------------
(***************************************************************************)
(* The test suites of all contracts. A behaviour is one test: the contract *)
(* it is about takes its steps, and the variables of the others keep their *)
(* first values. Variables of the same name are shared between contracts.  *)
(***************************************************************************)
EXTENDS Naturals

CONSTANT Absent

VARIABLES
  contract, test, step,
  admin, owner, signers, sequence, frames, executing, threshold, metadata,
  meta, effects, result,
  contract_id, owner_delegates, delegate_perms,
  accounts, account_count, account_metadata,
  names, wallets, wallet_metadata,
  contract_names, versions, contract_metadata,
  policies, approved,
  paused, delegates, limits, sessions, index, nonce, completed, debited,
  roles, members, permissions, account_roles, pending_admins, approvals, recreated, endorsed,
  wallet_names, wallet_limits, charged,
  guardians, recovery, registry_id, wasm

BatcherTests == INSTANCE MuxBatcherTests WITH
  Admin <- {"admin"}, Caller <- {"caller"}, Batcher <- "batcher", Target <- {"dummy", "missing"},
  Meta <- {"meta"}, Batches <- {}, MaxBatchSize <- 3, FeePerOp <- 100, MaxEffects <- 3,
  HostReentry <- FALSE

DelegationTests == INSTANCE MuxDelegationTests WITH
  Admin <- {"admin"}, Owner <- {"owner"}, Delegate <- {"delegate", "d1", "d2", "overflow"},
  Permission <- {"transfer", "approve"}, PermissionLists <- {}, Contract <- {"linked"},
  MaxDelegatePerms <- 2, MaxDelegatesPerOwner <- 2

FactoryTests == INSTANCE MuxAccountFactoryTests WITH
  Admin <- {"admin"}, Address <- {"owner", "owner_b", "owner_c", "a1", "a2", "a3"}, Meta <- {},
  MaxAccountsPerOwner <- 2, MaxVersionLength <- 2, MaxDescriptionLength <- 2,
  MaxAuthorLength <- 2

WalletRegistryTests == INSTANCE MuxWalletRegistryTests WITH
  Owner <- {"owner", "other"}, Name <- {"alice", "bob", "carol", "overflow"},
  Wallet <- {"w1", "w2"}, Meta <- {"v1", "v2"}, MaxWallets <- 3

RegistryTests == INSTANCE MuxRegistryTests WITH
  Admin <- {"admin"}, Name <- {"account", "batcher", "overflow"},
  Version <- {"1.0.0", "1.1.0"}, Meta <- {"desc"}, MaxContracts <- 2

SpendingPolicyTests == INSTANCE MuxSpendingPolicyTests WITH
  Admin <- {"admin"}, Account <- {"account1", "account2"}, Asset <- {"asset1", "asset2"},
  Limits <- {}, Periods <- {}, Spends <- {}, MaxLedger <- 2, MaxChecks <- 3

AccountTests == INSTANCE MuxAccountTests WITH
  Owner <- {"owner", "other_owner"}, Delegate <- {"first", "second", "third"},
  SessionKey <- {"key"}, Asset <- {"asset"}, Method <- {"ping", "pay"}, Meta <- {"v1", "v2"},
  Account <- "account", Expiries <- {}, ScopeSets <- {}, Amounts <- {}, Periods <- {},
  Spends <- {}, MaxDelegates <- 2, MaxSessionKeys <- 2, NonceMax <- 10, U32Max <- 1000,
  CloseTime <- 1, MaxLedger <- 2, MaxCalls <- 3, HostReentry <- TRUE

PermissionsTests == INSTANCE MuxPermissionsTests WITH
  Admin <- {"admin", "admin_b", "candidate", "candidate_a", "candidate_b", "second", "ghost"},
  Account <- {"user", "user1", "user2", "second"},
  Role <- {"editor", "viewer", "operator", "capped", "sadmin", "r0", "r1", "overflow", "ghost"},
  PermissionSets <- {}, Thresholds <- {}, Meta <- {"v1", "v2"}, MaxRoleMembers <- 2,
  MaxRolesPerAccount <- 2, MaxPendingAdmins <- 2

PolicyTests == INSTANCE MuxPolicyTests WITH
  Admin <- {"admin"}, Wallet <- {"wallet", "wallet_a", "wallet_b"},
  Registry <- {"invalid_registry"}, Limits <- {}, Days <- {}, Spends <- {}, MaxWallets <- 2,
  U32Max <- 20000, MaxLedger <- 11, MaxFrames <- 1, HostReentry <- FALSE,
  limits <- wallet_limits

RecoveryTests == INSTANCE MuxRecoveryTests WITH
  Guardian <- {"guardian", "g1", "g2", "g3", "stranger"},
  Holder <- {"owner", "new_owner", "second_owner"}, NoAddress <- Absent,
  GuardianLists <- {}, Registry <- {}, Wasm <- {"deployed"}, DeployedWasm <- "deployed",
  Timelock <- 2, Expiry <- 5, MaxGuardians <- 3, U32Max <- 20

shared == <<admin, owner, signers, sequence, frames, executing, threshold, metadata>>
batcher == <<meta, effects, result>>
delegation == <<contract_id, owner_delegates, delegate_perms>>
factory == <<accounts, account_count, account_metadata>>
walletRegistry == <<names, wallets, wallet_metadata>>
registry == <<contract_names, versions, contract_metadata>>
spendingPolicy == <<policies, approved>>
account == <<paused, delegates, limits, sessions, index, nonce, completed, debited>>
permission == <<roles, members, permissions, account_roles, pending_admins, approvals,
                recreated, endorsed>>
policy == <<wallet_names, wallet_limits, charged>>
recover == <<guardians, recovery, registry_id, wasm>>
vars == <<contract, test, step, shared, batcher, delegation, factory, walletRegistry, registry,
          spendingPolicy, account, permission, policy, recover>>

Init ==
  /\ BatcherTests!Init
  /\ DelegationTests!Init
  /\ FactoryTests!Init
  /\ WalletRegistryTests!Init
  /\ RegistryTests!Init
  /\ SpendingPolicyTests!Init
  /\ AccountTests!Init
  /\ PermissionsTests!Init
  /\ PolicyTests!Init
  /\ RecoveryTests!Init
  /\ step = 1
  /\ \/ contract = "batcher" /\ test \in BatcherTests!Suite
     \/ contract = "delegation" /\ test \in DelegationTests!Suite
     \/ contract = "factory" /\ test \in FactoryTests!Suite
     \/ contract = "walletRegistry" /\ test \in WalletRegistryTests!Suite
     \/ contract = "registry" /\ test \in RegistryTests!Suite
     \/ contract = "spendingPolicy" /\ test \in SpendingPolicyTests!Suite
     \/ contract = "account" /\ test \in AccountTests!Suite
     \/ contract = "permission" /\ test \in PermissionsTests!Suite
     \/ contract = "policy" /\ test \in PolicyTests!Suite
     \/ contract = "recover" /\ test \in RecoveryTests!Suite

\* A step of the test, or of the batch that it executes.
Next ==
  /\ UNCHANGED contract
  /\ \/ /\ contract = "batcher"
        /\ (BatcherTests!Tests \/ BatcherTests!BatchRuns)
        /\ UNCHANGED <<owner, sequence, threshold, metadata, delegation, factory,
                      walletRegistry, registry, spendingPolicy, account, permission, policy, recover>>
     \/ /\ contract = "delegation"
        /\ DelegationTests!Tests
        /\ UNCHANGED <<owner, sequence, frames, executing, threshold, metadata, batcher,
                      factory, walletRegistry, registry, spendingPolicy, account, permission, policy,
                      recover>>
     \/ /\ contract = "factory"
        /\ FactoryTests!Tests
        /\ UNCHANGED <<owner, sequence, frames, executing, threshold, metadata, batcher,
                      delegation, walletRegistry, registry, spendingPolicy, account, permission, policy,
                      recover>>
     \/ /\ contract = "walletRegistry"
        /\ WalletRegistryTests!Tests
        /\ UNCHANGED <<admin, sequence, frames, executing, threshold, metadata, batcher,
                      delegation, factory, registry, spendingPolicy, account, permission, policy,
                      recover>>
     \/ /\ contract = "registry"
        /\ RegistryTests!Tests
        /\ UNCHANGED <<owner, sequence, frames, executing, threshold, metadata, batcher,
                      delegation, factory, walletRegistry, spendingPolicy, account, permission, policy,
                      recover>>
     \/ /\ contract = "spendingPolicy"
        /\ SpendingPolicyTests!Tests
        /\ UNCHANGED <<owner, frames, executing, threshold, metadata, batcher, delegation,
                      factory, walletRegistry, registry, account, permission, policy, recover>>
     \/ /\ contract = "account"
        /\ AccountTests!Tests
        /\ UNCHANGED <<admin, threshold, batcher, delegation, factory, walletRegistry,
                      registry, spendingPolicy, permission, policy, recover>>
     \/ /\ contract = "permission"
        /\ PermissionsTests!Tests
        /\ UNCHANGED <<owner, sequence, frames, executing, batcher, delegation, factory,
                      walletRegistry, registry, spendingPolicy, account, policy, recover>>
     \/ /\ contract = "policy"
        /\ PolicyTests!Tests
        /\ UNCHANGED <<owner, executing, threshold, metadata, batcher, delegation, factory,
                      walletRegistry, registry, spendingPolicy, account, permission, recover>>
     \/ /\ contract = "recover"
        /\ RecoveryTests!Tests
        /\ UNCHANGED <<admin, frames, executing, metadata, batcher, delegation, factory,
                      walletRegistry, registry, spendingPolicy, account, permission, policy>>

Spec == Init /\ [][Next]_vars

\* The program passes every test its authors wrote for it: the model allows
\* each call a test makes, refuses each call a test sees refused and agrees
\* with each assertion, up to the last step (the #[test] functions of the ten
\* contracts).
EveryTestPasses == step # 0 => ENABLED Next
=============================================================================
