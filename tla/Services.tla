------------------------------ MODULE Services ------------------------------
(***************************************************************************)
(* The contracts that serve the others, deployed side by side: the         *)
(* batcher, the delegations, the two indexes of accounts and wallets, the  *)
(* registry of versions and the spending policies. None of them calls      *)
(* another and each has a storage of its own, so a step is one of one of   *)
(* them, in any order. signers is kept for each of them apart.             *)
(***************************************************************************)
EXTENDS Naturals, SequencesExt

CONSTANTS
  Admin, Absent,
  Meta, Name,  \* of wallets and of registered contracts
  \* mux-batcher
  Caller, BatcherAddress, Target, Batches, BatcherMeta, MaxBatchSize, FeePerOp, MaxEffects,
  HostReentry,
  \* mux-delegation, and the owners of mux-wallet-registry
  Owner, Delegate, Permission, PermissionLists, Contract, MaxDelegatePerms, MaxDelegatesPerOwner,
  \* mux-account-factory
  Addresses, AccountMeta, MaxAccountsPerOwner, MaxVersionLength, MaxDescriptionLength,
  MaxAuthorLength,
  \* mux-wallet-registry
  Wallet, MaxWallets,
  \* mux-registry
  Version, MaxContracts,
  \* mux-spending-policy
  Account, Asset, Limits, Periods, Spends, MaxLedger, MaxChecks

VARIABLES
  batcher_admin, meta, executing, effects, result, frames, batcher_signers,
  delegation_admin, contract_id, owner_delegates, delegate_perms, delegation_signers,
  factory_admin, accounts, account_count, account_metadata, factory_signers,
  owner, names, wallets, wallet_metadata, wallet_signers,
  registry_admin, contract_names, versions, contract_metadata, registry_signers,
  policy_admin, policies, sequence, policy_signers, approved

Batcher == INSTANCE MuxBatcher_proofs WITH
  Batcher <- BatcherAddress, Meta <- BatcherMeta, admin <- batcher_admin, signers <- batcher_signers

Delegation == INSTANCE MuxDelegation_proofs WITH
  admin <- delegation_admin, signers <- delegation_signers

Factory == INSTANCE MuxAccountFactory WITH
  Address <- Addresses, Meta <- AccountMeta, admin <- factory_admin,
  signers <- factory_signers

Wallets == INSTANCE MuxWalletRegistry WITH signers <- wallet_signers

Versions == INSTANCE MuxRegistry WITH
  admin <- registry_admin, signers <- registry_signers

Policies == INSTANCE MuxSpendingPolicy WITH
  admin <- policy_admin, signers <- policy_signers

ASSUME ConstantsAreValid ==
  /\ Batcher!Assumptions
  /\ Delegation!Assumptions
  /\ Factory!Assumptions
  /\ Wallets!Assumptions
  /\ Versions!Assumptions
  /\ Policies!Assumptions

batcher == <<batcher_admin, meta, executing, effects, result, frames, batcher_signers>>
delegation ==
  <<delegation_admin, contract_id, owner_delegates, delegate_perms, delegation_signers>>
factory == <<factory_admin, accounts, account_count, account_metadata, factory_signers>>
walletRegistry == <<owner, names, wallets, wallet_metadata, wallet_signers>>
registry == <<registry_admin, contract_names, versions, contract_metadata, registry_signers>>
spendingPolicy == <<policy_admin, policies, sequence, policy_signers, approved>>

vars == <<batcher, delegation, factory, walletRegistry, registry, spendingPolicy>>

Init ==
  /\ Batcher!Init
  /\ Delegation!Init
  /\ Factory!Init
  /\ Wallets!Init
  /\ Versions!Init
  /\ Policies!Init

OthersOfBatcher == UNCHANGED <<delegation, factory, walletRegistry, registry, spendingPolicy>>

UseBatcher == Batcher!Next /\ OthersOfBatcher

UseDelegation ==
  /\ Delegation!Next
  /\ UNCHANGED <<batcher, factory, walletRegistry, registry, spendingPolicy>>

UseFactory ==
  /\ Factory!Next
  /\ UNCHANGED <<batcher, delegation, walletRegistry, registry, spendingPolicy>>

UseWalletRegistry ==
  /\ Wallets!Next
  /\ UNCHANGED <<batcher, delegation, factory, registry, spendingPolicy>>

UseRegistry ==
  /\ Versions!Next
  /\ UNCHANGED <<batcher, delegation, factory, walletRegistry, spendingPolicy>>

UseSpendingPolicy ==
  /\ Policies!Next
  /\ UNCHANGED <<batcher, delegation, factory, walletRegistry, registry>>

Next ==
  \/ UseBatcher
  \/ UseDelegation
  \/ UseFactory
  \/ UseWalletRegistry
  \/ UseRegistry
  \/ UseSpendingPolicy

Spec == Init /\ [][Next]_vars

-----------------------------------------------------------------------------
(* The properties of the contracts, under a name for each. *)

\* Types of what each contract stores.
TypeOK ==
  /\ Batcher!TypeOK
  /\ Delegation!TypeOK
  /\ Factory!TypeOK
  /\ Wallets!TypeOK
  /\ Versions!TypeOK
  /\ Policies!TypeOK

\* The guard of the batcher is set exactly while a batch runs, and its
\* counters account for its effects (execute_batch).
BatchSound == Batcher!GuardTracksBatch /\ Batcher!BatchAccounted

\* A batch takes effect at once or not at all (execute_batch).
ImplementsAtomicBatch == Batcher!ImplementsAtomicBatch

\* What a contract keeps in two places agrees: the delegates, wallets and
\* contracts that are listed have the records that are looked up
\* (grant_delegate, revoke_delegate, register_wallet, register), the counter
\* of accounts is the number of those registered (deploy_account), and what
\* check_spend has approved is within the policy in force, amount by amount.
RecordsAgree ==
  /\ Delegation!DelegatesIndexed
  /\ Wallets!WalletsNamed
  /\ Versions!ContractsNamed
  /\ Factory!AccountsCounted
  /\ Policies!ApprovedOneByOne

\* Permissions given to delegates, accounts deployed, names given to wallets
\* and versions registered are bounded directories of their owner: an entry at
\* a time, however many storage keys it takes.
ImplementsDirectory ==
  /\ Delegation!DelegationsImplementDirectory
  /\ Factory!AccountsImplementDirectory
  /\ Wallets!WalletsImplementDirectory
  /\ Versions!ContractsImplementDirectory

\* Permissions are given and taken by their owner, wallets named by the owner
\* of the registry, versions registered and policies set by the admin, one at
\* a time (grant_delegate, link_contract_id, register_wallet, register,
\* set_policy). What is written once stays for everybody: the admin and the
\* metadata of the batcher, also when a batch is rolled back, and the accounts
\* of the factory (execute_batch, deploy_account).
ChangesArePermitted ==
  /\ Delegation!OwnerDelegates
  /\ Wallets!OwnerNames
  /\ Versions!AdminRegisters
  /\ Policies!AdminSetsPolicies
  /\ Batcher!WrittenOnce
  /\ Factory!RegistrationsArePermanent
=============================================================================
