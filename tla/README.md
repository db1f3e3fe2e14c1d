# Mux contracts: specifications, model checking and proofs

TLA+ modules of the Soroban contracts under `contracts/`, the TLC instances
that check them and the theorems TLAPS proves about them. All ten contracts are
modelled, and the unit tests of the repository are replayed against the
modules.

## 1. The system

Ten contracts and a test-support crate. No contract shares storage with
another one. Despite the diagrams in `docs/architecture-overview.md` and
`docs/dependency_graph.md`, the only calls between them in the code are
`list_contracts` on a registry (from mux-recovery and mux-policy); mux-account
and mux-batcher call arbitrary contracts that their callers name.

| Component | State it keeps | Operations that change it | Interacts with |
|---|---|---|---|
| mux-account | owner, pause switch, delegates, a spend limit per asset, session keys and their index, nonce, reentrancy flag, metadata | initialize, pause/unpause, set/remove_delegate, set_spend_limit, debit_spend, register/revoke_session_key, execute, execute_with_session, set_metadata | calls any target; a target may call back |
| mux-recovery | owner, guardians, quorum, one recovery request, registry link | initialize, initiate/approve/cancel/execute_recovery, approve_recovery_admin, add/remove_guardian, set_quorum_threshold, set_registry, upgrade | registry (`list_contracts`) |
| mux-permissions | admin, role members, role permissions, roles per account, pending admins, threshold, approvals | initialize, create_role, grant/revoke_role, set_admin_threshold, propose/approve_admin, set_metadata, upgrade | none |
| mux-policy | admin, list of wallets, a daily limit per wallet | initialize, set_daily_limit, record_spend, reset_daily_counter, upgrade | registry, in the middle of record_spend |
| mux-spending-policy | admin, a policy per account and asset | initialize, set_policy, upgrade (check_spend stores nothing) | none |
| mux-batcher | admin, executing flag, registry metadata | initialize, execute_batch, submit_batch, set_registry_metadata, upgrade | calls the targets of a batch, which may fail or call back |
| mux-delegation | admin, permissions per (owner, delegate), delegates per owner, a linked contract id | initialize, grant_delegate, revoke_delegate, link_contract_id, upgrade | none |
| mux-account-factory | admin, accounts per owner, a count of all accounts, metadata | initialize, deploy_account, deploy_account_with_metadata (both only record an address), upgrade | none |
| mux-wallet-registry | owner, names, a wallet and metadata per name | initialize, register_wallet, register_wallet_with_metadata, upgrade | none |
| mux-registry | admin, names, a version and metadata per name | initialize, register, register_with_metadata, upgrade | asked by recovery and policy (`list_contracts`) |

TypeScript bindings, scripts and the test-helper crate keep no state of the
system and are not modelled. `PROJECT.json` lists every component and, under
"hazards", each place in the code where something hard to test happens.

### What is hard about it, and what makes each part correct

- **mux-recovery**: requests, approvals, guardian changes and threshold
  changes interleave over days. Correct means that ownership moves only to the
  nominee on display, only in the window, only with a quorum of different
  people who really approved *this* request; that an abandoned request does
  not block recovery; that the deadlines do not wrap at `u32::MAX`.
- **mux-account**: a call to a target is in the middle of an entrypoint. The
  target may panic (the host rolls back) or, if the host lets it, call back.
  Correct means that the guard is neither lost nor left behind, that nonces
  are used in order, that the meter never passes its limit and bounds what is
  really spent in any window, and that the session-key index and the delegate
  map stay bounded without dropping what is valid.
- **mux-permissions**: membership is stored twice and the two copies are
  written by different entrypoints; the rotation of the admin collects
  approvals while the threshold and the list of candidates change. Correct
  means that a permission check answers what grant and revoke decided, and
  that no approval counts for a proposal it was not given to.
- **mux-policy**: a record is read, a registry called, and the record stored.
  Correct means that the counter is charged atomically, that the cap really
  counts the records and that the view predicts what a charge will meet.
- **mux-batcher**: required and optional operations, partial failure, callbacks
  and the flag. Correct means that a batch is visible outside as a whole or not
  at all, that an operation that failed leaves no effect, that the counters agree
  with the effects, and that the flag is down whenever no batch runs.
- **mux-delegation, mux-wallet-registry, mux-registry, mux-account-factory**: a
  record and one or two lists under keys of their own. Correct means that they
  stay in step under their cap when entries are overwritten, withdrawn or
  described later, and that nothing moves without the right signature.
- **mux-spending-policy**: `check_spend` compares an amount with the limit alone.
  What it approves is only ever correct one amount at a time.

### Semantics taken from the host

These hold for every Soroban contract, and the modules rest on them:

- Invocations are serial. The ledger sequence and timestamp are fixed during
  a transaction.
- An invocation that returns `Err` or panics leaves no trace: the host rolls its
  frame back. So each early return of an entrypoint is the negation of a guard
  of its action, and an action is enabled exactly when the entrypoint can return
  `Ok`. The comment at `contracts/mux-account/src/lib.rs:640` says that an `Err`
  does not roll back; the `Err` of a contract function does.
- `require_auth` needs a signature, and any address may sign anything. An action
  is therefore never restricted by signatures; the history variable `signers`
  records whose signature the invocation required, and the properties read it.
- The SDK documents, and `docs/threat-model.md:104` repeats, that the host
  prohibits a contract from being re-entered, while the account carries a guard
  against it and its tests exercise that guard. Both readings are instances:
  `HostReentry` TRUE or FALSE.
- TTL bumps, events and return values that nothing else reads are left out.

## 2. The modules

| Module | What it is |
|---|---|
| `TimelockedOwnership` | abstract: an owner, at most one nominee on display, a delay, a window |
| `MuxRecovery` | mux-recovery, every entrypoint; implements `TimelockedOwnership` |
| `SpendMeter` | abstract: atomic charges against an amount until a deadline |
| `ChargeHistory` | what was charged, ledger by ledger: the history of `MuxAccount` and `MuxPolicy` |
| `MuxAccount` | mux-account, every entrypoint, calls to targets in two steps; implements `SpendMeter` |
| `QuorumRotation` | abstract: an administrator replaced by approvals of the present candidacy |
| `MuxPermissions` | mux-permissions, every entrypoint; implements `QuorumRotation` |
| `MuxPolicy` | mux-policy, record_spend with a registry in two steps; implements `SpendMeter` |
| `MuxBatcher` | mux-batcher, every entrypoint, a batch in steps; implements `AtomicBatch` |
| `AtomicBatch` | abstract: batches that take effect in one step, without losing what is required |
| `Directory` | abstract: records under names, so many per holder |
| `MuxDelegation`, `MuxAccountFactory`, `MuxWalletRegistry`, `MuxRegistry` | the four contracts, every entrypoint; all implement `Directory` |
| `MuxSpendingPolicy` | mux-spending-policy, every entrypoint |
| `MCRecovery`, `MCAccount`, `MCPermissions`, `MCPolicy` | the small sets and the symmetries TLC uses |
| `Services` | the six service contracts side by side, each with a storage of its own, in any interleaving |
| `MCServices` | small instances of `Services`, and of recovery with fairness |
| `Replay`, `Mux..Tests`, `MCTests` | the unit tests of each contract as behaviours of its module |
| `SeqLemmas` | facts about vectors that the proofs share |
| `Mux.._proofs` | the theorems: recovery, account, permissions, policy, batcher, delegation |
| `Services_proofs` | the theorems of wallet registry, version registry, spending policies and factory, and of the six together |

Conventions. A variable is a storage key (or the ledger sequence), an action an
entrypoint with the name it has in Rust, its parameters the arguments that
matter. `Absent`/`NoAddress` stands for a key that is not set. A `Map` or a keyed
family of entries is a function, a `Vec` a sequence wherever its order, length or
duplicates matter (`position` + `remove` is `RemoveFirst`).
Definitions whose comment says "Mutant" are plausible slips of the operator that
follows; no specification uses them, they show which property would notice.

### MuxRecovery

State: `owner`, `guardians` (a vector: `initialize` accepts duplicates),
`threshold`, `recovery` (the `RecoveryRequest` record; status "None" when no
request is stored), `registry_id`, `wasm`, `sequence`. `u32::MAX` is the constant
`U32Max`, so that the deadlines saturate within a run. `set_registry` calls
`list_contracts` on the registry and fails if that fails; the registries that
answer are the constant `Registry`. The owner of this contract is its own: the
hand-over does not touch the owner stored by a mux-account.

### MuxAccount

State: as in `DataKey`, plus `frames`, the calls in flight. `Execute` and
`ExecuteWithSession` are their entrypoints up to `invoke_contract`;
`ReturnToExecute` and `ReturnToSession` are what follows it; `Trap` is a target
that panics, for which the host restores what the frame found (`Snapshot`), with
everything its callbacks did. `Callable` is when an entrypoint may run: from a
transaction (`frames` empty), or from a target if `HostReentry`. `execute` carries
the limit it computed before the call and stores it afterwards, as in the code.
Time is in ledgers for limits and in seconds for delegates and session keys;
`CloseTime` relates the two. History: `completed`, the nonces of calls that came
back, and `debited`, what was charged since the limit was last set, as a running total per
ledger (`ChargeHistory`): what a window of ledgers was charged is a difference of two
totals and no sum. Both are rolled back with the frame.

Left out of the state: `can_spend` of a delegate and `GuardianSet`, which no entrypoint
that changes state reads, and the sponsor allowlist, which nothing writes: the
sponsored variant of session execution always ends in `SponsorNotAuthorized`.
The contract has no upgrade entrypoint.

### MuxPermissions

State: as in `DataKey`; a permission list is a set, because it is only searched.
`roles` says which roles have the two entries that `create_role` writes. A `GrantRole`
of a member and a `ProposeAdmin` of a pending candidate are the `Ok` without a
change. `approve_admin` needs two signatures, the admin's and the approver's.
History: `recreated` (roles created while they existed) and `endorsed` (who
signed for a candidate since the proposal).

`QuorumRotation` has candidates, a set of endorsers for each and a quorum. The mapping
takes the pending candidates and the approvals stored for them; what stays stored for
a candidate who is no longer pending does not show, so it must never count.

### MuxPolicy

State: as in `DataKey`, plus `frames`: invocations of `record_spend` that are
calling a registry. `RecordSpend` is the path without a registry. With one,
`AskRegistry` runs up to the call with the record read before it, and
`RegistryAnswers` charges and stores that record; `RegistryFails` covers a registry
that fails and a limit that turns out not to allow the spend, since both roll
the frame back. History: `charged`, a running total per ledger since the admin last set
the limit or reset the counter.

### MuxBatcher

State: as in `DataKey`, plus `effects`, what operations did outside, `result`, the
latest `BatchResult`, and `frames`, the batches in flight. `ExecuteBatch` is the code
before the loop, `InvokeTarget` the call of the next operation, `TargetReturns`,
`TargetFails` and `RequiredFails` its three outcomes, `FinishBatch` what follows the
loop, `Trap` a transaction that runs out of resources. A target that fails is undone by
the host (`try_invoke_contract`), so the frame keeps what it found when it called.
`submit_batch` runs the same code in the name of the batcher. `RequiredFails` puts the flag
back with everything else; the code clears it by hand before it returns `Err`, which
the host undoes and which makes no difference. `simulate_batch` and `estimate_fees`
are operators. `estimate_fees` calls a `Self::fee_per_op` that nothing defines; it is
modelled with the constant `FEE_PER_OP`, which its tests expect.

`AtomicBatch` says which operations of a batch took effect by their positions, an
increasing sequence (`Selections`): `BatchAccounted` and the refinement speak of the same
positions, and neither needs a fold.

### MuxDelegation, MuxWalletRegistry, MuxAccountFactory, MuxRegistry

State: as in `DataKey`, the lists as sequences. Their views are operators
because invariants and replayed tests use them: the dry runs of the factory are
`Simulate..`, and `SimulationPredictsDeploy` compares each with the guard of the
deployment it is a dry run of. The metadata of the factory is the lengths of its
strings, which is all the code looks at. mux-registry's file is an unfinished merge
of two implementations; the one the tests of the file call is modelled.

`Directory` has one record under each name of a holder, and at most so many names in
use. The record of a wallet, an account or a contract is the pair of what is stored
under the name and its metadata, two storage keys that the entrypoints write one after
the other; the list, a third key, does not show and is compared with the cap all the
same. Holders are the owners of delegations and accounts; the two registries have one.

### MuxSpendingPolicy

State: as in `DataKey`. `check_spend` writes nothing and is an action for the history
`approved`, which says per ledger what it let pass since the policy was set.

### Replay, Mux..Tests, MCTests

A test of the repository is a formula: numbered steps, each a call that the module must
allow (an action with arguments), a call it must refuse (`Refused..`, the
negated guards) or an assertion about the state. A step that the module does not allow blocks
the test and `EveryTestPasses` fails; TLC explores all tests in one run. 303 unit
tests of the ten contracts are replayed. Left out are tests of events, entry lifetimes
and snapshots, the `set_sponsor` tests of mux-account (the contract has no
such function) and, within a test, which error number a refusal has. A test that
fills a list to its cap fills a cap made small.

## 3. What TLC checks

| Run | Instance | What it shows |
|---|---|---|
| `recovery_safety` | 3 guardians, 2 holders, guardian vectors of 1–2 entries with duplicates, timelock 2, expiry 3, `U32Max` 5 | requests are well formed, approvals and configuration are signed by whom they should be, ownership moves only by a timely hand-over that a quorum approved, and the contract implements `TimelockedOwnership` |
| `recovery_quorum_doc` | 2 guardians | expected violation: the quorum can exceed the number of guardians |
| `account_calls` | 1 session key, 1 asset, up to 3 nested calls, reentry allowed, nonce saturating at 2 | the guard follows the call in flight, nonces come in order, nothing is charged from inside a call, spending is bounded in every window |
| `account_lists` | 3 delegates for 2 slots, 2 session keys for 1, expiries, rollbacks, reentry allowed | caps hold, and they hold no dead entries when they refuse; valid delegates are never dropped; the index lists active keys only |
| `account_control` | everything at once, 2 assets, no reentry | a paused account is frozen, configuration is the owner's, and charges are those of `SpendMeter` |
| `account_session_cap_doc` | 3 session keys for 2 slots | expected violation: more keys can be active than the cap says |
| `permissions_safety` | 2 roles, 2 accounts, 2 admins, thresholds 0–2, one member per role, two roles per account | the two membership lists agree up to roles created again, permission checks follow them, approvals are fresh, and the contract implements `QuorumRotation` |
| `permissions_revoke_doc` | the same | expected violation: an account keeps a role that was revoked |
| `policy_limits` | 3 wallets for 2 slots, with and without a registry that may fail, days that saturate, no reentry | the list bounds the records, counters and windows hold, the view predicts the charge, and charges are those of `SpendMeter` |
| `services` | the six service contracts and recovery, one per behaviour: batches of up to 4 operations for 3 places, callbacks; more delegates, names and accounts than slots | batches are atomic, counted and end; records and lists agree and are those of `Directory`; everything is signed by whom it should be; a request nobody finishes does not block recovery for ever |
| `spending_window_doc` | 1 account, 1 asset | expected violation: a check does not advance the window its documentation says it does |
| `unit_tests` | 303 tests | every replayed test passes |

Every run explores its instance completely: the largest is `account_control`
with about 450 000 distinct states.

In `Services` each contract has variables of its own, and a step is one of one of them, in
any order. In the run the variable `focus` picks the one contract a behaviour uses and the
others keep their first values, so that the states are the sum of those of the contracts
and not their product; for every interleaving the properties are theorems
(`Services_proofs`). The constants satisfy the `Assumptions` of every instance
(`ConstantsAreValid`, which TLC evaluates). The properties put together those of the
contracts that answer the same question: `BatchSound` (`GuardTracksBatch`,
`BatchAccounted`), `RecordsAgree` (`DelegatesIndexed`, `WalletsNamed`, `ContractsNamed`,
`AccountsCounted`, `ApprovedOneByOne`), `ImplementsDirectory` (delegations, accounts, wallets and versions),
`ChangesArePermitted` (`OwnerDelegates`, `OwnerNames`, `AdminRegisters`,
`AdminSetsPolicies`, and `WrittenOnce` and `RegistrationsArePermanent` for what stays
as it was written) and `NothingBlocksForGood` (`BatchesEnd`, `RecoveryReopens`).

**Bounds.** Every bound is a constant, and the guards that use one are:
`CloseLedger` (up to `U32Max` in recovery, `MaxLedger` elsewhere), the calls in
flight (`MaxCalls`, `MaxFrames`) and the nonce (`NonceMax`, which is `u64::MAX`:
the code saturates there and so does the model). The others are caps of the
code itself, scaled down: `MaxGuardians`, `MaxDelegates`, `MaxSessionKeys`,
`MaxRoleMembers`, `MaxRolesPerAccount`, `MaxPendingAdmins`, `MaxWallets`. Where a run
checks a cap, a list can be full and asked for one more place: there are more
delegates, session keys, accounts or wallets than slots, and in recovery and in the
roles of an account duplicates fill the list. The exception is
`MaxPendingAdmins`, as large as the set of candidates so that two of them can be
pending at once; that the cap refuses a third is left to the proof of
`RotationHolds`. Two
assets, roles or holders are enough to mix two of them up. Time runs long enough
for a whole life cycle: in recovery a request can be made, mature, expire and be
replaced, and both deadlines saturate; elsewhere two windows pass, so the end of
one and the start of the next meet. With up to three
calls in flight a guard that fails lets nested calls happen and return out of
step.

`MaxLedger < U32Max` for the account and the policy: at ledger `u32::MAX`, some
680 years of five-second ledgers, a saturated deadline no longer lies ahead and
every charge would start a new window.

**Symmetry** permutes addresses that the specification treats alike; it is used for
invariants and step properties, never for liveness.

**Mutants.** For every property of a passing run `PROJECT.json` names a slip in the code
(a lost reset, a wrong comparison, a dropped check, one boundary moved) under which
TLC finds that property violated in the same instance.

In `services` the batcher is offered an empty batch, one longer than the cap and three
in between, up to five operations per behaviour (`MaxEffects`), so that two batches
follow each other, a batch is started from inside another one's target and a required
operation fails after optional ones; the lists of delegations, wallets, accounts and
versions have one name more than places; permission lists are empty, too long or hold
duplicates; two holders are enough to mix two of them up.

**Fairness.** Only `services` assumes any, for `NothingBlocksForGood`. `BatchesEnd` needs
weak fairness of a step of the batch in flight: the host meters every invocation, so each call returns, fails
or runs out of resources. `RecoveryReopens` needs weak fairness of
`CloseLedger`: the network closes ledgers whether or not anyone calls the contract.
Nobody is obliged to submit, approve, execute or cancel anything.

## 4. What TLAPS proves

The theorems hold for every set of addresses, assets, roles, wallets and inputs
and every value of caps, windows and integer ranges that satisfies the named
assumptions of the module (`Absent` is no address and no number, caps are natural
numbers, ledgers end before `u32::MAX` where section 3 says so, and where addresses are
counted there are finitely many, as they have a fixed size). The
modules of the service contracts are instantiated by `Services`, so their assumptions are
the operator `Assumptions`: a hypothesis of the theorems in `MuxBatcher_proofs` and
`MuxDelegation_proofs`, the assumption `ConstantsAreValid` in `Services_proofs`. Each
theorem rests on an inductive invariant, and each `.._proofs` module has one lemma or one
step per action.

- **Recovery.** `IInv` is type correctness together with: there are no guardians
  before `initialize` (`GuardiansFollowOwner`, hence no request either), the two
  deadlines are those computed when the request was made (`RequestWindow`),
  requests are well formed, approvals are distinct.
  `RequestWellFormed` alone is not inductive: that a timelock is respected after
  saturation needs to know where the deadlines came from. From it: the
  timelock and quorum theorems, `OwnerMoves`, and `Refinement`, which maps each
  action to a step of `TimelockedOwnership` or a stutter.
- **Account.** `CallInv` says that the guard is up exactly while a call is in flight, that
  nonces come in order, and that what a call in flight would be rolled back
  to is a state with the guard down and the nonces of when it began
  (`RollbackExact`). Without the last part a panic could put anything back. `MeterInv` adds
  to "no meter above its limit" the meter carried by the call in flight and the
  rollback images; `IndexInv` does the same for the index of session keys and
  `DelegateInv` for the delegates, whose set has to be finite before its size means
  anything. `WindowInv` is what `WindowBoundHolds` needs; see below. `SlotsHold`
  identifies what is left after dropping expired
  entries with the valid delegates. All of it, and the step properties
  `PauseHolds`, `NoDebitInside`, `CallsHold` and `LiveDelegatesAreKept`, holds with reentry
  allowed. `OwnerConfigurationHolds` and `AccountImplementsSpendMeter` assume
  `~HostReentry`, under which a call in flight carries the charge that the limit of
  now allows and would be rolled back to the configuration of now (`FramesFresh`).
- **Permissions.** `RoleInv` adds to the caps how members and listings relate: a
  member lists the role, and of a role created once every listing is a member's
  and the only one. `RotationInv` keeps candidates bounded and their approvals equal
  to the signatures collected since the proposal; `PromotionHolds` and
  `PermissionsImplementRotation` need it because the threshold is compared with the
  length of a vector. An approval is one endorsement of the candidacy of now, whatever
  was stored when it began; a promotion withdraws one candidacy and leaves the approvals
  of the others, which the new admin finds as they were.
- **Policy.** `PolicyInv` says that the storage and each rollback image are sound: names
  and records agree, counters are within limits, and the wallet of every call
  in flight keeps its record. `WalletsHold`, `SpentHolds` and `ViewHolds` follow from
  it with or without reentry. `WalletChargesHold` and `PolicyImplementsSpendMeter` assume
  `~HostReentry`, which makes the record a call carries equal to the stored one
  (`FramesFresh`): the step that answers is then one atomic charge.
- **Spending in any window** (account and policy). `WindowBound`, at most twice the limit
  over any `period_ledgers` ledgers, is not inductive: it forgets how the charges lie
  relative to the counter. `Metered` (in `SeqLemmas`) says it: totals never fall and do not
  grow after the end of the period, there is a ledger `start` where the period began or
  may have begun, the stored counter covers everything charged since, and any window that
  reaches back over `start` holds at most one limit from before it. A charge adds to the
  counter and to the totals alike; when a period ends, the counter's part becomes the
  part from before and `start` moves to now. `WindowInv` asks it of every stored limit and,
  in the account, of the limits a call in flight would be rolled back to and of the one it
  will write once its own charge is logged. With that the account's theorem holds with
  reentry allowed, where a call writes back terms the owner has replaced meanwhile; the
  one of the policy assumes `~HostReentry`, without which it is false.
- **Batcher.** `BatchInv` says that the flag is up exactly while the one batch runs, that
  both images the host may put back are well typed and have the flag of their moment,
  that what was written in the image of the batch is still there in that of the
  target, and in the storage (`Extends`), and that the effects are those the batch found
  followed by the operations at some increasing positions, which miss no required one of
  those passed and are as many as the batch counts as successes (`Accounted`). The
  positions are named by their existence alone: an operation that succeeds adds its
  position at the end, one that fails adds nothing. `BatchAccountedHolds` and
  `BatchesAreAtomic` follow: when a batch finishes, its effects are one `Commit` of
  `AtomicBatch`, and every other step leaves those of the outside as they are or takes a
  batch back altogether. `WrittenOnceHolds` needs `Extends`: a rollback could otherwise
  bring back something else.
- **Delegation, wallet registry, version registry.** `DelegationInv`, `WalletInv`,
  `VersionInv`: the list names exactly those with a record, once each, within the cap, and
  is empty before `initialize`. From it the directory theorems: the length the code
  compares with the cap is the number of names in use (`ListedCount`), and a step that
  writes a record, its metadata and the list changes one name of one holder (`OneEntry`).
- **Factory.** `FactoryInv` says the same of every owner's list and that the counter is
  the number of registered pairs of an owner and an account, of all owners together: one
  more pair exactly when `Register` appends (`PairsCounted`). The lists of each owner
  are a directory too (`AccountsAreDirectory`), although deploying needs no `initialize`.
- **Spending policies.** `PolicyInv` adds to the approvals within the policy in force that
  no window starts later than now; otherwise a check could be logged before the window of
  its policy.
- **The six together.** `Spec` of `Services` implies the specification of each contract
  (`BatcherRuns` to `PoliciesRun`), so that what was proved of one alone holds beside the
  others, in any interleaving.
- `SeqLemmas` has what the library does not: removal, append and duplicates in
  vectors, and that a non-empty set of naturals has a least element (derived from the
  well-foundedness of finite subsets, since the induction theorem itself takes an
  operator).

**What the findings leave true.** Three of the four disagreements of section 5 have one
cause each, and the theorem says so: take it away and what the documentation says holds
in every reachable state, for every value of the constants. The hypothesis is a
condition on behaviours that the expected violations break and ordinary use keeps.

| Run | Theorem | Holds as long as |
|---|---|---|
| `recovery_quorum_doc` | `QuorumFitsWithoutRemovals` | no removal of a guardian goes below the quorum (`RemovalsSpareQuorum`) |
| `account_session_cap_doc` | `SessionKeysBoundedWithoutRenewal` | no revoked session key is registered again (`RevocationIsFinal`) |
| `permissions_revoke_doc` | `RevocationTakesRolesCreatedOnce`, and `PermissionsExactForRolesCreatedOnce`: a check then answers exactly what the memberships say | no role is created a second time |

The one of the account needs an invariant of its own, `ListedInv`: every active key is
listed, in the storage and in whatever a call in flight would be rolled back to. That a
list within the cap bounds a set of keys is then a fact about cardinalities. No condition
on its callers saves `check_spend`, which stores nothing.

**The safety part of liveness.** `NothingBlocksForGood` itself stays with TLC, but what
fairness has to finish is proved to be finite. `BatchesAreShortHolds`: the guard is up
exactly while the batch has steps left, at most `2 * MaxBatchSize + 1`;
`StepsRunOutHolds`: each of its steps leaves fewer, and no callback leaves more.
`BlockingEnds`: there is always a guardian to make the next request (`SomeGuardianStays`),
and a request in the way has not reached its expiry, nor the ledger the end of its range;
`WindowIsFixed`: nothing prolongs it. What is left to fairness is that a started batch
takes its steps and that ledgers close.

**Model-checked only.** Every invariant and every step property of a passing run is a
theorem, except two invariants: `SimulationPredictsDeploy`, which is about `ENABLED` (that
a deployment that succeeds was predicted is one of its guards and no theorem worth
having), and `EveryTestPasses`, whose module replays one fixed list of tests by recursion.
`NothingBlocksForGood` is as well: the prover has neither fairness nor `ENABLED`.

Five theorems assume `~HostReentry`: `OwnerConfigurationHolds`,
`AccountImplementsSpendMeter`, `WalletChargesHold`, `PolicyImplementsSpendMeter` and the
policy's `WindowBoundHolds`; the runs that check their properties have such a host
(section 5).

Proved beyond what the runs list: `OwnerMoves` and `PromotionHolds` (the runs check the
refinements, which say more), both `SpentHolds` (the counter alone, with reentry too), what
the two paragraphs above name, and the parts of `BatchSound`, `RecordsAgree`,
`ImplementsDirectory` and `ChangesArePermitted`, contract by contract.
`PROJECT.json` lists the main theorems; a part of one of these four is listed where it
says something of its own.

## 5. Where code and documentation disagree

Shown by a run each (`PROJECT.json`, "findings"): `remove_guardian` leaves the quorum
above the number of guardians; re-registering a revoked session key makes it
active without listing or counting it; after `create_role` on an existing role, a
granted and revoked role is still listed and still grants its permissions;
`check_spend` neither reads nor moves the window it is documented to advance.

Noted while modelling, and modelled as the code has them:

- recovery: the approvals vector can outgrow `MAX_GUARDIANS` (`lib.rs:213`), as
  removed guardians stay in it; `Executed` is not terminal, a new request
  replaces it (`lib.rs:157`); guardians can be changed, against
  `docs/recovery-trust-model.md:22`; the last ledger on which a request can be executed is
  the one before `expires_at`. Saturation can only close the window of a
  request, never shorten its timelock.
- account: `set_metadata` ignores the pause switch that
  `docs/pause-freeze-decision.md:100` has it obey; the sponsor entrypoint that
  `README.md:146` lists does not exist; a session call charges no limit itself,
  and a `debit_spend` from inside one is refused by the guard; at nonce `u64::MAX` the
  same nonce is accepted again.
- permissions: approvers need not be admins; a threshold of 0 is accepted and
  acts as 1; the admin co-signs every approval and can lower the threshold.
- batcher: the comments at `lib.rs:307` and `lib.rs:440` say that an `Err` is not rolled
  back, and the error path clears the flag by hand; line 412 says it is, and so does
  the host, which undoes that write together with the one that set the flag. An
  `Err` therefore also takes back what earlier operations of the batch did.
  `simulate_batch` counts every operation as a success. The file does not compile at
  this commit (`Self::fee_per_op`).
- wallet registry: registering a name again without metadata keeps the metadata of
  the wallet that was there, as one of its tests expects.
- delegation: the `admin` that `link_contract_id` takes need not be the admin of the
  contract, as documented; what it signs reaches no permission.
- registry: two implementations in one file, with two `DataKey` layouts.
- reentry: on a host that allowed it, `execute` and `record_spend` would write back
  the limit they read before the call, over whatever was configured or charged
  meanwhile. `ImplementsSpendMeter`, `OwnerConfigures` and (policy)
  `WindowBound` and `OnlyWalletCharges` are therefore stated for a host that does not;
  the host's rule, not the contracts, makes these entrypoints atomic.

## 6. Not modelled

- The second implementation in mux-registry's file (an unbounded list, no upgrade): the
  tests of the file do not call it, and the file does not compile with both.
- The sponsored variant of session execution in mux-account, as far as it would succeed:
  nothing writes the allowlist it reads.
- Bindings, scripts, test helpers and the cross-contract integration tests: they keep no
  contract state, and the integration tests repeat calls of single contracts.
- Events, TTL and archival of entries, the contents of metadata, error numbers.

## 7. Plan

Every contract is modelled and checked, and what the prover reaches of the runs'
properties is proved, with what remains of the documented properties that the code
breaks. What is left:

1. mux-registry again once its file has been merged, and mux-batcher's `fee_per_op`.
2. When one of the four findings is fixed, its run becomes a passing one, the hypothesis
   of its theorem goes, and its property joins those of the contract.
