----------------------------- MODULE MCServices -----------------------------
(***************************************************************************)
(* Small instances of the contracts of Services, and of the recovery       *)
(* contract for its liveness. As none of them calls another, a behaviour   *)
(* uses the one that focus names: the bound that keeps the run small.      *)
(***************************************************************************)
EXTENDS Services

CONSTANTS x1, x2, u1, u2, u3, n1, n2, n3, m1, m2

VARIABLES
  focus,
  account_owner, guardians, threshold, recovery, registry_id, wasm, ledger, recovery_signers

Op(t, required) == [target |-> t, require_success |-> required]

\* The values of the constants of Services.
MCBatches ==
  {<<>>, <<Op(n1, TRUE)>>, <<Op(n2, FALSE), Op(n1, TRUE)>>,
   <<Op(n1, FALSE), Op(n2, FALSE), Op(n1, TRUE)>>,
   <<Op(n2, TRUE), Op(n1, TRUE), Op(n1, FALSE), Op(n2, TRUE)>>}
MCPermissionLists == {<<>>, <<m1>>, <<m2, m2>>, <<m1, m2, m1>>}
MCAccountMeta ==
  {[version |-> 1, description |-> 1, author |-> 1],
   [version |-> 1, description |-> 2, author |-> 1]}
MCSpends == {0 - 1, 1, 2}

Recovery == INSTANCE MuxRecovery WITH
  Guardian <- {n1, n2}, Holder <- {u1, u2}, NoAddress <- Absent,
  GuardianLists <- BoundedSeq({n1, n2}, 2) \ {<<>>}, Registry <- {n3},
  Wasm <- {m1}, DeployedWasm <- m1, Timelock <- 2, Expiry <- 3, MaxGuardians <- 2, U32Max <- 5,
  owner <- account_owner, sequence <- ledger, signers <- recovery_signers

recover ==
  <<account_owner, guardians, threshold, recovery, registry_id, wasm, ledger, recovery_signers>>

allVars == <<vars, focus, recover>>

MCInit ==
  /\ focus \in {"batcher", "delegation", "factory", "walletRegistry", "registry",
                "spendingPolicy", "recovery"}
  /\ Init
  /\ Recovery!Init

Uses(contract) == focus = contract /\ UNCHANGED <<focus, recover>>

UseRecovery == focus = "recovery" /\ Recovery!Next /\ UNCHANGED <<focus, vars>>

MCNext ==
  \/ Uses("batcher") /\ UseBatcher
  \/ Uses("delegation") /\ UseDelegation
  \/ Uses("factory") /\ UseFactory
  \/ Uses("walletRegistry") /\ UseWalletRegistry
  \/ Uses("registry") /\ UseRegistry
  \/ Uses("spendingPolicy") /\ UseSpendingPolicy
  \/ UseRecovery

\* The host meters every call, so each step of a batch in flight ends, and
\* ledgers keep closing.
Fairness ==
  /\ WF_allVars(Uses("batcher") /\ Batcher!BatchStep /\ OthersOfBatcher)
  /\ WF_allVars(focus = "recovery" /\ Recovery!CloseLedger /\ UNCHANGED <<focus, vars>>)

MCSpec == MCInit /\ [][MCNext]_allVars /\ Fairness

-----------------------------------------------------------------------------
(* Properties beside those of Services. *)

\* The dry runs of the factory predict the deployments, also at the cap
\* (simulate_deploy, simulate_deploy_with_metadata).
SimulationPredictsDeploy == focus = "factory" => Factory!SimulationPredictsDeploy

\* Nothing blocks a contract for good: every batch ends and releases the
\* guard, whatever becomes of its operations (execute_batch), and no request
\* left behind keeps guardians from starting another (initiate_recovery).
NothingBlocksForGood == Batcher!BatchesEnd /\ Recovery!RecoveryReopens
=============================================================================
