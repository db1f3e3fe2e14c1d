------------------------- MODULE MuxAccountFactory -------------------------
(***************************************************************************)
(* contracts/mux-account-factory: an index of the accounts each owner      *)
(* registers, optionally with metadata. It records addresses and deploys   *)
(* nothing itself.                                                         *)
(*                                                                         *)
(* One action per entrypoint that changes state and can return Ok; an      *)
(* entrypoint that returns Err is rolled back by the host, so the early    *)
(* returns are exactly the guards. The dry runs are operators. Metadata is *)
(* the lengths of its three strings, which is all the code looks at.       *)
(*                                                                         *)
(* History: signers is who signed the latest invocation.                   *)
(***************************************************************************)
EXTENDS Naturals, FiniteSets, SequencesExt

CONSTANTS
  Admin,
  Address,               \* owners and accounts alike
  Meta,                  \* metadata offered, see AccountMetadata
  Absent,                \* no entry
  MaxAccountsPerOwner,   \* MAX_ACCOUNTS_PER_OWNER
  MaxVersionLength, MaxDescriptionLength, MaxAuthorLength

AccountMetadata == [version : Nat, description : Nat, author : Nat]

\* What the constants must satisfy.
Assumptions ==
  /\ Absent \notin Admin \cup Address \cup AccountMetadata
  /\ Meta \subseteq AccountMetadata
  /\ IsFiniteSet(Address)
  /\ {MaxAccountsPerOwner, MaxVersionLength, MaxDescriptionLength, MaxAuthorLength} \subseteq Nat

VARIABLES
  admin,            \* DataKey::Admin
  accounts,         \* DataKey::Accounts(owner), a Vec
  account_count,    \* DataKey::AccountCount
  account_metadata, \* DataKey::Metadata(owner, account)
  signers           \* history

vars == <<admin, accounts, account_count, account_metadata, signers>>

Init ==
  /\ admin = Absent
  /\ accounts = [o \in Address |-> <<>>]
  /\ account_count = 0
  /\ account_metadata = [o \in Address |-> [a \in Address |-> Absent]]
  /\ signers = {}

-----------------------------------------------------------------------------
(* Helpers, views and dry runs. The definitions marked "Mutant" are        *)
(* plausible slips in the operator that follows; no specification here     *)
(* uses them.                                                              *)

RequireAuth(a) == signers' = {a}

AlreadyRegistered(o, a) == Contains(accounts[o], a)

\* load_accounts_for_deploy, shared by the entrypoints and their dry runs.
LoadAccountsForDeploy(o, a) ==
  AlreadyRegistered(o, a) \/ Len(accounts[o]) < MaxAccountsPerOwner

ValidateMetadata(m) ==
  /\ m.version <= MaxVersionLength
  /\ m.description <= MaxDescriptionLength
  /\ m.author <= MaxAuthorLength

\* Mutant: the dry run does not look at the cap.
SimulateDeployUncapped(o, a) == a # o

SimulateDeploy(o, a) == a # o /\ LoadAccountsForDeploy(o, a)

SimulateDeployWithMetadata(o, a, m) == SimulateDeploy(o, a) /\ ValidateMetadata(m)

GetAccounts(o) == accounts[o]

AccountCount == account_count

GetAccountMetadata(o, a) == account_metadata[o][a]

\* Mutant: an account registered before is counted again.
RegisterRecounted(o, a) ==
  /\ accounts' = [accounts EXCEPT ![o] = IF AlreadyRegistered(o, a) THEN @ ELSE Append(@, a)]
  /\ account_count' = account_count + 1

\* A new account is listed and counted, one registered before is neither.
Register(o, a) ==
  IF AlreadyRegistered(o, a) THEN UNCHANGED <<accounts, account_count>>
  ELSE /\ accounts' = [accounts EXCEPT ![o] = Append(@, a)]
       /\ account_count' = account_count + 1

-----------------------------------------------------------------------------
(* Entrypoints. *)

\* Optional: registering accounts needs no admin.
Initialize(a) ==
  /\ admin = Absent
  /\ RequireAuth(a)
  /\ admin' = a
  /\ UNCHANGED <<accounts, account_count, account_metadata>>

\* Upgrade changes the code alone.
Upgrade ==
  /\ admin # Absent
  /\ RequireAuth(admin)
  /\ UNCHANGED <<admin, accounts, account_count, account_metadata>>

DeployAccount(o, a) ==
  /\ RequireAuth(o)
  /\ a # o
  /\ LoadAccountsForDeploy(o, a)
  /\ Register(o, a)
  /\ UNCHANGED <<admin, account_metadata>>

\* Deploying again replaces the metadata.
DeployAccountWithMetadata(o, a, m) ==
  /\ RequireAuth(o)
  /\ a # o
  /\ LoadAccountsForDeploy(o, a)
  /\ ValidateMetadata(m)
  /\ Register(o, a)
  /\ account_metadata' = [account_metadata EXCEPT ![o][a] = m]
  /\ UNCHANGED admin

-----------------------------------------------------------------------------

Next ==
  \/ \E a \in Admin : Initialize(a)
  \/ Upgrade
  \/ \E o, a \in Address : DeployAccount(o, a)
  \/ \E o, a \in Address, m \in Meta : DeployAccountWithMetadata(o, a, m)

Spec == Init /\ [][Next]_vars

-----------------------------------------------------------------------------
(* Properties. *)

\* Types of every stored value (DataKey).
TypeOK ==
  /\ admin \in Admin \cup {Absent}
  /\ accounts \in [Address -> Seq(Address)]
  /\ account_count \in Nat
  /\ account_metadata \in [Address -> [Address -> AccountMetadata \cup {Absent}]]
  /\ signers \subseteq Admin \cup Address

\* The global counter is the number of pairs of an owner and an account that
\* are registered, whatever is deployed twice and by whom; no list repeats an account, holds
\* its owner or outgrows the cap, and metadata within the size limits belongs
\* to listed accounts alone (deploy_account, deploy_account_with_metadata).
AccountsCounted ==
  /\ account_count = Cardinality({p \in Address \X Address : AlreadyRegistered(p[1], p[2])})
  /\ \A o \in Address :
       /\ IsInjective(accounts[o])
       /\ o \notin ToSet(accounts[o])
       /\ Len(accounts[o]) <= MaxAccountsPerOwner
       /\ \A a \in Address : account_metadata[o][a] # Absent =>
            AlreadyRegistered(o, a) /\ ValidateMetadata(account_metadata[o][a])

\* A dry run answers what the deployment would, also at the cap, for accounts
\* registered before and for oversized metadata (simulate_deploy,
\* simulate_deploy_with_metadata).
SimulationPredictsDeploy ==
  \A o, a \in Address :
    /\ SimulateDeploy(o, a) <=> ENABLED DeployAccount(o, a)
    /\ \A m \in Meta :
         SimulateDeployWithMetadata(o, a, m) <=> ENABLED DeployAccountWithMetadata(o, a, m)

\* Registered accounts stay registered in their order and nothing is
\* registered for an owner who did not sign; the counter never goes back
\* (deploy_account, deploy_account_with_metadata).
RegistrationsArePermanent ==
  [][/\ account_count' >= account_count
     /\ \A o \in Address :
          /\ IsPrefix(accounts[o], accounts'[o])
          /\ o \notin signers' => UNCHANGED <<accounts[o], account_metadata[o]>>]_vars

Accounts == INSTANCE Directory WITH
  Holder <- Address, Name <- Address, NoRecord <- <<Absent, Absent>>, Cap <- MaxAccountsPerOwner,
  records <- [o \in Address |-> [a \in Address |->
               <<IF AlreadyRegistered(o, a) THEN a ELSE Absent, account_metadata[o][a]>>]]

\* The accounts of each owner with their metadata are a directory bounded by
\* MAX_ACCOUNTS_PER_OWNER: a deployment lists one account of one owner
\* (deploy_account, deploy_account_with_metadata).
AccountsImplementDirectory == Accounts!Spec
=============================================================================
