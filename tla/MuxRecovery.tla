---------------------------- MODULE MuxRecovery ----------------------------
(***************************************************************************)
(* contracts/mux-recovery: M-of-N guardian recovery of the owner role with *)
(* a timelock and an expiry.                                               *)
(*                                                                         *)
(* One action per state-changing entrypoint that can return Ok. An         *)
(* entrypoint that returns Err leaves no trace, because the host rolls the *)
(* frame back, so the early returns are exactly the guards. Entrypoints    *)
(* run one at a time and the ledger sequence is fixed while one runs.      *)
(*                                                                         *)
(* signers (history) is the set of addresses whose require_auth the latest *)
(* invocation passed. A key may sign anything at any time, so no action is *)
(* restricted by it; the properties read it.                               *)
(***************************************************************************)
EXTENDS Naturals, SequencesExt

CONSTANTS
  Guardian,      \* addresses that may be listed as guardians
  Holder,        \* addresses that may own the account or be nominated
  NoAddress,     \* an absent Option<Address>
  GuardianLists, \* guardian vectors offered to initialize
  Registry,      \* addresses that answer list_contracts
  Wasm,          \* code hashes offered to upgrade
  DeployedWasm,  \* the code the contract was deployed with
  Timelock,      \* RECOVERY_TIMELOCK
  Expiry,        \* RECOVERY_EXPIRY
  MaxGuardians,  \* MAX_GUARDIANS
  U32Max         \* u32::MAX, where saturating_add stops

Address == Guardian \cup Holder

ASSUME AddressAssumption == NoAddress \notin Address \cup Registry
ASSUME ListsAssumption == GuardianLists \subseteq Seq(Guardian)
ASSUME WindowAssumption ==
  /\ Timelock \in Nat
  /\ Expiry \in Nat
  /\ Timelock < Expiry
  /\ MaxGuardians \in Nat
  /\ U32Max \in Nat
ASSUME WasmAssumption == DeployedWasm \in Wasm

VARIABLES
  owner,        \* DataKey::Owner, NoAddress until initialize
  guardians,    \* DataKey::Guardians, a Vec: order and duplicates are kept
  threshold,    \* DataKey::QuorumThreshold
  recovery,     \* DataKey::Recovery
  registry_id,  \* DataKey::RegistryId
  wasm,         \* the contract's code, replaced by upgrade
  sequence,     \* env.ledger().sequence()
  signers       \* history: who authorised the latest invocation

storage == <<owner, guardians, threshold, recovery, registry_id, wasm>>
vars == <<owner, guardians, threshold, recovery, registry_id, wasm, sequence, signers>>

RecoveryStatus == {"None", "Pending", "Executed", "Cancelled"}

RecoveryRequest ==
  [new_owner : Holder \cup {NoAddress}, initiated_at : Nat, executable_at : Nat,
   expires_at : Nat, status : RecoveryStatus, approvals : Seq(Guardian)]

\* No request stored: recovery_status() reports RecoveryStatus::None.
NoRecovery ==
  [new_owner |-> NoAddress, initiated_at |-> 0, executable_at |-> 0,
   expires_at |-> 0, status |-> "None", approvals |-> <<>>]

SaturatingAdd(a, b) == IF a + b > U32Max THEN U32Max ELSE a + b

Init ==
  /\ owner = NoAddress
  /\ guardians = <<>>
  /\ threshold = 1
  /\ recovery = NoRecovery
  /\ registry_id = NoAddress
  /\ wasm = DeployedWasm
  /\ sequence = 0
  /\ signers = {}

-----------------------------------------------------------------------------
(* Conditions the entrypoints share. The definitions marked "Mutant" are    *)
(* plausible slips in the operator that follows; no specification here      *)
(* uses them.                                                               *)

Initialized == owner # NoAddress

\* Mutant: require_auth forgotten.
RequireOwnerUnsigned == Initialized /\ signers' = {}

RequireOwner == Initialized /\ signers' = {owner}

RequireGuardian(g) == Contains(guardians, g)

RequirePending == recovery.status = "Pending"

\* Mutant: off by one.
ExpiredLate == sequence > recovery.expires_at

Expired == sequence >= recovery.expires_at

\* Mutant: off by one.
MaturedEarly == sequence + 1 >= recovery.executable_at

Matured == sequence >= recovery.executable_at

Blocking == recovery.status = "Pending" /\ ~Expired

\* Mutant: duplicate approvals accepted.
AlreadyApprovedNever(g) == g \notin Guardian

AlreadyApproved(g) == Contains(recovery.approvals, g)

\* Mutant: the threshold is not read.
QuorumOfOne == Len(recovery.approvals) >= 1

QuorumReached == Len(recovery.approvals) >= threshold

\* Mutant: zero accepted.
ValidThresholdOrZero(t, gs) == t <= Len(gs)

ValidThreshold(t, gs) == t # 0 /\ t <= Len(gs)

\* Mutant: approvals of the previous request are kept.
FirstApprovalKept(g) == Append(recovery.approvals, g)

FirstApproval(g) == <<g>>

TransferOwnership ==
  /\ owner' = recovery.new_owner
  /\ recovery' = [recovery EXCEPT !.status = "Executed"]
  /\ UNCHANGED <<guardians, threshold, registry_id, wasm, sequence>>

-----------------------------------------------------------------------------
(* Entrypoints. *)

Initialize(o, gs, t) ==
  /\ ~Initialized
  /\ ValidThreshold(t, gs)
  /\ signers' = {o}
  /\ owner' = o
  /\ guardians' = gs
  /\ threshold' = t
  /\ UNCHANGED <<recovery, registry_id, wasm, sequence>>

Upgrade(w) ==
  /\ RequireOwner
  /\ wasm' = w
  /\ UNCHANGED <<owner, guardians, threshold, recovery, registry_id, sequence>>

\* Only a Pending request that has not expired stands in the way.
InitiateRecovery(g, new_owner) ==
  /\ signers' = {g}
  /\ RequireGuardian(g)
  /\ ~Blocking
  /\ recovery' = [new_owner     |-> new_owner,
                  initiated_at  |-> sequence,
                  executable_at |-> SaturatingAdd(sequence, Timelock),
                  expires_at    |-> SaturatingAdd(sequence, Expiry),
                  status        |-> "Pending",
                  approvals     |-> FirstApproval(g)]
  /\ UNCHANGED <<owner, guardians, threshold, registry_id, wasm, sequence>>

\* The expiry is not looked at here, only when the request is executed.
ApproveRecovery(g) ==
  /\ signers' = {g}
  /\ RequireGuardian(g)
  /\ RequirePending
  /\ ~AlreadyApproved(g)
  /\ recovery' = [recovery EXCEPT !.approvals = Append(@, g)]
  /\ UNCHANGED <<owner, guardians, threshold, registry_id, wasm, sequence>>

CancelRecovery ==
  /\ RequireOwner
  /\ RequirePending
  /\ recovery' = [recovery EXCEPT !.status = "Cancelled"]
  /\ UNCHANGED <<owner, guardians, threshold, registry_id, wasm, sequence>>

ExecuteRecovery(g) ==
  /\ signers' = {g}
  /\ RequireGuardian(g)
  /\ RequirePending
  /\ Matured
  /\ ~Expired
  /\ QuorumReached
  /\ TransferOwnership

ApproveRecoveryAdmin(co_guardian) ==
  /\ Initialized
  /\ signers' = {owner, co_guardian}
  /\ RequireGuardian(co_guardian)
  /\ RequirePending
  /\ ~Expired
  /\ TransferOwnership

AddGuardian(g) ==
  /\ RequireOwner
  /\ ~Contains(guardians, g)
  /\ Len(guardians) < MaxGuardians
  /\ guardians' = Append(guardians, g)
  /\ UNCHANGED <<owner, threshold, recovery, registry_id, wasm, sequence>>

\* first_index_of and remove: one occurrence goes. Neither the threshold nor
\* the approvals already given are revisited.
RemoveGuardian(g) ==
  /\ RequireOwner
  /\ Len(guardians) > 1
  /\ Contains(guardians, g)
  /\ guardians' = RemoveFirst(guardians, g)
  /\ UNCHANGED <<owner, threshold, recovery, registry_id, wasm, sequence>>

\* The registry must answer list_contracts: r is taken from the live ones.
SetRegistry(r) ==
  /\ RequireOwner
  /\ registry_id' = r
  /\ UNCHANGED <<owner, guardians, threshold, recovery, wasm, sequence>>

SetQuorumThreshold(t) ==
  /\ RequireOwner
  /\ ValidThreshold(t, guardians)
  /\ threshold' = t
  /\ UNCHANGED <<owner, guardians, recovery, registry_id, wasm, sequence>>

\* The network closes a ledger; the sequence number is a u32.
CloseLedger ==
  /\ sequence < U32Max
  /\ sequence' = sequence + 1
  /\ signers' = {}
  /\ UNCHANGED storage

-----------------------------------------------------------------------------

OwnerStep ==
  \/ \E w \in Wasm : Upgrade(w)
  \/ CancelRecovery
  \/ \E g \in Guardian : AddGuardian(g)
  \/ \E g \in Guardian : RemoveGuardian(g)
  \/ \E r \in Registry : SetRegistry(r)
  \/ \E t \in 0..(Len(guardians) + 1) : SetQuorumThreshold(t)

GuardianStep ==
  \/ \E g \in Guardian, n \in Holder : InitiateRecovery(g, n)
  \/ \E g \in Guardian : ApproveRecovery(g)
  \/ \E g \in Guardian : ExecuteRecovery(g)

Next ==
  \/ \E o \in Holder, gs \in GuardianLists : \E t \in 0..(Len(gs) + 1) : Initialize(o, gs, t)
  \/ OwnerStep
  \/ GuardianStep
  \/ \E g \in Guardian : ApproveRecoveryAdmin(g)
  \/ CloseLedger

Spec == Init /\ [][Next]_vars

\* Ledgers keep closing; nobody is obliged to call the contract.
FairSpec == Spec /\ WF_vars(CloseLedger)

-----------------------------------------------------------------------------
(* Invariants. *)

\* Types of every stored value (the contracttype structs and DataKey). The
\* threshold is never 0, which would make any request executable.
TypeOK ==
  /\ owner \in Holder \cup {NoAddress}
  /\ guardians \in Seq(Guardian)
  /\ threshold \in Nat \ {0}
  /\ recovery \in RecoveryRequest
  /\ registry_id \in Registry \cup {NoAddress}
  /\ wasm \in Wasm
  /\ sequence \in 0..U32Max
  /\ signers \subseteq Address \cup {NoAddress}

\* No address is counted twice toward the quorum, whatever order guardians
\* are removed, re-added and approve in (initiate_recovery, approve_recovery).
ApprovalsDistinct == IsInjective(recovery.approvals)

\* A request exists only on an initialised contract, names a real nominee and
\* carries at least one approval; its window is the one of the moment it was
\* made, and when the u32 arithmetic saturates the window becomes empty
\* instead of opening early (initiate_recovery and all that rewrite it).
RequestWellFormed ==
  recovery.status # "None" =>
    /\ Initialized
    /\ recovery.new_owner \in Holder
    /\ recovery.approvals # <<>>
    /\ recovery.initiated_at <= sequence
    /\ recovery.expires_at <= recovery.initiated_at + Expiry
    /\ \/ recovery.executable_at = recovery.initiated_at + Timelock
       \/ recovery.executable_at = U32Max /\ recovery.expires_at = U32Max

\* What every way of executing a request relies on: it is well formed and its
\* approvals, whose number is compared with the quorum, are distinct.
RequestSound == RequestWellFormed /\ ApprovalsDistinct

-----------------------------------------------------------------------------
(* Action properties. *)

Handover == recovery.status = "Pending" /\ recovery'.status = "Executed"

\* The owner changes only by a hand-over of the pending request to the
\* nominee it named, and a hand-over marks the request Executed, so that no
\* request is ever executed twice (execute_recovery, approve_recovery_admin).
OwnerMovesOnlyByRecovery ==
  [][Initialized /\ owner' # owner =>
       Handover /\ owner' = recovery.new_owner]_vars

\* Without the outgoing owner's signature ownership moves only after the
\* nomination has been on display for the full timelock, also at the end of
\* the u32 range, and before it expires.
TimelockRespected ==
  [][Handover /\ owner \notin signers' =>
       /\ sequence >= recovery.initiated_at + Timelock
       /\ sequence < recovery.initiated_at + Expiry]_vars

\* No hand-over happens without the signature of a guardian listed at that
\* moment, not even the owner's early one, and without the outgoing owner's
\* signature at least threshold different addresses have approved.
QuorumRespected ==
  [][Handover =>
       /\ \E g \in signers' : Contains(guardians, g)
       /\ owner \notin signers' =>
            Cardinality(ToSet(recovery.approvals)) >= threshold]_vars

\* An approval is recorded only in an invocation its guardian signed while
\* listed; approvals given to an earlier request never carry over to a new
\* one (initiate_recovery overwrites, approve_recovery appends).
CarriedOver ==
  IF recovery'.initiated_at = recovery.initiated_at /\ recovery.status = "Pending"
  THEN ToSet(recovery.approvals) ELSE {}

ApprovalsAreSigned ==
  [][recovery' # recovery /\ recovery'.status = "Pending" =>
       \A a \in ToSet(recovery'.approvals) \ CarriedOver :
         a \in signers' /\ Contains(guardians, a)]_vars

\* Guardians, quorum, registry link and code change only under the signature
\* of the owner of the moment, in particular not under that of an owner who
\* was replaced (every owner-only entrypoint).
OwnerControlsConfiguration ==
  [][Initialized /\ <<guardians, threshold, registry_id, wasm>>'
                      # <<guardians, threshold, registry_id, wasm>> =>
       owner \in signers']_vars

-----------------------------------------------------------------------------
(* Liveness and refinement. *)

\* No request, however it was left behind, blocks recovery for good: as
\* ledgers keep closing some guardian can again initiate one
\* (initiate_recovery overwrites an expired Pending request).
RecoveryReopens ==
  [](Initialized => <>(\E g \in Guardian, n \in Holder : ENABLED InitiateRecovery(g, n)))

Ownership == INSTANCE TimelockedOwnership WITH
  Address <- Holder,
  Delay   <- Timelock,
  Window  <- Expiry,
  Horizon <- U32Max,
  nominee <- IF recovery.status = "Pending" THEN recovery.new_owner ELSE NoAddress,
  opened  <- IF recovery.status = "Pending" THEN recovery.initiated_at ELSE 0,
  now     <- sequence

\* The contract implements timelocked ownership.
ImplementsTimelockedOwnership == Ownership!Spec

-----------------------------------------------------------------------------
(* What the documentation says and the code does not do. *)

\* docs: the quorum is between 1 and the current number of guardians.
QuorumWithinGuardians == Initialized => threshold <= Len(guardians)
=============================================================================
