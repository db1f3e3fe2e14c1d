------------------------- MODULE MuxRecovery_proofs -------------------------
(***************************************************************************)
(* Theorems about MuxRecovery, for every set of guardians and holders,     *)
(* every timelock shorter than the expiry and every u32 range.             *)
(***************************************************************************)
EXTENDS MuxRecovery, SeqLemmas

(* ----------------------- Lemmas about the helpers ---------------------- *)

\* saturating_add stays in range and never exceeds the exact sum.
LEMMA SaturatingAddBounds ==
  ASSUME NEW a \in 0..U32Max, NEW b \in Nat
  PROVE  /\ SaturatingAdd(a, b) \in 0..U32Max
         /\ SaturatingAdd(a, b) >= a
         /\ SaturatingAdd(a, b) <= a + b
         /\ SaturatingAdd(a, b) = a + b \/ SaturatingAdd(a, b) = U32Max
BY WindowAssumption DEF SaturatingAdd

(* --------------------------- Type correctness -------------------------- *)

\* Every reachable state stores values of the declared types; in particular
\* the quorum threshold is never 0 and the ledger stays in the u32 range.
THEOREM TypeCorrect == Spec => []TypeOK
<1> USE WindowAssumption DEF TypeOK
<1>1. Init => TypeOK
  BY WasmAssumption DEF Init, NoRecovery, RecoveryRequest, RecoveryStatus
<1>2. TypeOK /\ [Next]_vars => TypeOK'
  <2> SUFFICES ASSUME TypeOK, [Next]_vars
               PROVE  TypeOK'
    OBVIOUS
  <2>1. ASSUME NEW o \in Holder, NEW gs \in GuardianLists,
               NEW t \in 0..(Len(gs) + 1), Initialize(o, gs, t)
        PROVE  TypeOK'
    BY <2>1, ListsAssumption DEF Initialize, ValidThreshold, Address
  <2>2. ASSUME NEW w \in Wasm, Upgrade(w)
        PROVE  TypeOK'
    BY <2>2 DEF Upgrade, RequireOwner, Address
  <2>3. ASSUME NEW g \in Guardian, NEW n \in Holder, InitiateRecovery(g, n)
        PROVE  TypeOK'
    <3>1. recovery' \in RecoveryRequest
      BY <2>3, SaturatingAddBounds DEF InitiateRecovery, FirstApproval, RecoveryRequest, RecoveryStatus
    <3>. QED  BY <2>3, <3>1 DEF InitiateRecovery, Address
  <2>4. ASSUME NEW g \in Guardian, ApproveRecovery(g)
        PROVE  TypeOK'
    <3>1. recovery' \in RecoveryRequest
      <4>1. recovery' = [recovery EXCEPT !.approvals = Append(recovery.approvals, g)]
        BY <2>4 DEF ApproveRecovery
      <4>2. Append(recovery.approvals, g) \in Seq(Guardian)
        BY DEF RecoveryRequest
      <4>. QED  BY <4>1, <4>2, Zenon DEF RecoveryRequest
    <3>. QED  BY <2>4, <3>1 DEF ApproveRecovery, Address
  <2>5. CASE CancelRecovery
    <3>1. recovery' \in RecoveryRequest
      <4>1. recovery' = [recovery EXCEPT !.status = "Cancelled"]
        BY <2>5 DEF CancelRecovery
      <4>2. recovery \in RecoveryRequest /\ "Cancelled" \in RecoveryStatus
        BY DEF RecoveryStatus
      <4>. QED  BY <4>1, <4>2, Zenon DEF RecoveryRequest
    <3>. QED  BY <2>5, <3>1 DEF CancelRecovery, RequireOwner, Address
  <2>6. ASSUME TransferOwnership
        PROVE  owner' \in Holder \cup {NoAddress} /\ recovery' \in RecoveryRequest
    BY <2>6 DEF TransferOwnership, RecoveryRequest, RecoveryStatus
  <2>7. ASSUME NEW g \in Guardian, ExecuteRecovery(g)
        PROVE  TypeOK'
    BY <2>6, <2>7 DEF ExecuteRecovery, TransferOwnership, Address
  <2>8. ASSUME NEW g \in Guardian, ApproveRecoveryAdmin(g)
        PROVE  TypeOK'
    BY <2>6, <2>8 DEF ApproveRecoveryAdmin, TransferOwnership, Address
  <2>9. ASSUME NEW g \in Guardian, AddGuardian(g)
        PROVE  TypeOK'
    BY <2>9 DEF AddGuardian, RequireOwner, Address
  <2>10. ASSUME NEW g \in Guardian, RemoveGuardian(g)
         PROVE  TypeOK'
    BY <2>10, RemoveFirstProperties DEF RemoveGuardian, RequireOwner, Address
  <2>11. ASSUME NEW r \in Registry, SetRegistry(r)
         PROVE  TypeOK'
    BY <2>11 DEF SetRegistry, RequireOwner, Address
  <2>12. ASSUME NEW t \in 0..(Len(guardians) + 1), SetQuorumThreshold(t)
         PROVE  TypeOK'
    BY <2>12 DEF SetQuorumThreshold, RequireOwner, ValidThreshold, Address
  <2>13. CASE CloseLedger
    BY <2>13 DEF CloseLedger, storage
  <2>14. CASE UNCHANGED vars
    BY <2>14 DEF vars
  <2>. QED
    BY <2>1, <2>2, <2>3, <2>4, <2>5, <2>7, <2>8, <2>9, <2>10, <2>11, <2>12, <2>13, <2>14
       DEF Next, OwnerStep, GuardianStep
<1>. QED
  BY <1>1, <1>2, PTL DEF Spec

(* ------------------------- Inductive invariant ------------------------- *)

\* Nobody is a guardian before initialize.
GuardiansFollowOwner == guardians # <<>> => Initialized

\* The two deadlines of a request are those computed when it was made.
RequestWindow ==
  recovery.status # "None" =>
    /\ recovery.executable_at = SaturatingAdd(recovery.initiated_at, Timelock)
    /\ recovery.expires_at = SaturatingAdd(recovery.initiated_at, Expiry)

\* The inductive invariant: TypeOK gives the fields their types,
\* GuardiansFollowOwner is what makes a request impossible before initialize,
\* and RequestWindow is what the deadlines are compared through.
IInv ==
  TypeOK /\ GuardiansFollowOwner /\ RequestWindow /\ RequestWellFormed /\ ApprovalsDistinct

\* What a step may do to the stored request: nothing, create it, append an
\* approval, or close it.
LEMMA RequestSteps ==
  ASSUME TypeOK, [Next]_vars
  PROVE  \/ UNCHANGED recovery
         \/ \E g \in Guardian, n \in Holder : InitiateRecovery(g, n)
         \/ \E g \in Guardian : ApproveRecovery(g)
         \/ /\ RequirePending /\ UNCHANGED sequence
            /\ \E st \in {"Cancelled", "Executed"} :
                 recovery' = [recovery EXCEPT !.status = st]
BY DEF Next, OwnerStep, GuardianStep, vars, storage, Initialize, Upgrade, CancelRecovery,
       ExecuteRecovery, ApproveRecoveryAdmin, TransferOwnership, AddGuardian, RemoveGuardian,
       SetRegistry, SetQuorumThreshold, CloseLedger, RequirePending

\* The owner is set once and then always someone; the ledger only advances.
LEMMA OwnerAndLedgerSteps ==
  ASSUME IInv, [Next]_vars
  PROVE  /\ Initialized => Initialized'
         /\ sequence' = sequence \/ sequence' = sequence + 1
<1> USE DEF Initialized
<1>1. NoAddress \notin Holder
  BY AddressAssumption DEF Address
<1>2. ASSUME TransferOwnership, RequirePending
      PROVE  owner' # NoAddress
  BY <1>1, <1>2 DEF TransferOwnership, RequirePending, IInv, RequestWellFormed
<1>. QED
  BY <1>1, <1>2
     DEF Next, OwnerStep, GuardianStep, vars, storage, Initialize, Upgrade, InitiateRecovery,
         ApproveRecovery, CancelRecovery, ExecuteRecovery, ApproveRecoveryAdmin,
         TransferOwnership, AddGuardian, RemoveGuardian, SetRegistry, SetQuorumThreshold,
         CloseLedger

\* A contract that stores guardians has an owner, and keeps having one.
LEMMA GuardiansFollowOwnerStep ==
  IInv /\ [Next]_vars => GuardiansFollowOwner'
<1> SUFFICES ASSUME IInv, [Next]_vars, ~Initialized'
             PROVE  guardians' = <<>>
  BY DEF GuardiansFollowOwner
<1>1. ~Initialized
  BY OwnerAndLedgerSteps
<1>2. guardians = <<>>
  BY <1>1 DEF IInv, GuardiansFollowOwner
<1>3. \A o \in Holder, gs \in GuardianLists : \A t \in 0..(Len(gs) + 1) : ~Initialize(o, gs, t)
  BY AddressAssumption DEF Initialize, Initialized, Address
<1>. QED
  BY <1>1, <1>2, <1>3
     DEF Next, OwnerStep, GuardianStep, vars, storage, Upgrade, InitiateRecovery,
         ApproveRecovery, CancelRecovery, ExecuteRecovery, ApproveRecoveryAdmin, RequireOwner,
         TransferOwnership, AddGuardian, RemoveGuardian, SetRegistry, SetQuorumThreshold,
         CloseLedger

\* Whatever a step does to the request, it stays well formed.
LEMMA RequestWellFormedStep ==
  IInv /\ [Next]_vars => RequestWellFormed'
<1> SUFFICES ASSUME IInv, [Next]_vars, recovery'.status # "None"
             PROVE  RequestWellFormed'
  BY DEF RequestWellFormed
<1> USE WindowAssumption DEF IInv, TypeOK
<1>1. sequence \in Nat /\ recovery \in RecoveryRequest
  OBVIOUS
<1>2. CASE UNCHANGED recovery
  BY <1>1, <1>2, OwnerAndLedgerSteps DEF RequestWellFormed, RecoveryRequest
<1>3. ASSUME NEW g \in Guardian, NEW n \in Holder, InitiateRecovery(g, n)
      PROVE  RequestWellFormed'
  <2>1. Initialized'
    <3>1. guardians # <<>>
      BY <1>3 DEF InitiateRecovery, RequireGuardian, Contains
    <3>. QED
      BY <3>1, OwnerAndLedgerSteps DEF GuardiansFollowOwner
  <2>2. /\ \/ SaturatingAdd(sequence, Timelock) = sequence + Timelock
           \/ /\ SaturatingAdd(sequence, Timelock) = U32Max
              /\ SaturatingAdd(sequence, Expiry) = U32Max
        /\ SaturatingAdd(sequence, Expiry) <= sequence + Expiry
    BY <1>1 DEF SaturatingAdd
  <2>3. /\ recovery'.new_owner = n /\ recovery'.approvals = <<g>>
        /\ recovery'.initiated_at = sequence
        /\ recovery'.executable_at = SaturatingAdd(sequence, Timelock)
        /\ recovery'.expires_at = SaturatingAdd(sequence, Expiry)
        /\ sequence' = sequence
    BY <1>3 DEF InitiateRecovery, FirstApproval
  <2>. QED
    BY <1>1, <2>1, <2>2, <2>3 DEF RequestWellFormed
<1>4. ASSUME NEW g \in Guardian, ApproveRecovery(g)
      PROVE  RequestWellFormed'
  <2>1. /\ recovery' = [recovery EXCEPT !.approvals = Append(recovery.approvals, g)]
        /\ recovery.status = "Pending"
        /\ sequence' = sequence
    BY <1>4 DEF ApproveRecovery, RequirePending
  <2>2. Append(recovery.approvals, g) # <<>>
    BY <1>1 DEF RecoveryRequest
  <2>. QED
    BY <1>1, <2>1, <2>2, OwnerAndLedgerSteps DEF RequestWellFormed, RecoveryRequest
<1>5. ASSUME RequirePending, UNCHANGED sequence,
             NEW st \in {"Cancelled", "Executed"}, recovery' = [recovery EXCEPT !.status = st]
      PROVE  RequestWellFormed'
  BY <1>1, <1>5, OwnerAndLedgerSteps DEF RequestWellFormed, RecoveryRequest, RequirePending
<1>. QED
  BY <1>2, <1>3, <1>4, <1>5, RequestSteps

\* The timelock of a request ends before its expiry, saturated or not, and
\* later steps do not move either deadline.
LEMMA RequestWindowStep ==
  IInv /\ [Next]_vars => RequestWindow'
<1> SUFFICES ASSUME IInv, [Next]_vars
             PROVE  RequestWindow'
  OBVIOUS
<1> USE DEF RequestWindow, SaturatingAdd
<1>1. recovery \in RecoveryRequest /\ RequestWindow
  BY DEF IInv, TypeOK
<1>2. CASE UNCHANGED recovery
  BY <1>1, <1>2
<1>3. ASSUME NEW g \in Guardian, NEW n \in Holder, InitiateRecovery(g, n)
      PROVE  RequestWindow'
  BY <1>3 DEF InitiateRecovery
<1>4. ASSUME NEW g \in Guardian, ApproveRecovery(g)
      PROVE  RequestWindow'
  BY <1>1, <1>4 DEF ApproveRecovery, RequirePending, RecoveryRequest
<1>5. ASSUME RequirePending,
             NEW st \in {"Cancelled", "Executed"}, recovery' = [recovery EXCEPT !.status = st]
      PROVE  RequestWindow'
  BY <1>1, <1>5 DEF RecoveryRequest, RequirePending
<1>. QED
  BY <1>2, <1>3, <1>4, <1>5, RequestSteps DEF IInv

\* initiate_recovery starts with one approval and approve_recovery appends
\* only an address that is not there yet.
LEMMA ApprovalsDistinctStep ==
  IInv /\ [Next]_vars => ApprovalsDistinct'
<1> SUFFICES ASSUME IInv, [Next]_vars
             PROVE  ApprovalsDistinct'
  OBVIOUS
<1> USE DEF ApprovalsDistinct
<1>1. recovery \in RecoveryRequest /\ recovery.approvals \in Seq(Guardian)
      /\ IsInjective(recovery.approvals)
  BY DEF IInv, TypeOK, RecoveryRequest
<1>2. CASE UNCHANGED recovery
  BY <1>1, <1>2
<1>3. ASSUME NEW g \in Guardian, NEW n \in Holder, InitiateRecovery(g, n)
      PROVE  ApprovalsDistinct'
  BY <1>3 DEF InitiateRecovery, FirstApproval, IsInjective
<1>4. ASSUME NEW g \in Guardian, ApproveRecovery(g)
      PROVE  ApprovalsDistinct'
  <2>1. /\ recovery'.approvals = Append(recovery.approvals, g)
        /\ ~Contains(recovery.approvals, g)
    BY <1>1, <1>4 DEF ApproveRecovery, AlreadyApproved, RecoveryRequest
  <2>. QED
    BY <1>1, <2>1, InjectiveAppend
<1>5. ASSUME NEW st \in {"Cancelled", "Executed"}, recovery' = [recovery EXCEPT !.status = st]
      PROVE  ApprovalsDistinct'
  BY <1>1, <1>5 DEF RecoveryRequest
<1>. QED
  BY <1>2, <1>3, <1>4, <1>5, RequestSteps DEF IInv

\* In every reachable state the invariant holds.
THEOREM Invariance == Spec => []IInv
<1>1. Init /\ TypeOK => IInv
  BY DEF Init, NoRecovery, IInv, GuardiansFollowOwner, RequestWindow, RequestWellFormed,
         ApprovalsDistinct, IsInjective
<1>2. IInv /\ [Next]_vars /\ TypeOK' => IInv'
  BY GuardiansFollowOwnerStep, RequestWindowStep, RequestWellFormedStep, ApprovalsDistinctStep
     DEF IInv
<1>. QED
  BY <1>1, <1>2, TypeCorrect, PTL DEF Spec

\* The stored request is always well formed, with a named nominee, at least
\* one approval and a window that saturation can only close, and no address
\* is counted twice toward its quorum.
THEOREM RequestsAreSound == Spec => []RequestSound
<1>1. IInv => RequestSound
  BY DEF IInv, RequestSound
<1>. QED
  BY <1>1, Invariance, PTL

(* --------------------------- Action properties ------------------------- *)

\* A hand-over is an execute_recovery or an approve_recovery_admin.
LEMMA HandoverSteps ==
  ASSUME IInv, [Next]_vars, Handover
  PROVE  \/ \E g \in Guardian : ExecuteRecovery(g)
         \/ \E g \in Guardian : ApproveRecoveryAdmin(g)
<1>1. recovery \in RecoveryRequest
  BY DEF IInv, TypeOK
<1>. QED
  BY <1>1
     DEF Next, OwnerStep, GuardianStep, vars, storage, Initialize, Upgrade, CancelRecovery,
         InitiateRecovery, ApproveRecovery, AddGuardian, RemoveGuardian, SetRegistry,
         SetQuorumThreshold, CloseLedger, Handover, RecoveryRequest

\* Ownership never moves without the outgoing owner's signature before the
\* full timelock, nor after the expiry, whatever the u32 range.
THEOREM TimelockHolds == Spec => TimelockRespected
<1>1. IInv /\ [Next]_vars =>
        [Handover /\ owner \notin signers' =>
           /\ sequence >= recovery.initiated_at + Timelock
           /\ sequence < recovery.initiated_at + Expiry]_vars
  <2> SUFFICES ASSUME IInv, [Next]_vars, Handover, owner \notin signers'
               PROVE  /\ sequence >= recovery.initiated_at + Timelock
                      /\ sequence < recovery.initiated_at + Expiry
    OBVIOUS
  <2>1. PICK g \in Guardian : ExecuteRecovery(g)
    <3>1. \A g \in Guardian : ~ApproveRecoveryAdmin(g)
      BY DEF ApproveRecoveryAdmin
    <3>. QED
      BY <3>1, HandoverSteps
  <2>2. sequence >= recovery.executable_at /\ sequence < recovery.expires_at
    BY <2>1 DEF ExecuteRecovery, Matured, Expired, IInv, TypeOK, RecoveryRequest
  <2>3. /\ recovery \in RecoveryRequest
        /\ sequence \in Nat /\ sequence <= U32Max /\ U32Max \in Nat
    BY WindowAssumption DEF IInv, TypeOK
  <2>4. /\ recovery.initiated_at \in Nat /\ recovery.expires_at \in Nat
        /\ recovery.executable_at \in Nat
    BY <2>3 DEF RecoveryRequest
  <2>5. /\ recovery.expires_at <= recovery.initiated_at + Expiry
        /\ \/ recovery.executable_at = recovery.initiated_at + Timelock
           \/ recovery.executable_at = U32Max /\ recovery.expires_at = U32Max
    BY DEF IInv, RequestWellFormed, Handover
  <2>. QED
    BY <2>2, <2>3, <2>4, <2>5, WindowAssumption
<1>. QED
  BY <1>1, Invariance, PTL DEF Spec, TimelockRespected

\* A listed guardian signs every hand-over, and without the outgoing owner's
\* signature at least threshold different addresses approved the request.
THEOREM QuorumHolds == Spec => QuorumRespected
<1>1. ASSUME IInv, [Next]_vars, Handover
      PROVE  /\ \E g \in signers' : Contains(guardians, g)
             /\ owner \notin signers' =>
                  Cardinality(ToSet(recovery.approvals)) >= threshold
  <2>1. PICK g \in Guardian : ExecuteRecovery(g) \/ ApproveRecoveryAdmin(g)
    BY <1>1, HandoverSteps
  <2>2. g \in signers' /\ Contains(guardians, g)
    BY <2>1 DEF ExecuteRecovery, ApproveRecoveryAdmin, RequireGuardian
  <2>3. owner \notin signers' => Len(recovery.approvals) >= threshold
    BY <2>1 DEF ExecuteRecovery, ApproveRecoveryAdmin, QuorumReached
  <2>4. recovery.approvals \in Seq(Guardian) /\ IsInjective(recovery.approvals)
    BY <1>1 DEF IInv, TypeOK, RecoveryRequest, ApprovalsDistinct
  <2>5. Cardinality(ToSet(recovery.approvals)) = Len(recovery.approvals)
    BY <2>4, InjectiveCardinality
  <2>. QED
    BY <2>2, <2>3, <2>5
<1>2. IInv /\ [Next]_vars =>
        [Handover =>
           /\ \E g \in signers' : Contains(guardians, g)
           /\ owner \notin signers' =>
                Cardinality(ToSet(recovery.approvals)) >= threshold]_vars
  BY <1>1
<1>. QED
  BY <1>2, Invariance, PTL DEF Spec, QuorumRespected

\* The owner changes only by a hand-over to the nominee of the pending
\* request, which is closed by it.
THEOREM OwnerMoves == Spec => OwnerMovesOnlyByRecovery
<1>1. IInv /\ [Next]_vars =>
        [Initialized /\ owner' # owner =>
           Handover /\ owner' = recovery.new_owner]_vars
  <2> SUFFICES ASSUME IInv, [Next]_vars, Initialized, owner' # owner
               PROVE  Handover /\ owner' = recovery.new_owner
    OBVIOUS
  <2>1. TransferOwnership /\ RequirePending
    BY DEF Next, OwnerStep, GuardianStep, vars, storage, Initialize, Upgrade, CancelRecovery,
           InitiateRecovery, ApproveRecovery, ExecuteRecovery, ApproveRecoveryAdmin, AddGuardian,
           RemoveGuardian, SetRegistry, SetQuorumThreshold, CloseLedger, RequirePending
  <2>2. recovery \in RecoveryRequest
    BY DEF IInv, TypeOK
  <2>. QED
    BY <2>1, <2>2 DEF TransferOwnership, RequirePending, Handover, RecoveryRequest
<1>. QED
  BY <1>1, Invariance, PTL DEF Spec, OwnerMovesOnlyByRecovery

\* Whoever is recorded as approving a request signed for it while listed as a
\* guardian; approvals of an earlier request are gone.
THEOREM SignedApprovalsHold == Spec => ApprovalsAreSigned
<1> DEFINE Step == recovery' # recovery /\ recovery'.status = "Pending" =>
             \A a \in ToSet(recovery'.approvals) \ CarriedOver :
               a \in signers' /\ Contains(guardians, a)
<1>1. ASSUME IInv, [Next]_vars, recovery' # recovery, recovery'.status = "Pending",
             NEW a \in ToSet(recovery'.approvals) \ CarriedOver
      PROVE  a \in signers' /\ Contains(guardians, a)
  <2>1. recovery \in RecoveryRequest /\ recovery.approvals \in Seq(Guardian)
    BY <1>1 DEF IInv, TypeOK, RecoveryRequest
  <2>2. ASSUME NEW g \in Guardian, NEW n \in Holder, InitiateRecovery(g, n)
        PROVE  a \in signers' /\ Contains(guardians, a)
    <3>1. recovery'.approvals = <<g>> /\ g \in signers' /\ Contains(guardians, g)
      BY <2>2 DEF InitiateRecovery, FirstApproval, RequireGuardian
    <3>2. ToSet(recovery'.approvals) = {g}
      BY <3>1 DEF ToSet
    <3>. QED  BY <3>1, <3>2
  <2>3. ASSUME NEW g \in Guardian, ApproveRecovery(g)
        PROVE  a \in signers' /\ Contains(guardians, a)
    <3>1. /\ recovery.status = "Pending" /\ g \in signers' /\ Contains(guardians, g)
          /\ recovery' = [recovery EXCEPT !.approvals = Append(recovery.approvals, g)]
      BY <2>3 DEF ApproveRecovery, RequireGuardian, RequirePending
    <3>2. /\ recovery'.approvals = Append(recovery.approvals, g)
          /\ recovery'.initiated_at = recovery.initiated_at
      BY <2>1, <3>1 DEF RecoveryRequest
    <3>3. CarriedOver = ToSet(recovery.approvals)
      BY <3>1, <3>2 DEF CarriedOver
    <3>4. ToSet(recovery'.approvals) \subseteq ToSet(recovery.approvals) \cup {g}
      BY <2>1, <3>2, AppendProperties DEF ToSet
    <3>. QED  BY <3>1, <3>3, <3>4
  <2>4. ASSUME RequirePending, NEW st \in {"Cancelled", "Executed"},
               recovery' = [recovery EXCEPT !.status = st]
        PROVE  FALSE
    BY <1>1, <2>1, <2>4 DEF RecoveryRequest
  <2>. QED  BY <1>1, <2>2, <2>3, <2>4, RequestSteps DEF IInv
<1>2. IInv /\ [Next]_vars => [Step]_vars
  BY <1>1
<1>. QED
  BY <1>2, Invariance, PTL DEF Spec, ApprovalsAreSigned

\* Once there is an owner, guardians, quorum, registry link and code change
\* only with the signature of the owner of that moment.
THEOREM OwnerSigns == Spec => OwnerControlsConfiguration
<1> DEFINE Step == Initialized /\ <<guardians, threshold, registry_id, wasm>>'
                                    # <<guardians, threshold, registry_id, wasm>> =>
             owner \in signers'
<1>1. [Next]_vars => [Step]_vars
  <2> SUFFICES ASSUME [Next]_vars, Initialized,
                      <<guardians, threshold, registry_id, wasm>>'
                        # <<guardians, threshold, registry_id, wasm>>
               PROVE  owner \in signers'
    OBVIOUS
  <2>1. CASE OwnerStep
    BY <2>1 DEF OwnerStep, Upgrade, CancelRecovery, AddGuardian, RemoveGuardian, SetRegistry,
                SetQuorumThreshold, RequireOwner
  <2>2. CASE GuardianStep \/ (\E g \in Guardian : ApproveRecoveryAdmin(g)) \/ CloseLedger
             \/ UNCHANGED vars
    <3>1. UNCHANGED <<guardians, threshold, registry_id, wasm>>
      BY <2>2 DEF GuardianStep, InitiateRecovery, ApproveRecovery, ExecuteRecovery,
                  ApproveRecoveryAdmin, TransferOwnership, CloseLedger, vars, storage
    <3>. QED  BY <3>1
  <2>3. CASE \E o \in Holder, gs \in GuardianLists : \E t \in 0..(Len(gs) + 1) : Initialize(o, gs, t)
    BY <2>3 DEF Initialize
  <2>. QED  BY <2>1, <2>2, <2>3 DEF Next
<1>. QED
  BY <1>1, PTL DEF Spec, OwnerControlsConfiguration

(* ------------------------------ Refinement ----------------------------- *)

\* Every step of the contract is a step of timelocked ownership or a stutter:
\* initiating nominates, cancelling withdraws, both executions take over, and
\* approving and administering guardians leave ownership alone.
LEMMA OwnershipStep ==
  IInv /\ [Next]_vars => [Ownership!Next]_(Ownership!ownershipVars)
<1> SUFFICES ASSUME IInv, [Next]_vars
             PROVE  [Ownership!Next]_(Ownership!ownershipVars)
  OBVIOUS
<1> USE DEF Ownership!Next, Ownership!ownershipVars
<1>1. /\ recovery \in RecoveryRequest
      /\ NoAddress \notin Holder
      /\ sequence \in Nat /\ sequence <= U32Max
      /\ Timelock \in Nat /\ Expiry \in Nat /\ U32Max \in Nat
  BY AddressAssumption, WindowAssumption DEF IInv, TypeOK, Address
<1>2. /\ recovery.initiated_at \in Nat /\ recovery.expires_at \in Nat
      /\ recovery.executable_at \in Nat
  BY <1>1 DEF RecoveryRequest
<1>3. RequirePending =>
        /\ recovery.new_owner \in Holder
        /\ Initialized
        /\ recovery.initiated_at <= sequence
        /\ recovery.expires_at = Ownership!Lapse(recovery.initiated_at)
        /\ Matured /\ ~Expired => recovery.initiated_at + Timelock <= sequence
  BY <1>1, <1>2
     DEF IInv, RequestWellFormed, RequestWindow, RequirePending, SaturatingAdd, Ownership!Lapse,
         Matured, Expired
<1>4. CASE UNCHANGED <<owner, recovery, sequence>>
  BY <1>4
<1>5. ASSUME NEW o \in Holder, NEW gs \in GuardianLists,
             NEW t \in 0..(Len(gs) + 1), Initialize(o, gs, t)
      PROVE  Ownership!Claim
  BY <1>5 DEF Ownership!Claim, Initialize, Initialized
<1>6. ASSUME NEW g \in Guardian, NEW n \in Holder, InitiateRecovery(g, n)
      PROVE  Ownership!Nominate
  <2>1. Initialized
    BY <1>6 DEF IInv, TypeOK, GuardiansFollowOwner, InitiateRecovery, RequireGuardian, Contains
  <2>2. RequirePending => sequence >= Ownership!Lapse(recovery.initiated_at)
    BY <1>3, <1>6 DEF InitiateRecovery, Blocking, Expired, RequirePending
  <2>3. /\ recovery'.status = "Pending" /\ recovery'.new_owner = n
        /\ recovery'.initiated_at = sequence
        /\ UNCHANGED <<owner, sequence>>
    BY <1>6 DEF InitiateRecovery
  <2>. QED
    BY <2>1, <2>2, <2>3 DEF Ownership!Nominate, Ownership!Waiting, Initialized, RequirePending
<1>7. ASSUME NEW g \in Guardian, ApproveRecovery(g)
      PROVE  UNCHANGED Ownership!ownershipVars
  BY <1>1, <1>7 DEF ApproveRecovery, RecoveryRequest
<1>8. CASE CancelRecovery
  <2>1. recovery'.status = "Cancelled" /\ UNCHANGED <<owner, sequence>> /\ signers' = {owner}
    BY <1>1, <1>8 DEF CancelRecovery, RequireOwner, RecoveryRequest
  <2>2. Ownership!Withdraw
    BY <1>1, <1>3, <1>8, <2>1 DEF Ownership!Withdraw, Ownership!Waiting, CancelRecovery, RequirePending
  <2>. QED  BY <2>2
<1>9. ASSUME TransferOwnership, RequirePending, ~Expired, Matured \/ owner \in signers'
      PROVE  Ownership!TakeOver
  <2>1. /\ recovery'.status = "Executed" /\ owner' = recovery.new_owner
        /\ sequence' = sequence
    BY <1>1, <1>9 DEF TransferOwnership, RecoveryRequest
  <2>2. sequence < Ownership!Lapse(recovery.initiated_at)
    BY <1>1, <1>2, <1>3, <1>9 DEF Expired
  <2>. QED
    BY <1>1, <1>3, <1>9, <2>1, <2>2 DEF Ownership!TakeOver, Ownership!Waiting, RequirePending
<1>10. ASSUME NEW g \in Guardian, ExecuteRecovery(g)
       PROVE  Ownership!TakeOver
  BY <1>9, <1>10 DEF ExecuteRecovery
<1>11. ASSUME NEW g \in Guardian, ApproveRecoveryAdmin(g)
       PROVE  Ownership!TakeOver
  BY <1>9, <1>11 DEF ApproveRecoveryAdmin
<1>12. CASE CloseLedger
  BY <1>12 DEF CloseLedger, storage, Ownership!Pass
<1>. QED
  BY <1>4, <1>5, <1>6, <1>7, <1>8, <1>10, <1>11, <1>12
     DEF Next, OwnerStep, GuardianStep, vars, Upgrade, AddGuardian, RemoveGuardian,
         SetRegistry, SetQuorumThreshold

\* The contract implements timelocked ownership.
THEOREM Refinement == Spec => ImplementsTimelockedOwnership
<1>1. Init => Ownership!Init
  BY DEF Init, NoRecovery, Ownership!Init
<1>. QED
  BY <1>1, OwnershipStep, Invariance, PTL
     DEF Spec, ImplementsTimelockedOwnership, Ownership!Spec

(* ------------------------ Quorum and guardians ------------------------- *)

\* A step either leaves guardians and threshold alone, or is one of the four
\* that do not.
LEMMA ConfigurationSteps ==
  ASSUME [Next]_vars
  PROVE  \/ UNCHANGED <<guardians, threshold>> /\ (Initialized' => Initialized \/ recovery.status = "Pending")
         \/ \E o \in Holder, gs \in GuardianLists : \E t \in 0..(Len(gs) + 1) : Initialize(o, gs, t)
         \/ \E g \in Guardian : AddGuardian(g)
         \/ \E g \in Guardian : RemoveGuardian(g)
         \/ \E t \in 0..(Len(guardians) + 1) : SetQuorumThreshold(t)
BY DEF Next, OwnerStep, GuardianStep, vars, storage, Upgrade, InitiateRecovery, ApproveRecovery,
       CancelRecovery, ExecuteRecovery, ApproveRecoveryAdmin, RequireOwner, TransferOwnership,
       RequirePending, SetRegistry, CloseLedger, Initialized

\* Removing a guardian removes exactly one.
LEMMA RemovalShortens ==
  ASSUME TypeOK, NEW g \in Guardian, RemoveGuardian(g)
  PROVE  Len(guardians') = Len(guardians) - 1 /\ Len(guardians) > 1
<1>1. guardians \in Seq(Guardian) /\ Contains(guardians, g) /\ guardians' = RemoveFirst(guardians, g)
  BY DEF TypeOK, RemoveGuardian
<1>2. PICK i \in 1..Len(guardians) : RemoveFirst(guardians, g) = RemoveAt(guardians, i)
  BY <1>1, RemoveFirstIsRemoveAt
<1>. QED
  BY <1>1, <1>2, RemoveAtProperties DEF RemoveGuardian

\* Once initialised the contract always has a guardian: remove_guardian keeps
\* the last one.
SomeGuardian == Initialized => Len(guardians) >= 1

THEOREM SomeGuardianStays == Spec => []SomeGuardian
<1>1. Init => SomeGuardian
  BY DEF Init, SomeGuardian, Initialized
<1>2. IInv /\ SomeGuardian /\ [Next]_vars => SomeGuardian'
  <2> SUFFICES ASSUME IInv, SomeGuardian, [Next]_vars, Initialized'
               PROVE  Len(guardians') >= 1
    BY DEF SomeGuardian
  <2>1. TypeOK /\ guardians \in Seq(Guardian) /\ Len(guardians) \in Nat
    BY LenProperties DEF IInv, TypeOK
  <2>2. CASE UNCHANGED <<guardians, threshold>> /\ (Initialized \/ recovery.status = "Pending")
    BY <2>2 DEF IInv, RequestWellFormed, SomeGuardian
  <2>3. ASSUME NEW o \in Holder, NEW gs \in GuardianLists, NEW t \in 0..(Len(gs) + 1),
               Initialize(o, gs, t)
        PROVE  Len(guardians') >= 1
    BY <2>3, ListsAssumption DEF Initialize, ValidThreshold
  <2>4. ASSUME NEW g \in Guardian, AddGuardian(g)
        PROVE  Len(guardians') >= 1
    BY <2>1, <2>4 DEF AddGuardian
  <2>5. ASSUME NEW g \in Guardian, RemoveGuardian(g)
        PROVE  Len(guardians') >= 1
    BY <2>1, <2>5, RemovalShortens
  <2>6. ASSUME NEW t \in 0..(Len(guardians) + 1), SetQuorumThreshold(t)
        PROVE  Len(guardians') >= 1
    BY <2>6 DEF SetQuorumThreshold, RequireOwner, SomeGuardian
  <2>. QED
    BY <2>2, <2>3, <2>4, <2>5, <2>6, ConfigurationSteps
<1>. QED
  BY <1>1, <1>2, Invariance, PTL DEF Spec

\* remove_guardian is only called while more guardians are left than the
\* quorum asks for.
RemovalsSpareQuorum ==
  [][\A g \in Guardian : RemoveGuardian(g) => threshold < Len(guardians)]_vars

\* What the documentation says of the quorum fails through remove_guardian and
\* through nothing else: as long as no removal goes below the quorum, the
\* threshold is never more than the number of guardians (initialize,
\* add_guardian, set_quorum_threshold, and both ways of executing a request).
THEOREM QuorumFitsWithoutRemovals == Spec /\ RemovalsSpareQuorum => []QuorumWithinGuardians
<1> DEFINE Spares == \A g \in Guardian : RemoveGuardian(g) => threshold < Len(guardians)
<1>1. Init => QuorumWithinGuardians
  BY DEF Init, QuorumWithinGuardians, Initialized
<1>2. IInv /\ QuorumWithinGuardians /\ [Next]_vars /\ [Spares]_vars => QuorumWithinGuardians'
  <2> SUFFICES ASSUME IInv, QuorumWithinGuardians, [Next]_vars, [Spares]_vars, Initialized'
               PROVE  threshold' <= Len(guardians')
    BY DEF QuorumWithinGuardians
  <2>1. TypeOK /\ guardians \in Seq(Guardian) /\ Len(guardians) \in Nat /\ threshold \in Nat
    BY LenProperties DEF IInv, TypeOK
  <2>2. CASE UNCHANGED <<guardians, threshold>> /\ (Initialized \/ recovery.status = "Pending")
    BY <2>2 DEF IInv, RequestWellFormed, QuorumWithinGuardians
  <2>3. ASSUME NEW o \in Holder, NEW gs \in GuardianLists, NEW t \in 0..(Len(gs) + 1),
               Initialize(o, gs, t)
        PROVE  threshold' <= Len(guardians')
    BY <2>3 DEF Initialize, ValidThreshold
  <2>4. ASSUME NEW g \in Guardian, AddGuardian(g)
        PROVE  threshold' <= Len(guardians')
    BY <2>1, <2>4 DEF AddGuardian, RequireOwner, QuorumWithinGuardians
  <2>5. ASSUME NEW g \in Guardian, RemoveGuardian(g)
        PROVE  threshold' <= Len(guardians')
    <3>1. Len(guardians') = Len(guardians) - 1
      BY <2>1, <2>5, RemovalShortens
    <3>2. vars' # vars
      BY <2>1, <3>1 DEF vars
    <3>3. threshold < Len(guardians) /\ threshold' = threshold
      BY <2>5, <3>2 DEF RemoveGuardian
    <3>. QED  BY <2>1, <3>1, <3>3
  <2>6. ASSUME NEW t \in 0..(Len(guardians) + 1), SetQuorumThreshold(t)
        PROVE  threshold' <= Len(guardians')
    BY <2>6 DEF SetQuorumThreshold, ValidThreshold
  <2>. QED
    BY <2>2, <2>3, <2>4, <2>5, <2>6, ConfigurationSteps
<1>. QED
  BY <1>1, <1>2, Invariance, PTL DEF Spec, RemovalsSpareQuorum

(* ------------------------ A request ends its window -------------------- *)

\* What stands behind RecoveryReopens, without its fairness. On an initialised
\* contract there is always a guardian who may initiate; and where a request
\* stands in the way, its expiry is ahead, at most one window after it was
\* made, and the ledger has not reached the end of the u32 range, so that
\* closing ledgers reaches it.
BlockedOnlyForAWhile ==
  Initialized =>
    /\ \E g \in Guardian : RequireGuardian(g)
    /\ Blocking => /\ sequence < recovery.expires_at
                   /\ recovery.expires_at <= recovery.initiated_at + Expiry
                   /\ sequence < U32Max

\* No approval, no change of guardians or quorum and no further attempt
\* prolongs or replaces a request that blocks, and no step but a closing ledger
\* moves the time; what follows when it stops blocking is a new request.
WindowNeverProlonged ==
  [][Blocking /\ Blocking' =>
       /\ recovery'.expires_at = recovery.expires_at
       /\ recovery'.new_owner = recovery.new_owner
       /\ sequence' \in {sequence, sequence + 1}]_vars

\* A request stands in the way of the next one only inside its own window, and
\* there is always a guardian who can take its place.
THEOREM BlockingEnds == Spec => []BlockedOnlyForAWhile
<1>1. IInv /\ SomeGuardian => BlockedOnlyForAWhile
  <2> SUFFICES ASSUME IInv, SomeGuardian, Initialized
               PROVE  /\ \E g \in Guardian : RequireGuardian(g)
                      /\ Blocking => /\ sequence < recovery.expires_at
                                     /\ recovery.expires_at <= recovery.initiated_at + Expiry
                                     /\ sequence < U32Max
    BY DEF BlockedOnlyForAWhile
  <2>1. /\ guardians \in Seq(Guardian) /\ sequence \in 0..U32Max
        /\ recovery \in RecoveryRequest /\ Len(guardians) >= 1
    BY DEF IInv, TypeOK, SomeGuardian
  <2>2. guardians[1] \in Guardian /\ Contains(guardians, guardians[1])
    BY <2>1, LenProperties DEF Contains
  <2>3. ASSUME Blocking
        PROVE  /\ sequence < recovery.expires_at
               /\ recovery.expires_at <= recovery.initiated_at + Expiry
               /\ sequence < U32Max
    <3>1. /\ recovery.expires_at = SaturatingAdd(recovery.initiated_at, Expiry)
          /\ recovery.expires_at <= recovery.initiated_at + Expiry
          /\ recovery.initiated_at \in Nat /\ recovery.expires_at \in Nat
      BY <2>1, <2>3 DEF Blocking, IInv, RequestWindow, RequestWellFormed, RecoveryRequest
    <3>2. recovery.expires_at <= U32Max
      BY <3>1, WindowAssumption DEF SaturatingAdd
    <3>. QED  BY <2>1, <2>3, <3>1, <3>2, WindowAssumption DEF Blocking, Expired
  <2>. QED  BY <2>2, <2>3 DEF RequireGuardian
<1>. QED
  BY <1>1, Invariance, SomeGuardianStays, PTL

\* A request that blocks keeps its nominee and its expiry until it no longer
\* blocks (initiate_recovery refuses, approve_recovery only appends).
THEOREM WindowIsFixed == Spec => WindowNeverProlonged
<1>1. IInv /\ [Next]_vars /\ Blocking /\ Blocking' =>
        /\ recovery'.expires_at = recovery.expires_at
        /\ recovery'.new_owner = recovery.new_owner
        /\ sequence' \in {sequence, sequence + 1}
  <2> SUFFICES ASSUME IInv, [Next]_vars, Blocking, Blocking'
               PROVE  /\ recovery'.expires_at = recovery.expires_at
                      /\ recovery'.new_owner = recovery.new_owner
                      /\ sequence' \in {sequence, sequence + 1}
    OBVIOUS
  <2>1. TypeOK /\ recovery \in RecoveryRequest
    BY DEF IInv, TypeOK
  <2>2. \A g \in Guardian, n \in Holder : ~InitiateRecovery(g, n)
    BY DEF InitiateRecovery
  <2>3. /\ recovery'.expires_at = recovery.expires_at
        /\ recovery'.new_owner = recovery.new_owner
    BY <2>1, <2>2, RequestSteps DEF ApproveRecovery, RecoveryRequest
  <2>. QED  BY <2>3, OwnerAndLedgerSteps
<1>. QED
  BY <1>1, Invariance, PTL DEF Spec, WindowNeverProlonged

=============================================================================
