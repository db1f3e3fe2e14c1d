-------------------------- MODULE MuxRecoveryTests --------------------------
(***************************************************************************)
(* The unit tests of contracts/mux-recovery.                               *)
(***************************************************************************)
EXTENDS MuxRecovery, Replay

Asserts(p) == p /\ UNCHANGED vars

\* The call answers with an error and is rolled back.
Fails(call) == ~ENABLED call /\ UNCHANGED vars

\* The test moves the ledger on (env.ledger().with_mut).
Passes(n) == sequence' = sequence + n /\ signers' = {} /\ UNCHANGED storage

setup == At(1) /\ Initialize("owner", <<"guardian">>, 1)
setup_two(quorum) == At(1) /\ Initialize("owner", <<"g1", "g2">>, quorum)
initiated == At(2) /\ InitiateRecovery("guardian", "new_owner")

test_initialize_sets_owner_and_guardians ==
  End(1) /\ Initialize("owner", <<"guardian">>, 1) /\ owner' = "owner" /\ guardians' = <<"guardian">>

test_double_initialize_rejected ==
  \/ setup
  \/ End(2) /\ Fails(Initialize("owner", <<>>, 1))

test_initiate_recovery_sets_pending ==
  \/ setup
  \/ End(2) /\ InitiateRecovery("guardian", "new_owner") /\ recovery'.status = "Pending"

test_initiate_recovery_non_guardian_rejected ==
  \/ setup
  \/ End(2) /\ Fails(InitiateRecovery("stranger", "new_owner"))

test_initiate_recovery_duplicate_pending_rejected ==
  \/ setup \/ initiated
  \/ End(3) /\ Fails(InitiateRecovery("guardian", "new_owner"))

test_initiate_recovery_on_uninitialised_contract_rejected ==
  End(1) /\ Fails(InitiateRecovery("guardian", "new_owner"))

test_cancel_recovery_sets_cancelled ==
  \/ setup \/ initiated
  \/ End(3) /\ CancelRecovery /\ recovery'.status = "Cancelled"

test_cancel_recovery_without_pending_request_rejected ==
  \/ setup
  \/ End(2) /\ Fails(CancelRecovery)

test_cancel_already_executed_recovery_rejected ==
  \/ setup \/ initiated
  \/ At(3) /\ Passes(Timelock + 1)
  \/ At(4) /\ ExecuteRecovery("guardian")
  \/ End(5) /\ Fails(CancelRecovery)

test_execute_recovery_after_timelock_transfers_ownership ==
  \/ setup \/ initiated
  \/ At(3) /\ Passes(Timelock + 1)
  \/ At(4) /\ ExecuteRecovery("guardian")
  \/ End(5) /\ Asserts(recovery.status = "Executed" /\ owner = "new_owner")

test_execute_recovery_emits_event ==
  \/ setup \/ initiated
  \/ At(3) /\ Passes(Timelock + 1)
  \/ End(4) /\ ExecuteRecovery("guardian")

test_execute_recovery_before_timelock_rejected ==
  \/ setup \/ initiated
  \/ End(3) /\ Fails(ExecuteRecovery("guardian"))

test_timelock_cannot_be_shortened_illicitly ==
  \/ setup \/ initiated
  \/ At(3) /\ Passes(Timelock - 1)
  \/ At(4) /\ Fails(ExecuteRecovery("guardian"))
  \/ At(5) /\ Passes(1)
  \/ End(6) /\ ExecuteRecovery("guardian") /\ owner' = "new_owner"

test_execute_recovery_non_guardian_rejected ==
  \/ setup \/ initiated
  \/ At(3) /\ Passes(Timelock + 1)
  \/ End(4) /\ Fails(ExecuteRecovery("stranger"))

test_execute_recovery_without_pending_request_rejected ==
  \/ setup
  \/ End(2) /\ Fails(ExecuteRecovery("guardian"))

test_execute_cancelled_recovery_rejected ==
  \/ setup \/ initiated
  \/ At(3) /\ CancelRecovery
  \/ At(4) /\ Passes(Timelock + 1)
  \/ End(5) /\ Fails(ExecuteRecovery("guardian"))

test_add_guardian_emits_event ==
  \/ setup
  \/ End(2) /\ AddGuardian("g2")

test_add_duplicate_guardian_rejected ==
  \/ setup
  \/ End(2) /\ Fails(AddGuardian("guardian"))

\* For a cap of three.
test_add_guardian_cap_enforced ==
  \/ setup
  \/ At(2) /\ AddGuardian("g1")
  \/ At(3) /\ AddGuardian("g2")
  \/ End(4) /\ Fails(AddGuardian("g3"))

test_remove_guardian_succeeds ==
  \/ setup
  \/ At(2) /\ AddGuardian("g2")
  \/ At(3) /\ RemoveGuardian("guardian")
  \/ End(4) /\ Asserts(~Contains(guardians, "guardian") /\ Len(guardians) = 1)

test_remove_guardian_emits_event ==
  \/ setup
  \/ At(2) /\ AddGuardian("g2")
  \/ End(3) /\ RemoveGuardian("guardian")

test_remove_last_guardian_rejected ==
  \/ setup
  \/ End(2) /\ Fails(RemoveGuardian("guardian"))

test_add_guardian_on_uninitialised_contract_rejected == End(1) /\ Fails(AddGuardian("guardian"))

test_removed_guardian_cannot_initiate_recovery ==
  \/ setup
  \/ At(2) /\ AddGuardian("g2")
  \/ At(3) /\ RemoveGuardian("guardian")
  \/ End(4) /\ Fails(InitiateRecovery("guardian", "new_owner"))

test_newly_added_guardian_can_initiate_recovery ==
  \/ setup
  \/ At(2) /\ AddGuardian("g2")
  \/ End(3) /\ InitiateRecovery("g2", "new_owner") /\ recovery'.status = "Pending"

test_execute_recovery_after_expiry_rejected ==
  \/ setup \/ initiated
  \/ At(3) /\ Passes(Expiry + 1)
  \/ End(4) /\ Fails(ExecuteRecovery("guardian"))

test_expired_pending_recovery_can_be_reinitiated ==
  \/ setup \/ initiated
  \/ At(3) /\ Passes(Expiry + 1)
  \/ End(4) /\ InitiateRecovery("guardian", "second_owner") /\ recovery'.status = "Pending"

\* The event carries what the request stores.
test_initiate_recovery_event_carries_timelock_window ==
  \/ setup \/ initiated
  \/ End(3) /\ Asserts(/\ recovery.new_owner = "new_owner"
                       /\ recovery.initiated_at = sequence
                       /\ recovery.executable_at = sequence + Timelock
                       /\ recovery.expires_at = sequence + Expiry)

test_recovery_does_not_transfer_ownership_until_executed ==
  \/ setup \/ initiated
  \/ At(3) /\ Passes(Timelock + 1) /\ owner' = "owner"
  \/ End(4) /\ ExecuteRecovery("guardian") /\ owner' = "new_owner"

test_recovery_cannot_be_executed_twice ==
  \/ setup \/ initiated
  \/ At(3) /\ Passes(Timelock + 1)
  \/ At(4) /\ ExecuteRecovery("guardian")
  \/ End(5) /\ Fails(ExecuteRecovery("guardian"))

test_cancelled_recovery_can_be_reinitiated ==
  \/ setup \/ initiated
  \/ At(3) /\ CancelRecovery
  \/ At(4) /\ InitiateRecovery("guardian", "second_owner") /\ recovery'.status = "Pending"
  \/ At(5) /\ Passes(Timelock + 1)
  \/ End(6) /\ ExecuteRecovery("guardian") /\ owner' = "second_owner"

test_recovery_request_returns_full_struct_after_initiate ==
  \/ setup \/ initiated
  \/ End(3) /\ Asserts(/\ recovery.new_owner = "new_owner"
                       /\ recovery.status = "Pending"
                       /\ recovery.initiated_at = sequence
                       /\ recovery.executable_at = sequence + Timelock
                       /\ recovery.expires_at = sequence + Expiry)

test_recovery_request_status_transitions_via_struct ==
  \/ setup \/ initiated
  \/ At(3) /\ Asserts(recovery.status = "Pending")
  \/ At(4) /\ CancelRecovery /\ recovery'.status = "Cancelled"
  \/ At(5) /\ InitiateRecovery("guardian", "second_owner") /\ recovery'.status = "Pending"
  \/ At(6) /\ Passes(Timelock + 1)
  \/ End(7) /\ ExecuteRecovery("guardian") /\ recovery'.status = "Executed"

test_single_guardian_quorum_works ==
  \/ setup \/ initiated
  \/ At(3) /\ Passes(Timelock + 1)
  \/ End(4) /\ ExecuteRecovery("guardian") /\ owner' = "new_owner"

test_execute_recovery_fails_below_quorum ==
  \/ setup_two(2)
  \/ At(2) /\ InitiateRecovery("g1", "new_owner")
  \/ At(3) /\ Passes(Timelock + 1)
  \/ End(4) /\ Fails(ExecuteRecovery("g1"))

test_execute_recovery_succeeds_at_quorum ==
  \/ setup_two(2)
  \/ At(2) /\ InitiateRecovery("g1", "new_owner")
  \/ At(3) /\ ApproveRecovery("g2")
  \/ At(4) /\ Passes(Timelock + 1)
  \/ End(5) /\ ExecuteRecovery("g1") /\ owner' = "new_owner"

test_duplicate_approval_rejected ==
  \/ setup_two(2)
  \/ At(2) /\ InitiateRecovery("g1", "new_owner")
  \/ End(3) /\ Fails(ApproveRecovery("g1"))

test_non_guardian_cannot_approve_recovery ==
  \/ setup \/ initiated
  \/ End(3) /\ Fails(ApproveRecovery("stranger"))

test_initialize_rejects_threshold_exceeding_guardian_count ==
  End(1) /\ Fails(Initialize("owner", <<"g1">>, 2))

test_initialize_rejects_zero_threshold == End(1) /\ Fails(Initialize("owner", <<"g1">>, 0))

test_set_quorum_threshold_updates_value ==
  \/ setup_two(1)
  \/ At(2) /\ Asserts(threshold = 1)
  \/ End(3) /\ SetQuorumThreshold(2) /\ threshold' = 2

test_approve_recovery_emits_event ==
  \/ setup_two(2)
  \/ At(2) /\ InitiateRecovery("g1", "new_owner")
  \/ End(3) /\ ApproveRecovery("g2")

-----------------------------------------------------------------------------

Suite ==
  {"test_initialize_sets_owner_and_guardians", "test_double_initialize_rejected",
   "test_initiate_recovery_sets_pending", "test_initiate_recovery_non_guardian_rejected",
   "test_initiate_recovery_duplicate_pending_rejected",
   "test_initiate_recovery_on_uninitialised_contract_rejected",
   "test_cancel_recovery_sets_cancelled",
   "test_cancel_recovery_without_pending_request_rejected",
   "test_cancel_already_executed_recovery_rejected",
   "test_execute_recovery_after_timelock_transfers_ownership",
   "test_execute_recovery_emits_event", "test_execute_recovery_before_timelock_rejected",
   "test_timelock_cannot_be_shortened_illicitly",
   "test_execute_recovery_non_guardian_rejected",
   "test_execute_recovery_without_pending_request_rejected",
   "test_execute_cancelled_recovery_rejected", "test_add_guardian_emits_event",
   "test_add_duplicate_guardian_rejected", "test_add_guardian_cap_enforced",
   "test_remove_guardian_succeeds", "test_remove_guardian_emits_event",
   "test_remove_last_guardian_rejected",
   "test_add_guardian_on_uninitialised_contract_rejected",
   "test_removed_guardian_cannot_initiate_recovery",
   "test_newly_added_guardian_can_initiate_recovery",
   "test_execute_recovery_after_expiry_rejected",
   "test_expired_pending_recovery_can_be_reinitiated",
   "test_initiate_recovery_event_carries_timelock_window",
   "test_recovery_does_not_transfer_ownership_until_executed",
   "test_recovery_cannot_be_executed_twice", "test_cancelled_recovery_can_be_reinitiated",
   "test_recovery_request_returns_full_struct_after_initiate",
   "test_recovery_request_status_transitions_via_struct",
   "test_single_guardian_quorum_works", "test_execute_recovery_fails_below_quorum",
   "test_execute_recovery_succeeds_at_quorum", "test_duplicate_approval_rejected",
   "test_non_guardian_cannot_approve_recovery",
   "test_initialize_rejects_threshold_exceeding_guardian_count",
   "test_initialize_rejects_zero_threshold", "test_set_quorum_threshold_updates_value",
   "test_approve_recovery_emits_event"}

Tests ==
  \/ test = "test_initialize_sets_owner_and_guardians" /\ test_initialize_sets_owner_and_guardians
  \/ test = "test_double_initialize_rejected" /\ test_double_initialize_rejected
  \/ test = "test_initiate_recovery_sets_pending" /\ test_initiate_recovery_sets_pending
  \/ test = "test_initiate_recovery_non_guardian_rejected" /\ test_initiate_recovery_non_guardian_rejected
  \/ test = "test_initiate_recovery_duplicate_pending_rejected" /\ test_initiate_recovery_duplicate_pending_rejected
  \/ test = "test_initiate_recovery_on_uninitialised_contract_rejected" /\ test_initiate_recovery_on_uninitialised_contract_rejected
  \/ test = "test_cancel_recovery_sets_cancelled" /\ test_cancel_recovery_sets_cancelled
  \/ test = "test_cancel_recovery_without_pending_request_rejected" /\ test_cancel_recovery_without_pending_request_rejected
  \/ test = "test_cancel_already_executed_recovery_rejected" /\ test_cancel_already_executed_recovery_rejected
  \/ test = "test_execute_recovery_after_timelock_transfers_ownership" /\ test_execute_recovery_after_timelock_transfers_ownership
  \/ test = "test_execute_recovery_emits_event" /\ test_execute_recovery_emits_event
  \/ test = "test_execute_recovery_before_timelock_rejected" /\ test_execute_recovery_before_timelock_rejected
  \/ test = "test_timelock_cannot_be_shortened_illicitly" /\ test_timelock_cannot_be_shortened_illicitly
  \/ test = "test_execute_recovery_non_guardian_rejected" /\ test_execute_recovery_non_guardian_rejected
  \/ test = "test_execute_recovery_without_pending_request_rejected" /\ test_execute_recovery_without_pending_request_rejected
  \/ test = "test_execute_cancelled_recovery_rejected" /\ test_execute_cancelled_recovery_rejected
  \/ test = "test_add_guardian_emits_event" /\ test_add_guardian_emits_event
  \/ test = "test_add_duplicate_guardian_rejected" /\ test_add_duplicate_guardian_rejected
  \/ test = "test_add_guardian_cap_enforced" /\ test_add_guardian_cap_enforced
  \/ test = "test_remove_guardian_succeeds" /\ test_remove_guardian_succeeds
  \/ test = "test_remove_guardian_emits_event" /\ test_remove_guardian_emits_event
  \/ test = "test_remove_last_guardian_rejected" /\ test_remove_last_guardian_rejected
  \/ test = "test_add_guardian_on_uninitialised_contract_rejected" /\ test_add_guardian_on_uninitialised_contract_rejected
  \/ test = "test_removed_guardian_cannot_initiate_recovery" /\ test_removed_guardian_cannot_initiate_recovery
  \/ test = "test_newly_added_guardian_can_initiate_recovery" /\ test_newly_added_guardian_can_initiate_recovery
  \/ test = "test_execute_recovery_after_expiry_rejected" /\ test_execute_recovery_after_expiry_rejected
  \/ test = "test_expired_pending_recovery_can_be_reinitiated" /\ test_expired_pending_recovery_can_be_reinitiated
  \/ test = "test_initiate_recovery_event_carries_timelock_window" /\ test_initiate_recovery_event_carries_timelock_window
  \/ test = "test_recovery_does_not_transfer_ownership_until_executed" /\ test_recovery_does_not_transfer_ownership_until_executed
  \/ test = "test_recovery_cannot_be_executed_twice" /\ test_recovery_cannot_be_executed_twice
  \/ test = "test_cancelled_recovery_can_be_reinitiated" /\ test_cancelled_recovery_can_be_reinitiated
  \/ test = "test_recovery_request_returns_full_struct_after_initiate" /\ test_recovery_request_returns_full_struct_after_initiate
  \/ test = "test_recovery_request_status_transitions_via_struct" /\ test_recovery_request_status_transitions_via_struct
  \/ test = "test_single_guardian_quorum_works" /\ test_single_guardian_quorum_works
  \/ test = "test_execute_recovery_fails_below_quorum" /\ test_execute_recovery_fails_below_quorum
  \/ test = "test_execute_recovery_succeeds_at_quorum" /\ test_execute_recovery_succeeds_at_quorum
  \/ test = "test_duplicate_approval_rejected" /\ test_duplicate_approval_rejected
  \/ test = "test_non_guardian_cannot_approve_recovery" /\ test_non_guardian_cannot_approve_recovery
  \/ test = "test_initialize_rejects_threshold_exceeding_guardian_count" /\ test_initialize_rejects_threshold_exceeding_guardian_count
  \/ test = "test_initialize_rejects_zero_threshold" /\ test_initialize_rejects_zero_threshold
  \/ test = "test_set_quorum_threshold_updates_value" /\ test_set_quorum_threshold_updates_value
  \/ test = "test_approve_recovery_emits_event" /\ test_approve_recovery_emits_event
=============================================================================
