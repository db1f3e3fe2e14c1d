--------------------------- MODULE MuxAccountTests --------------------------
(***************************************************************************)
(* The unit tests of contracts/mux-account. A call that a target answers   *)
(* is two steps, the call and Returned; a timestamp is the sequence number *)
(* of the ledger, and the caps of 64 delegates are the constant, here 2.   *)
(* The tests that call set_sponsor are left out: the contract has none.    *)
(***************************************************************************)
EXTENDS MuxAccount, Replay

Asserts(p) == p /\ UNCHANGED vars

\* The call answers with an error and is rolled back.
Fails(call) == ~ENABLED call /\ UNCHANGED vars

\* No mocked authorizations.
FailsUnsigned(call) == ~ENABLED (call /\ signers' = {}) /\ UNCHANGED vars

\* The target answers (ExecuteTarget, ReentrantTarget).
Returned == ReturnToExecute \/ ReturnToSession

setup == At(1) /\ Initialize("owner")

\* The test writes to the storage of the contract (env.as_contract).
setup_without_auth ==
  /\ At(1)
  /\ owner' = "owner"
  /\ signers' = {}
  /\ UNCHANGED <<paused, delegates, limits, sessions, index, nonce, executing, metadata,
                 frames, sequence, history>>

Limited(amount) == At(2) /\ SetSpendLimit("asset", amount, 100)
Keyed(scopes) == At(2) /\ RegisterSessionKey("key", Timestamp + 60, scopes)

\* What delegates() and get_delegate() show.
Active(d) == d \in Delegates /\ ~DelegateExpired(d)

test_owner_mutations_reject_missing_authorization ==
  \/ setup_without_auth
  \/ At(2) /\ FailsUnsigned(SetDelegate("first", 1000))
  \/ At(3) /\ FailsUnsigned(SetSpendLimit("asset", 100, 10))
  \/ At(4) /\ FailsUnsigned(Unpause)
  \/ At(5) /\ FailsUnsigned(SetMetadata("v1"))
  \/ End(6) /\ Asserts(Delegates = {} /\ metadata = Absent)

test_initialize_rejects_missing_owner_authorization ==
  \/ At(1) /\ FailsUnsigned(Initialize("owner"))
  \/ End(2) /\ Asserts(owner = Absent)

test_remove_delegate_emits_event ==
  \/ setup
  \/ At(2) /\ SetDelegate("first", 1000)
  \/ End(3) /\ RemoveDelegate("first")

test_spend_limit_emits_events ==
  \/ setup \/ Limited(1000)
  \/ End(3) /\ DebitSpend("asset", 200)

test_delegate_cap_enforced ==
  \/ setup
  \/ At(2) /\ SetDelegate("first", 1000)
  \/ At(3) /\ SetDelegate("second", 1000)
  \/ End(4) /\ Fails(SetDelegate("third", 1000))

test_delegate_cap_allows_update ==
  \/ setup
  \/ At(2) /\ SetDelegate("first", 1000)
  \/ At(3) /\ SetDelegate("second", 1000)
  \/ End(4) /\ SetDelegate("first", 2000)

test_delegate_cap_reclaims_expired_entries ==
  \/ setup
  \/ At(2) /\ SetDelegate("first", Timestamp + 1)
  \/ At(3) /\ SetDelegate("second", Timestamp + 1)
  \/ At(4) /\ CloseLedger
  \/ At(5) /\ SetDelegate("third", Timestamp + 100)
  \/ End(6) /\ Asserts({d \in Delegate : Active(d)} = {"third"})

test_initialize == End(1) /\ Initialize("owner") /\ owner' = "owner"

test_double_initialize_returns_already_initialized_error ==
  \/ setup
  \/ End(2) /\ Fails(Initialize("owner"))

test_initialize_with_different_owner_returns_already_initialized ==
  \/ setup
  \/ End(2) /\ Fails(Initialize("other_owner"))

test_set_and_remove_delegate ==
  \/ setup
  \/ At(2) /\ SetDelegate("first", 1000)
  \/ At(3) /\ Asserts(Active("first"))
  \/ At(4) /\ RemoveDelegate("first")
  \/ End(5) /\ Asserts(~Active("first"))

test_get_delegate_returns_active_delegate_info ==
  \/ setup
  \/ At(2) /\ SetDelegate("first", 1000)
  \/ End(3) /\ Asserts(Active("first") /\ delegates["first"] = 1000)

test_get_delegate_fails_for_unauthorized_delegate ==
  \/ setup
  \/ End(2) /\ Asserts(~Active("first"))

test_get_delegate_fails_when_delegate_expired ==
  \/ setup
  \/ At(2) /\ SetDelegate("first", Timestamp + 1)
  \/ At(3) /\ CloseLedger
  \/ End(4) /\ Asserts(~Active("first"))

test_delegates_filters_expired_delegates ==
  \/ setup
  \/ At(2) /\ SetDelegate("first", Timestamp + 1)
  \/ At(3) /\ CloseLedger
  \/ End(4) /\ Asserts(~Active("first"))

test_spend_limit_enforcement ==
  \/ setup \/ Limited(1000)
  \/ At(3) /\ DebitSpend("asset", 500)
  \/ End(4) /\ Fails(DebitSpend("asset", 600))

test_execute_enforces_spend_limit_before_invocation ==
  \/ setup \/ Limited(100)
  \/ At(3) /\ Execute("asset", 40, 0)
  \/ At(4) /\ Returned
  \/ End(5) /\ Fails(Execute("asset", 70, 1))

\* The target calls debit_spend while execute waits for it.
test_execute_holds_reentrancy_guard_across_invocation ==
  \/ setup \/ Limited(1000)
  \/ At(3) /\ Execute("asset", 50, 0)
  \/ At(4) /\ Fails(DebitSpend("asset", 50))
  \/ At(5) /\ Returned
  \/ End(6) /\ Asserts(limits["asset"].spent = 50)

test_execute_spend_limit_rejection_does_not_lock_out_future_calls ==
  \/ setup \/ Limited(100)
  \/ At(3) /\ Fails(Execute("asset", 500, 0))
  \/ At(4) /\ Execute("asset", 40, 0)
  \/ End(5) /\ Returned

test_debit_spend_rejection_does_not_lock_out_future_calls ==
  \/ setup \/ Limited(100)
  \/ At(3) /\ Fails(DebitSpend("asset", 500))
  \/ End(4) /\ DebitSpend("asset", 40)

test_execute_rejects_non_positive_spend ==
  \/ setup \/ Limited(100)
  \/ End(3) /\ Fails(Execute("asset", 0, 0))

test_spend_limit_invalid_amount ==
  \/ setup
  \/ End(2) /\ Fails(SetSpendLimit("asset", 0, 100))

test_pause_sets_paused_flag ==
  \/ At(1) /\ Initialize("owner") /\ ~paused'
  \/ End(2) /\ Pause /\ paused'

test_pause_then_unpause_clears_flag ==
  \/ setup
  \/ At(2) /\ Pause /\ paused'
  \/ End(3) /\ Unpause /\ ~paused'

test_pause_blocks_set_delegate ==
  \/ setup
  \/ At(2) /\ Pause
  \/ End(3) /\ Fails(SetDelegate("first", 1000))

test_pause_blocks_execute ==
  \/ setup \/ Limited(1000)
  \/ At(3) /\ Pause
  \/ End(4) /\ Fails(Execute("asset", 10, 0))

test_pause_requires_owner_auth ==
  \/ setup_without_auth
  \/ End(2) /\ FailsUnsigned(Pause)

test_unpause_requires_owner_auth ==
  \/ setup_without_auth
  \/ End(2) /\ FailsUnsigned(Unpause)

test_execute_with_session_emits_event ==
  \/ setup \/ Keyed({"ping"})
  \/ At(3) /\ ExecuteWithSession("key", "ping", 0)
  \/ End(4) /\ Returned

test_execute_with_session_dispatches_to_target ==
  \/ setup \/ Keyed({"ping"})
  \/ At(3) /\ ExecuteWithSession("key", "ping", 0)
  \/ End(4) /\ Returned

test_execute_with_session_rejects_method_outside_scopes ==
  \/ setup \/ Keyed({"pay"})
  \/ End(3) /\ Fails(ExecuteWithSession("key", "ping", 0))

test_execute_with_session_rejects_replayed_nonce ==
  \/ setup \/ Keyed({"ping"})
  \/ At(3) /\ ExecuteWithSession("key", "ping", 0)
  \/ At(4) /\ Returned
  \/ At(5) /\ Fails(ExecuteWithSession("key", "ping", 0))
  \/ At(6) /\ Fails(ExecuteWithSession("key", "ping", 7))
  \/ End(7) /\ Asserts(nonce = 1)

test_rejected_call_does_not_consume_a_nonce ==
  \/ setup \/ Keyed({"pay"})
  \/ At(3) /\ Fails(ExecuteWithSession("key", "ping", 0)) /\ nonce' = 0
  \/ At(4) /\ SetSpendLimit("asset", 100, 100)
  \/ End(5) /\ Fails(Execute("asset", 500, 0)) /\ nonce' = 0

test_execute_with_session_rejects_unknown_revoked_and_expired_keys ==
  LET Rejected == Fails(ExecuteWithSession("key", "ping", 0))
  IN \/ setup
     \/ At(2) /\ Rejected
     \/ At(3) /\ RegisterSessionKey("key", Timestamp + 60, {"ping"})
     \/ At(4) /\ RevokeSessionKey("key")
     \/ At(5) /\ Rejected
     \/ At(6) /\ RegisterSessionKey("key", Timestamp, {"ping"})
     \/ End(7) /\ Rejected

test_execute_with_session_rejects_empty_scopes ==
  \/ setup \/ Keyed({})
  \/ End(3) /\ Fails(ExecuteWithSession("key", "ping", 0))

test_set_and_get_metadata ==
  \/ setup
  \/ End(2) /\ SetMetadata("v1") /\ metadata' = "v1"

test_set_metadata_overwrites_previous ==
  \/ setup
  \/ At(2) /\ SetMetadata("v1")
  \/ End(3) /\ SetMetadata("v2") /\ metadata' = "v2"

test_set_metadata_before_initialize_fails == End(1) /\ Fails(SetMetadata("v1"))

-----------------------------------------------------------------------------

Suite ==
  {"test_owner_mutations_reject_missing_authorization",
   "test_initialize_rejects_missing_owner_authorization",
   "test_remove_delegate_emits_event", "test_spend_limit_emits_events",
   "test_delegate_cap_enforced", "test_delegate_cap_allows_update",
   "test_delegate_cap_reclaims_expired_entries", "test_initialize",
   "test_double_initialize_returns_already_initialized_error",
   "test_initialize_with_different_owner_returns_already_initialized",
   "test_set_and_remove_delegate", "test_get_delegate_returns_active_delegate_info",
   "test_get_delegate_fails_for_unauthorized_delegate",
   "test_get_delegate_fails_when_delegate_expired",
   "test_delegates_filters_expired_delegates", "test_spend_limit_enforcement",
   "test_execute_enforces_spend_limit_before_invocation",
   "test_execute_holds_reentrancy_guard_across_invocation",
   "test_execute_spend_limit_rejection_does_not_lock_out_future_calls",
   "test_debit_spend_rejection_does_not_lock_out_future_calls",
   "test_execute_rejects_non_positive_spend", "test_spend_limit_invalid_amount",
   "test_pause_sets_paused_flag", "test_pause_then_unpause_clears_flag",
   "test_pause_blocks_set_delegate", "test_pause_blocks_execute",
   "test_pause_requires_owner_auth", "test_unpause_requires_owner_auth",
   "test_execute_with_session_emits_event",
   "test_execute_with_session_dispatches_to_target",
   "test_execute_with_session_rejects_method_outside_scopes",
   "test_execute_with_session_rejects_replayed_nonce",
   "test_rejected_call_does_not_consume_a_nonce",
   "test_execute_with_session_rejects_unknown_revoked_and_expired_keys",
   "test_execute_with_session_rejects_empty_scopes", "test_set_and_get_metadata",
   "test_set_metadata_overwrites_previous", "test_set_metadata_before_initialize_fails"}

Tests ==
  \/ test = "test_owner_mutations_reject_missing_authorization" /\ test_owner_mutations_reject_missing_authorization
  \/ test = "test_initialize_rejects_missing_owner_authorization" /\ test_initialize_rejects_missing_owner_authorization
  \/ test = "test_remove_delegate_emits_event" /\ test_remove_delegate_emits_event
  \/ test = "test_spend_limit_emits_events" /\ test_spend_limit_emits_events
  \/ test = "test_delegate_cap_enforced" /\ test_delegate_cap_enforced
  \/ test = "test_delegate_cap_allows_update" /\ test_delegate_cap_allows_update
  \/ test = "test_delegate_cap_reclaims_expired_entries" /\ test_delegate_cap_reclaims_expired_entries
  \/ test = "test_initialize" /\ test_initialize
  \/ test = "test_double_initialize_returns_already_initialized_error" /\ test_double_initialize_returns_already_initialized_error
  \/ test = "test_initialize_with_different_owner_returns_already_initialized" /\ test_initialize_with_different_owner_returns_already_initialized
  \/ test = "test_set_and_remove_delegate" /\ test_set_and_remove_delegate
  \/ test = "test_get_delegate_returns_active_delegate_info" /\ test_get_delegate_returns_active_delegate_info
  \/ test = "test_get_delegate_fails_for_unauthorized_delegate" /\ test_get_delegate_fails_for_unauthorized_delegate
  \/ test = "test_get_delegate_fails_when_delegate_expired" /\ test_get_delegate_fails_when_delegate_expired
  \/ test = "test_delegates_filters_expired_delegates" /\ test_delegates_filters_expired_delegates
  \/ test = "test_spend_limit_enforcement" /\ test_spend_limit_enforcement
  \/ test = "test_execute_enforces_spend_limit_before_invocation" /\ test_execute_enforces_spend_limit_before_invocation
  \/ test = "test_execute_holds_reentrancy_guard_across_invocation" /\ test_execute_holds_reentrancy_guard_across_invocation
  \/ test = "test_execute_spend_limit_rejection_does_not_lock_out_future_calls" /\ test_execute_spend_limit_rejection_does_not_lock_out_future_calls
  \/ test = "test_debit_spend_rejection_does_not_lock_out_future_calls" /\ test_debit_spend_rejection_does_not_lock_out_future_calls
  \/ test = "test_execute_rejects_non_positive_spend" /\ test_execute_rejects_non_positive_spend
  \/ test = "test_spend_limit_invalid_amount" /\ test_spend_limit_invalid_amount
  \/ test = "test_pause_sets_paused_flag" /\ test_pause_sets_paused_flag
  \/ test = "test_pause_then_unpause_clears_flag" /\ test_pause_then_unpause_clears_flag
  \/ test = "test_pause_blocks_set_delegate" /\ test_pause_blocks_set_delegate
  \/ test = "test_pause_blocks_execute" /\ test_pause_blocks_execute
  \/ test = "test_pause_requires_owner_auth" /\ test_pause_requires_owner_auth
  \/ test = "test_unpause_requires_owner_auth" /\ test_unpause_requires_owner_auth
  \/ test = "test_execute_with_session_emits_event" /\ test_execute_with_session_emits_event
  \/ test = "test_execute_with_session_dispatches_to_target" /\ test_execute_with_session_dispatches_to_target
  \/ test = "test_execute_with_session_rejects_method_outside_scopes" /\ test_execute_with_session_rejects_method_outside_scopes
  \/ test = "test_execute_with_session_rejects_replayed_nonce" /\ test_execute_with_session_rejects_replayed_nonce
  \/ test = "test_rejected_call_does_not_consume_a_nonce" /\ test_rejected_call_does_not_consume_a_nonce
  \/ test = "test_execute_with_session_rejects_unknown_revoked_and_expired_keys" /\ test_execute_with_session_rejects_unknown_revoked_and_expired_keys
  \/ test = "test_execute_with_session_rejects_empty_scopes" /\ test_execute_with_session_rejects_empty_scopes
  \/ test = "test_set_and_get_metadata" /\ test_set_and_get_metadata
  \/ test = "test_set_metadata_overwrites_previous" /\ test_set_metadata_overwrites_previous
  \/ test = "test_set_metadata_before_initialize_fails" /\ test_set_metadata_before_initialize_fails
=============================================================================
