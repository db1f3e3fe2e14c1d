--------------------------- MODULE MuxBatcherTests --------------------------
(***************************************************************************)
(* The unit tests of contracts/mux-batcher. A batch that a test executes   *)
(* runs through the steps of BatchRuns: the registered contract            *)
(* DummyTarget returns, every other target fails. Calls and assertions     *)
(* wait until no batch is in flight, and CountBatch(n, m) asserts what the *)
(* batch before returned.                                                  *)
(***************************************************************************)
EXTENDS MuxBatcher, Replay

BatchRuns ==
  /\ \/ InvokeTarget
     \/ TargetReturns /\ Current.target = "dummy"
     \/ TargetFails /\ Current.target # "dummy"
     \/ RequiredFails /\ Current.target # "dummy"
     \/ FinishBatch
  /\ UNCHANGED <<test, step>>

Asserts(p) == frames = <<>> /\ p /\ UNCHANGED vars

\* The call answers with an error and is rolled back.
Fails(call) == Asserts(~ENABLED call)

\* No mocked authorizations.
FailsUnsigned(call) == Asserts(~ENABLED (call /\ signers' = {}))

\* The test writes to the storage of the contract (env.as_contract).
SetAdmin(a) == admin' = a /\ signers' = {} /\ UNCHANGED <<meta, executing, effects, result, frames>>
SetExecuting ==
  executing' = TRUE /\ signers' = {} /\ UNCHANGED <<admin, meta, effects, result, frames>>

CountBatch(n, m) == Asserts(result = [success |-> n, failure |-> m])

\* The batch before answered with an error: what it returned is nothing.
Aborted == Asserts(result = Absent /\ ~executing /\ effects = <<>>)

op(t, required) == [target |-> t, require_success |-> required]
ok == op("dummy", TRUE)
noop == op("missing", FALSE)
needed == op("missing", TRUE)

make_nop_ops(n) == [i \in 1..n |-> noop]
SimulateOk(ops) == BatchSizeOk(ops)

test_execute_batch_emits_event ==
  \/ At(1) /\ ExecuteBatch("caller", <<noop>>)
  \/ End(2) /\ CountBatch(0, 1)

\* The kind of an operation is not part of the model: nothing depends on it.
test_operation_kind_carried_through_batch ==
  \/ \E n \in {1, 3, 5} : At(n) /\ ExecuteBatch("caller", <<noop>>)
  \/ \E n \in {2, 4} : At(n) /\ CountBatch(0, 1)
  \/ End(6) /\ CountBatch(0, 1)

test_empty_batch_rejected == End(1) /\ Fails(ExecuteBatch("caller", <<>>))

test_reentrancy_guard_clears_after_success ==
  \/ At(1) /\ ExecuteBatch("caller", <<noop>>)
  \/ At(2) /\ CountBatch(0, 1)
  \/ At(3) /\ ExecuteBatch("caller", <<noop>>)
  \/ End(4) /\ CountBatch(0, 1)

test_reentrancy_guard_clears_after_required_op_fails ==
  \/ At(1) /\ ExecuteBatch("caller", <<needed>>)
  \/ At(2) /\ Aborted
  \/ At(3) /\ ExecuteBatch("caller", <<ok>>)
  \/ End(4) /\ CountBatch(1, 0)

test_reentrancy_detected_when_executing_flag_already_set ==
  \/ At(1) /\ SetExecuting
  \/ End(2) /\ Fails(ExecuteBatch("caller", <<noop>>))

test_batch_too_large_rejected ==
  End(1) /\ Fails(ExecuteBatch("caller", make_nop_ops(MaxBatchSize + 1)))

test_execute_batch_at_max_size_accepted ==
  LET ops == make_nop_ops(MaxBatchSize)
  IN End(1) /\ Asserts(SimulateOk(ops) /\ SimulateBatch(ops).success = MaxBatchSize)

test_batch_success_event_emitted_when_all_succeed ==
  \/ At(1) /\ ExecuteBatch("caller", <<ok>>)
  \/ End(2) /\ CountBatch(1, 0)

test_bat_abort_event_emitted_on_required_failure ==
  \/ At(1) /\ ExecuteBatch("caller", <<needed>>)
  \/ End(2) /\ Aborted

\* The event carries the fee of the batch.
test_fee_chg_event_emitted_on_success ==
  \/ At(1) /\ ExecuteBatch("caller", make_nop_ops(3))
  \/ At(2) /\ CountBatch(0, 3)
  \/ End(3) /\ Asserts(EstimateAccepted(3) /\ EstimateFees(3) = 3 * FeePerOp)

test_fee_chg_event_not_emitted_on_failure ==
  \/ At(1) /\ ExecuteBatch("caller", <<needed>>)
  \/ End(2) /\ Aborted

test_submit_batch_empty_rejected == End(1) /\ Fails(SubmitBatch(<<>>))

test_submit_batch_too_large_rejected ==
  End(1) /\ Fails(SubmitBatch(make_nop_ops(MaxBatchSize + 1)))

test_submit_batch_emits_executed_event ==
  \/ At(1) /\ SubmitBatch(<<noop>>)
  \/ End(2) /\ CountBatch(0, 1)

test_batch_success_event_not_emitted_on_partial_failure ==
  \/ At(1) /\ ExecuteBatch("caller", <<noop>>)
  \/ End(2) /\ CountBatch(0, 1)

\* Its first operation calls the batcher itself, which the host prohibits.
test_batch_atomic_require_success_aborts_whole_batch ==
  \/ At(1) /\ ExecuteBatch("caller", <<op("batcher", TRUE), needed>>)
  \/ End(2) /\ Aborted

test_batch_per_op_failure_policy_mixed ==
  \/ At(1) /\ ExecuteBatch("caller", <<op("dummy", FALSE), noop>>)
  \/ End(2) /\ CountBatch(1, 1)

test_estimate_fees_zero_ops_rejected == End(1) /\ Asserts(~EstimateAccepted(0))

test_estimate_fees_over_max_rejected == End(1) /\ Asserts(~EstimateAccepted(MaxBatchSize + 1))

test_estimate_fees_at_max_size_accepted ==
  End(1) /\ Asserts(/\ EstimateAccepted(MaxBatchSize)
                    /\ EstimateFees(MaxBatchSize) = MaxBatchSize * FeePerOp)

test_simulate_batch_returns_op_count ==
  End(1) /\ Asserts(SimulateBatch(<<noop, noop, noop>>) = [success |-> 3, failure |-> 0])

test_simulate_batch_empty_rejected == End(1) /\ Asserts(~SimulateOk(<<>>))

test_simulate_batch_too_large_rejected ==
  End(1) /\ Asserts(~SimulateOk(make_nop_ops(MaxBatchSize + 1)))

test_bat_start_event_emitted_before_execution ==
  \/ At(1) /\ ExecuteBatch("caller", <<ok>>)
  \/ End(2) /\ CountBatch(1, 0)

test_bat_start_emitted_even_when_required_op_fails ==
  \/ At(1) /\ ExecuteBatch("caller", <<needed>>)
  \/ End(2) /\ Aborted

test_set_and_get_registry_metadata ==
  \/ At(1) /\ Initialize("admin")
  \/ At(2) /\ SetRegistryMetadata("meta")
  \/ End(3) /\ Asserts(meta = "meta")

test_set_registry_metadata_twice_fails ==
  \/ At(1) /\ Initialize("admin")
  \/ At(2) /\ SetRegistryMetadata("meta")
  \/ End(3) /\ Fails(SetRegistryMetadata("meta"))

test_set_registry_metadata_requires_admin_auth ==
  \/ At(1) /\ SetAdmin("admin")
  \/ End(2) /\ FailsUnsigned(SetRegistryMetadata("meta"))

test_set_registry_metadata_before_initialize_returns_not_initialized ==
  End(1) /\ Fails(SetRegistryMetadata("meta"))

test_execute_batch_exactly_at_max_size_accepted ==
  \/ At(1) /\ ExecuteBatch("caller", make_nop_ops(MaxBatchSize))
  \/ End(2) /\ CountBatch(0, MaxBatchSize)

test_execute_batch_one_over_max_returns_batch_too_large ==
  End(1) /\ Fails(ExecuteBatch("caller", make_nop_ops(MaxBatchSize + 1)))

test_submit_batch_exactly_at_max_size_accepted ==
  \/ At(1) /\ SubmitBatch(make_nop_ops(MaxBatchSize))
  \/ End(2) /\ CountBatch(0, MaxBatchSize)

test_submit_batch_one_over_max_returns_batch_too_large ==
  End(1) /\ Fails(SubmitBatch(make_nop_ops(MaxBatchSize + 1)))

test_simulate_batch_exactly_at_max_size_accepted ==
  LET ops == make_nop_ops(MaxBatchSize)
  IN End(1) /\ Asserts(SimulateOk(ops) /\ SimulateBatch(ops).success = MaxBatchSize)

\* The dry run counts what the execution of the same batch would fail on.
test_simulate_batch_reports_success_for_operation_that_would_actually_fail ==
  End(1) /\ Asserts(SimulateBatch(<<needed>>) = [success |-> 1, failure |-> 0])

test_simulate_vs_execute_parity ==
  LET valid == [i \in 1..MaxBatchSize |-> op("dummy", FALSE)]
      oversized == make_nop_ops(MaxBatchSize + 1)
  IN \/ At(1) /\ ~SimulateOk(<<>>) /\ Fails(ExecuteBatch("caller", <<>>))
     \/ At(2) /\ ~SimulateOk(oversized) /\ Fails(ExecuteBatch("caller", oversized))
     \/ At(3) /\ ExecuteBatch("caller", valid)
     \/ End(4) /\ Asserts(SimulateBatch(valid) = result /\ result.failure = 0)

test_double_initialize_fails ==
  \/ At(1) /\ Initialize("admin")
  \/ End(2) /\ Fails(Initialize("admin"))

test_initialize_requires_admin_auth == End(1) /\ FailsUnsigned(Initialize("admin"))

test_execute_batch_requires_caller_auth ==
  End(1) /\ FailsUnsigned(ExecuteBatch("caller", <<noop>>))

test_upgrade_before_initialize_returns_not_initialized == End(1) /\ Fails(Upgrade)

test_upgrade_requires_admin_auth ==
  \/ At(1) /\ SetAdmin("admin")
  \/ End(2) /\ FailsUnsigned(Upgrade)

test_execute_batch_does_not_require_initialize ==
  \/ At(1) /\ ExecuteBatch("caller", <<noop>>)
  \/ End(2) /\ CountBatch(0, 1)

-----------------------------------------------------------------------------

Suite ==
  {"test_execute_batch_emits_event", "test_operation_kind_carried_through_batch",
   "test_empty_batch_rejected", "test_reentrancy_guard_clears_after_success",
   "test_reentrancy_guard_clears_after_required_op_fails",
   "test_reentrancy_detected_when_executing_flag_already_set",
   "test_batch_too_large_rejected", "test_execute_batch_at_max_size_accepted",
   "test_batch_success_event_emitted_when_all_succeed",
   "test_bat_abort_event_emitted_on_required_failure",
   "test_fee_chg_event_emitted_on_success", "test_fee_chg_event_not_emitted_on_failure",
   "test_submit_batch_empty_rejected", "test_submit_batch_too_large_rejected",
   "test_submit_batch_emits_executed_event",
   "test_batch_success_event_not_emitted_on_partial_failure",
   "test_batch_atomic_require_success_aborts_whole_batch",
   "test_batch_per_op_failure_policy_mixed", "test_estimate_fees_zero_ops_rejected",
   "test_estimate_fees_over_max_rejected", "test_estimate_fees_at_max_size_accepted",
   "test_simulate_batch_returns_op_count", "test_simulate_batch_empty_rejected",
   "test_simulate_batch_too_large_rejected",
   "test_bat_start_event_emitted_before_execution",
   "test_bat_start_emitted_even_when_required_op_fails",
   "test_set_and_get_registry_metadata", "test_set_registry_metadata_twice_fails",
   "test_set_registry_metadata_requires_admin_auth",
   "test_set_registry_metadata_before_initialize_returns_not_initialized",
   "test_execute_batch_exactly_at_max_size_accepted",
   "test_execute_batch_one_over_max_returns_batch_too_large",
   "test_submit_batch_exactly_at_max_size_accepted",
   "test_submit_batch_one_over_max_returns_batch_too_large",
   "test_simulate_batch_exactly_at_max_size_accepted",
   "test_simulate_batch_reports_success_for_operation_that_would_actually_fail",
   "test_simulate_vs_execute_parity", "test_double_initialize_fails",
   "test_initialize_requires_admin_auth", "test_execute_batch_requires_caller_auth",
   "test_upgrade_before_initialize_returns_not_initialized",
   "test_upgrade_requires_admin_auth", "test_execute_batch_does_not_require_initialize"}

Tests ==
  \/ test = "test_execute_batch_emits_event" /\ test_execute_batch_emits_event
  \/ test = "test_operation_kind_carried_through_batch" /\ test_operation_kind_carried_through_batch
  \/ test = "test_empty_batch_rejected" /\ test_empty_batch_rejected
  \/ test = "test_reentrancy_guard_clears_after_success" /\ test_reentrancy_guard_clears_after_success
  \/ test = "test_reentrancy_guard_clears_after_required_op_fails" /\ test_reentrancy_guard_clears_after_required_op_fails
  \/ test = "test_reentrancy_detected_when_executing_flag_already_set" /\ test_reentrancy_detected_when_executing_flag_already_set
  \/ test = "test_batch_too_large_rejected" /\ test_batch_too_large_rejected
  \/ test = "test_execute_batch_at_max_size_accepted" /\ test_execute_batch_at_max_size_accepted
  \/ test = "test_batch_success_event_emitted_when_all_succeed" /\ test_batch_success_event_emitted_when_all_succeed
  \/ test = "test_bat_abort_event_emitted_on_required_failure" /\ test_bat_abort_event_emitted_on_required_failure
  \/ test = "test_fee_chg_event_emitted_on_success" /\ test_fee_chg_event_emitted_on_success
  \/ test = "test_fee_chg_event_not_emitted_on_failure" /\ test_fee_chg_event_not_emitted_on_failure
  \/ test = "test_submit_batch_empty_rejected" /\ test_submit_batch_empty_rejected
  \/ test = "test_submit_batch_too_large_rejected" /\ test_submit_batch_too_large_rejected
  \/ test = "test_submit_batch_emits_executed_event" /\ test_submit_batch_emits_executed_event
  \/ test = "test_batch_success_event_not_emitted_on_partial_failure" /\ test_batch_success_event_not_emitted_on_partial_failure
  \/ test = "test_batch_atomic_require_success_aborts_whole_batch" /\ test_batch_atomic_require_success_aborts_whole_batch
  \/ test = "test_batch_per_op_failure_policy_mixed" /\ test_batch_per_op_failure_policy_mixed
  \/ test = "test_estimate_fees_zero_ops_rejected" /\ test_estimate_fees_zero_ops_rejected
  \/ test = "test_estimate_fees_over_max_rejected" /\ test_estimate_fees_over_max_rejected
  \/ test = "test_estimate_fees_at_max_size_accepted" /\ test_estimate_fees_at_max_size_accepted
  \/ test = "test_simulate_batch_returns_op_count" /\ test_simulate_batch_returns_op_count
  \/ test = "test_simulate_batch_empty_rejected" /\ test_simulate_batch_empty_rejected
  \/ test = "test_simulate_batch_too_large_rejected" /\ test_simulate_batch_too_large_rejected
  \/ test = "test_bat_start_event_emitted_before_execution" /\ test_bat_start_event_emitted_before_execution
  \/ test = "test_bat_start_emitted_even_when_required_op_fails" /\ test_bat_start_emitted_even_when_required_op_fails
  \/ test = "test_set_and_get_registry_metadata" /\ test_set_and_get_registry_metadata
  \/ test = "test_set_registry_metadata_twice_fails" /\ test_set_registry_metadata_twice_fails
  \/ test = "test_set_registry_metadata_requires_admin_auth" /\ test_set_registry_metadata_requires_admin_auth
  \/ test = "test_set_registry_metadata_before_initialize_returns_not_initialized" /\ test_set_registry_metadata_before_initialize_returns_not_initialized
  \/ test = "test_execute_batch_exactly_at_max_size_accepted" /\ test_execute_batch_exactly_at_max_size_accepted
  \/ test = "test_execute_batch_one_over_max_returns_batch_too_large" /\ test_execute_batch_one_over_max_returns_batch_too_large
  \/ test = "test_submit_batch_exactly_at_max_size_accepted" /\ test_submit_batch_exactly_at_max_size_accepted
  \/ test = "test_submit_batch_one_over_max_returns_batch_too_large" /\ test_submit_batch_one_over_max_returns_batch_too_large
  \/ test = "test_simulate_batch_exactly_at_max_size_accepted" /\ test_simulate_batch_exactly_at_max_size_accepted
  \/ test = "test_simulate_batch_reports_success_for_operation_that_would_actually_fail" /\ test_simulate_batch_reports_success_for_operation_that_would_actually_fail
  \/ test = "test_simulate_vs_execute_parity" /\ test_simulate_vs_execute_parity
  \/ test = "test_double_initialize_fails" /\ test_double_initialize_fails
  \/ test = "test_initialize_requires_admin_auth" /\ test_initialize_requires_admin_auth
  \/ test = "test_execute_batch_requires_caller_auth" /\ test_execute_batch_requires_caller_auth
  \/ test = "test_upgrade_before_initialize_returns_not_initialized" /\ test_upgrade_before_initialize_returns_not_initialized
  \/ test = "test_upgrade_requires_admin_auth" /\ test_upgrade_requires_admin_auth
  \/ test = "test_execute_batch_does_not_require_initialize" /\ test_execute_batch_does_not_require_initialize
=============================================================================
