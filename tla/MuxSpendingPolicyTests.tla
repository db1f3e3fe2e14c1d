----------------------- MODULE MuxSpendingPolicyTests -----------------------
(***************************************************************************)
(* The unit tests of contracts/mux-spending-policy.                        *)
(***************************************************************************)
EXTENDS MuxSpendingPolicy, Replay

Asserts(p) == p /\ UNCHANGED vars

\* The call answers with an error and is rolled back.
Fails(call) == ~ENABLED call /\ UNCHANGED vars

\* No mocked authorizations.
FailsUnsigned(call) == ~ENABLED (call /\ signers' = {}) /\ UNCHANGED vars

\* env.as_contract: the test writes the storage.
SetAdmin(a) ==
  /\ admin' = a
  /\ UNCHANGED <<policies, sequence, signers, approved>>

test_initialize ==
  \/ At(1) /\ Initialize("admin")
  \/ End(2) /\ Fails(Initialize("admin"))

test_set_policy_requires_admin_auth ==
  \/ At(1) /\ SetAdmin("admin")
  \/ At(2) /\ FailsUnsigned(SetPolicy("account1", "asset1", 1000, 17280))
  \/ End(3) /\ Asserts(GetPolicy("account1", "asset1") = Absent)

test_set_policy_auth_checked_before_period_validation ==
  \/ At(1) /\ Initialize("admin")
  \/ At(2) /\ FailsUnsigned(SetPolicy("account1", "asset1", 1000, 0))
  \/ End(3) /\ Asserts(GetPolicy("account1", "asset1") = Absent)

test_set_and_get_policy ==
  \/ At(1) /\ Initialize("admin")
  \/ At(2) /\ SetPolicy("account1", "asset1", 1000, 17280)
  \/ End(3) /\ Asserts(GetPolicy("account1", "asset1") =
                [limit |-> 1000, spent |-> 0, reset_ledger |-> sequence, period_ledgers |-> 17280])

test_set_policy_overwrites_existing ==
  \/ At(1) /\ Initialize("admin")
  \/ At(2) /\ SetPolicy("account1", "asset1", 500, 17280)
  \/ At(3) /\ SetPolicy("account1", "asset1", 2000, 17280)
  \/ End(4) /\ Asserts(GetPolicy("account1", "asset1").limit = 2000)

test_check_spend_exceeds_limit ==
  \/ At(1) /\ Initialize("admin")
  \/ At(2) /\ SetPolicy("account1", "asset1", 1000, 17280)
  \/ End(3) /\ Fails(CheckSpend("account1", "asset1", 1001))

test_set_policy_rejects_non_positive_limit ==
  \/ At(1) /\ Initialize("admin")
  \/ End(2) /\ Fails(SetPolicy("account1", "asset1", 0, 17280))

test_set_policy_rejects_zero_period ==
  \/ At(1) /\ Initialize("admin")
  \/ At(2) /\ Fails(SetPolicy("account1", "asset1", 1000, 0))
  \/ End(3) /\ Asserts(GetPolicy("account1", "asset1") = Absent)

test_check_spend_rejects_negative_amount ==
  \/ At(1) /\ Initialize("admin")
  \/ At(2) /\ SetPolicy("account1", "asset1", 1000, 17280)
  \/ End(3) /\ Fails(CheckSpend("account1", "asset1", 0 - 1))

test_multiple_accounts_same_asset ==
  \/ At(1) /\ Initialize("admin")
  \/ At(2) /\ SetPolicy("account1", "asset1", 1000, 17280)
  \/ At(3) /\ SetPolicy("account2", "asset1", 2000, 17280)
  \/ At(4) /\ Asserts(GetPolicy("account1", "asset1").limit = 1000)
  \/ End(5) /\ Asserts(GetPolicy("account2", "asset1").limit = 2000)

test_multiple_assets_same_account ==
  \/ At(1) /\ Initialize("admin")
  \/ At(2) /\ SetPolicy("account1", "asset1", 1000, 17280)
  \/ At(3) /\ SetPolicy("account1", "asset2", 5000, 17280)
  \/ At(4) /\ Asserts(GetPolicy("account1", "asset1").limit = 1000)
  \/ End(5) /\ Asserts(GetPolicy("account1", "asset2").limit = 5000)

test_check_spend_at_exact_limit ==
  \/ At(1) /\ Initialize("admin")
  \/ At(2) /\ SetPolicy("account1", "asset1", 1000, 17280)
  \/ At(3) /\ CheckSpend("account1", "asset1", 1000)
  \/ End(4) /\ Fails(CheckSpend("account1", "asset1", 1001))

test_check_spend_zero_amount ==
  \/ At(1) /\ Initialize("admin")
  \/ At(2) /\ SetPolicy("account1", "asset1", 1000, 17280)
  \/ End(3) /\ CheckSpend("account1", "asset1", 0)

test_check_spend_fail_closed_unconfigured_asset_emits_event ==
  \/ At(1) /\ Initialize("admin")
  \/ At(2) /\ SetPolicy("account1", "asset1", 1000, 17280)
  \/ End(3) /\ Fails(CheckSpend("account1", "asset2", 100))

test_set_policy_overwrites_completely ==
  \/ At(1) /\ Initialize("admin")
  \/ At(2) /\ SetPolicy("account1", "asset1", 10000, 17280)
  \/ At(3) /\ SetPolicy("account1", "asset2", 5000, 17280)
  \/ At(4) /\ Asserts(GetPolicy("account1", "asset1").limit = 10000)
  \/ End(5) /\ Asserts(GetPolicy("account1", "asset2").limit = 5000)

test_sequential_check_spend_calls ==
  \/ At(1) /\ Initialize("admin")
  \/ At(2) /\ SetPolicy("account1", "asset1", 1000, 17280)
  \/ At(3) /\ CheckSpend("account1", "asset1", 100)
  \/ At(4) /\ CheckSpend("account1", "asset1", 200)
  \/ At(5) /\ CheckSpend("account1", "asset1", 500)
  \/ End(6) /\ Fails(CheckSpend("account1", "asset1", 1001))

test_policy_with_min_positive_limit ==
  \/ At(1) /\ Initialize("admin")
  \/ At(2) /\ SetPolicy("account1", "asset1", 1, 17280)
  \/ At(3) /\ Asserts(GetPolicy("account1", "asset1").limit = 1)
  \/ At(4) /\ CheckSpend("account1", "asset1", 1)
  \/ End(5) /\ Fails(CheckSpend("account1", "asset1", 2))

test_set_policy_not_initialized ==
  End(1) /\ Fails(SetPolicy("account1", "asset1", 1000, 17280))

test_check_spend_not_initialized ==
  End(1) /\ Fails(CheckSpend("account1", "asset1", 100))

test_check_spend_after_policy_update ==
  \/ At(1) /\ Initialize("admin")
  \/ At(2) /\ SetPolicy("account1", "asset1", 1000, 17280)
  \/ At(3) /\ CheckSpend("account1", "asset1", 800)
  \/ At(4) /\ Fails(CheckSpend("account1", "asset1", 1001))
  \/ At(5) /\ SetPolicy("account1", "asset1", 5000, 17280)
  \/ At(6) /\ CheckSpend("account1", "asset1", 3000)
  \/ End(7) /\ Fails(CheckSpend("account1", "asset1", 5001))

test_check_spend_account_isolation ==
  \/ At(1) /\ Initialize("admin")
  \/ At(2) /\ SetPolicy("account1", "asset1", 1000, 17280)
  \/ At(3) /\ CheckSpend("account1", "asset1", 500)
  \/ At(4) /\ Fails(CheckSpend("account1", "asset1", 1500))
  \/ End(5) /\ Fails(CheckSpend("account2", "asset1", 500))

test_check_spend_multiple_assets_same_account ==
  \/ At(1) /\ Initialize("admin")
  \/ At(2) /\ SetPolicy("account1", "asset1", 1000, 17280)
  \/ At(3) /\ SetPolicy("account1", "asset2", 500, 17280)
  \/ At(4) /\ CheckSpend("account1", "asset1", 1000)
  \/ At(5) /\ Fails(CheckSpend("account1", "asset1", 1001))
  \/ At(6) /\ CheckSpend("account1", "asset2", 500)
  \/ End(7) /\ Fails(CheckSpend("account1", "asset2", 501))

-----------------------------------------------------------------------------

Suite ==
  {"test_initialize", "test_set_policy_requires_admin_auth",
   "test_set_policy_auth_checked_before_period_validation", "test_set_and_get_policy",
   "test_set_policy_overwrites_existing", "test_check_spend_exceeds_limit",
   "test_set_policy_rejects_non_positive_limit", "test_set_policy_rejects_zero_period",
   "test_check_spend_rejects_negative_amount", "test_multiple_accounts_same_asset",
   "test_multiple_assets_same_account", "test_check_spend_at_exact_limit",
   "test_check_spend_zero_amount",
   "test_check_spend_fail_closed_unconfigured_asset_emits_event",
   "test_set_policy_overwrites_completely", "test_sequential_check_spend_calls",
   "test_policy_with_min_positive_limit", "test_set_policy_not_initialized",
   "test_check_spend_not_initialized", "test_check_spend_after_policy_update",
   "test_check_spend_account_isolation", "test_check_spend_multiple_assets_same_account"}

Tests ==
  \/ test = "test_initialize" /\ test_initialize
  \/ test = "test_set_policy_requires_admin_auth" /\ test_set_policy_requires_admin_auth
  \/ test = "test_set_policy_auth_checked_before_period_validation" /\ test_set_policy_auth_checked_before_period_validation
  \/ test = "test_set_and_get_policy" /\ test_set_and_get_policy
  \/ test = "test_set_policy_overwrites_existing" /\ test_set_policy_overwrites_existing
  \/ test = "test_check_spend_exceeds_limit" /\ test_check_spend_exceeds_limit
  \/ test = "test_set_policy_rejects_non_positive_limit" /\ test_set_policy_rejects_non_positive_limit
  \/ test = "test_set_policy_rejects_zero_period" /\ test_set_policy_rejects_zero_period
  \/ test = "test_check_spend_rejects_negative_amount" /\ test_check_spend_rejects_negative_amount
  \/ test = "test_multiple_accounts_same_asset" /\ test_multiple_accounts_same_asset
  \/ test = "test_multiple_assets_same_account" /\ test_multiple_assets_same_account
  \/ test = "test_check_spend_at_exact_limit" /\ test_check_spend_at_exact_limit
  \/ test = "test_check_spend_zero_amount" /\ test_check_spend_zero_amount
  \/ test = "test_check_spend_fail_closed_unconfigured_asset_emits_event" /\ test_check_spend_fail_closed_unconfigured_asset_emits_event
  \/ test = "test_set_policy_overwrites_completely" /\ test_set_policy_overwrites_completely
  \/ test = "test_sequential_check_spend_calls" /\ test_sequential_check_spend_calls
  \/ test = "test_policy_with_min_positive_limit" /\ test_policy_with_min_positive_limit
  \/ test = "test_set_policy_not_initialized" /\ test_set_policy_not_initialized
  \/ test = "test_check_spend_not_initialized" /\ test_check_spend_not_initialized
  \/ test = "test_check_spend_after_policy_update" /\ test_check_spend_after_policy_update
  \/ test = "test_check_spend_account_isolation" /\ test_check_spend_account_isolation
  \/ test = "test_check_spend_multiple_assets_same_account" /\ test_check_spend_multiple_assets_same_account
=============================================================================
