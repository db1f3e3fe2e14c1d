--------------------------- MODULE MuxPolicyTests ---------------------------
(***************************************************************************)
(* The unit tests of contracts/mux-policy.                                 *)
(***************************************************************************)
EXTENDS MuxPolicy, Replay

Asserts(p) == p /\ UNCHANGED vars

\* The call answers with an error and is rolled back.
Fails(call) == ~ENABLED call /\ UNCHANGED vars

\* No mocked authorizations.
FailsUnsigned(call) == ~ENABLED (call /\ signers' = {}) /\ UNCHANGED vars

\* The test moves the ledger (env.ledger().set_sequence_number) and writes to
\* the storage of the contract (env.as_contract).
LedgerIs(n) == sequence' = n /\ signers' = {} /\ UNCHANGED <<storage, frames>>
SetStorage(a, l) ==
  /\ admin' = a
  /\ limits' = l
  /\ signers' = {}
  /\ UNCHANGED <<wallet_names, frames, sequence, charged>>

setup == At(1) /\ Initialize("admin")
day == 17280
Limited(limit) == At(2) /\ SetDailyLimit("wallet", limit, day, Absent)

Spent(w) == View(limits[w]).spent

test_double_initialize_fails ==
  \/ setup
  \/ End(2) /\ Fails(Initialize("admin"))

test_set_daily_limit_requires_admin_auth ==
  \/ At(1) /\ SetStorage("admin", limits)
  \/ At(2) /\ FailsUnsigned(SetDailyLimit("wallet", 1000, day, Absent))
  \/ End(3) /\ Asserts(limits["wallet"] = Absent)

test_record_spend_requires_wallet_auth ==
  \/ At(1) /\ SetStorage("admin", [limits EXCEPT !["wallet"] =
       [limit |-> 1000, spent |-> 0, reset_ledger |-> SaturatingAdd(sequence, day),
        day_ledgers |-> day, registry_id |-> Absent]])
  \/ At(2) /\ FailsUnsigned(RecordSpend("wallet", 100))
  \/ End(3) /\ Asserts(Spent("wallet") = 0)

test_set_daily_limit ==
  \/ setup \/ Limited(1000)
  \/ End(3) /\ Asserts(/\ limits["wallet"].limit = 1000
                       /\ limits["wallet"].spent = 0
                       /\ limits["wallet"].registry_id = Absent)

test_set_daily_limit_zero_amount_rejected ==
  \/ setup
  \/ End(2) /\ Fails(SetDailyLimit("wallet", 0, day, Absent))

test_set_daily_limit_negative_amount_rejected ==
  \/ setup
  \/ End(2) /\ Fails(SetDailyLimit("wallet", 0 - 1, day, Absent))

test_set_daily_limit_zero_period_rejected ==
  \/ setup
  \/ At(2) /\ Fails(SetDailyLimit("wallet", 1000, 0, Absent))
  \/ End(3) /\ Asserts(limits["wallet"] = Absent)

test_record_spend_zero_amount_rejected ==
  \/ setup \/ Limited(1000)
  \/ End(3) /\ Fails(RecordSpend("wallet", 0))

test_record_spend_negative_amount_rejected ==
  \/ setup \/ Limited(1000)
  \/ End(3) /\ Fails(RecordSpend("wallet", 0 - 5))

\* This one and the next configure limits, despite their names.
test_record_spend_exact_limit_allowed ==
  \/ setup
  \/ At(2) /\ Fails(SetDailyLimit("wallet", 0, day, Absent))
  \/ End(3) /\ Fails(SetDailyLimit("wallet", 0 - 1, day, Absent))

test_record_spend_one_over_limit_rejected ==
  \/ setup
  \/ End(2) /\ Fails(SetDailyLimit("wallet", 1000, 0, Absent))

test_record_spend_cumulative_boundary ==
  \/ setup \/ Limited(1000)
  \/ At(3) /\ RecordSpend("wallet", 500)
  \/ At(4) /\ RecordSpend("wallet", 500)
  \/ End(5) /\ Fails(RecordSpend("wallet", 1))

test_record_spend_within_limit ==
  \/ setup \/ Limited(1000)
  \/ End(3) /\ RecordSpend("wallet", 400) /\ Spent("wallet")' = 400

test_record_spend_exceeds_limit ==
  \/ setup \/ Limited(500)
  \/ At(3) /\ RecordSpend("wallet", 300)
  \/ End(4) /\ Fails(RecordSpend("wallet", 300))

test_record_spend_emits_event ==
  \/ setup \/ Limited(1000)
  \/ End(3) /\ RecordSpend("wallet", 100)

test_multiple_wallets_independent_limits ==
  \/ setup
  \/ At(2) /\ SetDailyLimit("wallet_a", 500, day, Absent)
  \/ At(3) /\ SetDailyLimit("wallet_b", 200, day, Absent)
  \/ At(4) /\ RecordSpend("wallet_a", 500)
  \/ At(5) /\ RecordSpend("wallet_b", 200)
  \/ At(6) /\ Fails(RecordSpend("wallet_a", 1))
  \/ End(7) /\ Fails(RecordSpend("wallet_b", 1))

test_ttl_extended_on_reset_daily_counter ==
  \/ setup \/ Limited(1000)
  \/ End(3) /\ ResetDailyCounter("wallet")

test_record_spend_resets_counter_after_day_window ==
  \/ setup
  \/ At(2) /\ SetDailyLimit("wallet", 1000, 10, Absent)
  \/ At(3) /\ RecordSpend("wallet", 900)
  \/ At(4) /\ LedgerIs(11)
  \/ End(5) /\ RecordSpend("wallet", 900) /\ Spent("wallet")' = 900

test_get_daily_limit_shows_reset_spent_without_persisting ==
  \/ setup
  \/ At(2) /\ SetDailyLimit("wallet", 500, 10, Absent)
  \/ At(3) /\ RecordSpend("wallet", 300)
  \/ At(4) /\ LedgerIs(11)
  \/ At(5) /\ Asserts(Spent("wallet") = 0)
  \/ End(6) /\ RecordSpend("wallet", 500) /\ Spent("wallet")' = 500

test_record_spend_no_limit_configured_fails ==
  \/ setup
  \/ End(2) /\ Fails(RecordSpend("wallet", 100))

test_spend_exactly_at_limit_succeeds ==
  \/ setup \/ Limited(500)
  \/ At(3) /\ RecordSpend("wallet", 500) /\ Spent("wallet")' = 500
  \/ End(4) /\ Fails(RecordSpend("wallet", 1))

\* The registry is asked and does not answer.
test_record_spend_with_invalid_registry_id_returns_registry_not_found ==
  \/ setup
  \/ At(2) /\ SetDailyLimit("wallet", 1000, day, "invalid_registry")
  \/ At(3) /\ Fails(RecordSpend("wallet", 100))
  \/ At(4) /\ AskRegistry("wallet", 100)
  \/ End(5) /\ RegistryFails /\ Spent("wallet")' = 0

test_record_spend_without_registry_id_succeeds ==
  \/ setup \/ Limited(1000)
  \/ End(3) /\ RecordSpend("wallet", 100) /\ Spent("wallet")' = 100

\* The event carries what is stored; DEFAULT_DAY_LEDGERS is a day.
test_set_daily_limit_emits_lmt_set_with_wallet_limit_day_ledgers ==
  \/ setup \/ Limited(1000)
  \/ End(3) /\ Asserts(limits["wallet"].limit = 1000 /\ limits["wallet"].day_ledgers = day)

test_set_daily_limit_emits_lmt_set_with_custom_day_ledgers ==
  \/ setup
  \/ At(2) /\ SetDailyLimit("wallet", 500, 10, Absent)
  \/ End(3) /\ Asserts(limits["wallet"].limit = 500 /\ limits["wallet"].day_ledgers = 10)

-----------------------------------------------------------------------------

Suite ==
  {"test_double_initialize_fails", "test_set_daily_limit_requires_admin_auth",
   "test_record_spend_requires_wallet_auth", "test_set_daily_limit",
   "test_set_daily_limit_zero_amount_rejected",
   "test_set_daily_limit_negative_amount_rejected",
   "test_set_daily_limit_zero_period_rejected", "test_record_spend_zero_amount_rejected",
   "test_record_spend_negative_amount_rejected", "test_record_spend_exact_limit_allowed",
   "test_record_spend_one_over_limit_rejected", "test_record_spend_cumulative_boundary",
   "test_record_spend_within_limit", "test_record_spend_exceeds_limit",
   "test_record_spend_emits_event", "test_multiple_wallets_independent_limits",
   "test_ttl_extended_on_reset_daily_counter",
   "test_record_spend_resets_counter_after_day_window",
   "test_get_daily_limit_shows_reset_spent_without_persisting",
   "test_record_spend_no_limit_configured_fails", "test_spend_exactly_at_limit_succeeds",
   "test_record_spend_with_invalid_registry_id_returns_registry_not_found",
   "test_record_spend_without_registry_id_succeeds",
   "test_set_daily_limit_emits_lmt_set_with_wallet_limit_day_ledgers",
   "test_set_daily_limit_emits_lmt_set_with_custom_day_ledgers"}

Tests ==
  \/ test = "test_double_initialize_fails" /\ test_double_initialize_fails
  \/ test = "test_set_daily_limit_requires_admin_auth" /\ test_set_daily_limit_requires_admin_auth
  \/ test = "test_record_spend_requires_wallet_auth" /\ test_record_spend_requires_wallet_auth
  \/ test = "test_set_daily_limit" /\ test_set_daily_limit
  \/ test = "test_set_daily_limit_zero_amount_rejected" /\ test_set_daily_limit_zero_amount_rejected
  \/ test = "test_set_daily_limit_negative_amount_rejected" /\ test_set_daily_limit_negative_amount_rejected
  \/ test = "test_set_daily_limit_zero_period_rejected" /\ test_set_daily_limit_zero_period_rejected
  \/ test = "test_record_spend_zero_amount_rejected" /\ test_record_spend_zero_amount_rejected
  \/ test = "test_record_spend_negative_amount_rejected" /\ test_record_spend_negative_amount_rejected
  \/ test = "test_record_spend_exact_limit_allowed" /\ test_record_spend_exact_limit_allowed
  \/ test = "test_record_spend_one_over_limit_rejected" /\ test_record_spend_one_over_limit_rejected
  \/ test = "test_record_spend_cumulative_boundary" /\ test_record_spend_cumulative_boundary
  \/ test = "test_record_spend_within_limit" /\ test_record_spend_within_limit
  \/ test = "test_record_spend_exceeds_limit" /\ test_record_spend_exceeds_limit
  \/ test = "test_record_spend_emits_event" /\ test_record_spend_emits_event
  \/ test = "test_multiple_wallets_independent_limits" /\ test_multiple_wallets_independent_limits
  \/ test = "test_ttl_extended_on_reset_daily_counter" /\ test_ttl_extended_on_reset_daily_counter
  \/ test = "test_record_spend_resets_counter_after_day_window" /\ test_record_spend_resets_counter_after_day_window
  \/ test = "test_get_daily_limit_shows_reset_spent_without_persisting" /\ test_get_daily_limit_shows_reset_spent_without_persisting
  \/ test = "test_record_spend_no_limit_configured_fails" /\ test_record_spend_no_limit_configured_fails
  \/ test = "test_spend_exactly_at_limit_succeeds" /\ test_spend_exactly_at_limit_succeeds
  \/ test = "test_record_spend_with_invalid_registry_id_returns_registry_not_found" /\ test_record_spend_with_invalid_registry_id_returns_registry_not_found
  \/ test = "test_record_spend_without_registry_id_succeeds" /\ test_record_spend_without_registry_id_succeeds
  \/ test = "test_set_daily_limit_emits_lmt_set_with_wallet_limit_day_ledgers" /\ test_set_daily_limit_emits_lmt_set_with_wallet_limit_day_ledgers
  \/ test = "test_set_daily_limit_emits_lmt_set_with_custom_day_ledgers" /\ test_set_daily_limit_emits_lmt_set_with_custom_day_ledgers
=============================================================================
