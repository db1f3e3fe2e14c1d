----------------------- MODULE MuxAccountFactoryTests -----------------------
(***************************************************************************)
(* The unit tests of contracts/mux-account-factory. Metadata that differs  *)
(* has different lengths here.                                             *)
(***************************************************************************)
EXTENDS MuxAccountFactory, Replay

Asserts(p) == p /\ UNCHANGED vars

\* The call answers with an error and is rolled back.
Fails(call) == ~ENABLED call /\ UNCHANGED vars

\* No mocked authorizations.
FailsUnsigned(call) == ~ENABLED (call /\ signers' = {}) /\ UNCHANGED vars

m1 == [version |-> 1, description |-> 1, author |-> 1]
m2 == [m1 EXCEPT !.version = 2]

Registered(o, n, count) == Len(GetAccounts(o)) = n /\ AccountCount = count

test_account_registry_updated_after_deployment ==
  \/ At(1) /\ DeployAccount("owner", "a1")
  \/ End(2) /\ Asserts(GetAccounts("owner") = <<"a1">> /\ AccountCount = 1)

test_multiple_account_deployments ==
  \/ At(1) /\ DeployAccount("owner", "a1")
  \/ At(2) /\ DeployAccount("owner", "a2")
  \/ End(3) /\ Asserts(Registered("owner", 2, 2))

test_invalid_account_same_as_owner ==
  End(1) /\ Fails(DeployAccount("owner", "owner"))

\* Here and below, for a cap of two.
test_accounts_cap_enforced ==
  \/ At(1) /\ DeployAccount("owner", "a1")
  \/ At(2) /\ DeployAccount("owner", "a2")
  \/ At(3) /\ Fails(DeployAccount("owner", "a3"))
  \/ End(4) /\ Asserts(Len(GetAccounts("owner")) <= MaxAccountsPerOwner)

test_deploy_account_idempotent ==
  \/ At(1) /\ DeployAccount("owner", "a1") /\ Registered("owner", 1, 1)'
  \/ At(2) /\ DeployAccount("owner", "a1")
  \/ End(3) /\ Asserts(AccountCount = 1 /\ GetAccounts("owner") = <<"a1">>)

test_deploy_account_with_metadata_idempotent ==
  \/ At(1) /\ DeployAccountWithMetadata("owner", "a1", m1) /\ Registered("owner", 1, 1)'
  \/ At(2) /\ Asserts(GetAccountMetadata("owner", "a1") = m1)
  \/ At(3) /\ DeployAccountWithMetadata("owner", "a1", m2) /\ Registered("owner", 1, 1)'
  \/ End(4) /\ Asserts(GetAccountMetadata("owner", "a1") = m2)

test_deploy_account_idempotent_at_cap ==
  \/ At(1) /\ DeployAccount("owner", "a1")
  \/ At(2) /\ DeployAccount("owner", "a2") /\ (Len(GetAccounts("owner")) = 2)'
  \/ At(3) /\ DeployAccount("owner", "a1")
  \/ At(4) /\ Asserts(SimulateDeploy("owner", "a1"))
  \/ End(5) /\ Fails(DeployAccount("owner", "a3"))

test_accounts_cap_returns_too_many_accounts ==
  \/ At(1) /\ DeployAccount("owner", "a1")
  \/ At(2) /\ DeployAccount("owner", "a2")
  \/ End(3) /\ Fails(DeployAccount("owner", "a3"))

test_deploy_account_with_metadata ==
  End(1) /\ DeployAccountWithMetadata("owner", "a1", m1) /\ (AccountCount = 1)'

test_get_account_metadata ==
  \/ At(1) /\ DeployAccountWithMetadata("owner", "a1", m2)
  \/ End(2) /\ Asserts(GetAccountMetadata("owner", "a1") = m2)

test_get_account_metadata_wrong_owner ==
  \/ At(1) /\ DeployAccountWithMetadata("owner", "a1", m1)
  \/ End(2) /\ Asserts(GetAccountMetadata("owner_b", "a1") = Absent)

test_deploy_account_unauthorized_without_auth ==
  \/ At(1) /\ FailsUnsigned(DeployAccount("owner", "a1"))
  \/ End(2) /\ Asserts(Registered("owner", 0, 0))

test_deploy_account_with_metadata_unauthorized_without_auth ==
  \/ At(1) /\ FailsUnsigned(DeployAccountWithMetadata("owner", "a1", m1))
  \/ End(2) /\ Asserts(Registered("owner", 0, 0) /\ GetAccountMetadata("owner", "a1") = Absent)

test_deploy_account_with_metadata_enforces_cap ==
  \/ At(1) /\ DeployAccountWithMetadata("owner", "a1", m1)
  \/ At(2) /\ DeployAccountWithMetadata("owner", "a2", m1)
  \/ End(3) /\ Fails(DeployAccountWithMetadata("owner", "a3", m1))

test_deploy_account_with_metadata_invalid_account ==
  End(1) /\ Fails(DeployAccountWithMetadata("owner", "owner", m1))

test_metadata_version_too_long ==
  \/ At(1) /\ Fails(DeployAccountWithMetadata("owner", "a1", [m1 EXCEPT !.version = MaxVersionLength + 1]))
  \/ End(2) /\ Asserts(GetAccounts("owner") = <<>>)

test_metadata_description_too_long ==
  \/ At(1) /\ Fails(DeployAccountWithMetadata("owner", "a1", [m1 EXCEPT !.description = MaxDescriptionLength + 1]))
  \/ End(2) /\ Asserts(GetAccounts("owner") = <<>>)

test_metadata_author_too_long ==
  \/ At(1) /\ Fails(DeployAccountWithMetadata("owner", "a1", [m1 EXCEPT !.author = MaxAuthorLength + 1]))
  \/ End(2) /\ Asserts(GetAccounts("owner") = <<>>)

test_metadata_at_max_length_succeeds ==
  End(1) /\ DeployAccountWithMetadata("owner", "a1",
              [version |-> MaxVersionLength, description |-> MaxDescriptionLength, author |-> MaxAuthorLength])

test_simulate_deploy_with_metadata_rejects_owner_as_account ==
  End(1) /\ Asserts(~SimulateDeployWithMetadata("owner", "owner", m1))

test_simulate_deploy_with_metadata_does_not_write_state ==
  \/ At(1) /\ Asserts(SimulateDeployWithMetadata("owner", "a1", m1))
  \/ End(2) /\ Asserts(Registered("owner", 0, 0))

test_multi_owner_accounts_are_isolated ==
  \/ At(1) /\ DeployAccount("owner", "a1")
  \/ At(2) /\ DeployAccount("owner", "a2")
  \/ At(3) /\ DeployAccount("owner_b", "a3")
  \/ At(4) /\ Asserts(Registered("owner", 2, 3) /\ Registered("owner_b", 1, 3))
  \/ End(5) /\ Asserts(ToSet(GetAccounts("owner")) \cap ToSet(GetAccounts("owner_b")) = {})

test_account_count_is_global_across_owners ==
  \/ At(1) /\ AccountCount = 0 /\ DeployAccount("owner", "a1") /\ (AccountCount = 1)'
  \/ At(2) /\ DeployAccount("owner_b", "a2") /\ (AccountCount = 2)'
  \/ End(3) /\ DeployAccount("owner", "a3") /\ (AccountCount = 3)'

test_account_count_increments_via_both_deploy_paths ==
  \/ At(1) /\ DeployAccount("owner", "a1") /\ (AccountCount = 1)'
  \/ End(2) /\ DeployAccountWithMetadata("owner", "a2", m1) /\ (AccountCount = 2)'

test_deploy_same_address_twice_is_allowed ==
  \/ At(1) /\ DeployAccount("owner", "a1")
  \/ At(2) /\ DeployAccount("owner", "a1")
  \/ End(3) /\ Asserts(GetAccounts("owner") = <<"a1">> /\ AccountCount = 1)

test_simulate_deploy_enforces_cap ==
  \/ At(1) /\ DeployAccount("owner", "a1")
  \/ At(2) /\ DeployAccount("owner", "a2")
  \/ End(3) /\ Asserts(~SimulateDeploy("owner", "a3"))

test_simulate_deploy_with_metadata_enforces_cap ==
  \/ At(1) /\ DeployAccount("owner", "a1")
  \/ At(2) /\ DeployAccount("owner", "a2")
  \/ End(3) /\ Asserts(~SimulateDeployWithMetadata("owner", "a3", m1))

test_simulate_with_metadata_and_deploy_return_same_address ==
  \/ At(1) /\ Asserts(SimulateDeployWithMetadata("owner", "a1", m1))
  \/ End(2) /\ DeployAccountWithMetadata("owner", "a1", m1)

test_simulate_then_deploy_produces_single_entry ==
  \/ At(1) /\ Asserts(SimulateDeploy("owner", "a1") /\ Registered("owner", 0, 0))
  \/ End(2) /\ DeployAccount("owner", "a1") /\ Registered("owner", 1, 1)'

test_simulate_with_metadata_is_read_only ==
  \/ At(1) /\ Asserts(SimulateDeployWithMetadata("owner", "a1", m1))
  \/ End(2) /\ Asserts(Registered("owner", 0, 0) /\ GetAccountMetadata("owner", "a1") = Absent)

test_metadata_is_isolated_per_owner ==
  \/ At(1) /\ DeployAccountWithMetadata("owner", "a1", m1)
  \/ At(2) /\ Asserts(GetAccountMetadata("owner_b", "a1") = Absent)
  \/ End(3) /\ Asserts(GetAccountMetadata("owner", "a1") = m1)

test_accounts_vec_length_bounded_after_cap ==
  \/ At(1) /\ DeployAccount("owner", "a1")
  \/ At(2) /\ DeployAccount("owner", "a2")
  \/ At(3) /\ Fails(DeployAccount("owner", "a3"))
  \/ End(4) /\ Asserts(Len(GetAccounts("owner")) <= MaxAccountsPerOwner)

test_account_count_does_not_increment_on_rejected_deploy ==
  \/ At(1) /\ DeployAccount("owner", "a1")
  \/ At(2) /\ DeployAccount("owner", "a2")
  \/ At(3) /\ Fails(DeployAccount("owner", "a3"))
  \/ End(4) /\ Asserts(AccountCount = MaxAccountsPerOwner)

test_cap_is_per_owner_not_global ==
  \/ At(1) /\ DeployAccount("owner", "a1")
  \/ At(2) /\ DeployAccount("owner", "a2")
  \/ At(3) /\ Fails(DeployAccount("owner", "a3"))
  \/ End(4) /\ DeployAccount("owner_b", "a3") /\ (Len(GetAccounts("owner_b")) = 1)'

test_concurrent_deploy_respects_cap ==
  \/ At(1) /\ DeployAccount("owner", "a1") /\ (Len(GetAccounts("owner")) = MaxAccountsPerOwner - 1)'
  \/ At(2) /\ DeployAccount("owner", "a2")
  \/ At(3) /\ Fails(DeployAccount("owner", "a3"))
  \/ End(4) /\ Asserts(Registered("owner", MaxAccountsPerOwner, MaxAccountsPerOwner))

test_concurrent_deploys_across_owners_isolated ==
  \/ At(1) /\ DeployAccount("owner", "a1")
  \/ At(2) /\ DeployAccount("owner", "a2")
  \/ At(3) /\ DeployAccount("owner_b", "a1")
  \/ At(4) /\ Fails(DeployAccount("owner", "a3"))
  \/ At(5) /\ DeployAccount("owner_b", "a2")
  \/ At(6) /\ DeployAccount("owner_c", "a3")
  \/ End(7) /\ Asserts(/\ Len(GetAccounts("owner")) = MaxAccountsPerOwner
                       /\ Len(GetAccounts("owner_b")) = MaxAccountsPerOwner
                       /\ Registered("owner_c", 1, MaxAccountsPerOwner * 2 + 1))

test_owner_enumeration_at_cap ==
  \/ At(1) /\ DeployAccount("owner", "a1")
  \/ At(2) /\ DeployAccountWithMetadata("owner", "a2", m1)
  \/ At(3) /\ Asserts(Len(GetAccounts("owner")) = MaxAccountsPerOwner)
  \/ At(4) /\ Asserts({"a1", "a2"} \subseteq ToSet(GetAccounts("owner")))
  \/ End(5) /\ Asserts(GetAccountMetadata("owner", "a1") = Absent /\ GetAccountMetadata("owner", "a2") = m1)

test_cap_griefing_resistance ==
  \/ At(1) /\ DeployAccount("owner", "a1")
  \/ At(2) /\ DeployAccount("owner", "a2")
  \/ At(3) /\ DeployAccount("owner_b", "a3") /\ (GetAccounts("owner_b") = <<"a3">>)'
  \/ End(4) /\ Asserts(Len(GetAccounts("owner")) = MaxAccountsPerOwner)

test_enumeration_with_duplicate_addresses ==
  \/ At(1) /\ DeployAccountWithMetadata("owner", "a1", m1)
  \/ At(2) /\ DeployAccountWithMetadata("owner", "a1", m2)
  \/ At(3) /\ Asserts(GetAccounts("owner") = <<"a1">>)
  \/ End(4) /\ Asserts(GetAccountMetadata("owner", "a1") = m2 /\ AccountCount = 1)

-----------------------------------------------------------------------------

Suite ==
  {"test_account_registry_updated_after_deployment", "test_multiple_account_deployments",
   "test_invalid_account_same_as_owner", "test_accounts_cap_enforced",
   "test_deploy_account_idempotent", "test_deploy_account_with_metadata_idempotent",
   "test_deploy_account_idempotent_at_cap", "test_accounts_cap_returns_too_many_accounts",
   "test_deploy_account_with_metadata", "test_get_account_metadata",
   "test_get_account_metadata_wrong_owner", "test_deploy_account_unauthorized_without_auth",
   "test_deploy_account_with_metadata_unauthorized_without_auth",
   "test_deploy_account_with_metadata_enforces_cap",
   "test_deploy_account_with_metadata_invalid_account", "test_metadata_version_too_long",
   "test_metadata_description_too_long", "test_metadata_author_too_long",
   "test_metadata_at_max_length_succeeds",
   "test_simulate_deploy_with_metadata_rejects_owner_as_account",
   "test_simulate_deploy_with_metadata_does_not_write_state",
   "test_multi_owner_accounts_are_isolated", "test_account_count_is_global_across_owners",
   "test_account_count_increments_via_both_deploy_paths",
   "test_deploy_same_address_twice_is_allowed", "test_simulate_deploy_enforces_cap",
   "test_simulate_deploy_with_metadata_enforces_cap",
   "test_simulate_with_metadata_and_deploy_return_same_address",
   "test_simulate_then_deploy_produces_single_entry",
   "test_simulate_with_metadata_is_read_only", "test_metadata_is_isolated_per_owner",
   "test_accounts_vec_length_bounded_after_cap",
   "test_account_count_does_not_increment_on_rejected_deploy",
   "test_cap_is_per_owner_not_global", "test_concurrent_deploy_respects_cap",
   "test_concurrent_deploys_across_owners_isolated", "test_owner_enumeration_at_cap",
   "test_cap_griefing_resistance", "test_enumeration_with_duplicate_addresses"}

Tests ==
  \/ test = "test_account_registry_updated_after_deployment" /\ test_account_registry_updated_after_deployment
  \/ test = "test_multiple_account_deployments" /\ test_multiple_account_deployments
  \/ test = "test_invalid_account_same_as_owner" /\ test_invalid_account_same_as_owner
  \/ test = "test_accounts_cap_enforced" /\ test_accounts_cap_enforced
  \/ test = "test_deploy_account_idempotent" /\ test_deploy_account_idempotent
  \/ test = "test_deploy_account_with_metadata_idempotent" /\ test_deploy_account_with_metadata_idempotent
  \/ test = "test_deploy_account_idempotent_at_cap" /\ test_deploy_account_idempotent_at_cap
  \/ test = "test_accounts_cap_returns_too_many_accounts" /\ test_accounts_cap_returns_too_many_accounts
  \/ test = "test_deploy_account_with_metadata" /\ test_deploy_account_with_metadata
  \/ test = "test_get_account_metadata" /\ test_get_account_metadata
  \/ test = "test_get_account_metadata_wrong_owner" /\ test_get_account_metadata_wrong_owner
  \/ test = "test_deploy_account_unauthorized_without_auth" /\ test_deploy_account_unauthorized_without_auth
  \/ test = "test_deploy_account_with_metadata_unauthorized_without_auth" /\ test_deploy_account_with_metadata_unauthorized_without_auth
  \/ test = "test_deploy_account_with_metadata_enforces_cap" /\ test_deploy_account_with_metadata_enforces_cap
  \/ test = "test_deploy_account_with_metadata_invalid_account" /\ test_deploy_account_with_metadata_invalid_account
  \/ test = "test_metadata_version_too_long" /\ test_metadata_version_too_long
  \/ test = "test_metadata_description_too_long" /\ test_metadata_description_too_long
  \/ test = "test_metadata_author_too_long" /\ test_metadata_author_too_long
  \/ test = "test_metadata_at_max_length_succeeds" /\ test_metadata_at_max_length_succeeds
  \/ test = "test_simulate_deploy_with_metadata_rejects_owner_as_account" /\ test_simulate_deploy_with_metadata_rejects_owner_as_account
  \/ test = "test_simulate_deploy_with_metadata_does_not_write_state" /\ test_simulate_deploy_with_metadata_does_not_write_state
  \/ test = "test_multi_owner_accounts_are_isolated" /\ test_multi_owner_accounts_are_isolated
  \/ test = "test_account_count_is_global_across_owners" /\ test_account_count_is_global_across_owners
  \/ test = "test_account_count_increments_via_both_deploy_paths" /\ test_account_count_increments_via_both_deploy_paths
  \/ test = "test_deploy_same_address_twice_is_allowed" /\ test_deploy_same_address_twice_is_allowed
  \/ test = "test_simulate_deploy_enforces_cap" /\ test_simulate_deploy_enforces_cap
  \/ test = "test_simulate_deploy_with_metadata_enforces_cap" /\ test_simulate_deploy_with_metadata_enforces_cap
  \/ test = "test_simulate_with_metadata_and_deploy_return_same_address" /\ test_simulate_with_metadata_and_deploy_return_same_address
  \/ test = "test_simulate_then_deploy_produces_single_entry" /\ test_simulate_then_deploy_produces_single_entry
  \/ test = "test_simulate_with_metadata_is_read_only" /\ test_simulate_with_metadata_is_read_only
  \/ test = "test_metadata_is_isolated_per_owner" /\ test_metadata_is_isolated_per_owner
  \/ test = "test_accounts_vec_length_bounded_after_cap" /\ test_accounts_vec_length_bounded_after_cap
  \/ test = "test_account_count_does_not_increment_on_rejected_deploy" /\ test_account_count_does_not_increment_on_rejected_deploy
  \/ test = "test_cap_is_per_owner_not_global" /\ test_cap_is_per_owner_not_global
  \/ test = "test_concurrent_deploy_respects_cap" /\ test_concurrent_deploy_respects_cap
  \/ test = "test_concurrent_deploys_across_owners_isolated" /\ test_concurrent_deploys_across_owners_isolated
  \/ test = "test_owner_enumeration_at_cap" /\ test_owner_enumeration_at_cap
  \/ test = "test_cap_griefing_resistance" /\ test_cap_griefing_resistance
  \/ test = "test_enumeration_with_duplicate_addresses" /\ test_enumeration_with_duplicate_addresses
=============================================================================
