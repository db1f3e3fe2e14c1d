------------------------- MODULE MuxDelegationTests -------------------------
(***************************************************************************)
(* The unit tests of contracts/mux-delegation.                             *)
(***************************************************************************)
EXTENDS MuxDelegation, Replay

Asserts(p) == p /\ UNCHANGED vars

\* The call answers with an error and is rolled back.
Fails(call) == ~ENABLED call /\ UNCHANGED vars

\* No mocked authorizations.
FailsUnsigned(call) == ~ENABLED (call /\ signers' = {}) /\ UNCHANGED vars

\* env.as_contract: the test writes the storage.
SetAdmin(a) ==
  /\ admin' = a
  /\ UNCHANGED <<contract_id, owner_delegates, delegate_perms, signers>>

p == <<"transfer">>

test_double_initialize_returns_already_initialized ==
  \/ At(1) /\ Initialize("admin")
  \/ End(2) /\ Fails(Initialize("admin"))

test_initialize_requires_admin_auth ==
  End(1) /\ FailsUnsigned(Initialize("admin"))

test_upgrade_before_initialize_returns_not_initialized ==
  End(1) /\ Fails(Upgrade)

test_upgrade_requires_admin_auth ==
  \/ At(1) /\ SetAdmin("admin")
  \/ End(2) /\ FailsUnsigned(Upgrade)

test_grant_delegate_empty_permissions_rejected ==
  End(1) /\ Fails(GrantDelegate("owner", "delegate", <<>>))

test_grant_delegate_too_many_permissions_rejected ==
  End(1) /\ Fails(GrantDelegate("owner", "delegate", [i \in 1..MaxDelegatePerms + 1 |-> "transfer"]))

test_grant_delegate_replaces_prior_grant ==
  \/ At(1) /\ GrantDelegate("owner", "delegate", <<"transfer">>)
  \/ At(2) /\ GrantDelegate("owner", "delegate", <<"approve">>)
  \/ End(3) /\ Asserts(GetDelegatePermissions("owner", "delegate") = <<"approve">>)

test_grant_delegate_requires_owner_auth ==
  End(1) /\ FailsUnsigned(GrantDelegate("owner", "delegate", p))

test_revoke_delegate_not_a_delegate_returns_error ==
  End(1) /\ Fails(RevokeDelegate("owner", "delegate"))

test_revoke_delegate_requires_owner_auth ==
  End(1) /\ FailsUnsigned(RevokeDelegate("owner", "delegate"))

test_is_delegate_true_after_grant ==
  \/ At(1) /\ GrantDelegate("owner", "delegate", p)
  \/ End(2) /\ Asserts(IsDelegate("owner", "delegate", "transfer"))

test_is_delegate_false_after_revoke ==
  \/ At(1) /\ GrantDelegate("owner", "delegate", p)
  \/ At(2) /\ RevokeDelegate("owner", "delegate")
  \/ End(3) /\ Asserts(~IsDelegate("owner", "delegate", "transfer"))

test_check_delegate_ok_when_granted ==
  \/ At(1) /\ GrantDelegate("owner", "delegate", p)
  \/ End(2) /\ Asserts(IsDelegate("owner", "delegate", "transfer"))

test_get_delegates_returns_all_delegates ==
  \/ At(1) /\ GrantDelegate("owner", "d1", p)
  \/ At(2) /\ GrantDelegate("owner", "d2", p)
  \/ End(3) /\ Asserts(Len(GetDelegates("owner")) = 2 /\ {"d1", "d2"} = ToSet(GetDelegates("owner")))

test_revoke_removes_from_get_delegates ==
  \/ At(1) /\ GrantDelegate("owner", "delegate", p)
  \/ At(2) /\ RevokeDelegate("owner", "delegate")
  \/ End(3) /\ Asserts(GetDelegates("owner") = <<>>)

test_link_contract_id_stores_and_emits_event ==
  \/ At(1) /\ LinkContractId("admin", "linked")
  \/ End(2) /\ Asserts(GetContractId = "linked")

test_link_contract_id_twice_returns_already_set ==
  \/ At(1) /\ LinkContractId("admin", "linked")
  \/ End(2) /\ Fails(LinkContractId("admin", "linked"))

test_link_contract_id_requires_admin_auth ==
  End(1) /\ FailsUnsigned(LinkContractId("admin", "linked"))

test_grant_and_revoke_work_without_initialize ==
  \/ At(1) /\ GrantDelegate("owner", "delegate", p)
  \/ End(2) /\ RevokeDelegate("owner", "delegate")

\* For a cap of two.
test_too_many_delegates_per_owner_rejected ==
  \/ At(1) /\ GrantDelegate("owner", "d1", p)
  \/ At(2) /\ GrantDelegate("owner", "d2", p)
  \/ End(3) /\ Fails(GrantDelegate("owner", "overflow", p))

-----------------------------------------------------------------------------

Suite ==
  {"test_double_initialize_returns_already_initialized",
   "test_initialize_requires_admin_auth",
   "test_upgrade_before_initialize_returns_not_initialized",
   "test_upgrade_requires_admin_auth", "test_grant_delegate_empty_permissions_rejected",
   "test_grant_delegate_too_many_permissions_rejected",
   "test_grant_delegate_replaces_prior_grant", "test_grant_delegate_requires_owner_auth",
   "test_revoke_delegate_not_a_delegate_returns_error",
   "test_revoke_delegate_requires_owner_auth", "test_is_delegate_true_after_grant",
   "test_is_delegate_false_after_revoke", "test_check_delegate_ok_when_granted",
   "test_get_delegates_returns_all_delegates", "test_revoke_removes_from_get_delegates",
   "test_link_contract_id_stores_and_emits_event",
   "test_link_contract_id_twice_returns_already_set",
   "test_link_contract_id_requires_admin_auth",
   "test_grant_and_revoke_work_without_initialize",
   "test_too_many_delegates_per_owner_rejected"}

Tests ==
  \/ test = "test_double_initialize_returns_already_initialized" /\ test_double_initialize_returns_already_initialized
  \/ test = "test_initialize_requires_admin_auth" /\ test_initialize_requires_admin_auth
  \/ test = "test_upgrade_before_initialize_returns_not_initialized" /\ test_upgrade_before_initialize_returns_not_initialized
  \/ test = "test_upgrade_requires_admin_auth" /\ test_upgrade_requires_admin_auth
  \/ test = "test_grant_delegate_empty_permissions_rejected" /\ test_grant_delegate_empty_permissions_rejected
  \/ test = "test_grant_delegate_too_many_permissions_rejected" /\ test_grant_delegate_too_many_permissions_rejected
  \/ test = "test_grant_delegate_replaces_prior_grant" /\ test_grant_delegate_replaces_prior_grant
  \/ test = "test_grant_delegate_requires_owner_auth" /\ test_grant_delegate_requires_owner_auth
  \/ test = "test_revoke_delegate_not_a_delegate_returns_error" /\ test_revoke_delegate_not_a_delegate_returns_error
  \/ test = "test_revoke_delegate_requires_owner_auth" /\ test_revoke_delegate_requires_owner_auth
  \/ test = "test_is_delegate_true_after_grant" /\ test_is_delegate_true_after_grant
  \/ test = "test_is_delegate_false_after_revoke" /\ test_is_delegate_false_after_revoke
  \/ test = "test_check_delegate_ok_when_granted" /\ test_check_delegate_ok_when_granted
  \/ test = "test_get_delegates_returns_all_delegates" /\ test_get_delegates_returns_all_delegates
  \/ test = "test_revoke_removes_from_get_delegates" /\ test_revoke_removes_from_get_delegates
  \/ test = "test_link_contract_id_stores_and_emits_event" /\ test_link_contract_id_stores_and_emits_event
  \/ test = "test_link_contract_id_twice_returns_already_set" /\ test_link_contract_id_twice_returns_already_set
  \/ test = "test_link_contract_id_requires_admin_auth" /\ test_link_contract_id_requires_admin_auth
  \/ test = "test_grant_and_revoke_work_without_initialize" /\ test_grant_and_revoke_work_without_initialize
  \/ test = "test_too_many_delegates_per_owner_rejected" /\ test_too_many_delegates_per_owner_rejected
=============================================================================
