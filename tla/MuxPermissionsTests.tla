------------------------- MODULE MuxPermissionsTests ------------------------
(***************************************************************************)
(* The unit and integration tests of contracts/mux-permissions. The caps   *)
(* of 256 members and 32 roles are the two constants, here 2.              *)
(***************************************************************************)
EXTENDS MuxPermissions, Replay

Asserts(p) == p /\ UNCHANGED vars

\* The call answers with an error and is rolled back.
Fails(call) == ~ENABLED call /\ UNCHANGED vars

\* No mocked authorizations.
FailsUnsigned(call) == ~ENABLED (call /\ signers' = {}) /\ UNCHANGED vars

\* The test writes to the storage of the contract (env.as_contract).
SetAdmin(a) == admin' = a /\ signers' = {} /\ UNCHANGED <<roleVars, pending_admins, threshold,
                                                         approvals, endorsed, metadata>>

\* Another contract, with a storage of its own.
Redeployed ==
  /\ admin' = Absent
  /\ roles' = {}
  /\ account_roles' = [a \in Account |-> <<>>]
  /\ members' = [r \in Role |-> <<>>]
  /\ permissions' = [r \in Role |-> {}]
  /\ signers' = {}
  /\ UNCHANGED <<recreated, pending_admins, threshold, approvals, endorsed, metadata>>

setup == At(1) /\ Initialize("admin")

\* The two calls most tests go on with.
Created(r, ps) == At(2) /\ CreateRole(r, ps)
Granted(r) == At(3) /\ GrantRole("user", r)

Holds(a, r) == Contains(account_roles[a], r)
Pending(c) == Contains(pending_admins, c)

test_role_lifecycle_emits_events ==
  \/ setup \/ Created("editor", {"write"}) \/ Granted("editor")
  \/ End(4) /\ RevokeRole("user", "editor")

test_role_member_cap_enforced ==
  \/ setup \/ Created("capped", {}) \/ Granted("capped")
  \/ At(4) /\ GrantRole("user1", "capped")
  \/ End(5) /\ Fails(GrantRole("user2", "capped"))

test_roles_per_account_cap_enforced ==
  \/ setup \/ Created("r0", {}) \/ Granted("r0")
  \/ At(4) /\ CreateRole("r1", {})
  \/ At(5) /\ GrantRole("user", "r1")
  \/ At(6) /\ CreateRole("overflow", {})
  \/ End(7) /\ Fails(GrantRole("user", "overflow"))

test_upgrade_requires_admin_auth ==
  \/ At(1) /\ SetAdmin("admin")
  \/ End(2) /\ FailsUnsigned(Upgrade)

test_upgrade_before_initialize_returns_not_initialized == End(1) /\ Fails(Upgrade)

test_create_and_grant_role ==
  \/ setup \/ Created("operator", {"transfer"}) \/ Granted("operator")
  \/ End(4) /\ Asserts(HasPermission("user", "transfer") /\ Holds("user", "operator"))

test_has_permission_denial_emits_no_event ==
  \/ setup
  \/ End(2) /\ Asserts(~HasPermission("user", "transfer"))

test_has_permission_grant_still_emits_perm_ok ==
  \/ setup \/ Created("editor", {"write"}) \/ Granted("editor")
  \/ End(4) /\ Asserts(HasPermission("user", "write"))

test_revoke_role_removes_permission ==
  \/ setup \/ Created("viewer", {"read"}) \/ Granted("viewer")
  \/ At(4) /\ Asserts(HasPermission("user", "read"))
  \/ End(5) /\ RevokeRole("user", "viewer") /\ ~HasPermission("user", "read")'

test_initialize_after_setup_returns_already_initialized ==
  \/ setup
  \/ End(2) /\ Fails(Initialize("admin"))

test_propose_admin_idempotent_no_duplicate_event ==
  \/ setup
  \/ At(2) /\ ProposeAdmin("candidate")
  \/ End(3) /\ ProposeAdmin("candidate") /\ UNCHANGED <<pending_admins, approvals>>

test_approve_admin_emits_approval_event ==
  \/ setup
  \/ At(2) /\ SetAdminThreshold(2)
  \/ At(3) /\ ProposeAdmin("candidate")
  \/ End(4) /\ ApproveAdmin("admin", "candidate") /\ UNCHANGED admin

test_approve_admin_emits_promotion_event ==
  \/ setup
  \/ At(2) /\ SetAdminThreshold(1)
  \/ At(3) /\ ProposeAdmin("candidate")
  \/ End(4) /\ ApproveAdmin("admin", "candidate") /\ admin' = "candidate"

test_approve_admin_duplicate_approver_fails ==
  \/ setup
  \/ At(2) /\ SetAdminThreshold(2)
  \/ At(3) /\ ProposeAdmin("candidate")
  \/ At(4) /\ ApproveAdmin("admin", "candidate")
  \/ End(5) /\ Fails(ApproveAdmin("admin", "candidate"))

test_approve_nonexistent_pending_admin_fails ==
  \/ setup
  \/ End(2) /\ Fails(ApproveAdmin("admin", "ghost"))

test_get_admin_threshold_default ==
  \/ setup
  \/ End(2) /\ Asserts(threshold = 1)

test_get_admin_threshold_after_set ==
  \/ setup
  \/ End(2) /\ SetAdminThreshold(3) /\ threshold' = 3

test_grant_role_emits_event_with_correct_topics ==
  \/ setup \/ Created("editor", {"write"})
  \/ End(3) /\ GrantRole("user", "editor")

test_revoke_role_emits_event_with_correct_topics ==
  \/ setup \/ Created("editor", {"write"}) \/ Granted("editor")
  \/ End(4) /\ RevokeRole("user", "editor")

test_grant_role_duplicate_idempotent ==
  \/ setup \/ Created("editor", {"write"}) \/ Granted("editor")
  \/ End(4) /\ GrantRole("user", "editor") /\ UNCHANGED roleVars

test_revoke_role_not_member_fails ==
  \/ setup \/ Created("editor", {"write"})
  \/ End(3) /\ Fails(RevokeRole("user", "editor"))

test_revoke_role_nonexistent_role_fails ==
  \/ setup
  \/ End(2) /\ Fails(RevokeRole("user", "ghost"))

test_revoke_role_cleans_account_roles ==
  \/ setup \/ Created("editor", {"write"}) \/ Granted("editor")
  \/ At(4) /\ Asserts(Holds("user", "editor"))
  \/ End(5) /\ RevokeRole("user", "editor") /\ ~Holds("user", "editor")'

test_grant_role_without_admin_auth_fails ==
  \/ setup
  \/ End(2) /\ Fails(GrantRole("user", "editor"))

\* All authorizations are mocked: despite its name the call succeeds.
test_revoke_role_without_admin_auth_fails ==
  \/ setup \/ Created("editor", {"write"}) \/ Granted("editor")
  \/ End(4) /\ RevokeRole("user", "editor")

test_grant_role_updates_multiple_accounts ==
  \/ setup \/ Created("editor", {"write"})
  \/ At(3) /\ GrantRole("user1", "editor")
  \/ At(4) /\ GrantRole("user2", "editor")
  \/ At(5) /\ Asserts(\A u \in {"user1", "user2"} : Holds(u, "editor") /\ HasPermission(u, "write"))
  \/ At(6) /\ RevokeRole("user1", "editor")
  \/ End(7) /\ Asserts(~HasPermission("user1", "write") /\ HasPermission("user2", "write"))

test_set_and_get_metadata ==
  \/ setup
  \/ End(2) /\ SetMetadata("v1") /\ metadata' = "v1"

test_set_metadata_overwrites_previous ==
  \/ setup
  \/ At(2) /\ SetMetadata("v1")
  \/ End(3) /\ SetMetadata("v2") /\ metadata' = "v2"

test_set_metadata_emits_event ==
  \/ setup
  \/ End(2) /\ SetMetadata("v1")

test_permissions_isolated_across_contract_instances ==
  \/ setup \/ Created("editor", {}) \/ Granted("editor")
  \/ At(4) /\ Redeployed
  \/ At(5) /\ Initialize("admin_b")
  \/ End(6) /\ Asserts(account_roles["user"] = <<>>)

test_full_rbac_lifecycle ==
  \/ setup \/ Created("operator", {"execute"}) \/ Granted("operator")
  \/ At(4) /\ Asserts(HasPermission("user", "execute"))
  \/ At(5) /\ RevokeRole("user", "operator")
  \/ End(6) /\ Asserts(~HasPermission("user", "execute"))

test_multisig_admin_promotion_transfers_control ==
  \/ setup
  \/ At(2) /\ SetAdminThreshold(2)
  \/ At(3) /\ CreateRole("sadmin", {})
  \/ At(4) /\ GrantRole("second", "sadmin")
  \/ At(5) /\ ProposeAdmin("candidate")
  \/ At(6) /\ ApproveAdmin("admin", "candidate")
  \/ At(7) /\ Asserts(admin = "admin" /\ Pending("candidate"))
  \/ At(8) /\ ApproveAdmin("second", "candidate")
  \/ End(9) /\ Asserts(admin = "candidate" /\ ~Pending("candidate"))

test_admin_rotation_calls_require_admin_auth ==
  \/ At(1) /\ SetAdmin("admin")
  \/ At(2) /\ FailsUnsigned(ProposeAdmin("candidate"))
  \/ At(3) /\ Asserts(pending_admins = <<>>)
  \/ End(4) /\ FailsUnsigned(ApproveAdmin("admin", "candidate"))

test_multiple_pending_admin_candidates_are_independent ==
  \/ setup
  \/ At(2) /\ SetAdminThreshold(2)
  \/ At(3) /\ ProposeAdmin("candidate_a")
  \/ At(4) /\ ProposeAdmin("candidate_b") /\ (Pending("candidate_a") /\ Pending("candidate_b"))'
  \/ At(5) /\ ApproveAdmin("admin", "candidate_a")
  \/ At(6) /\ ApproveAdmin("second", "candidate_a") /\ admin' = "candidate_a"
  \/ End(7) /\ Asserts(~Pending("candidate_a") /\ Pending("candidate_b"))

-----------------------------------------------------------------------------

Suite ==
  {"test_role_lifecycle_emits_events", "test_role_member_cap_enforced",
   "test_roles_per_account_cap_enforced", "test_upgrade_requires_admin_auth",
   "test_upgrade_before_initialize_returns_not_initialized", "test_create_and_grant_role",
   "test_has_permission_denial_emits_no_event",
   "test_has_permission_grant_still_emits_perm_ok", "test_revoke_role_removes_permission",
   "test_initialize_after_setup_returns_already_initialized",
   "test_propose_admin_idempotent_no_duplicate_event",
   "test_approve_admin_emits_approval_event", "test_approve_admin_emits_promotion_event",
   "test_approve_admin_duplicate_approver_fails",
   "test_approve_nonexistent_pending_admin_fails", "test_get_admin_threshold_default",
   "test_get_admin_threshold_after_set", "test_grant_role_emits_event_with_correct_topics",
   "test_revoke_role_emits_event_with_correct_topics",
   "test_grant_role_duplicate_idempotent", "test_revoke_role_not_member_fails",
   "test_revoke_role_nonexistent_role_fails", "test_revoke_role_cleans_account_roles",
   "test_grant_role_without_admin_auth_fails", "test_revoke_role_without_admin_auth_fails",
   "test_grant_role_updates_multiple_accounts", "test_set_and_get_metadata",
   "test_set_metadata_overwrites_previous", "test_set_metadata_emits_event",
   "test_permissions_isolated_across_contract_instances", "test_full_rbac_lifecycle",
   "test_multisig_admin_promotion_transfers_control",
   "test_admin_rotation_calls_require_admin_auth",
   "test_multiple_pending_admin_candidates_are_independent"}

Tests ==
  \/ test = "test_role_lifecycle_emits_events" /\ test_role_lifecycle_emits_events
  \/ test = "test_role_member_cap_enforced" /\ test_role_member_cap_enforced
  \/ test = "test_roles_per_account_cap_enforced" /\ test_roles_per_account_cap_enforced
  \/ test = "test_upgrade_requires_admin_auth" /\ test_upgrade_requires_admin_auth
  \/ test = "test_upgrade_before_initialize_returns_not_initialized" /\ test_upgrade_before_initialize_returns_not_initialized
  \/ test = "test_create_and_grant_role" /\ test_create_and_grant_role
  \/ test = "test_has_permission_denial_emits_no_event" /\ test_has_permission_denial_emits_no_event
  \/ test = "test_has_permission_grant_still_emits_perm_ok" /\ test_has_permission_grant_still_emits_perm_ok
  \/ test = "test_revoke_role_removes_permission" /\ test_revoke_role_removes_permission
  \/ test = "test_initialize_after_setup_returns_already_initialized" /\ test_initialize_after_setup_returns_already_initialized
  \/ test = "test_propose_admin_idempotent_no_duplicate_event" /\ test_propose_admin_idempotent_no_duplicate_event
  \/ test = "test_approve_admin_emits_approval_event" /\ test_approve_admin_emits_approval_event
  \/ test = "test_approve_admin_emits_promotion_event" /\ test_approve_admin_emits_promotion_event
  \/ test = "test_approve_admin_duplicate_approver_fails" /\ test_approve_admin_duplicate_approver_fails
  \/ test = "test_approve_nonexistent_pending_admin_fails" /\ test_approve_nonexistent_pending_admin_fails
  \/ test = "test_get_admin_threshold_default" /\ test_get_admin_threshold_default
  \/ test = "test_get_admin_threshold_after_set" /\ test_get_admin_threshold_after_set
  \/ test = "test_grant_role_emits_event_with_correct_topics" /\ test_grant_role_emits_event_with_correct_topics
  \/ test = "test_revoke_role_emits_event_with_correct_topics" /\ test_revoke_role_emits_event_with_correct_topics
  \/ test = "test_grant_role_duplicate_idempotent" /\ test_grant_role_duplicate_idempotent
  \/ test = "test_revoke_role_not_member_fails" /\ test_revoke_role_not_member_fails
  \/ test = "test_revoke_role_nonexistent_role_fails" /\ test_revoke_role_nonexistent_role_fails
  \/ test = "test_revoke_role_cleans_account_roles" /\ test_revoke_role_cleans_account_roles
  \/ test = "test_grant_role_without_admin_auth_fails" /\ test_grant_role_without_admin_auth_fails
  \/ test = "test_revoke_role_without_admin_auth_fails" /\ test_revoke_role_without_admin_auth_fails
  \/ test = "test_grant_role_updates_multiple_accounts" /\ test_grant_role_updates_multiple_accounts
  \/ test = "test_set_and_get_metadata" /\ test_set_and_get_metadata
  \/ test = "test_set_metadata_overwrites_previous" /\ test_set_metadata_overwrites_previous
  \/ test = "test_set_metadata_emits_event" /\ test_set_metadata_emits_event
  \/ test = "test_permissions_isolated_across_contract_instances" /\ test_permissions_isolated_across_contract_instances
  \/ test = "test_full_rbac_lifecycle" /\ test_full_rbac_lifecycle
  \/ test = "test_multisig_admin_promotion_transfers_control" /\ test_multisig_admin_promotion_transfers_control
  \/ test = "test_admin_rotation_calls_require_admin_auth" /\ test_admin_rotation_calls_require_admin_auth
  \/ test = "test_multiple_pending_admin_candidates_are_independent" /\ test_multiple_pending_admin_candidates_are_independent
=============================================================================
