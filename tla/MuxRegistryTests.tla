-------------------------- MODULE MuxRegistryTests --------------------------
(***************************************************************************)
(* The unit tests of contracts/mux-registry.                               *)
(***************************************************************************)
EXTENDS MuxRegistry, Replay

Asserts(p) == p /\ UNCHANGED vars

\* The call answers with an error and is rolled back.
Fails(call) == ~ENABLED call /\ UNCHANGED vars

\* No mocked authorizations.
FailsUnsigned(call) == ~ENABLED (call /\ signers' = {}) /\ UNCHANGED vars

\* env.as_contract: the test writes the storage.
SetAdmin(a) ==
  /\ admin' = a
  /\ contract_names' = <<>>
  /\ UNCHANGED <<versions, contract_metadata, signers>>

NothingStored(n) ==
  GetVersion(n) = Absent /\ GetMetadata(n) = Absent /\ ListContracts = <<>>

test_initialize_emits_init_and_rejects_double ==
  \/ At(1) /\ Initialize("admin")
  \/ End(2) /\ Fails(Initialize("admin"))

test_register_and_get ==
  \/ At(1) /\ Initialize("admin")
  \/ At(2) /\ Register("account", "1.0.0")
  \/ End(3) /\ Asserts(GetVersion("account") = "1.0.0" /\ Contains(ListContracts, "account"))

test_register_with_metadata ==
  \/ At(1) /\ Initialize("admin")
  \/ At(2) /\ RegisterWithMetadata("account", "1.0.0", "desc")
  \/ At(3) /\ Asserts(GetMetadata("account") = [version |-> "1.0.0", about |-> "desc"])
  \/ End(4) /\ Asserts(GetVersion("account") = "1.0.0" /\ Contains(ListContracts, "account"))

test_get_metadata_missing_after_register_without_metadata ==
  \/ At(1) /\ Initialize("admin")
  \/ At(2) /\ Register("account", "1.0.0")
  \/ End(3) /\ Asserts(GetVersion("account") = "1.0.0" /\ GetMetadata("account") = Absent)

test_get_metadata_unknown_after_registrations ==
  \/ At(1) /\ Initialize("admin")
  \/ At(2) /\ RegisterWithMetadata("account", "1.0.0", "desc")
  \/ End(3) /\ Asserts(GetMetadata("batcher") = Absent /\ GetMetadata("account") # Absent)

test_metadata_update ==
  \/ At(1) /\ Initialize("admin")
  \/ At(2) /\ RegisterWithMetadata("batcher", "1.0.0", "desc")
  \/ At(3) /\ RegisterWithMetadata("batcher", "1.1.0", "desc")
  \/ End(4) /\ Asserts(GetMetadata("batcher").version = "1.1.0" /\ ListContracts = <<"batcher">>)

\* For a cap of two.
test_too_many_contracts_via_register_with_metadata ==
  \/ At(1) /\ Initialize("admin")
  \/ At(2) /\ Register("account", "1.0.0")
  \/ At(3) /\ Register("batcher", "1.0.0")
  \/ End(4) /\ Fails(RegisterWithMetadata("overflow", "1.0.0", "desc"))

\* For a cap of two.
test_too_many_contracts_via_register ==
  \/ At(1) /\ Initialize("admin")
  \/ At(2) /\ Register("account", "1.0.0")
  \/ At(3) /\ Register("batcher", "1.0.0")
  \/ End(4) /\ Fails(Register("overflow", "1.0.0"))

test_register_requires_admin_auth ==
  \/ At(1) /\ SetAdmin("admin")
  \/ At(2) /\ FailsUnsigned(Register("account", "1.0.0"))
  \/ End(3) /\ Asserts(NothingStored("account"))

test_register_with_metadata_requires_admin_auth ==
  \/ At(1) /\ SetAdmin("admin")
  \/ At(2) /\ FailsUnsigned(RegisterWithMetadata("batcher", "1.0.0", "desc"))
  \/ End(3) /\ Asserts(NothingStored("batcher"))

test_register_rejects_non_admin_caller ==
  \/ At(1) /\ SetAdmin("admin")
  \/ At(2) /\ FailsUnsigned(Register("account", "1.0.0"))
  \/ End(3) /\ Asserts(NothingStored("account"))

test_register_with_metadata_rejects_non_admin_caller ==
  \/ At(1) /\ SetAdmin("admin")
  \/ At(2) /\ FailsUnsigned(RegisterWithMetadata("account", "1.0.0", "desc"))
  \/ End(3) /\ Asserts(NothingStored("account"))

test_register_update_emits_reg_event ==
  \/ At(1) /\ Initialize("admin")
  \/ At(2) /\ Register("batcher", "1.0.0")
  \/ End(3) /\ Register("batcher", "1.1.0") /\ GetVersion("batcher")' = "1.1.0"

test_check_version_no_mutation ==
  \/ At(1) /\ Initialize("admin")
  \/ At(2) /\ Register("batcher", "1.0.0")
  \/ At(3) /\ Asserts(~CheckVersion("batcher", "1.1.0") /\ GetVersion("batcher") = "1.0.0")
  \/ End(4) /\ Asserts(CheckVersion("batcher", "1.0.0") /\ GetVersion("batcher") = "1.0.0")

\* For a cap of two.
test_register_cap_128 ==
  \/ At(1) /\ Initialize("admin")
  \/ At(2) /\ Register("account", "1.0.0")
  \/ At(3) /\ Register("batcher", "1.0.0")
  \/ End(4) /\ Fails(Register("overflow", "1.0.0"))

-----------------------------------------------------------------------------

Suite ==
  {"test_initialize_emits_init_and_rejects_double", "test_register_and_get",
   "test_register_with_metadata",
   "test_get_metadata_missing_after_register_without_metadata",
   "test_get_metadata_unknown_after_registrations", "test_metadata_update",
   "test_too_many_contracts_via_register_with_metadata",
   "test_too_many_contracts_via_register", "test_register_requires_admin_auth",
   "test_register_with_metadata_requires_admin_auth",
   "test_register_rejects_non_admin_caller",
   "test_register_with_metadata_rejects_non_admin_caller",
   "test_register_update_emits_reg_event", "test_check_version_no_mutation",
   "test_register_cap_128"}

Tests ==
  \/ test = "test_initialize_emits_init_and_rejects_double" /\ test_initialize_emits_init_and_rejects_double
  \/ test = "test_register_and_get" /\ test_register_and_get
  \/ test = "test_register_with_metadata" /\ test_register_with_metadata
  \/ test = "test_get_metadata_missing_after_register_without_metadata" /\ test_get_metadata_missing_after_register_without_metadata
  \/ test = "test_get_metadata_unknown_after_registrations" /\ test_get_metadata_unknown_after_registrations
  \/ test = "test_metadata_update" /\ test_metadata_update
  \/ test = "test_too_many_contracts_via_register_with_metadata" /\ test_too_many_contracts_via_register_with_metadata
  \/ test = "test_too_many_contracts_via_register" /\ test_too_many_contracts_via_register
  \/ test = "test_register_requires_admin_auth" /\ test_register_requires_admin_auth
  \/ test = "test_register_with_metadata_requires_admin_auth" /\ test_register_with_metadata_requires_admin_auth
  \/ test = "test_register_rejects_non_admin_caller" /\ test_register_rejects_non_admin_caller
  \/ test = "test_register_with_metadata_rejects_non_admin_caller" /\ test_register_with_metadata_rejects_non_admin_caller
  \/ test = "test_register_update_emits_reg_event" /\ test_register_update_emits_reg_event
  \/ test = "test_check_version_no_mutation" /\ test_check_version_no_mutation
  \/ test = "test_register_cap_128" /\ test_register_cap_128
=============================================================================
