----------------------- MODULE MuxWalletRegistryTests -----------------------
(***************************************************************************)
(* The unit tests of contracts/mux-wallet-registry.                        *)
(***************************************************************************)
EXTENDS MuxWalletRegistry, Replay

Asserts(p) == p /\ UNCHANGED vars

\* The call answers with an error and is rolled back.
Fails(call) == ~ENABLED call /\ UNCHANGED vars

\* No mocked authorizations.
FailsUnsigned(call) == ~ENABLED (call /\ signers' = {}) /\ UNCHANGED vars

\* Another contract, with a storage of its own.
Redeployed ==
  /\ owner' = Absent
  /\ names' = <<>>
  /\ wallets' = [n \in Name |-> Absent]
  /\ wallet_metadata' = [n \in Name |-> Absent]
  /\ signers' = {}

\* env.as_contract: the test writes the storage.
SetOwner(o) ==
  /\ owner' = o
  /\ UNCHANGED <<names, wallets, wallet_metadata, signers>>

NoWallet(n) == GetWallet(n) = Absent

test_double_initialize_fails ==
  \/ At(1) /\ Initialize("owner")
  \/ End(2) /\ Fails(Initialize("owner"))

test_double_initialize_with_different_owner_fails ==
  \/ At(1) /\ Initialize("owner")
  \/ At(2) /\ Fails(Initialize("other"))
  \/ End(3) /\ RegisterWallet("alice", "w1") /\ GetWallet("alice")' = "w1"

test_register_wallet_update_emits_wlt_reg_event ==
  \/ At(1) /\ Initialize("owner")
  \/ At(2) /\ RegisterWallet("bob", "w1")
  \/ End(3) /\ RegisterWallet("bob", "w2") /\ GetWallet("bob")' = "w2"

test_register_wallet_with_metadata_update_emits_wlt_meta_event ==
  \/ At(1) /\ Initialize("owner")
  \/ At(2) /\ RegisterWalletWithMetadata("alice", "w1", "v1")
  \/ At(3) /\ RegisterWalletWithMetadata("alice", "w1", "v2")
  \/ End(4) /\ Asserts(GetMetadata("alice") = "v2" /\ GetWallet("alice") = "w1")

\* For a cap of three.
test_register_wallet_caps_names ==
  \/ At(1) /\ Initialize("owner")
  \/ At(2) /\ RegisterWallet("alice", "w1")
  \/ At(3) /\ RegisterWallet("bob", "w1")
  \/ At(4) /\ RegisterWallet("carol", "w1")
  \/ End(5) /\ Fails(RegisterWallet("overflow", "w2"))

test_register_wallet_before_init_returns_not_initialized ==
  End(1) /\ Fails(RegisterWallet("alice", "w1"))

test_get_unknown_name_after_registrations ==
  \/ At(1) /\ Initialize("owner")
  \/ At(2) /\ RegisterWallet("alice", "w1")
  \/ End(3) /\ Asserts(NoWallet("bob") /\ ~NoWallet("alice"))

\* For a cap of three.
test_register_wallet_with_metadata_caps_names ==
  \/ At(1) /\ Initialize("owner")
  \/ At(2) /\ RegisterWallet("alice", "w1")
  \/ At(3) /\ RegisterWallet("bob", "w1")
  \/ At(4) /\ RegisterWallet("carol", "w1")
  \/ End(5) /\ Fails(RegisterWalletWithMetadata("overflow", "w2", "v1"))

test_register_wallet_with_metadata_no_duplicate_names ==
  \/ At(1) /\ Initialize("owner")
  \/ At(2) /\ RegisterWallet("alice", "w1")
  \/ At(3) /\ RegisterWalletWithMetadata("alice", "w1", "v1")
  \/ End(4) /\ Asserts(ListWallets = <<"alice">>)

test_register_wallet_with_metadata_before_init_returns_not_initialized ==
  End(1) /\ Fails(RegisterWalletWithMetadata("alice", "w1", "v1"))

test_register_wallet_requires_owner_auth ==
  \/ At(1) /\ SetOwner("owner")
  \/ At(2) /\ FailsUnsigned(RegisterWallet("alice", "w1"))
  \/ End(3) /\ Asserts(NoWallet("alice") /\ ListWallets = <<>>)

test_register_wallet_with_metadata_requires_owner_auth ==
  \/ At(1) /\ SetOwner("owner")
  \/ At(2) /\ FailsUnsigned(RegisterWalletWithMetadata("bob", "w1", "v1"))
  \/ End(3) /\ Asserts(NoWallet("bob") /\ GetMetadata("bob") = Absent /\ ListWallets = <<>>)

test_register_wallet_rejects_non_owner_caller ==
  \/ At(1) /\ SetOwner("owner")
  \/ At(2) /\ FailsUnsigned(RegisterWallet("carol", "w1"))
  \/ End(3) /\ Asserts(NoWallet("carol") /\ ListWallets = <<>>)

test_register_wallet_with_metadata_rejects_non_owner_caller ==
  \/ At(1) /\ SetOwner("owner")
  \/ At(2) /\ FailsUnsigned(RegisterWalletWithMetadata("bob", "w1", "v1"))
  \/ End(3) /\ Asserts(NoWallet("bob") /\ GetMetadata("bob") = Absent /\ ListWallets = <<>>)

test_get_metadata_missing_after_register_without_metadata ==
  \/ At(1) /\ Initialize("owner")
  \/ At(2) /\ RegisterWallet("bob", "w1") /\ GetWallet("bob")' = "w1"
  \/ End(3) /\ Asserts(GetMetadata("bob") = Absent)

test_register_then_register_with_metadata_interop ==
  \/ At(1) /\ Initialize("owner")
  \/ At(2) /\ RegisterWallet("alice", "w1") /\ GetWallet("alice")' = "w1"
  \/ At(3) /\ Asserts(GetMetadata("alice") = Absent)
  \/ At(4) /\ RegisterWalletWithMetadata("alice", "w1", "v1")
  \/ End(5) /\ Asserts(GetWallet("alice") = "w1" /\ GetMetadata("alice") = "v1")

test_register_wallet_overwrites_address_for_existing_name ==
  \/ At(1) /\ Initialize("owner")
  \/ At(2) /\ RegisterWallet("alice", "w1") /\ GetWallet("alice")' = "w1"
  \/ At(3) /\ RegisterWallet("alice", "w2") /\ GetWallet("alice")' = "w2"
  \/ End(4) /\ Asserts(ListWallets = <<"alice">>)

test_register_wallet_with_metadata_overwrites_address ==
  \/ At(1) /\ Initialize("owner")
  \/ At(2) /\ RegisterWalletWithMetadata("bob", "w1", "v1") /\ GetWallet("bob")' = "w1"
  \/ At(3) /\ RegisterWalletWithMetadata("bob", "w2", "v1") /\ GetWallet("bob")' = "w2"
  \/ End(4) /\ Asserts(ListWallets = <<"bob">>)

\* The metadata of the wallet replaced stays.
test_register_wallet_after_metadata_path_overwrites_address ==
  \/ At(1) /\ Initialize("owner")
  \/ At(2) /\ RegisterWalletWithMetadata("carol", "w1", "v1") /\ GetWallet("carol")' = "w1"
  \/ At(3) /\ RegisterWallet("carol", "w2") /\ GetWallet("carol")' = "w2"
  \/ End(4) /\ Asserts(GetMetadata("carol") = "v1" /\ ListWallets = <<"carol">>)

\* Three names instead of four.
test_list_wallets_reflects_all_registered_names ==
  \/ At(1) /\ Initialize("owner")
  \/ At(2) /\ RegisterWallet("alice", "w1")
  \/ At(3) /\ RegisterWallet("bob", "w2")
  \/ At(4) /\ RegisterWallet("carol", "w1")
  \/ At(5) /\ Asserts(Len(ListWallets) = 3 /\ ToSet(ListWallets) = {"alice", "bob", "carol"})
  \/ End(6) /\ Asserts(<<GetWallet("alice"), GetWallet("bob"), GetWallet("carol")>> = <<"w1", "w2", "w1">>)

test_list_wallets_on_uninitialised_contract_returns_empty ==
  End(1) /\ Asserts(ListWallets = <<>>)

test_multiple_wallets_round_trip ==
  \/ At(1) /\ Initialize("owner")
  \/ At(2) /\ RegisterWallet("alice", "w1")
  \/ At(3) /\ RegisterWalletWithMetadata("bob", "w2", "v1")
  \/ At(4) /\ RegisterWallet("carol", "w1")
  \/ At(5) /\ Asserts(<<GetWallet("alice"), GetWallet("bob"), GetWallet("carol")>> = <<"w1", "w2", "w1">>)
  \/ End(6) /\ Asserts(Len(ListWallets) = 3 /\ ToSet(ListWallets) = {"alice", "bob", "carol"})

\* The last two steps are about a second contract.
test_get_wallet_requires_no_auth ==
  \/ At(1) /\ Initialize("owner")
  \/ At(2) /\ RegisterWallet("alice", "w1")
  \/ At(3) /\ Redeployed
  \/ End(4) /\ Asserts(NoWallet("bob"))

test_second_initialize_returns_already_initialized_without_event ==
  \/ At(1) /\ Initialize("owner")
  \/ End(2) /\ Fails(Initialize("owner"))

test_register_wallet_with_metadata_stores_metadata_and_emits_wlt_meta ==
  \/ At(1) /\ Initialize("owner")
  \/ At(2) /\ RegisterWalletWithMetadata("carol", "w1", "v1")
  \/ End(3) /\ Asserts(GetWallet("carol") = "w1" /\ GetMetadata("carol") = "v1")

-----------------------------------------------------------------------------

Suite ==
  {"test_double_initialize_fails", "test_double_initialize_with_different_owner_fails",
   "test_register_wallet_update_emits_wlt_reg_event",
   "test_register_wallet_with_metadata_update_emits_wlt_meta_event",
   "test_register_wallet_caps_names",
   "test_register_wallet_before_init_returns_not_initialized",
   "test_get_unknown_name_after_registrations",
   "test_register_wallet_with_metadata_caps_names",
   "test_register_wallet_with_metadata_no_duplicate_names",
   "test_register_wallet_with_metadata_before_init_returns_not_initialized",
   "test_register_wallet_requires_owner_auth",
   "test_register_wallet_with_metadata_requires_owner_auth",
   "test_register_wallet_rejects_non_owner_caller",
   "test_register_wallet_with_metadata_rejects_non_owner_caller",
   "test_get_metadata_missing_after_register_without_metadata",
   "test_register_then_register_with_metadata_interop",
   "test_register_wallet_overwrites_address_for_existing_name",
   "test_register_wallet_with_metadata_overwrites_address",
   "test_register_wallet_after_metadata_path_overwrites_address",
   "test_list_wallets_reflects_all_registered_names",
   "test_list_wallets_on_uninitialised_contract_returns_empty",
   "test_multiple_wallets_round_trip", "test_get_wallet_requires_no_auth",
   "test_second_initialize_returns_already_initialized_without_event",
   "test_register_wallet_with_metadata_stores_metadata_and_emits_wlt_meta"}

Tests ==
  \/ test = "test_double_initialize_fails" /\ test_double_initialize_fails
  \/ test = "test_double_initialize_with_different_owner_fails" /\ test_double_initialize_with_different_owner_fails
  \/ test = "test_register_wallet_update_emits_wlt_reg_event" /\ test_register_wallet_update_emits_wlt_reg_event
  \/ test = "test_register_wallet_with_metadata_update_emits_wlt_meta_event" /\ test_register_wallet_with_metadata_update_emits_wlt_meta_event
  \/ test = "test_register_wallet_caps_names" /\ test_register_wallet_caps_names
  \/ test = "test_register_wallet_before_init_returns_not_initialized" /\ test_register_wallet_before_init_returns_not_initialized
  \/ test = "test_get_unknown_name_after_registrations" /\ test_get_unknown_name_after_registrations
  \/ test = "test_register_wallet_with_metadata_caps_names" /\ test_register_wallet_with_metadata_caps_names
  \/ test = "test_register_wallet_with_metadata_no_duplicate_names" /\ test_register_wallet_with_metadata_no_duplicate_names
  \/ test = "test_register_wallet_with_metadata_before_init_returns_not_initialized" /\ test_register_wallet_with_metadata_before_init_returns_not_initialized
  \/ test = "test_register_wallet_requires_owner_auth" /\ test_register_wallet_requires_owner_auth
  \/ test = "test_register_wallet_with_metadata_requires_owner_auth" /\ test_register_wallet_with_metadata_requires_owner_auth
  \/ test = "test_register_wallet_rejects_non_owner_caller" /\ test_register_wallet_rejects_non_owner_caller
  \/ test = "test_register_wallet_with_metadata_rejects_non_owner_caller" /\ test_register_wallet_with_metadata_rejects_non_owner_caller
  \/ test = "test_get_metadata_missing_after_register_without_metadata" /\ test_get_metadata_missing_after_register_without_metadata
  \/ test = "test_register_then_register_with_metadata_interop" /\ test_register_then_register_with_metadata_interop
  \/ test = "test_register_wallet_overwrites_address_for_existing_name" /\ test_register_wallet_overwrites_address_for_existing_name
  \/ test = "test_register_wallet_with_metadata_overwrites_address" /\ test_register_wallet_with_metadata_overwrites_address
  \/ test = "test_register_wallet_after_metadata_path_overwrites_address" /\ test_register_wallet_after_metadata_path_overwrites_address
  \/ test = "test_list_wallets_reflects_all_registered_names" /\ test_list_wallets_reflects_all_registered_names
  \/ test = "test_list_wallets_on_uninitialised_contract_returns_empty" /\ test_list_wallets_on_uninitialised_contract_returns_empty
  \/ test = "test_multiple_wallets_round_trip" /\ test_multiple_wallets_round_trip
  \/ test = "test_get_wallet_requires_no_auth" /\ test_get_wallet_requires_no_auth
  \/ test = "test_second_initialize_returns_already_initialized_without_event" /\ test_second_initialize_returns_already_initialized_without_event
  \/ test = "test_register_wallet_with_metadata_stores_metadata_and_emits_wlt_meta" /\ test_register_wallet_with_metadata_stores_metadata_and_emits_wlt_meta
=============================================================================
