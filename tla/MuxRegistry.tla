---------------------------- MODULE MuxRegistry ----------------------------
(***************************************************************************)
(* contracts/mux-registry: the versions of the protocol's contracts by     *)
(* name, with metadata for some.                                           *)
(*                                                                         *)
(* The file holds two implementations one inside the other. This is the    *)
(* one its unit tests call, which keeps everything in instance storage and *)
(* bounds the list of names; of the texts of register_with_metadata the    *)
(* one that stores a ContractMetadata.                                     *)
(*                                                                         *)
(* One action per entrypoint that changes state and can return Ok; an      *)
(* entrypoint that returns Err is rolled back by the host, so the early    *)
(* returns are exactly the guards. Versions and descriptions are values    *)
(* that are stored and compared.                                           *)
(*                                                                         *)
(* History: signers is who signed the latest invocation.                   *)
(***************************************************************************)
EXTENDS Naturals, SequencesExt

CONSTANTS
  Admin, Name,
  Version,
  Meta,          \* description, author and repository, as one value
  Absent,        \* no entry
  MaxContracts   \* MAX_CONTRACTS

ContractMetadata == [version : Version, about : Meta]

\* What the constants must satisfy.
Assumptions ==
  /\ Absent \notin Admin \cup Version \cup ContractMetadata
  /\ MaxContracts \in Nat

VARIABLES
  admin,             \* DataKey::Admin
  contract_names,     \* DataKey::Names, a Vec
  versions,          \* DataKey::Version(name)
  contract_metadata, \* DataKey::Metadata(name)
  signers            \* history

vars == <<admin, contract_names, versions, contract_metadata, signers>>

Init ==
  /\ admin = Absent
  /\ contract_names = <<>>
  /\ versions = [n \in Name |-> Absent]
  /\ contract_metadata = [n \in Name |-> Absent]
  /\ signers = {}

-----------------------------------------------------------------------------
(* Helpers and views. *)

RequireAdmin == admin # Absent /\ signers' = {admin}

GetVersion(n) == versions[n]

CheckVersion(n, v) == versions[n] # Absent /\ versions[n] = v

GetMetadata(n) == contract_metadata[n]

ListContracts == contract_names

\* A name is listed when it is used for the first time, if there is room.
Named(n) ==
  \/ Contains(contract_names, n) /\ contract_names' = contract_names
  \/ ~Contains(contract_names, n) /\ Len(contract_names) < MaxContracts /\ contract_names' = Append(contract_names, n)

-----------------------------------------------------------------------------
(* Entrypoints. *)

Initialize(a) ==
  /\ admin = Absent
  /\ signers' = {a}
  /\ admin' = a
  /\ contract_names' = <<>>
  /\ UNCHANGED <<versions, contract_metadata>>

\* Upgrade changes the code alone.
Upgrade ==
  /\ RequireAdmin
  /\ UNCHANGED <<admin, contract_names, versions, contract_metadata>>

\* Metadata stored for an earlier version stays.
Register(n, v) ==
  /\ RequireAdmin
  /\ Named(n)
  /\ versions' = [versions EXCEPT ![n] = v]
  /\ UNCHANGED <<admin, contract_metadata>>

RegisterWithMetadata(n, v, m) ==
  /\ RequireAdmin
  /\ Named(n)
  /\ versions' = [versions EXCEPT ![n] = v]
  /\ contract_metadata' = [contract_metadata EXCEPT ![n] = [version |-> v, about |-> m]]
  /\ UNCHANGED admin

-----------------------------------------------------------------------------

Next ==
  \/ \E a \in Admin : Initialize(a)
  \/ Upgrade
  \/ \E n \in Name, v \in Version : Register(n, v)
  \/ \E n \in Name, v \in Version, m \in Meta : RegisterWithMetadata(n, v, m)

Spec == Init /\ [][Next]_vars

-----------------------------------------------------------------------------
(* Properties. *)

\* Types of every stored value (DataKey).
TypeOK ==
  /\ admin \in Admin \cup {Absent}
  /\ contract_names \in Seq(Name)
  /\ versions \in [Name -> Version \cup {Absent}]
  /\ contract_metadata \in [Name -> ContractMetadata \cup {Absent}]
  /\ signers \subseteq Admin \cup {Absent}

\* list_contracts, which other contracts call to find out whether a registry
\* answers, names exactly the contracts that have a version, each once, within
\* the cap; only those have metadata (register, register_with_metadata).
ContractsNamed ==
  /\ IsInjective(contract_names)
  /\ ToSet(contract_names) = {n \in Name : versions[n] # Absent}
  /\ Len(contract_names) <= MaxContracts
  /\ \A n \in Name : contract_metadata[n] # Absent => Contains(contract_names, n)

\* Nothing is registered without the signature of the admin, registered names
\* are never taken back or reordered, and metadata is stored together with
\* the version it speaks of (register, register_with_metadata).
AdminRegisters ==
  [][/\ IsPrefix(contract_names, contract_names')
     /\ <<contract_names, versions, contract_metadata>>' # <<contract_names, versions, contract_metadata>>
          => signers' = {admin}
     /\ \A n \in Name : contract_metadata'[n] # contract_metadata[n] =>
          contract_metadata'[n].version = versions'[n]]_vars

Contracts == INSTANCE Directory WITH
  Holder <- {"admin"}, NoRecord <- <<Absent, Absent>>, Cap <- MaxContracts,
  records <- [h \in {"admin"} |-> [n \in Name |-> <<versions[n], contract_metadata[n]>>]]

\* The registered contracts with their metadata are a directory of one holder,
\* bounded by MAX_CONTRACTS: registering one name leaves every other as it was
\* (register, register_with_metadata).
ContractsImplementDirectory == Contracts!Spec
=============================================================================
