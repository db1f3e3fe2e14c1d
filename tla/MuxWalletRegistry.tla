------------------------- MODULE MuxWalletRegistry -------------------------
(***************************************************************************)
(* contracts/mux-wallet-registry: the owner names wallets and may describe *)
(* them.                                                                   *)
(*                                                                         *)
(* One action per entrypoint that changes state and can return Ok; an      *)
(* entrypoint that returns Err is rolled back by the host, so the early    *)
(* returns are exactly the guards. The views are operators.                *)
(*                                                                         *)
(* History: signers is who signed the latest invocation.                   *)
(***************************************************************************)
EXTENDS Naturals, SequencesExt

CONSTANTS
  Owner,      \* addresses that initialise the contract
  Name, Wallet,
  Meta,       \* label and description, as one value
  Absent,     \* no entry
  MaxWallets  \* MAX_WALLETS

\* What the constants must satisfy.
Assumptions ==
  /\ Absent \notin Owner \cup Wallet \cup Meta
  /\ MaxWallets \in Nat

VARIABLES
  owner,           \* DataKey::Owner
  names,           \* DataKey::Names, a Vec
  wallets,         \* DataKey::Wallet(name)
  wallet_metadata, \* DataKey::Metadata(name)
  signers          \* history

vars == <<owner, names, wallets, wallet_metadata, signers>>

Init ==
  /\ owner = Absent
  /\ names = <<>>
  /\ wallets = [n \in Name |-> Absent]
  /\ wallet_metadata = [n \in Name |-> Absent]
  /\ signers = {}

-----------------------------------------------------------------------------
(* Helpers and views. The definitions marked "Mutant" are plausible slips  *)
(* in the operator that follows; no specification here uses them.          *)

RequireOwner == owner # Absent /\ signers' = {owner}

GetWallet(n) == wallets[n]

GetMetadata(n) == wallet_metadata[n]

ListWallets == names

\* Mutant: a new name is not listed.
NamedForgotten(n) == (Contains(names, n) \/ Len(names) < MaxWallets) /\ names' = names

\* A name is listed when it is used for the first time, if there is room.
Named(n) ==
  \/ Contains(names, n) /\ names' = names
  \/ ~Contains(names, n) /\ Len(names) < MaxWallets /\ names' = Append(names, n)

-----------------------------------------------------------------------------
(* Entrypoints. *)

Initialize(o) ==
  /\ owner = Absent
  /\ signers' = {o}
  /\ owner' = o
  /\ names' = <<>>
  /\ UNCHANGED <<wallets, wallet_metadata>>

\* Upgrade changes the code alone.
Upgrade ==
  /\ RequireOwner
  /\ UNCHANGED <<owner, names, wallets, wallet_metadata>>

\* A description given with an earlier wallet of this name stays.
RegisterWallet(n, w) ==
  /\ RequireOwner
  /\ Named(n)
  /\ wallets' = [wallets EXCEPT ![n] = w]
  /\ UNCHANGED <<owner, wallet_metadata>>

RegisterWalletWithMetadata(n, w, m) ==
  /\ RequireOwner
  /\ Named(n)
  /\ wallets' = [wallets EXCEPT ![n] = w]
  /\ wallet_metadata' = [wallet_metadata EXCEPT ![n] = m]
  /\ UNCHANGED owner

-----------------------------------------------------------------------------

Next ==
  \/ \E o \in Owner : Initialize(o)
  \/ Upgrade
  \/ \E n \in Name, w \in Wallet : RegisterWallet(n, w)
  \/ \E n \in Name, w \in Wallet, m \in Meta : RegisterWalletWithMetadata(n, w, m)

Spec == Init /\ [][Next]_vars

-----------------------------------------------------------------------------
(* Properties. *)

\* Types of every stored value (DataKey).
TypeOK ==
  /\ owner \in Owner \cup {Absent}
  /\ names \in Seq(Name)
  /\ wallets \in [Name -> Wallet \cup {Absent}]
  /\ wallet_metadata \in [Name -> Meta \cup {Absent}]
  /\ signers \subseteq Owner \cup {Absent}

\* The list that list_wallets returns names exactly the wallets that can be
\* looked up, each once, within the cap, and only listed names carry metadata,
\* although the two ways of registering write up to three keys
\* (register_wallet, register_wallet_with_metadata).
WalletsNamed ==
  /\ IsInjective(names)
  /\ ToSet(names) = {n \in Name : wallets[n] # Absent}
  /\ Len(names) <= MaxWallets
  /\ \A n \in Name : wallet_metadata[n] # Absent => Contains(names, n)

\* What is stored under a name.
Entry(n) == <<wallets[n], wallet_metadata[n]>>

\* Names are never taken back or reordered, nothing changes without the
\* signature of the owner, and what is stored under one name never changes
\* together with another (require_owner and both ways of registering).
OwnerNames ==
  [][/\ IsPrefix(names, names')
     /\ owner # Absent => owner' = owner
     /\ \A n \in Name : Entry(n)' # Entry(n) =>
          /\ signers' = {owner}
          /\ Contains(names', n)
          /\ \A m \in Name \ {n} : UNCHANGED Entry(m)]_vars

Wallets == INSTANCE Directory WITH
  Holder <- {"owner"}, NoRecord <- <<Absent, Absent>>, Cap <- MaxWallets,
  records <- [h \in {"owner"} |-> [n \in Name |-> Entry(n)]]

\* The named wallets with their descriptions are a directory of one holder,
\* bounded by MAX_WALLETS, although the cap is applied to the list and the two
\* kinds of records are kept apart.
WalletsImplementDirectory == Wallets!Spec
=============================================================================
