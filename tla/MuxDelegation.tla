--------------------------- MODULE MuxDelegation ---------------------------
(***************************************************************************)
(* contracts/mux-delegation: owners name delegates and the permissions     *)
(* each of them has.                                                       *)
(*                                                                         *)
(* One action per entrypoint that changes state and can return Ok; an      *)
(* entrypoint that returns Err is rolled back by the host, so the early    *)
(* returns are exactly the guards. The views are operators. How long an    *)
(* entry lives is not modelled: an archived entry fails the transaction    *)
(* that reads it.                                                          *)
(*                                                                         *)
(* History: signers is who signed the latest invocation.                   *)
(***************************************************************************)
EXTENDS Naturals, SequencesExt

CONSTANTS
  Admin,                 \* addresses that initialise the contract or link it
  Owner, Delegate, Permission,
  PermissionLists,       \* permission vectors offered to grant_delegate
  Contract,              \* contract ids offered to link_contract_id
  Absent,                \* no entry
  MaxDelegatePerms,      \* MAX_DELEGATE_PERMS
  MaxDelegatesPerOwner   \* MAX_DELEGATES_PER_OWNER

\* What the constants must satisfy.
Assumptions ==
  /\ Absent \notin Admin \cup Contract
  /\ PermissionLists \subseteq Seq(Permission)
  /\ {MaxDelegatePerms, MaxDelegatesPerOwner} \subseteq Nat

VARIABLES
  admin,           \* DataKey::Admin
  contract_id,     \* DataKey::ContractId
  owner_delegates, \* DataKey::OwnerDelegates(owner), a Vec
  delegate_perms,  \* DataKey::DelegatePerms(owner, delegate), <<>> without an entry
  signers          \* history

vars == <<admin, contract_id, owner_delegates, delegate_perms, signers>>

Init ==
  /\ admin = Absent
  /\ contract_id = Absent
  /\ owner_delegates = [o \in Owner |-> <<>>]
  /\ delegate_perms = [o \in Owner |-> [d \in Delegate |-> <<>>]]
  /\ signers = {}

-----------------------------------------------------------------------------
(* Views and helpers. The definitions marked "Mutant" are plausible slips  *)
(* in the operator that follows; no specification here uses them.          *)

GetDelegatePermissions(o, d) == delegate_perms[o][d]

IsDelegate(o, d, p) == Contains(delegate_perms[o][d], p)

GetDelegates(o) == owner_delegates[o]

GetContractId == contract_id

\* Mutant: require_auth forgotten.
RequireAuthNever(a) == a # Absent /\ signers' = {}

RequireAuth(a) == signers' = {a}

RoomForDelegate(o, d) ==
  Contains(owner_delegates[o], d) \/ Len(owner_delegates[o]) < MaxDelegatesPerOwner

\* The list of the owner once the delegate is on it.
WithDelegate(o, d) ==
  IF Contains(owner_delegates[o], d) THEN owner_delegates[o]
  ELSE Append(owner_delegates[o], d)

WithoutDelegate(o, d) == RemoveFirst(owner_delegates[o], d)

-----------------------------------------------------------------------------
(* Entrypoints. *)

Initialize(a) ==
  /\ admin = Absent
  /\ RequireAuth(a)
  /\ admin' = a
  /\ UNCHANGED <<contract_id, owner_delegates, delegate_perms>>

\* Upgrade changes the code alone.
Upgrade ==
  /\ admin # Absent
  /\ RequireAuth(admin)
  /\ UNCHANGED <<admin, contract_id, owner_delegates, delegate_perms>>

\* The permissions replace those of an earlier grant.
GrantDelegate(o, d, ps) ==
  /\ RequireAuth(o)
  /\ ps # <<>>
  /\ Len(ps) <= MaxDelegatePerms
  /\ RoomForDelegate(o, d)
  /\ owner_delegates' = [owner_delegates EXCEPT ![o] = WithDelegate(o, d)]
  /\ delegate_perms' = [delegate_perms EXCEPT ![o][d] = ps]
  /\ UNCHANGED <<admin, contract_id>>

RevokeDelegate(o, d) ==
  /\ RequireAuth(o)
  /\ delegate_perms[o][d] # <<>>
  /\ delegate_perms' = [delegate_perms EXCEPT ![o][d] = <<>>]
  /\ owner_delegates' = [owner_delegates EXCEPT ![o] = WithoutDelegate(o, d)]
  /\ UNCHANGED <<admin, contract_id>>

NotLinked == contract_id = Absent

\* Whoever is passed as admin signs; it is not compared with the stored one.
LinkContractId(a, c) ==
  /\ RequireAuth(a)
  /\ NotLinked
  /\ contract_id' = c
  /\ UNCHANGED <<admin, owner_delegates, delegate_perms>>

-----------------------------------------------------------------------------

Next ==
  \/ \E a \in Admin : Initialize(a)
  \/ Upgrade
  \/ \E o \in Owner, d \in Delegate, ps \in PermissionLists : GrantDelegate(o, d, ps)
  \/ \E o \in Owner, d \in Delegate : RevokeDelegate(o, d)
  \/ \E a \in Admin, c \in Contract : LinkContractId(a, c)

Spec == Init /\ [][Next]_vars

-----------------------------------------------------------------------------
(* Properties. *)

\* Types of every stored value (DataKey).
TypeOK ==
  /\ admin \in Admin \cup {Absent}
  /\ contract_id \in Contract \cup {Absent}
  /\ owner_delegates \in [Owner -> Seq(Delegate)]
  /\ delegate_perms \in [Owner -> [Delegate -> Seq(Permission)]]
  /\ signers \subseteq Admin \cup Owner

\* The list of an owner names exactly the delegates that hold a permission,
\* each once, through any order of granting, granting again and revoking: a
\* revoked delegate passes no check and takes up no place under the cap
\* (grant_delegate, revoke_delegate).
DelegatesIndexed ==
  \A o \in Owner :
    /\ IsInjective(owner_delegates[o])
    /\ ToSet(owner_delegates[o]) = {d \in Delegate : \E p \in Permission : IsDelegate(o, d, p)}
    /\ Len(owner_delegates[o]) <= MaxDelegatesPerOwner

\* Nobody gains or loses a permission of an owner without the signature of
\* that owner, not even with that of the admin or of another owner, and the
\* linked contract never changes once it is set (grant_delegate,
\* revoke_delegate, link_contract_id).
OwnerDelegates ==
  [][/\ \A o \in Owner : o \notin signers' =>
          UNCHANGED <<owner_delegates[o], delegate_perms[o]>>
     /\ contract_id # Absent => UNCHANGED contract_id]_vars

Delegations == INSTANCE Directory WITH
  Holder <- Owner, Name <- Delegate, NoRecord <- <<>>, Cap <- MaxDelegatesPerOwner,
  records <- delegate_perms

\* Delegations are a directory per owner, bounded by MAX_DELEGATES_PER_OWNER,
\* although the cap is applied to the list and the records are kept apart.
DelegationsImplementDirectory == Delegations!Spec
=============================================================================
