------------------------ MODULE MuxDelegation_proofs ------------------------
(***************************************************************************)
(* Theorems about MuxDelegation, for every set of owners, delegates and    *)
(* permission lists and every pair of caps.                                *)
(***************************************************************************)
EXTENDS MuxDelegation, SeqLemmas

(* --------------------------- Type correctness -------------------------- *)

\* Every step keeps every type.
LEMMA TypeStep ==
  ASSUME Assumptions, TypeOK, [Next]_vars
  PROVE  TypeOK'
<1>1. ASSUME NEW a \in Admin, Initialize(a)  PROVE TypeOK'
  BY <1>1 DEF TypeOK, Initialize, RequireAuth
<1>2. CASE Upgrade
  BY <1>2 DEF TypeOK, Upgrade, RequireAuth
<1>3. ASSUME NEW o \in Owner, NEW d \in Delegate, NEW ps \in PermissionLists,
             GrantDelegate(o, d, ps)
      PROVE  TypeOK'
  <2>1. owner_delegates[o] \in Seq(Delegate)
    BY DEF TypeOK
  <2>2. WithDelegate(o, d) \in Seq(Delegate)
    BY <2>1 DEF WithDelegate
  <2>3. owner_delegates' \in [Owner -> Seq(Delegate)]
    BY <1>3, <2>2 DEF TypeOK, GrantDelegate
  <2>4. delegate_perms' \in [Owner -> [Delegate -> Seq(Permission)]]
    <3>1. delegate_perms[o] \in [Delegate -> Seq(Permission)] /\ ps \in Seq(Permission)
      BY DEF TypeOK, Assumptions
    <3>. QED  BY <1>3, <3>1 DEF TypeOK, GrantDelegate
  <2>. QED  BY <1>3, <2>3, <2>4 DEF TypeOK, GrantDelegate, RequireAuth
<1>4. ASSUME NEW o \in Owner, NEW d \in Delegate, RevokeDelegate(o, d)  PROVE TypeOK'
  <2>1. owner_delegates[o] \in Seq(Delegate)
    BY DEF TypeOK
  <2>2. WithoutDelegate(o, d) \in Seq(Delegate)
    BY <2>1, RemoveFirstProperties DEF WithoutDelegate
  <2>3. owner_delegates' \in [Owner -> Seq(Delegate)]
    BY <1>4, <2>2 DEF TypeOK, RevokeDelegate
  <2>4. delegate_perms' \in [Owner -> [Delegate -> Seq(Permission)]]
    <3>1. delegate_perms[o] \in [Delegate -> Seq(Permission)] /\ <<>> \in Seq(Permission)
      BY EmptySeq DEF TypeOK
    <3>. QED  BY <1>4, <3>1 DEF TypeOK, RevokeDelegate
  <2>. QED  BY <1>4, <2>3, <2>4 DEF TypeOK, RevokeDelegate, RequireAuth
<1>5. ASSUME NEW a \in Admin, NEW c \in Contract, LinkContractId(a, c)  PROVE TypeOK'
  BY <1>5 DEF TypeOK, LinkContractId, RequireAuth
<1>6. CASE UNCHANGED vars
  BY <1>6 DEF TypeOK, vars
<1>. QED
  BY <1>1, <1>2, <1>3, <1>4, <1>5, <1>6 DEF Next

\* Every stored value keeps its type, whatever is granted and revoked.
THEOREM TypeCorrect == ASSUME Assumptions PROVE Spec => []TypeOK
<1>1. Init => TypeOK
  BY EmptySeq DEF Init, TypeOK
<1>2. TypeOK /\ [Next]_vars => TypeOK'
  BY TypeStep
<1>. QED
  BY <1>1, <1>2, PTL DEF Spec

(* ------------------------ The list of an owner ------------------------- *)

\* The list of an owner and the records of its delegates agree, without the
\* existential of the property: a delegate is listed when its record is not
\* empty.
Indexed(o) ==
  /\ \A d : OccursOnce(owner_delegates[o], d)
  /\ \A d \in Delegate : Contains(owner_delegates[o], d) <=> delegate_perms[o][d] # <<>>
  /\ Len(owner_delegates[o]) <= MaxDelegatesPerOwner

DelegationInv == TypeOK /\ \A o \in Owner : Indexed(o)

\* Granting lists the delegate and gives it a record, once and within the cap.
LEMMA GrantKeepsIndexed ==
  ASSUME Assumptions, TypeOK, NEW o \in Owner, NEW d \in Delegate, NEW ps \in PermissionLists,
         GrantDelegate(o, d, ps), Indexed(o)
  PROVE  Indexed(o)'
<1> DEFINE s == owner_delegates[o]
<1>1. s \in Seq(Delegate)
  BY DEF TypeOK
<1>2. /\ owner_delegates'[o] = WithDelegate(o, d)
      /\ delegate_perms'[o][d] = ps /\ ps # <<>>
      /\ \A e \in Delegate \ {d} : delegate_perms'[o][e] = delegate_perms[o][e]
  BY DEF TypeOK, GrantDelegate
<1>3. CASE Contains(s, d)
  BY <1>2, <1>3 DEF Indexed, WithDelegate
<1>4. CASE ~Contains(s, d)
  <2>1. owner_delegates'[o] = Append(s, d)
    BY <1>2, <1>4 DEF WithDelegate
  <2>2. \A e : OccursOnce(Append(s, d), e)
    BY <1>1, <1>4, AppendContains DEF Indexed
  <2>3. \A e : Contains(Append(s, d), e) <=> Contains(s, e) \/ e = d
    BY <1>1, AppendContains
  <2>4. Len(Append(s, d)) <= MaxDelegatesPerOwner
    <3>1. Len(s) < MaxDelegatesPerOwner
      BY <1>4 DEF GrantDelegate, RoomForDelegate
    <3>. QED  BY <1>1, <3>1, AppendContains DEF Assumptions
  <2>. QED  BY <1>2, <2>1, <2>2, <2>3, <2>4, Zenon DEF Indexed
<1>. QED  BY <1>3, <1>4

\* Revoking takes the delegate off the list together with its record.
LEMMA RevokeKeepsIndexed ==
  ASSUME Assumptions, TypeOK, NEW o \in Owner, NEW d \in Delegate,
         RevokeDelegate(o, d), Indexed(o)
  PROVE  Indexed(o)'
<1> DEFINE s == owner_delegates[o]
<1>1. s \in Seq(Delegate)
  BY DEF TypeOK
<1>2. /\ owner_delegates'[o] = RemoveFirst(s, d)
      /\ delegate_perms'[o][d] = <<>>
      /\ \A e \in Delegate \ {d} : delegate_perms'[o][e] = delegate_perms[o][e]
  BY DEF TypeOK, RevokeDelegate, WithoutDelegate
<1>3. /\ \A e : OccursOnce(RemoveFirst(s, d), e)
      /\ ~Contains(RemoveFirst(s, d), d)
  BY <1>1, RemoveFirstProperties DEF Indexed
<1>4. \A e \in Delegate \ {d} : Contains(RemoveFirst(s, d), e) <=> Contains(s, e)
  BY <1>1, RemoveFirstProperties
<1>5. Len(RemoveFirst(s, d)) <= MaxDelegatesPerOwner
  <2>1. /\ Len(RemoveFirst(s, d)) <= Len(s) /\ Len(s) <= MaxDelegatesPerOwner
        /\ RemoveFirst(s, d) \in Seq(Delegate)
    BY <1>1, RemoveFirstProperties DEF Indexed
  <2>. QED  BY <1>1, <2>1 DEF Assumptions
<1>. QED  BY <1>2, <1>3, <1>4, <1>5, Zenon DEF Indexed

LEMMA DelegationInvStep ==
  ASSUME Assumptions, DelegationInv, [Next]_vars
  PROVE  DelegationInv'
<1>1. TypeOK'
  BY TypeStep DEF DelegationInv
<1> SUFFICES ASSUME NEW h \in Owner  PROVE Indexed(h)'
  BY <1>1 DEF DelegationInv
<1>2. Indexed(h) /\ TypeOK
  BY DEF DelegationInv
<1>3. CASE UNCHANGED <<owner_delegates[h], delegate_perms[h]>>
  BY <1>2, <1>3, Zenon DEF Indexed
<1>4. ASSUME NEW o \in Owner, NEW d \in Delegate, NEW ps \in PermissionLists,
             GrantDelegate(o, d, ps)
      PROVE  Indexed(h)'
  <2>1. CASE h = o
    BY <1>2, <1>4, <2>1, GrantKeepsIndexed
  <2>2. CASE h # o
    BY <1>2, <1>3, <1>4, <2>2 DEF GrantDelegate, TypeOK
  <2>. QED  BY <2>1, <2>2
<1>5. ASSUME NEW o \in Owner, NEW d \in Delegate, RevokeDelegate(o, d)
      PROVE  Indexed(h)'
  <2>1. CASE h = o
    BY <1>2, <1>5, <2>1, RevokeKeepsIndexed
  <2>2. CASE h # o
    BY <1>2, <1>3, <1>5, <2>2 DEF RevokeDelegate, TypeOK
  <2>. QED  BY <2>1, <2>2
<1>6. CASE UNCHANGED <<owner_delegates, delegate_perms>>
  BY <1>3, <1>6
<1>. QED
  BY <1>4, <1>5, <1>6 DEF Next, vars, Initialize, Upgrade, LinkContractId

\* The inductive invariant holds in every reachable state.
THEOREM DelegationInvariance == ASSUME Assumptions PROVE Spec => []DelegationInv
<1>1. Init => DelegationInv
  <2> SUFFICES ASSUME Init  PROVE DelegationInv
    OBVIOUS
  <2>1. TypeOK
    BY EmptySeq DEF Init, TypeOK
  <2>2. ASSUME NEW o \in Owner  PROVE Indexed(o)
    <3>1. owner_delegates[o] = <<>> /\ \A d \in Delegate : delegate_perms[o][d] = <<>>
      BY DEF Init
    <3>2. \A d : OccursOnce(<<>>, d) /\ ~Contains(<<>>, d)
      BY DEF OccursOnce, Contains
    <3>. QED  BY <3>1, <3>2 DEF Indexed, Assumptions
  <2>. QED  BY <2>1, <2>2 DEF DelegationInv
<1>2. DelegationInv /\ [Next]_vars => DelegationInv'
  BY DelegationInvStep
<1>. QED
  BY <1>1, <1>2, PTL DEF Spec

\* An owner's list names exactly the delegates that hold a permission, once
\* each and within the cap (grant_delegate, revoke_delegate).
THEOREM DelegatesHold == ASSUME Assumptions PROVE Spec => []DelegatesIndexed
<1>1. DelegationInv => DelegatesIndexed
  <2> SUFFICES ASSUME DelegationInv, NEW o \in Owner
               PROVE  /\ IsInjective(owner_delegates[o])
                      /\ ToSet(owner_delegates[o])
                           = {d \in Delegate : \E p \in Permission : IsDelegate(o, d, p)}
                      /\ Len(owner_delegates[o]) <= MaxDelegatesPerOwner
    BY Zenon DEF DelegatesIndexed
  <2> DEFINE s == owner_delegates[o]
  <2>1. s \in Seq(Delegate) /\ Indexed(o)
    BY DEF DelegationInv, TypeOK
  <2>2. ASSUME NEW d \in Delegate
        PROVE  delegate_perms[o][d] # <<>> <=> \E p \in Permission : IsDelegate(o, d, p)
    <3>1. delegate_perms[o][d] \in Seq(Permission)
      BY DEF DelegationInv, TypeOK
    <3>2. ASSUME delegate_perms[o][d] # <<>>  PROVE \E p \in Permission : IsDelegate(o, d, p)
      <4>1. 1 \in 1..Len(delegate_perms[o][d]) /\ delegate_perms[o][d][1] \in Permission
        BY <3>1, <3>2
      <4>. QED  BY <4>1 DEF IsDelegate, Contains
    <3>3. ASSUME NEW p \in Permission, IsDelegate(o, d, p)  PROVE delegate_perms[o][d] # <<>>
      BY <3>1, <3>3 DEF IsDelegate, Contains
    <3>. QED  BY <3>2, <3>3
  <2>3. \A x : x \in ToSet(s) <=> Contains(s, x)
    BY <2>1, ToSetContains
  <2>4. \A x : Contains(s, x) => x \in Delegate
    BY <2>1 DEF Contains
  <2>5. ToSet(s) = {d \in Delegate : \E p \in Permission : IsDelegate(o, d, p)}
    BY <2>1, <2>2, <2>3, <2>4 DEF Indexed
  <2>6. IsInjective(s)
    BY <2>1, InjectiveOccursOnce DEF Indexed
  <2>. QED  BY <2>1, <2>5, <2>6 DEF Indexed
<1>. QED
  BY <1>1, DelegationInvariance, PTL

(* ------------------------------ Who signs ------------------------------ *)

\* Nothing of an owner's delegates changes without the owner's signature, and
\* a link once made stays (require_auth, link_contract_id).
THEOREM OwnersDelegate == ASSUME Assumptions PROVE Spec => OwnerDelegates
<1> DEFINE Signed == /\ \A o \in Owner : o \notin signers' =>
                          UNCHANGED <<owner_delegates[o], delegate_perms[o]>>
                     /\ contract_id # Absent => UNCHANGED contract_id
<1>1. ASSUME TypeOK, [Next]_vars  PROVE Signed \/ UNCHANGED vars
  <2>1. ASSUME NEW a \in Admin, Initialize(a)  PROVE Signed
    BY <2>1 DEF Initialize
  <2>2. CASE Upgrade
    BY <2>2 DEF Upgrade
  <2>3. ASSUME NEW o \in Owner, NEW d \in Delegate, NEW ps \in PermissionLists,
               GrantDelegate(o, d, ps)
        PROVE  Signed
    BY <1>1, <2>3 DEF GrantDelegate, RequireAuth, TypeOK
  <2>4. ASSUME NEW o \in Owner, NEW d \in Delegate, RevokeDelegate(o, d)  PROVE Signed
    BY <1>1, <2>4 DEF RevokeDelegate, RequireAuth, TypeOK
  <2>5. ASSUME NEW a \in Admin, NEW c \in Contract, LinkContractId(a, c)  PROVE Signed
    BY <2>5 DEF LinkContractId, NotLinked
  <2>. QED  BY <1>1, <2>1, <2>2, <2>3, <2>4, <2>5 DEF Next
<1>. QED
  BY <1>1, TypeCorrect, PTL DEF Spec, OwnerDelegates

(* ------------------------- A bounded directory ------------------------- *)

\* Delegations are a directory of every owner, bounded by the cap: the length
\* of the list, which the code tests, is the number of names in use.
THEOREM DelegationsAreDirectory ==
  ASSUME Assumptions
  PROVE  Spec => DelegationsImplementDirectory
<1>1. Init => Delegations!Init
  BY DEF Init, Delegations!Init
<1>2. ASSUME DelegationInv, [Next]_vars
      PROVE  Delegations!Next \/ UNCHANGED delegate_perms
  <2>1. ASSUME NEW o \in Owner, NEW d \in Delegate, NEW ps \in PermissionLists,
               GrantDelegate(o, d, ps)
        PROVE  Delegations!Next
    <3> DEFINE s == owner_delegates[o]
    <3>1. s \in Seq(Delegate) /\ Indexed(o) /\ TypeOK
      BY <1>2 DEF DelegationInv, TypeOK
    <3>2. Cardinality(ToSet(s)) = Len(s)
      BY <3>1, InjectiveOccursOnce, InjectiveCardinality DEF Indexed
    <3>3. ToSet(s) = Delegations!Used(o)
      <4>1. \A x : Contains(s, x) => x \in Delegate
        BY <3>1 DEF Contains
      <4>2. \A x : x \in ToSet(s) <=> Contains(s, x)
        BY <3>1, ToSetContains
      <4>. QED  BY <3>1, <4>1, <4>2 DEF Indexed, Delegations!Used
    <3>4. d \in Delegations!Used(o) \/ Cardinality(Delegations!Used(o)) < MaxDelegatesPerOwner
      <4>1. Contains(s, d) \/ Len(s) < MaxDelegatesPerOwner
        BY <2>1 DEF GrantDelegate, RoomForDelegate
      <4>2. Contains(s, d) => d \in ToSet(s)
        BY <3>1, ToSetContains
      <4>. QED  BY <3>2, <3>3, <4>1, <4>2
    <3>5. /\ delegate_perms'[o][d] = ps /\ ps # <<>>
          /\ delegate_perms' = [delegate_perms EXCEPT ![o][d] = delegate_perms'[o][d]]
      BY <2>1, <3>1 DEF GrantDelegate, TypeOK
    <3>6. Delegations!Put(o, d)
      BY <3>4, <3>5, Zenon DEF Delegations!Put, Delegations!Cardinality, Cardinality
    <3>. QED  BY <3>6 DEF Delegations!Next
  <2>2. ASSUME NEW o \in Owner, NEW d \in Delegate, RevokeDelegate(o, d)
        PROVE  Delegations!Next
    <3>1. Delegations!Withdraw(o, d)
      BY <2>2 DEF RevokeDelegate, Delegations!Withdraw, Delegations!Used
    <3>. QED  BY <3>1 DEF Delegations!Next
  <2>3. CASE UNCHANGED delegate_perms
    BY <2>3
  <2>. QED
    BY <1>2, <2>1, <2>2, <2>3 DEF Next, vars, Initialize, Upgrade, LinkContractId
<1>. QED
  BY <1>1, <1>2, DelegationInvariance, PTL DEF Spec, DelegationsImplementDirectory, Delegations!Spec
=============================================================================
