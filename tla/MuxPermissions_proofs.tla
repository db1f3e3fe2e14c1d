----------------------- MODULE MuxPermissions_proofs -----------------------
(***************************************************************************)
(* Theorems about MuxPermissions, for every set of admins, accounts, roles *)
(* and permission lists, every cap and every threshold.                    *)
(***************************************************************************)
EXTENDS MuxPermissions, SeqLemmas

(* --------------------------- Type correctness -------------------------- *)

\* Removing a role from the list of an account leaves roles that exist.
LEMMA RolesAfterRevokeType ==
  ASSUME TypeOK, NEW a \in Account, NEW r \in Role
  PROVE  /\ RolesAfterRevoke(a, r) \in Seq(Role)
         /\ ToSet(RolesAfterRevoke(a, r)) \subseteq roles
<1>1. account_roles[a] \in Seq(Role) /\ ToSet(account_roles[a]) \subseteq roles
  BY DEF TypeOK
<1>2. /\ RemoveFirst(account_roles[a], r) \in Seq(Role)
      /\ \A q : Contains(RemoveFirst(account_roles[a], r), q) => Contains(account_roles[a], q)
  BY <1>1, RemoveFirstProperties
<1>. QED
  BY <1>1, <1>2, ToSetContains DEF RolesAfterRevoke

\* Every step keeps every type.
LEMMA TypeStep ==
  ASSUME TypeOK, [Next]_vars
  PROVE  TypeOK'
<1> USE DEF TypeOK
<1>1. ASSUME NEW a \in Admin, Initialize(a)
      PROVE  TypeOK'
  BY <1>1 DEF Initialize, roleVars
<1>2. CASE Upgrade
  BY <1>2 DEF Upgrade, RequireAdmin, roleVars, adminVars
<1>3. ASSUME NEW r \in Role, NEW ps \in PermissionSets, CreateRole(r, ps)
      PROVE  TypeOK'
  <2>1. ps \in SUBSET Permission
    BY DEF Permission
  <2>2. /\ members' \in [Role -> Seq(Account)]
        /\ permissions' \in [Role -> SUBSET Permission]
        /\ roles' \subseteq Role /\ recreated' \subseteq Role
    BY <1>3, <2>1, EmptySeq DEF CreateRole
  <2>3. \A q \in Role \ roles' : members'[q] = <<>> /\ permissions'[q] = {}
    BY <1>3 DEF CreateRole
  <2>4. \A a \in Account : ToSet(account_roles'[a]) \subseteq roles'
    BY <1>3 DEF CreateRole
  <2>. QED
    BY <1>3, <2>2, <2>3, <2>4 DEF CreateRole, RequireAdmin, adminVars
<1>4. ASSUME NEW a \in Account, NEW r \in Role, GrantRole(a, r)
      PROVE  TypeOK'
  <2>1. CASE UNCHANGED <<members, account_roles>>
    BY <1>4, <2>1 DEF GrantRole, RequireAdmin, adminVars
  <2>2. CASE /\ members' = [members EXCEPT ![r] = Append(@, a)]
             /\ account_roles' = [account_roles EXCEPT ![a] = Append(@, r)]
    <3>1. Append(members[r], a) \in Seq(Account) /\ Append(account_roles[a], r) \in Seq(Role)
      BY AppendProperties
    <3>2. ToSet(Append(account_roles[a], r)) \subseteq roles
      <4>1. r \in roles /\ account_roles[a] \in Seq(Role) /\ ToSet(account_roles[a]) \subseteq roles
        BY <1>4 DEF GrantRole, RoleExists
      <4>2. \A q : Contains(Append(account_roles[a], r), q) <=> Contains(account_roles[a], q) \/ q = r
        BY <4>1, AppendContains
      <4>3. /\ \A q : q \in ToSet(account_roles[a]) <=> Contains(account_roles[a], q)
            /\ \A q : q \in ToSet(Append(account_roles[a], r)) <=> Contains(Append(account_roles[a], r), q)
        BY <3>1, <4>1, ToSetContains
      <4>. QED  BY <4>1, <4>2, <4>3
    <3>3. /\ members' \in [Role -> Seq(Account)]
          /\ account_roles' \in [Account -> Seq(Role)]
      BY <2>2, <3>1
    <3>4. \A b \in Account : ToSet(account_roles'[b]) \subseteq roles
      BY <2>2, <3>2
    <3>5. \A q \in Role \ roles : members'[q] = <<>> /\ permissions[q] = {}
      BY <1>4, <2>2 DEF GrantRole, RoleExists
    <3>. QED
      BY <1>4, <3>3, <3>4, <3>5 DEF GrantRole, RequireAdmin, adminVars
  <2>. QED  BY <1>4, <2>1, <2>2 DEF GrantRole
<1>5. ASSUME NEW a \in Account, NEW r \in Role, RevokeRole(a, r)
      PROVE  TypeOK'
  <2>1. RemoveFirst(members[r], a) \in Seq(Account)
    BY RemoveFirstProperties
  <2>2. r \in roles
    <3>1. members[r] # <<>>
      BY <1>5 DEF RevokeRole, IsMember, Contains
    <3>. QED  BY <3>1
  <2>3. /\ members' \in [Role -> Seq(Account)]
        /\ account_roles' \in [Account -> Seq(Role)]
    BY <1>5, <2>1, RolesAfterRevokeType DEF RevokeRole
  <2>4. \A b \in Account : ToSet(account_roles'[b]) \subseteq roles
    BY <1>5, RolesAfterRevokeType DEF RevokeRole
  <2>5. \A q \in Role \ roles : members'[q] = <<>> /\ permissions[q] = {}
    BY <1>5, <2>2 DEF RevokeRole
  <2>. QED
    BY <1>5, <2>3, <2>4, <2>5 DEF RevokeRole, RequireAdmin, adminVars
<1>6. ASSUME NEW m \in Meta, SetMetadata(m)
      PROVE  TypeOK'
  BY <1>6 DEF SetMetadata, RequireAdmin, roleVars, adminVars
<1>7. ASSUME NEW t \in Thresholds, SetAdminThreshold(t)
      PROVE  TypeOK'
  BY <1>7, BoundAssumption DEF SetAdminThreshold, RequireAdmin, roleVars
<1>8. ASSUME NEW c \in Admin, ProposeAdmin(c)
      PROVE  TypeOK'
  <2>1. /\ pending_admins' \in Seq(Admin)
        /\ approvals' \in [Admin -> Seq(Admin)]
        /\ endorsed' \in [Admin -> SUBSET Admin]
    <3>1. CASE UNCHANGED <<pending_admins, approvals, endorsed>>
      BY <3>1
    <3>2. CASE /\ pending_admins' = Append(pending_admins, c)
               /\ approvals' = ResetApprovals(c)
               /\ endorsed' = [endorsed EXCEPT ![c] = {}]
      <4>1. approvals' \in [Admin -> Seq(Admin)]
        BY <3>2, EmptySeq, Zenon DEF ResetApprovals
      <4>. QED  BY <3>2, <4>1, AppendProperties
    <3>. QED  BY <1>8, <3>1, <3>2 DEF ProposeAdmin
  <2>. QED  BY <1>8, <2>1 DEF ProposeAdmin, RequireAdmin, roleVars
<1>9. ASSUME NEW approver \in Admin, NEW c \in Admin, ApproveAdmin(approver, c)
      PROVE  TypeOK'
  <2>1. /\ approvals' \in [Admin -> Seq(Admin)]
        /\ endorsed' \in [Admin -> SUBSET Admin]
    BY <1>9, AppendProperties DEF ApproveAdmin
  <2>2. admin' \in Admin \cup {Absent} /\ pending_admins' \in Seq(Admin)
    BY <1>9, RemoveFirstProperties DEF ApproveAdmin, PendingAfterPromotion
  <2>. QED  BY <1>9, <2>1, <2>2 DEF ApproveAdmin, RequireAdmin, roleVars
<1>10. CASE UNCHANGED vars
  BY <1>10 DEF vars, roleVars, adminVars
<1>. QED
  BY <1>1, <1>2, <1>3, <1>4, <1>5, <1>6, <1>7, <1>8, <1>9, <1>10
  DEF Next, RoleStep, RotationStep

\* Every reachable state stores values of the declared types, and only roles
\* that exist have members or permissions or are listed by an account.
THEOREM TypeCorrect == Spec => []TypeOK
<1>1. Init => TypeOK
  <2> SUFFICES ASSUME Init
               PROVE  TypeOK
    OBVIOUS
  <2>1. ToSet(<<>>) = {}
    BY DEF ToSet
  <2>2. /\ members \in [Role -> Seq(Account)]
        /\ account_roles \in [Account -> Seq(Role)]
        /\ approvals \in [Admin -> Seq(Admin)]
        /\ pending_admins \in Seq(Admin)
    BY EmptySeq DEF Init
  <2>3. \A a \in Account : ToSet(account_roles[a]) \subseteq roles
    BY <2>1 DEF Init
  <2>. QED  BY <2>2, <2>3 DEF Init, TypeOK
<1>2. TypeOK /\ [Next]_vars => TypeOK'
  BY TypeStep
<1>. QED
  BY <1>1, <1>2, PTL DEF Spec

(* ------------------------------ Membership ----------------------------- *)

\* What keeps the two membership lists in step: nobody is counted twice in a
\* role, a member holds the role, and a role that was never created again is
\* listed at most once by an account, and only by members.
RoleInv ==
  /\ \A r \in Role : Len(members[r]) <= MaxRoleMembers /\ IsInjective(members[r])
  /\ \A a \in Account : Len(account_roles[a]) <= MaxRolesPerAccount
  /\ \A a \in Account, r \in Role : IsMember(a, r) => Contains(account_roles[a], r)
  /\ \A a \in Account, r \in Role : r \notin recreated =>
       /\ OccursOnce(account_roles[a], r)
       /\ Contains(account_roles[a], r) => IsMember(a, r)

\* A role that is created is empty and, unless it existed, listed by nobody.
LEMMA CreateKeepsRoles ==
  ASSUME TypeOK, RoleInv, NEW r \in Role, NEW ps \in PermissionSets, CreateRole(r, ps)
  PROVE  RoleInv'
<1>1. /\ members' = [members EXCEPT ![r] = <<>>] /\ members \in [Role -> Seq(Account)]
      /\ account_roles' = account_roles
      /\ recreated \subseteq recreated'
      /\ r \in roles => r \in recreated'
  BY DEF CreateRole, RoleExists, TypeOK
<1>2. /\ Len(<<>>) = 0 /\ IsInjective(<<>>) /\ MaxRoleMembers \in Nat
      /\ \A a : ~Contains(<<>>, a)
  BY BoundAssumption DEF IsInjective, Contains
<1>3. \A q \in Role : Len(members'[q]) <= MaxRoleMembers /\ IsInjective(members'[q])
  BY <1>1, <1>2 DEF RoleInv
<1>4. \A a \in Account, q \in Role : IsMember(a, q)' <=> q # r /\ IsMember(a, q)
  BY <1>1, <1>2 DEF IsMember
<1>5. \A a \in Account : r \notin roles => ~Contains(account_roles[a], r)
  BY ToSetContains DEF TypeOK
<1>. QED
  BY <1>1, <1>3, <1>4, <1>5 DEF RoleInv

\* A grant lists role and account with each other, once.
LEMMA GrantKeepsRoles ==
  ASSUME TypeOK, RoleInv, NEW a \in Account, NEW r \in Role, GrantRole(a, r)
  PROVE  RoleInv'
<1>1. CASE UNCHANGED <<members, account_roles>>
  BY <1>1 DEF GrantRole, RoleInv, IsMember
<1>2. CASE /\ ~IsMember(a, r)
           /\ RoomForGrant(a, r)
           /\ members' = [members EXCEPT ![r] = Append(@, a)]
           /\ account_roles' = [account_roles EXCEPT ![a] = Append(@, r)]
  <2> DEFINE ms == Append(members[r], a)
             rs == Append(account_roles[a], r)
  <2>1. /\ members[r] \in Seq(Account) /\ account_roles[a] \in Seq(Role)
        /\ ms \in Seq(Account) /\ rs \in Seq(Role)
    BY AppendProperties DEF TypeOK
  <2>2. /\ \A x : Contains(ms, x) <=> Contains(members[r], x) \/ x = a
        /\ \A x : OccursOnce(members[r], x) /\ (x # a \/ ~Contains(members[r], x)) => OccursOnce(ms, x)
        /\ Len(ms) = Len(members[r]) + 1
    BY <2>1, AppendContains
  <2>3. /\ \A x : Contains(rs, x) <=> Contains(account_roles[a], x) \/ x = r
        /\ \A x : /\ OccursOnce(account_roles[a], x)
                  /\ x # r \/ ~Contains(account_roles[a], x)
                  => OccursOnce(rs, x)
        /\ Len(rs) = Len(account_roles[a]) + 1
    BY <2>1, AppendContains
  <2>4. Len(members[r]) \in Nat /\ Len(account_roles[a]) \in Nat
    BY <2>1, LenProperties
  <2>5. Len(ms) <= MaxRoleMembers /\ Len(rs) <= MaxRolesPerAccount
    BY <1>2, <2>2, <2>3, <2>4, BoundAssumption DEF RoomForGrant
  <2>6. IsInjective(ms)
    <3>1. \A x : OccursOnce(members[r], x)
      BY <2>1, InjectiveOccursOnce DEF RoleInv
    <3>2. ~Contains(members[r], a)
      BY <1>2 DEF IsMember
    <3>3. \A x : OccursOnce(ms, x)
      BY <2>2, <3>1, <3>2
    <3>. QED  BY <2>1, <3>3, InjectiveOccursOnce
  <2> HIDE DEF ms, rs
  <2>7. /\ members' = [members EXCEPT ![r] = ms] /\ members \in [Role -> Seq(Account)]
        /\ account_roles' = [account_roles EXCEPT ![a] = rs]
        /\ account_roles \in [Account -> Seq(Role)]
        /\ recreated' = recreated
    BY <1>2 DEF GrantRole, TypeOK, ms, rs
  <2>8. /\ \A q \in Role : Len(members'[q]) <= MaxRoleMembers /\ IsInjective(members'[q])
        /\ \A b \in Account : Len(account_roles'[b]) <= MaxRolesPerAccount
    BY <2>5, <2>6, <2>7 DEF RoleInv
  <2>9. \A b \in Account, q \in Role :
          /\ IsMember(b, q)' <=> IsMember(b, q) \/ (b = a /\ q = r)
          /\ Contains(account_roles'[b], q) <=> Contains(account_roles[b], q) \/ (b = a /\ q = r)
    BY <2>2, <2>3, <2>7 DEF IsMember
  <2>10. \A b \in Account, q \in Role \ recreated : OccursOnce(account_roles'[b], q)
    BY <1>2, <2>3, <2>7 DEF RoleInv
  <2>. QED  BY <2>7, <2>8, <2>9, <2>10 DEF RoleInv
<1>. QED  BY <1>1, <1>2 DEF GrantRole

\* A revocation removes one mention from both lists, which is the only one
\* unless the role was created again.
LEMMA RevokeKeepsRoles ==
  ASSUME TypeOK, RoleInv, NEW a \in Account, NEW r \in Role, RevokeRole(a, r)
  PROVE  RoleInv'
<1> DEFINE ms == RemoveFirst(members[r], a)
           rs == RemoveFirst(account_roles[a], r)
<1>1. members[r] \in Seq(Account) /\ account_roles[a] \in Seq(Role)
  BY DEF TypeOK
<1>2. /\ ms \in Seq(Account)
      /\ Len(ms) <= Len(members[r])
      /\ \A x : Contains(ms, x) => Contains(members[r], x)
      /\ \A x : x # a /\ Contains(members[r], x) => Contains(ms, x)
      /\ \A x : OccursOnce(members[r], x) => OccursOnce(ms, x)
      /\ OccursOnce(members[r], a) => ~Contains(ms, a)
  BY <1>1, RemoveFirstProperties
<1>3. /\ rs \in Seq(Role)
      /\ Len(rs) <= Len(account_roles[a])
      /\ \A x : Contains(rs, x) => Contains(account_roles[a], x)
      /\ \A x : x # r /\ Contains(account_roles[a], x) => Contains(rs, x)
      /\ \A x : OccursOnce(account_roles[a], x) => OccursOnce(rs, x)
      /\ OccursOnce(account_roles[a], r) => ~Contains(rs, r)
  BY <1>1, RemoveFirstProperties
<1>4. \A x : OccursOnce(members[r], x)
  BY <1>1, InjectiveOccursOnce DEF RoleInv
<1>5. IsInjective(ms) /\ ~Contains(ms, a)
  BY <1>2, <1>4, InjectiveOccursOnce
<1>6. /\ Len(ms) \in Nat /\ Len(members[r]) \in Nat
      /\ Len(rs) \in Nat /\ Len(account_roles[a]) \in Nat
  BY <1>1, <1>2, <1>3, LenProperties
<1> HIDE DEF ms, rs
<1>7. Len(ms) <= MaxRoleMembers /\ Len(rs) <= MaxRolesPerAccount
  <2>1. Len(members[r]) <= MaxRoleMembers /\ Len(account_roles[a]) <= MaxRolesPerAccount
    BY DEF RoleInv
  <2>. QED  BY <1>2, <1>3, <1>6, <2>1, BoundAssumption
<1>8. /\ members' = [members EXCEPT ![r] = ms] /\ members \in [Role -> Seq(Account)]
      /\ account_roles' = [account_roles EXCEPT ![a] = rs]
      /\ account_roles \in [Account -> Seq(Role)]
      /\ recreated' = recreated
  BY DEF RevokeRole, RolesAfterRevoke, TypeOK, ms, rs
<1>9. /\ \A q \in Role : Len(members'[q]) <= MaxRoleMembers /\ IsInjective(members'[q])
      /\ \A b \in Account : Len(account_roles'[b]) <= MaxRolesPerAccount
  BY <1>5, <1>7, <1>8 DEF RoleInv
<1>10. \A b \in Account, q \in Role : IsMember(b, q)' <=> IsMember(b, q) /\ ~(b = a /\ q = r)
  BY <1>2, <1>5, <1>8 DEF IsMember
<1>11. \A b \in Account, q \in Role :
         /\ Contains(account_roles'[b], q) => Contains(account_roles[b], q)
         /\ ~(b = a /\ q = r) /\ Contains(account_roles[b], q) => Contains(account_roles'[b], q)
         /\ OccursOnce(account_roles[b], q) => OccursOnce(account_roles'[b], q)
         /\ OccursOnce(account_roles[a], r) => ~Contains(account_roles'[a], r)
  BY <1>3, <1>8
<1>. QED
  BY <1>8, <1>9, <1>10, <1>11 DEF RoleInv

\* Every step keeps the membership lists in step.
LEMMA RoleInvStep ==
  ASSUME TypeOK, RoleInv, [Next]_vars
  PROVE  RoleInv'
<1>1. CASE UNCHANGED roleVars
  BY <1>1 DEF RoleInv, IsMember, roleVars
<1>2. \/ UNCHANGED roleVars
      \/ \E r \in Role, ps \in PermissionSets : CreateRole(r, ps)
      \/ \E a \in Account, r \in Role : GrantRole(a, r)
      \/ \E a \in Account, r \in Role : RevokeRole(a, r)
  BY DEF Next, RoleStep, RotationStep, Initialize, Upgrade, SetMetadata, SetAdminThreshold,
         ProposeAdmin, ApproveAdmin, vars
<1>. QED
  BY <1>1, <1>2, CreateKeepsRoles, GrantKeepsRoles, RevokeKeepsRoles

\* Roles, members and listings fit together in every reachable state.
THEOREM RoleInvariance == Spec => []RoleInv
<1>1. Init => RoleInv
  <2>1. /\ Len(<<>>) = 0 /\ IsInjective(<<>>)
        /\ \A x : ~Contains(<<>>, x) /\ OccursOnce(<<>>, x)
    BY DEF IsInjective, Contains, OccursOnce
  <2>. QED  BY <2>1, BoundAssumption DEF Init, RoleInv, IsMember
<1>2. TypeOK /\ RoleInv /\ [Next]_vars => RoleInv'
  BY RoleInvStep
<1>. QED
  BY <1>1, <1>2, TypeCorrect, PTL DEF Spec

\* In every reachable state both caps hold, no role counts a member twice, and
\* the two membership lists agree as far as create_role lets them (grant_role,
\* revoke_role).
THEOREM RolesHold == Spec => []RolesConsistent
<1>1. RoleInv => ListsBounded
  BY DEF RoleInv, ListsBounded
<1>2. RoleInv => MembershipAgrees
  BY DEF RoleInv, MembershipAgrees, Listings, Contains, OccursOnce
<1>3. RoleInv => RolesConsistent
  BY <1>1, <1>2 DEF RolesConsistent
<1>. QED
  BY <1>3, RoleInvariance, PTL

\* What the documentation says of revoke_role fails through a second
\* create_role and through nothing else: as long as no role is created twice, a
\* role that was taken from an account is no longer among its roles, however
\* often it was granted and revoked before (grant_role, revoke_role).
THEOREM RevocationTakesRolesCreatedOnce ==
  Spec /\ [](recreated = {}) => RevocationTakesRole
<1> DEFINE Taken ==
      \A a \in Account, r \in Role :
        IsMember(a, r) /\ ~IsMember(a, r)' /\ account_roles'[a] # account_roles[a] =>
          r \notin ToSet(account_roles'[a])
<1>1. TypeOK' /\ RoleInv' /\ (recreated = {})' => Taken
  <2> SUFFICES ASSUME TypeOK', RoleInv', recreated' = {},
                      NEW a \in Account, NEW r \in Role, ~IsMember(a, r)'
               PROVE  r \notin ToSet(account_roles'[a])
    OBVIOUS
  <2>1. account_roles'[a] \in Seq(Role)
    BY DEF TypeOK
  <2>2. ~Contains(account_roles'[a], r)
    BY DEF RoleInv
  <2>. QED  BY <2>1, <2>2, ToSetContains
<1>. QED
  BY <1>1, TypeCorrect, RoleInvariance, PTL DEF RevocationTakesRole

\* What a permission check answers is what the role lists say.
THEOREM PermissionsHold == Spec => []PermissionsAreMemberships
<1>1. TypeOK /\ RoleInv => PermissionsAreMemberships
  <2> SUFFICES ASSUME TypeOK, RoleInv, NEW a \in Account, NEW p \in Permission
               PROVE  LET Granting == {r \in Role : p \in permissions[r]} IN
                      /\ (\E r \in Granting : IsMember(a, r)) => HasPermission(a, p)
                      /\ HasPermission(a, p) => \E r \in Granting : IsMember(a, r) \/ r \in recreated
    BY DEF PermissionsAreMemberships
  <2>1. account_roles[a] \in Seq(Role) /\ roles \subseteq Role /\ ToSet(account_roles[a]) \subseteq roles
    BY DEF TypeOK
  <2>2. \A r : r \in ToSet(account_roles[a]) <=> Contains(account_roles[a], r)
    BY <2>1, ToSetContains
  <2>3. \A r \in Role : /\ IsMember(a, r) => Contains(account_roles[a], r)
                        /\ Contains(account_roles[a], r) => IsMember(a, r) \/ r \in recreated
    BY DEF RoleInv
  <2>. QED  BY <2>1, <2>2, <2>3 DEF HasPermission
<1>. QED
  BY <1>1, TypeCorrect, RoleInvariance, PTL

\* As long as no role is created twice, a permission check answers exactly what
\* the member lists say: an account has the permissions of the roles it is a
\* member of, and loses each with the last of them (has_permission).
PermissionsExact ==
  \A a \in Account, p \in Permission :
    HasPermission(a, p) <=> \E r \in Role : p \in permissions[r] /\ IsMember(a, r)

THEOREM PermissionsExactForRolesCreatedOnce ==
  Spec /\ [](recreated = {}) => []PermissionsExact
<1>1. PermissionsAreMemberships /\ recreated = {} => PermissionsExact
  <2> SUFFICES ASSUME PermissionsAreMemberships, recreated = {},
                      NEW a \in Account, NEW p \in Permission
               PROVE  HasPermission(a, p) <=>
                        \E r \in Role : p \in permissions[r] /\ IsMember(a, r)
    BY DEF PermissionsExact
  <2> DEFINE Granting == {r \in Role : p \in permissions[r]}
  <2>1. /\ (\E r \in Granting : IsMember(a, r)) => HasPermission(a, p)
        /\ HasPermission(a, p) => \E r \in Granting : IsMember(a, r) \/ r \in recreated
    BY Zenon DEF PermissionsAreMemberships
  <2>. QED  BY <2>1, Zenon
<1>. QED
  BY <1>1, PermissionsHold, PTL

(* ------------------------- Rotation of the admin ----------------------- *)

\* The candidates who are pending, and the approvals that count for them.
RotationInv == PendingBounded /\ ApprovalsAreFresh

\* A proposal that is made starts with no approvals.
LEMMA ProposeKeepsRotation ==
  ASSUME TypeOK, RotationInv, NEW c \in Admin, ProposeAdmin(c)
  PROVE  RotationInv'
<1>1. CASE UNCHANGED <<pending_admins, approvals, endorsed>>
  BY <1>1 DEF RotationInv, PendingBounded, ApprovalsAreFresh
<1>2. CASE /\ ~AlreadyProposed(c)
           /\ Len(pending_admins) < MaxPendingAdmins
           /\ pending_admins' = Append(pending_admins, c)
           /\ approvals' = ResetApprovals(c)
           /\ endorsed' = [endorsed EXCEPT ![c] = {}]
  <2>1. /\ pending_admins \in Seq(Admin) /\ pending_admins' \in Seq(Admin)
        /\ Len(pending_admins) \in Nat
    BY <1>2, AppendProperties, LenProperties DEF TypeOK
  <2>2. /\ \A x : Contains(pending_admins', x) <=> Contains(pending_admins, x) \/ x = c
        /\ Len(pending_admins') = Len(pending_admins) + 1
    BY <1>2, <2>1, AppendContains
  <2>3. IsInjective(pending_admins')
    BY <1>2, <2>1, InjectiveAppend DEF AlreadyProposed, RotationInv, PendingBounded
  <2>4. Len(pending_admins') <= MaxPendingAdmins
    BY <1>2, <2>1, <2>2, BoundAssumption
  <2>5. approvals'[c] = <<>> /\ endorsed'[c] = {}
    BY <1>2 DEF ResetApprovals, TypeOK
  <2>6. IsInjective(<<>>) /\ ToSet(<<>>) = {}
    BY DEF IsInjective, ToSet
  <2>7. \A d \in Admin \ {c} : approvals'[d] = approvals[d] /\ endorsed'[d] = endorsed[d]
    BY <1>2 DEF ResetApprovals, TypeOK
  <2>8. \A d \in ToSet(pending_admins') : d \in Admin /\ (d = c \/ d \in ToSet(pending_admins))
    <3>1. /\ \A d : d \in ToSet(pending_admins') <=> Contains(pending_admins', d)
          /\ \A d : d \in ToSet(pending_admins) <=> Contains(pending_admins, d)
      BY <2>1, ToSetContains
    <3>2. ToSet(pending_admins) \subseteq Admin
      BY <2>1, ElementOfSeq, LenProperties DEF ToSet
    <3>. QED  BY <2>2, <3>1, <3>2
  <2>9. ApprovalsAreFresh'
    BY <2>5, <2>6, <2>7, <2>8 DEF RotationInv, ApprovalsAreFresh
  <2>. QED  BY <2>3, <2>4, <2>9 DEF RotationInv, PendingBounded
<1>. QED  BY <1>1, <1>2 DEF ProposeAdmin

\* An approval that is recorded is a new one, of the approver who signs.
LEMMA ApproveCounts ==
  ASSUME TypeOK, RotationInv, NEW approver \in Admin, NEW c \in Admin, ApproveAdmin(approver, c)
  PROVE  /\ approvals'[c] \in Seq(Admin)
         /\ IsInjective(approvals'[c])
         /\ ToSet(approvals'[c]) = endorsed'[c]
         /\ approver \in endorsed'[c]
<1>1. c \in ToSet(pending_admins)
  BY ToSetContains DEF ApproveAdmin, TypeOK
<1>2. /\ approvals[c] \in Seq(Admin) /\ IsInjective(approvals[c])
      /\ ToSet(approvals[c]) = endorsed[c]
  BY <1>1 DEF TypeOK, RotationInv, ApprovalsAreFresh
<1>3. approvals'[c] = Append(approvals[c], approver) /\ endorsed'[c] = endorsed[c] \cup {approver}
  BY DEF ApproveAdmin, TypeOK
<1>4. approvals'[c] \in Seq(Admin)
  BY <1>2, <1>3, AppendProperties
<1>5. IsInjective(approvals'[c])
  BY <1>2, <1>3, InjectiveAppend DEF ApproveAdmin, AlreadyApproved
<1>6. /\ \A x : x \in ToSet(approvals[c]) <=> Contains(approvals[c], x)
      /\ \A x : x \in ToSet(approvals'[c]) <=> Contains(approvals'[c], x)
      /\ \A x : Contains(approvals'[c], x) <=> Contains(approvals[c], x) \/ x = approver
  <2>1. \A x : x \in ToSet(approvals[c]) <=> Contains(approvals[c], x)
    BY <1>2, ToSetContains
  <2>2. \A x : x \in ToSet(approvals'[c]) <=> Contains(approvals'[c], x)
    BY <1>4, ToSetContains
  <2>3. \A x : Contains(approvals'[c], x) <=> Contains(approvals[c], x) \/ x = approver
    BY <1>2, <1>3, AppendContains
  <2>. QED  BY <2>1, <2>2, <2>3
<1>. QED
  BY <1>2, <1>3, <1>4, <1>5, <1>6

\* A promotion withdraws the proposal of the one promoted and no other.
LEMMA ApproveWithdraws ==
  ASSUME TypeOK, RotationInv, NEW c \in Admin
  PROVE  /\ PendingAfterPromotion(c) \in Seq(Admin)
         /\ IsInjective(PendingAfterPromotion(c))
         /\ Len(PendingAfterPromotion(c)) <= MaxPendingAdmins
         /\ ToSet(PendingAfterPromotion(c)) \subseteq ToSet(pending_admins)
         /\ ~Contains(PendingAfterPromotion(c), c)
<1> DEFINE left == RemoveFirst(pending_admins, c)
<1>1. pending_admins \in Seq(Admin) /\ IsInjective(pending_admins) /\ Len(pending_admins) <= MaxPendingAdmins
  BY DEF TypeOK, RotationInv, PendingBounded
<1>2. /\ left \in Seq(Admin) /\ Len(left) <= Len(pending_admins)
      /\ \A x : Contains(left, x) => Contains(pending_admins, x)
      /\ \A x : OccursOnce(pending_admins, x) => OccursOnce(left, x)
      /\ OccursOnce(pending_admins, c) => ~Contains(left, c)
  BY <1>1, RemoveFirstProperties
<1> HIDE DEF left
<1>3. \A x : OccursOnce(pending_admins, x)
  BY <1>1, InjectiveOccursOnce
<1>4. IsInjective(left) /\ ~Contains(left, c)
  BY <1>2, <1>3, InjectiveOccursOnce
<1>5. ToSet(left) \subseteq ToSet(pending_admins)
  <2>1. /\ \A x : x \in ToSet(left) <=> Contains(left, x)
        /\ \A x : x \in ToSet(pending_admins) <=> Contains(pending_admins, x)
    BY <1>1, <1>2, ToSetContains
  <2>. QED  BY <1>2, <2>1
<1>6. Len(left) <= MaxPendingAdmins
  <2>1. Len(left) \in Nat /\ Len(pending_admins) \in Nat
    BY <1>1, <1>2, LenProperties
  <2>. QED  BY <1>1, <1>2, <2>1, BoundAssumption
<1>. QED
  BY <1>2, <1>4, <1>5, <1>6 DEF PendingAfterPromotion, left

\* Every step keeps the approvals of pending candidates fresh.
LEMMA RotationInvStep ==
  ASSUME TypeOK, RotationInv, [Next]_vars
  PROVE  RotationInv'
<1>1. CASE UNCHANGED <<pending_admins, approvals, endorsed>>
  BY <1>1 DEF RotationInv, PendingBounded, ApprovalsAreFresh
<1>2. ASSUME NEW approver \in Admin, NEW c \in Admin, ApproveAdmin(approver, c)
      PROVE  RotationInv'
  <2>1. /\ IsInjective(pending_admins') /\ Len(pending_admins') <= MaxPendingAdmins
        /\ ToSet(pending_admins') \subseteq ToSet(pending_admins)
    BY <1>2, ApproveWithdraws DEF ApproveAdmin, RotationInv, PendingBounded
  <2>2. \A d \in Admin \ {c} : approvals'[d] = approvals[d] /\ endorsed'[d] = endorsed[d]
    BY <1>2 DEF ApproveAdmin, TypeOK
  <2>3. ToSet(pending_admins) \subseteq Admin
    BY ElementOfSeq, LenProperties DEF ToSet, TypeOK
  <2>4. ApprovalsAreFresh'
    BY <1>2, <2>1, <2>2, <2>3, ApproveCounts DEF RotationInv, ApprovalsAreFresh
  <2>. QED  BY <2>1, <2>4 DEF RotationInv, PendingBounded
<1>3. \/ UNCHANGED <<pending_admins, approvals, endorsed>>
      \/ \E c \in Admin : ProposeAdmin(c)
      \/ \E approver, c \in Admin : ApproveAdmin(approver, c)
  BY DEF Next, RoleStep, RotationStep, Initialize, Upgrade, CreateRole, GrantRole, RevokeRole,
         SetMetadata, SetAdminThreshold, vars, adminVars
<1>. QED
  BY <1>1, <1>2, <1>3, ProposeKeepsRotation

\* Candidates are bounded and their approvals fresh in every reachable state.
THEOREM RotationInvariance == Spec => []RotationInv
<1>1. Init => RotationInv
  BY BoundAssumption DEF Init, RotationInv, PendingBounded, ApprovalsAreFresh, IsInjective, ToSet
<1>2. TypeOK /\ RotationInv /\ [Next]_vars => RotationInv'
  BY RotationInvStep
<1>. QED
  BY <1>1, <1>2, TypeCorrect, PTL DEF Spec

\* Never are more candidates pending than the cap allows, nor one of them
\* twice, and the approvals that count were given to this proposal, once each.
THEOREM RotationHolds == Spec => []RotationSound
<1>1. RotationInv => RotationSound
  BY DEF RotationInv, RotationSound
<1>. QED
  BY <1>1, RotationInvariance, PTL

\* After initialize the admin changes only to a pending candidate, with the
\* signature of the outgoing admin and as many different approvals of this
\* proposal as the threshold asks for, and the proposal is withdrawn.
THEOREM PromotionHolds == Spec => PromotionByQuorum
<1>1. TypeOK /\ RotationInv /\ [Next]_vars =>
        [admin # Absent /\ admin' # admin =>
           /\ admin \in signers'
           /\ \E c \in ToSet(pending_admins) :
                /\ admin' = c
                /\ Cardinality(endorsed'[c]) >= threshold
                /\ endorsed'[c] # {}
                /\ ~Contains(pending_admins', c)]_vars
  <2> SUFFICES ASSUME TypeOK, RotationInv, [Next]_vars, admin # Absent, admin' # admin
               PROVE  /\ admin \in signers'
                      /\ \E c \in ToSet(pending_admins) :
                           /\ admin' = c
                           /\ Cardinality(endorsed'[c]) >= threshold
                           /\ endorsed'[c] # {}
                           /\ ~Contains(pending_admins', c)
    OBVIOUS
  <2>1. PICK approver \in Admin, c \in Admin : ApproveAdmin(approver, c)
    BY DEF Next, RoleStep, RotationStep, Initialize, Upgrade, CreateRole, GrantRole, RevokeRole,
           SetMetadata, SetAdminThreshold, ProposeAdmin, vars, adminVars
  <2>2. /\ admin \in signers' /\ admin' = c
        /\ ThresholdMet(approvals'[c])
        /\ pending_admins' = PendingAfterPromotion(c)
    BY <2>1 DEF ApproveAdmin, RequireAdmin
  <2>3. c \in ToSet(pending_admins)
    BY <2>1, ToSetContains DEF ApproveAdmin, TypeOK
  <2>4. Cardinality(endorsed'[c]) = Len(approvals'[c]) /\ endorsed'[c] # {}
    BY <2>1, ApproveCounts, InjectiveCardinality
  <2>5. ~Contains(pending_admins', c)
    BY <2>2, ApproveWithdraws
  <2>. QED  BY <2>2, <2>3, <2>4, <2>5 DEF ThresholdMet
<1>. QED
  BY <1>1, TypeCorrect, RotationInvariance, PTL DEF Spec, PromotionByQuorum

(* ------------------ Refinement of the quorum rotation ------------------ *)

\* What counts for each candidate.
Endorsers == [c \in ToSet(pending_admins) |-> ToSet(approvals[c])]

\* The abstract specification counts as this one does.
LEMMA RotationOperators == \A S : Rotation!Cardinality(S) = Cardinality(S)
BY DEF Rotation!Cardinality, Cardinality

\* How many candidates there are: as many as the list is long.
LEMMA CandidatesCounted ==
  ASSUME TypeOK, RotationInv
  PROVE  /\ \A c : c \in ToSet(pending_admins) <=> Contains(pending_admins, c)
         /\ Cardinality(ToSet(pending_admins)) = Len(pending_admins)
         /\ ToSet(pending_admins) \subseteq Admin
<1>1. pending_admins \in Seq(Admin) /\ IsInjective(pending_admins)
  BY DEF TypeOK, RotationInv, PendingBounded
<1>. QED
  BY <1>1, ToSetContains, InjectiveCardinality, ElementOfSeq, LenProperties DEF ToSet

\* A new candidate has no endorsers, whatever is left from before.
LEMMA ProposeRefines ==
  ASSUME TypeOK, RotationInv, NEW c \in Admin, ProposeAdmin(c),
         ~(UNCHANGED <<pending_admins, approvals, endorsed>>)
  PROVE  Rotation!Propose(c)
<1>1. /\ ~AlreadyProposed(c)
      /\ Len(pending_admins) < MaxPendingAdmins
      /\ pending_admins' = Append(pending_admins, c)
      /\ approvals' = [approvals EXCEPT ![c] = <<>>]
      /\ UNCHANGED <<admin, threshold>>
      /\ admin # Absent /\ admin \in signers'
  BY DEF ProposeAdmin, ResetApprovals, RequireAdmin
<1>2. pending_admins \in Seq(Admin) /\ pending_admins' \in Seq(Admin)
  BY <1>1, AppendProperties DEF TypeOK
<1>3. ToSet(pending_admins') = ToSet(pending_admins) \cup {c}
  <2>1. \A d : Contains(pending_admins', d) <=> Contains(pending_admins, d) \/ d = c
    BY <1>1, <1>2, AppendContains
  <2>2. \A d : d \in ToSet(pending_admins') <=> Contains(pending_admins', d)
    BY <1>2, ToSetContains
  <2>. QED  BY <2>1, <2>2, CandidatesCounted
<1>4. c \notin ToSet(pending_admins) /\ Cardinality(ToSet(pending_admins)) < MaxPendingAdmins
  BY <1>1, CandidatesCounted DEF AlreadyProposed
<1>5. ToSet(approvals'[c]) = {} /\ \A d \in Admin \ {c} : approvals'[d] = approvals[d]
  BY <1>1 DEF TypeOK, ToSet
<1>6. ToSet(pending_admins) \subseteq Admin
  BY CandidatesCounted
<1>7. Endorsers' = [d \in ToSet(pending_admins) \cup {c} |-> IF d = c THEN {} ELSE Endorsers[d]]
  BY <1>3, <1>5, <1>6 DEF Endorsers
<1>. QED
  BY <1>1, <1>4, <1>7, RotationOperators
  DEF Rotation!Propose, Rotation!AdminAgrees, Rotation!Candidates, Endorsers

\* An approval is one endorser more, and the one that completes the quorum is
\* the take-over.
LEMMA ApproveRefines ==
  ASSUME TypeOK, RotationInv, NEW e \in Admin, NEW c \in Admin, ApproveAdmin(e, c)
  PROVE  Rotation!Endorse(c, e) \/ Rotation!TakeOver(c, e)
<1>1. /\ Contains(pending_admins, c) /\ ~Contains(approvals[c], e)
      /\ approvals' = [approvals EXCEPT ![c] = Append(approvals[c], e)]
      /\ threshold' = threshold
      /\ admin # Absent /\ {admin, e} \subseteq signers'
  BY DEF ApproveAdmin, AlreadyApproved, RequireAdmin
<1>2. c \in ToSet(pending_admins) /\ ToSet(pending_admins) \subseteq Admin
  BY <1>1, CandidatesCounted
<1>3. /\ approvals[c] \in Seq(Admin)
      /\ approvals'[c] \in Seq(Admin) /\ approvals'[c] = Append(approvals[c], e)
      /\ \A d \in Admin \ {c} : approvals'[d] = approvals[d]
  BY <1>1, AppendProperties DEF TypeOK
<1>4. e \notin ToSet(approvals[c]) /\ ToSet(approvals'[c]) = ToSet(approvals[c]) \cup {e}
  <2>1. \A d : Contains(approvals'[c], d) <=> Contains(approvals[c], d) \/ d = e
    BY <1>3, AppendContains
  <2>2. \A d : d \in ToSet(approvals[c]) <=> Contains(approvals[c], d)
    BY <1>3, ToSetContains
  <2>3. \A d : d \in ToSet(approvals'[c]) <=> Contains(approvals'[c], d)
    BY <1>3, ToSetContains
  <2>. QED  BY <1>1, <2>1, <2>2, <2>3
<1>5. Cardinality(ToSet(approvals[c]) \cup {e}) = Len(approvals'[c])
  <2>1. IsInjective(approvals'[c])
    BY ApproveCounts
  <2>2. Cardinality(ToSet(approvals'[c])) = Len(approvals'[c])
    BY <1>3, <2>1, InjectiveCardinality
  <2>. QED  BY <1>4, <2>2
<1>6. Endorsers[c] = ToSet(approvals[c]) /\ DOMAIN Endorsers = ToSet(pending_admins)
  BY <1>2 DEF Endorsers
<1>7. CASE ThresholdMet(approvals'[c])
  <2>1. admin' = c /\ pending_admins' = PendingAfterPromotion(c)
    BY <1>7 DEF ApproveAdmin
  <2>2. ToSet(pending_admins') = ToSet(pending_admins) \ {c}
    <3>1. /\ PendingAfterPromotion(c) \in Seq(Admin)
          /\ ToSet(PendingAfterPromotion(c)) \subseteq ToSet(pending_admins)
          /\ ~Contains(PendingAfterPromotion(c), c)
      BY ApproveWithdraws
    <3>2. \A d : d # c /\ Contains(pending_admins, d) => Contains(PendingAfterPromotion(c), d)
      BY RemoveFirstProperties DEF TypeOK, PendingAfterPromotion
    <3>3. \A d : d \in ToSet(PendingAfterPromotion(c)) <=> Contains(PendingAfterPromotion(c), d)
      BY <3>1, ToSetContains
    <3>. QED  BY <2>1, <3>1, <3>2, <3>3, CandidatesCounted
  <2>3. Endorsers' = [d \in ToSet(pending_admins) \ {c} |-> Endorsers[d]]
    BY <1>2, <1>3, <2>2 DEF Endorsers
  <2>4. Cardinality(Endorsers[c] \cup {e}) >= threshold
    BY <1>5, <1>6, <1>7 DEF ThresholdMet
  <2>5. Rotation!TakeOver(c, e)
    BY <1>1, <1>2, <1>4, <1>6, <2>1, <2>3, <2>4, RotationOperators
    DEF Rotation!TakeOver, Rotation!AdminAgrees, Rotation!Candidates, Endorsers
  <2>. QED  BY <2>5
<1>8. CASE ~ThresholdMet(approvals'[c])
  <2>1. UNCHANGED <<admin, pending_admins>>
    BY <1>8 DEF ApproveAdmin
  <2>2. Endorsers' = [Endorsers EXCEPT ![c] = ToSet(approvals[c]) \cup {e}]
    BY <1>2, <1>3, <1>4, <2>1 DEF Endorsers
  <2>3. Cardinality(Endorsers[c] \cup {e}) < threshold
    <3>1. Len(approvals'[c]) \in Nat /\ threshold \in Nat
      BY <1>3, LenProperties DEF TypeOK
    <3>. QED  BY <1>5, <1>6, <1>8, <3>1 DEF ThresholdMet
  <2>4. Rotation!Endorse(c, e)
    BY <1>1, <1>2, <1>4, <1>6, <2>1, <2>2, <2>3, RotationOperators
    DEF Rotation!Endorse, Rotation!AdminAgrees, Rotation!Candidates, Endorsers
  <2>. QED  BY <2>4
<1>. QED  BY <1>7, <1>8

\* Roles, permissions and metadata do not show in the rotation; every other
\* step is one of it or changes nothing of it.
LEMMA RotationStepRefines ==
  ASSUME TypeOK, RotationInv, [Next]_vars
  PROVE  [Rotation!Next]_(Rotation!rotationVars)
<1>1. CASE UNCHANGED <<admin, pending_admins, threshold, approvals>>
  BY <1>1 DEF Rotation!rotationVars
<1>2. ASSUME NEW a \in Admin, Initialize(a)
      PROVE  Rotation!Claim
  BY <1>2 DEF Initialize, Rotation!Claim
<1>3. ASSUME NEW t \in Thresholds, SetAdminThreshold(t)
      PROVE  Rotation!SetQuorum
  BY <1>3, BoundAssumption
  DEF SetAdminThreshold, RequireAdmin, Rotation!SetQuorum, Rotation!AdminAgrees
<1>4. ASSUME NEW c \in Admin, ProposeAdmin(c)
      PROVE  Rotation!Propose(c) \/ UNCHANGED <<admin, pending_admins, threshold, approvals>>
  BY <1>4, ProposeRefines DEF ProposeAdmin
<1>5. \/ UNCHANGED <<admin, pending_admins, threshold, approvals>>
      \/ \E a \in Admin : Initialize(a)
      \/ \E t \in Thresholds : SetAdminThreshold(t)
      \/ \E c \in Admin : ProposeAdmin(c)
      \/ \E e, c \in Admin : ApproveAdmin(e, c)
  BY DEF Next, RoleStep, RotationStep, Upgrade, CreateRole, GrantRole, RevokeRole, SetMetadata,
         adminVars, vars
<1>. QED
  BY <1>1, <1>2, <1>3, <1>4, <1>5, ApproveRefines DEF Rotation!Next

\* The contract implements the rotation of an administrator by quorum.
THEOREM PermissionsImplementRotation == Spec => ImplementsQuorumRotation
<1>1. Init => Rotation!Init
  BY DEF Init, Rotation!Init, ToSet
<1>2. TypeOK /\ RotationInv /\ [Next]_vars => [Rotation!Next]_(Rotation!rotationVars)
  BY RotationStepRefines
<1>. QED
  BY <1>1, <1>2, TypeCorrect, RotationInvariance, PTL
  DEF Spec, ImplementsQuorumRotation, Rotation!Spec

\* Nothing is configured without the signature of the admin of the moment.
THEOREM AdminSigns == Spec => AdminControls
<1>1. [Next]_vars =>
        [admin # Absent /\ <<roleVars, adminVars, metadata>>' # <<roleVars, adminVars, metadata>> =>
           admin \in signers']_vars
  <2> SUFFICES ASSUME [Next]_vars, admin # Absent,
                      <<roleVars, adminVars, metadata>>' # <<roleVars, adminVars, metadata>>
               PROVE  admin \in signers'
    OBVIOUS
  <2>1. ~(UNCHANGED vars)
    BY DEF vars
  <2>2. ~(\E a \in Admin : Initialize(a))
    BY DEF Initialize
  <2>3. CASE RoleStep
    BY <2>3 DEF RoleStep, Upgrade, CreateRole, GrantRole, RevokeRole, SetMetadata, RequireAdmin
  <2>4. CASE RotationStep
    BY <2>4 DEF RotationStep, SetAdminThreshold, ProposeAdmin, ApproveAdmin, RequireAdmin
  <2>. QED  BY <2>1, <2>2, <2>3, <2>4 DEF Next
<1>. QED
  BY <1>1, PTL DEF Spec, AdminControls
=============================================================================
