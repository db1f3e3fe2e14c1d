--------------------------- MODULE MuxPermissions ---------------------------
(***************************************************************************)
(* contracts/mux-permissions: roles, the permissions they carry, the       *)
(* accounts that hold them, and an admin who is replaced by a proposal     *)
(* with approvals.                                                         *)
(*                                                                         *)
(* Membership is stored twice: RoleMembers lists the accounts of a role,   *)
(* AccountRoles the roles of an account. Grants and revocations are        *)
(* decided by the first, permission checks read the second.                *)
(*                                                                         *)
(* One action per entrypoint that can change state and return Ok; an       *)
(* entrypoint that returns Err is rolled back by the host. Removing by     *)
(* iter().position(..) and remove is RemoveFirst.                          *)
(*                                                                         *)
(* History: signers is who the latest invocation required the signature    *)
(* of, recreated the roles created while they existed, endorsed who signed *)
(* for a candidate since the candidate was last proposed.                  *)
(***************************************************************************)
EXTENDS Naturals, SequencesExt

CONSTANTS
  Admin,              \* addresses that administer, are proposed or approve
  Account,            \* addresses that are granted roles
  Role,
  PermissionSets,     \* permission lists offered to create_role, as sets
  Thresholds,         \* values offered to set_admin_threshold
  Meta,               \* metadata values
  Absent,             \* no entry under a storage key
  MaxRoleMembers,     \* MAX_ROLE_MEMBERS
  MaxRolesPerAccount, \* MAX_ROLES_PER_ACCOUNT
  MaxPendingAdmins    \* MAX_PENDING_ADMINS

Permission == UNION PermissionSets

ASSUME AbsentAssumption == Absent \notin Admin \cup Meta
ASSUME BoundAssumption ==
  /\ {MaxRoleMembers, MaxRolesPerAccount, MaxPendingAdmins} \subseteq Nat
  /\ Thresholds \subseteq Nat

VARIABLES
  admin,           \* DataKey::Admin
  roles,           \* roles that have the two entries below; else they read as empty
  members,         \* DataKey::RoleMembers(role)
  permissions,     \* DataKey::RolePermissions(role)
  account_roles,   \* DataKey::AccountRoles(account)
  pending_admins,  \* DataKey::PendingAdmins
  threshold,       \* DataKey::AdminThreshold, 1 when it was never set
  approvals,       \* DataKey::AdminApprovals(candidate)
  metadata,        \* DataKey::Metadata
  signers, recreated, endorsed \* history

roleVars == <<roles, members, permissions, account_roles, recreated>>
adminVars == <<admin, pending_admins, threshold, approvals, endorsed>>
vars == <<roleVars, adminVars, metadata, signers>>

Init ==
  /\ admin = Absent
  /\ roles = {}
  /\ members = [r \in Role |-> <<>>]
  /\ permissions = [r \in Role |-> {}]
  /\ account_roles = [a \in Account |-> <<>>]
  /\ pending_admins = <<>>
  /\ threshold = 1
  /\ approvals = [c \in Admin |-> <<>>]
  /\ metadata = Absent
  /\ signers = {}
  /\ recreated = {}
  /\ endorsed = [c \in Admin |-> {}]

-----------------------------------------------------------------------------
(* Helpers. The definitions marked "Mutant" are plausible slips in the     *)
(* operator that follows; no specification here uses them.                 *)

\* Mutant: require_auth forgotten.
RequireAdminUnsigned(others) == admin # Absent /\ signers' = others

RequireAdmin(others) == admin # Absent /\ signers' = {admin} \cup others

\* Mutant: a role nobody created can be granted.
RoleExistsAny(r) == r \in Role

RoleExists(r) == r \in roles

IsMember(a, r) == Contains(members[r], a)

\* check_permission_inner: through any role the account lists.
HasPermission(a, p) ==
  \E r \in ToSet(account_roles[a]) : p \in permissions[r]

\* Mutant: off by one in both caps.
RoomForGrantOneMore(a, r) ==
  /\ Len(members[r]) <= MaxRoleMembers
  /\ Len(account_roles[a]) <= MaxRolesPerAccount

RoomForGrant(a, r) ==
  /\ Len(members[r]) < MaxRoleMembers
  /\ Len(account_roles[a]) < MaxRolesPerAccount

\* Mutant: the roles of the account are left alone.
RolesAfterRevokeKept(a, r) == IF r \in Role THEN account_roles[a] ELSE <<>>

RolesAfterRevoke(a, r) == RemoveFirst(account_roles[a], r)

AlreadyProposed(c) == Contains(pending_admins, c)

\* Mutant: the approvals of an earlier proposal are kept.
ResetApprovalsNever(c) == [approvals EXCEPT ![c] = @]

ResetApprovals(c) == [approvals EXCEPT ![c] = <<>>]

AlreadyApproved(approver, c) == Contains(approvals[c], approver)

PendingAfterPromotion(c) == RemoveFirst(pending_admins, c)

\* Mutant: off by one.
ThresholdMetEarly(signed) == Len(signed) + 1 >= threshold

ThresholdMet(signed) == Len(signed) >= threshold

-----------------------------------------------------------------------------
(* Roles. *)

Initialize(a) ==
  /\ admin = Absent
  /\ signers' = {a}
  /\ admin' = a
  /\ UNCHANGED <<roleVars, pending_admins, threshold, approvals, endorsed, metadata>>

\* Upgrade changes the code alone.
Upgrade ==
  /\ RequireAdmin({})
  /\ UNCHANGED <<roleVars, adminVars, metadata>>

\* Whether the role exists is not asked: its members are emptied, the lists
\* of the accounts that hold it are not.
CreateRole(r, ps) ==
  /\ RequireAdmin({})
  /\ roles' = roles \cup {r}
  /\ members' = [members EXCEPT ![r] = <<>>]
  /\ permissions' = [permissions EXCEPT ![r] = ps]
  /\ recreated' = IF RoleExists(r) THEN recreated \cup {r} ELSE recreated
  /\ UNCHANGED <<account_roles, adminVars, metadata>>

\* Ok without a change for a member; otherwise both lists grow.
GrantRole(a, r) ==
  /\ RequireAdmin({})
  /\ RoleExists(r)
  /\ \/ /\ IsMember(a, r)
        /\ UNCHANGED <<members, account_roles>>
     \/ /\ ~IsMember(a, r)
        /\ RoomForGrant(a, r)
        /\ members' = [members EXCEPT ![r] = Append(@, a)]
        /\ account_roles' = [account_roles EXCEPT ![a] = Append(@, r)]
  /\ UNCHANGED <<roles, permissions, recreated, adminVars, metadata>>

RevokeRole(a, r) ==
  /\ RequireAdmin({})
  /\ IsMember(a, r)
  /\ members' = [members EXCEPT ![r] = RemoveFirst(@, a)]
  /\ account_roles' = [account_roles EXCEPT ![a] = RolesAfterRevoke(a, r)]
  /\ UNCHANGED <<roles, permissions, recreated, adminVars, metadata>>

SetMetadata(meta) ==
  /\ RequireAdmin({})
  /\ metadata' = meta
  /\ UNCHANGED <<roleVars, adminVars>>

-----------------------------------------------------------------------------
(* Rotation of the admin. *)

SetAdminThreshold(t) ==
  /\ RequireAdmin({})
  /\ threshold' = t
  /\ UNCHANGED <<roleVars, admin, pending_admins, approvals, endorsed, metadata>>

\* Ok without a change for a candidate who is already proposed.
ProposeAdmin(c) ==
  /\ RequireAdmin({})
  /\ \/ /\ AlreadyProposed(c)
        /\ UNCHANGED <<pending_admins, approvals, endorsed>>
     \/ /\ ~AlreadyProposed(c)
        /\ Len(pending_admins) < MaxPendingAdmins
        /\ pending_admins' = Append(pending_admins, c)
        /\ approvals' = ResetApprovals(c)
        /\ endorsed' = [endorsed EXCEPT ![c] = {}]
  /\ UNCHANGED <<roleVars, admin, threshold, metadata>>

\* The admin and the approver both sign; nobody asks who the approver is. The
\* approvals of the promoted candidate stay stored.
ApproveAdmin(approver, c) ==
  /\ RequireAdmin({approver})
  /\ Contains(pending_admins, c)
  /\ ~AlreadyApproved(approver, c)
  /\ approvals' = [approvals EXCEPT ![c] = Append(@, approver)]
  /\ endorsed' = [endorsed EXCEPT ![c] = @ \cup {approver}]
  /\ IF ThresholdMet(approvals'[c])
     THEN admin' = c /\ pending_admins' = PendingAfterPromotion(c)
     ELSE UNCHANGED <<admin, pending_admins>>
  /\ UNCHANGED <<roleVars, threshold, metadata>>

-----------------------------------------------------------------------------

RoleStep ==
  \/ Upgrade
  \/ \E r \in Role, ps \in PermissionSets : CreateRole(r, ps)
  \/ \E a \in Account, r \in Role : GrantRole(a, r)
  \/ \E a \in Account, r \in Role : RevokeRole(a, r)
  \/ \E m \in Meta : SetMetadata(m)

RotationStep ==
  \/ \E t \in Thresholds : SetAdminThreshold(t)
  \/ \E c \in Admin : ProposeAdmin(c)
  \/ \E approver, c \in Admin : ApproveAdmin(approver, c)

Next ==
  \/ \E a \in Admin : Initialize(a)
  \/ RoleStep
  \/ RotationStep

Spec == Init /\ [][Next]_vars

-----------------------------------------------------------------------------
(* Invariants. *)

\* Types of every stored value (DataKey). Only roles that exist have members
\* or permissions or are listed by an account.
TypeOK ==
  /\ admin \in Admin \cup {Absent}
  /\ roles \subseteq Role
  /\ members \in [Role -> Seq(Account)]
  /\ permissions \in [Role -> SUBSET Permission]
  /\ account_roles \in [Account -> Seq(Role)]
  /\ pending_admins \in Seq(Admin)
  /\ threshold \in Nat
  /\ approvals \in [Admin -> Seq(Admin)]
  /\ metadata \in Meta \cup {Absent}
  /\ signers \subseteq Admin \cup {Absent}
  /\ recreated \subseteq Role
  /\ endorsed \in [Admin -> SUBSET Admin]
  /\ \A r \in Role \ roles : members[r] = <<>> /\ permissions[r] = {}
  /\ \A a \in Account : ToSet(account_roles[a]) \subseteq roles

\* Both caps hold at once, although a grant checks one of them before and one
\* after it has written, and no role counts a member twice (MAX_ROLE_MEMBERS,
\* MAX_ROLES_PER_ACCOUNT, grant_role).
ListsBounded ==
  /\ \A r \in Role : Len(members[r]) <= MaxRoleMembers /\ IsInjective(members[r])
  /\ \A a \in Account : Len(account_roles[a]) <= MaxRolesPerAccount

\* The two lists agree: a member holds the role, and as long as the role was
\* never created a second time only members hold it, once. What has_permission
\* reads is then what grant_role and revoke_role decided.
Listings(a, r) == {i \in 1..Len(account_roles[a]) : account_roles[a][i] = r}

MembershipAgrees ==
  \A a \in Account, r \in Role :
    /\ IsMember(a, r) => Listings(a, r) # {}
    /\ r \notin recreated => \A i, j \in Listings(a, r) : i = j /\ IsMember(a, r)

\* The members of the roles and the roles of the accounts are one bounded
\* relation, kept twice.
RolesConsistent == ListsBounded /\ MembershipAgrees

\* What a permission check answers is what the role lists say: a member of a
\* role has its permissions, and nobody else does, until a role is created a
\* second time (has_permission, check_permission_strict).
PermissionsAreMemberships ==
  \A a \in Account, p \in Permission :
    LET Granting == {r \in Role : p \in permissions[r]} IN
    /\ (\E r \in Granting : IsMember(a, r)) => HasPermission(a, p)
    /\ HasPermission(a, p) => \E r \in Granting : IsMember(a, r) \/ r \in recreated

\* Every approval stored for a candidate who is pending was signed by that
\* approver since this proposal was made, and counts once: neither the
\* promotion nor the approvals of an earlier proposal leak into it
\* (propose_admin resets what approve_admin leaves behind).
ApprovalsAreFresh ==
  \A c \in ToSet(pending_admins) :
    IsInjective(approvals[c]) /\ ToSet(approvals[c]) = endorsed[c]

\* A candidate is listed once, so that one promotion withdraws the proposal
\* (propose_admin, approve_admin), and the list is bounded.
PendingBounded == IsInjective(pending_admins) /\ Len(pending_admins) <= MaxPendingAdmins

\* What a rotation relies on: each pending candidate is listed once and only
\* the approvals of this proposal count for it.
RotationSound == PendingBounded /\ ApprovalsAreFresh

-----------------------------------------------------------------------------
(* Action properties. *)

\* After initialize the admin changes only to a pending candidate, in an
\* invocation the outgoing admin signed, with at least one approval and as
\* many different ones as the threshold asks for, and the proposal is then
\* withdrawn (approve_admin).
PromotionByQuorum ==
  [][admin # Absent /\ admin' # admin =>
       /\ admin \in signers'
       /\ \E c \in ToSet(pending_admins) :
            /\ admin' = c
            /\ Cardinality(endorsed'[c]) >= threshold
            /\ endorsed'[c] # {}
            /\ ~Contains(pending_admins', c)]_vars

\* No account gains or loses a permission, and nothing else is configured,
\* without the signature of the admin of the moment, in particular not with
\* that of one who was replaced (require_admin in every entrypoint).
AdminControls ==
  [][admin # Absent /\ <<roleVars, adminVars, metadata>>' # <<roleVars, adminVars, metadata>> =>
       admin \in signers']_vars

-----------------------------------------------------------------------------
(* Refinement. *)

\* The candidates are those pending, and what counts for one of them are the
\* stored approvals; what is stored for anybody else does not show.
Rotation == INSTANCE QuorumRotation WITH
  Principal <- Admin,
  Nobody <- Absent,
  Places <- MaxPendingAdmins,
  endorsers <- [c \in ToSet(pending_admins) |-> ToSet(approvals[c])],
  quorum <- threshold

\* The contract is one way of rotating an administrator by quorum, whatever the
\* order of proposals, approvals, promotions and changes of the threshold, and
\* although approvals outlive the candidacy they were given to (propose_admin,
\* approve_admin, set_admin_threshold).
ImplementsQuorumRotation == Rotation!Spec

-----------------------------------------------------------------------------
(* What the documentation says and the code does not do. *)

\* docs: once revoke_role has taken a role from an account, the account no
\* longer holds it.
RevocationTakesRole ==
  [][\A a \in Account, r \in Role :
       IsMember(a, r) /\ ~IsMember(a, r)' /\ account_roles'[a] # account_roles[a] =>
         r \notin ToSet(account_roles'[a])]_vars
=============================================================================
