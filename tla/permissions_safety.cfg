SPECIFICATION Spec
CONSTANTS
  Admin = {x1, x2}
  Account = {u1, u2}
  Role = {r1, r2}
  PermissionSets = {{p1}, {p1, p2}}
  Thresholds = {0, 1, 2}
  Meta = {m1}
  Absent = Absent
  MaxRoleMembers = 1
  MaxRolesPerAccount = 2
  MaxPendingAdmins = 2
SYMMETRY MCSymmetry
INVARIANTS
  TypeOK
  RolesConsistent
  PermissionsAreMemberships
  RotationSound
PROPERTIES
  ImplementsQuorumRotation
  AdminControls
