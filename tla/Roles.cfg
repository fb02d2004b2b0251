CONSTANTS
  Role = {sa, a, b}
  SystemRole = {sa}
  User = {u, v}
  Req = {q1, q2}
  Perm = {rm, um}
  RolesManage = rm
  UsersCreate = um
  UsersModify = um
  MaxRoleDepth = 3
  MaxAncestorWalk = 4
  None = None
SYMMETRY Perms
SPECIFICATION Spec
INVARIANTS TypeOK NoOrphan
PROPERTIES MovesKeepForest WithinCeiling OwnReachOnly
CHECK_DEADLOCK FALSE
