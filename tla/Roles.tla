------------------------------ MODULE Roles ------------------------------
(***************************************************************************)
(* The forest of roles and the requests that change it.  A role confers    *)
(* its own grants cut down by those of every role above it, computed anew  *)
(* for every request.  A request loads its user's permissions, runs its    *)
(* checks, and writes, and no transaction spans the three: other requests  *)
(* run in between.                                                         *)
(*                                                                         *)
(* A request that a check refuses ends without a write.  Names,            *)
(* descriptions, the confirmation page, dashboard visibility and the audit *)
(* record are left out; of an account only its role is kept.               *)
(***************************************************************************)
EXTENDS Naturals, FiniteSets

CONSTANTS
    Role,            \* the roles that exist or may be created
    SystemRole,      \* the seeded ones: roots, never moved or deleted
    User,
    Req,             \* the requests; each is made once
    Perm,            \* Permission::ALL
    RolesManage, UsersCreate, UsersModify,
    MaxRoleDepth,
    MaxAncestorWalk,
    None

ASSUME RolesAssumption ==
    /\ SystemRole \subseteq Role /\ SystemRole # {}
    /\ {RolesManage, UsersCreate, UsersModify} \subseteq Perm
    /\ None \notin Role \cup User
    /\ MaxAncestorWalk \in Nat \ {0} /\ MaxRoleDepth \in 0..MaxAncestorWalk
    /\ IsFiniteSet(Role)

VARIABLES
    exists,          \* the rows of the table of roles
    gone,            \* the ids of deleted ones, which are UUIDs and never come back
    parent,          \* parent_role_id
    grants,          \* role_permissions
    userRole,        \* user_roles: at most one row for a user
    req,             \* where each request is, and what it has read so far
    fresh            \* the requests nobody has interfered with (see Touch)

vars == <<exists, gone, parent, grants, userRole, req, fresh>>

-----------------------------------------------------------------------------
(* Walks up the forest *)

\* The role n hops above r, as a set: empty past the root.
AtHop(r, n) ==
    LET up[k \in 0..n] ==
            IF k = 0 THEN {r} ELSE {parent[x] : x \in up[k - 1] \cap exists} \ {None}
    IN  up[n]

\* r and the roles above it, as far as so many hops reach.
Chain(r, hops) == UNION {AtHop(r, n) : n \in 0..hops}

is_within_subtree(r, root) == root \in Chain(r, MaxAncestorWalk)

depth_of(r) == Cardinality({n \in 0..MaxAncestorWalk : AtHop(r, n) # {}})

(* Mutant: only a role that would be its own parent is a cycle. *)
CycleOfTwo(r, to) == to = r

would_create_cycle(r, to) == is_within_subtree(to, r)

descendants_of(r) == {c \in exists : \E n \in 1..MaxAncestorWalk : r \in AtHop(c, n)}

\* The walk for permissions makes one hop fewer.
effective_permissions_for_role(r) ==
    {p \in Perm : \A a \in Chain(r, MaxAncestorWalk - 1) : p \in grants[a]}

effective_permissions(u) ==
    IF userRole[u] = None THEN {} ELSE effective_permissions_for_role(userRole[u])

-----------------------------------------------------------------------------
(* What the user of a request may do, from the permissions it has loaded *)

has_no_ceiling(ps) == ps = Perm

(* Mutant: a delegated admin may manage the role it holds itself. *)
ManageOwnRole(u, ps, r) ==
    /\ RolesManage \in ps
    /\ \/ has_no_ceiling(ps)
       \/ r \notin SystemRole /\ userRole[u] # None /\ is_within_subtree(r, userRole[u])

ensure_can_manage_role(u, ps, r) ==
    /\ RolesManage \in ps
    /\ \/ has_no_ceiling(ps)
       \/ /\ r \notin SystemRole
          /\ userRole[u] \notin {r, None}
          /\ is_within_subtree(r, userRole[u])

assignable_roles(u, ps) ==
    IF has_no_ceiling(ps) THEN exists
    ELSE IF userRole[u] = None THEN {}
    ELSE descendants_of(userRole[u]) \cup {userRole[u]}

\* The most that a role under `to` may be granted by a user with ps.
Cap(ps, to) ==
    ps \cap (IF to = None THEN Perm ELSE effective_permissions_for_role(to))

-----------------------------------------------------------------------------
(* Requests *)

NoWork == [op |-> "none", role |-> None, to |-> None, set |-> {}, who |-> None]

Work ==
    [op : {"none", "create", "grant", "move", "delete", "apply", "assign"},
     role : Role \cup {None}, to : Role \cup {None}, set : SUBSET Perm,
     who : User \cup {None}]

Requests ==
    [st : {"new", "checking", "writing", "done"}, user : User \cup {None},
     perms : SUBSET Perm, work : Work]

Fresh == [st |-> "new", user |-> None, perms |-> {}, work |-> NoWork]

\* Any shallow forest: one without a ceiling can set up every one of them,
\* and trim any role's grants.  Of the seeded roles one, super_admin, has them all.
Init ==
    /\ exists \in {R \in SUBSET Role : SystemRole \subseteq R}
    /\ gone = {}
    /\ parent \in {par \in [Role -> exists \cup {None}] :
                     /\ \A r \in Role : r \notin exists \/ r \in SystemRole => par[r] = None
                     /\ \E d \in [Role -> 1..MaxRoleDepth] :
                          \A r \in Role : par[r] # None => d[par[r]] < d[r]}
    /\ grants \in {g \in [Role -> SUBSET Perm] :
                     /\ \A r \in Role \ exists : g[r] = {}
                     /\ \E r \in SystemRole : g[r] = Perm}
    /\ userRole \in [User -> exists \cup {None}]
    /\ req = [q \in Req |-> Fresh]
    /\ fresh = {}

\* q is over when its write ends it, and makes stale what others have read.
Touch(q, stale) == fresh' = {p \in fresh \ stale : req'[p].st # "done"}

Others(q) == Req \ {q}

\* CurrentUser: the permissions are resolved once, before the handler runs.  The
\* walk up, a query for each role, is one step here.
Authenticate(q) ==
    /\ req[q].st = "new"
    /\ \E u \in User :
          req' = [req EXCEPT ![q] = [@ EXCEPT !.st = "checking", !.user = u,
                                               !.perms = effective_permissions(u)]]
    /\ fresh' = fresh \cup {q}
    /\ UNCHANGED <<exists, gone, parent, grants, userRole>>

\* The checks of q have passed, and w is what it will write.
Checked(q, w) ==
    /\ req' = [req EXCEPT ![q] = [@ EXCEPT !.st = "writing", !.work = w]]
    /\ UNCHANGED <<exists, gone, parent, grants, userRole, fresh>>

Finish(q) == req' = [req EXCEPT ![q] = [Fresh EXCEPT !.st = "done"]]

create_role(q) ==
    LET ps == req[q].perms IN
    /\ RolesManage \in ps
    /\ \E to \in exists \cup {None}, set \in SUBSET Perm :
          /\ IF to = None THEN has_no_ceiling(ps)
             ELSE /\ to \in assignable_roles(req[q].user, ps)
                  /\ depth_of(to) + 1 <= MaxRoleDepth
          /\ set \subseteq Cap(ps, to)
          /\ Checked(q, [NoWork EXCEPT !.op = "create", !.to = to, !.set = set])

\* A parent that stays as it was is written again, unchecked.
edit_role(q) ==
    LET ps == req[q].perms IN
    /\ RolesManage \in ps
    /\ \E r \in exists \ SystemRole, to \in exists \cup {None} :
          /\ ensure_can_manage_role(req[q].user, ps, r)
          /\ to # parent[r] =>
                IF to = None THEN has_no_ceiling(ps)
                ELSE /\ ~would_create_cycle(r, to)
                     /\ to \in assignable_roles(req[q].user, ps)
                     /\ depth_of(to) + 1 <= MaxRoleDepth
          /\ Checked(q, [NoWork EXCEPT !.op = "move", !.role = r, !.to = to])

(* Mutant: system roles are not told apart. *)
DeleteAny(q) ==
    \E r \in exists :
       /\ ensure_can_manage_role(req[q].user, req[q].perms, r)
       /\ \A u \in User : userRole[u] # r
       /\ \A c \in exists : parent[c] # r
       /\ Checked(q, [NoWork EXCEPT !.op = "delete", !.role = r])

delete_role(q) ==
    LET ps == req[q].perms IN
    \E r \in exists \ SystemRole :
       /\ ensure_can_manage_role(req[q].user, ps, r)
       /\ \A u \in User : userRole[u] # r
       /\ \A c \in exists : parent[c] # r
       /\ Checked(q, [NoWork EXCEPT !.op = "delete", !.role = r])

\* What the user sends is cut down to the cap; what the role has beyond the
\* cap is read here and written back.
apply_permissions(q) ==
    LET ps == req[q].perms IN
    \E r \in exists, requested \in SUBSET Perm :
       LET cap == Cap(ps, parent[r]) IN
       /\ ensure_can_manage_role(req[q].user, ps, r)
       /\ Checked(q, [NoWork EXCEPT !.op = "apply", !.role = r,
                                    !.set = (requested \cap cap) \cup (grants[r] \ cap)])

(* Mutant: the new role is taken from the form, which only offers assignable ones. *)
ChangeToAny(q) ==
    /\ UsersModify \in req[q].perms
    /\ \E u \in User \ {req[q].user}, r \in exists :
          /\ userRole[u] \in assignable_roles(req[q].user, req[q].perms)
          /\ Checked(q, [NoWork EXCEPT !.op = "assign", !.role = r, !.who = u])

change_role(q) ==
    LET ps == req[q].perms
        may == assignable_roles(req[q].user, ps)
    IN
    /\ UsersModify \in ps
    /\ \E u \in User \ {req[q].user}, r \in may :
          /\ has_no_ceiling(ps) \/ userRole[u] \in may
          /\ Checked(q, [NoWork EXCEPT !.op = "assign", !.role = r, !.who = u])

\* A new account has no role until the write.
create_user(q) ==
    LET ps == req[q].perms IN
    /\ UsersCreate \in ps
    /\ \E u \in User \ {req[q].user}, r \in assignable_roles(req[q].user, ps) :
          /\ userRole[u] = None
          /\ Checked(q, [NoWork EXCEPT !.op = "assign", !.role = r, !.who = u])

Refuse(q) ==
    /\ req[q].st = "checking"
    /\ Finish(q)
    /\ fresh' = fresh \ {q}
    /\ UNCHANGED <<exists, gone, parent, grants, userRole>>

Writing(q, op) == req[q].st = "writing" /\ req[q].work.op = op

\* The insert, refused by the foreign key when the parent has gone.
Create(q) ==
    /\ Writing(q, "create")
    /\ LET w == req[q].work IN
       IF w.to \in exists \cup {None}
       THEN \E r \in Role \ (exists \cup gone) :
               /\ exists' = exists \cup {r}
               /\ parent' = [parent EXCEPT ![r] = w.to]
               /\ req' = [req EXCEPT ![q].work = [w EXCEPT !.op = "grant", !.role = r]]
       ELSE Finish(q) /\ UNCHANGED <<exists, parent>>
    /\ Touch(q, {})
    /\ UNCHANGED <<gone, grants, userRole>>

\* set_permissions: a transaction, refused when the role has gone.
SetPermissions(q) ==
    /\ Writing(q, "grant") \/ Writing(q, "apply")
    /\ LET w == req[q].work IN
       grants' = IF w.role \in exists THEN [grants EXCEPT ![w.role] = w.set] ELSE grants
    /\ Finish(q)
    /\ Touch(q, Others(q))
    /\ UNCHANGED <<exists, gone, parent, userRole>>

\* An update of no row when the role has gone; refused when the parent has.
Update(q) ==
    /\ Writing(q, "move")
    /\ LET w == req[q].work IN
       parent' = IF w.role \in exists /\ w.to \in exists \cup {None}
                 THEN [parent EXCEPT ![w.role] = w.to] ELSE parent
    /\ Finish(q)
    /\ Touch(q, Others(q))
    /\ UNCHANGED <<exists, gone, grants, userRole>>

(* Mutant: the schema leaves children to the handler's own check. *)
DeleteUnrestricted(q) ==
    /\ Writing(q, "delete")
    /\ LET r == req[q].work.role IN
       /\ exists' = exists \ {r} /\ gone' = gone \cup {r}
       /\ parent' = [parent EXCEPT ![r] = None]
       /\ grants' = [grants EXCEPT ![r] = {}]
       /\ userRole' = [u \in User |-> IF userRole[u] = r THEN None ELSE userRole[u]]
    /\ Finish(q)
    /\ Touch(q, {})

\* ON DELETE RESTRICT for children, ON DELETE CASCADE for grants and users.
Delete(q) ==
    /\ Writing(q, "delete")
    /\ LET r == req[q].work.role IN
       IF r \in exists /\ \A c \in exists : parent[c] # r
       THEN /\ exists' = exists \ {r} /\ gone' = gone \cup {r}
            /\ parent' = [parent EXCEPT ![r] = None]
            /\ grants' = [grants EXCEPT ![r] = {}]
            /\ userRole' = [u \in User |-> IF userRole[u] = r THEN None ELSE userRole[u]]
       ELSE UNCHANGED <<exists, gone, parent, grants, userRole>>
    /\ Finish(q)
    /\ Touch(q, {})

\* set_user_role: a transaction, rolled back when the role has gone.
SetUserRole(q) ==
    /\ Writing(q, "assign")
    /\ LET w == req[q].work IN
       userRole' = IF w.role \in exists THEN [userRole EXCEPT ![w.who] = w.role] ELSE userRole
    /\ Finish(q)
    /\ Touch(q, {p \in Req : req[p].user = req[q].work.who})
    /\ UNCHANGED <<exists, gone, parent, grants>>

Check(q) ==
    /\ req[q].st = "checking"
    /\ \/ create_role(q) \/ edit_role(q) \/ delete_role(q) \/ apply_permissions(q)
       \/ change_role(q) \/ create_user(q)

Write(q) ==
    \/ Create(q) \/ SetPermissions(q) \/ Update(q) \/ Delete(q) \/ SetUserRole(q)

Next == \E q \in Req : Authenticate(q) \/ Check(q) \/ Refuse(q) \/ Write(q)

Spec == Init /\ [][Next]_vars

-----------------------------------------------------------------------------

(* State has its type, and a system role is always there. *)
TypeOK ==
    /\ exists \subseteq Role /\ SystemRole \subseteq exists /\ gone \subseteq Role
    /\ parent \in [Role -> Role \cup {None}]
    /\ grants \in [Role -> SUBSET Perm]
    /\ userRole \in [User -> Role \cup {None}]
    /\ req \in [Req -> Requests]
    /\ fresh \subseteq Req

(* Whatever requests overlap, a role never hangs below one that is gone, where
   nothing would cap it, and no user holds one that is gone: what the checks of
   create_role, edit_role and delete_role have read may be stale, and the foreign
   keys catch it. *)
NoOrphan ==
    /\ \A r \in exists : parent[r] \in exists \cup {None}
    /\ \A u \in User : userRole[u] \in exists \cup {None}

Forest == \A r \in exists : \A n \in 1..Cardinality(Role) : r \notin AtHop(r, n)

\* q writes in this step, and since it was authenticated no other request has moved
\* a role, changed its grants or given its user another role.
Undisturbed(q) == q \in fresh /\ req[q].st = "writing" /\ req'[q] # req[q]

(* edit_role makes no cycle, as long as no other move or change of grants falls
   between its authentication and its write; roles may come and go in between.  Two
   moves at once may make one. *)
MovesKeepForest ==
    [][\A q \in Req : Undisturbed(q) /\ Forest => Forest']_vars

\* No chain is longer than the walk for permissions, which would not see its root.
\* A comment on MAX_ANCESTOR_WALK says the checks see to it; they do not look at
\* what hangs below a role that moves.
Shallow == \A r \in exists : AtHop(r, MaxAncestorWalk) = {}

(* Nobody hands out more than they hold: an undisturbed write gives no user a
   permission that its author did not have, be it by a grant, a new role, a move or
   an assignment. *)
WithinCeiling ==
    [][\A q \in Req : Undisturbed(q) /\ Shallow' =>
         \A u \in User :
            effective_permissions(u)' \subseteq effective_permissions(u) \cup req[q].perms]_vars

(* A delegated admin reaches only the roles below its own: what it may do itself,
   and what any role elsewhere confers, an undisturbed write leaves as it was. *)
OwnReachOnly ==
    [][\A q \in Req, u \in User :
         Undisturbed(q) /\ Shallow /\ u = req[q].user /\ ~has_no_ceiling(req[q].perms) =>
            /\ effective_permissions(u)' = effective_permissions(u)
            /\ \A r \in exists :
                  ~is_within_subtree(r, userRole[u]) =>
                     effective_permissions_for_role(r)' = effective_permissions_for_role(r)]_vars
=============================================================================
