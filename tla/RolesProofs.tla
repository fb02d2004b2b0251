---------------------------- MODULE RolesProofs ----------------------------
(***************************************************************************)
(* The properties of Roles, for every set of roles, users, requests and    *)
(* permissions.  That nothing hangs from a role that is gone rests on the  *)
(* conditions of the writes themselves, since what a request has read may  *)
(* be stale.  The action properties rest on what a request that nobody has *)
(* disturbed still knows when it writes.                                   *)
(***************************************************************************)
EXTENDS RoleWalks, FiniteSetTheorems

(* A request that is about to delete a role has seen that it is not a system one,
   and a role is system or not for good. *)
DeletesNoSystemRole ==
    \A q \in Req : req[q].work.op = "delete" => req[q].work.role \notin SystemRole

(* A request that runs its checks has been authenticated. *)
CheckedHasUser == \A q \in Req : req[q].st = "checking" => req[q].user \in User

Inv == TypeOK /\ NoOrphan /\ DeletesNoSystemRole /\ CheckedHasUser

(* The permissions a request loads are permissions. *)
LEMMA EffectiveIsPerms ==
    ASSUME NEW u PROVE effective_permissions(u) \in SUBSET Perm
  BY DEF effective_permissions, effective_permissions_for_role

(* A finished request and its empty work have their types. *)
LEMMA FreshFacts ==
    /\ NoWork \in Work /\ NoWork.op = "none"
    /\ [Fresh EXCEPT !.st = "done"] \in Requests
    /\ [Fresh EXCEPT !.st = "done"].work = NoWork
    /\ [Fresh EXCEPT !.st = "done"].st = "done"
    /\ Fresh \in Requests /\ Fresh.work = NoWork
  BY DEF Fresh, NoWork, Requests, Work

(* A request that has ended leaves nothing behind. *)
LEMMA FinishFacts ==
    ASSUME TypeOK, DeletesNoSystemRole, CheckedHasUser, NEW q \in Req, Finish(q)
    PROVE  req' \in [Req -> Requests] /\ DeletesNoSystemRole' /\ CheckedHasUser'
<1>1. req' \in [Req -> Requests]
  BY FreshFacts DEF Finish, TypeOK
<1>2. ASSUME NEW p \in Req
      PROVE  \/ req'[p].work = NoWork /\ req'[p].st = "done"
             \/ req'[p] = req[p]
  BY FreshFacts DEF Finish, TypeOK
<1> QED BY <1>1, <1>2, FreshFacts DEF DeletesNoSystemRole, CheckedHasUser

(* Checks write nothing but what the request has in mind. *)
LEMMA CheckedFacts ==
    ASSUME Inv, NEW q \in Req, NEW w \in Work, Checked(q, w),
           w.op = "delete" => w.role \notin SystemRole
    PROVE  Inv'
<1>1. req' \in [Req -> Requests]
  BY DEF Checked, Inv, TypeOK, Requests
<1>2. TypeOK'
  BY <1>1 DEF Checked, Inv, TypeOK
<1>3. NoOrphan'
  BY DEF Checked, Inv, NoOrphan
<1>4. ASSUME NEW p \in Req
      PROVE  /\ req'[p].work \in {w, req[p].work}
             /\ req'[p].st = "checking" => req'[p] = req[p]
  BY DEF Checked, Inv, TypeOK, Requests
<1>5. (DeletesNoSystemRole /\ CheckedHasUser)'
  BY <1>4 DEF Inv, DeletesNoSystemRole, CheckedHasUser
<1> QED BY <1>2, <1>3, <1>5 DEF Inv

(* Authentication reads the forest and leaves it alone. *)
LEMMA InvByAuthenticate ==
    ASSUME Inv, NEW q \in Req, Authenticate(q)
    PROVE  Inv'
<1>1. PICK u \in User :
        req' = [req EXCEPT ![q] = [@ EXCEPT !.st = "checking", !.user = u,
                                             !.perms = effective_permissions(u)]]
  BY DEF Authenticate
<1>2. req' \in [Req -> Requests] /\ \A p \in Req : req'[p].work = req[p].work
  BY <1>1, EffectiveIsPerms DEF Inv, TypeOK, Requests
<1>3. TypeOK'
  BY <1>2 DEF Authenticate, Inv, TypeOK
<1>4. CheckedHasUser'
  BY <1>1 DEF Inv, TypeOK, Requests, CheckedHasUser
<1> QED BY <1>2, <1>3, <1>4 DEF Authenticate, Inv, NoOrphan, DeletesNoSystemRole

(* Every check ends in a piece of work of the right type. *)
LEMMA InvByCheck ==
    ASSUME Inv, NEW q \in Req, Check(q)
    PROVE  Inv'
<1>0. exists \subseteq Role
  BY DEF Inv, TypeOK
<1>1. CASE create_role(q)
  <2>1. PICK to \in exists \cup {None}, set \in SUBSET Perm :
          Checked(q, [NoWork EXCEPT !.op = "create", !.to = to, !.set = set])
    BY <1>1 DEF create_role
  <2>2. /\ [NoWork EXCEPT !.op = "create", !.to = to, !.set = set] \in Work
        /\ [NoWork EXCEPT !.op = "create", !.to = to, !.set = set].op = "create"
    BY <1>0 DEF NoWork, Work
  <2> QED BY <2>1, <2>2, CheckedFacts
<1>2. CASE edit_role(q)
  <2>1. PICK r \in exists \ SystemRole, to \in exists \cup {None} :
          Checked(q, [NoWork EXCEPT !.op = "move", !.role = r, !.to = to])
    BY <1>2 DEF edit_role
  <2>2. /\ [NoWork EXCEPT !.op = "move", !.role = r, !.to = to] \in Work
        /\ [NoWork EXCEPT !.op = "move", !.role = r, !.to = to].op = "move"
    BY <1>0 DEF NoWork, Work
  <2> QED BY <2>1, <2>2, CheckedFacts
<1>3. CASE delete_role(q)
  <2>1. PICK r \in exists \ SystemRole :
          Checked(q, [NoWork EXCEPT !.op = "delete", !.role = r])
    BY <1>3 DEF delete_role
  <2>2. /\ [NoWork EXCEPT !.op = "delete", !.role = r] \in Work
        /\ [NoWork EXCEPT !.op = "delete", !.role = r].role = r
    BY <1>0 DEF NoWork, Work
  <2> QED BY <2>1, <2>2, CheckedFacts
<1>4. CASE apply_permissions(q)
  <2>1. PICK r \in exists, requested \in SUBSET Perm :
          Checked(q, [NoWork EXCEPT !.op = "apply", !.role = r,
                        !.set = (requested \cap Cap(req[q].perms, parent[r]))
                                  \cup (grants[r] \ Cap(req[q].perms, parent[r]))])
    BY <1>4 DEF apply_permissions
  <2> DEFINE set == (requested \cap Cap(req[q].perms, parent[r]))
                       \cup (grants[r] \ Cap(req[q].perms, parent[r]))
  <2>2. set \in SUBSET Perm
    BY <1>0 DEF Inv, TypeOK
  <2> HIDE DEF set
  <2>3. /\ [NoWork EXCEPT !.op = "apply", !.role = r, !.set = set] \in Work
        /\ [NoWork EXCEPT !.op = "apply", !.role = r, !.set = set].op = "apply"
    BY <1>0, <2>2 DEF NoWork, Work
  <2> QED BY <2>1, <2>3, CheckedFacts DEF set
<1>5. CASE change_role(q) \/ create_user(q)
  <2>0. assignable_roles(req[q].user, req[q].perms) \subseteq exists \cup {userRole[req[q].user]}
    BY DEF assignable_roles, descendants_of
  <2>1. PICK u \in User, r \in assignable_roles(req[q].user, req[q].perms) :
          Checked(q, [NoWork EXCEPT !.op = "assign", !.role = r, !.who = u])
    BY <1>5 DEF change_role, create_user
  <2>2. userRole[req[q].user] \in Role \cup {None}
    BY DEF Check, Inv, TypeOK, CheckedHasUser
  <2>3. /\ [NoWork EXCEPT !.op = "assign", !.role = r, !.who = u] \in Work
        /\ [NoWork EXCEPT !.op = "assign", !.role = r, !.who = u].op = "assign"
    BY <1>0, <2>0, <2>2 DEF NoWork, Work
  <2> QED BY <2>1, <2>3, CheckedFacts
<1> QED BY <1>1, <1>2, <1>3, <1>4, <1>5 DEF Check

(* A write ends its request, or goes on to the grants of the role it created. *)
LEMMA InvByWrite ==
    ASSUME Inv, NEW q \in Req, Write(q)
    PROVE  Inv'
<1> DEFINE w == req[q].work
<1>0. w \in Work
  BY DEF Inv, TypeOK, Requests
<1>1. CASE Create(q)
  <2>1. CASE w.to \notin exists \cup {None}
    BY <1>1, <2>1, FinishFacts DEF Create, Touch, Inv, TypeOK, NoOrphan
  <2>2. CASE w.to \in exists \cup {None}
    <3>1. PICK r \in Role \ (exists \cup gone) :
            /\ exists' = exists \cup {r}
            /\ parent' = [parent EXCEPT ![r] = w.to]
            /\ req' = [req EXCEPT ![q].work = [w EXCEPT !.op = "grant", !.role = r]]
      BY <1>1, <2>2 DEF Create
    <3>2. [w EXCEPT !.op = "grant", !.role = r] \in Work
          /\ [w EXCEPT !.op = "grant", !.role = r].op = "grant"
      BY <1>0 DEF Work
    <3>3. /\ req' \in [Req -> Requests]
          /\ \A p \in Req : /\ req'[p].st = req[p].st /\ req'[p].user = req[p].user
                            /\ req'[p].work.op = "grant" \/ req'[p].work = req[p].work
      BY <3>1, <3>2 DEF Inv, TypeOK, Requests
    <3>4. TypeOK'
      BY <1>1, <2>2, <3>1, <3>3 DEF Create, Touch, Inv, TypeOK
    <3>5. NoOrphan'
      BY <1>1, <2>2, <3>1 DEF Create, Inv, TypeOK, NoOrphan
    <3> QED BY <3>3, <3>4, <3>5 DEF Inv, DeletesNoSystemRole, CheckedHasUser
  <2> QED BY <2>1, <2>2
<1>2. CASE SetPermissions(q)
  <2>1. grants' \in [Role -> SUBSET Perm]
    BY <1>0, <1>2 DEF SetPermissions, Inv, TypeOK, Work
  <2> QED BY <1>2, <2>1, FinishFacts DEF SetPermissions, Touch, Inv, TypeOK, NoOrphan
<1>3. CASE Update(q)
  <2>1. parent' \in [Role -> Role \cup {None}]
        /\ \A r \in exists : parent'[r] \in exists \cup {None}
    BY <1>0, <1>3 DEF Update, Inv, TypeOK, NoOrphan, Work
  <2> QED BY <1>3, <2>1, FinishFacts DEF Update, Touch, Inv, TypeOK, NoOrphan
<1>4. CASE Delete(q)
  <2>1. w.role \notin SystemRole
    BY <1>4 DEF Delete, Writing, Inv, DeletesNoSystemRole
  <2>2. (CheckedHasUser /\ DeletesNoSystemRole)' /\ req' \in [Req -> Requests] /\ fresh' \subseteq Req
    BY <1>4, FinishFacts DEF Delete, Touch, Inv, TypeOK
  <2>3. CASE UNCHANGED <<exists, gone, parent, grants, userRole>>
    BY <2>2, <2>3 DEF Inv, TypeOK, NoOrphan
  <2>4. CASE /\ w.role \in exists /\ \A c \in exists : parent[c] # w.role
             /\ exists' = exists \ {w.role} /\ gone' = gone \cup {w.role}
             /\ parent' = [parent EXCEPT ![w.role] = None]
             /\ grants' = [grants EXCEPT ![w.role] = {}]
             /\ userRole' = [u \in User |-> IF userRole[u] = w.role THEN None ELSE userRole[u]]
    <3>1. TypeOK'
      BY <2>1, <2>2, <2>4 DEF Inv, TypeOK
    <3>2. NoOrphan'
      BY <2>4 DEF Inv, TypeOK, NoOrphan
    <3> QED BY <2>2, <3>1, <3>2 DEF Inv
  <2> QED BY <1>4, <2>3, <2>4 DEF Delete
<1>5. CASE SetUserRole(q)
  <2>1. userRole' \in [User -> Role \cup {None}]
        /\ \A u \in User : userRole'[u] \in exists \cup {None}
    BY <1>0, <1>5 DEF SetUserRole, Inv, TypeOK, NoOrphan, Work
  <2> QED BY <1>5, <2>1, FinishFacts DEF SetUserRole, Touch, Inv, TypeOK, NoOrphan
<1> QED BY <1>1, <1>2, <1>3, <1>4, <1>5 DEF Write

(* A request that a check refuses ends, and writes nothing. *)
LEMMA InvByRefuse ==
    ASSUME Inv, NEW q \in Req, Refuse(q)
    PROVE  Inv'
  BY FinishFacts DEF Refuse, Inv, TypeOK, NoOrphan

(* Any forest the schema allows to start from. *)
LEMMA InitInv ==
    ASSUME Init PROVE Inv
<1>1. TypeOK
  BY RolesAssumption, FreshFacts DEF Init, TypeOK
<1>2. NoOrphan
  BY DEF Init, NoOrphan
<1>3. DeletesNoSystemRole /\ CheckedHasUser
  BY FreshFacts DEF Init, DeletesNoSystemRole, CheckedHasUser, Fresh
<1> QED BY <1>1, <1>2, <1>3 DEF Inv

(* The invariant holds throughout. *)
LEMMA Invariance == Spec => []Inv
<1>1. Init => Inv
  BY InitInv
<1>2. Inv /\ [Next]_vars => Inv'
  <2> SUFFICES ASSUME Inv, [Next]_vars PROVE Inv'
    OBVIOUS
  <2>1. CASE Next
    BY <2>1, InvByAuthenticate, InvByCheck, InvByRefuse, InvByWrite DEF Next
  <2>2. CASE UNCHANGED vars
    BY <2>2 DEF vars, Inv, TypeOK, NoOrphan, DeletesNoSystemRole, CheckedHasUser
  <2> QED BY <2>1, <2>2
<1> QED BY <1>1, <1>2, PTL DEF Spec

(* Every request keeps the tables and its own state to their types, and no
   sequence of requests removes a seeded role. *)
THEOREM TypeCorrect == Spec => []TypeOK
  BY Invariance, PTL DEF Inv

(* Whatever create_role, edit_role, delete_role and the assignments of users
   overlap, no role hangs below one that is gone and no user holds one. *)
THEOREM NoOrphanAlways == Spec => []NoOrphan
  BY Invariance, PTL DEF Inv

-----------------------------------------------------------------------------
(* What undisturbed requests know *)

(* The user's role is x or above it. *)
Over(u, x) == userRole[u] # None /\ \E i \in Nat : userRole[u] \in Hop(parent, exists, x, i)

(* What has been found of the roles a request is about. *)
FoundRole(u, ps, w) ==
    w.op \in {"grant", "apply", "move", "delete"} /\ w.role \in exists /\ ps # Perm =>
        Over(u, w.role) /\ userRole[u] # w.role

FoundParent(u, ps, w) ==
    /\ w.op = "create" /\ w.to = None => ps = Perm
    /\ w.op = "create" /\ w.to \in exists /\ ps # Perm => Over(u, w.to)

FoundMove(u, ps, w) ==
    w.op = "move" /\ w.role \in exists /\ w.to # parent[w.role] =>
        /\ w.to = None => ps = Perm
        /\ w.to \in exists => /\ \A n \in Nat : w.role \notin Hop(parent, exists, w.to, n)
                              /\ ps # Perm => Over(u, w.to)

FoundAssignee(u, ps, w) ==
    w.op = "assign" => /\ w.who # u
                       /\ w.role \in exists /\ ps # Perm => Over(u, w.role)

FoundGrants(ps, w) ==
    /\ w.op \in {"create", "grant"} => w.set \subseteq ps
    /\ w.op = "apply" /\ w.role \in exists => w.set \subseteq ps \cup grants[w.role]

Found(u, ps, w) ==
    /\ FoundRole(u, ps, w) /\ FoundParent(u, ps, w) /\ FoundMove(u, ps, w)
    /\ FoundAssignee(u, ps, w) /\ FoundGrants(ps, w)

(* What a request has read is still so, as long as nobody has interfered. *)
Knows(q) ==
    /\ req[q].user \in User /\ req[q].st \in {"checking", "writing"}
    /\ userRole[req[q].user] # None => req[q].perms = effective_permissions(req[q].user)
    /\ req[q].st = "writing" => Found(req[q].user, req[q].perms, req[q].work)

(* The roles a request has in mind are there or have been. *)
Named(w) ==
    /\ w.op \in {"grant", "apply", "move", "delete", "assign"} => w.role \in exists \cup gone
    /\ w.op \in {"create", "move"} => w.to \in exists \cup gone \cup {None}

IdsOnce == exists \cap gone = {} /\ \A q \in Req : Named(req[q].work)

AllKnow == \A q \in fresh : Knows(q)

(* What a role confers when the parents are P, the roles E and the grants G. *)
EffOf(P, E, G, r) ==
    {p \in Perm : \A n \in 0..(MaxAncestorWalk - 1) : \A a \in Hop(P, E, r, n) : p \in G[a]}

LEMMA EffIs ==
    ASSUME NEW r
    PROVE  /\ effective_permissions_for_role(r) = EffOf(parent, exists, grants, r)
           /\ effective_permissions_for_role(r)' = EffOf(parent', exists', grants', r)
<1>1. \A n : /\ AtHop(r, n) = Hop(parent, exists, r, n)
             /\ AtHop(r, n)' = Hop(parent', exists', r, n)
  BY AtHopIsHop
<1>2. effective_permissions_for_role(r) = EffOf(parent, exists, grants, r)
  BY <1>1 DEF effective_permissions_for_role, Chain, EffOf
<1>3. effective_permissions_for_role(r)' = EffOf(parent', exists', grants', r)
  BY <1>1 DEF effective_permissions_for_role, Chain, EffOf
<1> QED BY <1>2, <1>3

LEMMA WithinIs ==
    ASSUME NEW r, NEW root
    PROVE  is_within_subtree(r, root) <=>
             \E n \in 0..MaxAncestorWalk : root \in Hop(parent, exists, r, n)
<1>1. \A n : AtHop(r, n) = Hop(parent, exists, r, n)
  BY AtHopIsHop
<1> QED BY <1>1 DEF is_within_subtree, Chain

(* A role that may be assigned, or be a new parent, is the user's or below it. *)
LEMMA AssignableOver ==
    ASSUME Inv, NEW u \in User, NEW ps, NEW x \in assignable_roles(u, ps)
    PROVE  x \in exists /\ (ps # Perm => Over(u, x))
<1>1. CASE ps = Perm
  BY <1>1 DEF assignable_roles, has_no_ceiling
<1>2. CASE ps # Perm
  <2>1. userRole[u] # None /\ x \in descendants_of(userRole[u]) \cup {userRole[u]}
    BY <1>2 DEF assignable_roles, has_no_ceiling
  <2>2. userRole[u] \in exists
    BY <2>1 DEF Inv, NoOrphan
  <2>3. CASE x = userRole[u]
    <3>1. 0 \in Nat /\ userRole[u] \in Hop(parent, exists, x, 0)
      BY <2>3, HopZero
    <3> QED BY <2>1, <2>2, <2>3, <3>1 DEF Over
  <2>4. CASE x \in descendants_of(userRole[u])
    <3>1. PICK n \in 1..MaxAncestorWalk : x \in exists /\ userRole[u] \in AtHop(x, n)
      BY <2>4 DEF descendants_of
    <3>2. n \in Nat /\ userRole[u] \in Hop(parent, exists, x, n)
      BY <3>1, AtHopIsHop, RolesAssumption
    <3> QED BY <2>1, <3>1, <3>2 DEF Over
  <2> QED BY <2>1, <2>3, <2>4
<1> QED BY <1>1, <1>2

(* A role that may be managed is below the user's, unless the user has no ceiling. *)
LEMMA ManageOver ==
    ASSUME NEW u, NEW ps, NEW r, ensure_can_manage_role(u, ps, r), ps # Perm
    PROVE  Over(u, r) /\ userRole[u] # r
<1>1. userRole[u] \notin {r, None} /\ is_within_subtree(r, userRole[u])
  BY DEF ensure_can_manage_role, has_no_ceiling
<1>2. PICK n \in 0..MaxAncestorWalk : userRole[u] \in Hop(parent, exists, r, n)
  BY <1>1, WithinIs
<1>3. n \in Nat
  BY RolesAssumption
<1> QED BY <1>1, <1>2, <1>3 DEF Over

(* A parent whose depth is within bounds has its whole chain looked at. *)
LEMMA NoCycle ==
    ASSUME NEW r, NEW to, ~would_create_cycle(r, to), depth_of(to) + 1 <= MaxRoleDepth
    PROVE  \A n \in Nat : r \notin Hop(parent, exists, to, n)
<1>0. MaxAncestorWalk \in Nat /\ MaxRoleDepth \in Nat /\ MaxRoleDepth <= MaxAncestorWalk
  BY RolesAssumption
<1>1. PICK m \in 0..MaxAncestorWalk : Hop(parent, exists, to, m) = {}
  <2> SUFFICES ASSUME \A m \in 0..MaxAncestorWalk : Hop(parent, exists, to, m) # {} PROVE FALSE
    OBVIOUS
  <2>1. {n \in 0..MaxAncestorWalk : AtHop(to, n) # {}} = 0..MaxAncestorWalk
    BY AtHopIsHop
  <2>2. depth_of(to) = Cardinality(0..MaxAncestorWalk)
    BY <2>1 DEF depth_of
  <2>3. Cardinality(0..MaxAncestorWalk) = MaxAncestorWalk + 1
    BY <1>0, FS_Interval
  <2> QED BY <1>0, <2>2, <2>3
<1>2. ASSUME NEW n \in Nat, r \in Hop(parent, exists, to, n) PROVE FALSE
  <2>1. n < m
    BY <1>1, <1>2, HopPast
  <2>2. n \in 0..MaxAncestorWalk
    BY <1>0, <2>1
  <2>3. is_within_subtree(to, r)
    BY <1>2, <2>2, WithinIs
  <2> QED BY <2>3 DEF would_create_cycle
<1> QED BY <1>2

(* The cap is what the author has. *)
LEMMA CapFacts ==
    ASSUME NEW ps, NEW to PROVE Cap(ps, to) \subseteq ps
  BY DEF Cap

(* The checks of a request find what its write relies on. *)
LEMMA CheckFinds ==
    ASSUME Inv, NEW q \in Req, Check(q)
    PROVE  /\ req[q].st = "checking" /\ req[q].user \in User
           /\ \E w \in Work : Checked(q, w) /\ Found(req[q].user, req[q].perms, w) /\ Named(w)
<1> DEFINE ps == req[q].perms
           u == req[q].user
<1> USE DEF Found, FoundRole, FoundParent, FoundMove, FoundAssignee, FoundGrants, Named
<1>0. req[q].st = "checking" /\ u \in User /\ exists \subseteq Role /\ None \notin exists
  BY RolesAssumption DEF Check, Inv, TypeOK, CheckedHasUser
<1>1. CASE create_role(q)
  <2>1. PICK to \in exists \cup {None}, set \in SUBSET Perm :
          /\ IF to = None THEN has_no_ceiling(ps)
             ELSE to \in assignable_roles(u, ps)
          /\ set \subseteq Cap(ps, to)
          /\ Checked(q, [NoWork EXCEPT !.op = "create", !.to = to, !.set = set])
    BY <1>1 DEF create_role
  <2>2. PICK w : w = [NoWork EXCEPT !.op = "create", !.to = to, !.set = set]
    OBVIOUS
  <2>3. w \in Work /\ w.op = "create" /\ w.to = to /\ w.set = set
    BY <1>0, <2>2 DEF NoWork, Work
  <2>4. set \subseteq ps
    BY <2>1, CapFacts
  <2>5. to = None => ps = Perm
    BY <2>1 DEF has_no_ceiling
  <2>6. to \in exists /\ ps # Perm => Over(u, to)
    BY <1>0, <2>1, AssignableOver
  <2>7. Found(u, ps, w) /\ Named(w)
    BY <2>3, <2>4, <2>5, <2>6
  <2> QED BY <1>0, <2>1, <2>2, <2>3, <2>7
<1>2. CASE edit_role(q)
  <2>1. PICK r \in exists \ SystemRole, to \in exists \cup {None} :
          /\ ensure_can_manage_role(u, ps, r)
          /\ to # parent[r] =>
                IF to = None THEN has_no_ceiling(ps)
                ELSE /\ ~would_create_cycle(r, to)
                     /\ to \in assignable_roles(u, ps)
                     /\ depth_of(to) + 1 <= MaxRoleDepth
          /\ Checked(q, [NoWork EXCEPT !.op = "move", !.role = r, !.to = to])
    BY <1>2 DEF edit_role
  <2>2. PICK w : w = [NoWork EXCEPT !.op = "move", !.role = r, !.to = to]
    OBVIOUS
  <2>3. w \in Work /\ w.op = "move" /\ w.role = r /\ w.to = to
    BY <1>0, <2>2 DEF NoWork, Work
  <2>4. ps # Perm => Over(u, r) /\ userRole[u] # r
    BY <2>1, ManageOver
  <2>5. to # parent[r] /\ to = None => ps = Perm
    BY <2>1 DEF has_no_ceiling
  <2>6. ASSUME to # parent[r], to \in exists
        PROVE  /\ \A n \in Nat : r \notin Hop(parent, exists, to, n)
               /\ ps # Perm => Over(u, to)
    <3>1. ~would_create_cycle(r, to) /\ to \in assignable_roles(u, ps)
          /\ depth_of(to) + 1 <= MaxRoleDepth
      BY <1>0, <2>1, <2>6
    <3>2. \A n \in Nat : r \notin Hop(parent, exists, to, n)
      BY <3>1, NoCycle
    <3>3. ps # Perm => Over(u, to)
      BY <1>0, <3>1, AssignableOver
    <3> QED BY <3>2, <3>3
  <2>7. Found(u, ps, w) /\ Named(w)
    BY <2>3, <2>4, <2>5, <2>6
  <2> QED BY <1>0, <2>1, <2>2, <2>3, <2>7
<1>3. CASE delete_role(q)
  <2>1. PICK r \in exists \ SystemRole :
          /\ ensure_can_manage_role(u, ps, r)
          /\ Checked(q, [NoWork EXCEPT !.op = "delete", !.role = r])
    BY <1>3 DEF delete_role
  <2>2. PICK w : w = [NoWork EXCEPT !.op = "delete", !.role = r]
    OBVIOUS
  <2>3. w \in Work /\ w.op = "delete" /\ w.role = r
    BY <1>0, <2>2 DEF NoWork, Work
  <2>4. ps # Perm => Over(u, r) /\ userRole[u] # r
    BY <2>1, ManageOver
  <2>5. Found(u, ps, w) /\ Named(w)
    BY <2>3, <2>4
  <2> QED BY <1>0, <2>1, <2>2, <2>3, <2>5
<1>4. CASE apply_permissions(q)
  <2>1. PICK r \in exists, requested \in SUBSET Perm :
          /\ ensure_can_manage_role(u, ps, r)
          /\ Checked(q, [NoWork EXCEPT !.op = "apply", !.role = r,
                           !.set = (requested \cap Cap(ps, parent[r]))
                                     \cup (grants[r] \ Cap(ps, parent[r]))])
    BY <1>4 DEF apply_permissions
  <2>2. PICK set : set = (requested \cap Cap(ps, parent[r])) \cup (grants[r] \ Cap(ps, parent[r]))
    OBVIOUS
  <2>3. set \subseteq ps \cup grants[r]
    BY <2>2, CapFacts
  <2>4. set \in SUBSET Perm
    BY <1>0, <2>2 DEF Inv, TypeOK
  <2>5. PICK w : w = [NoWork EXCEPT !.op = "apply", !.role = r, !.set = set]
    OBVIOUS
  <2>6. w \in Work /\ w.op = "apply" /\ w.role = r /\ w.set = set
    BY <1>0, <2>4, <2>5 DEF NoWork, Work
  <2>7. ps # Perm => Over(u, r) /\ userRole[u] # r
    BY <2>1, ManageOver
  <2>8. Found(u, ps, w) /\ Named(w)
    BY <2>3, <2>6, <2>7
  <2>9. Checked(q, w)
    BY <2>1, <2>2, <2>5
  <2> QED BY <1>0, <2>6, <2>8, <2>9
<1>5. CASE change_role(q) \/ create_user(q)
  <2>1. PICK v \in User \ {u}, r \in assignable_roles(u, ps) :
          Checked(q, [NoWork EXCEPT !.op = "assign", !.role = r, !.who = v])
    BY <1>5 DEF change_role, create_user
  <2>2. PICK w : w = [NoWork EXCEPT !.op = "assign", !.role = r, !.who = v]
    OBVIOUS
  <2>3. r \in exists /\ (ps # Perm => Over(u, r))
    BY <1>0, <2>1, AssignableOver
  <2>4. w \in Work /\ w.op = "assign" /\ w.role = r /\ w.who = v
    BY <1>0, <2>2, <2>3 DEF NoWork, Work
  <2>5. Found(u, ps, w) /\ Named(w)
    BY <2>1, <2>3, <2>4
  <2> QED BY <1>0, <2>1, <2>2, <2>4, <2>5
<1> QED BY <1>1, <1>2, <1>3, <1>4, <1>5 DEF Check

(* A step that leaves the roles that stay where they are, and the user's role
   unless it is deleted. *)
Steady(u) ==
    /\ \A x \in exists \cap exists' :
          /\ parent'[x] = parent[x] /\ grants'[x] = grants[x]
          /\ parent[x] \in (exists \cap exists') \cup {None}
    /\ userRole'[u] = IF userRole[u] \in exists' THEN userRole[u] ELSE None
    /\ exists' \cap gone = {}

LEMMA SteadyWalks ==
    ASSUME NEW u, Steady(u), NEW x \in exists \cap exists', NEW n \in Nat
    PROVE  /\ Hop(parent', exists', x, n) = Hop(parent, exists, x, n)
           /\ Hop(parent, exists, x, n) \subseteq exists \cap exists'
<1>1. PICK C : C = exists \cap exists'
  OBVIOUS
<1>2. \A y \in C : /\ y \in exists <=> y \in exists'
                   /\ y \in exists => parent[y] = parent'[y] /\ parent[y] \in C \cup {None}
  BY <1>1 DEF Steady
<1> QED BY <1>1, <1>2, HopSame

LEMMA SteadyEff ==
    ASSUME NEW u, Steady(u), NEW x \in exists \cap exists'
    PROVE  effective_permissions_for_role(x)' = effective_permissions_for_role(x)
<1>1. \A n \in 0..(MaxAncestorWalk - 1) :
         /\ Hop(parent', exists', x, n) = Hop(parent, exists, x, n)
         /\ \A a \in Hop(parent, exists, x, n) : grants'[a] = grants[a]
  <2> SUFFICES ASSUME NEW n \in 0..(MaxAncestorWalk - 1)
               PROVE  /\ Hop(parent', exists', x, n) = Hop(parent, exists, x, n)
                      /\ \A a \in Hop(parent, exists, x, n) : grants'[a] = grants[a]
    OBVIOUS
  <2>1. n \in Nat
    BY RolesAssumption
  <2>2. /\ Hop(parent', exists', x, n) = Hop(parent, exists, x, n)
        /\ Hop(parent, exists, x, n) \subseteq exists \cap exists'
    BY <2>1, SteadyWalks
  <2> QED BY <2>2 DEF Steady
<1>2. EffOf(parent', exists', grants', x) = EffOf(parent, exists, grants, x)
  BY <1>1 DEF EffOf
<1> QED BY <1>2, EffIs

LEMMA OverKept ==
    ASSUME NEW u, Steady(u), NEW x \in exists \cap exists', Over(u, x)
    PROVE  Over(u, x)' /\ userRole'[u] = userRole[u]
<1>1. PICK i \in Nat : userRole[u] \in Hop(parent, exists, x, i)
  BY DEF Over
<1>2. userRole[u] \in exists' /\ userRole[u] \in Hop(parent', exists', x, i)
  BY <1>1, SteadyWalks
<1>3. userRole'[u] = userRole[u] /\ userRole[u] # None
  BY <1>2 DEF Steady, Over
<1> QED BY <1>2, <1>3 DEF Over

(* What was found is still so. *)
LEMMA FoundKept ==
    ASSUME Inv, NEW u, Steady(u), NEW ps, NEW w, Found(u, ps, w), Named(w),
           None \notin exists'
    PROVE  Found(u, ps, w)'
<1>1. \A x : x \in exists' /\ x \in exists \cup gone \cup {None} => x \in exists \cap exists'
  BY DEF Steady
<1>2. FoundRole(u, ps, w)'
  <2> SUFFICES ASSUME w.op \in {"grant", "apply", "move", "delete"}, w.role \in exists', ps # Perm
               PROVE  Over(u, w.role)' /\ userRole'[u] # w.role
    BY DEF FoundRole
  <2>1. w.role \in exists \cap exists'
    BY <1>1 DEF Named
  <2>2. Over(u, w.role) /\ userRole[u] # w.role
    BY <2>1 DEF Found, FoundRole
  <2>3. PICK x : x = w.role
    OBVIOUS
  <2>4. Over(u, x)' /\ userRole'[u] # x
    BY <2>1, <2>2, <2>3, OverKept
  <2> QED BY <2>3, <2>4
<1>3. FoundParent(u, ps, w)'
  <2> SUFFICES ASSUME w.op = "create", w.to \in exists', ps # Perm PROVE Over(u, w.to)'
    BY DEF FoundParent, Found
  <2>1. w.to \in exists \cap exists'
    BY <1>1 DEF Named
  <2>2. Over(u, w.to)
    BY <2>1 DEF Found, FoundParent
  <2> QED BY <2>1, <2>2, OverKept
<1>4. FoundMove(u, ps, w)'
  <2> SUFFICES ASSUME w.op = "move", w.role \in exists', w.to # parent'[w.role]
               PROVE  /\ w.to = None => ps = Perm
                      /\ w.to \in exists' =>
                            /\ \A n \in Nat : w.role \notin Hop(parent', exists', w.to, n)
                            /\ ps # Perm => Over(u, w.to)'
    BY DEF FoundMove
  <2>1. w.role \in exists \cap exists' /\ parent'[w.role] = parent[w.role]
    BY <1>1 DEF Named, Steady
  <2>2. /\ w.to = None => ps = Perm
        /\ w.to \in exists => /\ \A n \in Nat : w.role \notin Hop(parent, exists, w.to, n)
                              /\ ps # Perm => Over(u, w.to)
    BY <2>1 DEF Found, FoundMove
  <2>3. ASSUME w.to \in exists'
        PROVE  /\ \A n \in Nat : w.role \notin Hop(parent', exists', w.to, n)
               /\ ps # Perm => Over(u, w.to)'
    <3>1. w.to \in exists \cap exists'
      BY <1>1, <2>3 DEF Named
    <3>2. \A n \in Nat : w.role \notin Hop(parent', exists', w.to, n)
      BY <2>2, <3>1, SteadyWalks
    <3>3. ps # Perm => Over(u, w.to)'
      BY <2>2, <3>1, OverKept
    <3> QED BY <3>2, <3>3
  <2> QED BY <2>2, <2>3
<1>5. FoundAssignee(u, ps, w)'
  <2> SUFFICES ASSUME w.op = "assign"
               PROVE  w.who # u /\ (w.role \in exists' /\ ps # Perm => Over(u, w.role)')
    BY DEF FoundAssignee
  <2>1. w.who # u /\ (w.role \in exists /\ ps # Perm => Over(u, w.role))
    BY DEF Found, FoundAssignee
  <2>2. ASSUME w.role \in exists', ps # Perm PROVE Over(u, w.role)'
    <3>1. w.role \in exists \cap exists'
      BY <1>1, <2>2 DEF Named
    <3> QED BY <2>1, <2>2, <3>1, OverKept
  <2> QED BY <2>1, <2>2
<1>6. FoundGrants(ps, w)'
  <2>1. w.op = "apply" /\ w.role \in exists' => w.role \in exists /\ grants'[w.role] = grants[w.role]
    BY <1>1 DEF Named, Steady
  <2> QED BY <2>1 DEF Found, FoundGrants
<1> QED BY <1>2, <1>3, <1>4, <1>5, <1>6 DEF Found

(* An undisturbed request that does nothing itself still knows what it knew. *)
LEMMA KnowsKept ==
    ASSUME Inv, Inv', IdsOnce, NEW q \in Req, Knows(q), req'[q] = req[q], Steady(req[q].user)
    PROVE  Knows(q)'
<1>1. PICK u \in User, ps \in SUBSET Perm, w \in Work :
         u = req[q].user /\ ps = req[q].perms /\ w = req[q].work
  BY DEF Knows, Inv, TypeOK, Requests
<1>2. Steady(u) /\ Named(w) /\ None \notin exists'
  BY <1>1, RolesAssumption DEF IdsOnce, Inv, TypeOK
<1>3. req[q].st = "writing" => Found(u, ps, w)'
  BY <1>1, <1>2, FoundKept DEF Knows
<1>4. ASSUME userRole'[u] # None PROVE ps = effective_permissions(u)'
  <2>1. PICK m : m = userRole[u] /\ m = userRole'[u] /\ m \in exists \cap exists' /\ m # None
    BY <1>2, <1>4 DEF Steady, Inv, NoOrphan
  <2>2. effective_permissions_for_role(m)' = effective_permissions_for_role(m)
    BY <1>2, <2>1, SteadyEff
  <2>3. ps = effective_permissions_for_role(m)
    BY <1>1, <2>1 DEF Knows, effective_permissions
  <2> QED BY <2>1, <2>2, <2>3 DEF effective_permissions
<1> QED BY <1>1, <1>3, <1>4 DEF Knows

-----------------------------------------------------------------------------
(* They know it throughout *)

Knowing == Inv /\ IdsOnce /\ AllKnow

(* A step that touches neither the forest nor the role of u. *)
LEMMA SteadyStill ==
    ASSUME Inv, IdsOnce, NEW u \in User, UNCHANGED <<exists, parent, grants>>,
           userRole'[u] = userRole[u]
    PROVE  Steady(u)
<1>1. userRole[u] \in exists \cup {None} /\ \A x \in exists : parent[x] \in exists \cup {None}
  BY DEF Inv, NoOrphan
<1> QED BY <1>1 DEF Steady, IdsOnce

(* A role that is created is new, and nothing hangs below it yet. *)
LEMMA SteadyCreate ==
    ASSUME Inv, IdsOnce, NEW u \in User, NEW r \in Role \ (exists \cup gone), NEW to,
           exists' = exists \cup {r}, parent' = [parent EXCEPT ![r] = to],
           UNCHANGED <<grants, userRole>>
    PROVE  Steady(u)
<1>1. userRole[u] \in exists \cup {None} /\ \A x \in exists : parent[x] \in exists \cup {None}
  BY DEF Inv, NoOrphan
<1>2. \A x \in exists : x \in Role /\ x # r /\ parent'[x] = parent[x]
  BY DEF Inv, TypeOK
<1>3. None \notin exists'
  BY RolesAssumption DEF Inv, TypeOK
<1> QED BY <1>1, <1>2, <1>3 DEF Steady, IdsOnce

(* A role that is deleted is one that nothing hangs below. *)
LEMMA SteadyDelete ==
    ASSUME Inv, IdsOnce, NEW u \in User, NEW r \in exists, \A c \in exists : parent[c] # r,
           exists' = exists \ {r}, parent' = [parent EXCEPT ![r] = None],
           grants' = [grants EXCEPT ![r] = {}],
           userRole' = [v \in User |-> IF userRole[v] = r THEN None ELSE userRole[v]]
    PROVE  Steady(u)
<1>1. userRole[u] \in exists \cup {None} /\ \A x \in exists : parent[x] \in exists \cup {None}
  BY DEF Inv, NoOrphan
<1>2. \A x \in exists : x # r => parent'[x] = parent[x] /\ grants'[x] = grants[x]
  BY DEF Inv, TypeOK
<1>3. userRole'[u] = IF userRole[u] \in exists' THEN userRole[u] ELSE None
  BY <1>1
<1> QED BY <1>1, <1>2, <1>3 DEF Steady, IdsOnce

(* A request that ends is forgotten, and the others are where they were. *)
LEMMA FinishLeaves ==
    ASSUME TypeOK, NEW q \in Req, Finish(q)
    PROVE  /\ req'[q].st = "done" /\ req'[q].work = NoWork
           /\ \A p \in Req : p # q => req'[p] = req[p]
  BY FreshFacts DEF Finish, TypeOK

(* Ids that were known stay known. *)
LEMMA IdsKept ==
    ASSUME IdsOnce, NEW q \in Req, exists \cup gone \subseteq exists' \cup gone',
           exists' \cap gone' = {}, \A p \in Req : p # q => req'[p] = req[p],
           NEW v, req'[q].work = v, Named(v)'
    PROVE  IdsOnce'
<1>1. ASSUME NEW p \in Req PROVE Named(req[p].work)'
  <2>1. CASE p = q
    BY <2>1 DEF Named
  <2>2. CASE p # q
    <3>1. PICK w : w = req[p].work /\ w = req'[p].work /\ Named(w)
      BY <2>2 DEF IdsOnce
    <3>2. Named(w)'
      BY <3>1 DEF Named
    <3> QED BY <3>1, <3>2 DEF Named
  <2> QED BY <2>1, <2>2
<1> QED BY <1>1 DEF IdsOnce, Named

(* A request that has ended names nothing. *)
LEMMA IdsKeptByFinish ==
    ASSUME Inv, IdsOnce, NEW q \in Req, Finish(q), exists \cup gone \subseteq exists' \cup gone',
           exists' \cap gone' = {}
    PROVE  IdsOnce'
<1>1. PICK v : v = NoWork /\ req'[q].work = v /\ \A p \in Req : p # q => req'[p] = req[p]
  BY FinishLeaves DEF Inv
<1>2. Named(v)'
  BY <1>1, FreshFacts DEF Named
<1> QED BY <1>1, <1>2, IdsKept

(* What others know outlives a step that disturbs neither the forest nor their role. *)
LEMMA OthersKnow ==
    ASSUME Knowing, Inv', NEW p \in fresh, req'[p] = req[p],
           \A u \in User : u = req[p].user => Steady(u)
    PROVE  Knows(p)'
<1>1. p \in Req /\ Inv /\ IdsOnce /\ Knows(p)
  BY DEF Knowing, AllKnow, Inv, TypeOK
<1>2. Steady(req[p].user)
  BY <1>1 DEF Knows
<1> QED BY <1>1, <1>2, KnowsKept

LEMMA KnowingByAuthenticate ==
    ASSUME Knowing, Inv', NEW q \in Req, Authenticate(q)
    PROVE  Knowing'
<1>0. Inv /\ IdsOnce /\ AllKnow
  BY DEF Knowing
<1>1. PICK u \in User :
        req' = [req EXCEPT ![q] = [@ EXCEPT !.st = "checking", !.user = u,
                                             !.perms = effective_permissions(u)]]
  BY DEF Authenticate
<1>2. UNCHANGED <<exists, gone, parent, grants, userRole>> /\ fresh' = fresh \cup {q}
  BY DEF Authenticate
<1>3. /\ req'[q].st = "checking" /\ req'[q].user = u
      /\ req'[q].perms = effective_permissions(u) /\ req'[q].work = req[q].work
      /\ \A p \in Req : p # q => req'[p] = req[p]
  BY <1>0, <1>1 DEF Inv, TypeOK, Requests
<1>4. IdsOnce'
  <2>1. PICK v : v = req[q].work /\ Named(v)
    BY <1>0 DEF IdsOnce
  <2>2. Named(v)' /\ exists \cup gone \subseteq exists' \cup gone' /\ exists' \cap gone' = {}
    BY <1>0, <1>2, <2>1 DEF Named, IdsOnce
  <2> QED BY <1>0, <1>3, <2>1, <2>2, IdsKept
<1>5. Knows(q)'
  <2>1. effective_permissions(u)' = effective_permissions(u)
    BY <1>2, EffIs DEF effective_permissions
  <2> QED BY <1>3, <2>1 DEF Knows
<1>6. ASSUME NEW p \in fresh, p # q PROVE Knows(p)'
  <2>1. req'[p] = req[p]
    BY <1>0, <1>3, <1>6 DEF Inv, TypeOK
  <2>2. \A v \in User : Steady(v)
    BY <1>0, <1>2, SteadyStill
  <2> QED BY <2>1, <2>2, OthersKnow
<1>7. AllKnow'
  BY <1>2, <1>5, <1>6 DEF AllKnow
<1> QED BY <1>4, <1>7 DEF Knowing

LEMMA KnowingByCheck ==
    ASSUME Knowing, Inv', NEW q \in Req, Check(q)
    PROVE  Knowing'
<1>0. Inv /\ IdsOnce /\ AllKnow
  BY DEF Knowing
<1>1. PICK w \in Work : Checked(q, w) /\ Found(req[q].user, req[q].perms, w) /\ Named(w)
  BY <1>0, CheckFinds
<1>2. UNCHANGED <<exists, gone, parent, grants, userRole, fresh>>
  BY <1>1 DEF Checked
<1>3. /\ req'[q].st = "writing" /\ req'[q].user = req[q].user
      /\ req'[q].perms = req[q].perms /\ req'[q].work = w
      /\ \A p \in Req : p # q => req'[p] = req[p]
  BY <1>0, <1>1 DEF Checked, Inv, TypeOK, Requests
<1>4. IdsOnce'
  <2>2. Named(w)' /\ exists \cup gone \subseteq exists' \cup gone' /\ exists' \cap gone' = {}
    BY <1>0, <1>1, <1>2 DEF Named, IdsOnce
  <2> QED BY <1>0, <1>3, <2>2, IdsKept
<1>5. ASSUME q \in fresh PROVE Knows(q)'
  <2>1. PICK u \in User, ps \in SUBSET Perm : u = req[q].user /\ ps = req[q].perms
    BY <1>0, CheckFinds DEF Inv, TypeOK, Requests
  <2>2. Steady(u) /\ None \notin exists'
    BY <1>0, <1>2, <2>1, SteadyStill, RolesAssumption DEF Inv, TypeOK
  <2>3. Found(u, ps, w)'
    BY <1>0, <1>1, <2>1, <2>2, FoundKept
  <2>4. effective_permissions(u)' = effective_permissions(u)
    BY <1>2, EffIs DEF effective_permissions
  <2>5. userRole[u] # None => ps = effective_permissions(u)
    BY <1>0, <1>5, <2>1 DEF AllKnow, Knows
  <2> QED BY <1>2, <1>3, <2>1, <2>3, <2>4, <2>5 DEF Knows
<1>6. ASSUME NEW p \in fresh, p # q PROVE Knows(p)'
  <2>1. req'[p] = req[p]
    BY <1>0, <1>3, <1>6 DEF Inv, TypeOK
  <2>2. \A v \in User : Steady(v)
    BY <1>0, <1>2, SteadyStill
  <2> QED BY <2>1, <2>2, OthersKnow
<1>7. AllKnow'
  BY <1>2, <1>5, <1>6 DEF AllKnow
<1> QED BY <1>4, <1>7 DEF Knowing

LEMMA KnowingByRefuse ==
    ASSUME Knowing, Inv', NEW q \in Req, Refuse(q)
    PROVE  Knowing'
<1>0. Inv /\ IdsOnce /\ AllKnow
  BY DEF Knowing
<1>1. Finish(q) /\ UNCHANGED <<exists, gone, parent, grants, userRole>> /\ fresh' = fresh \ {q}
  BY DEF Refuse
<1>2. IdsOnce'
  <2>1. exists \cup gone \subseteq exists' \cup gone' /\ exists' \cap gone' = {}
    BY <1>0, <1>1 DEF IdsOnce
  <2> QED BY <1>0, <1>1, <2>1, IdsKeptByFinish
<1>3. ASSUME NEW p \in fresh, p # q PROVE Knows(p)'
  <2>1. req'[p] = req[p]
    BY <1>0, <1>1, <1>3, FinishLeaves DEF Inv, TypeOK
  <2>2. \A v \in User : Steady(v)
    BY <1>0, <1>1, SteadyStill
  <2> QED BY <2>1, <2>2, OthersKnow
<1>4. AllKnow'
  BY <1>1, <1>3 DEF AllKnow
<1> QED BY <1>2, <1>4 DEF Knowing

(* The role just created is below the user's, as the role it hangs from is. *)
LEMMA CreatedIsBelow ==
    ASSUME Inv, IdsOnce, NEW u \in User, NEW r \in Role \ (exists \cup gone), NEW to \in exists,
           exists' = exists \cup {r}, parent' = [parent EXCEPT ![r] = to],
           UNCHANGED <<grants, userRole>>, Over(u, to)
    PROVE  Over(u, r)' /\ userRole'[u] # r
<1>1. Steady(u)
  BY SteadyCreate
<1>2. Over(u, to)' /\ userRole'[u] = userRole[u]
  BY <1>1, OverKept
<1>3. PICK i \in Nat : userRole'[u] # None /\ userRole'[u] \in Hop(parent', exists', to, i)
  BY <1>2 DEF Over
<1>4. r \in exists' /\ parent'[r] = to /\ to # None
  BY RolesAssumption DEF Inv, TypeOK
<1>5. Hop(parent', exists', r, i + 1) = Hop(parent', exists', to, i)
  <2>1. PICK P, E : P = parent' /\ E = exists' /\ r \in E /\ P[r] = to
    BY <1>4
  <2>2. Hop(P, E, r, i + 1) = IF P[r] = None THEN {} ELSE Hop(P, E, P[r], i)
    <3>1. r \in E /\ i \in Nat
      BY <2>1
    <3> QED BY ONLY <3>1, HopFirst, Zenon
  <2> QED BY <1>4, <2>1, <2>2
<1>6. i + 1 \in Nat
  OBVIOUS
<1>7. Over(u, r)'
  BY <1>3, <1>5, <1>6 DEF Over
<1>8. userRole[u] \in exists \cup {None} /\ r # None
  BY RolesAssumption DEF Inv, NoOrphan
<1>9. userRole'[u] # r
  BY <1>2, <1>8
<1> QED BY <1>7, <1>9

LEMMA KnowingByCreate ==
    ASSUME Knowing, Inv', NEW q \in Req, Create(q)
    PROVE  Knowing'
<1>0. Inv /\ IdsOnce /\ AllKnow
  BY DEF Knowing
<1>1. PICK w : w = req[q].work /\ w \in Work /\ w.op = "create" /\ req[q].st = "writing"
  BY <1>0 DEF Create, Writing, Inv, TypeOK, Requests
<1>2. /\ UNCHANGED <<gone, grants, userRole>>
      /\ fresh' = {p \in fresh : req'[p].st # "done"}
  BY DEF Create, Touch
<1>3. CASE w.to \notin exists \cup {None}
  <2>1. Finish(q) /\ UNCHANGED <<exists, parent>>
    BY <1>1, <1>3 DEF Create
  <2>2. IdsOnce'
    <3>1. exists \cup gone \subseteq exists' \cup gone' /\ exists' \cap gone' = {}
      BY <1>0, <1>2, <2>1 DEF IdsOnce
    <3> QED BY <1>0, <2>1, <3>1, IdsKeptByFinish
  <2>3. ASSUME NEW p \in fresh, p # q PROVE Knows(p)'
    <3>1. req'[p] = req[p]
      BY <1>0, <2>1, <2>3, FinishLeaves DEF Inv, TypeOK
    <3>2. \A v \in User : Steady(v)
      BY <1>0, <1>2, <2>1, SteadyStill
    <3> QED BY <3>1, <3>2, OthersKnow
  <2>4. req'[q].st = "done"
    BY <1>0, <2>1, FinishLeaves DEF Inv
  <2>5. AllKnow'
    BY <1>2, <2>3, <2>4 DEF AllKnow
  <2> QED BY <2>2, <2>5 DEF Knowing
<1>4. CASE w.to \in exists \cup {None}
  <2>1. PICK r \in Role \ (exists \cup gone) :
          /\ exists' = exists \cup {r}
          /\ parent' = [parent EXCEPT ![r] = w.to]
          /\ req' = [req EXCEPT ![q].work = [w EXCEPT !.op = "grant", !.role = r]]
    BY <1>1, <1>4 DEF Create
  <2>2. PICK v : v = [w EXCEPT !.op = "grant", !.role = r]
    OBVIOUS
  <2>3. v.op = "grant" /\ v.role = r /\ v.set = w.set
    BY <1>1, <2>2 DEF Work
  <2>4. /\ req'[q].work = v /\ req'[q].st = req[q].st /\ req'[q].user = req[q].user
        /\ req'[q].perms = req[q].perms /\ \A p \in Req : p # q => req'[p] = req[p]
    BY <1>0, <2>1, <2>2 DEF Inv, TypeOK, Requests
  <2>5. IdsOnce'
    <3>1. exists \cup gone \subseteq exists' \cup gone' /\ exists' \cap gone' = {}
      BY <1>0, <1>2, <2>1 DEF IdsOnce
    <3>2. Named(v)'
      BY <2>1, <2>3 DEF Named
    <3> QED BY <1>0, <2>4, <3>1, <3>2, IdsKept
  <2>6. \A u \in User : Steady(u)
    BY <1>0, <1>2, <2>1, SteadyCreate
  <2>7. ASSUME NEW p \in fresh, p # q PROVE Knows(p)'
    <3>1. req'[p] = req[p]
      BY <1>0, <2>4, <2>7 DEF Inv, TypeOK
    <3> QED BY <2>6, <3>1, OthersKnow
  <2>8. ASSUME q \in fresh PROVE Knows(q)'
    <3>1. Knows(q)
      BY <1>0, <2>8 DEF AllKnow
    <3>2. PICK u \in User, ps \in SUBSET Perm : u = req[q].user /\ ps = req[q].perms
      BY <1>0, <3>1 DEF Knows, Inv, TypeOK, Requests
    <3>3. Found(u, ps, w)
      BY <1>1, <3>1, <3>2 DEF Knows
    <3>4. ASSUME ps # Perm PROVE Over(u, r)' /\ userRole'[u] # r
      <4>1. w.to \in exists /\ Over(u, w.to)
        BY <1>1, <1>4, <3>3, <3>4 DEF Found, FoundParent
      <4>2. PICK to \in exists : to = w.to /\ Over(u, to) /\ parent' = [parent EXCEPT ![r] = to]
        BY <2>1, <4>1
      <4> QED BY <1>0, <1>2, <2>1, <4>2, CreatedIsBelow
    <3>5. w.set \subseteq ps
      BY <1>1, <3>3 DEF Found, FoundGrants
    <3>6. FoundRole(u, ps, v)'
      <4>1. ps # Perm => Over(u, v.role)' /\ userRole'[u] # v.role
        BY <2>3, <3>4 DEF Over
      <4> QED BY <4>1 DEF FoundRole
    <3>7. Found(u, ps, v)'
      BY <2>3, <3>5, <3>6
         DEF Found, FoundParent, FoundMove, FoundAssignee, FoundGrants
    <3>8. ASSUME userRole'[u] # None PROVE ps = effective_permissions(u)'
      <4>1. PICK m : m = userRole[u] /\ m = userRole'[u] /\ m \in exists \cap exists' /\ m # None
        BY <1>0, <1>2, <2>1, <3>8 DEF Inv, NoOrphan
      <4>2. effective_permissions_for_role(m)' = effective_permissions_for_role(m)
        BY <2>6, <4>1, SteadyEff
      <4>3. ps = effective_permissions_for_role(m)
        BY <3>1, <3>2, <4>1 DEF Knows, effective_permissions
      <4> QED BY <4>1, <4>2, <4>3 DEF effective_permissions
    <3> QED BY <1>1, <2>4, <3>2, <3>7, <3>8 DEF Knows
  <2>9. AllKnow'
    BY <1>2, <2>7, <2>8 DEF AllKnow
  <2> QED BY <2>5, <2>9 DEF Knowing
<1> QED BY <1>3, <1>4

(* A change of grants or of parents makes stale whatever others have read. *)
LEMMA KnowingByForestWrite ==
    ASSUME Knowing, Inv', NEW q \in Req, SetPermissions(q) \/ Update(q)
    PROVE  Knowing'
<1>0. Inv /\ IdsOnce /\ AllKnow
  BY DEF Knowing
<1>1. /\ Finish(q) /\ UNCHANGED <<exists, gone>>
      /\ fresh' = {p \in fresh \ Others(q) : req'[p].st # "done"}
  BY DEF SetPermissions, Update, Touch
<1>2. IdsOnce'
  <2>1. exists \cup gone \subseteq exists' \cup gone' /\ exists' \cap gone' = {}
    BY <1>0, <1>1 DEF IdsOnce
  <2> QED BY <1>0, <1>1, <2>1, IdsKeptByFinish
<1>3. req'[q].st = "done" /\ fresh \subseteq Req
  BY <1>0, <1>1, FinishLeaves DEF Inv, TypeOK
<1>4. fresh' = {}
  BY <1>1, <1>3 DEF Others
<1> QED BY <1>2, <1>4 DEF Knowing, AllKnow

LEMMA KnowingByDelete ==
    ASSUME Knowing, Inv', NEW q \in Req, Delete(q)
    PROVE  Knowing'
<1>0. Inv /\ IdsOnce /\ AllKnow
  BY DEF Knowing
<1>1. /\ Finish(q) /\ fresh' = {p \in fresh : req'[p].st # "done"}
  BY DEF Delete, Touch
<1>2. PICK r : r = req[q].work.role
  OBVIOUS
<1>3. /\ \A u \in User : Steady(u)
      /\ exists \cup gone \subseteq exists' \cup gone' /\ exists' \cap gone' = {}
  <2>1. CASE r \in exists /\ \A c \in exists : parent[c] # r
    <3>1. /\ exists' = exists \ {r} /\ gone' = gone \cup {r}
          /\ parent' = [parent EXCEPT ![r] = None]
          /\ grants' = [grants EXCEPT ![r] = {}]
          /\ userRole' = [u \in User |-> IF userRole[u] = r THEN None ELSE userRole[u]]
      BY <1>2, <2>1 DEF Delete
    <3>2. \A u \in User : Steady(u)
      BY <1>0, <2>1, <3>1, SteadyDelete
    <3> QED BY <1>0, <3>1, <3>2 DEF IdsOnce
  <2>2. CASE ~(r \in exists /\ \A c \in exists : parent[c] # r)
    <3>1. UNCHANGED <<exists, gone, parent, grants, userRole>>
      BY <1>2, <2>2 DEF Delete
    <3>2. \A u \in User : Steady(u)
      BY <1>0, <3>1, SteadyStill
    <3> QED BY <1>0, <3>1, <3>2 DEF IdsOnce
  <2> QED BY <2>1, <2>2
<1>4. IdsOnce'
  BY <1>0, <1>1, <1>3, IdsKeptByFinish
<1>5. ASSUME NEW p \in fresh, p # q PROVE Knows(p)'
  <2>1. req'[p] = req[p]
    BY <1>0, <1>1, <1>5, FinishLeaves DEF Inv, TypeOK
  <2> QED BY <1>3, <2>1, OthersKnow
<1>6. req'[q].st = "done"
  BY <1>0, <1>1, FinishLeaves DEF Inv
<1>7. AllKnow'
  BY <1>1, <1>5, <1>6 DEF AllKnow
<1> QED BY <1>4, <1>7 DEF Knowing

(* An assignment makes stale what the requests of that user have read. *)
LEMMA KnowingBySetUserRole ==
    ASSUME Knowing, Inv', NEW q \in Req, SetUserRole(q)
    PROVE  Knowing'
<1>0. Inv /\ IdsOnce /\ AllKnow
  BY DEF Knowing
<1>1. PICK w : w = req[q].work
  OBVIOUS
<1>2. /\ Finish(q) /\ UNCHANGED <<exists, gone, parent, grants>>
      /\ fresh' = {p \in fresh \ {p \in Req : req[p].user = w.who} : req'[p].st # "done"}
      /\ userRole' = IF w.role \in exists THEN [userRole EXCEPT ![w.who] = w.role] ELSE userRole
  BY <1>1 DEF SetUserRole, Touch
<1>3. IdsOnce'
  <2>1. exists \cup gone \subseteq exists' \cup gone' /\ exists' \cap gone' = {}
    BY <1>0, <1>2 DEF IdsOnce
  <2> QED BY <1>0, <1>2, <2>1, IdsKeptByFinish
<1>4. ASSUME NEW p \in fresh, p # q, req[p].user # w.who PROVE Knows(p)'
  <2>1. req'[p] = req[p]
    BY <1>0, <1>2, <1>4, FinishLeaves DEF Inv, TypeOK
  <2>2. ASSUME NEW u \in User, u = req[p].user PROVE Steady(u)
    <3>1. userRole'[u] = userRole[u]
      BY <1>0, <1>2, <1>4, <2>2 DEF Inv, TypeOK
    <3> QED BY <1>0, <1>2, <3>1, SteadyStill
  <2> QED BY <2>1, <2>2, OthersKnow
<1>5. req'[q].st = "done" /\ fresh \subseteq Req
  BY <1>0, <1>2, FinishLeaves DEF Inv, TypeOK
<1>6. AllKnow'
  BY <1>2, <1>4, <1>5 DEF AllKnow
<1> QED BY <1>3, <1>6 DEF Knowing

(* Requests rely on nothing that an undisturbed one has not seen and still holds. *)
LEMMA KnowingAlways == Spec => []Knowing
<1>1. Init => Knowing
  <2> SUFFICES ASSUME Init PROVE Knowing
    OBVIOUS
  <2>1. Inv
    BY InitInv
  <2>2. IdsOnce
    BY FreshFacts DEF Init, IdsOnce, Named
  <2>3. AllKnow
    BY DEF Init, AllKnow
  <2> QED BY <2>1, <2>2, <2>3 DEF Knowing
<1>2. Knowing /\ [Next]_vars => Knowing'
  <2> SUFFICES ASSUME Knowing, [Next]_vars PROVE Knowing'
    OBVIOUS
  <2>0. Inv
    BY DEF Knowing
  <2>1. CASE Next
    <3>1. PICK q \in Req : Authenticate(q) \/ Check(q) \/ Refuse(q) \/ Write(q)
      BY <2>1 DEF Next
    <3>2. CASE Authenticate(q)
      BY <2>0, <3>2, InvByAuthenticate, KnowingByAuthenticate
    <3>3. CASE Check(q)
      BY <2>0, <3>3, InvByCheck, KnowingByCheck
    <3>4. CASE Refuse(q)
      BY <2>0, <3>4, InvByRefuse, KnowingByRefuse
    <3>5. CASE Write(q)
      <4>1. Inv'
        BY <2>0, <3>5, InvByWrite
      <4> QED BY <3>5, <4>1, KnowingByCreate, KnowingByForestWrite, KnowingByDelete,
                 KnowingBySetUserRole DEF Write
    <3> QED BY <3>1, <3>2, <3>3, <3>4, <3>5
  <2>2. CASE UNCHANGED vars
    <3>1. UNCHANGED <<exists, gone, parent, grants, userRole>> /\ req' = req /\ fresh' = fresh
      BY <2>2 DEF vars
    <3>2. Inv'
      BY <2>0, <3>1 DEF Inv, TypeOK, NoOrphan, DeletesNoSystemRole, CheckedHasUser
    <3>3. IdsOnce'
      BY <3>1 DEF Knowing, IdsOnce, Named
    <3>4. \A u \in User : Steady(u)
      BY <2>0, <3>1, SteadyStill DEF Knowing
    <3>5. AllKnow'
      BY <3>1, <3>2, <3>4, OthersKnow DEF AllKnow
    <3> QED BY <3>2, <3>3, <3>5 DEF Knowing
  <2> QED BY <2>1, <2>2
<1> QED BY <1>1, <1>2, PTL DEF Spec

-----------------------------------------------------------------------------
(* What undisturbed writes do *)

(* An undisturbed request that takes a step writes. *)
LEMMA UndisturbedWrites ==
    ASSUME Knowing, Next, NEW q \in Req, Undisturbed(q)
    PROVE  Write(q) /\ Knows(q) /\ Inv'
<1>0. Inv /\ Knows(q) /\ req \in [Req -> Requests]
  BY DEF Knowing, AllKnow, Undisturbed, Inv, TypeOK
<1>1. PICK p \in Req : Authenticate(p) \/ Check(p) \/ Refuse(p) \/ Write(p)
  BY DEF Next
<1>2. Inv'
  BY <1>0, <1>1, InvByAuthenticate, InvByCheck, InvByRefuse, InvByWrite
<1>3. p # q => req'[q] = req[q]
  <2>1. CASE Authenticate(p)
    BY <1>0, <2>1, Zenon DEF Authenticate
  <2>2. CASE Check(p)
    <3>1. PICK w \in Work : Checked(p, w)
      BY <1>0, <2>2, CheckFinds
    <3> QED BY <1>0, <3>1, Zenon DEF Checked
  <2>3. CASE Refuse(p) \/ SetPermissions(p) \/ Update(p) \/ Delete(p) \/ SetUserRole(p)
    <3>1. Finish(p)
      BY <2>3 DEF Refuse, SetPermissions, Update, Delete, SetUserRole
    <3> QED BY <1>0, <3>1, FinishLeaves DEF Inv
  <2>4. CASE Create(p)
    <3>1. CASE Finish(p)
      BY <1>0, <3>1, FinishLeaves DEF Inv
    <3>2. CASE ~Finish(p)
      <4>1. PICK r : req' = [req EXCEPT ![p].work = [req[p].work EXCEPT !.op = "grant", !.role = r]]
        BY <2>4, <3>2 DEF Create
      <4> QED BY <1>0, <4>1, Zenon
    <3> QED BY <3>1, <3>2
  <2> QED BY <1>1, <2>1, <2>2, <2>3, <2>4 DEF Write
<1>4. p = q
  BY <1>3 DEF Undisturbed
<1>5. req[q].st = "writing"
  BY DEF Undisturbed
<1> QED BY <1>0, <1>1, <1>2, <1>4, <1>5 DEF Authenticate, Check, Refuse

(* The write of a request as far as it changes anything: w is what it has checked,
   u its user and ps what the user may do. *)
Created(w, r) ==
    /\ w.op = "create" /\ w.to \in exists \cup {None} /\ r \in Role \ (exists \cup gone)
    /\ exists' = exists \cup {r} /\ parent' = [parent EXCEPT ![r] = w.to]
    /\ UNCHANGED <<grants, userRole>>

Granted(w) ==
    /\ w.op \in {"grant", "apply"} /\ w.role \in exists
    /\ grants' = [grants EXCEPT ![w.role] = w.set]
    /\ UNCHANGED <<exists, parent, userRole>>

Moved(w) ==
    /\ w.op = "move" /\ w.role \in exists /\ w.to \in exists \cup {None}
    /\ parent' = [parent EXCEPT ![w.role] = w.to]
    /\ UNCHANGED <<exists, grants, userRole>>

Deleted(w) ==
    /\ w.op = "delete" /\ w.role \in exists /\ \A c \in exists : parent[c] # w.role
    /\ exists' = exists \ {w.role} /\ parent' = [parent EXCEPT ![w.role] = None]
    /\ grants' = [grants EXCEPT ![w.role] = {}]
    /\ userRole' = [u \in User |-> IF userRole[u] = w.role THEN None ELSE userRole[u]]

Assigned(w) ==
    /\ w.op = "assign" /\ w.role \in exists
    /\ userRole' = [userRole EXCEPT ![w.who] = w.role]
    /\ UNCHANGED <<exists, parent, grants>>

LEMMA WriteIs ==
    ASSUME NEW q \in Req, Write(q), NEW w, w = req[q].work
    PROVE  \/ UNCHANGED <<exists, parent, grants, userRole>>
           \/ \E r : Created(w, r)
           \/ Granted(w) \/ Moved(w) \/ Deleted(w) \/ Assigned(w)
<1>1. CASE Create(q)
  BY <1>1 DEF Create, Writing, Created
<1>2. CASE SetPermissions(q)
  BY <1>2 DEF SetPermissions, Writing, Granted
<1>3. CASE Update(q)
  BY <1>3 DEF Update, Writing, Moved
<1>4. CASE Delete(q)
  BY <1>4 DEF Delete, Writing, Deleted
<1>5. CASE SetUserRole(q)
  BY <1>5 DEF SetUserRole, Writing, Assigned
<1> QED BY <1>1, <1>2, <1>3, <1>4, <1>5 DEF Write

(* What such a request has found, with names that a step does not change. *)
LEMMA WriterKnows ==
    ASSUME Knowing, Next, NEW q \in Req, Undisturbed(q)
    PROVE  \E u \in User, ps \in SUBSET Perm, w \in Work :
              /\ u = req[q].user /\ ps = req[q].perms /\ w = req[q].work
              /\ Inv /\ Inv' /\ IdsOnce /\ Found(u, ps, w)
              /\ userRole[u] # None => ps = effective_permissions(u)
              /\ \/ UNCHANGED <<exists, parent, grants, userRole>>
                 \/ \E r : Created(w, r)
                 \/ Granted(w) \/ Moved(w) \/ Deleted(w) \/ Assigned(w)
<1>1. Write(q) /\ Knows(q) /\ Inv' /\ Inv /\ IdsOnce
  BY UndisturbedWrites DEF Knowing
<1>2. req[q].st = "writing" /\ req[q] \in Requests
  BY <1>1 DEF Undisturbed, Inv, TypeOK
<1>3. PICK u \in User, ps \in SUBSET Perm, w \in Work :
         u = req[q].user /\ ps = req[q].perms /\ w = req[q].work
  BY <1>1, <1>2 DEF Knows, Requests
<1>4. Found(u, ps, w) /\ (userRole[u] # None => ps = effective_permissions(u))
  BY <1>1, <1>2, <1>3 DEF Knows
<1>5. \/ UNCHANGED <<exists, parent, grants, userRole>>
      \/ \E r : Created(w, r)
      \/ Granted(w) \/ Moved(w) \/ Deleted(w) \/ Assigned(w)
  BY <1>1, <1>3, WriteIs
<1> QED BY <1>1, <1>3, <1>4, <1>5

-----------------------------------------------------------------------------
(* Moves make no cycle *)

LEMMA ForestIs ==
    /\ Forest <=> \A r \in exists : \A n \in 1..Cardinality(Role) : r \notin Hop(parent, exists, r, n)
    /\ Forest' <=> \A r \in exists' : \A n \in 1..Cardinality(Role) : r \notin Hop(parent', exists', r, n)
<1>1. \A r, n : /\ AtHop(r, n) = Hop(parent, exists, r, n)
                /\ AtHop(r, n)' = Hop(parent', exists', r, n)
  BY AtHopIsHop
<1> QED BY <1>1 DEF Forest

(* A role whose new parent is not below it is on no cycle, and no other role's walk
   comes by it twice. *)
LEMMA MoveNoLoop ==
    ASSUME NEW P, NEW E, \A x \in E : P[x] \in E \cup {None},
           NEW r \in E, NEW to \in E \cup {None}, None \notin E,
           NEW Q, \A x \in E : Q[x] = IF x = r THEN to ELSE P[x],
           to \in E => \A n \in Nat : r \notin Hop(P, E, to, n),
           NEW x \in E, NEW n \in Nat, n # 0, x \in Hop(Q, E, x, n)
    PROVE  x \in Hop(P, E, x, n)
<1>0. \A y \in E : Q[y] \in E \cup {None}
  OBVIOUS
<1>1. CASE x \in Off(Q, E, r)
  <2>1. \A y \in E : y # r => P[y] = Q[y]
    OBVIOUS
  <2>2. Hop(Q, E, x, n) = Hop(P, E, x, n)
    BY <1>0, <1>1, <2>1, MoveSame
  <2> QED BY <2>2
<1>2. CASE x \notin Off(Q, E, r)
  <2>1. PICK k \in Nat : r \in Hop(Q, E, x, k)
    BY <1>2 DEF Off
  <2>2. Hop(Q, E, x, n + k) = Hop(Q, E, x, k) /\ Hop(Q, E, x, k + n) = Hop(Q, E, r, n)
    BY <2>1, HopJoin
  <2>3. n + k = k + n
    OBVIOUS
  <2>4. r \in Hop(Q, E, r, n)
    BY <2>1, <2>2, <2>3
  <2>5. PICK m \in Nat : n = m + 1
    <3>1. n - 1 \in Nat /\ n = (n - 1) + 1
      OBVIOUS
    <3> QED BY <3>1
  <2>6. Q[r] = to /\ Hop(Q, E, r, m + 1) = IF Q[r] = None THEN {} ELSE Hop(Q, E, Q[r], m)
    BY HopFirst
  <2>7. to \in E /\ r \in Hop(Q, E, to, m)
    BY <2>4, <2>5, <2>6
  <2>8. to \in Off(P, E, r)
    BY <2>7 DEF Off
  <2>9. \A y \in E : y # r => Q[y] = P[y]
    OBVIOUS
  <2>10. Hop(P, E, to, m) = Hop(Q, E, to, m)
    BY <2>8, <2>9, MoveSame
  <2> QED BY <2>7, <2>10
<1> QED BY <1>1, <1>2

(* A role just created is not above the one it hangs from. *)
LEMMA CreateNoLoop ==
    ASSUME Inv, IdsOnce, NEW w, NEW r, Created(w, r), NEW u \in User, NEW n \in Nat, n # 0
    PROVE  r \notin Hop(parent', exists', r, n)
<1>1. PICK P, E, to : P = parent' /\ E = exists' /\ to = w.to /\ to \in exists \cup {None}
                      /\ r \in E /\ P[r] = to /\ r \notin exists /\ None \notin exists
  BY RolesAssumption DEF Created, Inv, TypeOK
<1>2. PICK m \in Nat : n = m + 1
  <2>1. n - 1 \in Nat /\ n = (n - 1) + 1
    OBVIOUS
  <2> QED BY <2>1
<1>3. Hop(P, E, r, m + 1) = IF P[r] = None THEN {} ELSE Hop(P, E, P[r], m)
  BY <1>1, HopFirst
<1>4. CASE to = None
  BY <1>1, <1>2, <1>3, <1>4
<1>5. CASE to \in exists
  <2>1. to \in exists \cap exists' /\ Steady(u)
    BY <1>1, <1>5, SteadyCreate DEF Created
  <2>2. /\ Hop(parent', exists', to, m) = Hop(parent, exists, to, m)
        /\ Hop(parent, exists, to, m) \subseteq exists \cap exists'
    BY <2>1, SteadyWalks
  <2> QED BY <1>1, <1>2, <1>3, <1>5, <2>2
<1> QED BY <1>1, <1>4, <1>5

LEMMA MoveKeepsForest ==
    ASSUME Knowing, Next, NEW q \in Req, Undisturbed(q), Forest
    PROVE  Forest'
<1>1. PICK u \in User, ps \in SUBSET Perm, w \in Work :
              /\ Inv /\ Inv' /\ IdsOnce /\ Found(u, ps, w)
              /\ \/ UNCHANGED <<exists, parent, grants, userRole>>
                 \/ \E r : Created(w, r)
                 \/ Granted(w) \/ Moved(w) \/ Deleted(w) \/ Assigned(w)
  BY WriterKnows
<1>2. PICK N : N = 1..Cardinality(Role) /\ N \subseteq Nat \ {0}
  <2>1. Cardinality(Role) \in Nat
    BY RolesAssumption, FS_CardinalityType
  <2> QED BY <2>1
<1> SUFFICES ASSUME NEW x \in exists', NEW n \in N, x \in Hop(parent', exists', x, n)
             PROVE  \E y \in exists : \E k \in N : y \in Hop(parent, exists, y, k)
  BY <1>2, ForestIs
<1>3. n \in Nat /\ n # 0
  BY <1>2
<1>4. CASE UNCHANGED <<exists, parent>>
  BY <1>4
<1>5. CASE \E r : Created(w, r)
  <2>1. PICK r : Created(w, r)
    BY <1>5
  <2>2. x # r
    BY <1>1, <1>3, <2>1, CreateNoLoop
  <2>3. x \in exists \cap exists' /\ Steady(u)
    BY <1>1, <2>1, <2>2, SteadyCreate DEF Created
  <2> QED BY <1>3, <2>3, SteadyWalks
<1>6. CASE Deleted(w)
  <2>1. x \in exists \cap exists' /\ Steady(u)
    BY <1>1, <1>6, SteadyDelete DEF Deleted
  <2> QED BY <1>3, <2>1, SteadyWalks
<1>7. CASE Moved(w)
  <2>1. PICK r, to, P, Q, E : r = w.role /\ to = w.to /\ P = parent /\ Q = parent' /\ E = exists
    OBVIOUS
  <2>2. CASE to = P[r]
    <3>1. UNCHANGED <<exists, parent>>
      BY <1>1, <1>7, <2>1, <2>2 DEF Moved, Inv, TypeOK
    <3> QED BY <3>1
  <2>3. CASE to # P[r]
    <3>1. to \in E => \A k \in Nat : r \notin Hop(P, E, to, k)
      BY <1>1, <1>7, <2>1, <2>3 DEF Found, FoundMove, Moved
    <3>2. /\ r \in E /\ to \in E \cup {None} /\ None \notin E /\ exists' = E
          /\ \A y \in E : P[y] \in E \cup {None}
      BY <1>1, <1>7, <2>1, RolesAssumption DEF Moved, Inv, TypeOK, NoOrphan
    <3>3. \A y \in E : Q[y] = IF y = r THEN to ELSE P[y]
      BY <1>1, <1>7, <2>1 DEF Moved, Inv, TypeOK
    <3>4. x \in E /\ x \in Hop(Q, E, x, n)
      BY <2>1, <3>2
    <3>5. x \in Hop(P, E, x, n)
      BY ONLY <1>3, <3>1, <3>2, <3>3, <3>4, MoveNoLoop
    <3> QED BY <2>1, <3>4, <3>5
  <2> QED BY <2>2, <2>3
<1> QED BY <1>1, <1>4, <1>5, <1>6, <1>7 DEF Granted, Assigned

(* edit_role makes no cycle as long as nobody else moves a role or changes grants
   between its checks and its write, however many roles there are and however roles
   come and go and users are assigned meanwhile. *)
THEOREM MovesKeepForestAlways == Spec => MovesKeepForest
<1>1. Knowing /\ [Next]_vars => [\A q \in Req : Undisturbed(q) /\ Forest => Forest']_vars
  BY MoveKeepsForest
<1> QED BY <1>1, KnowingAlways, PTL DEF Spec, MovesKeepForest

-----------------------------------------------------------------------------
(* Nobody hands out more than they hold *)

LEMMA ShallowIs ==
    /\ Shallow <=> \A r \in exists : Hop(parent, exists, r, MaxAncestorWalk) = {}
    /\ Shallow' <=> \A r \in exists' : Hop(parent', exists', r, MaxAncestorWalk) = {}
<1>1. \A r, n : /\ AtHop(r, n) = Hop(parent, exists, r, n)
                /\ AtHop(r, n)' = Hop(parent', exists', r, n)
  BY AtHopIsHop
<1> QED BY <1>1 DEF Shallow

(* A walk that ends in time stays within the walk for permissions. *)
LEMMA WalkInTime ==
    ASSUME NEW P, NEW E, NEW x, Hop(P, E, x, MaxAncestorWalk) = {},
           NEW n \in Nat, NEW a \in Hop(P, E, x, n)
    PROVE  n \in 0..(MaxAncestorWalk - 1)
<1>1. MaxAncestorWalk \in Nat /\ MaxAncestorWalk # 0
  BY RolesAssumption
<1>2. ~(MaxAncestorWalk <= n)
  BY <1>1, HopPast
<1> QED BY <1>1, <1>2

(* A role confers no more than one above it does, when all of its chain is walked. *)
LEMMA EffBelow ==
    ASSUME NEW P, NEW E, NEW G, NEW x, Hop(P, E, x, MaxAncestorWalk) = {},
           NEW i \in Nat, NEW a \in Hop(P, E, x, i)
    PROVE  EffOf(P, E, G, x) \subseteq EffOf(P, E, G, a)
<1> SUFFICES ASSUME NEW p \in EffOf(P, E, G, x),
                    NEW n \in 0..(MaxAncestorWalk - 1), NEW b \in Hop(P, E, a, n)
             PROVE  p \in G[b]
  BY DEF EffOf
<1>1. n \in Nat /\ i + n \in Nat
  BY RolesAssumption
<1>2. Hop(P, E, x, i + n) = Hop(P, E, a, n)
  BY <1>1, HopJoin
<1>3. i + n \in 0..(MaxAncestorWalk - 1)
  BY <1>1, <1>2, WalkInTime
<1> QED BY <1>2, <1>3 DEF EffOf

(* Two forests in which a role has the same chain with the same grants. *)
LEMMA EffSame ==
    ASSUME NEW P, NEW E, NEW G, NEW Q, NEW F, NEW H, NEW x,
           \A n \in Nat : Hop(P, E, x, n) = Hop(Q, F, x, n),
           \A n \in Nat : \A a \in Hop(P, E, x, n) : G[a] = H[a]
    PROVE  EffOf(P, E, G, x) = EffOf(Q, F, H, x)
<1>1. 0..(MaxAncestorWalk - 1) \subseteq Nat
  BY RolesAssumption
<1> QED BY <1>1 DEF EffOf

(* A step that leaves the forest as it was, but for roles that nothing hangs from. *)
LEMMA SteadyGivesNothing ==
    ASSUME Inv, Inv', NEW u \in User, Steady(u)
    PROVE  effective_permissions(u)' \subseteq effective_permissions(u)
<1>1. CASE userRole'[u] = None
  BY <1>1 DEF effective_permissions
<1>2. CASE userRole'[u] # None
  <2>1. PICK m : m = userRole[u] /\ m = userRole'[u] /\ m \in exists \cap exists' /\ m # None
    BY <1>2 DEF Steady, Inv, NoOrphan
  <2>2. effective_permissions_for_role(m)' = effective_permissions_for_role(m)
    BY <2>1, SteadyEff
  <2> QED BY <2>1, <2>2 DEF effective_permissions
<1> QED BY <1>1, <1>2

(* A move under a role of the author's: what hangs below the role that moves gets no
   more than its new parent has, and everything else stays as it was. *)
LEMMA MoveGives ==
    ASSUME NEW P, NEW E, \A x \in E : P[x] \in E \cup {None}, None \notin E, NEW G,
           NEW r \in E, NEW to \in E, \A n \in Nat : r \notin Hop(P, E, to, n),
           NEW Q, \A x \in E : Q[x] = IF x = r THEN to ELSE P[x],
           \A x \in E : Hop(Q, E, x, MaxAncestorWalk) = {},
           NEW i \in Nat, NEW a \in Hop(P, E, to, i), NEW x \in E
    PROVE  EffOf(Q, E, G, x) \subseteq EffOf(P, E, G, x) \cup EffOf(P, E, G, a)
<1>0. \A y \in E : Q[y] \in E \cup {None}
  OBVIOUS
<1>1. CASE x \in Off(Q, E, r)
  <2>1. \A y \in E : y # r => P[y] = Q[y]
    OBVIOUS
  <2>2. \A n \in Nat : Hop(Q, E, x, n) = Hop(P, E, x, n)
    BY <1>0, <1>1, <2>1, MoveSame
  <2>3. EffOf(Q, E, G, x) = EffOf(P, E, G, x)
    BY <2>2, EffSame
  <2> QED BY <2>3
<1>2. CASE x \notin Off(Q, E, r)
  <2>1. PICK k \in Nat : r \in Hop(Q, E, x, k)
    BY <1>2 DEF Off
  <2>2. Q[r] = to /\ to # None /\ 0 \in Nat /\ 0 + 1 = 1 /\ 1 \in Nat /\ k + 1 \in Nat
    OBVIOUS
  <2>3. Hop(Q, E, r, 0 + 1) = IF Q[r] = None THEN {} ELSE Hop(Q, E, Q[r], 0)
    BY <2>2, HopFirst
  <2>4. to \in Hop(Q, E, r, 1)
    BY <2>2, <2>3, HopZero
  <2>5. to \in Hop(Q, E, x, k + 1)
    BY <2>1, <2>2, <2>4, HopJoin
  <2>6. to \in Off(P, E, r)
    BY DEF Off
  <2>7. \A y \in E : y # r => Q[y] = P[y]
    OBVIOUS
  <2>8. \A n \in Nat : Hop(P, E, to, n) = Hop(Q, E, to, n)
    BY <2>6, <2>7, MoveSame
  <2>9. a \in Hop(Q, E, to, i)
    BY <2>8
  <2>10. \A n \in Nat : Hop(Q, E, a, n) = Hop(P, E, a, n)
    <3> SUFFICES ASSUME NEW n \in Nat PROVE Hop(Q, E, a, n) = Hop(P, E, a, n)
      OBVIOUS
    <3>1. i + n \in Nat
      OBVIOUS
    <3>2. Hop(Q, E, to, i + n) = Hop(Q, E, a, n) /\ Hop(P, E, to, i + n) = Hop(P, E, a, n)
      BY <2>9, HopJoin
    <3> QED BY <2>8, <3>1, <3>2
  <2>11. EffOf(Q, E, G, x) \subseteq EffOf(Q, E, G, to)
    BY <2>2, <2>5, EffBelow
  <2>12. EffOf(Q, E, G, to) \subseteq EffOf(Q, E, G, a)
    BY <2>9, EffBelow
  <2>13. EffOf(Q, E, G, a) = EffOf(P, E, G, a)
    BY <2>10, EffSame
  <2> QED BY <2>11, <2>12, <2>13
<1> QED BY <1>1, <1>2

(* The permissions of a user are those of the role it holds. *)
LEMMA EffOfUser ==
    ASSUME NEW v, NEW m, m # None
    PROVE  /\ userRole[v] = m => effective_permissions(v) = EffOf(parent, exists, grants, m)
           /\ userRole'[v] = m => effective_permissions(v)' = EffOf(parent', exists', grants', m)
<1>1. /\ effective_permissions_for_role(m) = EffOf(parent, exists, grants, m)
      /\ effective_permissions_for_role(m)' = EffOf(parent', exists', grants', m)
  BY EffIs
<1>2. userRole[v] = m => effective_permissions(v) = EffOf(parent, exists, grants, m)
  BY <1>1 DEF effective_permissions
<1>3. userRole'[v] = m => effective_permissions(v)' = EffOf(parent', exists', grants', m)
  BY <1>1 DEF effective_permissions
<1> QED BY <1>2, <1>3

(* The author of a write without full permissions holds a role above those it is about. *)
LEMMA AuthorHolds ==
    ASSUME NEW u, NEW x, NEW ps, Over(u, x),
           userRole[u] # None => ps = effective_permissions(u)
    PROVE  \E m : \E i \in Nat : /\ m = userRole[u] /\ m # None
                                 /\ m \in Hop(parent, exists, x, i)
                                 /\ ps = EffOf(parent, exists, grants, m)
<1>1. PICK m : m = userRole[u] /\ m # None
  BY DEF Over
<1>2. ps = EffOf(parent, exists, grants, m)
  BY <1>1, EffOfUser
<1> QED BY <1>1, <1>2 DEF Over

LEMMA GivesWithin ==
    ASSUME Knowing, Next, NEW q \in Req, Undisturbed(q), Shallow', NEW v \in User
    PROVE  effective_permissions(v)' \subseteq effective_permissions(v) \cup req[q].perms
<1>1. PICK u \in User, ps \in SUBSET Perm, w \in Work :
              /\ u = req[q].user /\ ps = req[q].perms /\ w = req[q].work
              /\ Inv /\ Inv' /\ IdsOnce /\ Found(u, ps, w)
              /\ userRole[u] # None => ps = effective_permissions(u)
              /\ \/ UNCHANGED <<exists, parent, grants, userRole>>
                 \/ \E r : Created(w, r)
                 \/ Granted(w) \/ Moved(w) \/ Deleted(w) \/ Assigned(w)
  BY WriterKnows
<1> SUFFICES ASSUME ps # Perm, userRole'[v] # None
             PROVE  effective_permissions(v)' \subseteq effective_permissions(v) \cup ps
  <2>1. CASE ps = Perm
    <3>1. effective_permissions(v)' \subseteq Perm
      BY DEF effective_permissions, effective_permissions_for_role
    <3> QED BY <1>1, <2>1, <3>1
  <2>2. CASE userRole'[v] = None
    BY <2>2 DEF effective_permissions
  <2> QED BY <1>1, <2>1, <2>2
<1>2. PICK m, P, E, G, Q, F, H :
        /\ m = userRole'[v] /\ m # None /\ m \in exists'
        /\ P = parent /\ E = exists /\ G = grants /\ Q = parent' /\ F = exists' /\ H = grants'
  BY <1>1 DEF Inv, NoOrphan
<1>3. effective_permissions(v)' = EffOf(Q, F, H, m)
  BY <1>2, EffOfUser
<1>4. userRole[v] = m => effective_permissions(v) = EffOf(P, E, G, m)
  BY <1>2, EffOfUser
<1>5. CASE UNCHANGED <<exists, parent, grants, userRole>>
  BY <1>2, <1>3, <1>4, <1>5
<1>6. CASE (\E r : Created(w, r)) \/ Deleted(w)
  <2>1. Steady(v)
    BY <1>1, <1>6, SteadyCreate, SteadyDelete DEF Created, Deleted
  <2> QED BY <1>1, <2>1, SteadyGivesNothing
<1>7. CASE Granted(w)
  <2>1. userRole[v] = m /\ Q = P /\ F = E
    BY <1>2, <1>7 DEF Granted
  <2>2. \A p : \A a \in Role : p \in H[a] => p \in G[a] \cup ps
    BY <1>1, <1>2, <1>7 DEF Granted, Found, FoundGrants, Inv, TypeOK
  <2>3. \A n \in 0..(MaxAncestorWalk - 1) : Hop(P, E, m, n) \subseteq Role
    <3> SUFFICES ASSUME NEW n \in 0..(MaxAncestorWalk - 1) PROVE Hop(P, E, m, n) \subseteq Role
      OBVIOUS
    <3>1. n \in Nat /\ m \in E /\ E \subseteq Role
      BY <1>1, <1>2, <2>1, RolesAssumption DEF Inv, TypeOK
    <3>2. \A x \in E : P[x] \in E \cup {None}
      BY <1>1, <1>2 DEF Inv, NoOrphan
    <3>3. \A x \in E : (x \in E <=> x \in E) /\ (x \in E => P[x] = P[x] /\ P[x] \in E \cup {None})
      BY <3>2
    <3>4. Hop(P, E, m, n) \subseteq E
      BY ONLY <3>1, <3>3, HopSame
    <3> QED BY <3>1, <3>4
  <2>4. EffOf(Q, F, H, m) \subseteq EffOf(P, E, G, m) \cup ps
    BY <2>1, <2>2, <2>3 DEF EffOf
  <2> QED BY <1>3, <1>4, <2>1, <2>4
<1>8. CASE Assigned(w)
  <2>1. CASE v # w.who
    <3>1. userRole'[v] = userRole[v]
      BY <1>1, <1>8, <2>1 DEF Assigned, Inv, TypeOK
    <3>2. Steady(v)
      BY <1>1, <1>8, <3>1, SteadyStill DEF Assigned
    <3> QED BY <1>1, <3>2, SteadyGivesNothing
  <2>2. CASE v = w.who
    <3>1. m = w.role /\ Q = P /\ F = E /\ H = G /\ w.op = "assign" /\ m \in exists
      BY <1>1, <1>2, <1>8, <2>2 DEF Assigned, Inv, TypeOK
    <3>2. Over(u, m)
      BY <1>1, <3>1 DEF Found, FoundAssignee
    <3>3. PICK a : \E i \in Nat : a \in Hop(P, E, m, i) /\ ps = EffOf(P, E, G, a)
      BY <1>1, <1>2, <3>2, AuthorHolds
    <3>4. Hop(P, E, m, MaxAncestorWalk) = {}
      BY <1>2, <3>1, ShallowIs
    <3>5. EffOf(P, E, G, m) \subseteq ps
      BY <3>3, <3>4, EffBelow
    <3> QED BY <1>3, <3>1, <3>5
  <2> QED BY <2>1, <2>2
<1>9. CASE Moved(w)
  <2>1. PICK r, to : r = w.role /\ to = w.to
    OBVIOUS
  <2>2. /\ r \in E /\ to \in E \cup {None} /\ None \notin E /\ F = E /\ H = G /\ m \in E
        /\ userRole[v] = m /\ \A x \in E : P[x] \in E \cup {None}
    BY <1>1, <1>2, <1>9, <2>1, RolesAssumption DEF Moved, Inv, TypeOK, NoOrphan
  <2>3. \A x \in E : Q[x] = IF x = r THEN to ELSE P[x]
    BY <1>1, <1>2, <1>9, <2>1 DEF Moved, Inv, TypeOK
  <2>4. CASE to = P[r]
    <3>1. Q = P
      BY <1>1, <1>2, <1>9, <2>1, <2>4 DEF Moved, Inv, TypeOK
    <3> QED BY <1>3, <1>4, <2>2, <3>1
  <2>5. CASE to # P[r]
    <3>1. to # None => (\A n \in Nat : r \notin Hop(P, E, to, n)) /\ Over(u, to)
      BY <1>1, <1>2, <1>9, <2>1, <2>2, <2>5 DEF Moved, Found, FoundMove
    <3>2. to # None
      BY <1>1, <1>2, <1>9, <2>1, <2>2, <2>5 DEF Moved, Found, FoundMove
    <3>3. to \in E
      BY <2>2, <3>2
    <3>4. PICK a : \E i \in Nat : a \in Hop(P, E, to, i) /\ ps = EffOf(P, E, G, a)
      <4>1. Over(u, to) /\ (userRole[u] # None => ps = effective_permissions(u))
        BY <1>1, <3>1, <3>2
      <4>2. \E a : \E i \in Nat : /\ a = userRole[u] /\ a # None
                                  /\ a \in Hop(parent, exists, to, i)
                                  /\ ps = EffOf(parent, exists, grants, a)
        BY ONLY <4>1, AuthorHolds, Zenon
      <4> QED BY <1>2, <4>2
    <3>5. PICK i \in Nat : a \in Hop(P, E, to, i)
      BY <3>4
    <3>6. \A x \in E : Hop(Q, E, x, MaxAncestorWalk) = {}
      BY <1>2, <2>2, ShallowIs
    <3>7. \A n \in Nat : r \notin Hop(P, E, to, n)
      BY <3>1, <3>2
    <3>8. EffOf(Q, E, G, m) \subseteq EffOf(P, E, G, m) \cup EffOf(P, E, G, a)
      BY ONLY <2>2, <2>3, <3>3, <3>5, <3>6, <3>7, MoveGives
    <3> QED BY <1>3, <1>4, <2>2, <3>4, <3>8
  <2> QED BY <2>4, <2>5
<1> QED BY <1>1, <1>5, <1>6, <1>7, <1>8, <1>9

(* Nobody hands out more than they hold, for every forest, set of permissions and
   number of requests, as long as no chain outgrows the walk for permissions. *)
THEOREM WithinCeilingAlways == Spec => WithinCeiling
<1>1. Knowing /\ [Next]_vars =>
        [\A q \in Req : Undisturbed(q) /\ Shallow' =>
            \A u \in User :
               effective_permissions(u)' \subseteq effective_permissions(u) \cup req[q].perms]_vars
  BY GivesWithin
<1> QED BY <1>1, KnowingAlways, PTL DEF Spec, WithinCeiling

-----------------------------------------------------------------------------
(* A delegated admin reaches only what is below its own role *)

(* No walk from the user's own role, or from one that is not below it, comes by a
   role that is strictly below it. *)
LEMMA OutOfReach ==
    ASSUME Shallow, NEW u, NEW m, m = userRole[u], m \in exists,
           NEW r, Over(u, r), m # r,
           NEW x \in exists, x = m \/ ~is_within_subtree(x, m)
    PROVE  x \in Off(parent, exists, r)
<1> SUFFICES ASSUME NEW n \in Nat, r \in Hop(parent, exists, x, n) PROVE FALSE
  BY DEF Off
<1>1. PICK i \in Nat : m \in Hop(parent, exists, r, i)
  BY DEF Over
<1>2. n + i \in Nat /\ MaxAncestorWalk \in Nat
  BY RolesAssumption
<1>3. Hop(parent, exists, x, n + i) = Hop(parent, exists, r, i)
  BY HopJoin
<1>4. m \in Hop(parent, exists, x, n + i)
  BY <1>1, <1>3
<1>5. /\ Hop(parent, exists, x, MaxAncestorWalk) = {}
      /\ Hop(parent, exists, m, MaxAncestorWalk) = {}
  BY ShallowIs
<1>6. CASE x = m
  <2>1. CASE n + i = 0
    <3>1. n = 0
      BY <2>1
    <3>2. r \in {x}
      BY <3>1, HopZero
    <3> QED BY <1>6, <3>2
  <2>2. CASE n + i # 0
    BY <1>2, <1>4, <1>5, <1>6, <2>2, NoLoop
  <2> QED BY <2>1, <2>2
<1>7. CASE ~is_within_subtree(x, m)
  <2>1. n + i \in 0..(MaxAncestorWalk - 1)
    BY <1>2, <1>4, <1>5, WalkInTime
  <2>2. n + i \in 0..MaxAncestorWalk
    BY <1>2, <2>1
  <2> QED BY <1>4, <1>7, <2>2, WithinIs
<1> QED BY <1>6, <1>7

(* A change of the parent or the grants of a role leaves alone what is not below it. *)
LEMMA OffSame ==
    ASSUME NEW P, NEW E, \A y \in E : P[y] \in E \cup {None}, NEW G, NEW r, NEW Q, NEW H,
           \A y \in E : y # r => Q[y] = P[y] /\ H[y] = G[y],
           NEW x \in Off(P, E, r)
    PROVE  EffOf(Q, E, H, x) = EffOf(P, E, G, x)
<1>1. \A y \in E : y # r => Q[y] = P[y]
  OBVIOUS
<1>2. \A n \in Nat : Hop(P, E, x, n) = Hop(Q, E, x, n) /\ Hop(P, E, x, n) \subseteq Off(P, E, r)
  BY <1>1, MoveSame
<1>3. \A y \in Off(P, E, r) : y \in E /\ y # r
  <2> SUFFICES ASSUME NEW y \in Off(P, E, r) PROVE y \in E /\ y # r
    OBVIOUS
  <2>1. y \in E /\ y \in Hop(P, E, y, 0) /\ 0 \in Nat
    BY HopZero DEF Off
  <2> QED BY <2>1 DEF Off
<1>4. \A n \in Nat : \A a \in Hop(P, E, x, n) : G[a] = H[a]
  BY <1>2, <1>3
<1>5. EffOf(P, E, G, x) = EffOf(Q, E, H, x)
  BY <1>2, <1>4, EffSame
<1> QED BY <1>5

(* A write by someone with a ceiling: the author's role is above what it is about. *)
LEMMA AuthorOver ==
    ASSUME NEW u, NEW ps, NEW w, Found(u, ps, w), ps # Perm,
           Granted(w) \/ Moved(w) \/ Deleted(w)
    PROVE  Over(u, w.role) /\ userRole[u] # w.role
  BY DEF Found, FoundRole, Granted, Moved, Deleted

LEMMA ReachesOwn ==
    ASSUME Knowing, Next, NEW q \in Req, Undisturbed(q), Shallow,
           NEW u \in User, u = req[q].user, req[q].perms # Perm
    PROVE  /\ effective_permissions(u)' = effective_permissions(u)
           /\ \A x \in exists :
                 ~is_within_subtree(x, userRole[u]) =>
                    effective_permissions_for_role(x)' = effective_permissions_for_role(x)
<1>1. PICK ps \in SUBSET Perm, w \in Work :
              /\ ps # Perm /\ Inv /\ Inv' /\ IdsOnce /\ Found(u, ps, w)
              /\ \/ UNCHANGED <<exists, parent, grants, userRole>>
                 \/ \E r : Created(w, r)
                 \/ Granted(w) \/ Moved(w) \/ Deleted(w) \/ Assigned(w)
  BY WriterKnows
<1>2. PICK m, P, E, G, Q, F, H :
        /\ m = userRole[u] /\ m \in exists \cup {None}
        /\ P = parent /\ E = exists /\ G = grants /\ Q = parent' /\ F = exists' /\ H = grants'
  BY <1>1 DEF Inv, NoOrphan
<1>3. None \notin E /\ E \subseteq Role /\ \A y \in E : P[y] \in E \cup {None}
  BY <1>1, <1>2, RolesAssumption DEF Inv, TypeOK, NoOrphan
<1> SUFFICES /\ userRole'[u] = m
             /\ \A x \in E : x = m \/ ~is_within_subtree(x, m) =>
                   EffOf(Q, F, H, x) = EffOf(P, E, G, x)
  <2>1. userRole'[u] = m
    OBVIOUS
  <2>2. \A x \in E : x = m \/ ~is_within_subtree(x, m) => EffOf(Q, F, H, x) = EffOf(P, E, G, x)
    OBVIOUS
  <2>3. effective_permissions(u)' = effective_permissions(u)
    <3>1. CASE m = None
      BY <1>2, <2>1, <3>1 DEF effective_permissions
    <3>2. CASE m # None
      BY <1>2, <2>1, <2>2, <3>2, EffOfUser
    <3> QED BY <3>1, <3>2
  <2>4. \A x \in E : ~is_within_subtree(x, m) =>
           effective_permissions_for_role(x)' = effective_permissions_for_role(x)
    BY <1>2, <2>2, EffIs
  <2> QED BY <1>2, <2>3, <2>4
<1>4. CASE UNCHANGED <<exists, parent, grants, userRole>>
  BY <1>2, <1>4
<1>5. CASE \E r : Created(w, r)
  <2>1. Steady(u) /\ UNCHANGED userRole /\ E \subseteq F
    BY <1>1, <1>2, <1>5, SteadyCreate DEF Created
  <2>2. ASSUME NEW x \in E PROVE EffOf(Q, F, H, x) = EffOf(P, E, G, x)
    BY <1>2, <2>1, SteadyEff, EffIs
  <2> QED BY <1>2, <2>1, <2>2
<1>6. CASE Assigned(w)
  <2>1. w.who # u /\ Q = P /\ F = E /\ H = G
    BY <1>1, <1>2, <1>6 DEF Assigned, Found, FoundAssignee
  <2>2. userRole'[u] = userRole[u]
    BY <1>1, <1>6, <2>1 DEF Assigned, Inv, TypeOK
  <2> QED BY <1>2, <2>1, <2>2
<1>7. CASE Granted(w) \/ Moved(w) \/ Deleted(w)
  <2>1. PICK r : r = w.role
    OBVIOUS
  <2>2. Over(u, r) /\ m # r
    BY <1>1, <1>2, <1>7, <2>1, AuthorOver
  <2>3. m \in E /\ m # None
    BY <1>2, <2>2 DEF Over
  <2>4. \A x \in E : x = m \/ ~is_within_subtree(x, m) => x \in Off(P, E, r)
    BY <1>2, <2>2, <2>3, OutOfReach
  <2>5. CASE Granted(w) \/ Moved(w)
    <3>1. F = E /\ userRole'[u] = m
      BY <1>2, <2>5 DEF Granted, Moved
    <3>2. \A y \in E : y # r => Q[y] = P[y] /\ H[y] = G[y]
      BY <1>1, <1>2, <1>3, <2>1, <2>5 DEF Granted, Moved, Inv, TypeOK
    <3>3. ASSUME NEW x \in Off(P, E, r) PROVE EffOf(Q, E, H, x) = EffOf(P, E, G, x)
      BY ONLY <1>3, <3>2, OffSame
    <3> QED BY <2>4, <3>1, <3>3
  <2>6. CASE Deleted(w)
    <3>1. Steady(u) /\ F = E \ {r}
      BY <1>1, <1>2, <2>1, <2>6, SteadyDelete DEF Deleted
    <3>2. userRole'[u] = m
      BY <1>2, <2>2, <2>3, <3>1 DEF Steady
    <3>3. ASSUME NEW x \in Off(P, E, r) PROVE x \in E /\ x # r
      <4>1. x \in E /\ x \in Hop(P, E, x, 0) /\ 0 \in Nat
        BY HopZero DEF Off
      <4> QED BY <4>1 DEF Off
    <3>4. ASSUME NEW x \in Off(P, E, r) PROVE EffOf(Q, F, H, x) = EffOf(P, E, G, x)
      BY <1>2, <3>1, <3>3, SteadyEff, EffIs
    <3> QED BY <2>4, <3>2, <3>4
  <2> QED BY <1>7, <2>5, <2>6
<1> QED BY <1>1, <1>4, <1>5, <1>6, <1>7

(* Whatever a delegated admin writes leaves alone what it may do itself and what
   every role that is not below its own confers, whatever else is going on. *)
THEOREM OwnReachOnlyAlways == Spec => OwnReachOnly
<1>1. Knowing /\ [Next]_vars =>
        [\A q \in Req, u \in User :
           Undisturbed(q) /\ Shallow /\ u = req[q].user /\ ~has_no_ceiling(req[q].perms) =>
              /\ effective_permissions(u)' = effective_permissions(u)
              /\ \A r \in exists :
                    ~is_within_subtree(r, userRole[u]) =>
                       effective_permissions_for_role(r)' = effective_permissions_for_role(r)]_vars
  BY ReachesOwn DEF has_no_ceiling
<1> QED BY <1>1, KnowingAlways, PTL DEF Spec, OwnReachOnly
=============================================================================
