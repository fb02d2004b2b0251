----------------------------- MODULE MCRoles -----------------------------
(* Instances of Roles for TLC. *)
EXTENDS Roles, TLC

Perms == Permutations(Role \ SystemRole) \cup Permutations(User) \cup Permutations(Req)
=============================================================================
