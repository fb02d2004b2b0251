--------------------------- MODULE MCHostRegistry ---------------------------
(* Instances of HostRegistry for TLC. *)
EXTENDS HostRegistry, TLC

CONSTANTS safe, risky

SafeOp      == {safe}
RiskyOp     == {risky}
MCGuardedOp == Op \ {safe}
MCMinProto  == [op \in Op |-> IF op = risky THEN 2 ELSE 0]

(* Hosts, sockets and calls are interchangeable; the runs with a liveness property do
   without. *)
Perms == Permutations(Host) \cup Permutations(Sock) \cup Permutations(Call)
=============================================================================
