---------------------------- MODULE MCAgentServe ----------------------------
(* Instances of AgentServe for TLC. *)
EXTENDS AgentServe, TLC

(* Reads, writes and connections are interchangeable; the runs with a liveness
   property do without. *)
Perms == Permutations(Conn) \cup Permutations(Read) \cup Permutations(Write)
=============================================================================
