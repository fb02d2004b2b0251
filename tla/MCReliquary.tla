---------------------------- MODULE MCReliquary ----------------------------
(* Reliquary for TLC. *)
EXTENDS Reliquary

(* A dump is read again only from a whole archive, from the work directory of the
   backup that has taken it, or from that of a restore that has extracted it: two
   states that differ in another one go on in the same way. *)
DumpInUse(j) ==
    \/ file[j] = "whole"
    \/ \E t \in Task : \/ job[t] = j /\ step[t] \in {"write", "copy"}
                       \/ target[t] = j /\ step[t] = "apply"

View ==
    <<table, file, [j \in Job |-> IF DumpInUse(j) THEN dumped[j] ELSE NoTable],
      created, old, lockVars, maintenance, up, taskVars, budget>>

=============================================================================
