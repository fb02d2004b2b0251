----------------------------- MODULE RemoteCall -----------------------------
(***************************************************************************)
(* What HostConnectionRegistry::dispatch promises its callers, with no      *)
(* connection in sight: an operation runs at most once; Ok is returned only *)
(* for one that ran; Refused, NotConnected and AgentTooOld mean it has not  *)
(* run and never will; Timeout and ConnectionClosed promise nothing, and    *)
(* the operation may still run afterwards.  HostRegistry implements this.   *)
(***************************************************************************)
CONSTANTS Call

VARIABLES phase,    \* "idle" | "open" | "returned" | "cancelled"
          outcome,  \* what the caller got
          ran       \* the operations some agent has run

callVars == <<phase, outcome, ran>>

Declined == {"Refused", "NotConnected", "AgentTooOld"}
Failed   == {"ConnectionClosed", "Timeout"}

Init ==
    /\ phase = [c \in Call |-> "idle"]
    /\ outcome = [c \in Call |-> "none"]
    /\ ran = {}

Begin(c) ==
    /\ phase[c] = "idle"
    /\ phase' = [phase EXCEPT ![c] = "open"]
    /\ UNCHANGED <<outcome, ran>>

Run(c) ==
    /\ phase[c] # "idle"
    /\ c \notin ran
    /\ outcome[c] \notin Declined
    /\ ran' = ran \cup {c}
    /\ UNCHANGED <<phase, outcome>>

End(c, o) ==
    /\ phase[c] \in {"idle", "open"}
    /\ phase[c] = "idle" => o = "Refused"
    /\ o = "Ok" => c \in ran
    /\ o \in Declined => c \notin ran
    /\ phase' = [phase EXCEPT ![c] = "returned"]
    /\ outcome' = [outcome EXCEPT ![c] = o]
    /\ UNCHANGED ran

Cancel(c) ==
    /\ phase[c] = "open"
    /\ phase' = [phase EXCEPT ![c] = "cancelled"]
    /\ UNCHANGED <<outcome, ran>>

Next ==
    \E c \in Call :
        \/ Begin(c) \/ Run(c) \/ Cancel(c)
        \/ \E o \in Declined \cup Failed \cup {"Ok"} : End(c, o)

Spec == Init /\ [][Next]_callVars
=============================================================================
