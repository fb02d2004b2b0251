-------------------------- MODULE PortEnforcement --------------------------
(***************************************************************************)
(* Panopticon's writes to a live switch: an operator or the policy sweep   *)
(* takes a port out of service (apply), an operator or the auto-revert     *)
(* sweep puts it back (release).  A task awaits the database or the switch *)
(* between any two of its steps; every SNMP request is a step of its own,  *)
(* and the answer to one may be lost after the switch has obeyed it.       *)
(*                                                                         *)
(* One switch is modelled.  Time is what the code compares with it: the    *)
(* timer of an action runs out (expires_at <= now), and the oldest actions *)
(* are past the cooldown (created_at < cooldown_since).                    *)
(***************************************************************************)
EXTENDS Naturals, Sequences, FiniteSets, SequencesExt

CONSTANTS
    Port,        \* interfaces of the switch
    Operator,    \* requests that may be under way at once
    Kind,        \* kinds of action used, of "disable" and "quarantine"
    QVlanSet,    \* whether panopticon.quarantine_vlan is set
    Rules,       \* the enabled policy rules in priority order
    Devices,     \* the located devices in the order of their addresses
    MaxRows,     \* bound: rows of panopticon_enforcement_actions
    MaxTrouble   \* bound: changes of settings or of the switch's row, SNMP requests that
                 \* fail, restarts, dropped requests and queries that fail, all together

ASSUME EnforcementAssumption ==
    /\ Kind \subseteq {"disable", "quarantine"}
    /\ QVlanSet \in BOOLEAN
    /\ MaxRows \in Nat /\ MaxTrouble \in Nat
    /\ {"policy", "revert"} \cap Operator = {}
    /\ Rules \in Seq(ToSet(Rules))
    /\ \A r \in ToSet(Rules) : r.action \in {"disable", "quarantine"} /\ r.timed \in BOOLEAN
    /\ Devices \in Seq(ToSet(Devices)) /\ \A d \in ToSet(Devices) : d.port \in Port

VARIABLES
    sw,       \* the switch: ifAdminStatus, dot1qPvid, and two PortLists of the quarantine VLAN
    rows,     \* panopticon_enforcement_actions, oldest first
    conf,     \* the kill switch, the policy mode, and the switch's row
    task,     \* what each request and sweep is doing
    count,    \* how often trouble has come
    lost      \* history: ports whose action was cut off after its last SNMP request and
              \* before its row was written

vars == <<sw, rows, conf, task, count, lost>>

Task == Operator \cup {"policy", "revert"}
Vlan == {"home", "quarantine"}
Admin == {"up", "down", "testing"}
State == {"active", "reverted", "apply_failed", "revert_failed"}
InEffectState == {"active", "revert_failed"}

-----------------------------------------------------------------------------
(* The SNMP requests of one call, in order. *)
enforce_disable_port == <<"getAdmin", "setDown">>
enforce_quarantine_port ==
    <<"getPvid", "getEgress", "addEgress", "getUntagged", "addUntagged", "setQuarantine">>
revert_disable_port == <<"restoreAdmin">>
revert_quarantine_port ==
    <<"restorePvid", "getUntagged", "delUntagged", "getEgress", "delEgress">>

ApplyScript == [disable |-> enforce_disable_port, quarantine |-> enforce_quarantine_port]
ReleaseScript == [disable |-> revert_disable_port, quarantine |-> revert_quarantine_port]
Gets == {"getAdmin", "getPvid", "getEgress", "getUntagged"}

(* A task: where it is, the requests it still has to send, the port, kind and
   timeout it was asked for or the row it reverts, what it has read from the
   switch (the prior state, a PortList), the switch's opt-in as it read it,
   and what its pass has left: devices, or rows that are due. *)
Idle == [pc |-> "idle", todo |-> <<>>, port |-> "none", kind |-> "none", timed |-> FALSE,
         row |-> 0, orig |-> "none", ports |-> {}, optin |-> FALSE, left |-> <<>>, due |-> {},
         old |-> 0, armed |-> FALSE]

PC == {"idle", "gate", "check", "snmp", "create", "failed", "find", "revert", "reverted",
       "revert_failed", "match", "cooldown", "release"}

Init ==
    /\ sw = [admin |-> [p \in Port |-> "up"], pvid |-> [p \in Port |-> "home"],
             egress |-> {}, untagged |-> {}]
    /\ rows = <<>>
    /\ conf = [enabled |-> TRUE, mode |-> "active", present |-> TRUE, optin |-> TRUE]
    /\ task = [t \in Task |-> Idle]
    /\ count = 0
    /\ lost = {}

-----------------------------------------------------------------------------
(* find_in_effect_for_port *)
InEffect(p) == \E i \in DOMAIN rows : rows[i].port = p /\ rows[i].state \in InEffectState

(* Mutant: a failed revert is not retried. *)
DueOnce(i) == rows[i].state = "active" /\ rows[i].timer = "due"

(* list_due_for_revert *)
Due(i) == \/ rows[i].state = "active" /\ rows[i].timer = "due"
          \/ rows[i].state = "revert_failed"

(* Mutant: a state the table does not have. *)
MarkedClosed(i, state) == [rows EXCEPT ![i].state = "closed"]

(* mark_reverted: an UPDATE by id, whatever state the row is in. *)
Marked(i, state) == [rows EXCEPT ![i].state = state]

(* create: the row of an action that was applied, or of one that failed. *)
NewRow(q, state) ==
    [port |-> q.port, kind |-> q.kind, state |-> state,
     orig |-> IF state = "active" THEN q.orig ELSE "none",
     timer |-> IF state = "active" /\ q.timed THEN "running" ELSE "never"]

(* Rows there are and rows on their way. *)
Pending == {t \in Task : task[t].pc \in {"gate", "check", "snmp", "create", "failed", "cooldown"}}
Room(n) == Len(rows) + Cardinality(Pending) + Len(task["policy"].left) + n <= MaxRows

(* The task goes on with the next entry of its pass, or is done. *)
Continue(t) ==
    LET q == task[t]
    IN  task' = [task EXCEPT ![t] =
            IF t = "policy" /\ q.left # <<>>
            THEN [Idle EXCEPT !.pc = "match", !.left = q.left, !.old = q.old, !.armed = q.armed]
            ELSE IF t = "revert" /\ q.due # {} THEN [Idle EXCEPT !.pc = "release", !.due = q.due]
            ELSE Idle]

Trouble == count < MaxTrouble /\ count' = count + 1

-----------------------------------------------------------------------------
(* enforce_apply: the route reads the switch's row, then calls apply. *)
RequestApply(t, p, k, timed) ==
    /\ t \in Operator /\ task[t].pc = "idle"
    /\ Room(1)
    /\ conf.present
    /\ task' = [task EXCEPT ![t] = [Idle EXCEPT !.pc = "gate", !.port = p, !.kind = k,
                                                !.timed = timed, !.optin = conf.optin]]
    /\ UNCHANGED <<sw, rows, conf, count, lost>>

(* apply: the kill switch as it is now, the opt-in as the caller read it. *)
Gate(t) ==
    /\ task[t].pc = "gate"
    /\ IF conf.enabled /\ task[t].optin
       THEN task' = [task EXCEPT ![t].pc = "check", ![t].optin = FALSE]
       ELSE Continue(t)
    /\ UNCHANGED <<sw, rows, conf, count, lost>>

(* apply: one in-effect action per port, and a VLAN to quarantine into. *)
Check(t) ==
    /\ task[t].pc = "check"
    /\ IF InEffect(task[t].port) \/ (task[t].kind = "quarantine" /\ ~QVlanSet)
       THEN Continue(t)
       ELSE task' = [task EXCEPT ![t].pc = "snmp", ![t].todo = ApplyScript[task[t].kind]]
    /\ UNCHANGED <<sw, rows, conf, count, lost>>

(* What a GET leaves in the task. *)
Read(q) ==
    CASE Head(q.todo) = "getAdmin"    -> [q EXCEPT !.orig = sw.admin[q.port]]
      [] Head(q.todo) = "getPvid"     -> [q EXCEPT !.orig = sw.pvid[q.port]]
      [] Head(q.todo) = "getEgress"   -> [q EXCEPT !.ports = sw.egress]
      [] Head(q.todo) = "getUntagged" -> [q EXCEPT !.ports = sw.untagged]
      [] OTHER -> [q EXCEPT !.ports = {}]

(* revert_disable_port: the snapshot, but never down. *)
RestoreTo(orig) == IF orig \in Admin \ {"down"} THEN orig ELSE "up"

(* portlist_set: the PortList already has the port as it should be;
   revert_quarantine_port: a failed attempt kept no PVID to restore. *)
Skipped(q) == \/ Head(q.todo) = "restorePvid" /\ q.orig = "none"
              \/ Head(q.todo) \in {"addEgress", "addUntagged"} /\ q.port \in q.ports
              \/ Head(q.todo) \in {"delEgress", "delUntagged"} /\ q.port \notin q.ports

(* What a SET makes of the switch.  A PortList is written whole, from the copy
   that was read. *)
Written(q) ==
    IF Skipped(q) THEN sw
    ELSE CASE Head(q.todo) = "setDown"       -> [sw EXCEPT !.admin[q.port] = "down"]
           [] Head(q.todo) = "restoreAdmin"  -> [sw EXCEPT !.admin[q.port] = RestoreTo(q.orig)]
           [] Head(q.todo) = "setQuarantine" -> [sw EXCEPT !.pvid[q.port] = "quarantine"]
           [] Head(q.todo) = "restorePvid"   -> [sw EXCEPT !.pvid[q.port] = q.orig]
           [] Head(q.todo) = "addEgress"     -> [sw EXCEPT !.egress = q.ports \cup {q.port}]
           [] Head(q.todo) = "addUntagged"   -> [sw EXCEPT !.untagged = q.ports \cup {q.port}]
           [] Head(q.todo) = "delEgress"     -> [sw EXCEPT !.egress = q.ports \ {q.port}]
           [] Head(q.todo) = "delUntagged"   -> [sw EXCEPT !.untagged = q.ports \ {q.port}]
           [] OTHER -> sw

Snmp(t) == task[t].pc \in {"snmp", "revert"} /\ task[t].todo # <<>>

(* The switch answers.  After the last request the call has succeeded. *)
SnmpOk(t) ==
    /\ Snmp(t)
    /\ sw' = Written(task[t])
    /\ LET q == [Read(task[t]) EXCEPT !.todo = Tail(@)]
           done == IF q.pc = "snmp" THEN "create" ELSE "reverted"
       IN  task' = [task EXCEPT ![t] = IF q.todo = <<>> THEN [q EXCEPT !.pc = done] ELSE q]
    /\ UNCHANGED <<rows, conf, count, lost>>

(* The request is refused or lost, or (landed) only its answer is.  The call
   ends with an error: the requests it sent before are not undone. *)
SnmpErr(t, landed) ==
    /\ Snmp(t) /\ ~Skipped(task[t])
    /\ landed => Head(task[t].todo) \notin Gets
    /\ Trouble
    /\ sw' = IF landed THEN Written(task[t]) ELSE sw
    /\ task' = [task EXCEPT ![t].todo = <<>>, ![t].orig = "none", ![t].ports = {},
                            ![t].pc = IF @ = "snmp" THEN "failed" ELSE "revert_failed"]
    /\ UNCHANGED <<rows, conf, lost>>

(* apply: the row that records the action, or that it failed. *)
Create(t) ==
    /\ task[t].pc \in {"create", "failed"}
    /\ rows' = Append(rows, NewRow(task[t], IF task[t].pc = "create" THEN "active"
                                               ELSE "apply_failed"))
    /\ Continue(t)
    /\ UNCHANGED <<sw, conf, count, lost>>

-----------------------------------------------------------------------------
(* enforce_release: the row is read by id, whatever state it is in: a failed
   attempt or an action that was reverted already is released as well. *)
RequestRelease(t, i) ==
    /\ t \in Operator /\ task[t].pc = "idle"
    /\ i \in DOMAIN rows
    /\ task' = [task EXCEPT ![t] = [Idle EXCEPT !.pc = "find", !.row = i, !.port = rows[i].port,
                                                !.kind = rows[i].kind, !.orig = rows[i].orig]]
    /\ UNCHANGED <<sw, rows, conf, count, lost>>

(* spawn_panopticon_enforcement_revert: a pass takes the list of what is due, and
   releases what is on it one by one from the rows as they were.  The list is in
   the order of the timeouts, which may be any order. *)
RevertPass ==
    /\ task["revert"].pc = "idle"
    /\ \E i \in DOMAIN rows : Due(i)
    /\ task' = [task EXCEPT !["revert"] =
           [Idle EXCEPT !.pc = "release", !.due = {i \in DOMAIN rows : Due(i)}]]
    /\ UNCHANGED <<sw, rows, conf, count, lost>>

RevertNext ==
    LET q == task["revert"]
    IN  /\ q.pc = "release"
        /\ \E i \in q.due :
              task' = [task EXCEPT !["revert"] =
                 [q EXCEPT !.pc = "find", !.due = @ \ {i}, !.row = i, !.port = rows[i].port,
                           !.kind = rows[i].kind, !.orig = rows[i].orig]]
        /\ UNCHANGED <<sw, rows, conf, count, lost>>

(* release: without the switch's row there is nothing to revert on. *)
Find(t) ==
    /\ task[t].pc = "find"
    /\ IF conf.present
       THEN /\ task' = [task EXCEPT ![t].pc = "revert",
                                    ![t].todo = ReleaseScript[task[t].kind]]
            /\ UNCHANGED rows
       ELSE /\ rows' = Marked(task[t].row, "reverted")
            /\ Continue(t)
    /\ UNCHANGED <<sw, conf, count, lost>>

(* Mutant: a revert counts as done whether or not the switch obeyed. *)
MarkAlways(t) ==
    /\ task[t].pc \in {"reverted", "revert_failed"}
    /\ rows' = Marked(task[t].row, "reverted")
    /\ Continue(t)
    /\ UNCHANGED <<sw, conf, count, lost>>

Mark(t) ==
    /\ task[t].pc \in {"reverted", "revert_failed"}
    /\ rows' = Marked(task[t].row, task[t].pc)
    /\ Continue(t)
    /\ UNCHANGED <<sw, conf, count, lost>>

(* Among tasks that are cut off, the ports of those that still had a row to write. *)
CutOff(T) == {task[t].port : t \in {u \in T : task[u].pc \in {"create", "failed"}}}

(* A query fails: the call returns its error, or goes on without the row it
   wanted to write. *)
DbError(t) ==
    /\ task[t].pc \in {"check", "create", "failed", "find", "reverted", "revert_failed"}
    /\ Trouble
    /\ Continue(t)
    /\ lost' = lost \cup CutOff({t})
    /\ UNCHANGED <<sw, rows, conf>>

(* The client of an operator's request goes away: the server drops the handler at
   the await it is at, after the request that is under way has reached the switch
   (SnmpOk, then this) or before. *)
ClientGone(t) ==
    /\ t \in Operator /\ task[t].pc # "idle"
    /\ Trouble
    /\ task' = [task EXCEPT ![t] = Idle]
    /\ lost' = lost \cup CutOff({t})
    /\ UNCHANGED <<sw, rows, conf>>

(* make_permanent: clears the timeout of a row that is in effect. *)
MakePermanent(i) ==
    /\ i \in DOMAIN rows /\ rows[i].timer # "never"
    /\ rows[i].state \in InEffectState
    /\ rows' = [rows EXCEPT ![i].timer = "never"]
    /\ UNCHANGED <<sw, conf, task, count, lost>>

-----------------------------------------------------------------------------
(* trigger_matches and scope_matches: "any" is a filter that is not set. *)
RuleMatches(r, d) ==
    /\ \/ r.trigger = "untrusted" /\ d.trust = "untrusted"
       \/ r.trigger = "new_unknown" /\ d.trust = "unknown" /\ d.new
    /\ r.subnet \in {"any", d.subnet}
    /\ r.switch \in {"any", d.switch}
    /\ r.type \in {"any", d.type}

(* first_match: the rules are in priority order; 0 when none matches. *)
FirstMatch(d) ==
    SelectInSeq(Rules, LAMBDA r : RuleMatches(r, d))

(* run_policy_sweep: the mode, the kill switch, the time and the devices are
   read once, at the start of a pass; the first n actions are older than the
   cooldown by then. *)
PolicyPass(n) ==
    /\ task["policy"].pc = "idle"
    /\ Room(Len(Devices))
    /\ n \in 0..Len(rows)
    /\ conf.mode # "off" /\ Rules # <<>> /\ Devices # <<>>
    /\ task' = [task EXCEPT !["policy"] =
           [Idle EXCEPT !.pc = "match", !.left = Devices,
                        !.armed = conf.mode = "active" /\ conf.enabled, !.old = n]]
    /\ UNCHANGED <<sw, rows, conf, count, lost>>

(* act_on_match up to the check for an action in effect: no rule, no switch, or
   a port that is enforced already, and the pass goes on. *)
PolicyMatch ==
    LET q == task["policy"]
        d == Head(q.left)
        r == FirstMatch(d)
        next == [q EXCEPT !.left = Tail(@)]
    IN  /\ q.pc = "match"
        /\ IF r = 0 \/ ~conf.present \/ InEffect(d.port)
           THEN task' = [task EXCEPT !["policy"] = IF next.left = <<>> THEN Idle ELSE next]
           ELSE task' = [task EXCEPT !["policy"] =
                    [next EXCEPT !.pc = "cooldown", !.port = d.port, !.kind = Rules[r].action,
                                 !.timed = Rules[r].timed, !.optin = conf.optin]]
        /\ UNCHANGED <<sw, rows, conf, count, lost>>

(* act_on_match: the cooldown, counted back from the start of the pass, and,
   unless the mode only simulates or a gate is closed, apply. *)
PolicyCooldown ==
    LET q == task["policy"]
        recent == \E i \in DOMAIN rows : rows[i].port = q.port /\ i > q.old
    IN  /\ q.pc = "cooldown"
        /\ IF ~recent /\ q.armed /\ q.optin
           THEN task' = [task EXCEPT !["policy"].pc = "gate"]
           ELSE Continue("policy")
        /\ UNCHANGED <<sw, rows, conf, count, lost>>

-----------------------------------------------------------------------------
(* The kill switch, the switch's opt-in and row, and the policy's mode change
   under the tasks. *)
SetKillSwitch ==
    /\ Trouble
    /\ conf' = [conf EXCEPT !.enabled = ~@]
    /\ UNCHANGED <<sw, rows, task, lost>>

SetOptIn ==
    /\ conf.present
    /\ Trouble
    /\ conf' = [conf EXCEPT !.optin = ~@]
    /\ UNCHANGED <<sw, rows, task, lost>>

RemoveSwitch ==
    /\ conf.present
    /\ Trouble
    /\ conf' = [conf EXCEPT !.present = FALSE]
    /\ UNCHANGED <<sw, rows, task, lost>>

SetMode(m) ==
    /\ m # conf.mode
    /\ Trouble
    /\ conf' = [conf EXCEPT !.mode = m]
    /\ UNCHANGED <<sw, rows, task, lost>>

(* Time passes and a timeout runs out. *)
Expire(i) ==
    /\ i \in DOMAIN rows /\ rows[i].timer = "running"
    /\ rows' = [rows EXCEPT ![i].timer = "due"]
    /\ UNCHANGED <<sw, conf, task, count, lost>>

(* The control plane restarts: its tasks are gone, the switch and the table stay. *)
Crash ==
    /\ \E t \in Task : task[t] # Idle
    /\ Trouble
    /\ task' = [t \in Task |-> Idle]
    /\ lost' = lost \cup CutOff(Task)
    /\ UNCHANGED <<sw, rows, conf>>

TaskStep(t) == Gate(t) \/ Check(t) \/ SnmpOk(t) \/ Create(t) \/ Find(t) \/ Mark(t)

Next ==
    \/ \E t \in Operator : \/ \E p \in Port, k \in Kind, b \in BOOLEAN : RequestApply(t, p, k, b)
                           \/ \E i \in DOMAIN rows : RequestRelease(t, i)
                           \/ ClientGone(t)
    \/ RevertPass \/ RevertNext \/ (\E n \in 0..Len(rows) : PolicyPass(n)) \/ PolicyMatch \/ PolicyCooldown
    \/ \E t \in Task : \/ TaskStep(t)
                       \/ \E b \in BOOLEAN : SnmpErr(t, b)
                       \/ DbError(t)
    \/ \E i \in DOMAIN rows : MakePermanent(i) \/ Expire(i)
    \/ SetKillSwitch \/ SetOptIn \/ RemoveSwitch
    \/ \E m \in {"off", "simulate", "active"} : SetMode(m)
    \/ Crash

Spec == Init /\ [][Next]_vars

(* The runtime polls a task that can go on, the sweeps tick once a minute, and
   timeouts run out. *)
FairSpec ==
    /\ Spec
    /\ \A t \in Operator : WF_vars(TaskStep(t))
    /\ WF_vars(TaskStep("revert") \/ RevertPass \/ RevertNext)
    /\ WF_vars(TaskStep("policy") \/ PolicyMatch \/ PolicyCooldown)
    /\ \A i \in 1..MaxRows : WF_vars(Expire(i))

-----------------------------------------------------------------------------
(* Every variable keeps its type. *)
TypeOK ==
    /\ sw \in [admin : [Port -> Admin], pvid : [Port -> Vlan],
              egress : SUBSET Port, untagged : SUBSET Port]
    /\ \A i \in DOMAIN rows :
          rows[i] \in [port : Port, kind : {"disable", "quarantine"}, state : State,
                      orig : Admin \cup Vlan \cup {"none"},
                      timer : {"never", "running", "due"}]
    /\ conf \in [enabled : BOOLEAN, mode : {"off", "simulate", "active"},
                 present : BOOLEAN, optin : BOOLEAN]
    /\ \A t \in Task : task[t].pc \in PC /\ task[t].row \in 0..Len(rows)
    /\ count \in Nat /\ lost \subseteq Port

Recording(p, k) ==
    \E t \in Task : task[t].port = p /\ task[t].kind = k /\ task[t].pc \in {"create", "failed"}
Busy(p) == \E t \in Task : task[t].port = p /\ task[t].pc # "idle"

Shown(p, k, states) ==
    \E i \in DOMAIN rows : rows[i].port = p /\ rows[i].kind = k /\ rows[i].state \in states

(* A quarantine of the port that has no other VLAN to give back: it began on a
   port that was in quarantine already, or it failed and kept no PVID. *)
NoWayBack(p) ==
    \E i \in DOMAIN rows : /\ rows[i].port = p /\ rows[i].kind = "quarantine"
                           /\ rows[i].orig \in {"quarantine", "none"}

(* A port that is down or quarantined is accounted for: an action in effect will
   bring it back, a failed attempt is in the history, or the task that changed it
   is about to write its row.  Only a call that was cut off between its last SNMP
   request and its row, by a restart, a failed query or a client that went away,
   can hide the port it changed, and only the removal of the switch hides all of
   them.  A quarantined port is otherwise only left behind by an action that has
   no way back. *)
EnforcedIsAccounted ==
    conf.present =>
        \A p \in Port \ lost :
            /\ sw.admin[p] = "down" =>
                  \/ Recording(p, "disable")
                  \/ Shown(p, "disable", InEffectState \cup {"apply_failed"})
            /\ sw.pvid[p] = "quarantine" =>
                  \/ Recording(p, "quarantine")
                  \/ Shown(p, "quarantine", InEffectState \cup {"apply_failed"})
                  \/ NoWayBack(p)

(* No port is owed its return for ever: an action with a timeout is reverted or
   made permanent, and a revert that failed is retried until it sticks, through
   restarts and unanswered requests, also when the switch is removed. *)
Owed(i) == /\ i \in DOMAIN rows
           /\ \/ rows[i].state = "active" /\ rows[i].timer # "never"
              \/ rows[i].state = "revert_failed"

OwedComesBack == \A i \in 1..MaxRows : Owed(i) ~> ~Owed(i)

(* Once every action on a port is reverted and nothing is at it, the port is on
   the VLAN it was on. *)
NotStranded ==
    \A p \in Port : ~InEffect(p) /\ ~Busy(p) => sw.pvid[p] = "home"
=============================================================================
