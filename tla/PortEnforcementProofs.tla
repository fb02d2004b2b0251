----------------------- MODULE PortEnforcementProofs -----------------------
(* That a port taken out of service is accounted for, for any number of ports,
   operators, rules, devices, actions and failures. *)
EXTENDS PortEnforcement, WellFoundedInduction, TLAPS

Kinds == {"disable", "quarantine"}
Step == Gets \cup {"setDown", "addEgress", "addUntagged", "setQuarantine", "restoreAdmin",
                   "restorePvid", "delUntagged", "delEgress"}

(* What is left of a script once it has begun: one of its proper ends. *)
App1 == <<"setDown">>
Qua5 == <<"getEgress", "addEgress", "getUntagged", "addUntagged", "setQuarantine">>
Qua4 == <<"addEgress", "getUntagged", "addUntagged", "setQuarantine">>
Qua3 == <<"getUntagged", "addUntagged", "setQuarantine">>
Qua2 == <<"addUntagged", "setQuarantine">>
Qua1 == <<"setQuarantine">>
Rel4 == <<"getUntagged", "delUntagged", "getEgress", "delEgress">>
Rel3 == <<"delUntagged", "getEgress", "delEgress">>
Rel2 == <<"getEgress", "delEgress">>
Rel1 == <<"delEgress">>

ApplyRest == [disable |-> {App1}, quarantine |-> {Qua5, Qua4, Qua3, Qua2, Qua1}]
ReleaseRest == [disable |-> {}, quarantine |-> {Rel4, Rel3, Rel2, Rel1}]

(* The snapshot that an action of a kind takes. *)
Snapshot(k, orig) == IF k = "disable" THEN orig \in Admin ELSE orig \in Vlan

Device == ToSet(Devices)
Orig == Admin \cup Vlan \cup {"none"}

TaskType ==
    [pc : PC, todo : Seq(Step), port : Port \cup {"none"}, kind : Kinds \cup {"none"},
     timed : BOOLEAN, row : Nat, orig : Orig, ports : SUBSET Port, optin : BOOLEAN,
     left : Seq(Device), due : SUBSET Nat, old : Nat, armed : BOOLEAN]

RowType == [port : Port, kind : Kinds, state : State, orig : Orig,
            timer : {"never", "running", "due"}]
SwType == [admin : [Port -> Admin], pvid : [Port -> Vlan],
           egress : SUBSET Port, untagged : SUBSET Port]
ConfType == [enabled : BOOLEAN, mode : {"off", "simulate", "active"},
             present : BOOLEAN, optin : BOOLEAN]

(* A failed attempt keeps no snapshot, also once it has been released. *)
RowShape(r) == r \in RowType /\ (Snapshot(r.kind, r.orig) \/ r.orig = "none")

(* Where a task is decides what it knows: the port and kind it applies, the end of
   the script it is at, or the row it releases. *)
ApplyShape(q) ==
    /\ q.pc \in {"gate", "check", "snmp", "create", "failed", "cooldown"} =>
          q.port \in Port /\ q.kind \in Kinds
    /\ q.pc = "snmp" => \/ q.todo = ApplyScript[q.kind]
                        \/ q.todo \in ApplyRest[q.kind] /\ Snapshot(q.kind, q.orig)
    /\ q.pc = "create" => Snapshot(q.kind, q.orig)

ReleaseShape(q, R) ==
    /\ q.due \subseteq DOMAIN R
    /\ q.pc \in {"find", "revert", "reverted", "revert_failed"} =>
          q.row \in DOMAIN R /\ q.port = R[q.row].port /\ q.kind = R[q.row].kind
    /\ q.pc \in {"find", "revert"} => q.orig = R[q.row].orig
    /\ q.pc = "revert" => \/ q.todo = ReleaseScript[q.kind]
                          \/ q.todo \in ReleaseRest[q.kind]

PassShape(q, R) ==
    /\ q.pc = "match" => q.left # <<>>
    /\ q.row \in 0..Len(R)

Shape(q, R) == ApplyShape(q) /\ ReleaseShape(q, R) /\ PassShape(q, R)

(* Actions are added and change their state or timer, nothing else. *)
Grown(R, S) ==
    /\ Len(R) <= Len(S)
    /\ \A i \in DOMAIN R :
          S[i].port = R[i].port /\ S[i].kind = R[i].kind /\ S[i].orig = R[i].orig

RowsOk(R) == R \in Seq(RowType) /\ \A i \in DOMAIN R : RowShape(R[i])

Types ==
    /\ sw \in SwType /\ conf \in ConfType /\ count \in Nat /\ lost \subseteq Port
    /\ RowsOk(rows)
    /\ task \in [Task -> TaskType]

Shapes == \A t \in Task : Shape(task[t], rows)

(* The task has brought its port back, so far as an action of kind k took it away. *)
Undoes(q, k) ==
    \/ q.pc = "reverted"
    \/ k = "quarantine" /\ q.pc = "revert" /\ q.todo # ReleaseScript[k]

Undone(i, k) == \E t \in Task : task[t].row = i /\ Undoes(task[t], k)

(* Who answers for a port that is down or quarantined: the task that is about to
   write the action's row, or a row whose port no task has brought back already. *)
Answering == InEffectState \cup {"apply_failed"}

Answers(p, k) ==
    \/ \E t \in Task : task[t].port = p /\ task[t].kind = k /\ task[t].pc \in {"create", "failed"}
    \/ \E i \in DOMAIN rows : /\ rows[i].port = p /\ rows[i].kind = k
                              /\ rows[i].state \in Answering
                              /\ ~Undone(i, k)

Accounted(p) ==
    /\ sw.admin[p] = "down" => Answers(p, "disable")
    /\ sw.pvid[p] = "quarantine" => Answers(p, "quarantine") \/ NoWayBack(p)

Accounts == conf.present => \A p \in Port \ lost : Accounted(p)

Inv == Types /\ Shapes /\ Accounts

-----------------------------------------------------------------------------
(* Scripts *)

(* An SNMP request is answered, and what is left is again an end of the script. *)
LEMMA ApplyRestFacts ==
    ASSUME NEW k \in Kinds, NEW todo, todo = ApplyScript[k] \/ todo \in ApplyRest[k]
    PROVE  /\ todo \in Seq(Step) /\ todo # <<>> /\ Head(todo) \in Step
           /\ Tail(todo) = <<>> \/ Tail(todo) \in ApplyRest[k]
           /\ Tail(todo) = <<>> => Head(todo) \in {"setDown", "setQuarantine"}
           /\ Head(todo) \notin {"restoreAdmin", "restorePvid", "delUntagged", "delEgress"}
           /\ Head(todo) = "setDown" => k = "disable" /\ Tail(todo) = <<>>
           /\ Head(todo) = "setQuarantine" => k = "quarantine" /\ Tail(todo) = <<>>
           /\ Head(todo) = "getAdmin" <=> k = "disable" /\ todo = ApplyScript[k]
           /\ Head(todo) = "getPvid" <=> k = "quarantine" /\ todo = ApplyScript[k]
<1> USE DEF Step, Gets, ApplyScript, ApplyRest, enforce_disable_port, enforce_quarantine_port
<1>1. CASE k = "disable"
  <2>1. CASE todo = <<"getAdmin", "setDown">>
    BY <1>1, <2>1 DEF App1
  <2>2. CASE todo = App1
    BY <1>1, <2>2 DEF App1
  <2> QED BY <1>1, <2>1, <2>2
<1>2. CASE k = "quarantine"
  <2>1. CASE todo = <<"getPvid", "getEgress", "addEgress", "getUntagged", "addUntagged", "setQuarantine">>
    BY <1>2, <2>1 DEF Qua5
  <2>2. CASE todo = Qua5
    BY <1>2, <2>2 DEF Qua5, Qua4
  <2>3. CASE todo = Qua4
    BY <1>2, <2>3 DEF Qua4, Qua3
  <2>4. CASE todo = Qua3
    BY <1>2, <2>4 DEF Qua3, Qua2
  <2>5. CASE todo = Qua2
    BY <1>2, <2>5 DEF Qua2, Qua1
  <2>6. CASE todo = Qua1
    BY <1>2, <2>6 DEF Qua1
  <2> QED BY <1>2, <2>1, <2>2, <2>3, <2>4, <2>5, <2>6
<1> QED BY <1>1, <1>2 DEF Kinds

LEMMA ReleaseRestFacts ==
    ASSUME NEW k \in Kinds, NEW todo, todo = ReleaseScript[k] \/ todo \in ReleaseRest[k]
    PROVE  /\ todo \in Seq(Step) /\ todo # <<>> /\ Head(todo) \in Step
           /\ Tail(todo) = <<>> \/ Tail(todo) \in ReleaseRest[k]
           /\ Tail(todo) # ReleaseScript[k]
           /\ Head(todo) \notin {"getAdmin", "setDown", "getPvid", "addEgress", "addUntagged",
                                 "setQuarantine"}
           /\ Head(todo) = "restoreAdmin" <=> k = "disable"
           /\ Head(todo) = "restorePvid" <=> k = "quarantine" /\ todo = ReleaseScript[k]
<1> USE DEF Step, Gets, ReleaseScript, ReleaseRest, revert_disable_port, revert_quarantine_port
<1>1. CASE k = "disable"
  <2>1. todo = <<"restoreAdmin">>
    BY <1>1
  <2> QED BY <1>1, <2>1
<1>2. CASE k = "quarantine"
  <2>1. CASE todo = <<"restorePvid", "getUntagged", "delUntagged", "getEgress", "delEgress">>
    BY <1>2, <2>1 DEF Rel4
  <2>2. CASE todo = Rel4
    BY <1>2, <2>2 DEF Rel4, Rel3
  <2>3. CASE todo = Rel3
    BY <1>2, <2>3 DEF Rel3, Rel2
  <2>4. CASE todo = Rel2
    BY <1>2, <2>4 DEF Rel2, Rel1
  <2>5. CASE todo = Rel1
    BY <1>2, <2>5 DEF Rel1
  <2> QED BY <1>2, <2>1, <2>2, <2>3, <2>4, <2>5
<1> QED BY <1>1, <1>2 DEF Kinds

LEMMA HasMin ==
    ASSUME NEW T \in SUBSET Nat, T # {}
    PROVE  Min(T) \in T
<1>1. PICK n \in T : \A m \in T : ~(<<m, n>> \in OpToRel(<, Nat))
  BY NatLessThanWellFounded, WFMin
<1>2. \A m, k \in Nat : m < k => <<m, k>> \in OpToRel(<, Nat)
  BY Zenon DEF OpToRel
<1>3. \A m \in T : ~(m < n)
  BY <1>1, <1>2, Zenon
<1>4. \A m \in T : n <= m
  BY <1>3
<1> QED BY <1>1, <1>4 DEF Min

(* first_match names a rule, or none. *)
LEMMA FirstMatchFacts ==
    ASSUME NEW d, FirstMatch(d) # 0
    PROVE  /\ Rules[FirstMatch(d)].action \in Kinds
           /\ Rules[FirstMatch(d)].timed \in BOOLEAN
<1> DEFINE I == {i \in 1..Len(Rules) : RuleMatches(Rules[i], d)}
<1>1. FirstMatch(d) = IF I # {} THEN Min(I) ELSE 0
  BY DEF FirstMatch, SelectInSeq
<1>2. I \subseteq Nat /\ I \subseteq DOMAIN Rules
  BY EnforcementAssumption
<1>3. FirstMatch(d) \in I
  <2> HIDE DEF I
  <2> QED BY <1>1, <1>2, HasMin
<1>4. Rules[FirstMatch(d)] \in ToSet(Rules)
  <2> HIDE DEF I
  <2> QED BY <1>2, <1>3 DEF ToSet
<1> QED BY <1>4, EnforcementAssumption DEF Kinds

-----------------------------------------------------------------------------
(* Tasks and types *)

LEMMA IdleFacts == Idle \in TaskType /\ Idle.pc = "idle"
<1>1. <<>> \in Seq(Step) /\ <<>> \in Seq(Device)
  OBVIOUS
<1> QED BY <1>1 DEF Idle, TaskType, PC, Orig

LEMMA GrownShape ==
    ASSUME NEW R, NEW S, RowsOk(R), RowsOk(S), Grown(R, S), NEW q, Shape(q, R)
    PROVE  Shape(q, S)
<1>1. Len(R) \in Nat /\ Len(S) \in Nat /\ DOMAIN R = 1..Len(R) /\ DOMAIN S = 1..Len(S)
  BY DEF RowsOk
<1>2. DOMAIN R \subseteq DOMAIN S
  BY <1>1 DEF Grown
<1>3. ReleaseShape(q, S)
  BY <1>2 DEF Shape, ReleaseShape, Grown
<1>4. PassShape(q, S)
  BY <1>1 DEF Shape, PassShape, Grown
<1> QED BY <1>3, <1>4 DEF Shape

LEMMA SameGrown ==
    ASSUME NEW R, RowsOk(R) PROVE Grown(R, R)
  BY DEF RowsOk, Grown

(* One task changes, and rows perhaps with it. *)
LEMMA OneTask ==
    ASSUME Types, Shapes, NEW t \in Task, NEW w \in TaskType, task' = [task EXCEPT ![t] = w],
           RowsOk(rows'), Grown(rows, rows'), Shape(w, rows')
    PROVE  task' \in [Task -> TaskType] /\ Shapes'
<1>1. task' \in [Task -> TaskType]
  BY DEF Types
<1>2. ASSUME NEW u \in Task PROVE Shape(task'[u], rows')
  <2>1. CASE u = t
    BY <2>1 DEF Types
  <2>2. CASE u # t
    <3>1. task'[u] = task[u] /\ Shape(task[u], rows) /\ RowsOk(rows)
      BY <2>2 DEF Types, Shapes
    <3> QED BY <3>1, GrownShape
  <2> QED BY <2>1, <2>2
<1> QED BY <1>1, <1>2 DEF Shapes

(* Where Continue leads. *)
Rest(t) ==
    IF t = "policy" /\ task[t].left # <<>>
    THEN [Idle EXCEPT !.pc = "match", !.left = task[t].left, !.old = task[t].old,
                      !.armed = task[t].armed]
    ELSE IF t = "revert" /\ task[t].due # {} THEN [Idle EXCEPT !.pc = "release", !.due = task[t].due]
    ELSE Idle

LEMMA RestFacts ==
    ASSUME Types, Shapes, NEW t \in Task
    PROVE  /\ Continue(t) <=> task' = [task EXCEPT ![t] = Rest(t)]
           /\ Rest(t) \in TaskType /\ Shape(Rest(t), rows)
           /\ Rest(t).pc \in {"idle", "match", "release"}
<1>0. Continue(t) <=> task' = [task EXCEPT ![t] = Rest(t)]
  BY DEF Continue, Rest
<1>1. task[t] \in TaskType /\ Shape(task[t], rows) /\ Len(rows) \in Nat
  BY DEF Types, Shapes, RowsOk
<1>2. CASE t = "policy" /\ task[t].left # <<>>
  <2>1. Rest(t) = [Idle EXCEPT !.pc = "match", !.left = task[t].left, !.old = task[t].old,
                               !.armed = task[t].armed]
    BY <1>2 DEF Rest
  <2>2. Rest(t) \in TaskType
    BY <1>1, <2>1, IdleFacts DEF TaskType, PC
  <2>3. Rest(t).pc = "match" /\ Rest(t).left # <<>> /\ Rest(t).due = {} /\ Rest(t).row = 0
    BY <1>2, <2>1 DEF Idle
  <2> QED BY <1>0, <1>1, <2>2, <2>3 DEF Shape, ApplyShape, ReleaseShape, PassShape
<1>3. CASE ~(t = "policy" /\ task[t].left # <<>>) /\ t = "revert" /\ task[t].due # {}
  <2>1. Rest(t) = [Idle EXCEPT !.pc = "release", !.due = task[t].due]
    BY <1>3 DEF Rest
  <2>2. Rest(t) \in TaskType
    BY <1>1, <2>1, IdleFacts DEF TaskType, PC
  <2>3. Rest(t).pc = "release" /\ Rest(t).due = task[t].due /\ Rest(t).row = 0
    BY <2>1 DEF Idle
  <2> QED BY <1>0, <1>1, <2>2, <2>3 DEF Shape, ApplyShape, ReleaseShape, PassShape
<1>4. CASE Rest(t) = Idle
  <2>1. Idle.pc = "idle" /\ Idle.due = {} /\ Idle.row = 0
    BY DEF Idle
  <2> QED BY <1>0, <1>1, <1>4, <2>1, IdleFacts DEF Shape, ApplyShape, ReleaseShape, PassShape
<1> QED BY <1>2, <1>3, <1>4 DEF Rest

LEMMA TypesByContinue ==
    ASSUME Types, Shapes, NEW t \in Task, Continue(t), RowsOk(rows'), Grown(rows, rows')
    PROVE  task' \in [Task -> TaskType] /\ Shapes'
<1>1. Shape(Rest(t), rows')
  BY RestFacts, GrownShape DEF Types
<1> QED BY <1>1, RestFacts, OneTask

LEMMA TypesSame ==
    ASSUME Types, Shapes, UNCHANGED <<rows, task>>, sw' \in SwType, conf' \in ConfType,
           count' \in Nat, lost' \subseteq Port
    PROVE  Types' /\ Shapes'
  BY DEF Types, Shapes

LEMMA TypesByTask ==
    ASSUME Types, Shapes, NEW t \in Task, NEW w \in TaskType, task' = [task EXCEPT ![t] = w],
           Shape(w, rows), UNCHANGED <<rows, conf>>, sw' \in SwType, count' \in Nat,
           lost' \subseteq Port
    PROVE  Types' /\ Shapes'
<1>1. task' \in [Task -> TaskType] /\ Shapes'
  BY OneTask, SameGrown DEF Types
<1> QED BY <1>1 DEF Types

LEMMA TroubleType ==
    ASSUME Types, Trouble
    PROVE  count' \in Nat
  BY DEF Types, Trouble

LEMMA ByRequestApply ==
    ASSUME Types, Shapes, NEW t \in Operator, NEW p \in Port, NEW k \in Kind, NEW b \in BOOLEAN,
           RequestApply(t, p, k, b)
    PROVE  Types' /\ Shapes'
<1> DEFINE w == [Idle EXCEPT !.pc = "gate", !.port = p, !.kind = k, !.timed = b, !.optin = conf.optin]
<1>1. t \in Task /\ task' = [task EXCEPT ![t] = w] /\ UNCHANGED <<sw, rows, conf, count, lost>>
  BY DEF RequestApply, Task
<1>2. k \in Kinds /\ conf.optin \in BOOLEAN /\ Len(rows) \in Nat
  BY EnforcementAssumption DEF Kinds, Types, ConfType, RowsOk
<1>3. w \in TaskType
  BY <1>2, IdleFacts DEF TaskType, PC
<1>4. w.pc = "gate" /\ w.port = p /\ w.kind = k /\ w.due = {} /\ w.row = 0
  BY DEF Idle
<1> HIDE DEF w
<1>5. Shape(w, rows)
  BY <1>2, <1>4 DEF Shape, ApplyShape, ReleaseShape, PassShape
<1> QED BY <1>1, <1>3, <1>5, TypesByTask DEF Types

LEMMA ByGate ==
    ASSUME Types, Shapes, NEW t \in Task, Gate(t)
    PROVE  Types' /\ Shapes'
<1>1. CASE conf.enabled /\ task[t].optin
  <2> DEFINE w == [task[t] EXCEPT !.pc = "check", !.optin = FALSE]
  <2>1. task' = [task EXCEPT ![t] = w] /\ UNCHANGED <<sw, rows, conf, count, lost>>
    BY <1>1 DEF Gate, Types
  <2>2. task[t] \in TaskType /\ Shape(task[t], rows) /\ task[t].pc = "gate"
    BY DEF Types, Shapes, Gate
  <2>3. w \in TaskType
    BY <2>2 DEF TaskType, PC
  <2>4. w.pc = "check" /\ w.port = task[t].port /\ w.kind = task[t].kind
        /\ w.due = task[t].due /\ w.row = task[t].row
    BY <2>2 DEF TaskType
  <2> HIDE DEF w
  <2>5. Shape(w, rows)
    BY <2>2, <2>4 DEF Shape, ApplyShape, ReleaseShape, PassShape
  <2> QED BY <2>1, <2>3, <2>5, TypesByTask DEF Types
<1>2. CASE ~(conf.enabled /\ task[t].optin)
  <2>1. Continue(t) /\ UNCHANGED <<sw, rows, conf, count, lost>>
    BY <1>2 DEF Gate
  <2> QED BY <2>1, RestFacts, TypesByTask DEF Types
<1> QED BY <1>1, <1>2

LEMMA ByCheck ==
    ASSUME Types, Shapes, NEW t \in Task, Check(t)
    PROVE  Types' /\ Shapes'
<1>1. CASE ~(InEffect(task[t].port) \/ (task[t].kind = "quarantine" /\ ~QVlanSet))
  <2> DEFINE w == [task[t] EXCEPT !.pc = "snmp", !.todo = ApplyScript[task[t].kind]]
  <2>1. task' = [task EXCEPT ![t] = w] /\ UNCHANGED <<sw, rows, conf, count, lost>>
    BY <1>1 DEF Check, Types
  <2>2. task[t] \in TaskType /\ Shape(task[t], rows) /\ task[t].pc = "check"
    BY DEF Types, Shapes, Check
  <2>20. task[t].kind \in Kinds
    BY <2>2 DEF Shape, ApplyShape
  <2>21. ApplyScript[task[t].kind] \in Seq(Step)
    BY <2>20, ApplyRestFacts
  <2>3. w \in TaskType
    BY <2>2, <2>21 DEF TaskType, PC
  <2>4. w.pc = "snmp" /\ w.port = task[t].port /\ w.kind = task[t].kind
        /\ w.due = task[t].due /\ w.row = task[t].row /\ w.todo = ApplyScript[w.kind]
    BY <2>2 DEF TaskType
  <2> HIDE DEF w
  <2>5. Shape(w, rows)
    BY <2>2, <2>4 DEF Shape, ApplyShape, ReleaseShape, PassShape
  <2> QED BY <2>1, <2>3, <2>5, TypesByTask DEF Types
<1>2. CASE InEffect(task[t].port) \/ (task[t].kind = "quarantine" /\ ~QVlanSet)
  <2>1. Continue(t) /\ UNCHANGED <<sw, rows, conf, count, lost>>
    BY <1>2 DEF Check
  <2> QED BY <2>1, RestFacts, TypesByTask DEF Types
<1> QED BY <1>1, <1>2

(* What the head of a script does to its task and to the switch. *)
LEMMA ReadType ==
    ASSUME Types, NEW q \in TaskType, q.port \in Port, q.todo # <<>>
    PROVE  /\ Read(q) \in TaskType
           /\ Read(q).pc = q.pc
           /\ Read(q).todo = q.todo /\ Read(q).port = q.port /\ Read(q).kind = q.kind
           /\ Read(q).row = q.row /\ Read(q).due = q.due /\ Read(q).left = q.left
           /\ Head(q.todo) = "getAdmin" => Read(q).orig \in Admin
           /\ Head(q.todo) = "getPvid" => Read(q).orig \in Vlan
           /\ Head(q.todo) \notin {"getAdmin", "getPvid"} => Read(q).orig = q.orig
<1>1. sw.admin[q.port] \in Admin /\ sw.pvid[q.port] \in Vlan /\ sw.egress \subseteq Port
      /\ sw.untagged \subseteq Port
  BY DEF Types, SwType
<1>2. CASE Head(q.todo) = "getAdmin"
  <2>1. Read(q) = [q EXCEPT !.orig = sw.admin[q.port]]
    BY <1>2 DEF Read
  <2> QED BY <1>1, <1>2, <2>1 DEF TaskType, Orig
<1>3. CASE Head(q.todo) = "getPvid"
  <2>1. Read(q) = [q EXCEPT !.orig = sw.pvid[q.port]]
    BY <1>3 DEF Read
  <2> QED BY <1>1, <1>3, <2>1 DEF TaskType, Orig
<1>4. CASE Head(q.todo) \notin {"getAdmin", "getPvid"}
  <2>1. PICK P \in SUBSET Port : Read(q) = [q EXCEPT !.ports = P]
    BY <1>1, <1>4 DEF Read
  <2> QED BY <1>4, <2>1 DEF TaskType
<1> QED BY <1>2, <1>3, <1>4

LEMMA WrittenFacts ==
    ASSUME Types, NEW q \in TaskType, q.port \in Port, q.todo # <<>>, Head(q.todo) \in Step,
           Head(q.todo) = "restorePvid" => q.orig \in Vlan \cup {"none"}
    PROVE  /\ Written(q) \in SwType
           /\ \A p \in Port : p # q.port => /\ Written(q).admin[p] = sw.admin[p]
                                            /\ Written(q).pvid[p] = sw.pvid[p]
           /\ Head(q.todo) # "setDown" /\ Written(q).admin[q.port] = "down" =>
                 sw.admin[q.port] = "down" /\ Head(q.todo) # "restoreAdmin"
           /\ Head(q.todo) # "setQuarantine" /\ Written(q).pvid[q.port] = "quarantine" =>
                 IF Head(q.todo) = "restorePvid" THEN q.orig \in {"quarantine", "none"}
                 ELSE sw.pvid[q.port] = "quarantine"
<1>1. /\ sw \in SwType /\ sw.admin \in [Port -> Admin] /\ sw.pvid \in [Port -> Vlan]
      /\ q.ports \subseteq Port /\ sw.egress \subseteq Port /\ sw.untagged \subseteq Port
  BY DEF Types, SwType, TaskType
<1>2. PICK p : p = q.port
  OBVIOUS
<1>3. CASE Head(q.todo) \in {"setDown", "restoreAdmin"}
  <2>1. PICK a : /\ a \in Admin
                 /\ Head(q.todo) = "restoreAdmin" => a # "down"
                 /\ Written(q) = [sw EXCEPT !.admin = [sw.admin EXCEPT ![p] = a]]
    <3>1. RestoreTo(q.orig) \in Admin \ {"down"}
      BY DEF RestoreTo, Admin
    <3>2. \A x : [sw EXCEPT !.admin[q.port] = x] = [sw EXCEPT !.admin = [sw.admin EXCEPT ![p] = x]]
      BY <1>2
    <3>3. Head(q.todo) = "setDown" => Written(q) = [sw EXCEPT !.admin[q.port] = "down"]
      BY DEF Written, Skipped
    <3>4. Head(q.todo) = "restoreAdmin" => Written(q) = [sw EXCEPT !.admin[q.port] = RestoreTo(q.orig)]
      BY DEF Written, Skipped
    <3> QED BY <1>3, <3>1, <3>2, <3>3, <3>4 DEF Admin
  <2>2. [sw.admin EXCEPT ![p] = a] \in [Port -> Admin]
    BY <1>1, <2>1
  <2>3. /\ Written(q) \in SwType /\ Written(q).admin = [sw.admin EXCEPT ![p] = a]
        /\ Written(q).pvid = sw.pvid
    BY <1>1, <2>1, <2>2 DEF SwType
  <2> QED BY <1>1, <1>2, <1>3, <2>1, <2>3
<1>4. CASE Head(q.todo) \in {"setQuarantine", "restorePvid"} /\ ~Skipped(q)
  <2>1. PICK v : /\ v \in Vlan
                 /\ Head(q.todo) = "restorePvid" => v = q.orig
                 /\ Written(q) = [sw EXCEPT !.pvid = [sw.pvid EXCEPT ![p] = v]]
    <3>1. \A x : [sw EXCEPT !.pvid[q.port] = x] = [sw EXCEPT !.pvid = [sw.pvid EXCEPT ![p] = x]]
      BY <1>2
    <3>2. Head(q.todo) = "setQuarantine" => Written(q) = [sw EXCEPT !.pvid[q.port] = "quarantine"]
      BY DEF Written, Skipped
    <3>3. Head(q.todo) = "restorePvid" =>
             Written(q) = [sw EXCEPT !.pvid[q.port] = q.orig] /\ q.orig \in Vlan
      BY <1>4 DEF Written, Skipped
    <3> QED BY <1>4, <3>1, <3>2, <3>3 DEF Vlan
  <2>2. [sw.pvid EXCEPT ![p] = v] \in [Port -> Vlan]
    BY <1>1, <2>1
  <2>3. /\ Written(q) \in SwType /\ Written(q).pvid = [sw.pvid EXCEPT ![p] = v]
        /\ Written(q).admin = sw.admin
    BY <1>1, <2>1, <2>2 DEF SwType
  <2> QED BY <1>1, <1>2, <1>4, <2>1, <2>3
<1>6. CASE Head(q.todo) \in {"setQuarantine", "restorePvid"} /\ Skipped(q)
  <2>1. Written(q) = sw /\ Head(q.todo) = "restorePvid" /\ q.orig = "none"
    BY <1>6 DEF Written, Skipped
  <2> QED BY <1>1, <2>1
<1>5. CASE Head(q.todo) \notin {"setDown", "restoreAdmin", "setQuarantine", "restorePvid"}
  <2>1. \/ Written(q) = sw
        \/ \E P \in SUBSET Port : Written(q) = [sw EXCEPT !.egress = P]
        \/ \E P \in SUBSET Port : Written(q) = [sw EXCEPT !.untagged = P]
    <3>1. q.ports \cup {q.port} \in SUBSET Port /\ q.ports \ {q.port} \in SUBSET Port
      BY <1>1
    <3>2. CASE Skipped(q)
      BY <1>5, <3>2 DEF Written
    <3>3. CASE ~Skipped(q) /\ Head(q.todo) = "addEgress"
      <4>1. Written(q) = [sw EXCEPT !.egress = q.ports \cup {q.port}]
        BY <3>3 DEF Written
      <4> QED BY <3>1, <4>1
    <3>4. CASE ~Skipped(q) /\ Head(q.todo) = "addUntagged"
      <4>1. Written(q) = [sw EXCEPT !.untagged = q.ports \cup {q.port}]
        BY <3>4 DEF Written
      <4> QED BY <3>1, <4>1
    <3>5. CASE ~Skipped(q) /\ Head(q.todo) = "delEgress"
      <4>1. Written(q) = [sw EXCEPT !.egress = q.ports \ {q.port}]
        BY <3>5 DEF Written
      <4> QED BY <3>1, <4>1
    <3>6. CASE ~Skipped(q) /\ Head(q.todo) = "delUntagged"
      <4>1. Written(q) = [sw EXCEPT !.untagged = q.ports \ {q.port}]
        BY <3>6 DEF Written
      <4> QED BY <3>1, <4>1
    <3>7. CASE /\ ~Skipped(q)
               /\ Head(q.todo) \notin {"addEgress", "addUntagged", "delEgress", "delUntagged"}
      <4>1. Written(q) = sw
        BY <1>5, <3>7 DEF Written
      <4> QED BY <4>1
    <3> QED BY <3>2, <3>3, <3>4, <3>5, <3>6, <3>7
  <2>2. Written(q) \in SwType /\ Written(q).admin = sw.admin /\ Written(q).pvid = sw.pvid
    BY <1>1, <2>1 DEF SwType
  <2> QED BY <1>1, <1>5, <2>2
<1> QED BY <1>3, <1>4, <1>5, <1>6

(* A task that is at a request: which port, and which request it can be. *)
LEMMA SnmpFacts ==
    ASSUME Types, Shapes, NEW t \in Task, Snmp(t)
    PROVE  /\ task[t] \in TaskType /\ task[t].port \in Port /\ task[t].kind \in Kinds
           /\ task[t].todo # <<>> /\ Head(task[t].todo) \in Step
           /\ Head(task[t].todo) = "restorePvid" => task[t].orig \in Vlan \cup {"none"}
           /\ task[t].pc = "snmp" => /\ \/ task[t].todo = ApplyScript[task[t].kind]
                                        \/ /\ task[t].todo \in ApplyRest[task[t].kind]
                                           /\ Snapshot(task[t].kind, task[t].orig)
           /\ task[t].pc = "revert" => /\ \/ task[t].todo = ReleaseScript[task[t].kind]
                                          \/ task[t].todo \in ReleaseRest[task[t].kind]
                                       /\ task[t].row \in DOMAIN rows
                                       /\ task[t].port = rows[task[t].row].port
                                       /\ task[t].kind = rows[task[t].row].kind
                                       /\ task[t].orig = rows[task[t].row].orig
<1>1. task[t] \in TaskType /\ Shape(task[t], rows) /\ task[t].pc \in {"snmp", "revert"}
  BY DEF Types, Shapes, Snmp
<1>2. CASE task[t].pc = "snmp"
  <2>1. /\ task[t].port \in Port /\ task[t].kind \in Kinds
        /\ \/ task[t].todo = ApplyScript[task[t].kind]
           \/ task[t].todo \in ApplyRest[task[t].kind] /\ Snapshot(task[t].kind, task[t].orig)
    BY <1>1, <1>2 DEF Shape, ApplyShape
  <2>2. task[t].todo # <<>> /\ Head(task[t].todo) \in Step /\ Head(task[t].todo) # "restorePvid"
    BY <2>1, ApplyRestFacts
  <2> QED BY <1>1, <1>2, <2>1, <2>2
<1>3. CASE task[t].pc = "revert"
  <2>1. /\ task[t].row \in DOMAIN rows /\ task[t].port = rows[task[t].row].port
        /\ task[t].kind = rows[task[t].row].kind /\ task[t].orig = rows[task[t].row].orig
        /\ \/ task[t].todo = ReleaseScript[task[t].kind]
           \/ task[t].todo \in ReleaseRest[task[t].kind]
    BY <1>1, <1>3 DEF Shape, ReleaseShape
  <2>2. RowShape(rows[task[t].row])
    BY <2>1 DEF Types, RowsOk
  <2>3. /\ task[t].port \in Port /\ task[t].kind \in Kinds
        /\ Snapshot(task[t].kind, task[t].orig) \/ task[t].orig = "none"
    BY <2>1, <2>2 DEF RowShape, RowType
  <2>4. task[t].todo # <<>> /\ Head(task[t].todo) \in Step
        /\ (Head(task[t].todo) = "restorePvid" => task[t].kind = "quarantine")
    BY <2>1, <2>3, ReleaseRestFacts
  <2> QED BY <1>1, <1>3, <2>1, <2>3, <2>4 DEF Snapshot
<1> QED BY <1>1, <1>2, <1>3

(* The task after an answer. *)
Answered(t) ==
    LET q == [Read(task[t]) EXCEPT !.todo = Tail(@)]
        done == IF q.pc = "snmp" THEN "create" ELSE "reverted"
    IN  IF q.todo = <<>> THEN [q EXCEPT !.pc = done] ELSE q

LEMMA AnsweredFacts ==
    ASSUME Types, Shapes, NEW t \in Task, Snmp(t)
    PROVE  /\ Answered(t) \in TaskType /\ Shape(Answered(t), rows)
           /\ Answered(t).row = task[t].row /\ Answered(t).port = task[t].port
           /\ Answered(t).kind = task[t].kind
           /\ Answered(t).todo = Tail(task[t].todo)
           /\ Answered(t).pc = IF Tail(task[t].todo) # <<>> THEN task[t].pc
                               ELSE IF task[t].pc = "snmp" THEN "create" ELSE "reverted"
<1> DEFINE q == task[t]
           r == Read(q)
           v == [r EXCEPT !.todo = Tail(r.todo)]
           w == Answered(t)
<1>0. q.pc \in {"snmp", "revert"} /\ Shape(q, rows)
  BY DEF Snmp, Shapes
<1>1. /\ r \in TaskType /\ r.pc = q.pc /\ r.todo = q.todo /\ r.port = q.port /\ r.kind = q.kind
      /\ r.row = q.row /\ r.due = q.due /\ r.left = q.left
      /\ Head(q.todo) = "getAdmin" => r.orig \in Admin
      /\ Head(q.todo) = "getPvid" => r.orig \in Vlan
      /\ Head(q.todo) \notin {"getAdmin", "getPvid"} => r.orig = q.orig
  BY SnmpFacts, ReadType
<1>2. Tail(q.todo) \in Seq(Step)
  BY SnmpFacts DEF TaskType
<1>3. /\ v \in TaskType /\ v.todo = Tail(q.todo) /\ v.pc = q.pc /\ v.port = q.port
      /\ v.kind = q.kind /\ v.row = q.row /\ v.due = q.due /\ v.orig = r.orig /\ v.left = q.left
  <2> HIDE DEF r
  <2> QED BY <1>1, <1>2 DEF TaskType
<1>4. w = IF Tail(q.todo) = <<>>
          THEN [v EXCEPT !.pc = IF q.pc = "snmp" THEN "create" ELSE "reverted"] ELSE v
  BY <1>3 DEF Answered
<1>5. /\ w \in TaskType /\ w.todo = Tail(q.todo) /\ w.port = q.port
      /\ w.kind = q.kind /\ w.row = q.row /\ w.due = q.due /\ w.orig = r.orig /\ w.left = q.left
      /\ w.pc = IF Tail(q.todo) # <<>> THEN q.pc
                ELSE IF q.pc = "snmp" THEN "create" ELSE "reverted"
  <2>1. PICK c : c = IF q.pc = "snmp" THEN "create" ELSE "reverted"
    OBVIOUS
  <2> HIDE DEF v, w, r, q
  <2>2. CASE Tail(q.todo) = <<>>
    <3>1. w = [v EXCEPT !.pc = c] /\ c \in PC
      BY <1>4, <2>1, <2>2 DEF PC
    <3>2. w \in TaskType /\ w.pc = c
      BY <1>3, <3>1 DEF TaskType
    <3>3. /\ w.todo = v.todo /\ w.port = v.port /\ w.kind = v.kind /\ w.row = v.row
          /\ w.due = v.due /\ w.orig = v.orig /\ w.left = v.left
      BY <1>3, <3>1 DEF TaskType
    <3> QED BY <1>3, <2>1, <2>2, <3>2, <3>3
  <2>3. CASE Tail(q.todo) # <<>>
    BY <1>3, <1>4, <2>3
  <2> QED BY <2>2, <2>3
<1>6. CASE q.pc = "snmp"
  <2>0. q.kind \in Kinds /\ q.port \in Port
    BY SnmpFacts
  <2>1. q.todo = ApplyScript[q.kind] \/ (q.todo \in ApplyRest[q.kind] /\ Snapshot(q.kind, q.orig))
    BY <1>0, <1>6 DEF Shape, ApplyShape
  <2>2. /\ Tail(q.todo) = <<>> \/ Tail(q.todo) \in ApplyRest[q.kind]
        /\ Head(q.todo) = "getAdmin" <=> q.kind = "disable" /\ q.todo = ApplyScript[q.kind]
        /\ Head(q.todo) = "getPvid" <=> q.kind = "quarantine" /\ q.todo = ApplyScript[q.kind]
    BY <2>0, <2>1, ApplyRestFacts
  <2>3. Snapshot(q.kind, r.orig)
    <3> HIDE DEF r
    <3> QED BY <1>1, <2>0, <2>1, <2>2 DEF Snapshot, Kinds
  <2>4. ApplyShape(w)
    <3> HIDE DEF w, r
    <3> QED BY <1>5, <1>6, <2>0, <2>1, <2>2, <2>3 DEF ApplyShape
  <2>5. ReleaseShape(w, rows) /\ PassShape(w, rows)
    <3> HIDE DEF w, r, q
    <3> QED BY <1>0, <1>5, <1>6 DEF Shape, ReleaseShape, PassShape
  <2> QED BY <1>5, <2>4, <2>5 DEF Shape
<1>7. CASE q.pc = "revert"
  <2>1. /\ q.todo = ReleaseScript[q.kind] \/ q.todo \in ReleaseRest[q.kind]
        /\ q.kind \in Kinds /\ q.port \in Port
    BY <1>7, SnmpFacts
  <2>2. /\ Tail(q.todo) = <<>> \/ Tail(q.todo) \in ReleaseRest[q.kind]
        /\ Head(q.todo) \notin {"getAdmin", "getPvid"}
    BY <2>1, ReleaseRestFacts
  <2>3. Shape(w, rows)
    <3> HIDE DEF w, r, q
    <3> QED BY <1>0, <1>1, <1>5, <1>7, <2>1, <2>2 DEF Shape, ApplyShape, ReleaseShape, PassShape
  <2> QED BY <1>5, <2>3
<1> QED BY <1>0, <1>6, <1>7

LEMMA BySnmpOk ==
    ASSUME Types, Shapes, NEW t \in Task, SnmpOk(t)
    PROVE  Types' /\ Shapes'
<1>1. Snmp(t) /\ task' = [task EXCEPT ![t] = Answered(t)] /\ UNCHANGED <<rows, conf, count, lost>>
      /\ sw' = Written(task[t])
  BY DEF SnmpOk, Answered
<1>2. sw' \in SwType
  BY <1>1, SnmpFacts, WrittenFacts
<1>3. Answered(t) \in TaskType /\ Shape(Answered(t), rows)
  BY <1>1, AnsweredFacts
<1> QED BY <1>1, <1>2, <1>3, TypesByTask DEF Types

(* A request that fails ends the call. *)
Failed(t) ==
    [task[t] EXCEPT !.todo = <<>>, !.orig = "none", !.ports = {},
                    !.pc = IF task[t].pc = "snmp" THEN "failed" ELSE "revert_failed"]

LEMMA FailedFacts ==
    ASSUME Types, Shapes, NEW t \in Task, Snmp(t)
    PROVE  /\ Failed(t) \in TaskType /\ Shape(Failed(t), rows)
           /\ Failed(t).row = task[t].row /\ Failed(t).port = task[t].port
           /\ Failed(t).kind = task[t].kind
           /\ Failed(t).pc = IF task[t].pc = "snmp" THEN "failed" ELSE "revert_failed"
<1> DEFINE q == task[t]
           w == Failed(t)
<1>1. q \in TaskType /\ Shape(q, rows) /\ q.pc \in {"snmp", "revert"}
  BY DEF Types, Shapes, Snmp
<1>2. PICK c \in {"failed", "revert_failed"} : c = IF q.pc = "snmp" THEN "failed" ELSE "revert_failed"
  OBVIOUS
<1>3. w = [q EXCEPT !.todo = <<>>, !.orig = "none", !.ports = {}, !.pc = c]
  BY <1>2 DEF Failed
<1>4. <<>> \in Seq(Step) /\ c \in PC
  BY DEF PC
<1> HIDE DEF w, q
<1>5. w \in TaskType
  BY <1>1, <1>3, <1>4 DEF TaskType, Orig
<1>6. w.pc = c /\ w.port = q.port /\ w.kind = q.kind /\ w.row = q.row /\ w.due = q.due
  BY <1>1, <1>3 DEF TaskType
<1>7. Shape(w, rows)
  BY <1>1, <1>2, <1>6 DEF Shape, ApplyShape, ReleaseShape, PassShape
<1> QED BY <1>2, <1>5, <1>6, <1>7 DEF w, q

LEMMA BySnmpErr ==
    ASSUME Types, Shapes, NEW t \in Task, NEW landed \in BOOLEAN, SnmpErr(t, landed)
    PROVE  Types' /\ Shapes'
<1>1. Snmp(t) /\ Trouble /\ UNCHANGED <<rows, conf, lost>>
      /\ sw' = IF landed THEN Written(task[t]) ELSE sw
  BY DEF SnmpErr
<1>2. task' = [task EXCEPT ![t] = Failed(t)]
  BY DEF SnmpErr, Failed, Types
<1>3. sw' \in SwType
  BY <1>1, SnmpFacts, WrittenFacts DEF Types
<1>4. Failed(t) \in TaskType /\ Shape(Failed(t), rows)
  BY <1>1, FailedFacts
<1>5. count' \in Nat
  BY <1>1, TroubleType
<1> QED BY <1>1, <1>2, <1>3, <1>4, <1>5, TypesByTask DEF Types

(* A row is added at the end of the table. *)
LEMMA Appended ==
    ASSUME NEW R, RowsOk(R), NEW r, RowShape(r)
    PROVE  /\ RowsOk(Append(R, r)) /\ Grown(R, Append(R, r))
           /\ Len(Append(R, r)) = Len(R) + 1 /\ Append(R, r)[Len(R) + 1] = r
           /\ \A i \in DOMAIN R : i \in DOMAIN Append(R, r) /\ Append(R, r)[i] = R[i]
<1>1. R \in Seq(RowType) /\ r \in RowType /\ Len(R) \in Nat /\ DOMAIN R = 1..Len(R)
  BY DEF RowsOk, RowShape
<1> DEFINE S == Append(R, r)
<1>2. /\ S \in Seq(RowType) /\ Len(S) = Len(R) + 1 /\ S[Len(R) + 1] = r
      /\ DOMAIN S = 1..(Len(R) + 1) /\ \A i \in 1..Len(R) : S[i] = R[i]
  BY <1>1
<1> HIDE DEF S
<1>3. ASSUME NEW i \in DOMAIN S PROVE RowShape(S[i])
  <2>1. CASE i = Len(R) + 1
    BY <1>2, <2>1
  <2>2. CASE i # Len(R) + 1
    <3>1. i \in 1..Len(R)
      BY <1>1, <1>2, <2>2
    <3> QED BY <1>1, <1>2, <3>1 DEF RowsOk
  <2> QED BY <2>1, <2>2
<1>4. RowsOk(S)
  BY <1>2, <1>3 DEF RowsOk
<1>5. Grown(R, S)
  BY <1>1, <1>2 DEF Grown
<1>6. \A i \in DOMAIN R : i \in DOMAIN S /\ S[i] = R[i]
  BY <1>1, <1>2
<1> QED BY <1>2, <1>4, <1>5, <1>6 DEF S

(* A row changes its state, or its timer. *)
LEMMA Remarked ==
    ASSUME NEW R, RowsOk(R), NEW i \in DOMAIN R, NEW r, RowShape(r),
           r.port = R[i].port, r.kind = R[i].kind, r.orig = R[i].orig
    PROVE  /\ RowsOk([R EXCEPT ![i] = r]) /\ Grown(R, [R EXCEPT ![i] = r])
           /\ DOMAIN [R EXCEPT ![i] = r] = DOMAIN R /\ Len([R EXCEPT ![i] = r]) = Len(R)
<1>1. R \in Seq(RowType) /\ r \in RowType /\ Len(R) \in Nat /\ DOMAIN R = 1..Len(R)
  BY DEF RowsOk, RowShape
<1> DEFINE S == [R EXCEPT ![i] = r]
<1>2. /\ S \in Seq(RowType) /\ Len(S) = Len(R) /\ DOMAIN S = DOMAIN R
      /\ \A j \in DOMAIN R : S[j] = IF j = i THEN r ELSE R[j]
  BY <1>1
<1> HIDE DEF S
<1>3. RowsOk(S) /\ Grown(R, S)
  BY <1>1, <1>2 DEF RowsOk, Grown
<1> QED BY <1>2, <1>3 DEF S

(* The row that create writes. *)
LEMMA NewRowFacts ==
    ASSUME Types, Shapes, NEW t \in Task, task[t].pc \in {"create", "failed"},
           NEW s, s = IF task[t].pc = "create" THEN "active" ELSE "apply_failed"
    PROVE  /\ RowShape(NewRow(task[t], s))
           /\ NewRow(task[t], s).port = task[t].port
           /\ NewRow(task[t], s).kind = task[t].kind
           /\ NewRow(task[t], s).state = s
<1> DEFINE q == task[t]
<1>1. /\ q \in TaskType /\ q.port \in Port /\ q.kind \in Kinds
      /\ q.pc = "create" => Snapshot(q.kind, q.orig)
  BY DEF Types, Shapes, Shape, ApplyShape
<1>2. PICK o \in Orig : /\ o = IF s = "active" THEN q.orig ELSE "none"
                        /\ Snapshot(q.kind, o) \/ o = "none"
  BY <1>1 DEF TaskType, Orig
<1>3. PICK m \in {"never", "running"} : m = IF s = "active" /\ q.timed THEN "running" ELSE "never"
  OBVIOUS
<1>4. NewRow(q, s) = [port |-> q.port, kind |-> q.kind, state |-> s, orig |-> o, timer |-> m]
  BY <1>2, <1>3 DEF NewRow
<1>5. s \in State
  BY DEF State
<1> HIDE DEF q
<1>6. NewRow(q, s) \in RowType
  BY <1>1, <1>2, <1>3, <1>4, <1>5 DEF RowType
<1>7. RowShape(NewRow(q, s))
  BY <1>2, <1>4, <1>5, <1>6 DEF RowShape
<1> QED BY <1>4, <1>7 DEF q

LEMMA ByCreate ==
    ASSUME Types, Shapes, NEW t \in Task, Create(t)
    PROVE  Types' /\ Shapes'
<1>1. PICK s : s = IF task[t].pc = "create" THEN "active" ELSE "apply_failed"
  OBVIOUS
<1>2. /\ task[t].pc \in {"create", "failed"} /\ rows' = Append(rows, NewRow(task[t], s))
      /\ Continue(t) /\ UNCHANGED <<sw, conf, count, lost>>
  BY <1>1 DEF Create
<1>3. RowsOk(rows') /\ Grown(rows, rows')
  BY <1>1, <1>2, NewRowFacts, Appended DEF Types
<1> QED BY <1>2, <1>3, TypesByContinue DEF Types

(* A task takes up a row that was applied, as it is. *)
LEMMA ReleaseTask ==
    ASSUME Types, NEW i \in DOMAIN rows, NEW q \in TaskType, q.due \subseteq DOMAIN rows,
           NEW w, w = [q EXCEPT !.pc = "find", !.row = i, !.port = rows[i].port,
                                !.kind = rows[i].kind, !.orig = rows[i].orig]
    PROVE  w \in TaskType /\ Shape(w, rows)
<1>1. rows[i] \in RowType /\ i \in 1..Len(rows) /\ Len(rows) \in Nat /\ i \in Nat
  BY DEF Types, RowsOk, RowShape
<1>2. rows[i].port \in Port /\ rows[i].kind \in Kinds /\ rows[i].orig \in Orig
  BY <1>1 DEF RowType
<1>3. w \in TaskType
  BY <1>1, <1>2 DEF TaskType, PC
<1>4. /\ w.pc = "find" /\ w.row = i /\ w.port = rows[i].port /\ w.kind = rows[i].kind
      /\ w.orig = rows[i].orig /\ w.due = q.due
  BY DEF TaskType
<1>5. Shape(w, rows)
  BY <1>1, <1>4 DEF Shape, ApplyShape, ReleaseShape, PassShape
<1> QED BY <1>3, <1>5

LEMMA ByRequestRelease ==
    ASSUME Types, Shapes, NEW t \in Operator, NEW i \in DOMAIN rows, RequestRelease(t, i)
    PROVE  Types' /\ Shapes'
<1> DEFINE w == [Idle EXCEPT !.pc = "find", !.row = i, !.port = rows[i].port,
                             !.kind = rows[i].kind, !.orig = rows[i].orig]
<1>1. /\ t \in Task /\ task' = [task EXCEPT ![t] = w] /\ UNCHANGED <<sw, rows, conf, count, lost>>
      /\ i \in DOMAIN rows
  BY DEF RequestRelease, Task
<1>2. Idle.due = {}
  BY DEF Idle
<1>3. w \in TaskType /\ Shape(w, rows)
  BY <1>1, <1>2, IdleFacts, ReleaseTask
<1> HIDE DEF w
<1> QED BY <1>1, <1>3, TypesByTask DEF Types

LEMMA ByRevertPass ==
    ASSUME Types, Shapes, RevertPass
    PROVE  Types' /\ Shapes'
<1>1. PICK D : D = {i \in DOMAIN rows : Due(i)}
  OBVIOUS
<1> DEFINE w == [Idle EXCEPT !.pc = "release", !.due = D]
<1>2. /\ "revert" \in Task /\ task' = [task EXCEPT !["revert"] = w]
      /\ UNCHANGED <<sw, rows, conf, count, lost>>
  BY <1>1 DEF RevertPass, Task
<1>3. D \subseteq DOMAIN rows /\ D \subseteq Nat /\ Len(rows) \in Nat
  BY <1>1 DEF Due, Types, RowsOk
<1>4. w \in TaskType
  BY <1>3, IdleFacts DEF TaskType, PC
<1>5. w.pc = "release" /\ w.due = D /\ w.row = 0
  BY DEF Idle
<1> HIDE DEF w
<1>6. Shape(w, rows)
  BY <1>3, <1>5 DEF Shape, ApplyShape, ReleaseShape, PassShape
<1> QED BY <1>2, <1>4, <1>6, TypesByTask DEF Types

LEMMA ByRevertNext ==
    ASSUME Types, Shapes, RevertNext
    PROVE  Types' /\ Shapes'
<1>1. PICK q : q = task["revert"]
  OBVIOUS
<1>2. PICK i \in q.due :
         task' = [task EXCEPT !["revert"] =
             [q EXCEPT !.pc = "find", !.due = q.due \ {i}, !.row = i, !.port = rows[i].port,
                       !.kind = rows[i].kind, !.orig = rows[i].orig]]
  BY <1>1 DEF RevertNext
<1>3. UNCHANGED <<sw, rows, conf, count, lost>> /\ "revert" \in Task
  BY DEF RevertNext, Task
<1>4. q \in TaskType /\ q.due \subseteq DOMAIN rows /\ q.due \subseteq Nat
  BY <1>1, <1>3 DEF Types, Shapes, Shape, ReleaseShape, TaskType
<1>5. PICK v : v = [q EXCEPT !.due = q.due \ {i}]
  OBVIOUS
<1>6. v \in TaskType /\ v.due \subseteq DOMAIN rows
  BY <1>4, <1>5 DEF TaskType
<1>7. PICK w : w = [v EXCEPT !.pc = "find", !.row = i, !.port = rows[i].port,
                             !.kind = rows[i].kind, !.orig = rows[i].orig]
  OBVIOUS
<1>8. w \in TaskType /\ Shape(w, rows)
  BY <1>4, <1>6, <1>7, ReleaseTask
<1>9. w = [q EXCEPT !.pc = "find", !.due = q.due \ {i}, !.row = i, !.port = rows[i].port,
                    !.kind = rows[i].kind, !.orig = rows[i].orig]
  BY <1>4, <1>5, <1>7 DEF TaskType
<1>10. task' = [task EXCEPT !["revert"] = w]
  BY <1>2, <1>9
<1> QED BY <1>3, <1>8, <1>10, TypesByTask DEF Types

LEMMA MarkedFacts ==
    ASSUME Types, NEW i \in DOMAIN rows, NEW s \in {"reverted", "revert_failed"}
    PROVE  /\ RowsOk(Marked(i, s)) /\ Grown(rows, Marked(i, s))
           /\ DOMAIN Marked(i, s) = DOMAIN rows /\ Marked(i, s)[i].state = s
           /\ \A j \in DOMAIN rows : j # i => Marked(i, s)[j] = rows[j]
<1>1. PICK r : r = [rows[i] EXCEPT !.state = s]
  OBVIOUS
<1>2. i \in DOMAIN rows /\ RowShape(rows[i]) /\ rows \in Seq(RowType)
  BY DEF Types, RowsOk
<1>3. Marked(i, s) = [rows EXCEPT ![i] = r]
  <2>1. Marked(i, s) = [rows EXCEPT ![i] = [rows[i] EXCEPT !.state = s]]
    BY <1>2, Zenon DEF Marked
  <2> QED BY <1>1, <2>1
<1>4. /\ r \in RowType /\ r.state = s /\ r.port = rows[i].port /\ r.kind = rows[i].kind
      /\ r.orig = rows[i].orig
  BY <1>1, <1>2 DEF RowShape, RowType, State
<1>5. RowShape(r)
  BY <1>2, <1>4 DEF RowShape
<1>6. RowsOk(rows)
  BY DEF Types
<1>7. RowsOk(Marked(i, s)) /\ Grown(rows, Marked(i, s)) /\ DOMAIN Marked(i, s) = DOMAIN rows
  <2>2. LET S == [rows EXCEPT ![i] = r] IN RowsOk(S) /\ Grown(rows, S) /\ DOMAIN S = DOMAIN rows
    BY <1>2, <1>4, <1>5, <1>6, Remarked, Zenon
  <2> QED BY <1>3, <2>2, Zenon
<1> QED BY <1>2, <1>3, <1>4, <1>7

LEMMA ByFind ==
    ASSUME Types, Shapes, NEW t \in Task, Find(t)
    PROVE  Types' /\ Shapes'
<1>1. task[t] \in TaskType /\ Shape(task[t], rows) /\ task[t].pc = "find"
      /\ UNCHANGED <<sw, conf, count, lost>>
  BY DEF Types, Shapes, Find
<1>2. task[t].row \in DOMAIN rows /\ task[t].kind = rows[task[t].row].kind
  BY <1>1 DEF Shape, ReleaseShape
<1>3. task[t].kind \in Kinds
  BY <1>2 DEF Types, RowsOk, RowShape, RowType
<1>4. CASE conf.present
  <2> DEFINE w == [task[t] EXCEPT !.pc = "revert", !.todo = ReleaseScript[task[t].kind]]
  <2>1. task' = [task EXCEPT ![t] = w] /\ UNCHANGED rows
    BY <1>4 DEF Find, Types
  <2>2. ReleaseScript[task[t].kind] \in Seq(Step)
    BY <1>3, ReleaseRestFacts
  <2>3. w \in TaskType
    BY <1>1, <2>2 DEF TaskType, PC
  <2>4. /\ w.pc = "revert" /\ w.port = task[t].port /\ w.kind = task[t].kind
        /\ w.due = task[t].due /\ w.row = task[t].row /\ w.orig = task[t].orig
        /\ w.todo = ReleaseScript[w.kind]
    BY <1>1 DEF TaskType
  <2> HIDE DEF w
  <2>5. Shape(w, rows)
    BY <1>1, <2>4 DEF Shape, ApplyShape, ReleaseShape, PassShape
  <2> QED BY <1>1, <2>1, <2>3, <2>5, TypesByTask DEF Types
<1>5. CASE ~conf.present
  <2>1. rows' = Marked(task[t].row, "reverted") /\ Continue(t)
    BY <1>5 DEF Find
  <2>2. RowsOk(rows') /\ Grown(rows, rows')
    BY <1>2, <2>1, MarkedFacts
  <2> QED BY <1>1, <2>1, <2>2, TypesByContinue DEF Types
<1> QED BY <1>4, <1>5

LEMMA ByMark ==
    ASSUME Types, Shapes, NEW t \in Task, Mark(t)
    PROVE  Types' /\ Shapes'
<1>1. /\ task[t].pc \in {"reverted", "revert_failed"} /\ rows' = Marked(task[t].row, task[t].pc)
      /\ Continue(t) /\ UNCHANGED <<sw, conf, count, lost>>
  BY DEF Mark
<1>2. task[t].row \in DOMAIN rows
  BY <1>1 DEF Shapes, Shape, ReleaseShape
<1>3. RowsOk(rows') /\ Grown(rows, rows')
  BY <1>1, <1>2, MarkedFacts
<1> QED BY <1>1, <1>3, TypesByContinue DEF Types

(* A task with a row to write knows its port. *)
LEMMA CutOffFacts ==
    ASSUME Types, Shapes PROVE \A T \in SUBSET Task : CutOff(T) \subseteq Port
  BY DEF CutOff, Shapes, Shape, ApplyShape

LEMMA ByDbError ==
    ASSUME Types, Shapes, NEW t \in Task, DbError(t)
    PROVE  Types' /\ Shapes'
<1>1. Continue(t) /\ Trouble /\ UNCHANGED <<sw, rows, conf>> /\ lost' \subseteq Port
  BY CutOffFacts DEF DbError, Types
<1> QED BY <1>1, RestFacts, TroubleType, TypesByTask DEF Types

LEMMA IdleShape ==
    ASSUME Types PROVE Shape(Idle, rows)
<1>1. Idle.pc = "idle" /\ Idle.due = {} /\ Idle.row = 0 /\ Len(rows) \in Nat
  BY DEF Idle, Types, RowsOk
<1> QED BY <1>1 DEF Shape, ApplyShape, ReleaseShape, PassShape

LEMMA ByClientGone ==
    ASSUME Types, Shapes, NEW t \in Operator, ClientGone(t)
    PROVE  Types' /\ Shapes'
<1>1. /\ task' = [task EXCEPT ![t] = Idle] /\ Trouble /\ UNCHANGED <<sw, rows, conf>>
      /\ lost' \subseteq Port /\ t \in Task
  BY CutOffFacts DEF ClientGone, Types, Task
<1> QED BY <1>1, IdleFacts, IdleShape, TroubleType, TypesByTask DEF Types

(* A row's timer changes: the timeout runs out or is cleared. *)
LEMMA TimerFacts ==
    ASSUME Types, Shapes, NEW i \in DOMAIN rows, NEW m \in {"never", "due"},
           rows' = [rows EXCEPT ![i].timer = m], UNCHANGED <<sw, conf, task, count, lost>>
    PROVE  /\ Types' /\ Shapes' /\ DOMAIN rows' = DOMAIN rows
           /\ \A j \in DOMAIN rows : /\ rows'[j].port = rows[j].port
                                     /\ rows'[j].kind = rows[j].kind
                                     /\ rows'[j].orig = rows[j].orig
                                     /\ rows'[j].state = rows[j].state
<1>1. PICK r : r = [rows[i] EXCEPT !.timer = m]
  OBVIOUS
<1>2. RowsOk(rows) /\ RowShape(rows[i]) /\ rows \in Seq(RowType)
  BY DEF Types, RowsOk
<1>3. rows' = [rows EXCEPT ![i] = r]
  <2>1. [rows EXCEPT ![i].timer = m] = [rows EXCEPT ![i] = [rows[i] EXCEPT !.timer = m]]
    BY Zenon
  <2> QED BY <1>1, <2>1
<1>4. /\ r \in RowType /\ r.state = rows[i].state /\ r.port = rows[i].port
      /\ r.kind = rows[i].kind /\ r.orig = rows[i].orig
  BY <1>1, <1>2 DEF RowShape, RowType
<1>5. RowShape(r)
  BY <1>2, <1>4 DEF RowShape
<1>6. RowsOk(rows') /\ Grown(rows, rows') /\ DOMAIN rows' = DOMAIN rows
  <2>2. LET S == [rows EXCEPT ![i] = r] IN RowsOk(S) /\ Grown(rows, S) /\ DOMAIN S = DOMAIN rows
    BY <1>2, <1>4, <1>5, Remarked, Zenon
  <2> QED BY <1>3, <2>2, Zenon
<1>7. Shapes'
  <2>1. ASSUME NEW u \in Task PROVE Shape(task[u], rows')
    BY <1>2, <1>6, GrownShape DEF Shapes
  <2> QED BY <2>1 DEF Shapes
<1>8. Types'
  BY <1>6 DEF Types
<1> QED BY <1>2, <1>3, <1>4, <1>6, <1>7, <1>8

LEMMA ByPolicyPass ==
    ASSUME Types, Shapes, NEW n \in 0..Len(rows), PolicyPass(n)
    PROVE  Types' /\ Shapes'
<1>1. PICK a \in BOOLEAN : a = (conf.mode = "active" /\ conf.enabled)
  BY DEF Types, ConfType
<1> DEFINE w == [Idle EXCEPT !.pc = "match", !.left = Devices, !.armed = a, !.old = n]
<1>2. /\ "policy" \in Task /\ task' = [task EXCEPT !["policy"] = w]
      /\ UNCHANGED <<sw, rows, conf, count, lost>> /\ Devices # <<>>
  BY <1>1 DEF PolicyPass, Task
<1>3. Devices \in Seq(Device) /\ Len(rows) \in Nat /\ n \in Nat
  BY EnforcementAssumption DEF Device, Types, RowsOk
<1>4. w \in TaskType
  BY <1>3, IdleFacts DEF TaskType, PC
<1>5. w.pc = "match" /\ w.due = {} /\ w.row = 0 /\ w.left # <<>>
  BY <1>2 DEF Idle
<1> HIDE DEF w
<1>6. Shape(w, rows)
  BY <1>3, <1>5 DEF Shape, ApplyShape, ReleaseShape, PassShape
<1> QED BY <1>2, <1>4, <1>6, TypesByTask DEF Types

(* What PolicyMatch leads to. *)
LEMMA MatchFacts ==
    ASSUME Types, Shapes, PolicyMatch
    PROVE  /\ UNCHANGED <<sw, rows, conf, count, lost>>
           /\ \E w \in TaskType : /\ task' = [task EXCEPT !["policy"] = w] /\ Shape(w, rows)
                                  /\ w.pc \in {"idle", "match", "cooldown"}
<1>1. PICK q, d, r : q = task["policy"] /\ d = Head(q.left) /\ r = FirstMatch(d)
  OBVIOUS
<1>2. PICK next : next = [q EXCEPT !.left = Tail(q.left)]
  OBVIOUS
<1>3. /\ q \in TaskType /\ q.left # <<>> /\ q.pc = "match" /\ "policy" \in Task
      /\ q.due \subseteq DOMAIN rows /\ q.row \in 0..Len(rows)
  BY <1>1 DEF Types, Shapes, Shape, PassShape, ReleaseShape, PolicyMatch, Task
<1>4. q.left \in Seq(Device)
  BY <1>3 DEF TaskType
<1>5. d \in Device /\ Tail(q.left) \in Seq(Device)
  BY <1>1, <1>3, <1>4
<1>6. d.port \in Port
  BY <1>5, EnforcementAssumption DEF Device
<1>7. /\ next \in TaskType /\ next.left = Tail(q.left) /\ next.pc = "match" /\ next.row = q.row
      /\ next.due = q.due
  BY <1>2, <1>3, <1>5 DEF TaskType
<1>8. UNCHANGED <<sw, rows, conf, count, lost>>
  BY DEF PolicyMatch
<1>9. CASE r = 0 \/ ~conf.present \/ InEffect(d.port)
  <2>1. task' = [task EXCEPT !["policy"] = IF next.left = <<>> THEN Idle ELSE next]
    BY <1>1, <1>2, <1>9 DEF PolicyMatch
  <2>2. CASE next.left = <<>>
    <3>1. Idle.due = {} /\ Idle.row = 0 /\ Idle.pc = "idle" /\ Len(rows) \in Nat
      BY DEF Idle, Types, RowsOk
    <3>2. Shape(Idle, rows)
      BY <3>1 DEF Shape, ApplyShape, ReleaseShape, PassShape
    <3> QED BY <1>8, <2>1, <2>2, <3>1, <3>2, IdleFacts
  <2>3. CASE next.left # <<>>
    <3>1. Shape(next, rows)
      BY <1>3, <1>7, <2>3 DEF Shape, ApplyShape, ReleaseShape, PassShape
    <3> QED BY <1>7, <1>8, <2>1, <2>3, <3>1
  <2> QED BY <2>2, <2>3
<1>10. CASE ~(r = 0 \/ ~conf.present \/ InEffect(d.port))
  <2>1. PICK w : w = [next EXCEPT !.pc = "cooldown", !.port = d.port, !.kind = Rules[r].action,
                                  !.timed = Rules[r].timed, !.optin = conf.optin]
    OBVIOUS
  <2>2. task' = [task EXCEPT !["policy"] = w]
    BY <1>1, <1>2, <1>10, <2>1 DEF PolicyMatch
  <2>3. Rules[r].action \in Kinds /\ Rules[r].timed \in BOOLEAN /\ conf.optin \in BOOLEAN
    BY <1>1, <1>10, FirstMatchFacts DEF Types, ConfType
  <2>4. w \in TaskType
    BY <1>6, <1>7, <2>1, <2>3 DEF TaskType, PC
  <2>5. /\ w.pc = "cooldown" /\ w.port = d.port /\ w.kind = Rules[r].action /\ w.row = next.row
        /\ w.due = next.due
    BY <1>7, <2>1 DEF TaskType
  <2>6. Shape(w, rows)
    BY <1>3, <1>6, <1>7, <2>3, <2>5 DEF Shape, ApplyShape, ReleaseShape, PassShape
  <2> QED BY <1>8, <2>2, <2>4, <2>5, <2>6
<1> QED BY <1>9, <1>10

LEMMA ByPolicyMatch ==
    ASSUME Types, Shapes, PolicyMatch
    PROVE  Types' /\ Shapes'
<1>1. "policy" \in Task
  BY DEF Task
<1>2. PICK w \in TaskType : task' = [task EXCEPT !["policy"] = w] /\ Shape(w, rows)
  BY MatchFacts
<1> QED BY <1>1, <1>2, MatchFacts, TypesByTask DEF Types

LEMMA ByPolicyCooldown ==
    ASSUME Types, Shapes, PolicyCooldown
    PROVE  Types' /\ Shapes'
<1> DEFINE w == [task["policy"] EXCEPT !.pc = "gate"]
<1>1. "policy" \in Task /\ UNCHANGED <<sw, rows, conf, count, lost>> /\ task["policy"].pc = "cooldown"
  BY DEF Task, PolicyCooldown
<1>2. task' = [task EXCEPT !["policy"] = w] \/ Continue("policy")
  BY <1>1 DEF PolicyCooldown, Types
<1>3. CASE task' = [task EXCEPT !["policy"] = w]
  <2>1. task["policy"] \in TaskType /\ Shape(task["policy"], rows)
    BY <1>1 DEF Types, Shapes
  <2>2. w \in TaskType
    BY <2>1 DEF TaskType, PC
  <2>3. /\ w.pc = "gate" /\ w.port = task["policy"].port /\ w.kind = task["policy"].kind
        /\ w.due = task["policy"].due /\ w.row = task["policy"].row
    BY <2>1 DEF TaskType
  <2> HIDE DEF w
  <2>4. Shape(w, rows)
    BY <1>1, <2>1, <2>3 DEF Shape, ApplyShape, ReleaseShape, PassShape
  <2> QED BY <1>1, <1>3, <2>2, <2>4, TypesByTask DEF Types
<1>4. CASE Continue("policy")
  BY <1>1, <1>4, RestFacts, TypesByTask DEF Types
<1> QED BY <1>2, <1>3, <1>4

(* The settings and the switch's row change. *)
Settings == \/ SetKillSwitch \/ SetOptIn \/ RemoveSwitch
            \/ \E m \in {"off", "simulate", "active"} : SetMode(m)

LEMMA BySettings ==
    ASSUME Types, Shapes, Settings
    PROVE  /\ Types' /\ Shapes' /\ UNCHANGED <<sw, rows, task>>
           /\ conf'.present => conf.present
           /\ lost' = lost
<1>1. UNCHANGED <<sw, rows, task, lost>> /\ Trouble
  BY DEF Settings, SetKillSwitch, SetOptIn, RemoveSwitch, SetMode
<1>2. conf' \in ConfType /\ (conf'.present => conf.present)
  <2>1. conf \in ConfType
    BY DEF Types
  <2>2. CASE SetKillSwitch
    BY <2>1, <2>2 DEF SetKillSwitch, ConfType
  <2>3. CASE SetOptIn
    BY <2>1, <2>3 DEF SetOptIn, ConfType
  <2>4. CASE RemoveSwitch
    BY <2>1, <2>4 DEF RemoveSwitch, ConfType
  <2>5. ASSUME NEW m \in {"off", "simulate", "active"}, SetMode(m)
        PROVE  conf' \in ConfType /\ (conf'.present => conf.present)
    BY <2>1, <2>5 DEF SetMode, ConfType
  <2> QED BY <2>2, <2>3, <2>4, <2>5 DEF Settings
<1>3. count' \in Nat
  BY <1>1, TroubleType
<1> QED BY <1>1, <1>2, <1>3, TypesSame DEF Types

LEMMA ByCrash ==
    ASSUME Types, Shapes, Crash
    PROVE  Types' /\ Shapes'
<1>1. /\ task' = [t \in Task |-> Idle] /\ Trouble /\ UNCHANGED <<sw, rows, conf>>
      /\ lost' \subseteq Port
  BY CutOffFacts DEF Crash, Types
<1>2. Shapes'
  BY <1>1, IdleShape DEF Shapes
<1> QED BY <1>1, <1>2, IdleFacts, TroubleType DEF Types

LEMMA AtInit ==
    ASSUME Init PROVE Types /\ Shapes
<1>1. sw \in SwType
  BY DEF Init, SwType, Admin, Vlan
<1>2. RowsOk(rows) /\ Len(rows) \in Nat
  BY DEF Init, RowsOk
<1>3. conf \in ConfType /\ count \in Nat /\ lost \subseteq Port
  BY DEF Init, ConfType
<1>4. Idle.pc = "idle" /\ Idle.due = {} /\ Idle.row = 0
  BY DEF Idle
<1>5. Shape(Idle, rows)
  BY <1>2, <1>4 DEF Shape, ApplyShape, ReleaseShape, PassShape
<1>6. task = [t \in Task |-> Idle]
  BY DEF Init
<1> QED BY <1>1, <1>2, <1>3, <1>5, <1>6, IdleFacts DEF Types, Shapes

-----------------------------------------------------------------------------
(* Accounts *)

LEMMA GrownQuarantine ==
    ASSUME Types, RowsOk(rows'), Grown(rows, rows'), NEW p, NoWayBack(p)
    PROVE  NoWayBack(p)'
<1>1. DOMAIN rows = 1..Len(rows) /\ DOMAIN rows' = 1..Len(rows') /\ Len(rows) \in Nat
      /\ Len(rows') \in Nat
  BY DEF Types, RowsOk
<1>2. PICK i \in DOMAIN rows : /\ rows[i].port = p /\ rows[i].kind = "quarantine"
                               /\ rows[i].orig \in {"quarantine", "none"}
  BY DEF NoWayBack
<1>3. /\ i \in DOMAIN rows' /\ rows'[i].port = p /\ rows'[i].kind = "quarantine"
      /\ rows'[i].orig \in {"quarantine", "none"}
  BY <1>1, <1>2 DEF Grown
<1> QED BY <1>3 DEF NoWayBack

(* One task moves: who answers for a port still does, unless it was that task, a
   row that changed its state, or a row that the task has just undone. *)
LEMMA AnswersKept ==
    ASSUME Types, RowsOk(rows'), Grown(rows, rows'), NEW t \in Task,
           \A u \in Task : u # t => task'[u] = task[u],
           NEW p, NEW k, Answers(p, k),
           task[t].pc \in {"create", "failed"} /\ task[t].port = p /\ task[t].kind = k =>
              Answers(p, k)',
           \A i \in DOMAIN rows : rows[i].state \in Answering /\ ~Undone(i, k) =>
              rows'[i].state \in Answering,
           Undoes(task'[t], k) => \/ ~(rows[task'[t].row].port = p /\ rows[task'[t].row].kind = k)
                                  \/ Undoes(task[t], k) /\ task'[t].row = task[t].row
    PROVE  Answers(p, k)'
<1>1. DOMAIN rows = 1..Len(rows) /\ DOMAIN rows' = 1..Len(rows') /\ Len(rows) \in Nat
      /\ Len(rows') \in Nat
  BY DEF Types, RowsOk
<1>2. ASSUME NEW u \in Task, task[u].port = p, task[u].kind = k, task[u].pc \in {"create", "failed"}
      PROVE  Answers(p, k)'
  <2>1. CASE u = t
    BY <1>2, <2>1
  <2>2. CASE u # t
    <3>1. task'[u] = task[u]
      BY <2>2
    <3> QED BY <1>2, <3>1 DEF Answers
  <2> QED BY <2>1, <2>2
<1>3. ASSUME NEW i \in DOMAIN rows, rows[i].port = p, rows[i].kind = k,
             rows[i].state \in Answering, ~Undone(i, k)
      PROVE  Answers(p, k)'
  <2>1. i \in DOMAIN rows' /\ rows'[i].port = p /\ rows'[i].kind = k /\ rows'[i].state \in Answering
    BY <1>1, <1>3 DEF Grown
  <2>2. ASSUME NEW u \in Task, task'[u].row = i, Undoes(task'[u], k) PROVE FALSE
    <3>1. CASE u = t
      <4>1. Undoes(task[t], k) /\ task[t].row = i
        BY <1>3, <2>2, <3>1
      <4> QED BY <1>3, <4>1 DEF Undone
    <3>2. CASE u # t
      <4>1. task'[u] = task[u]
        BY <3>2
      <4> QED BY <1>3, <2>2, <4>1 DEF Undone
    <3> QED BY <3>1, <3>2
  <2>3. ~Undone(i, k)'
    BY <2>2 DEF Undone
  <2> QED BY <2>1, <2>3 DEF Answers
<1> QED BY <1>2, <1>3 DEF Answers

(* The switch is left alone, and whoever answered still does. *)
LEMMA AccountsKept ==
    ASSUME Types, Accounts, RowsOk(rows'), Grown(rows, rows'), sw' = sw,
           conf'.present => conf.present, lost \subseteq lost',
           \A p \in Port \ lost', k \in Kinds : Answers(p, k) => Answers(p, k)'
    PROVE  Accounts'
<1> SUFFICES ASSUME conf'.present, NEW p \in Port \ lost' PROVE Accounted(p)'
  BY DEF Accounts
<1>1. Accounted(p) /\ conf.present
  BY DEF Accounts
<1>2. Answers(p, "disable") => Answers(p, "disable")'
  BY <1>1 DEF Kinds
<1>3. Answers(p, "quarantine") => Answers(p, "quarantine")'
  BY <1>1 DEF Kinds
<1>4. NoWayBack(p) => NoWayBack(p)'
  BY GrownQuarantine
<1> QED BY <1>1, <1>2, <1>3, <1>4 DEF Accounted

(* A task moves without the switch or the table. *)
LEMMA AccountsQuiet ==
    ASSUME Types, Accounts, NEW t \in Task, \A u \in Task : u # t => task'[u] = task[u],
           UNCHANGED <<sw, rows, conf, count, lost>>, task[t].pc \notin {"create", "failed"},
           task'[t].pc \notin {"revert", "reverted"}
    PROVE  Accounts'
<1>1. RowsOk(rows) /\ Grown(rows, rows)
  BY SameGrown DEF Types
<1>2. \A k : ~Undoes(task'[t], k)
  BY DEF Undoes
<1>3. ASSUME NEW p \in Port, NEW k \in Kinds, Answers(p, k) PROVE Answers(p, k)'
  BY <1>1, <1>2, <1>3, AnswersKept
<1> QED BY <1>1, <1>3, AccountsKept

(* On a switch that was removed nothing is claimed. *)
LEMMA AccountsRemoved ==
    ASSUME ~conf'.present
    PROVE  Accounts'
  BY DEF Accounts

(* Tasks are cut off: the rows answer as before, or for more, and the ports that only
   such a task answered for are lost. *)
LEMMA AccountsCut ==
    ASSUME Types, Accounts, UNCHANGED <<sw, rows, conf>>, NEW T \in SUBSET Task,
           \A u \in Task \ T : task'[u] = task[u],
           \A u \in T : \A k : ~Undoes(task'[u], k),
           lost' = lost \cup CutOff(T)
    PROVE  Accounts'
<1>1. RowsOk(rows') /\ Grown(rows, rows')
  BY SameGrown DEF Types
<1>2. ASSUME NEW p \in Port \ lost', NEW k, Answers(p, k) PROVE Answers(p, k)'
  <2>1. \A i : Undone(i, k)' => Undone(i, k)
    BY DEF Undone
  <2>2. ASSUME NEW u \in Task, task[u].port = p, task[u].pc \in {"create", "failed"}
        PROVE  task'[u] = task[u]
    BY <2>2 DEF CutOff
  <2> QED BY <1>2, <2>1, <2>2 DEF Answers
<1> QED BY <1>1, <1>2, AccountsKept

(* One SNMP request, answered or not: what it takes away the task answers for, and
   what it brings back only the row it reverts answered for. *)
LEMMA AccountsSwitch ==
    ASSUME Types, Shapes, Accounts, NEW t \in Task, Snmp(t),
           \A u \in Task : u # t => task'[u] = task[u],
           UNCHANGED <<rows, conf, lost>>,
           sw' = sw \/ sw' = Written(task[t]),
           task'[t].row = task[t].row, task'[t].port = task[t].port, task'[t].kind = task[t].kind,
           Head(task[t].todo) \in {"setDown", "setQuarantine"} => task'[t].pc \in {"create", "failed"},
           \A k : Undoes(task'[t], k) => task[t].pc = "revert" /\ sw' = Written(task[t])
    PROVE  Accounts'
<1> DEFINE q == task[t]
<1> SUFFICES ASSUME conf'.present, NEW p \in Port \ lost PROVE Accounted(p)'
  BY DEF Accounts
<1>1. Accounted(p)
  BY DEF Accounts
<1>2. RowsOk(rows') /\ Grown(rows, rows') /\ q.pc \in {"snmp", "revert"}
  BY SameGrown DEF Types, Snmp
<1>3. NoWayBack(p) => NoWayBack(p)'
  BY <1>2, GrownQuarantine
<1>4. /\ q \in TaskType /\ q.port \in Port /\ q.kind \in Kinds /\ q.todo # <<>>
      /\ Head(q.todo) \in Step /\ (Head(q.todo) = "restorePvid" => q.orig \in Vlan \cup {"none"})
      /\ q.pc = "snmp" => q.todo = ApplyScript[q.kind] \/ q.todo \in ApplyRest[q.kind]
      /\ q.pc = "revert" => /\ q.todo = ReleaseScript[q.kind] \/ q.todo \in ReleaseRest[q.kind]
                            /\ q.row \in DOMAIN rows /\ q.port = rows[q.row].port
                            /\ q.kind = rows[q.row].kind /\ q.orig = rows[q.row].orig
  BY SnmpFacts
<1>5. /\ q.pc = "snmp" => Head(q.todo) \notin {"restoreAdmin", "restorePvid"}
      /\ q.pc = "snmp" /\ Head(q.todo) = "setDown" => q.kind = "disable"
      /\ q.pc = "snmp" /\ Head(q.todo) = "setQuarantine" => q.kind = "quarantine"
  BY <1>4, ApplyRestFacts
<1>6. /\ q.pc = "revert" => Head(q.todo) \notin {"setDown", "setQuarantine"}
      /\ q.pc = "revert" => (Head(q.todo) = "restoreAdmin" <=> q.kind = "disable")
      /\ q.pc = "revert" => (Head(q.todo) = "restorePvid" <=> q.kind = "quarantine" /\ q.todo = ReleaseScript[q.kind])
  BY <1>4, ReleaseRestFacts
<1>7. /\ \A x \in Port : x # q.port => /\ Written(q).admin[x] = sw.admin[x]
                                       /\ Written(q).pvid[x] = sw.pvid[x]
      /\ Head(q.todo) # "setDown" /\ Written(q).admin[q.port] = "down" =>
            sw.admin[q.port] = "down" /\ Head(q.todo) # "restoreAdmin"
      /\ Head(q.todo) # "setQuarantine" /\ Written(q).pvid[q.port] = "quarantine" =>
            IF Head(q.todo) = "restorePvid" THEN q.orig \in {"quarantine", "none"}
            ELSE sw.pvid[q.port] = "quarantine"
  BY <1>4, WrittenFacts
<1>8. ASSUME NEW k, Answers(p, k),
             Undoes(task'[t], k) => p # q.port \/ q.kind # k \/ Undoes(q, k)
      PROVE  Answers(p, k)'
  <2>1. Undoes(task'[t], k) => \/ ~(rows[task'[t].row].port = p /\ rows[task'[t].row].kind = k)
                               \/ Undoes(q, k) /\ task'[t].row = q.row
    <3> HIDE DEF q
    <3> QED BY <1>4, <1>8 DEF q
  <2>2. q.pc \notin {"create", "failed"}
    BY <1>2
  <2> QED BY <1>2, <1>8, <2>1, <2>2, AnswersKept
<1>9. CASE p # q.port
  <2>1. sw'.admin[p] = sw.admin[p] /\ sw'.pvid[p] = sw.pvid[p]
    BY <1>7, <1>9
  <2>2. Answers(p, "disable") => Answers(p, "disable")'
    BY <1>8, <1>9
  <2>3. Answers(p, "quarantine") => Answers(p, "quarantine")'
    BY <1>8, <1>9
  <2> QED BY <1>1, <1>3, <2>1, <2>2, <2>3 DEF Accounted
<1>10. CASE p = q.port
  <2>1. ASSUME sw'.admin[p] = "down" PROVE Answers(p, "disable")'
    <3>1. CASE Head(q.todo) = "setDown"
      <4>1. task'[t].port = p /\ task'[t].kind = "disable" /\ task'[t].pc \in {"create", "failed"}
        BY <1>2, <1>5, <1>6, <1>10, <3>1
      <4> QED BY <4>1 DEF Answers
    <3>2. CASE Head(q.todo) # "setDown"
      <4>1. sw.admin[p] = "down" /\ (sw' = Written(q) => Head(q.todo) # "restoreAdmin")
        BY <1>7, <1>10, <2>1, <3>2
      <4>2. Answers(p, "disable")
        BY <1>1, <4>1 DEF Accounted
      <4>3. Undoes(task'[t], "disable") => q.kind # "disable"
        BY <1>6, <4>1
      <4> QED BY <1>8, <4>2, <4>3
    <3> QED BY <3>1, <3>2
  <2>2. ASSUME sw'.pvid[p] = "quarantine" PROVE Answers(p, "quarantine")' \/ NoWayBack(p)'
    <3>1. CASE Head(q.todo) = "setQuarantine"
      <4>1. task'[t].port = p /\ task'[t].kind = "quarantine" /\ task'[t].pc \in {"create", "failed"}
        BY <1>2, <1>5, <1>6, <1>10, <3>1
      <4> QED BY <4>1 DEF Answers
    <3>2. CASE Head(q.todo) = "restorePvid" /\ sw' = Written(q)
      <4>1. q.orig \in {"quarantine", "none"} /\ q.pc = "revert"
        BY <1>2, <1>5, <1>7, <1>10, <2>2, <3>2
      <4>3. q.kind = "quarantine"
        BY <1>6, <3>2, <4>1
      <4>2. NoWayBack(p)
        BY <1>4, <1>10, <4>1, <4>3 DEF NoWayBack
      <4> QED BY <1>3, <4>2
    <3>3. CASE Head(q.todo) # "setQuarantine" /\ ~(Head(q.todo) = "restorePvid" /\ sw' = Written(q))
      <4>1. sw.pvid[p] = "quarantine"
        BY <1>7, <1>10, <2>2, <3>3
      <4>2. Answers(p, "quarantine") \/ NoWayBack(p)
        BY <1>1, <4>1 DEF Accounted
      <4>3. Undoes(task'[t], "quarantine") => q.kind # "quarantine" \/ Undoes(q, "quarantine")
        <5> SUFFICES ASSUME Undoes(task'[t], "quarantine"), q.kind = "quarantine"
                     PROVE  Undoes(q, "quarantine")
          OBVIOUS
        <5>1. q.pc = "revert" /\ Head(q.todo) # "restorePvid"
          BY <3>3
        <5> QED BY <1>6, <5>1 DEF Undoes
      <4> QED BY <1>3, <1>8, <4>2, <4>3
    <3> QED BY <3>1, <3>2, <3>3
  <2> QED BY <2>1, <2>2 DEF Accounted
<1> QED BY <1>9, <1>10

LEMMA AccountsSnmpOk ==
    ASSUME Types, Shapes, Accounts, NEW t \in Task, SnmpOk(t)
    PROVE  Accounts'
<1>1. /\ Snmp(t) /\ task' = [task EXCEPT ![t] = Answered(t)] /\ UNCHANGED <<rows, conf, count, lost>>
      /\ sw' = Written(task[t]) /\ task[t].pc \in {"snmp", "revert"}
  BY DEF SnmpOk, Answered, Snmp
<1>2. task'[t] = Answered(t) /\ \A u \in Task : u # t => task'[u] = task[u]
  BY <1>1 DEF Types
<1>3. /\ Answered(t).row = task[t].row /\ Answered(t).port = task[t].port
      /\ Answered(t).kind = task[t].kind
      /\ Answered(t).pc = IF Tail(task[t].todo) # <<>> THEN task[t].pc
                          ELSE IF task[t].pc = "snmp" THEN "create" ELSE "reverted"
  BY <1>1, AnsweredFacts
<1>4. Head(task[t].todo) \in {"setDown", "setQuarantine"} => task'[t].pc = "create"
  <2>1. task[t].pc = "snmp" => \/ Head(task[t].todo) \notin {"setDown", "setQuarantine"}
                               \/ Tail(task[t].todo) = <<>>
    BY <1>1, SnmpFacts, ApplyRestFacts
  <2>2. task[t].pc = "revert" => Head(task[t].todo) \notin {"setDown", "setQuarantine"}
    BY <1>1, SnmpFacts, ReleaseRestFacts
  <2> QED BY <1>1, <1>2, <1>3, <2>1, <2>2
<1>5. \A k : Undoes(task'[t], k) => task[t].pc = "revert"
  BY <1>1, <1>2, <1>3 DEF Undoes
<1> QED BY <1>1, <1>2, <1>3, <1>4, <1>5, AccountsSwitch

LEMMA AccountsSnmpErr ==
    ASSUME Types, Shapes, Accounts, NEW t \in Task, NEW landed \in BOOLEAN, SnmpErr(t, landed)
    PROVE  Accounts'
<1>1. /\ Snmp(t) /\ UNCHANGED <<rows, conf, lost>> /\ Trouble
      /\ sw' = sw \/ sw' = Written(task[t])
      /\ task[t].pc \in {"snmp", "revert"}
  BY DEF SnmpErr, Snmp
<1>2. task' = [task EXCEPT ![t] = Failed(t)]
  BY DEF SnmpErr, Failed, Types
<1>3. task'[t] = Failed(t) /\ \A u \in Task : u # t => task'[u] = task[u]
  BY <1>2 DEF Types
<1>4. /\ Failed(t).row = task[t].row /\ Failed(t).port = task[t].port
      /\ Failed(t).kind = task[t].kind
      /\ Failed(t).pc = IF task[t].pc = "snmp" THEN "failed" ELSE "revert_failed"
  BY <1>1, FailedFacts
<1>5. Head(task[t].todo) \in {"setDown", "setQuarantine"} => task'[t].pc = "failed"
  <2>1. task[t].pc = "revert" => Head(task[t].todo) \notin {"setDown", "setQuarantine"}
    BY <1>1, SnmpFacts, ReleaseRestFacts
  <2> QED BY <1>1, <1>3, <1>4, <2>1
<1>6. \A k : ~Undoes(task'[t], k)
  BY <1>3, <1>4 DEF Undoes
<1> QED BY <1>1, <1>3, <1>4, <1>5, <1>6, AccountsSwitch

LEMMA ContinueFacts ==
    ASSUME Types, Shapes, NEW t \in Task, Continue(t)
    PROVE  /\ \A u \in Task : u # t => task'[u] = task[u]
           /\ task'[t].pc \in {"idle", "match", "release"}
           /\ \A k : ~Undoes(task'[t], k)
<1>1. task' = [task EXCEPT ![t] = Rest(t)] /\ Rest(t).pc \in {"idle", "match", "release"}
  BY RestFacts
<1>2. task'[t] = Rest(t) /\ \A u \in Task : u # t => task'[u] = task[u]
  BY <1>1 DEF Types
<1> QED BY <1>1, <1>2 DEF Undoes

(* The row takes over from the task that writes it. *)
LEMMA AccountsCreate ==
    ASSUME Types, Shapes, Accounts, NEW t \in Task, Create(t)
    PROVE  Accounts'
<1>1. PICK s : s = IF task[t].pc = "create" THEN "active" ELSE "apply_failed"
  OBVIOUS
<1>2. PICK r : r = NewRow(task[t], s)
  OBVIOUS
<1>3. /\ task[t].pc \in {"create", "failed"} /\ rows' = Append(rows, r)
      /\ Continue(t) /\ UNCHANGED <<sw, conf, count, lost>>
  BY <1>1, <1>2 DEF Create
<1>4. /\ RowShape(r) /\ r.port = task[t].port /\ r.kind = task[t].kind /\ r.state \in Answering
  BY <1>1, <1>2, <1>3, NewRowFacts DEF Answering, InEffectState
<1>5. /\ RowsOk(rows') /\ Grown(rows, rows') /\ Len(rows') = Len(rows) + 1
      /\ rows'[Len(rows) + 1] = r /\ \A i \in DOMAIN rows : rows'[i] = rows[i]
  BY <1>3, <1>4, Appended DEF Types
<1>6. /\ \A u \in Task : u # t => task'[u] = task[u]
      /\ \A k : ~Undoes(task'[t], k)
  BY <1>3, ContinueFacts
<1>7. Len(rows) \in Nat /\ DOMAIN rows = 1..Len(rows) /\ DOMAIN rows' = 1..(Len(rows) + 1)
  BY <1>5 DEF Types, RowsOk
<1>8. ASSUME NEW p, NEW k, task[t].port = p, task[t].kind = k PROVE Answers(p, k)'
  <2>1. PICK n : n = Len(rows) + 1
    OBVIOUS
  <2>2. ASSUME NEW u \in Task, task'[u].row = n, Undoes(task'[u], k) PROVE FALSE
    <3>1. u # t /\ task'[u] = task[u]
      BY <1>6, <2>2
    <3>2. task[u].pc \in {"revert", "reverted"} /\ Shape(task[u], rows)
      BY <2>2, <3>1 DEF Undoes, Shapes
    <3>3. task[u].row \in DOMAIN rows
      BY <3>2 DEF Shape, ReleaseShape
    <3> QED BY <1>7, <2>1, <2>2, <3>1, <3>3
  <2>3. ~Undone(n, k)'
    BY <2>2 DEF Undone
  <2>4. n \in DOMAIN rows' /\ rows'[n] = r
    BY <1>5, <1>7, <2>1
  <2> QED BY <1>4, <1>8, <2>3, <2>4 DEF Answers
<1>9. ASSUME NEW p \in Port, NEW k \in Kinds, Answers(p, k) PROVE Answers(p, k)'
  BY <1>5, <1>6, <1>8, <1>9, AnswersKept
<1> QED BY <1>3, <1>5, <1>9, AccountsKept

(* A row is marked reverted only after its port has been brought back. *)
LEMMA AccountsMark ==
    ASSUME Types, Shapes, Accounts, NEW t \in Task, Mark(t)
    PROVE  Accounts'
<1>1. PICK i : i = task[t].row
  OBVIOUS
<1>2. PICK s : s = task[t].pc
  OBVIOUS
<1>3. /\ s \in {"reverted", "revert_failed"} /\ rows' = Marked(i, s)
      /\ Continue(t) /\ UNCHANGED <<sw, conf, count, lost>>
  BY <1>1, <1>2 DEF Mark
<1>4. i \in DOMAIN rows
  BY <1>1, <1>2, <1>3 DEF Shapes, Shape, ReleaseShape
<1>5. /\ RowsOk(rows') /\ Grown(rows, rows') /\ rows'[i].state = s
      /\ \A j \in DOMAIN rows : j # i => rows'[j] = rows[j]
  BY <1>3, <1>4, MarkedFacts
<1>6. /\ \A u \in Task : u # t => task'[u] = task[u]
      /\ \A k : ~Undoes(task'[t], k)
  BY <1>3, ContinueFacts
<1>7. ASSUME NEW j \in DOMAIN rows, NEW k, rows[j].state \in Answering, ~Undone(j, k)
      PROVE  rows'[j].state \in Answering
  <2>1. CASE j # i
    BY <1>5, <1>7, <2>1
  <2>2. CASE j = i
    <3>1. s # "reverted"
      BY <1>1, <1>2, <1>7, <2>2 DEF Undone, Undoes
    <3> QED BY <1>3, <1>5, <2>2, <3>1 DEF Answering, InEffectState
  <2> QED BY <2>1, <2>2
<1>8. task[t].pc \notin {"create", "failed"}
  BY <1>2, <1>3
<1>9. ASSUME NEW p \in Port, NEW k \in Kinds, Answers(p, k) PROVE Answers(p, k)'
  BY <1>5, <1>6, <1>7, <1>8, <1>9, AnswersKept
<1> QED BY <1>3, <1>5, <1>9, AccountsKept

LEMMA AccountsFind ==
    ASSUME Types, Shapes, Accounts, NEW t \in Task, Find(t)
    PROVE  Accounts'
<1>1. UNCHANGED <<sw, conf, count, lost>> /\ task[t].pc = "find" /\ task[t] \in TaskType
      /\ Shape(task[t], rows)
  BY DEF Find, Types, Shapes
<1>2. CASE ~conf.present
  BY <1>1, <1>2, AccountsRemoved
<1>3. CASE conf.present
  <2>1. PICK w : w = [task[t] EXCEPT !.pc = "revert", !.todo = ReleaseScript[task[t].kind]]
    OBVIOUS
  <2>2. UNCHANGED rows /\ task' = [task EXCEPT ![t] = w]
    BY <1>3, <2>1 DEF Find, Types
  <2>3. task'[t] = w /\ \A u \in Task : u # t => task'[u] = task[u]
    BY <2>2 DEF Types
  <2>4. /\ w.pc = "revert" /\ w.row = task[t].row /\ w.kind = task[t].kind
        /\ w.todo = ReleaseScript[w.kind]
    BY <1>1, <2>1 DEF TaskType
  <2>5. rows[w.row].kind = w.kind
    BY <1>1, <2>4 DEF Shape, ReleaseShape
  <2>6. ASSUME NEW k, Undoes(w, k) PROVE rows[w.row].kind # k
    BY <2>4, <2>5, <2>6 DEF Undoes
  <2>7. RowsOk(rows') /\ Grown(rows, rows')
    BY <2>2, SameGrown DEF Types
  <2>8. ASSUME NEW p \in Port, NEW k \in Kinds, Answers(p, k) PROVE Answers(p, k)'
    BY <1>1, <2>2, <2>3, <2>6, <2>7, <2>8, AnswersKept
  <2> QED BY <1>1, <2>7, <2>8, AccountsKept
<1> QED BY <1>2, <1>3

(* Nothing an answer looks at changes. *)
LEMMA AccountsSame ==
    ASSUME Types, Accounts, UNCHANGED <<sw, task>>, DOMAIN rows' = DOMAIN rows,
           \A j \in DOMAIN rows : /\ rows'[j].port = rows[j].port
                                  /\ rows'[j].kind = rows[j].kind
                                  /\ rows'[j].orig = rows[j].orig
                                  /\ rows'[j].state = rows[j].state,
           conf'.present => conf.present, lost' = lost
    PROVE  Accounts'
<1> SUFFICES ASSUME conf'.present, NEW p \in Port \ lost PROVE Accounted(p)'
  BY DEF Accounts
<1>1. Accounted(p)
  BY DEF Accounts
<1>2. NoWayBack(p) => NoWayBack(p)'
  BY DEF NoWayBack
<1>3. ASSUME NEW k, Answers(p, k) PROVE Answers(p, k)'
  <2>1. \A i : Undone(i, k)' => Undone(i, k)
    BY DEF Undone
  <2> QED BY <1>3, <2>1 DEF Answers
<1> QED BY <1>1, <1>2, <1>3 DEF Accounted

(* Requests and sweeps up to their first SNMP request. *)
Prepares ==
    \/ \E t \in Operator, p \in Port, k \in Kind, b \in BOOLEAN : RequestApply(t, p, k, b)
    \/ \E t \in Operator : \E i \in DOMAIN rows : RequestRelease(t, i)
    \/ RevertPass \/ RevertNext \/ (\E n \in 0..Len(rows) : PolicyPass(n))
    \/ PolicyMatch \/ PolicyCooldown
    \/ \E t \in Task : Gate(t) \/ Check(t)

LEMMA AccountsPrepares ==
    ASSUME Types, Shapes, Accounts, Prepares
    PROVE  Accounts'
<1>0. task \in [Task -> TaskType] /\ Operator \subseteq Task /\ "revert" \in Task /\ "policy" \in Task
  BY DEF Types, Task
<1>a. ASSUME NEW t \in Task, NEW w, task' = [task EXCEPT ![t] = w],
             w.pc \notin {"revert", "reverted"}, UNCHANGED <<sw, rows, conf, count, lost>>,
             task[t].pc \notin {"create", "failed"}
      PROVE  Accounts'
  <2>1. task'[t] = w /\ \A u \in Task : u # t => task'[u] = task[u]
    BY <1>0, <1>a
  <2> QED BY <1>a, <2>1, AccountsQuiet
<1>b. ASSUME NEW t \in Task, Continue(t), UNCHANGED <<sw, rows, conf, count, lost>>,
             task[t].pc \notin {"create", "failed"}
      PROVE  Accounts'
  BY <1>b, ContinueFacts, AccountsQuiet
<1>1. ASSUME NEW t \in Operator, NEW p \in Port, NEW k \in Kind, NEW b \in BOOLEAN,
             RequestApply(t, p, k, b)
      PROVE  Accounts'
  <2>1. PICK w : w = [Idle EXCEPT !.pc = "gate", !.port = p, !.kind = k, !.timed = b,
                                  !.optin = conf.optin]
    OBVIOUS
  <2>2. w.pc = "gate"
    BY <2>1 DEF Idle
  <2>3. task' = [task EXCEPT ![t] = w] /\ task[t].pc = "idle" /\ UNCHANGED <<sw, rows, conf, count, lost>>
    BY <1>1, <2>1 DEF RequestApply
  <2> QED BY <1>0, <1>a, <2>2, <2>3
<1>2. ASSUME NEW t \in Operator, NEW i \in DOMAIN rows, RequestRelease(t, i) PROVE Accounts'
  <2>1. PICK w : w = [Idle EXCEPT !.pc = "find", !.row = i, !.port = rows[i].port,
                                  !.kind = rows[i].kind, !.orig = rows[i].orig]
    OBVIOUS
  <2>2. w.pc = "find"
    BY <2>1 DEF Idle
  <2>3. task' = [task EXCEPT ![t] = w] /\ task[t].pc = "idle" /\ UNCHANGED <<sw, rows, conf, count, lost>>
    BY <1>2, <2>1 DEF RequestRelease
  <2> QED BY <1>0, <1>a, <2>2, <2>3
<1>3. CASE RevertPass
  <2>1. PICK w : w = [Idle EXCEPT !.pc = "release", !.due = {i \in DOMAIN rows : Due(i)}]
    OBVIOUS
  <2>2. w.pc = "release"
    BY <2>1 DEF Idle
  <2>3. /\ task' = [task EXCEPT !["revert"] = w] /\ task["revert"].pc = "idle"
        /\ UNCHANGED <<sw, rows, conf, count, lost>>
    BY <1>3, <2>1 DEF RevertPass
  <2> QED BY <1>0, <1>a, <2>2, <2>3
<1>4. CASE RevertNext
  <2>1. PICK i : task' = [task EXCEPT !["revert"] =
           [task["revert"] EXCEPT !.pc = "find", !.due = task["revert"].due \ {i}, !.row = i,
                                  !.port = rows[i].port, !.kind = rows[i].kind, !.orig = rows[i].orig]]
    BY <1>4 DEF RevertNext
  <2>2. PICK w : w = [task["revert"] EXCEPT !.pc = "find", !.due = task["revert"].due \ {i},
                          !.row = i, !.port = rows[i].port, !.kind = rows[i].kind,
                          !.orig = rows[i].orig]
    OBVIOUS
  <2>3. w.pc = "find"
    BY <1>0, <2>2 DEF TaskType
  <2>4. task["revert"].pc = "release" /\ UNCHANGED <<sw, rows, conf, count, lost>>
    BY <1>4 DEF RevertNext
  <2> QED BY <1>0, <1>a, <2>1, <2>2, <2>3, <2>4
<1>5. ASSUME NEW n \in 0..Len(rows), PolicyPass(n) PROVE Accounts'
  <2>1. PICK w : w = [Idle EXCEPT !.pc = "match", !.left = Devices,
                                  !.armed = conf.mode = "active" /\ conf.enabled, !.old = n]
    OBVIOUS
  <2>2. w.pc = "match"
    BY <2>1 DEF Idle
  <2>3. /\ task' = [task EXCEPT !["policy"] = w] /\ task["policy"].pc = "idle"
        /\ UNCHANGED <<sw, rows, conf, count, lost>>
    BY <1>5, <2>1 DEF PolicyPass
  <2> QED BY <1>0, <1>a, <2>2, <2>3
<1>6. CASE PolicyMatch
  <2>1. PICK w : task' = [task EXCEPT !["policy"] = w] /\ w.pc \in {"idle", "match", "cooldown"}
    BY <1>6, MatchFacts
  <2>2. task["policy"].pc = "match" /\ UNCHANGED <<sw, rows, conf, count, lost>>
    BY <1>6 DEF PolicyMatch
  <2> QED BY <1>0, <1>a, <2>1, <2>2
<1>7. CASE PolicyCooldown
  <2>1. task["policy"].pc = "cooldown" /\ UNCHANGED <<sw, rows, conf, count, lost>>
    BY <1>7 DEF PolicyCooldown
  <2>2. PICK w : w = [task["policy"] EXCEPT !.pc = "gate"]
    OBVIOUS
  <2>3. w.pc = "gate"
    BY <1>0, <2>2 DEF TaskType
  <2>4. task' = [task EXCEPT !["policy"] = w] \/ Continue("policy")
    BY <1>0, <1>7, <2>2 DEF PolicyCooldown
  <2> QED BY <1>0, <1>a, <1>b, <2>1, <2>3, <2>4
<1>8. ASSUME NEW t \in Task, Gate(t) PROVE Accounts'
  <2>1. task[t].pc = "gate" /\ UNCHANGED <<sw, rows, conf, count, lost>>
    BY <1>8 DEF Gate
  <2>2. PICK w : w = [task[t] EXCEPT !.pc = "check", !.optin = FALSE]
    OBVIOUS
  <2>3. w.pc = "check"
    BY <1>0, <2>2 DEF TaskType
  <2>4. task' = [task EXCEPT ![t] = w] \/ Continue(t)
    BY <1>0, <1>8, <2>2 DEF Gate
  <2> QED BY <1>a, <1>b, <2>1, <2>3, <2>4
<1>9. ASSUME NEW t \in Task, Check(t) PROVE Accounts'
  <2>1. task[t].pc = "check" /\ UNCHANGED <<sw, rows, conf, count, lost>>
    BY <1>9 DEF Check
  <2>2. PICK w : w = [task[t] EXCEPT !.pc = "snmp", !.todo = ApplyScript[task[t].kind]]
    OBVIOUS
  <2>3. w.pc = "snmp"
    BY <1>0, <2>2 DEF TaskType
  <2>4. task' = [task EXCEPT ![t] = w] \/ Continue(t)
    BY <1>0, <1>9, <2>2 DEF Check
  <2> QED BY <1>a, <1>b, <2>1, <2>3, <2>4
<1> QED BY <1>1, <1>2, <1>3, <1>4, <1>5, <1>6, <1>7, <1>8, <1>9 DEF Prepares

LEMMA ByPrepares ==
    ASSUME Types, Shapes, Prepares
    PROVE  Types' /\ Shapes'
  BY ByRequestApply, ByRequestRelease, ByRevertPass, ByRevertNext, ByPolicyPass, ByPolicyMatch,
     ByPolicyCooldown, ByGate, ByCheck DEF Prepares

-----------------------------------------------------------------------------
LEMMA InvStep ==
    ASSUME Inv, [Next]_vars
    PROVE  Inv'
<1> USE DEF Inv
<1>1. CASE Prepares
  BY <1>1, ByPrepares, AccountsPrepares
<1>2. ASSUME NEW t \in Task, SnmpOk(t) PROVE Inv'
  BY <1>2, BySnmpOk, AccountsSnmpOk
<1>3. ASSUME NEW t \in Task, NEW b \in BOOLEAN, SnmpErr(t, b) PROVE Inv'
  BY <1>3, BySnmpErr, AccountsSnmpErr
<1>4. ASSUME NEW t \in Task, Create(t) PROVE Inv'
  BY <1>4, ByCreate, AccountsCreate
<1>5. ASSUME NEW t \in Task, Find(t) PROVE Inv'
  BY <1>5, ByFind, AccountsFind
<1>6. ASSUME NEW t \in Task, Mark(t) PROVE Inv'
  BY <1>6, ByMark, AccountsMark
<1>7. ASSUME NEW t \in Task, DbError(t) PROVE Inv'
  <2>1. Continue(t) /\ UNCHANGED <<sw, rows, conf>> /\ lost' = lost \cup CutOff({t})
    BY <1>7 DEF DbError
  <2>2. (\A u \in Task \ {t} : task'[u] = task[u]) /\ \A k : ~Undoes(task'[t], k)
    BY <2>1, ContinueFacts
  <2>3. Accounts'
    BY <2>1, <2>2, AccountsCut
  <2> QED BY <1>7, <2>3, ByDbError
<1>8. CASE Crash
  <2>1. /\ task' = [u \in Task |-> Idle] /\ UNCHANGED <<sw, rows, conf>>
        /\ lost' = lost \cup CutOff(Task)
    BY <1>8 DEF Crash
  <2>2. \A u \in Task : \A k : ~Undoes(task'[u], k)
    BY <2>1, IdleFacts DEF Undoes
  <2>3. Accounts'
    BY <2>1, <2>2, AccountsCut
  <2> QED BY <1>8, <2>3, ByCrash
<1>12. ASSUME NEW t \in Operator, ClientGone(t) PROVE Inv'
  <2>1. /\ task' = [task EXCEPT ![t] = Idle] /\ UNCHANGED <<sw, rows, conf>>
        /\ lost' = lost \cup CutOff({t}) /\ t \in Task
    BY <1>12 DEF ClientGone, Task
  <2>2. (\A u \in Task \ {t} : task'[u] = task[u]) /\ task'[t] = Idle
    BY <2>1 DEF Types
  <2>3. \A k : ~Undoes(task'[t], k)
    BY <2>2, IdleFacts DEF Undoes
  <2>4. Accounts'
    BY <2>1, <2>2, <2>3, AccountsCut
  <2> QED BY <1>12, <2>4, ByClientGone
<1>9. ASSUME NEW i \in DOMAIN rows, MakePermanent(i) \/ Expire(i) PROVE Inv'
  <2>1. PICK m \in {"never", "due"} : rows' = [rows EXCEPT ![i].timer = m]
    BY <1>9 DEF MakePermanent, Expire
  <2>2. UNCHANGED <<sw, conf, task, count, lost>>
    BY <1>9 DEF MakePermanent, Expire
  <2>3. /\ Types' /\ Shapes' /\ DOMAIN rows' = DOMAIN rows
        /\ \A j \in DOMAIN rows : /\ rows'[j].port = rows[j].port
                                  /\ rows'[j].kind = rows[j].kind
                                  /\ rows'[j].orig = rows[j].orig
                                  /\ rows'[j].state = rows[j].state
    BY <2>1, <2>2, TimerFacts
  <2> QED BY <2>2, <2>3, AccountsSame
<1>10. CASE Settings
  <2>1. /\ Types' /\ Shapes' /\ UNCHANGED <<sw, rows, task>>
        /\ conf'.present => conf.present
        /\ lost' = lost
    BY <1>10, BySettings
  <2> QED BY <2>1, AccountsSame
<1>11. CASE UNCHANGED vars
  <2>1. UNCHANGED <<sw, rows, conf, task, count, lost>>
    BY <1>11 DEF vars
  <2>2. Types' /\ Shapes'
    BY <2>1, TypesSame DEF Types
  <2> QED BY <2>1, <2>2, AccountsSame
<1> QED
  BY <1>1, <1>2, <1>3, <1>4, <1>5, <1>6, <1>7, <1>8, <1>9, <1>10, <1>11, <1>12
     DEF Next, TaskStep, Prepares, Settings

LEMMA InvInit == Init => Inv
<1> SUFFICES ASSUME Init PROVE Inv
  OBVIOUS
<1>1. Types /\ Shapes
  BY AtInit
<1>2. \A p \in Port : sw.admin[p] = "up" /\ sw.pvid[p] = "home"
  BY DEF Init
<1>3. Accounts
  BY <1>2 DEF Accounts, Accounted
<1> QED BY <1>1, <1>3 DEF Inv

(* The inductive invariant: what each task knows, and who answers for each port. *)
THEOREM InvAlways == Spec => []Inv
<1>1. Inv /\ [Next]_vars => Inv'
  BY InvStep
<1> QED BY InvInit, <1>1, PTL DEF Spec

(* Every variable of the enforcement keeps its type, and a task holds no row that
   the table does not have. *)
THEOREM TypeCorrect == Spec => []TypeOK
<1>1. Inv => TypeOK
  <2> SUFFICES ASSUME Inv PROVE TypeOK
    OBVIOUS
  <2>1. sw \in SwType /\ conf \in ConfType /\ \A i \in DOMAIN rows : rows[i] \in RowType
    BY DEF Inv, Types, RowsOk, RowShape
  <2>2. \A t \in Task : task[t].pc \in PC
    BY DEF Inv, Types, TaskType
  <2>3. \A t \in Task : task[t].row \in 0..Len(rows)
    BY DEF Inv, Shapes, Shape, PassShape
  <2>4. count \in Nat /\ lost \subseteq Port
    BY DEF Inv, Types
  <2> QED BY <2>1, <2>2, <2>3, <2>4 DEF TypeOK, SwType, ConfType, RowType, Kinds, Orig
<1> QED BY <1>1, InvAlways, PTL

(* A port that is down or quarantined is accounted for, whatever requests, sweeps,
   failures, restarts and changes of settings overlap: an action in effect or a failed
   attempt shows it, or the task that changed it is about to write the row.  The only
   ports that escape are those whose call was cut off before its row was written. *)
THEOREM EnforcedIsAccountedAlways == Spec => []EnforcedIsAccounted
<1>1. Inv => EnforcedIsAccounted
  <2> SUFFICES ASSUME Inv, conf.present, NEW p \in Port \ lost
               PROVE  /\ sw.admin[p] = "down" =>
                            \/ Recording(p, "disable")
                            \/ Shown(p, "disable", InEffectState \cup {"apply_failed"})
                      /\ sw.pvid[p] = "quarantine" =>
                            \/ Recording(p, "quarantine")
                            \/ Shown(p, "quarantine", InEffectState \cup {"apply_failed"})
                            \/ NoWayBack(p)
    BY DEF EnforcedIsAccounted
  <2>1. Accounted(p)
    BY DEF Inv, Accounts
  <2>2. \A k : Answers(p, k) => Recording(p, k) \/ Shown(p, k, InEffectState \cup {"apply_failed"})
    BY DEF Answers, Recording, Shown, Answering
  <2> QED BY <2>1, <2>2 DEF Accounted
<1> QED BY <1>1, InvAlways, PTL
=============================================================================
