------------------------- MODULE InternalTlsProofs -------------------------
(* That the files of the internal CA can be gone on with wherever a stop falls,
   and that a rotation done with care strands no agent, for any number of agents,
   administrators, CAs, certificates and mishaps. *)
EXTENDS InternalTls, TLAPS

(* What is left of a script: one of its ends. *)
Push == <<"push">>
Act8 == <<"caKey", "caCert", "srvKey", "srvCert", "rmCert", "rmKey", "reload", "push">>
Act7 == <<"caCert", "srvKey", "srvCert", "rmCert", "rmKey", "reload", "push">>
Act6 == <<"srvKey", "srvCert", "rmCert", "rmKey", "reload", "push">>
Act5 == <<"srvCert", "rmCert", "rmKey", "reload", "push">>
Act4 == <<"rmCert", "rmKey", "reload", "push">>
Act3 == <<"rmKey", "reload", "push">>
Act2 == <<"reload", "push">>
Beg3 == <<"pendKey", "pendCert", "push">>
Beg2 == <<"pendCert", "push">>
Can3 == <<"rmCert", "rmKey", "push">>
Can2 == <<"rmKey", "push">>
Ren3 == <<"srvKey", "srvCert", "reload">>
Ren2 == <<"srvCert", "reload">>
Ren1 == <<"reload">>
Sta2 == <<"srvKey", "srvCert">>
Sta1 == <<"srvCert">>

TodoOf(op) ==
    CASE op = "activate" -> {Act8, Act7, Act6, Act5, Act4, Act3, Act2, Push}
      [] op = "begin" -> {Beg3, Beg2, Push}
      [] op = "cancel" -> {Can3, Can2, Push}
      [] op = "renew" -> {Ren3, Ren2, Ren1}
      [] op = "startup" -> {Sta2, Sta1}
      [] OTHER -> {Push}

FileStep == StepName \ {"reload", "push"}
Files(w) == w.todo # <<>> /\ Head(w.todo) \in FileStep

(* A task is idle, waits for the lock, only pushes, or is somewhere in its script
   with the pair it works with. *)
TaskShape(w) ==
    \/ w = Idle
    \/ w.op \in Op /\ w.todo = <<>>
    \/ w.op \in Op \cup {"push"} /\ w.todo \in TodoOf(w.op)
         /\ (w.op \in Op => w.ca \in CA /\ w.key \in CA)

Count == [ca : CA, serial : 1..MaxSerial, trouble : 0..MaxTrouble]

TaskType == [op : Op \cup {"none", "push"}, todo : Seq(StepName),
             ca : CA \cup {NoCA}, key : CA \cup {NoCA}]

(* The lock is with the task that has a file to write next. *)
Tasks ==
    /\ task \in [Task -> TaskType]
    /\ \A t \in Task : TaskShape(task[t])
    /\ \A t \in Task : Files(task[t]) <=> lock = t

Disk == [caKey : CA, caCert : CA, pendKey : CA \cup {NoCA}, pendCert : CA \cup {NoCA},
         srvKey : 0..MaxSerial, srvCert : Cert]
Push1 == [st : {"none", "reading", "half", "sent", "applied", "late"}, cas : SUBSET CA]

Data ==
    /\ disk \in Disk /\ caddy \in Cert
    /\ app \in {"up", "starting"} /\ lock \in Task \cup {"free"}
    /\ conn \subseteq Agent
    /\ trust \in [Agent -> SUBSET CA] /\ known \in [Agent -> SUBSET CA]
    /\ push \in [Agent -> [Slot -> Push1]]
    /\ mishap \subseteq {"torn", "unserved", "rushed", "overlap", "split"}
    /\ count \in Count

Shapes == Tasks /\ Data

(* The files, whole but for the pair the holder of the lock is in the middle of.
   CAs are activated in the order they are made. *)
CaOk == disk.caKey = disk.caCert
PendOk == NoCA \in {disk.pendKey, disk.pendCert} \/ disk.pendKey = disk.pendCert
SrvOk == Due(disk) \/ (issued_by(disk.srvCert, disk.caCert) /\ Matched(disk))

Ordered ==
    /\ disk.srvCert.ca <= disk.caCert /\ disk.caCert <= count.ca
    /\ disk.pendCert # NoCA => disk.caCert <= disk.pendCert /\ disk.pendCert <= count.ca

Holding(w, step) ==
    /\ step # "caCert" => CaOk
    /\ step # "pendCert" => PendOk
    /\ step # "srvCert" => SrvOk
    /\ step \in {"caKey", "caCert"} =>
          w.key = w.ca /\ disk.pendCert = w.ca /\ disk.pendKey = w.ca
    /\ step = "caCert" => disk.caKey = w.ca
    /\ step \in {"srvKey", "srvCert"} => w.key = w.ca /\ disk.caCert = w.ca
    /\ step = "srvCert" => disk.srvKey = count.serial
    /\ step \in {"pendKey", "pendCert"} =>
          w.key = w.ca /\ w.ca = count.ca /\ disk.caCert < w.ca /\ disk.pendCert < w.ca
    /\ step = "pendCert" => disk.pendKey = w.ca

Chain ==
    "torn" \notin mishap =>
        /\ Ordered
        /\ lock = "free" => CaOk /\ PendOk /\ SrvOk
        /\ \A t \in Task : lock = t => Holding(task[t], Head(task[t].todo))

(* An active CA that was read for a bundle is the active one or an earlier one. *)
Halves ==
    "torn" \notin mishap =>
        \A h \in Agent, s \in Slot : push[h][s].st = "half" =>
            \A ca \in push[h][s].cas : ca <= disk.caCert

(* What an agent trusts, or is about to. *)
InFlight == {"sent", "applied", "late"}
Trusts(h, ca) ==
    /\ ca \in trust[h]
    /\ \A s \in Slot : push[h][s].st \in InFlight => ca \in push[h][s].cas
Unknown(h, ca) ==
    /\ ca \notin known[h]
    /\ \A s \in Slot : push[h][s].st \in InFlight => ca \notin push[h][s].cas

OnePush(h) ==
    /\ \A s, o \in Slot : push[h][s].st \in InFlight /\ push[h][o].st \in InFlight => s = o
    /\ \A s \in Slot : push[h][s].st = "applied" => trust[h] = push[h][s].cas

Seen(h) ==
    /\ known[h] \subseteq 1..count.ca
    /\ \A s \in Slot : push[h][s].st \in InFlight => push[h][s].cas \subseteq 1..count.ca

TrustOf(h) ==
    /\ OnePush(h) /\ Seen(h)
    /\ Trusts(h, disk.caCert)
    /\ disk.pendCert \in known[h] => Trusts(h, disk.pendCert)
    /\ \A t \in Task : lock = t =>
          /\ Head(task[t].todo) \in {"caKey", "caCert"} => Trusts(h, task[t].ca)
          /\ Head(task[t].todo) \in {"pendKey", "pendCert"} => Unknown(h, task[t].ca)

Trust == mishap \subseteq {"unserved"} => \A h \in Agent : TrustOf(h)

(* Caddy and the server certificate lag behind the active CA only while an
   activation is still going to tell. *)
StillTelling(t) ==
    task[t].op = "activate" /\ task[t].todo # <<>> /\ Head(task[t].todo) \notin {"caKey", "push"}
Served ==
    mishap = {} =>
        /\ issued_by(caddy, disk.caCert) \/ \E t \in Task : StillTelling(t)
        /\ \/ issued_by(disk.srvCert, disk.caCert)
           \/ \E t \in Task : /\ lock = t /\ task[t].op = "activate"
                              /\ Head(task[t].todo) \in {"srvKey", "srvCert"}

Inv == Shapes /\ Chain /\ Halves /\ Trust /\ Served

-----------------------------------------------------------------------------
(* Scripts *)

(* The order of the steps: what comes after each, and that an activation that has
   not come to its push has the reload before it. *)
After(step, rest) ==
    /\ step = "caKey" => rest # <<>> /\ Head(rest) = "caCert"
    /\ step = "caCert" => rest # <<>> /\ Head(rest) = "srvKey"
    /\ step = "srvKey" => rest # <<>> /\ Head(rest) = "srvCert"
    /\ step = "srvCert" => rest = <<>> \/ Head(rest) \in {"rmCert", "reload"}
    /\ step = "rmCert" => rest # <<>> /\ Head(rest) = "rmKey"
    /\ step = "rmKey" => rest # <<>> /\ Head(rest) \in {"reload", "push"}
    /\ step = "pendKey" => rest # <<>> /\ Head(rest) = "pendCert"
    /\ step = "pendCert" => rest # <<>> /\ Head(rest) = "push"
    /\ step = "reload" => rest = <<>> \/ Head(rest) = "push"
    /\ step = "push" => rest = <<>>

(* What is left of a script is again an end of it. *)
LEMMA TodoFacts ==
    ASSUME NEW op \in Op \cup {"push"}, NEW todo \in TodoOf(op)
    PROVE  /\ todo \in Seq(StepName) /\ todo # <<>> /\ Head(todo) \in StepName
           /\ Tail(todo) = <<>> \/ Tail(todo) \in TodoOf(op)
           /\ Len(todo) = 1 <=> Tail(todo) = <<>>
           /\ After(Head(todo), Tail(todo))
<1>1. CASE op = "activate"
  <2>0. todo \in {Act8, Act7, Act6, Act5, Act4, Act3, Act2, Push}
    BY <1>1 DEF TodoOf
  <2>1. CASE todo = Act8
    BY <1>1, <2>1 DEF TodoOf, Act8, Act7, After, StepName
  <2>2. CASE todo = Act7
    BY <1>1, <2>2 DEF TodoOf, Act7, Act6, After, StepName
  <2>3. CASE todo = Act6
    BY <1>1, <2>3 DEF TodoOf, Act6, Act5, After, StepName
  <2>4. CASE todo = Act5
    BY <1>1, <2>4 DEF TodoOf, Act5, Act4, After, StepName
  <2>5. CASE todo = Act4
    BY <1>1, <2>5 DEF TodoOf, Act4, Act3, After, StepName
  <2>6. CASE todo = Act3
    BY <1>1, <2>6 DEF TodoOf, Act3, Act2, After, StepName
  <2>7. CASE todo = Act2
    BY <1>1, <2>7 DEF TodoOf, Act2, Push, After, StepName
  <2>8. CASE todo = Push
    BY <1>1, <2>8 DEF TodoOf, Push, After, StepName
  <2> QED BY <2>0, <2>1, <2>2, <2>3, <2>4, <2>5, <2>6, <2>7, <2>8
<1>2. CASE op = "begin"
  <2>0. todo \in {Beg3, Beg2, Push}
    BY <1>2 DEF TodoOf
  <2>1. CASE todo = Beg3
    BY <1>2, <2>1 DEF TodoOf, Beg3, Beg2, After, StepName
  <2>2. CASE todo = Beg2
    BY <1>2, <2>2 DEF TodoOf, Beg2, Push, After, StepName
  <2>3. CASE todo = Push
    BY <1>2, <2>3 DEF TodoOf, Push, After, StepName
  <2> QED BY <2>0, <2>1, <2>2, <2>3
<1>3. CASE op = "cancel"
  <2>0. todo \in {Can3, Can2, Push}
    BY <1>3 DEF TodoOf
  <2>1. CASE todo = Can3
    BY <1>3, <2>1 DEF TodoOf, Can3, Can2, After, StepName
  <2>2. CASE todo = Can2
    BY <1>3, <2>2 DEF TodoOf, Can2, Push, After, StepName
  <2>3. CASE todo = Push
    BY <1>3, <2>3 DEF TodoOf, Push, After, StepName
  <2> QED BY <2>0, <2>1, <2>2, <2>3
<1>4. CASE op = "renew"
  <2>0. todo \in {Ren3, Ren2, Ren1}
    BY <1>4 DEF TodoOf
  <2>1. CASE todo = Ren3
    BY <1>4, <2>1 DEF TodoOf, Ren3, Ren2, After, StepName
  <2>2. CASE todo = Ren2
    BY <1>4, <2>2 DEF TodoOf, Ren2, Ren1, After, StepName
  <2>3. CASE todo = Ren1
    BY <1>4, <2>3 DEF TodoOf, Ren1, After, StepName
  <2> QED BY <2>0, <2>1, <2>2, <2>3
<1>5. CASE op = "startup"
  <2>0. todo \in {Sta2, Sta1}
    BY <1>5 DEF TodoOf
  <2>1. CASE todo = Sta2
    BY <1>5, <2>1 DEF TodoOf, Sta2, Sta1, After, StepName
  <2>2. CASE todo = Sta1
    BY <1>5, <2>2 DEF TodoOf, Sta1, After, StepName
  <2> QED BY <2>0, <2>1, <2>2
<1>6. CASE op = "push"
  <2>1. todo = Push
    BY <1>6 DEF TodoOf
  <2> QED BY <1>6, <2>1 DEF TodoOf, Push, After, StepName
<1> QED BY <1>1, <1>2, <1>3, <1>4, <1>5, <1>6 DEF Op

(* Where each operation is at in its script. *)
LEMMA OpFacts ==
    ASSUME NEW op \in Op, NEW todo \in TodoOf(op)
    PROVE  /\ Head(todo) \in {"caKey", "caCert"} => op = "activate"
           /\ Head(todo) \in {"pendKey", "pendCert"} => op = "begin"
           /\ op = "activate" /\ Head(todo) # "push" =>
                 \E n \in 1..Len(todo) : todo[n] = "reload"
           /\ op = "activate" /\ Head(todo) = "push" =>
                 ~ \E n \in 1..Len(todo) : todo[n] = "reload"
           /\ op = "activate" /\ Head(todo) \in FileStep => Head(Tail(todo)) # "push"
           /\ op = "activate" /\ Head(todo) = "srvCert" => Tail(todo) # <<>>
<1>1. CASE op = "activate"
  <2>0. todo \in {Act8, Act7, Act6, Act5, Act4, Act3, Act2, Push}
    BY <1>1 DEF TodoOf
  <2>1. CASE todo = Act8
    BY <1>1, <2>1 DEF TodoOf, Act8, Act7, FileStep
  <2>2. CASE todo = Act7
    BY <1>1, <2>2 DEF TodoOf, Act7, Act6, FileStep
  <2>3. CASE todo = Act6
    BY <1>1, <2>3 DEF TodoOf, Act6, Act5, FileStep
  <2>4. CASE todo = Act5
    BY <1>1, <2>4 DEF TodoOf, Act5, Act4, FileStep
  <2>5. CASE todo = Act4
    BY <1>1, <2>5 DEF TodoOf, Act4, Act3, FileStep
  <2>6. CASE todo = Act3
    BY <1>1, <2>6 DEF TodoOf, Act3, Act2, FileStep
  <2>7. CASE todo = Act2
    BY <1>1, <2>7 DEF TodoOf, Act2, Push, FileStep
  <2>8. CASE todo = Push
    BY <1>1, <2>8 DEF TodoOf, Push, FileStep
  <2> QED BY <2>0, <2>1, <2>2, <2>3, <2>4, <2>5, <2>6, <2>7, <2>8
<1>2. CASE op = "begin"
  <2>0. todo \in {Beg3, Beg2, Push}
    BY <1>2 DEF TodoOf
  <2>1. CASE todo = Beg3
    BY <1>2, <2>1 DEF TodoOf, Beg3, Beg2, FileStep
  <2>2. CASE todo = Beg2
    BY <1>2, <2>2 DEF TodoOf, Beg2, Push, FileStep
  <2>3. CASE todo = Push
    BY <1>2, <2>3 DEF TodoOf, Push, FileStep
  <2> QED BY <2>0, <2>1, <2>2, <2>3
<1>3. CASE op = "cancel"
  <2>0. todo \in {Can3, Can2, Push}
    BY <1>3 DEF TodoOf
  <2>1. CASE todo = Can3
    BY <1>3, <2>1 DEF TodoOf, Can3, Can2, FileStep
  <2>2. CASE todo = Can2
    BY <1>3, <2>2 DEF TodoOf, Can2, Push, FileStep
  <2>3. CASE todo = Push
    BY <1>3, <2>3 DEF TodoOf, Push, FileStep
  <2> QED BY <2>0, <2>1, <2>2, <2>3
<1>4. CASE op = "renew"
  <2>0. todo \in {Ren3, Ren2, Ren1}
    BY <1>4 DEF TodoOf
  <2>1. CASE todo = Ren3
    BY <1>4, <2>1 DEF TodoOf, Ren3, Ren2, FileStep
  <2>2. CASE todo = Ren2
    BY <1>4, <2>2 DEF TodoOf, Ren2, Ren1, FileStep
  <2>3. CASE todo = Ren1
    BY <1>4, <2>3 DEF TodoOf, Ren1, FileStep
  <2> QED BY <2>0, <2>1, <2>2, <2>3
<1>5. CASE op = "startup"
  <2>0. todo \in {Sta2, Sta1}
    BY <1>5 DEF TodoOf
  <2>1. CASE todo = Sta2
    BY <1>5, <2>1 DEF TodoOf, Sta2, Sta1, FileStep
  <2>2. CASE todo = Sta1
    BY <1>5, <2>2 DEF TodoOf, Sta1, FileStep
  <2> QED BY <2>0, <2>1, <2>2
<1> QED BY <1>1, <1>2, <1>3, <1>4, <1>5 DEF Op

(* A script starts at its first step. *)
LEMMA ScriptFacts ==
    ASSUME NEW op \in Op
    PROVE  /\ Script(op) \in TodoOf(op) /\ Head(Script(op)) \in FileStep
           /\ op = "activate" => Head(Script(op)) = "caKey"
           /\ op = "begin" => Head(Script(op)) = "pendKey"
           /\ op = "cancel" => Head(Script(op)) = "rmCert"
           /\ op \in {"renew", "startup"} => Head(Script(op)) = "srvKey"
  BY DEF Op, Script, TodoOf, FileStep, StepName, Act8, Beg3, Can3, Ren3, Sta2

-----------------------------------------------------------------------------
(* Tasks and types *)

LEMMA ShapesType ==
    ASSUME Shapes PROVE TypeOK
  BY DEF Shapes, Tasks, Data, TypeOK, Disk, Push1, Count, TaskType

LEMMA IdleFacts == Idle \in TaskType /\ TaskShape(Idle) /\ ~Files(Idle) /\ Idle.todo = <<>>
  BY DEF Idle, TaskType, TaskShape, Files

(* One task changes, and with it the lock. *)
LEMMA TaskStepFacts ==
    ASSUME Tasks, NEW t \in Task, NEW w \in TaskType, TaskShape(w),
           task' = [task EXCEPT ![t] = w],
           Files(w) <=> lock' = t,
           \A u \in Task : u # t => (lock' = u <=> lock = u)
    PROVE  Tasks'
<1>1. task' \in [Task -> TaskType]
  BY DEF Tasks
<1>2. task'[t] = w /\ \A u \in Task : u # t => task'[u] = task[u]
  BY DEF Tasks
<1>3. \A u \in Task : TaskShape(task'[u])
  BY <1>2 DEF Tasks
<1>4. \A u \in Task : Files(task'[u]) <=> lock' = u
  BY <1>2 DEF Tasks
<1> QED BY <1>1, <1>3, <1>4 DEF Tasks

(* A task that is in its script goes on to an end of it, or is done. *)
LEMMA Next1Facts ==
    ASSUME Tasks, NEW t \in Task, task[t].todo # <<>>
    PROVE  /\ task[t].op \in Op \cup {"push"} /\ task[t].todo \in TodoOf(task[t].op)
           /\ Next1(t) \in TaskType /\ TaskShape(Next1(t))
           /\ After(Head(task[t].todo), Tail(task[t].todo))
           /\ Next1(t).todo = Tail(task[t].todo)
           /\ Tail(task[t].todo) = <<>> => Next1(t) = Idle
           /\ Tail(task[t].todo) # <<>> => Next1(t) = [task[t] EXCEPT !.todo = Tail(@)]
           /\ Tail(task[t].todo) # <<>> => Tail(task[t].todo) \in TodoOf(task[t].op)
           /\ task[t].op \in Op => task[t].ca \in CA /\ task[t].key \in CA
<1> DEFINE w == task[t]
<1>0. w \in TaskType /\ TaskShape(w)
  BY DEF Tasks
<1>1. w.op \in Op \cup {"push"} /\ w.todo \in TodoOf(w.op)
      /\ (w.op \in Op => w.ca \in CA /\ w.key \in CA)
  BY <1>0 DEF TaskShape, Idle
<1>2. /\ Tail(w.todo) = <<>> \/ Tail(w.todo) \in TodoOf(w.op)
      /\ Len(w.todo) = 1 <=> Tail(w.todo) = <<>>
      /\ After(Head(w.todo), Tail(w.todo))
  BY <1>1, TodoFacts
<1>3. CASE Tail(w.todo) = <<>>
  BY <1>1, <1>2, <1>3, IdleFacts DEF Next1
<1>4. CASE Tail(w.todo) # <<>>
  <2>1. Next1(t) = [w EXCEPT !.todo = Tail(w.todo)]
    BY <1>2, <1>4 DEF Next1
  <2>2. Tail(w.todo) \in Seq(StepName)
    BY <1>1, <1>2, <1>4, TodoFacts
  <2>3. /\ Next1(t) \in TaskType /\ Next1(t).todo = Tail(w.todo)
        /\ Next1(t).op = w.op /\ Next1(t).ca = w.ca /\ Next1(t).key = w.key
    BY <1>0, <2>1, <2>2 DEF TaskType
  <2>4. TaskShape(Next1(t))
    BY <1>1, <1>2, <1>4, <2>3 DEF TaskShape
  <2> QED BY <1>1, <1>2, <1>4, <2>1, <2>3, <2>4
<1> QED BY <1>3, <1>4

(* The lock is let go of after the last file. *)
LEMMA AdvanceFacts ==
    ASSUME Tasks, NEW t \in Task, lock = t, Advance(t)
    PROVE  Tasks' /\ lock' \in {lock, "free"}
<1>1. task[t].todo # <<>> /\ Head(task[t].todo) \in FileStep
  BY DEF Tasks, Files
<1>2. TaskShape(Next1(t)) /\ Next1(t) \in TaskType /\ Next1(t).todo = Tail(task[t].todo)
      /\ (Tail(task[t].todo) # <<>> => Tail(task[t].todo) \in TodoOf(task[t].op))
      /\ task[t].op \in Op \cup {"push"}
  BY <1>1, Next1Facts
<1>3. Tail(task[t].todo) # <<>> => Head(Tail(task[t].todo)) \in StepName
  BY <1>2, TodoFacts
<1>4. Files(Next1(t)) <=> lock' = t
  BY <1>2, <1>3, TlsAssumption DEF Files, FileStep, Advance, Task
<1>5. lock' \in {lock, "free"}
  BY DEF Advance
<1>6. \A u \in Task : u # t => (lock' = u <=> lock = u)
  BY <1>5, TlsAssumption DEF Task
<1>7. task' = [task EXCEPT ![t] = Next1(t)]
  BY DEF Advance
<1> QED BY <1>2, <1>4, <1>5, <1>6, <1>7, TaskStepFacts

(* The files that are written are ones of their kind. *)
LEMMA WrittenType ==
    ASSUME disk \in Disk, count \in Count, NEW w \in TaskType, NEW step \in FileStep,
           w.ca \in CA, w.key \in CA
    PROVE  Written(w, step) \in Disk
<1>1. count.serial \in 0..MaxSerial
  BY TlsAssumption DEF Count
<1>2. CASE step = "srvCert"
  <2>1. [ca |-> w.ca, key |-> w.key, serial |-> count.serial, old |-> FALSE] \in Cert
    BY <1>1 DEF Cert
  <2> QED BY <1>2, <2>1 DEF Written, Disk
<1>3. CASE step # "srvCert"
  BY <1>1, <1>3 DEF Written, Disk, FileStep, StepName
<1> QED BY <1>2, <1>3

(* What has gone wrong is one of the kinds there are. *)
LEMMA BrokenType ==
    ASSUME Data, NEW T PROVE Broken(T) \subseteq {"torn", "unserved", "rushed", "overlap", "split"}
  BY DEF Data, Broken

LEMMA ShapesByRequest ==
    ASSUME Shapes, NEW t \in Task, NEW op \in Op \cup {"push"}, Request(t, op), UNCHANGED count
    PROVE  Shapes'
<1> DEFINE w == [Idle EXCEPT !.op = op, !.todo = IF op = "push" THEN <<"push">> ELSE <<>>]
<1>1. task' = [task EXCEPT ![t] = w]
  BY DEF Request, Shapes, Tasks
<1>2. w \in TaskType
  <2>1. <<"push">> \in Seq(StepName) /\ <<>> \in Seq(StepName)
    BY DEF StepName
  <2>2. (IF op = "push" THEN <<"push">> ELSE <<>>) \in Seq(StepName)
    BY <2>1
  <2> QED BY <2>2 DEF Idle, TaskType
<1>3. TaskShape(w) /\ ~Files(w)
  <2>1. CASE op = "push"
    BY <2>1 DEF Idle, TaskShape, TodoOf, Push, Files, FileStep, Op
  <2>2. CASE op # "push"
    BY <2>2 DEF Idle, TaskShape, Files
  <2> QED BY <2>1, <2>2
<1>4. lock' = lock /\ lock # t
  BY IdleFacts DEF Request, Shapes, Tasks
<1> HIDE DEF w
<1>5. Tasks'
  BY <1>1, <1>2, <1>3, <1>4, TaskStepFacts DEF Shapes
<1> QED BY <1>5 DEF Request, Shapes, Data, agents

LEMMA ShapesByLock ==
    ASSUME Shapes, NEW t \in Task, Lock(t)
    PROVE  Shapes'
<1> USE DEF Shapes, Data
<1>0. task[t].op \in Op /\ task[t].todo = <<>> /\ lock = "free" /\ ~Files(task[t])
  BY DEF Lock, Files
<1>1. CASE task[t].op = "activate" /\ NoCA \in {disk.pendCert, disk.pendKey}
  <2>1. task' = [task EXCEPT ![t] = Idle] /\ lock' = lock /\ UNCHANGED <<count, mishap>>
    BY <1>1 DEF Lock
  <2>2. Tasks'
    BY <1>0, <2>1, IdleFacts, TaskStepFacts, TlsAssumption DEF Task
  <2> QED BY <2>1, <2>2 DEF Lock, agents
<1>2. CASE ~(task[t].op = "activate" /\ NoCA \in {disk.pendCert, disk.pendKey})
  <2> DEFINE op == task[t].op
             pair == CASE op = "activate" -> <<disk.pendCert, disk.pendKey>>
                       [] op = "begin"    -> <<count.ca + 1, count.ca + 1>>
                       [] OTHER           -> <<disk.caCert, disk.caKey>>
             w == [op |-> op, todo |-> Script(op), ca |-> pair[1], key |-> pair[2]]
  <2>1. /\ lock' = t /\ task' = [task EXCEPT ![t] = w]
        /\ count' = [count EXCEPT
                              !.ca = IF op = "begin" THEN @ + 1 ELSE @,
                              !.serial = IF op \in {"renew", "activate", "startup"}
                                         THEN @ + 1 ELSE @]
        /\ mishap' = IF op = "activate" /\ ~Ready THEN mishap \cup {"rushed"} ELSE mishap
        /\ op = "begin" => count.ca < MaxCA
        /\ op \in {"renew", "activate", "startup"} => count.serial < MaxSerial
    BY <1>2 DEF Lock
  <2>2. pair[1] \in CA /\ pair[2] \in CA
    <3>1. CASE op = "activate"
      BY <1>2, <3>1 DEF Disk, NoCA
    <3>2. CASE op = "begin"
      BY <2>1, <3>2, TlsAssumption DEF Count, CA
    <3>3. CASE op \notin {"activate", "begin"}
      BY <3>3 DEF Disk
    <3> QED BY <3>1, <3>2, <3>3
  <2>3. Script(op) \in TodoOf(op) /\ Script(op) \in Seq(StepName) /\ Script(op) # <<>>
        /\ Head(Script(op)) \in FileStep
    BY <1>0, ScriptFacts, TodoFacts
  <2>4. w \in TaskType /\ TaskShape(w) /\ Files(w)
    BY <1>0, <2>2, <2>3 DEF TaskType, TaskShape, Files
  <2>5. count' \in Count
    <3> HIDE DEF op
    <3>1. (IF op = "begin" THEN count.ca + 1 ELSE count.ca) \in CA
      BY <2>1, TlsAssumption DEF Count, CA
    <3>2. (IF op \in {"renew", "activate", "startup"} THEN count.serial + 1
           ELSE count.serial) \in 1..MaxSerial
      BY <2>1, TlsAssumption DEF Count
    <3> QED BY <2>1, <3>1, <3>2 DEF Count
  <2> HIDE DEF w, op
  <2>6. Tasks'
    BY <1>0, <2>1, <2>4, TaskStepFacts, TlsAssumption DEF Task
  <2> QED BY <2>1, <2>5, <2>6 DEF Lock, agents
<1> QED BY <1>1, <1>2

LEMMA ShapesByWriteFile ==
    ASSUME Shapes, NEW t \in Task, WriteFile(t)
    PROVE  Shapes' /\ lock = t
<1>1. task[t].todo # <<>> /\ Head(task[t].todo) \in FileStep
  <2>1. task[t].todo # <<>> /\ Head(task[t].todo) \notin {"reload", "push"}
    BY DEF WriteFile
  <2>2. Head(task[t].todo) \in StepName
    BY <2>1, Next1Facts, TodoFacts DEF Shapes
  <2> QED BY <2>1, <2>2 DEF FileStep
<1>2. lock = t
  BY <1>1 DEF Shapes, Tasks, Files
<1>3. Tasks' /\ lock' \in {lock, "free"} /\ app' \in {app, "up"}
  BY <1>2, AdvanceFacts DEF Shapes, WriteFile, Advance
<1>4. task[t].op \in Op
  <2>1. task[t].op \in Op \cup {"push"} /\ task[t].todo \in TodoOf(task[t].op)
    BY <1>1, Next1Facts DEF Shapes
  <2>2. task[t].op = "push" => task[t].todo = <<"push">>
    BY <2>1 DEF TodoOf, Push
  <2> QED BY <1>1, <2>1, <2>2 DEF FileStep
<1>5. task[t] \in TaskType /\ task[t].ca \in CA /\ task[t].key \in CA
  BY <1>1, <1>4, Next1Facts DEF Shapes, Tasks
<1>6. disk' \in Disk
  BY <1>1, <1>5, WrittenType DEF WriteFile, Shapes, Data
<1> QED BY <1>2, <1>3, <1>6 DEF WriteFile, Shapes, Data, agents

(* A task that ends before its script does, with the lock if it had it. *)
LEMMA EndsFacts ==
    ASSUME Tasks, NEW t \in Task, task' = [task EXCEPT ![t] = Idle],
           lock' = IF lock = t THEN "free" ELSE lock
    PROVE  Tasks'
<1>1. ~Files(Idle) /\ lock' # t /\ \A u \in Task : u # t => (lock' = u <=> lock = u)
  BY IdleFacts, TlsAssumption DEF Task
<1> QED BY <1>1, IdleFacts, TaskStepFacts

(* After its files a task goes on without the lock. *)
LEMMA PastFilesFacts ==
    ASSUME Tasks, NEW t \in Task, task[t].todo # <<>>, Head(task[t].todo) \in {"reload", "push"},
           task' = [task EXCEPT ![t] = Next1(t)], lock' = lock
    PROVE  Tasks'
<1>1. lock # t
  BY DEF Tasks, Files, FileStep
<1>2. /\ Next1(t) \in TaskType /\ TaskShape(Next1(t))
      /\ Next1(t).todo = Tail(task[t].todo) /\ After(Head(task[t].todo), Tail(task[t].todo))
  BY Next1Facts
<1>3. ~Files(Next1(t))
  BY <1>2 DEF After, Files, FileStep
<1> QED BY <1>1, <1>2, <1>3, TaskStepFacts

LEMMA ShapesByReload ==
    ASSUME Shapes, NEW t \in Task, Reload(t)
    PROVE  Shapes' /\ lock # t
<1>0. lock # t
  BY DEF Reload, At, Shapes, Tasks, Files, FileStep
<1>1. CASE Matched(disk)
  <2>1. Tasks'
    BY <1>1, PastFilesFacts DEF Reload, At, Shapes
  <2>2. disk.srvCert \in Cert
    BY DEF Shapes, Data, Disk
  <2> QED BY <1>0, <1>1, <2>1, <2>2 DEF Reload, Shapes, Data, agents
<1>2. CASE ~Matched(disk)
  <2>1. Tasks'
    BY <1>0, <1>2, EndsFacts DEF Reload, Shapes
  <2> QED BY <1>0, <1>2, <2>1, BrokenType DEF Reload, Shapes, Data, agents
<1> QED BY <1>1, <1>2

LEMMA TroubledType ==
    ASSUME count \in Count, Trouble
    PROVE  /\ Troubled \in Count /\ Troubled.ca = count.ca /\ Troubled.serial = count.serial
  BY TlsAssumption DEF Trouble, Troubled, Count

LEMMA ShapesByReloadFails ==
    ASSUME Shapes, NEW t \in Task, ReloadFails(t)
    PROVE  Shapes' /\ lock # t
<1>0. lock # t
  BY DEF ReloadFails, At, Shapes, Tasks, Files, FileStep
<1>1. Tasks'
  BY <1>0, EndsFacts DEF ReloadFails, Shapes
<1> QED BY <1>0, <1>1, BrokenType, TroubledType DEF ReloadFails, Shapes, Data, agents

LEMMA ShapesByWriteFails ==
    ASSUME Shapes, NEW t \in Task, WriteFails(t)
    PROVE  Shapes'
<1>1. CASE At(t, "rmCert") \/ At(t, "rmKey")
  <2>1. Tasks' /\ lock' \in {lock, "free"} /\ app' \in {app, "up"}
    BY <1>1, AdvanceFacts DEF WriteFails, Advance, Shapes
  <2> QED BY <1>1, <2>1, TroubledType DEF WriteFails, Shapes, Data, agents
<1>2. CASE ~(At(t, "rmCert") \/ At(t, "rmKey"))
  <2>1. Tasks'
    BY <1>2, EndsFacts DEF WriteFails, Shapes
  <2> QED BY <1>2, <2>1, BrokenType, TroubledType DEF WriteFails, Shapes, Data, agents
<1> QED BY <1>1, <1>2

LEMMA ShapesByPushAll ==
    ASSUME Shapes, NEW t \in Task, PushAll(t)
    PROVE  Shapes'
<1>1. Tasks'
  BY PastFilesFacts DEF PushAll, At, Shapes
<1>2. push' \in [Agent -> [Slot -> Push1]]
  <2>1. ASSUME NEW h \in Agent PROVE [push[h] EXCEPT !["admin"].st = "reading"] \in [Slot -> Push1]
    BY DEF Shapes, Data, Slot, Push1
  <2> QED BY <2>1 DEF PushAll, Shapes, Data
<1> QED BY <1>1, <1>2 DEF PushAll, Shapes, Data

LEMMA ShapesByCrash ==
    ASSUME Shapes, Crash
    PROVE  Shapes'
<1>1. Tasks'
  <2>1. \A t \in Task : task'[t] = Idle /\ lock' # t
    BY TlsAssumption DEF Crash, Task
  <2> QED BY <2>1, IdleFacts DEF Crash, Tasks
<1>2. push' \in [Agent -> [Slot -> Push1]]
  <2>1. ASSUME NEW p \in Push1 PROVE Gone(p) \in Push1
    BY DEF Gone, NoPush, Push1
  <2> QED BY <2>1 DEF Crash, Shapes, Data
<1>3. known' \in [Agent -> SUBSET CA] /\ conn' \subseteq Agent
  BY DEF Crash
<1> QED BY <1>1, <1>2, <1>3, BrokenType, TroubledType DEF Crash, Shapes, Data

LEMMA ShapesByStart ==
    ASSUME Shapes, Start
    PROVE  Shapes'
<1>1. CASE Due(disk)
  <2> DEFINE t == "sweep"
             w == [Idle EXCEPT !.op = "startup"]
  <2>0. t \in Task
    BY DEF Task
  <2>1. task' = [task EXCEPT ![t] = w] /\ UNCHANGED <<lock, app>>
    BY <1>1 DEF Start, Shapes, Tasks
  <2>2. w \in TaskType /\ TaskShape(w) /\ ~Files(w)
    <3>1. w = [op |-> "startup", todo |-> <<>>, ca |-> NoCA, key |-> NoCA]
      BY DEF Idle
    <3> HIDE DEF w
    <3>2. w \in TaskType
      BY <3>1 DEF TaskType, Op
    <3> QED BY <3>1, <3>2 DEF TaskShape, Files, Op
  <2>3. lock # t
    BY <2>0, IdleFacts DEF Start, Shapes, Tasks
  <2>4. Tasks'
    BY <2>0, <2>1, <2>2, <2>3, TaskStepFacts DEF Shapes
  <2> QED BY <2>1, <2>4 DEF Start, Shapes, Data, agents
<1>2. CASE ~Due(disk)
  BY <1>2 DEF Start, Shapes, Data, Tasks, agents
<1> QED BY <1>1, <1>2

(* The rest leave the tasks and the lock alone. *)
LEMMA ShapesByWorld ==
    ASSUME Shapes, CaddyLoads \/ Age
    PROVE  Shapes'
<1>1. Tasks'
  BY DEF CaddyLoads, Age, Shapes, Tasks
<1>2. disk' \in Disk /\ caddy' \in Cert
  <2>1. disk.srvCert \in Cert /\ [disk.srvCert EXCEPT !.old = TRUE] \in Cert
        /\ [caddy EXCEPT !.old = TRUE] \in Cert
    BY DEF Shapes, Data, Disk, Cert
  <2>2. CASE CaddyLoads
    BY <2>1, <2>2 DEF CaddyLoads, Shapes, Data
  <2>3. CASE Age
    <3>1. disk' = [disk EXCEPT !.srvCert = [disk.srvCert EXCEPT !.old = TRUE]]
      BY <2>3 DEF Age
    <3>2. disk' \in Disk
      BY <2>1, <3>1 DEF Shapes, Data, Disk
    <3> QED BY <2>1, <2>3, <3>2 DEF Age, Shapes, Data
  <2> QED BY <2>2, <2>3
<1> QED BY <1>1, <1>2 DEF CaddyLoads, Age, Shapes, Data, agents

LEMMA PutType ==
    ASSUME Data, NEW h \in Agent, NEW s \in Slot, NEW p \in Push1
    PROVE  [push EXCEPT ![h][s] = p] \in [Agent -> [Slot -> Push1]]
<1>1. [push[h] EXCEPT ![s] = p] \in [Slot -> Push1]
  BY DEF Data
<1> QED BY <1>1 DEF Data

LEMMA ShapesByAgent ==
    ASSUME Shapes, NEW h \in Agent, Connect(h) \/ Disconnect(h)
    PROVE  Shapes'
<1>1. Tasks'
  BY DEF Connect, Disconnect, Shapes, Tasks
<1>2. push' \in [Agent -> [Slot -> Push1]] /\ conn' \subseteq Agent
  <2>1. CASE Connect(h)
    <3>1. "connect" \in Slot /\ push[h]["connect"] \in Push1
      BY DEF Shapes, Data, Slot
    <3>2. [push[h]["connect"] EXCEPT !.st = "reading"] \in Push1
      BY <3>1 DEF Push1
    <3>3. push' = [push EXCEPT ![h]["connect"] = [push[h]["connect"] EXCEPT !.st = "reading"]]
      BY <2>1 DEF Connect
    <3> QED BY <2>1, <3>1, <3>2, <3>3, PutType DEF Connect, Shapes, Data
  <2>2. CASE Disconnect(h)
    BY <2>2 DEF Disconnect, Shapes, Data
  <2> QED BY <2>1, <2>2
<1> QED BY <1>1, <1>2 DEF Connect, Disconnect, Shapes, Data

LEMMA ShapesByPush ==
    ASSUME Shapes, NEW h \in Agent, NEW s \in Slot,
           \/ ReadActive(h, s) \/ Send(h, s) \/ Apply(h, s)
           \/ Record(h, s) \/ GiveUp(h, s) \/ Drop(h, s)
    PROVE  Shapes'
<1>0. /\ push[h][s] \in Push1 /\ push[h][s].cas \subseteq CA /\ {disk.caCert} \subseteq CA
      /\ NoPush \in Push1
  BY DEF Shapes, Data, Push1, Disk, NoPush
<1>a. PICK b : b = trust_bundle(push[h][s].cas, disk)
  OBVIOUS
<1>b. b \subseteq CA
  BY <1>0, <1>a DEF Shapes, Data, trust_bundle, Disk
<1>1. Tasks'
  BY DEF ReadActive, Send, Apply, Record, GiveUp, Drop, Shapes, Tasks
<1>2. CASE Send(h, s)
  <2>1. [st |-> "sent", cas |-> b] \in Push1
    BY <1>b DEF Push1
  <2>2. push' \in [Agent -> [Slot -> Push1]]
    <3>1. CASE h \in conn
      <4>1. push' = [push EXCEPT ![h][s] = [st |-> "sent", cas |-> b]]
        BY <1>2, <1>a, <3>1 DEF Send
      <4> QED BY <2>1, <4>1, PutType DEF Shapes
    <3>2. CASE h \notin conn
      <4>1. push' = [push EXCEPT ![h][s] = NoPush]
        BY <1>2, <3>2 DEF Send
      <4> QED BY <1>0, <4>1, PutType DEF Shapes
    <3> QED BY <3>1, <3>2
  <2>3. known' \in [Agent -> SUBSET CA]
    BY <1>2 DEF Send, Shapes, Data
  <2>4. SentBadly(h, s) \subseteq {"overlap", "split"}
    BY DEF SentBadly
  <2> QED BY <1>1, <1>2, <2>2, <2>3, <2>4 DEF Send, Shapes, Data
<1>7. CASE ReadActive(h, s)
  <2>1. [st |-> "half", cas |-> {disk.caCert}] \in Push1
    BY <1>0 DEF Push1
  <2>2. push' \in [Agent -> [Slot -> Push1]]
    BY <1>7, <2>1, PutType DEF ReadActive, Shapes
  <2> QED BY <1>1, <1>7, <2>2 DEF ReadActive, Shapes, Data
<1>3. CASE Apply(h, s)
  BY <1>0, <1>1, <1>3 DEF Apply, Shapes, Data, Push1
<1>4. CASE Record(h, s)
  BY <1>0, <1>1, <1>4 DEF Record, Shapes, Data
<1>5. CASE GiveUp(h, s)
  <2>1. count' \in Count
    BY <1>5, TroubledType DEF GiveUp, Shapes, Data
  <2> QED BY <1>0, <1>1, <1>5, <2>1 DEF GiveUp, Shapes, Data, Push1
<1>6. CASE Drop(h, s)
  BY <1>0, <1>1, <1>6 DEF Drop, Shapes, Data
<1> QED BY <1>2, <1>3, <1>4, <1>5, <1>6, <1>7

LEMMA ShapesInit ==
    ASSUME Init PROVE Shapes
<1>1. Tasks
  <2>1. \A t \in Task : task[t] = Idle /\ lock # t
    BY TlsAssumption DEF Init, Task
  <2> QED BY <2>1, IdleFacts DEF Init, Tasks
<1>2. disk \in Disk /\ caddy \in Cert /\ count \in Count
  BY TlsAssumption DEF Init, Disk, Cert, CA, Count, NoCA
<1>3. push \in [Agent -> [Slot -> Push1]] /\ trust \in [Agent -> SUBSET CA]
  BY TlsAssumption DEF Init, Push1, NoPush, CA
<1> QED BY <1>1, <1>2, <1>3 DEF Init, Shapes, Data

-----------------------------------------------------------------------------
(* The files *)

(* A step that writes no file and leaves the lock where it is. *)
LEMMA ChainFrame ==
    ASSUME Chain, UNCHANGED <<disk, lock>>, mishap \subseteq mishap',
           count'.ca = count.ca, count'.serial = count.serial,
           \A t \in Task : lock = t => task'[t] = task[t]
    PROVE  Chain'
<1> USE DEF CaOk, PendOk, SrvOk, Due, issued_by, Matched
<1>0. SUFFICES ASSUME "torn" \notin mishap'
      PROVE  /\ Ordered'
             /\ lock' = "free" => (CaOk /\ PendOk /\ SrvOk)'
             /\ \A t \in Task : lock' = t => (Holding(task[t], Head(task[t].todo)))'
  BY DEF Chain
<1>1. Ordered'
  BY <1>0 DEF Chain, Ordered
<1>2. ASSUME NEW t \in Task, lock' = t PROVE (Holding(task[t], Head(task[t].todo)))'
  BY <1>0, <1>2 DEF Chain, Holding
<1> QED BY <1>0, <1>1, <1>2 DEF Chain

(* The lock is let go of, by whom and however: unless a pair is torn, all three
   are whole. *)
LEMMA ChainByEnd ==
    ASSUME Shapes, Chain, disk' = disk, lock' = "free", count'.ca = count.ca,
           NEW T \in SUBSET Task, lock # "free" => lock \in T, mishap' = Broken(T)
    PROVE  Chain'
<1> USE DEF CaOk, PendOk, SrvOk, Due, issued_by, Matched
<1>0. SUFFICES ASSUME "torn" \notin mishap'
      PROVE  Ordered' /\ (CaOk /\ PendOk /\ SrvOk)'
  BY TlsAssumption DEF Chain, Task
<1>1. "torn" \notin mishap /\ \A t \in T : ~Tearing(t)
  BY <1>0 DEF Broken
<1>2. Ordered'
  BY <1>1 DEF Chain, Ordered
<1>3. CaOk /\ PendOk /\ SrvOk
  <2>1. CASE lock = "free"
    BY <1>1, <2>1 DEF Chain
  <2>2. CASE lock # "free"
    <3>1. PICK t \in T : lock = t
      BY <2>2
    <3>2. t \in Task /\ task[t].todo # <<>>
      BY <3>1 DEF Shapes, Tasks, Files
    <3>3. Head(task[t].todo) \notin {"caCert", "srvCert", "pendCert"}
      BY <1>1, <3>2 DEF Tearing, At
    <3>4. Holding(task[t], Head(task[t].todo))
      BY <1>1, <3>1, <3>2 DEF Chain
    <3> QED BY <3>3, <3>4 DEF Holding
  <2> QED BY <2>1, <2>2
<1> QED BY <1>2, <1>3

(* The lock is taken by the start of a script. *)
LEMMA ChainByLock ==
    ASSUME Shapes, Chain, NEW t \in Task, Lock(t)
    PROVE  Chain'
<1>0. task[t].op \in Op /\ task[t].todo = <<>> /\ lock = "free" /\ disk' = disk
  BY DEF Lock
<1>1. CASE task[t].op = "activate" /\ NoCA \in {disk.pendCert, disk.pendKey}
  <2>1. UNCHANGED <<disk, lock, mishap, count>> /\ task' = [task EXCEPT ![t] = Idle]
    BY <1>1 DEF Lock
  <2>2. \A u \in Task : lock = u => task'[u] = task[u]
    BY <1>0, TlsAssumption DEF Task
  <2> QED BY <2>1, <2>2, ChainFrame
<1>2. CASE ~(task[t].op = "activate" /\ NoCA \in {disk.pendCert, disk.pendKey})
  <2> DEFINE op == task[t].op
             pair == CASE op = "activate" -> <<disk.pendCert, disk.pendKey>>
                       [] op = "begin"    -> <<count.ca + 1, count.ca + 1>>
                       [] OTHER           -> <<disk.caCert, disk.caKey>>
             w == [op |-> op, todo |-> Script(op), ca |-> pair[1], key |-> pair[2]]
  <2>1. /\ lock' = t /\ task' = [task EXCEPT ![t] = w]
        /\ count' = [count EXCEPT
                              !.ca = IF op = "begin" THEN @ + 1 ELSE @,
                              !.serial = IF op \in {"renew", "activate", "startup"}
                                         THEN @ + 1 ELSE @]
        /\ mishap \subseteq mishap'
    BY <1>2 DEF Lock
  <2>2. task'[t] = w /\ count'.ca = IF op = "begin" THEN count.ca + 1 ELSE count.ca
    BY <2>1 DEF Shapes, Tasks, Data, Count
  <2>3. /\ op = "activate" => w.ca = disk.pendCert /\ w.key = disk.pendKey
        /\ op = "begin" => w.ca = count.ca + 1 /\ w.key = count.ca + 1
        /\ op \notin {"activate", "begin"} => w.ca = disk.caCert /\ w.key = disk.caKey
    OBVIOUS
  <2>4. PICK v : v = w
    OBVIOUS
  <2>40. v.todo = Script(op) /\ task'[t] = v
         /\ (op = "activate" => v.ca = disk.pendCert /\ v.key = disk.pendKey)
         /\ (op = "begin" => v.ca = count.ca + 1 /\ v.key = count.ca + 1)
         /\ (op \notin {"activate", "begin"} => v.ca = disk.caCert /\ v.key = disk.caKey)
    BY <2>2, <2>3, <2>4
  <2> HIDE DEF w, pair, op
  <2>5. SUFFICES ASSUME "torn" \notin mishap'
        PROVE  Ordered' /\ (Holding(v, Head(v.todo)))'
    BY <2>1, <2>40, TlsAssumption DEF Chain, Task
  <2>6. Ordered /\ CaOk /\ PendOk /\ SrvOk
    BY <1>0, <2>1, <2>5 DEF Chain
  <2>7. disk.caCert \in Nat /\ disk.pendCert \in Nat /\ count.ca \in Nat /\ disk.srvCert.ca \in Nat
    BY TlsAssumption DEF Shapes, Data, Disk, Count, CA, NoCA, Cert
  <2>8. Ordered'
    BY <1>0, <2>2, <2>6, <2>7 DEF Ordered
  <2>9. (CaOk /\ PendOk /\ SrvOk)'
    BY <1>0, <2>6 DEF CaOk, PendOk, SrvOk, Due, issued_by, Matched
  <2>10. Head(v.todo) = IF op = "activate" THEN "caKey" ELSE IF op = "begin" THEN "pendKey"
                        ELSE IF op = "cancel" THEN "rmCert" ELSE "srvKey"
    BY <1>0, <2>40, ScriptFacts DEF Op, op
  <2>11. CASE op = "activate"
    BY <1>0, <1>2, <2>40, <2>6, <2>8, <2>9, <2>10, <2>11 DEF Holding, PendOk, op
  <2>12. CASE op = "begin"
    <3>1. disk.caCert < v.ca /\ disk.pendCert < v.ca /\ v.ca = count'.ca /\ v.key = v.ca
      BY <2>2, <2>40, <2>6, <2>7, <2>12 DEF Ordered, NoCA
    <3> QED BY <1>0, <2>8, <2>9, <2>10, <2>12, <3>1 DEF Holding
  <2>13. CASE op = "cancel"
    BY <1>0, <2>8, <2>9, <2>10, <2>13 DEF Holding
  <2>14. CASE op \in {"renew", "startup"}
    BY <1>0, <2>40, <2>6, <2>8, <2>9, <2>10, <2>14 DEF Holding, CaOk
  <2> QED BY <1>0, <2>11, <2>12, <2>13, <2>14 DEF Op, op
<1> QED BY <1>1, <1>2

(* One file is written.  The three names of what holds before each step give what
   holds before the next. *)
LEMMA ChainByWriteFile ==
    ASSUME Shapes, Chain, NEW t \in Task, WriteFile(t)
    PROVE  Chain'
<1>0. lock = t /\ Shapes'
  BY ShapesByWriteFile
<1>1. PICK w, step, rest :
        w = task[t] /\ step = Head(task[t].todo) /\ rest = Tail(task[t].todo)
  OBVIOUS
<1>2. /\ task[t].todo # <<>> /\ step \in FileStep /\ step \in StepName
      /\ After(step, rest) /\ Next1(t).todo = rest
      /\ rest # <<>> => Next1(t) = [w EXCEPT !.todo = rest]
      /\ w \in TaskType
  BY <1>0, <1>1, Next1Facts DEF Shapes, Tasks, Files, FileStep
<1>3. /\ disk' = Written(w, step) /\ UNCHANGED <<mishap, count>>
      /\ task' = [task EXCEPT ![t] = Next1(t)]
      /\ lock' = IF rest = <<>> \/ Head(rest) \in {"reload", "push"} THEN "free" ELSE lock
  BY <1>1 DEF WriteFile, Advance
<1>4. SUFFICES ASSUME "torn" \notin mishap
      PROVE  /\ Ordered'
             /\ lock' = "free" => (CaOk /\ PendOk /\ SrvOk)'
             /\ lock' = t => (Holding(task[t], Head(task[t].todo)))'
  BY <1>0, <1>3, TlsAssumption DEF Chain, Task
<1>5. Ordered /\ Holding(w, step)
  BY <1>0, <1>1, <1>4 DEF Chain
<1>6. /\ rest # <<>> => task'[t] = [w EXCEPT !.todo = rest]
  BY <1>2, <1>3 DEF Shapes, Tasks
<1>7. PICK v : v = task'[t]
  OBVIOUS
<1>8. rest # <<>> => v.ca = w.ca /\ v.key = w.key /\ Head(v.todo) = Head(rest)
  BY <1>2, <1>6, <1>7 DEF TaskType
<1>9. SUFFICES /\ Ordered'
               /\ lock' = "free" => (CaOk /\ PendOk /\ SrvOk)'
               /\ lock' = t => (Holding(v, Head(v.todo)))'
  BY <1>7
<1>10. lock' = t => rest # <<>>
  BY <1>3, TlsAssumption DEF Task
<1>11. /\ disk.caCert \in Nat /\ disk.pendCert \in Nat /\ count.ca \in Nat
       /\ disk.srvCert.ca \in Nat /\ disk \in Disk /\ w.ca \in Nat
  <2>1. w.ca \in CA \cup {NoCA}
    BY <1>2 DEF TaskType
  <2>2. disk \in Disk /\ disk.caCert \in CA /\ disk.pendCert \in CA \cup {NoCA}
        /\ disk.srvCert \in Cert /\ count.ca \in CA
    BY DEF Shapes, Data, Disk, Count
  <2>3. disk.srvCert.ca \in CA
    BY <2>2 DEF Cert
  <2> QED BY <2>1, <2>2, <2>3, TlsAssumption DEF CA, NoCA
<1> USE DEF CaOk, PendOk, SrvOk, Due, issued_by, Matched
<1>12. CASE step = "caKey"
  <2>1. disk' = [disk EXCEPT !.caKey = w.key]
    BY <1>3, <1>12 DEF Written
  <2>2. rest # <<>> /\ Head(rest) = "caCert" /\ lock' = t
    BY <1>0, <1>2, <1>3, <1>12 DEF After
  <2>3. /\ disk'.caKey = w.key /\ disk'.caCert = disk.caCert /\ disk'.pendKey = disk.pendKey
        /\ disk'.pendCert = disk.pendCert /\ disk'.srvKey = disk.srvKey
        /\ disk'.srvCert = disk.srvCert
    BY <1>11, <2>1 DEF Disk
  <2> QED BY <1>3, <1>5, <1>8, <1>12, <2>2, <2>3, TlsAssumption DEF Holding, Ordered, Task
<1>13. CASE step = "caCert"
  <2>1. disk' = [disk EXCEPT !.caCert = w.ca]
    BY <1>3, <1>13 DEF Written
  <2>2. rest # <<>> /\ Head(rest) = "srvKey" /\ lock' = t
    BY <1>0, <1>2, <1>3, <1>13 DEF After
  <2>3. /\ disk'.caKey = disk.caKey /\ disk'.caCert = w.ca /\ disk'.pendKey = disk.pendKey
        /\ disk'.pendCert = disk.pendCert /\ disk'.srvKey = disk.srvKey
        /\ disk'.srvCert = disk.srvCert
    BY <1>11, <2>1 DEF Disk
  <2>4. disk.pendCert = w.ca /\ disk.caKey = w.ca /\ w.key = w.ca
    BY <1>5, <1>13 DEF Holding
  <2>5. w.ca # NoCA => disk.caCert <= w.ca /\ w.ca <= count.ca
    BY <1>5, <2>4 DEF Ordered
  <2>6. w.ca # NoCA
    BY <1>0, <2>3, TlsAssumption DEF Shapes, Data, Disk, CA, NoCA
  <2>7. Ordered'
    BY <1>3, <1>5, <1>11, <2>3, <2>4, <2>5, <2>6 DEF Ordered
  <2>8. SrvOk'
    BY <1>5, <1>11, <1>13, <2>3, <2>5, <2>6 DEF Ordered, Holding
  <2> QED BY <1>3, <1>5, <1>8, <1>13, <2>2, <2>3, <2>4, <2>7, <2>8, TlsAssumption DEF Holding, Task
<1>14. CASE step = "srvKey"
  <2>1. disk' = [disk EXCEPT !.srvKey = count.serial]
    BY <1>3, <1>14 DEF Written
  <2>2. rest # <<>> /\ Head(rest) = "srvCert" /\ lock' = t
    BY <1>0, <1>2, <1>3, <1>14 DEF After
  <2>3. /\ disk'.caKey = disk.caKey /\ disk'.caCert = disk.caCert /\ disk'.pendKey = disk.pendKey
        /\ disk'.pendCert = disk.pendCert /\ disk'.srvKey = count.serial
        /\ disk'.srvCert = disk.srvCert
    BY <1>11, <2>1 DEF Disk
  <2> QED BY <1>3, <1>5, <1>8, <1>14, <2>2, <2>3, TlsAssumption DEF Holding, Ordered, Task
<1>15. CASE step = "srvCert"
  <2>1. disk' = [disk EXCEPT !.srvCert = [ca |-> w.ca, key |-> w.key,
                                           serial |-> count.serial, old |-> FALSE]]
    BY <1>3, <1>15 DEF Written
  <2>2. rest = <<>> \/ Head(rest) \in {"rmCert", "reload"}
    BY <1>2, <1>15 DEF After
  <2>3. /\ disk'.caKey = disk.caKey /\ disk'.caCert = disk.caCert /\ disk'.pendKey = disk.pendKey
        /\ disk'.pendCert = disk.pendCert /\ disk'.srvKey = disk.srvKey
        /\ disk'.srvCert.ca = w.ca /\ disk'.srvCert.key = w.key
        /\ disk'.srvCert.serial = count.serial
    BY <1>11, <2>1 DEF Disk
  <2>4. (CaOk /\ PendOk /\ SrvOk)' /\ Ordered'
    BY <1>3, <1>5, <1>11, <1>15, <2>3 DEF Holding, Ordered
  <2>5. lock' = t => Head(v.todo) = "rmCert"
    BY <1>3, <1>8, <1>10, <2>2, TlsAssumption DEF Task
  <2> QED BY <2>4, <2>5 DEF Holding
<1>16. CASE step \in {"rmCert", "rmKey"}
  <2>1. rest # <<>> /\ Head(rest) \in {"rmKey", "reload", "push"}
    BY <1>2, <1>16 DEF After
  <2>2. /\ disk'.caKey = disk.caKey /\ disk'.caCert = disk.caCert
        /\ disk'.srvKey = disk.srvKey /\ disk'.srvCert = disk.srvCert
        /\ \/ disk'.pendCert = NoCA
           \/ disk'.pendKey = NoCA /\ disk'.pendCert = disk.pendCert
    BY <1>3, <1>11, <1>16 DEF Written, Disk
  <2>3. (CaOk /\ PendOk /\ SrvOk)' /\ Ordered'
    BY <1>3, <1>5, <1>16, <2>2 DEF Holding, Ordered
  <2>4. lock' = t => Head(v.todo) = "rmKey"
    BY <1>3, <1>8, <1>10, <2>1, TlsAssumption DEF Task
  <2> QED BY <2>3, <2>4 DEF Holding
<1>17. CASE step = "pendKey"
  <2>1. disk' = [disk EXCEPT !.pendKey = w.key]
    BY <1>3, <1>17 DEF Written
  <2>2. rest # <<>> /\ Head(rest) = "pendCert" /\ lock' = t
    BY <1>0, <1>2, <1>3, <1>17 DEF After
  <2>3. /\ disk'.caKey = disk.caKey /\ disk'.caCert = disk.caCert /\ disk'.pendKey = w.key
        /\ disk'.pendCert = disk.pendCert /\ disk'.srvKey = disk.srvKey
        /\ disk'.srvCert = disk.srvCert
    BY <1>11, <2>1 DEF Disk
  <2> QED BY <1>3, <1>5, <1>8, <1>17, <2>2, <2>3, TlsAssumption DEF Holding, Ordered, Task
<1>18. CASE step = "pendCert"
  <2>1. disk' = [disk EXCEPT !.pendCert = w.ca]
    BY <1>3, <1>18 DEF Written
  <2>2. rest # <<>> /\ Head(rest) = "push" /\ lock' = "free"
    BY <1>0, <1>2, <1>3, <1>18 DEF After
  <2>3. /\ disk'.caKey = disk.caKey /\ disk'.caCert = disk.caCert /\ disk'.pendKey = disk.pendKey
        /\ disk'.pendCert = w.ca /\ disk'.srvKey = disk.srvKey
        /\ disk'.srvCert = disk.srvCert
    BY <1>11, <2>1 DEF Disk
  <2> QED BY <1>3, <1>5, <1>11, <1>18, <2>2, <2>3, TlsAssumption DEF Holding, Ordered, Task
<1> QED BY <1>2, <1>12, <1>13, <1>14, <1>15, <1>16, <1>17, <1>18 DEF FileStep, StepName

LEMMA ChainByWriteFails ==
    ASSUME Shapes, Chain, NEW t \in Task, WriteFails(t)
    PROVE  Chain'
<1>1. CASE At(t, "rmCert") \/ At(t, "rmKey")
  <2>1. PICK rest, step : rest = Tail(task[t].todo) /\ step = Head(task[t].todo)
    OBVIOUS
  <2>2. /\ task[t].todo # <<>> /\ step \in {"rmCert", "rmKey"}
        /\ After(step, rest) /\ Next1(t).todo = rest
    BY <1>1, <2>1, Next1Facts DEF At, Shapes
  <2>3. rest # <<>> /\ Head(rest) \in {"rmKey", "reload", "push"}
    BY <2>2 DEF After
  <2>4. /\ task' = [task EXCEPT ![t] = Next1(t)] /\ UNCHANGED <<disk, mishap>> /\ lock = t
        /\ lock' = IF Head(rest) \in {"reload", "push"} THEN "free" ELSE lock
        /\ count'.ca = count.ca
    BY <1>1, <2>1, <2>3, TroubledType DEF WriteFails, Advance, Shapes, Data
  <2>5. PICK v : v = task'[t]
    OBVIOUS
  <2>6. v.todo = rest
    BY <2>2, <2>4, <2>5 DEF Shapes, Tasks
  <2>7. SUFFICES ASSUME "torn" \notin mishap
        PROVE  Ordered' /\ (CaOk /\ PendOk /\ SrvOk)' /\ (lock' = t => (Holding(v, "rmKey"))')
    BY <2>3, <2>4, <2>5, <2>6, TlsAssumption DEF Chain, Task
  <2>8. Ordered /\ CaOk /\ PendOk /\ SrvOk
    BY <2>1, <2>2, <2>4, <2>7 DEF Chain, Holding
  <2>9. Ordered' /\ (CaOk /\ PendOk /\ SrvOk)'
    BY <2>4, <2>8 DEF Ordered, CaOk, PendOk, SrvOk, Due, issued_by, Matched
  <2> QED BY <2>9 DEF Holding
<1>2. CASE ~(At(t, "rmCert") \/ At(t, "rmKey"))
  <2>1. disk' = disk /\ lock' = "free" /\ mishap' = Broken({t}) /\ count'.ca = count.ca /\ lock = t
    BY <1>2, TroubledType DEF WriteFails, Shapes, Data
  <2> QED BY <2>1, ChainByEnd
<1> QED BY <1>1, <1>2

(* The certificate that comes near its end is due. *)
LEMMA ChainByAge ==
    ASSUME Shapes, Chain, Age
    PROVE  Chain'
<1>1. /\ disk' = [disk EXCEPT !.srvCert = [disk.srvCert EXCEPT !.old = TRUE]]
      /\ UNCHANGED <<lock, mishap, count, task>> /\ lock = "free"
  BY DEF Age
<1>2. disk \in Disk /\ disk.srvCert \in Cert
  BY DEF Shapes, Data, Disk
<1>3. /\ disk'.caKey = disk.caKey /\ disk'.caCert = disk.caCert /\ disk'.pendKey = disk.pendKey
      /\ disk'.pendCert = disk.pendCert /\ disk'.srvCert.old /\ disk'.srvCert.ca = disk.srvCert.ca
  BY <1>1, <1>2 DEF Disk, Cert
<1> QED BY <1>1, <1>3, TlsAssumption DEF Chain, Ordered, CaOk, PendOk, SrvOk, Due, Task

(* The steps that write no file and leave the lock alone. *)
LEMMA ChainByTask ==
    ASSUME Shapes, Chain, NEW t \in Task,
           \/ Reload(t) \/ ReloadFails(t) \/ PushAll(t)
           \/ \E op \in Op \cup {"push"} : Request(t, op) /\ UNCHANGED count
    PROVE  Chain'
<1>1. lock # t
  BY IdleFacts DEF Reload, ReloadFails, PushAll, Request, At, Shapes, Tasks, Files, FileStep
<1>2. \E w : task' = [task EXCEPT ![t] = w]
  <2>1. CASE Reload(t)
    BY <2>1 DEF Reload
  <2>2. CASE ReloadFails(t) \/ PushAll(t)
    BY <2>2 DEF ReloadFails, PushAll
  <2>3. CASE \E op \in Op \cup {"push"} : Request(t, op)
    <3>1. PICK op : Request(t, op)
      BY <2>3
    <3> DEFINE w == [task[t] EXCEPT !.op = op, !.todo = IF op = "push" THEN <<"push">> ELSE <<>>]
    <3>2. task' = [task EXCEPT ![t] = w]
      BY <3>1 DEF Request, Shapes, Tasks
    <3> QED BY <3>2
  <2> QED BY <2>1, <2>2, <2>3
<1>3. \A u \in Task : lock = u => task'[u] = task[u]
  BY <1>1, <1>2 DEF Shapes, Tasks
<1>4. UNCHANGED <<disk, lock>> /\ mishap \subseteq mishap'
  BY DEF Reload, ReloadFails, PushAll, Request, Broken
<1>5. count'.ca = count.ca /\ count'.serial = count.serial
  BY TroubledType DEF Reload, ReloadFails, PushAll, Request, Shapes, Data
<1> QED BY <1>3, <1>4, <1>5, ChainFrame

LEMMA ChainByCrash ==
    ASSUME Shapes, Chain, Crash
    PROVE  Chain'
<1>1. lock # "free" => lock \in Task
  BY DEF Shapes, Data
<1>2. disk' = disk /\ lock' = "free" /\ count'.ca = count.ca /\ mishap' = Broken(Task)
  BY TroubledType DEF Crash, Shapes, Data
<1> QED BY <1>1, <1>2, ChainByEnd

LEMMA ChainByStart ==
    ASSUME Shapes, Chain, Start
    PROVE  Chain'
<1>1. lock # "sweep"
  BY IdleFacts DEF Start, Shapes, Tasks, Task
<1>2. \A u \in Task : lock = u => task'[u] = task[u]
  BY <1>1 DEF Start, Shapes, Tasks
<1> QED BY <1>2, ChainFrame DEF Start

LEMMA ChainByAgents ==
    ASSUME Shapes, Chain,
           \/ CaddyLoads
           \/ \E h \in Agent : Connect(h) \/ Disconnect(h)
           \/ \E h \in Agent, s \in Slot :
                 \/ ReadActive(h, s) \/ Send(h, s) \/ Apply(h, s)
                 \/ Record(h, s) \/ GiveUp(h, s) \/ Drop(h, s)
    PROVE  Chain'
<1>1. UNCHANGED <<disk, lock, task>> /\ mishap \subseteq mishap'
  BY DEF CaddyLoads, Connect, Disconnect, ReadActive, Send, Apply, Record, GiveUp, Drop
<1>2. count' = count \/ (Trouble /\ count' = Troubled)
  BY DEF CaddyLoads, Connect, Disconnect, ReadActive, Send, Apply, Record, GiveUp, Drop
<1>3. count'.ca = count.ca /\ count'.serial = count.serial
  BY <1>2, TroubledType DEF Shapes, Data
<1> QED BY <1>1, <1>3, ChainFrame

LEMMA ChainInit ==
    ASSUME Init PROVE Chain
  BY TlsAssumption DEF Init, Chain, Ordered, CaOk, PendOk, SrvOk, Due, issued_by, Matched, Task, NoCA

LEMMA ChainGives ==
    ASSUME Chain PROVE ChainAtRest
  BY DEF Chain, ChainAtRest, CaOk, PendOk, SrvOk

-----------------------------------------------------------------------------
(* The first read of a bundle *)

(* No read is made up, and the active CA is never replaced by an earlier one. *)
LEMMA HalvesKept ==
    ASSUME Shapes, Halves, mishap \subseteq mishap',
           "torn" \notin mishap => disk.caCert <= disk'.caCert, disk'.caCert \in CA,
           \A h \in Agent, s \in Slot : push'[h][s].st = "half" =>
               \/ push'[h][s] = push[h][s]
               \/ push'[h][s].cas = {disk.caCert}
    PROVE  Halves'
<1> SUFFICES ASSUME "torn" \notin mishap', NEW h \in Agent, NEW s \in Slot,
                    push'[h][s].st = "half", NEW ca \in push'[h][s].cas
             PROVE  ca <= disk'.caCert
  BY DEF Halves
<1>1. disk.caCert \in Nat /\ disk'.caCert \in Nat /\ disk.caCert <= disk'.caCert
  BY DEF Shapes, Data, Disk, CA
<1>2. CASE push'[h][s] = push[h][s]
  <2>1. ca \in push[h][s].cas /\ push[h][s].st = "half"
    BY <1>2
  <2>2. ca \in CA
    BY <2>1 DEF Shapes, Data, Push1
  <2>3. ca <= disk.caCert
    BY <2>1 DEF Halves
  <2> QED BY <1>1, <2>2, <2>3 DEF CA
<1>3. CASE push'[h][s].cas = {disk.caCert}
  BY <1>1, <1>3
<1> QED BY <1>2, <1>3

(* The files stay, and pushes are only started or go on. *)
LEMMA HalvesSame ==
    ASSUME Shapes, Halves, mishap \subseteq mishap', disk'.caCert = disk.caCert,
           \A h \in Agent, s \in Slot : push'[h][s].st = "half" => push'[h][s] = push[h][s]
    PROVE  Halves'
<1>1. disk.caCert \in CA /\ disk.caCert <= disk.caCert
  BY DEF Shapes, Data, Disk, CA
<1> QED BY <1>1, HalvesKept

LEMMA HalvesByWriteFile ==
    ASSUME Shapes, Chain, Halves, NEW t \in Task, WriteFile(t)
    PROVE  Halves'
<1>1. lock = t /\ Shapes' /\ UNCHANGED <<mishap, push>>
  BY ShapesByWriteFile DEF WriteFile, agents
<1>2. PICK w, step : w = task[t] /\ step = Head(task[t].todo)
  OBVIOUS
<1>3. disk' = Written(w, step) /\ step \in FileStep /\ disk \in Disk
  BY <1>1, <1>2 DEF WriteFile, Shapes, Tasks, Files, Data
<1>4. disk'.caCert = IF step = "caCert" THEN w.ca ELSE disk.caCert
  BY <1>3 DEF Written, Disk, FileStep, StepName
<1>5. disk.caCert \in CA /\ disk'.caCert \in CA
  BY <1>1 DEF Shapes, Data, Disk
<1>6. "torn" \notin mishap => disk.caCert <= disk'.caCert
  <2> SUFFICES ASSUME "torn" \notin mishap PROVE disk.caCert <= disk'.caCert
    OBVIOUS
  <2>1. Ordered /\ Holding(w, step)
    BY <1>1, <1>2 DEF Chain
  <2>2. CASE step = "caCert"
    <3>1. disk.pendCert = w.ca /\ disk'.caCert = w.ca
      BY <1>4, <2>1, <2>2 DEF Holding
    <3>2. disk.pendCert # NoCA
      BY <1>5, <3>1, TlsAssumption DEF CA, NoCA
    <3> QED BY <2>1, <3>1, <3>2 DEF Ordered
  <2>3. CASE step # "caCert"
    BY <1>4, <1>5, <2>3 DEF CA
  <2> QED BY <2>2, <2>3
<1> QED BY <1>1, <1>5, <1>6, HalvesKept

LEMMA HalvesByTask ==
    ASSUME Shapes, Halves, NEW t \in Task,
           \/ \E op \in Op \cup {"push"} : Request(t, op)
           \/ Lock(t) \/ Reload(t) \/ PushAll(t) \/ ReloadFails(t) \/ WriteFails(t)
    PROVE  Halves'
<1>1. disk' = disk /\ mishap \subseteq mishap'
  BY DEF Request, Lock, Reload, PushAll, ReloadFails, WriteFails, Broken
<1>2. CASE PushAll(t)
  <2>1. ASSUME NEW h \in Agent, NEW s \in Slot, push'[h][s].st = "half"
        PROVE  push'[h][s] = push[h][s]
    <3>1. push'[h] = push[h] \/ push'[h] = [push[h] EXCEPT !["admin"].st = "reading"]
      BY <1>2 DEF PushAll
    <3>2. push[h] \in [Slot -> Push1] /\ "admin" \in Slot
      BY DEF Shapes, Data, Slot
    <3> QED BY <2>1, <3>1, <3>2 DEF Push1
  <2> QED BY <1>1, <2>1, HalvesSame
<1>3. CASE push' = push
  BY <1>1, <1>3, HalvesSame
<1> QED BY <1>2, <1>3 DEF Request, Lock, Reload, ReloadFails, WriteFails, agents

LEMMA HalvesByWorld ==
    ASSUME Shapes, Halves,
           Crash \/ Start \/ CaddyLoads \/ Age \/ \E h \in Agent : Connect(h) \/ Disconnect(h)
    PROVE  Halves'
<1>1. disk'.caCert = disk.caCert /\ mishap \subseteq mishap'
  <2>1. CASE Age
    BY <2>1 DEF Age, Shapes, Data, Disk
  <2>2. CASE ~Age
    BY <2>2 DEF Crash, Start, CaddyLoads, Connect, Disconnect, Broken
  <2> QED BY <2>1, <2>2
<1>2. CASE Crash
  <2>1. ASSUME NEW h \in Agent, NEW s \in Slot PROVE push'[h][s].st # "half"
    <3>1. push'[h][s] = Gone(push[h][s]) /\ push[h][s] \in Push1
      BY <1>2 DEF Crash, Shapes, Data
    <3> QED BY <3>1 DEF Gone, Push1, NoPush
  <2> QED BY <1>1, <2>1, HalvesSame
<1>3. ASSUME NEW g \in Agent, Connect(g) PROVE Halves'
  <2>1. ASSUME NEW h \in Agent, NEW s \in Slot, push'[h][s].st = "half"
        PROVE  push'[h][s] = push[h][s]
    <3>1. push'[h] = push[h] \/ push'[h] = [push[h] EXCEPT !["connect"].st = "reading"]
      BY <1>3 DEF Connect, Shapes, Data
    <3>2. push[h] \in [Slot -> Push1] /\ "connect" \in Slot
      BY DEF Shapes, Data, Slot
    <3> QED BY <2>1, <3>1, <3>2 DEF Push1
  <2> QED BY <1>1, <2>1, HalvesSame
<1>4. CASE push' = push
  BY <1>1, <1>4, HalvesSame
<1> QED BY <1>2, <1>3, <1>4 DEF Start, CaddyLoads, Age, Disconnect, agents

LEMMA PutFacts ==
    ASSUME Shapes, NEW h \in Agent, NEW s \in Slot, NEW p, push' = [push EXCEPT ![h][s] = p]
    PROVE  /\ push'[h][s] = p
           /\ \A o \in Slot : o # s => push'[h][o] = push[h][o]
           /\ \A g \in Agent : g # h => push'[g] = push[g]
<1>1. push' = [push EXCEPT ![h] = [push[h] EXCEPT ![s] = p]]
  OBVIOUS
<1>2. push'[h] = [push[h] EXCEPT ![s] = p] /\ push[h] \in [Slot -> Push1]
  BY <1>1 DEF Shapes, Data
<1> QED BY <1>1, <1>2 DEF Shapes, Data

LEMMA HalvesByPush ==
    ASSUME Shapes, Halves, NEW h \in Agent, NEW s \in Slot,
           \/ ReadActive(h, s) \/ Send(h, s) \/ Apply(h, s)
           \/ Record(h, s) \/ GiveUp(h, s) \/ Drop(h, s)
    PROVE  Halves'
<1>1. disk' = disk /\ mishap \subseteq mishap'
  BY DEF ReadActive, Send, Apply, Record, GiveUp, Drop
<1>2. push[h][s] \in Push1 /\ disk.caCert \in CA /\ disk.caCert <= disk.caCert
  BY DEF Shapes, Data, Disk, CA
<1>3. PICK p : /\ push' = [push EXCEPT ![h][s] = p]
               /\ \/ p.cas = {disk.caCert}
                  \/ p.st # "half"
  <2>0. NoPush.st # "half"
    BY DEF NoPush
  <2>1. CASE ReadActive(h, s)
    <3>1. PICK p : p = [st |-> "half", cas |-> {disk.caCert}]
      OBVIOUS
    <3>2. p.cas = {disk.caCert}
      BY <3>1
    <3>3. push' = [push EXCEPT ![h][s] = p]
      BY <2>1, <3>1 DEF ReadActive
    <3> QED BY <3>2, <3>3
  <2>2. CASE Send(h, s)
    <3>1. CASE h \in conn
      <4>1. PICK p : p = [st |-> "sent", cas |-> trust_bundle(push[h][s].cas, disk)]
        OBVIOUS
      <4>2. p.st # "half"
        BY <4>1
      <4>3. push' = [push EXCEPT ![h][s] = p]
        BY <2>2, <3>1, <4>1 DEF Send
      <4> QED BY <4>2, <4>3
    <3>2. CASE h \notin conn
      BY <2>0, <2>2, <3>2 DEF Send
    <3> QED BY <3>1, <3>2
  <2>3. CASE Apply(h, s) \/ GiveUp(h, s)
    <3>1. PICK p : /\ push' = [push EXCEPT ![h][s] = p]
                   /\ \/ p = NoPush \/ p = [push[h][s] EXCEPT !.st = "applied"]
                      \/ p = [push[h][s] EXCEPT !.st = "late"]
      <4>1. CASE Apply(h, s)
        BY <4>1 DEF Apply
      <4>2. CASE GiveUp(h, s)
        BY <4>2 DEF GiveUp
      <4> QED BY <2>3, <4>1, <4>2
    <3>2. p.st # "half"
      BY <1>2, <2>0, <3>1 DEF Push1
    <3> QED BY <3>1, <3>2
  <2>4. CASE Record(h, s) \/ Drop(h, s)
    BY <2>0, <2>4 DEF Record, Drop
  <2> QED BY <2>1, <2>2, <2>3, <2>4
<1>4. /\ push'[h][s] = p
      /\ \A o \in Slot : o # s => push'[h][o] = push[h][o]
      /\ \A g \in Agent : g # h => push'[g] = push[g]
  <2>1. push' = [push EXCEPT ![h][s] = p]
    BY <1>3
  <2> QED BY <2>1, PutFacts
<1>5. \A g \in Agent, o \in Slot : push'[g][o].st = "half" =>
         push'[g][o] = push[g][o] \/ push'[g][o].cas = {disk.caCert}
  BY <1>3, <1>4
<1>6. disk'.caCert = disk.caCert
  BY <1>1
<1> QED BY <1>1, <1>2, <1>5, <1>6, HalvesKept

-----------------------------------------------------------------------------
(* The agents *)

(* For one agent nothing gets into flight and nothing more is known of it, the
   certificates stay, and the lock moves on to nothing that is about trust. *)
SameAgent(h) ==
    /\ trust'[h] = trust[h] /\ known'[h] \subseteq known[h]
    /\ \A s \in Slot : push'[h][s].st \in InFlight =>
          /\ push[h][s].st \in InFlight /\ push'[h][s].cas = push[h][s].cas
          /\ push'[h][s].st = "applied" => push[h][s].st = "applied"

SameFiles ==
    /\ disk'.caCert = disk.caCert /\ disk'.pendCert = disk.pendCert /\ count'.ca = count.ca
    /\ \A t \in Task : lock' = t =>
          \/ lock = t /\ task'[t] = task[t]
          \/ Head(task'[t].todo) \notin {"caKey", "caCert", "pendKey", "pendCert"}

LEMMA TrustsSame ==
    ASSUME NEW h, SameAgent(h), NEW ca, Trusts(h, ca)
    PROVE  /\ ca \in trust'[h]
           /\ \A s \in Slot : push'[h][s].st \in InFlight => ca \in push'[h][s].cas
  BY DEF SameAgent, Trusts

LEMMA UnknownSame ==
    ASSUME NEW h, SameAgent(h), NEW ca, Unknown(h, ca)
    PROVE  /\ ca \notin known'[h]
           /\ \A s \in Slot : push'[h][s].st \in InFlight => ca \notin push'[h][s].cas
  BY DEF SameAgent, Unknown

LEMMA PushesSame ==
    ASSUME NEW h, SameAgent(h), OnePush(h), Seen(h), count.ca \in Nat, count'.ca \in Nat,
           count.ca <= count'.ca
    PROVE  OnePush(h)' /\ Seen(h)'
<1>1. OnePush(h)'
  BY DEF SameAgent, OnePush, InFlight
<1>2. known'[h] \subseteq 1..count'.ca
  BY DEF SameAgent, Seen
<1>3. ASSUME NEW s \in Slot, push'[h][s].st \in InFlight
      PROVE  push'[h][s].cas \subseteq 1..count'.ca
  BY <1>3 DEF SameAgent, Seen
<1> QED BY <1>1, <1>2, <1>3 DEF Seen

LEMMA TrustOfSame ==
    ASSUME NEW h, TrustOf(h), SameAgent(h), SameFiles, count.ca \in Nat
    PROVE  TrustOf(h)'
<1>1. OnePush(h)' /\ Seen(h)'
  BY PushesSame DEF TrustOf, SameFiles
<1>2. Trusts(h, disk.caCert)'
  BY TrustsSame DEF TrustOf, SameFiles, Trusts
<1>3. (disk.pendCert \in known[h] => Trusts(h, disk.pendCert))'
  BY TrustsSame DEF TrustOf, SameFiles, SameAgent, Trusts
<1>4. ASSUME NEW t \in Task, lock' = t
      PROVE  /\ (Head(task[t].todo) \in {"caKey", "caCert"} => Trusts(h, task[t].ca))'
             /\ (Head(task[t].todo) \in {"pendKey", "pendCert"} => Unknown(h, task[t].ca))'
  BY <1>4, TrustsSame, UnknownSame DEF TrustOf, SameFiles, Trusts, Unknown
<1> QED BY <1>1, <1>2, <1>3, <1>4 DEF TrustOf

LEMMA TrustSame ==
    ASSUME Shapes, Trust, mishap \subseteq mishap', SameFiles, \A h \in Agent : SameAgent(h)
    PROVE  Trust'
<1>1. count.ca \in Nat
  BY TlsAssumption DEF Shapes, Data, Count, CA
<1> QED BY <1>1, TrustOfSame DEF Trust

LEMMA TrustByTask ==
    ASSUME Shapes, Trust, NEW t \in Task,
           \/ Reload(t) \/ ReloadFails(t) \/ PushAll(t)
           \/ \E op \in Op \cup {"push"} : Request(t, op) /\ UNCHANGED count
    PROVE  Trust'
<1>1. lock # t
  BY IdleFacts DEF Reload, ReloadFails, PushAll, Request, At, Shapes, Tasks, Files, FileStep
<1>2. \A u \in Task : u # t => task'[u] = task[u]
  BY DEF Reload, ReloadFails, PushAll, Request, Shapes, Tasks
<1>3. UNCHANGED <<disk, lock>> /\ mishap \subseteq mishap'
  BY DEF Reload, ReloadFails, PushAll, Request, Broken
<1>4. count'.ca = count.ca
  BY TroubledType DEF Reload, ReloadFails, PushAll, Request, Shapes, Data
<1>5. SameFiles
  BY <1>1, <1>2, <1>3, <1>4 DEF SameFiles
<1>6. ASSUME NEW h \in Agent PROVE SameAgent(h)
  <2>1. CASE PushAll(t)
    <3>1. push'[h] = push[h] \/ push'[h] = [push[h] EXCEPT !["admin"].st = "reading"]
      BY <2>1 DEF PushAll
    <3>2. push[h] \in [Slot -> Push1]
      BY DEF Shapes, Data
    <3>3. \A s \in Slot : push'[h][s] = push[h][s] \/ push'[h][s].st = "reading"
      BY <3>1, <3>2 DEF Push1
    <3> QED BY <2>1, <3>3 DEF PushAll, SameAgent, InFlight
  <2>2. CASE UNCHANGED agents
    BY <2>2 DEF agents, SameAgent
  <2> QED BY <2>1, <2>2 DEF Reload, ReloadFails, Request
<1> QED BY <1>3, <1>5, <1>6, TrustSame

LEMMA TrustByWriteFails ==
    ASSUME Shapes, Trust, NEW t \in Task, WriteFails(t)
    PROVE  Trust'
<1>0. disk' = disk /\ count'.ca = count.ca /\ UNCHANGED agents /\ mishap \subseteq mishap' /\ lock = t
  BY TroubledType DEF WriteFails, Shapes, Data, Broken
<1>1. CASE At(t, "rmCert") \/ At(t, "rmKey")
  <2>1. /\ task[t].todo # <<>> /\ Head(task[t].todo) \in {"rmCert", "rmKey"}
        /\ task' = [task EXCEPT ![t] = Next1(t)]
        /\ lock' \in {lock, "free"}
    BY <1>1 DEF WriteFails, Advance, At
  <2>2. /\ After(Head(task[t].todo), Tail(task[t].todo)) /\ Next1(t).todo = Tail(task[t].todo)
    BY <2>1, Next1Facts DEF Shapes
  <2>3. Head(task'[t].todo) \notin {"caKey", "caCert", "pendKey", "pendCert"}
    BY <2>1, <2>2 DEF After, Shapes, Tasks
  <2>4. SameFiles
    BY <1>0, <2>1, <2>3, TlsAssumption DEF SameFiles, Task
  <2> QED BY <1>0, <2>4, TrustSame DEF SameAgent, agents
<1>2. CASE ~(At(t, "rmCert") \/ At(t, "rmKey"))
  <2>1. SameFiles
    BY <1>0, <1>2, TlsAssumption DEF SameFiles, WriteFails, Task
  <2> QED BY <1>0, <2>1, TrustSame DEF SameAgent, agents
<1> QED BY <1>1, <1>2

LEMMA TrustByCrash ==
    ASSUME Shapes, Trust, Crash
    PROVE  Trust'
<1>1. SameFiles
  BY TroubledType, TlsAssumption DEF Crash, Shapes, Data, SameFiles, Task
<1>2. ASSUME NEW h \in Agent PROVE SameAgent(h)
  <2>1. ASSUME NEW s \in Slot
        PROVE  push'[h][s].st \in InFlight =>
                 /\ push[h][s].st \in InFlight /\ push'[h][s].cas = push[h][s].cas
                 /\ push'[h][s].st = "applied" => push[h][s].st = "applied"
    <3>1. push'[h][s] = Gone(push[h][s]) /\ push[h][s] \in Push1
      BY DEF Crash, Shapes, Data
    <3> QED BY <3>1 DEF Gone, Push1, NoPush, InFlight
  <2> QED BY <2>1 DEF Crash, SameAgent
<1>3. mishap \subseteq mishap'
  BY DEF Crash, Broken
<1> QED BY <1>1, <1>2, <1>3, TrustSame

LEMMA TrustByWorld ==
    ASSUME Shapes, Trust,
           Start \/ CaddyLoads \/ Age \/ \E h \in Agent : Connect(h) \/ Disconnect(h)
    PROVE  Trust'
<1>1. SameFiles
  <2>1. CASE Start
    <3>1. lock # "sweep"
      BY <2>1, IdleFacts DEF Start, Shapes, Tasks, Task
    <3> QED BY <2>1, <3>1 DEF Start, Shapes, Tasks, SameFiles
  <2>2. CASE Age
    <3>1. disk' = [disk EXCEPT !.srvCert = [disk.srvCert EXCEPT !.old = TRUE]]
      BY <2>2 DEF Age
    <3>2. disk'.caCert = disk.caCert /\ disk'.pendCert = disk.pendCert
      BY <3>1 DEF Shapes, Data, Disk
    <3> QED BY <2>2, <3>2 DEF Age, SameFiles
  <2>3. CASE CaddyLoads
    BY <2>3 DEF CaddyLoads, SameFiles
  <2>4. CASE \E h \in Agent : Connect(h) \/ Disconnect(h)
    BY <2>4 DEF Connect, Disconnect, SameFiles
  <2> QED BY <2>1, <2>2, <2>3, <2>4
<1>2. ASSUME NEW h \in Agent PROVE SameAgent(h)
  <2>1. CASE UNCHANGED <<trust, push, known>>
    BY <2>1 DEF SameAgent
  <2>2. ASSUME NEW g \in Agent, Connect(g) PROVE SameAgent(h)
    <3>1. push[h] \in [Slot -> Push1] /\ push[g] \in [Slot -> Push1]
      BY DEF Shapes, Data
    <3>2. push'[h] = push[h] \/ push'[h] = [push[h] EXCEPT !["connect"].st = "reading"]
      BY <2>2 DEF Connect, Shapes, Data
    <3>3. \A s \in Slot : push'[h][s] = push[h][s] \/ push'[h][s].st = "reading"
      BY <3>1, <3>2 DEF Push1
    <3> QED BY <2>2, <3>3 DEF Connect, SameAgent, InFlight
  <2> QED BY <2>1, <2>2 DEF Start, CaddyLoads, Age, Disconnect, agents
<1>3. mishap' = mishap
  BY DEF Start, CaddyLoads, Age, Connect, Disconnect
<1> QED BY <1>1, <1>2, <1>3, TrustSame

(* One file is written.  The CA that becomes active is one every agent trusts; the
   one that becomes pending is one no agent has heard of. *)
LEMMA TrustByWriteFile ==
    ASSUME Shapes, Chain, Trust, NEW t \in Task, WriteFile(t)
    PROVE  Trust'
<1>0. lock = t /\ UNCHANGED <<agents, mishap, count>>
  BY ShapesByWriteFile DEF WriteFile
<1>1. PICK w, step, rest :
        w = task[t] /\ step = Head(task[t].todo) /\ rest = Tail(task[t].todo)
  OBVIOUS
<1>2. /\ task[t].todo # <<>> /\ step \in FileStep
      /\ After(step, rest) /\ Next1(t).todo = rest
      /\ rest # <<>> => Next1(t) = [w EXCEPT !.todo = rest]
      /\ w \in TaskType
  BY <1>0, <1>1, Next1Facts DEF Shapes, Tasks, Files
<1>3. /\ disk' = Written(w, step) /\ task'[t] = Next1(t)
      /\ lock' = IF rest = <<>> \/ Head(rest) \in {"reload", "push"} THEN "free" ELSE lock
  BY <1>1 DEF WriteFile, Advance, Shapes, Tasks
<1>4. PICK v : v = task'[t]
  OBVIOUS
<1>5. v.todo = rest /\ (rest # <<>> => v.ca = w.ca)
  BY <1>2, <1>3, <1>4 DEF TaskType
<1>6. SUFFICES ASSUME mishap \subseteq {"unserved"}, NEW h \in Agent PROVE TrustOf(h)'
  BY <1>0 DEF Trust
<1>7. TrustOf(h) /\ known[h] \subseteq CA
  BY <1>6 DEF Trust, Shapes, Data
<1>8. /\ OnePush(h)' /\ Seen(h)'
      /\ \A ca : Trusts(h, ca) <=> Trusts(h, ca)'
      /\ \A ca : Unknown(h, ca) <=> Unknown(h, ca)'
  <2>1. OnePush(h)' /\ Seen(h)'
    BY <1>0, <1>7 DEF agents, OnePush, Seen, TrustOf
  <2>2. \A ca : Trusts(h, ca) <=> Trusts(h, ca)'
    BY <1>0 DEF agents, Trusts
  <2>3. \A ca : Unknown(h, ca) <=> Unknown(h, ca)'
    BY <1>0 DEF agents, Unknown
  <2> QED BY <2>1, <2>2, <2>3
<1>9. /\ Trusts(h, disk.caCert)
      /\ disk.pendCert \in known[h] => Trusts(h, disk.pendCert)
      /\ step \in {"caKey", "caCert"} => Trusts(h, w.ca)
      /\ step \in {"pendKey", "pendCert"} => Unknown(h, w.ca)
  BY <1>0, <1>1, <1>7 DEF TrustOf
<1>10. /\ disk'.caCert = IF step = "caCert" THEN w.ca ELSE disk.caCert
       /\ disk'.pendCert = IF step = "pendCert" THEN w.ca
                           ELSE IF step = "rmCert" THEN NoCA ELSE disk.pendCert
  <2>1. disk \in Disk
    BY DEF Shapes, Data
  <2> QED BY <1>2, <1>3, <2>1 DEF Written, Disk, FileStep, StepName
<1>11. known'[h] = known[h] /\ NoCA \notin known[h]
  BY <1>0, <1>7, TlsAssumption DEF agents, CA, NoCA
<1>12. PICK ac, pc : ac = disk'.caCert /\ pc = disk'.pendCert
  OBVIOUS
<1>13. Trusts(h, ac)' /\ (pc \in known'[h] => Trusts(h, pc)')
  BY <1>8, <1>9, <1>10, <1>11, <1>12 DEF Unknown
<1>14. ASSUME lock' = t
       PROVE  /\ Head(v.todo) \in {"caKey", "caCert"} => Trusts(h, v.ca)'
              /\ Head(v.todo) \in {"pendKey", "pendCert"} => Unknown(h, v.ca)'
  <2>1. rest # <<>>
    BY <1>3, <1>14, TlsAssumption DEF Task
  <2>2. /\ Head(rest) \in {"caKey", "caCert"} => step = "caKey"
        /\ Head(rest) \in {"pendKey", "pendCert"} => step = "pendKey"
    BY <1>2, <2>1 DEF After, FileStep, StepName
  <2> QED BY <1>5, <1>8, <1>9, <2>1, <2>2
<1>15. \A u \in Task : lock' = u => u = t
  BY <1>0, <1>3, TlsAssumption DEF Task
<1> QED BY <1>4, <1>8, <1>12, <1>13, <1>14, <1>15 DEF TrustOf, Trusts, Unknown

(* The lock is taken: what an activation is to make active every agent is known to
   trust, and a new CA is in no bundle yet. *)
LEMMA TrustByLock ==
    ASSUME Shapes, Trust, NEW t \in Task, Lock(t)
    PROVE  Trust'
<1>0. task[t].op \in Op /\ lock = "free" /\ disk' = disk /\ UNCHANGED agents
  BY DEF Lock
<1>1. CASE task[t].op = "activate" /\ NoCA \in {disk.pendCert, disk.pendKey}
  <2>1. SameFiles /\ mishap' = mishap
    BY <1>0, <1>1, TlsAssumption DEF Lock, SameFiles, Task
  <2> QED BY <1>0, <2>1, TrustSame DEF SameAgent, agents
<1>2. CASE ~(task[t].op = "activate" /\ NoCA \in {disk.pendCert, disk.pendKey})
  <2>1. PICK op, ca, key :
          /\ op = task[t].op
          /\ op = "activate" => ca = disk.pendCert
          /\ op = "begin" => ca = count.ca + 1
          /\ lock' = t
          /\ task' = [task EXCEPT ![t] = [op |-> op, todo |-> Script(op), ca |-> ca, key |-> key]]
          /\ count' = [count EXCEPT
                         !.ca = IF op = "begin" THEN @ + 1 ELSE @,
                         !.serial = IF op \in {"renew", "activate", "startup"}
                                    THEN @ + 1 ELSE @]
          /\ mishap' = IF op = "activate" /\ ~Ready THEN mishap \cup {"rushed"} ELSE mishap
    <3> DEFINE o == task[t].op
               pair == CASE o = "activate" -> <<disk.pendCert, disk.pendKey>>
                         [] o = "begin"    -> <<count.ca + 1, count.ca + 1>>
                         [] OTHER          -> <<disk.caCert, disk.caKey>>
    <3>1. /\ o = "activate" => pair[1] = disk.pendCert
          /\ o = "begin" => pair[1] = count.ca + 1
      OBVIOUS
    <3>2. /\ lock' = t
          /\ task' = [task EXCEPT ![t] = [op |-> o, todo |-> Script(o),
                                          ca |-> pair[1], key |-> pair[2]]]
          /\ count' = [count EXCEPT
                         !.ca = IF o = "begin" THEN @ + 1 ELSE @,
                         !.serial = IF o \in {"renew", "activate", "startup"}
                                    THEN @ + 1 ELSE @]
          /\ mishap' = IF o = "activate" /\ ~Ready THEN mishap \cup {"rushed"} ELSE mishap
      BY <1>2 DEF Lock
    <3> HIDE DEF pair
    <3> QED BY <3>1, <3>2
  <2>2. count.ca \in Nat /\ count'.ca \in Nat /\ count.ca <= count'.ca
    <3>1. count.ca \in Nat
      BY TlsAssumption DEF Shapes, Data, Count, CA
    <3>2. count'.ca = IF op = "begin" THEN count.ca + 1 ELSE count.ca
      BY <2>1 DEF Shapes, Data, Count
    <3> QED BY <3>1, <3>2
  <2>3. PICK v : v = task'[t]
    OBVIOUS
  <2>4. v.todo = Script(op) /\ v.ca = ca
    BY <2>1, <2>3 DEF Shapes, Tasks
  <2>5. SUFFICES ASSUME mishap' \subseteq {"unserved"}, NEW h \in Agent PROVE TrustOf(h)'
    BY DEF Trust
  <2>6. mishap \subseteq {"unserved"} /\ (op = "activate" => Ready)
    BY <2>1, <2>5
  <2>7. TrustOf(h) /\ SameAgent(h)
    BY <1>0, <2>6 DEF Trust, SameAgent, agents
  <2>8. OnePush(h)' /\ Seen(h)'
    BY <2>2, <2>7, PushesSame DEF TrustOf
  <2>9. Trusts(h, disk.caCert)' /\ (disk.pendCert \in known[h] => Trusts(h, disk.pendCert))'
    BY <1>0, <2>7, TrustsSame DEF TrustOf, Trusts, agents
  <2>10. op = "activate" => Trusts(h, ca)
    BY <2>1, <2>6, <2>7 DEF Ready, TrustOf
  <2>11. op = "begin" => Unknown(h, ca)
    BY <2>1, <2>2, <2>7 DEF TrustOf, Seen, Unknown
  <2>12. /\ Head(v.todo) \in {"caKey", "caCert"} => op = "activate"
         /\ Head(v.todo) \in {"pendKey", "pendCert"} => op = "begin"
    BY <1>0, <2>1, <2>4, ScriptFacts, OpFacts
  <2>13. /\ Head(v.todo) \in {"caKey", "caCert"} => Trusts(h, v.ca)'
         /\ Head(v.todo) \in {"pendKey", "pendCert"} => Unknown(h, v.ca)'
    BY <2>4, <2>7, <2>10, <2>11, <2>12, TrustsSame, UnknownSame DEF Trusts, Unknown
  <2> QED BY <2>1, <2>3, <2>8, <2>9, <2>13 DEF TrustOf, Trusts, Unknown
<1> QED BY <1>1, <1>2

LEMMA TrustInit ==
    ASSUME Init PROVE Trust
  BY TlsAssumption DEF Init, Trust, TrustOf, OnePush, Seen, Trusts, Unknown, InFlight, NoPush, Task, NoCA

(* A push is read to its end and sent.  It has the active CA in it, unless an
   activation came between, the pending one, and the one an activation works with,
   which still is the pending one; a CA that is only being made it has not. *)
LEMMA TrustBySend ==
    ASSUME Shapes, Chain, Halves, Trust, NEW h \in Agent, NEW s \in Slot, Send(h, s), h \in conn
    PROVE  Trust'
<1>a. PICK b : b = trust_bundle(push[h][s].cas, disk)
  OBVIOUS
<1>0. /\ push' = [push EXCEPT ![h][s] = [st |-> "sent", cas |-> b]]
      /\ mishap' = mishap \cup SentBadly(h, s) /\ push[h][s].st = "half"
      /\ UNCHANGED <<disk, lock, task, trust, known, count>>
  BY <1>a DEF Send
<1>1. SUFFICES ASSUME mishap' \subseteq {"unserved"} PROVE \A g \in Agent : TrustOf(g)'
  BY DEF Trust
<1>2. /\ mishap \subseteq {"unserved"} /\ \A o \in Slot \ {s} : push[h][o].st = "none"
      /\ disk.caCert \in b
  BY <1>0, <1>1, <1>a DEF SentBadly
<1>3. \A g \in Agent : TrustOf(g)
  BY <1>2 DEF Trust
<1>4. PICK p : p = [st |-> "sent", cas |-> b]
  OBVIOUS
<1>5. /\ push'[h][s] = p /\ p.st = "sent" /\ p.cas = b
      /\ \A o \in Slot : o # s => push'[h][o] = push[h][o]
      /\ \A g \in Agent : g # h => push'[g] = push[g]
  <2>1. push' = [push EXCEPT ![h][s] = p]
    BY <1>0, <1>4
  <2>2. /\ push'[h][s] = p
        /\ \A o \in Slot : o # s => push'[h][o] = push[h][o]
        /\ \A g \in Agent : g # h => push'[g] = push[g]
    BY <2>1, PutFacts
  <2> QED BY <1>4, <2>2
<1>b. /\ \A ca \in b : ca \in CA /\ (ca <= disk.caCert \/ ca = disk.pendCert)
      /\ disk.pendCert # NoCA => disk.pendCert \in b
  <2>1. push[h][s].cas \subseteq CA /\ disk.pendCert \in CA \cup {NoCA}
    BY DEF Shapes, Data, Push1, Disk
  <2>2. \A ca \in push[h][s].cas : ca <= disk.caCert
    BY <1>0, <1>2 DEF Halves
  <2> QED BY <1>a, <2>1, <2>2 DEF trust_bundle
<1>6. count.ca \in Nat /\ disk.caCert \in CA /\ disk.pendCert \in CA \cup {NoCA}
      /\ known[h] \subseteq CA
  BY TlsAssumption DEF Shapes, Data, Count, Disk, CA
<1>7. ASSUME NEW g \in Agent, g # h PROVE TrustOf(g)'
  <2>1. SameAgent(g)
    BY <1>0, <1>5, <1>7 DEF SameAgent
  <2>2. SameFiles
    BY <1>0 DEF SameFiles
  <2> QED BY <1>3, <1>6, <2>1, <2>2, TrustOfSame
<1>8. TrustOf(h)'
  <2>1. OnePush(h)'
    BY <1>0, <1>2, <1>5 DEF OnePush, InFlight
  <2>2. Ordered /\ \A t \in Task : lock = t => Holding(task[t], Head(task[t].todo))
    BY <1>2 DEF Chain
  <2>3. p.cas \subseteq 1..count.ca
    <3>1. ASSUME NEW ca \in b PROVE ca \in 1..count.ca
      <4>1. ca \in CA /\ (ca <= disk.caCert \/ ca = disk.pendCert)
        BY <1>b
      <4>2. ca = disk.pendCert => ca <= count.ca
        BY <2>2, <4>1, TlsAssumption DEF Ordered, CA, NoCA
      <4>3. disk.caCert <= count.ca
        BY <2>2 DEF Ordered
      <4> QED BY <1>6, <4>1, <4>2, <4>3 DEF CA
    <3> QED BY <1>5, <3>1
  <2>4. Seen(h)'
    BY <1>0, <1>3, <1>5, <2>3 DEF TrustOf, Seen
  <2>5. ASSUME NEW ca, Trusts(h, ca), ca \in p.cas PROVE Trusts(h, ca)'
    BY <1>0, <1>5, <2>5 DEF Trusts
  <2>6. Trusts(h, disk.caCert)'
    <3>1. disk.caCert \in p.cas
      BY <1>2, <1>5
    <3> QED BY <1>0, <1>3, <2>5, <3>1 DEF TrustOf, Trusts
  <2>7. (disk.pendCert \in known[h] => Trusts(h, disk.pendCert))'
    <3>1. disk.pendCert \in known[h] => disk.pendCert \in p.cas
      BY <1>5, <1>6, <1>b, TlsAssumption DEF CA, NoCA
    <3> QED BY <1>0, <1>3, <2>5, <3>1 DEF TrustOf, Trusts
  <2>8. ASSUME NEW t \in Task, lock = t
        PROVE  /\ (Head(task[t].todo) \in {"caKey", "caCert"} => Trusts(h, task[t].ca))'
               /\ (Head(task[t].todo) \in {"pendKey", "pendCert"} => Unknown(h, task[t].ca))'
    <3>1. PICK w, step : w = task[t] /\ step = Head(task[t].todo)
      OBVIOUS
    <3>2. Holding(w, step)
      BY <2>2, <2>8, <3>1
    <3>3. task[t].todo # <<>> /\ step \in FileStep
      BY <2>8, <3>1 DEF Shapes, Tasks, Files
    <3>4. w.op \in Op \cup {"push"} /\ w.todo \in TodoOf(w.op) /\ (w.op \in Op => w.ca \in CA)
      BY <3>1, <3>3, Next1Facts DEF Shapes
    <3>5. w.op # "push"
      BY <3>1, <3>3, <3>4 DEF TodoOf, Push, FileStep, Op
    <3>6. step \in {"caKey", "caCert"} => Trusts(h, w.ca)'
      <4>1. step \in {"caKey", "caCert"} => w.ca \in p.cas
        BY <1>5, <1>b, <3>2, <3>4, <3>5, TlsAssumption DEF Holding, CA, NoCA
      <4> QED BY <1>3, <2>5, <2>8, <3>1, <4>1 DEF TrustOf
    <3>7. step \in {"pendKey", "pendCert"} => Unknown(h, w.ca)'
      <4>1. step \in {"pendKey", "pendCert"} => w.ca \notin p.cas
        <5>1. step \in {"pendKey", "pendCert"} =>
                 w.ca \in CA /\ disk.caCert < w.ca /\ disk.pendCert < w.ca
          BY <3>2, <3>4, <3>5 DEF Holding
        <5> QED BY <1>5, <1>6, <1>b, <5>1 DEF CA, NoCA
      <4>2. step \in {"pendKey", "pendCert"} => Unknown(h, w.ca)
        BY <1>3, <2>8, <3>1 DEF TrustOf
      <4> QED BY <1>0, <1>5, <4>1, <4>2 DEF Unknown
    <3> QED BY <1>0, <3>1, <3>6, <3>7 DEF Trusts, Unknown
  <2> QED BY <1>0, <2>1, <2>4, <2>6, <2>7, <2>8 DEF TrustOf
<1> QED BY <1>7, <1>8

(* The agent replaces its file by a bundle that was in flight. *)
LEMMA TrustByApply ==
    ASSUME Shapes, Trust, NEW h \in Agent, NEW s \in Slot, Apply(h, s)
    PROVE  Trust'
<1>0. PICK p : /\ p = IF push[h][s].st = "sent" THEN [push[h][s] EXCEPT !.st = "applied"] ELSE NoPush
               /\ push' = [push EXCEPT ![h][s] = p]
               /\ push[h][s].st \in {"sent", "late"}
               /\ trust' = [trust EXCEPT ![h] = push[h][s].cas]
               /\ UNCHANGED <<disk, lock, task, known, count, mishap>>
  BY DEF Apply
<1>1. SUFFICES ASSUME mishap \subseteq {"unserved"} PROVE \A g \in Agent : TrustOf(g)'
  BY <1>0 DEF Trust
<1>2. \A g \in Agent : TrustOf(g)
  BY <1>1 DEF Trust
<1>3. /\ push'[h][s] = p
      /\ \A o \in Slot : o # s => push'[h][o] = push[h][o]
      /\ \A g \in Agent : g # h => push'[g] = push[g]
      /\ trust'[h] = push[h][s].cas
      /\ \A g \in Agent : g # h => trust'[g] = trust[g]
  <2>1. push' = [push EXCEPT ![h][s] = p]
    BY <1>0
  <2>2. /\ push'[h][s] = p
        /\ \A o \in Slot : o # s => push'[h][o] = push[h][o]
        /\ \A g \in Agent : g # h => push'[g] = push[g]
    BY <2>1, PutFacts
  <2> QED BY <1>0, <2>2 DEF Shapes, Data
<1>4. p.st \in InFlight => p.cas = push[h][s].cas
  BY <1>0 DEF Shapes, Data, Push1, NoPush, InFlight
<1>5. count.ca \in Nat
  BY TlsAssumption DEF Shapes, Data, Count, CA
<1>6. ASSUME NEW g \in Agent, g # h PROVE TrustOf(g)'
  <2>1. SameAgent(g) /\ SameFiles
    BY <1>0, <1>3, <1>6 DEF SameAgent, SameFiles
  <2> QED BY <1>2, <1>5, <2>1, TrustOfSame
<1>7. TrustOf(h)'
  <2>0. \A o \in Slot : push[h][o].st \in InFlight => o = s
    BY <1>0, <1>2 DEF TrustOf, OnePush, InFlight
  <2>1. OnePush(h)'
    BY <1>3, <1>4, <2>0 DEF OnePush, InFlight
  <2>2. Seen(h)'
    BY <1>0, <1>2, <1>3, <1>4 DEF TrustOf, Seen, InFlight
  <2>3. ASSUME NEW ca, Trusts(h, ca) PROVE Trusts(h, ca)'
    BY <1>0, <1>3, <1>4, <2>3 DEF Trusts, InFlight
  <2>4. ASSUME NEW ca, Unknown(h, ca) PROVE Unknown(h, ca)'
    BY <1>0, <1>3, <1>4, <2>4 DEF Unknown, InFlight
  <2>5. Trusts(h, disk.caCert)'
    BY <1>0, <1>2, <2>3 DEF TrustOf, Trusts
  <2>6. (disk.pendCert \in known[h] => Trusts(h, disk.pendCert))'
    BY <1>0, <1>2, <2>3 DEF TrustOf, Trusts
  <2>7. ASSUME NEW t \in Task, lock = t
        PROVE  /\ (Head(task[t].todo) \in {"caKey", "caCert"} => Trusts(h, task[t].ca))'
               /\ (Head(task[t].todo) \in {"pendKey", "pendCert"} => Unknown(h, task[t].ca))'
    BY <1>0, <1>2, <2>3, <2>4, <2>7 DEF TrustOf, Trusts, Unknown
  <2> QED BY <1>0, <2>1, <2>2, <2>5, <2>6, <2>7 DEF TrustOf
<1> QED BY <1>6, <1>7

(* The agent's answer is recorded: what it is known to trust is what it trusts,
   and no other push is in flight. *)
LEMMA TrustByRecord ==
    ASSUME Shapes, Trust, NEW h \in Agent, NEW s \in Slot, Record(h, s)
    PROVE  Trust'
<1>0. /\ push' = [push EXCEPT ![h][s] = NoPush]
      /\ push[h][s].st = "applied"
      /\ known' = [known EXCEPT ![h] = push[h][s].cas]
      /\ UNCHANGED <<disk, lock, task, trust, count, mishap>>
  BY DEF Record
<1>1. SUFFICES ASSUME mishap \subseteq {"unserved"} PROVE \A g \in Agent : TrustOf(g)'
  BY <1>0 DEF Trust
<1>2. \A g \in Agent : TrustOf(g)
  BY <1>1 DEF Trust
<1>3. /\ push'[h][s] = NoPush
      /\ \A o \in Slot : o # s => push'[h][o] = push[h][o]
      /\ \A g \in Agent : g # h => push'[g] = push[g]
      /\ known'[h] = push[h][s].cas
      /\ \A g \in Agent : g # h => known'[g] = known[g]
  BY <1>0, PutFacts DEF Shapes, Data
<1>5. count.ca \in Nat
  BY TlsAssumption DEF Shapes, Data, Count, CA
<1>6. ASSUME NEW g \in Agent, g # h PROVE TrustOf(g)'
  <2>1. SameAgent(g) /\ SameFiles
    BY <1>0, <1>3, <1>6 DEF SameAgent, SameFiles
  <2> QED BY <1>2, <1>5, <2>1, TrustOfSame
<1>7. TrustOf(h)'
  <2>0. /\ \A o \in Slot : push[h][o].st \in InFlight => o = s
        /\ trust[h] = push[h][s].cas
    BY <1>0, <1>2 DEF TrustOf, OnePush, InFlight
  <2>1. \A o \in Slot : push'[h][o].st \notin InFlight
    BY <1>3, <2>0 DEF NoPush, InFlight
  <2>2. OnePush(h)' /\ Seen(h)'
    <3>1. OnePush(h)'
      BY <2>1 DEF OnePush, InFlight
    <3>2. push[h][s].cas \subseteq 1..count.ca
      BY <1>0, <1>2 DEF TrustOf, Seen, InFlight
    <3> QED BY <1>0, <1>3, <2>1, <3>1, <3>2 DEF Seen
  <2>3. ASSUME NEW ca, ca \in trust[h] PROVE Trusts(h, ca)'
    BY <1>0, <2>1, <2>3 DEF Trusts
  <2>4. ASSUME NEW ca, Unknown(h, ca) PROVE Unknown(h, ca)'
    BY <1>0, <1>3, <2>1, <2>4 DEF Unknown, InFlight
  <2>5. Trusts(h, disk.caCert)'
    BY <1>0, <1>2, <2>3 DEF TrustOf, Trusts
  <2>6. (disk.pendCert \in known[h] => Trusts(h, disk.pendCert))'
    BY <1>0, <1>3, <2>0, <2>3 DEF Trusts
  <2>7. ASSUME NEW t \in Task, lock = t
        PROVE  /\ (Head(task[t].todo) \in {"caKey", "caCert"} => Trusts(h, task[t].ca))'
               /\ (Head(task[t].todo) \in {"pendKey", "pendCert"} => Unknown(h, task[t].ca))'
    BY <1>0, <1>2, <2>3, <2>4, <2>7 DEF TrustOf, Trusts, Unknown
  <2> QED BY <1>0, <2>2, <2>5, <2>6, <2>7 DEF TrustOf
<1> QED BY <1>6, <1>7

(* A push that fails, is given up or is lost leaves less in flight and less known. *)
LEMMA TrustByLoss ==
    ASSUME Shapes, Trust, NEW h \in Agent, NEW s \in Slot,
           ReadActive(h, s) \/ (Send(h, s) /\ h \notin conn) \/ GiveUp(h, s) \/ Drop(h, s)
    PROVE  Trust'
<1>1. PICK p : /\ push' = [push EXCEPT ![h][s] = p]
               /\ \/ p = NoPush \/ p.st = "half"
                  \/ (push[h][s].st = "sent" /\ p = [push[h][s] EXCEPT !.st = "late"])
  BY DEF ReadActive, Send, GiveUp, Drop
<1>2. /\ push'[h][s] = p
      /\ \A o \in Slot : o # s => push'[h][o] = push[h][o]
      /\ \A g \in Agent : g # h => push'[g] = push[g]
  <2>1. push' = [push EXCEPT ![h][s] = p]
    BY <1>1
  <2> QED BY <2>1, PutFacts
<1>3. p.st \in InFlight => push[h][s].st \in InFlight /\ p.cas = push[h][s].cas /\ p.st # "applied"
  <2>1. push[h][s] \in Push1
    BY DEF Shapes, Data
  <2>2. CASE p = NoPush \/ p.st = "half"
    BY <2>2 DEF NoPush, InFlight
  <2>3. CASE push[h][s].st = "sent" /\ p = [push[h][s] EXCEPT !.st = "late"]
    BY <2>1, <2>3 DEF Push1, InFlight
  <2> QED BY <1>1, <2>2, <2>3
<1>4. UNCHANGED <<disk, lock, task, trust, mishap>>
  BY DEF ReadActive, Send, GiveUp, Drop
<1>5. \A g \in Agent : known'[g] \subseteq known[g]
  BY DEF ReadActive, Send, GiveUp, Drop, Shapes, Data
<1>6. count'.ca = count.ca
  BY TroubledType DEF ReadActive, Send, GiveUp, Drop, Shapes, Data
<1>7. SameFiles /\ \A g \in Agent : SameAgent(g)
  BY <1>2, <1>3, <1>4, <1>5, <1>6 DEF SameFiles, SameAgent
<1> QED BY <1>4, <1>7, TrustSame

LEMMA TrustGives ==
    ASSUME Trust PROVE ActiveTrusted
  BY DEF Trust, TrustOf, Trusts, ActiveTrusted

-----------------------------------------------------------------------------
(* Caddy *)

Renewing(t) ==
    lock = t /\ task[t].op = "activate" /\ Head(task[t].todo) \in {"srvKey", "srvCert"}

LEMMA TellingFacts ==
    ASSUME Shapes, NEW t \in Task
    PROVE  /\ StillTelling(t) => HasReload(t)
           /\ Renewing(t) => StillTelling(t)
<1>1. ASSUME StillTelling(t) PROVE HasReload(t)
  <2>1. task[t].op = "activate" /\ task[t].op \in Op /\ task[t].todo \in TodoOf(task[t].op)
        /\ Head(task[t].todo) # "push"
    BY <1>1, Next1Facts DEF StillTelling, Shapes, Op
  <2> QED BY <2>1, OpFacts DEF HasReload
<1>2. Renewing(t) => StillTelling(t)
  BY DEF Renewing, StillTelling, Shapes, Tasks, Files
<1> QED BY <1>1, <1>2

(* Every task that was going to tell Caddy still is, or has not been heard of. *)
Kept == \A t \in Task : /\ StillTelling(t) => StillTelling(t)'
                        /\ Renewing(t) => Renewing(t)'

LEMMA ServedSame ==
    ASSUME Served, mishap \subseteq mishap', disk'.caCert = disk.caCert,
           disk'.srvCert.ca = disk.srvCert.ca, disk'.srvCert.key = disk.srvCert.key,
           \/ caddy'.ca = caddy.ca /\ caddy'.key = caddy.key
           \/ caddy'.ca = disk.srvCert.ca /\ caddy'.key = disk.srvCert.key,
           Shapes, mishap' = {} => Kept
    PROVE  Served'
<1>1. SUFFICES ASSUME mishap' = {}
      PROVE  /\ issued_by(caddy, disk.caCert)' \/ \E t \in Task : StillTelling(t)'
             /\ issued_by(disk.srvCert, disk.caCert)' \/ \E t \in Task : Renewing(t)'
  BY DEF Served, Renewing
<1>2. /\ issued_by(caddy, disk.caCert) \/ \E t \in Task : StillTelling(t)
      /\ issued_by(disk.srvCert, disk.caCert) \/ \E t \in Task : Renewing(t)
  BY <1>1 DEF Served, Renewing
<1>3. issued_by(disk.srvCert, disk.caCert)' \/ \E t \in Task : Renewing(t)'
  BY <1>1, <1>2 DEF issued_by, Kept
<1>4. CASE caddy'.ca = caddy.ca /\ caddy'.key = caddy.key
  BY <1>1, <1>2, <1>3, <1>4 DEF issued_by, Kept
<1>5. CASE caddy'.ca = disk.srvCert.ca /\ caddy'.key = disk.srvCert.key
  <2>1. CASE issued_by(disk.srvCert, disk.caCert)
    BY <1>3, <1>5, <2>1 DEF issued_by
  <2>2. CASE \E t \in Task : Renewing(t)
    BY <1>1, <1>3, <2>2, TellingFacts DEF Kept
  <2> QED BY <1>2, <2>1, <2>2
<1> QED BY <1>4, <1>5

(* One task changes, and was not going to tell Caddy. *)
LEMMA KeptByOther ==
    ASSUME Shapes, NEW t \in Task, ~StillTelling(t), \A u \in Task : u # t => task'[u] = task[u],
           \A u \in Task : u # t /\ lock = u => lock' = u
    PROVE  Kept
<1>1. ASSUME NEW u \in Task, u # t
      PROVE  (StillTelling(u) => StillTelling(u)') /\ (Renewing(u) => Renewing(u)')
  BY <1>1 DEF StillTelling, Renewing
<1> QED BY <1>1, TellingFacts DEF Kept

LEMMA ServedByRequest ==
    ASSUME Shapes, Served, NEW t \in Task,
           PushAll(t) \/ Lock(t) \/ \E op \in Op \cup {"push"} : Request(t, op)
    PROVE  Served'
<1>1. ~StillTelling(t)
  BY IdleFacts DEF PushAll, Lock, Request, At, StillTelling
<1>2. \A u \in Task : u # t => task'[u] = task[u]
  BY DEF PushAll, Lock, Request, Shapes, Tasks
<1>3. \A u \in Task : u # t /\ lock = u => lock' = u
  BY TlsAssumption DEF PushAll, Lock, Request, Task
<1>4. UNCHANGED <<disk, caddy>> /\ mishap \subseteq mishap'
  BY DEF PushAll, Lock, Request
<1>5. Kept
  BY <1>1, <1>2, <1>3, KeptByOther
<1> QED BY <1>4, <1>5, ServedSame

(* An activation that ends before Caddy has heard of it is a mishap. *)
LEMMA ServedByEnd ==
    ASSUME Shapes, Served, NEW t \in Task, mishap' = Broken({t}), UNCHANGED <<disk, caddy>>,
           task' = [task EXCEPT ![t] = Idle], \A u \in Task : u # t /\ lock = u => lock' = u
    PROVE  Served'
<1>1. mishap' = {} => ~StillTelling(t)
  BY TellingFacts DEF Broken, StillTelling, At
<1>2. \A u \in Task : u # t => task'[u] = task[u]
  BY DEF Shapes, Tasks
<1>3. mishap' = {} => Kept
  BY <1>1, <1>2, KeptByOther
<1>4. mishap \subseteq mishap'
  BY DEF Broken
<1> QED BY <1>3, <1>4, ServedSame

LEMMA ServedByReload ==
    ASSUME Shapes, Served, NEW t \in Task, Reload(t)
    PROVE  Served'
<1>1. CASE Matched(disk)
  <2>1. /\ caddy' = disk.srvCert /\ UNCHANGED <<disk, mishap, lock>>
        /\ \A u \in Task : u # t => task'[u] = task[u]
    BY <1>1 DEF Reload, Shapes, Tasks
  <2>2. lock # t
    BY ShapesByReload
  <2>3. SUFFICES ASSUME mishap = {}
        PROVE  /\ issued_by(caddy, disk.caCert)' \/ \E u \in Task : StillTelling(u)'
               /\ issued_by(disk.srvCert, disk.caCert)' \/ \E u \in Task : Renewing(u)'
    BY <2>1 DEF Served, Renewing
  <2>4. CASE issued_by(disk.srvCert, disk.caCert)
    BY <2>1, <2>4 DEF issued_by
  <2>5. CASE \E u \in Task : Renewing(u)
    <3>1. PICK u \in Task : Renewing(u)
      BY <2>5
    <3>2. u # t /\ StillTelling(u)
      BY <2>2, <3>1, TellingFacts DEF Renewing
    <3>3. StillTelling(u)' /\ Renewing(u)'
      BY <2>1, <3>1, <3>2 DEF StillTelling, Renewing
    <3> QED BY <3>3
  <2> QED BY <2>3, <2>4, <2>5 DEF Served, Renewing
<1>2. CASE ~Matched(disk)
  BY <1>2, ServedByEnd DEF Reload
<1> QED BY <1>1, <1>2

LEMMA ServedByFails ==
    ASSUME Shapes, Served, NEW t \in Task, ReloadFails(t) \/ WriteFails(t)
    PROVE  Served'
<1>1. CASE ReloadFails(t)
  BY <1>1, ServedByEnd DEF ReloadFails
<1>2. CASE WriteFails(t) /\ ~(At(t, "rmCert") \/ At(t, "rmKey"))
  <2>1. \A u \in Task : u # t /\ lock = u => lock' = u
    BY <1>2 DEF WriteFails
  <2> QED BY <1>2, <2>1, ServedByEnd DEF WriteFails
<1>3. CASE WriteFails(t) /\ (At(t, "rmCert") \/ At(t, "rmKey"))
  <2>1. /\ lock = t /\ task[t].todo # <<>> /\ Head(task[t].todo) \in {"rmCert", "rmKey"}
        /\ task' = [task EXCEPT ![t] = Next1(t)]
        /\ UNCHANGED <<disk, caddy, mishap>>
    BY <1>3 DEF WriteFails, Advance, At
  <2>2. /\ After(Head(task[t].todo), Tail(task[t].todo))
        /\ task[t].op \in Op \cup {"push"} /\ task[t].todo \in TodoOf(task[t].op)
        /\ Tail(task[t].todo) # <<>> => Next1(t) = [task[t] EXCEPT !.todo = Tail(@)]
    BY <2>1, Next1Facts DEF Shapes
  <2>3. /\ \A u \in Task : u # t => task'[u] = task[u] /\ lock # u
        /\ task'[t] = Next1(t) /\ task[t] \in TaskType
    BY <2>1 DEF Shapes, Tasks
  <2>4. StillTelling(t) => StillTelling(t)'
    <3>1. task[t].op = "activate" => Head(Tail(task[t].todo)) # "push"
      BY <2>1, <2>2, OpFacts DEF Op, FileStep, StepName
    <3>2. Tail(task[t].todo) # <<>>
      BY <2>1, <2>2 DEF After
    <3>3. task'[t].op = task[t].op /\ task'[t].todo = Tail(task[t].todo)
      BY <2>2, <2>3, <3>2 DEF TaskType
    <3>4. Head(Tail(task[t].todo)) # "caKey"
      BY <2>1, <2>2 DEF After
    <3> QED BY <3>1, <3>2, <3>3, <3>4 DEF StillTelling
  <2>5. Kept
    BY <2>1, <2>3, <2>4 DEF Kept, StillTelling, Renewing
  <2> QED BY <2>1, <2>5, ServedSame
<1> QED BY <1>1, <1>2, <1>3

LEMMA ServedByWriteFile ==
    ASSUME Shapes, Chain, Served, NEW t \in Task, WriteFile(t)
    PROVE  Served'
<1>0. lock = t /\ UNCHANGED <<caddy, mishap>>
  BY ShapesByWriteFile DEF WriteFile
<1>1. PICK w, step, rest :
        w = task[t] /\ step = Head(task[t].todo) /\ rest = Tail(task[t].todo)
  OBVIOUS
<1>2. /\ task[t].todo # <<>> /\ step \in FileStep
      /\ After(step, rest)
      /\ w.op \in Op \cup {"push"} /\ w.todo \in TodoOf(w.op)
      /\ rest # <<>> => Next1(t) = [w EXCEPT !.todo = rest]
      /\ w \in TaskType
  BY <1>0, <1>1, Next1Facts DEF Shapes, Tasks, Files
<1>3. /\ disk' = Written(w, step) /\ task'[t] = Next1(t)
      /\ \A u \in Task : u # t => task'[u] = task[u] /\ lock # u
      /\ lock' = IF rest = <<>> \/ Head(rest) \in {"reload", "push"} THEN "free" ELSE lock
  BY <1>0, <1>1 DEF WriteFile, Advance, Shapes, Tasks
<1>4. rest # <<>> => task'[t].op = w.op /\ task'[t].todo = rest
  BY <1>2, <1>3 DEF TaskType
<1>5. w.op = "activate" => rest # <<>> /\ Head(rest) \notin {"caKey", "push"}
  <2>1. w.op = "activate" => w.op \in Op
    BY DEF Op
  <2>2. w.op = "activate" => Head(rest) # "push" /\ (step = "srvCert" => rest # <<>>)
    BY <1>1, <1>2, <2>1, OpFacts
  <2>3. rest = <<>> \/ Head(rest) # "caKey"
    BY <1>2 DEF After, FileStep, StepName
  <2>4. w.op = "activate" => rest # <<>>
    BY <1>2, <2>2 DEF After, FileStep, StepName
  <2> QED BY <2>2, <2>3, <2>4
<1>6. \A u \in Task : StillTelling(u) => StillTelling(u)'
  BY <1>1, <1>3, <1>4, <1>5 DEF StillTelling
<1>7. SUFFICES ASSUME mishap = {}
      PROVE  /\ issued_by(caddy, disk.caCert)' \/ \E u \in Task : StillTelling(u)'
             /\ issued_by(disk.srvCert, disk.caCert)' \/ \E u \in Task : Renewing(u)'
  BY <1>0 DEF Served, Renewing
<1>8. /\ issued_by(caddy, disk.caCert) \/ \E u \in Task : StillTelling(u)
      /\ issued_by(disk.srvCert, disk.caCert) \/ Renewing(t)
  BY <1>3, <1>7 DEF Served, Renewing
<1>9. /\ disk'.caCert = IF step = "caCert" THEN w.ca ELSE disk.caCert
      /\ step # "srvCert" => disk'.srvCert = disk.srvCert
      /\ step = "srvCert" => disk'.srvCert.ca = w.ca /\ disk'.srvCert.key = w.key
  <2>1. disk \in Disk
    BY DEF Shapes, Data
  <2> QED BY <1>2, <1>3, <2>1 DEF Written, Disk, FileStep, StepName
<1>10. CASE step = "caCert"
  <2>1. w.op = "activate"
    BY <1>0, <1>1, <1>2, <1>10, OpFacts DEF TodoOf, Push, FileStep, Op
  <2>2. rest # <<>> /\ Head(rest) = "srvKey" /\ lock' = t
    BY <1>0, <1>2, <1>3, <1>10 DEF After
  <2>3. StillTelling(t)' /\ Renewing(t)'
    BY <1>4, <2>1, <2>2 DEF StillTelling, Renewing
  <2> QED BY <2>3
<1>11. CASE step = "srvCert"
  <2>1. w.ca = disk.caCert /\ w.key = w.ca
    BY <1>0, <1>1, <1>7, <1>11 DEF Chain, Holding
  <2> QED BY <1>0, <1>6, <1>8, <1>9, <1>11, <2>1 DEF issued_by
<1>12. CASE step = "srvKey"
  <2>1. rest # <<>> /\ Head(rest) = "srvCert" /\ lock' = t
    BY <1>0, <1>2, <1>3, <1>12 DEF After
  <2>2. Renewing(t) => Renewing(t)'
    BY <1>1, <1>4, <2>1 DEF Renewing
  <2> QED BY <1>0, <1>6, <1>8, <1>9, <1>12, <2>2 DEF issued_by
<1>13. CASE step \notin {"caCert", "srvKey", "srvCert"}
  <2>1. ~Renewing(t)
    BY <1>1, <1>13 DEF Renewing
  <2> QED BY <1>0, <1>6, <1>8, <1>9, <1>13, <2>1 DEF issued_by
<1> QED BY <1>10, <1>11, <1>12, <1>13

LEMMA ServedByCrash ==
    ASSUME Shapes, Served, Crash
    PROVE  Served'
<1>1. mishap' = {} => \A t \in Task : ~StillTelling(t) /\ ~Renewing(t)
  BY TellingFacts DEF Crash, Broken, StillTelling, At
<1>2. UNCHANGED <<disk, caddy>> /\ mishap \subseteq mishap'
  BY DEF Crash, Broken
<1> QED BY <1>1, <1>2, ServedSame DEF Kept

LEMMA ServedByWorld ==
    ASSUME Shapes, Served,
           \/ Start \/ CaddyLoads \/ Age
           \/ \E h \in Agent : Connect(h) \/ Disconnect(h)
           \/ \E h \in Agent, s \in Slot :
                 \/ ReadActive(h, s) \/ Send(h, s) \/ Apply(h, s)
                 \/ Record(h, s) \/ GiveUp(h, s) \/ Drop(h, s)
    PROVE  Served'
<1>1. CASE Start
  <2>1. "sweep" \in Task /\ ~StillTelling("sweep")
    BY <1>1, IdleFacts DEF Start, StillTelling, Task
  <2>2. \A u \in Task : u # "sweep" => task'[u] = task[u]
    BY <1>1 DEF Start, Shapes, Tasks
  <2>3. Kept
    BY <1>1, <2>1, <2>2, KeptByOther DEF Start
  <2> QED BY <1>1, <2>3, ServedSame DEF Start
<1>2. CASE Age
  <2>1. disk' = [disk EXCEPT !.srvCert = [disk.srvCert EXCEPT !.old = TRUE]]
        /\ (caddy' = caddy \/ caddy' = [caddy EXCEPT !.old = TRUE])
        /\ UNCHANGED <<mishap, lock, task>>
    BY <1>2 DEF Age
  <2>2. disk \in Disk /\ disk.srvCert \in Cert /\ caddy \in Cert
    BY DEF Shapes, Data, Disk
  <2>3. /\ disk'.caCert = disk.caCert /\ disk'.srvCert.ca = disk.srvCert.ca
        /\ disk'.srvCert.key = disk.srvCert.key /\ caddy'.ca = caddy.ca /\ caddy'.key = caddy.key
    BY <2>1, <2>2 DEF Disk, Cert
  <2>4. Kept
    BY <2>1 DEF Kept, StillTelling, Renewing
  <2> QED BY <2>1, <2>3, <2>4, ServedSame
<1>3. CASE ~Start /\ ~Age
  <2>1. UNCHANGED <<disk, lock, task>> /\ mishap \subseteq mishap' /\ caddy' \in {caddy, disk.srvCert}
    BY <1>3 DEF CaddyLoads, Connect, Disconnect, ReadActive, Send, Apply, Record, GiveUp, Drop
  <2>2. Kept
    BY <2>1 DEF Kept, StillTelling, Renewing
  <2> QED BY <2>1, <2>2, ServedSame
<1> QED BY <1>1, <1>2, <1>3

LEMMA ServedInit ==
    ASSUME Init PROVE Served
  BY DEF Init, Served, issued_by

LEMMA ServedGives ==
    ASSUME Shapes, Trust, Served PROVE NoneStranded
<1>1. SUFFICES ASSUME mishap = {}, NEW h \in Agent
      PROVE  (\E ca \in trust[h] : issued_by(caddy, ca)) \/ \E t \in Task : HasReload(t)
  BY DEF NoneStranded
<1>2. disk.caCert \in trust[h]
  BY <1>1 DEF Trust, TrustOf, Trusts
<1>3. CASE issued_by(caddy, disk.caCert)
  BY <1>2, <1>3
<1>4. CASE \E t \in Task : StillTelling(t)
  BY <1>4, TellingFacts
<1> QED BY <1>1, <1>3, <1>4 DEF Served

-----------------------------------------------------------------------------
(* The whole *)

LEMMA HalvesInit ==
    ASSUME Init PROVE Halves
  BY DEF Init, Halves, NoPush

LEMMA InvInit ==
    ASSUME Init PROVE Inv
  BY HalvesInit, ShapesInit, ChainInit, TrustInit, ServedInit DEF Inv

LEMMA InvStep ==
    ASSUME Inv, [Next]_vars
    PROVE  Inv'
<1> USE DEF Inv
<1>1. ASSUME NEW t \in Task, NEW op \in Op \cup {"push"}, Request(t, op), UNCHANGED count
      PROVE  Inv'
  BY <1>1, ShapesByRequest, HalvesByTask, ChainByTask, TrustByTask, ServedByRequest
<1>2. CASE \E t \in Admin : AdminRequest(t)
  BY <1>1, <1>2 DEF AdminRequest, Task, Op
<1>3. CASE Sweep
  BY <1>1, <1>3 DEF Sweep, Task, Op
<1>4. ASSUME NEW t \in Task, Lock(t) PROVE Inv'
  BY <1>4, ShapesByLock, HalvesByTask, ChainByLock, TrustByLock, ServedByRequest
<1>5. ASSUME NEW t \in Task, WriteFile(t) PROVE Inv'
  BY <1>5, ShapesByWriteFile, HalvesByWriteFile, ChainByWriteFile, TrustByWriteFile, ServedByWriteFile
<1>6. ASSUME NEW t \in Task, Reload(t) PROVE Inv'
  BY <1>6, ShapesByReload, HalvesByTask, ChainByTask, TrustByTask, ServedByReload
<1>7. ASSUME NEW t \in Task, PushAll(t) PROVE Inv'
  BY <1>7, ShapesByPushAll, HalvesByTask, ChainByTask, TrustByTask, ServedByRequest
<1>8. ASSUME NEW t \in Task, ReloadFails(t) PROVE Inv'
  BY <1>8, ShapesByReloadFails, HalvesByTask, ChainByTask, TrustByTask, ServedByFails
<1>9. ASSUME NEW t \in Task, WriteFails(t) PROVE Inv'
  BY <1>9, ShapesByWriteFails, HalvesByTask, ChainByWriteFails, TrustByWriteFails, ServedByFails
<1>10. CASE Crash
  BY <1>10, ShapesByCrash, HalvesByWorld, ChainByCrash, TrustByCrash, ServedByCrash
<1>11. CASE Start
  BY <1>11, ShapesByStart, HalvesByWorld, ChainByStart, TrustByWorld, ServedByWorld
<1>12. CASE CaddyLoads
  BY <1>12, ShapesByWorld, HalvesByWorld, ChainByAgents, TrustByWorld, ServedByWorld
<1>13. CASE Age
  BY <1>13, ShapesByWorld, HalvesByWorld, ChainByAge, TrustByWorld, ServedByWorld
<1>14. CASE \E h \in Agent : Connect(h) \/ Disconnect(h)
  <2>1. Shapes'
    BY <1>14, ShapesByAgent
  <2> QED BY <1>14, <2>1, ChainByAgents, HalvesByWorld, TrustByWorld, ServedByWorld
<1>15. ASSUME NEW h \in Agent, NEW s \in Slot,
              \/ ReadActive(h, s) \/ Send(h, s) \/ Apply(h, s)
              \/ Record(h, s) \/ GiveUp(h, s) \/ Drop(h, s)
       PROVE  Inv'
  <2>1. Shapes' /\ Chain' /\ Halves' /\ Served'
    BY <1>15, ShapesByPush, HalvesByPush, ChainByAgents, ServedByWorld
  <2>2. Trust'
    BY <1>15, TrustBySend, TrustByApply, TrustByRecord, TrustByLoss
  <2> QED BY <2>1, <2>2
<1>16. CASE UNCHANGED vars
  <2>1. Shapes'
    BY <1>16 DEF vars, Shapes, Tasks, Data
  <2>2. Chain'
    BY <1>16, ChainFrame DEF vars
  <2>3. Trust'
    BY <1>16, TrustSame DEF vars, SameFiles, SameAgent
  <2>4. Served'
    BY <1>16, ServedSame DEF vars, Kept, StillTelling, Renewing
  <2>5. Halves'
    BY <1>16, HalvesSame DEF vars
  <2> QED BY <2>1, <2>2, <2>3, <2>4, <2>5
<1> QED BY <1>2, <1>3, <1>4, <1>5, <1>6, <1>7, <1>8, <1>9, <1>10, <1>11, <1>12, <1>13, <1>14,
           <1>15, <1>16 DEF Next, TaskStep

(* Inv holds in every state, of any deployment. *)
THEOREM InvAlways == Spec => []Inv
<1>1. Init => Inv
  BY InvInit
<1>2. Inv /\ [Next]_vars => Inv'
  BY InvStep
<1> QED BY <1>1, <1>2, PTL DEF Spec

(* Every part of the state of the internal CA keeps its type: the files, what each
   task has still to do, the bundles sent, recorded and trusted. *)
THEOREM TypeCorrect == Spec => []TypeOK
<1>1. Inv => TypeOK
  BY ShapesType DEF Inv
<1> QED BY <1>1, InvAlways, PTL

(* Wherever a stop or a failed write falls among the writes of activate, begin,
   cancel, renew and ensure_at_startup, except between a key and its own
   certificate, the files under ca/ and server/ can be gone on with. *)
THEOREM ChainAtRestAlways == Spec => []ChainAtRest
<1>1. Inv => ChainAtRest
  BY ChainGives DEF Inv
<1> QED BY <1>1, InvAlways, PTL

(* With an administrator who waits for all agents to be ready, pushes to one agent
   that do not overlap, and no activation between the two reads of trust_bundle, no
   failure, loss or stop makes a CA active that an agent does not trust. *)
THEOREM ActiveTrustedAlways == Spec => []ActiveTrusted
<1>1. Inv => ActiveTrusted
  BY TrustGives DEF Inv
<1> QED BY <1>1, InvAlways, PTL

(* Nor does a rotation then strand an agent, unless an activation ends after it has
   changed files and before Caddy's reload: the agent trusts what Caddy serves, or a
   task has the reload still before it. *)
THEOREM NoneStrandedAlways == Spec => []NoneStranded
<1>1. Inv => NoneStranded
  BY ServedGives DEF Inv
<1> QED BY <1>1, InvAlways, PTL
=============================================================================
