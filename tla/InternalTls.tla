---------------------------- MODULE InternalTls ----------------------------
(* The internal certificate authority of a control plane without a public
   domain: its files, the server certificate that Caddy loads from them, and the
   bundle of CAs that agents are sent to trust.  A change of the files is a
   script of single writes under one lock; the process may stop, and a write may
   fail, between any two.  Pushes to agents take no lock.

   A certificate is known by the CA it names, the key that signed it and its
   serial number.  Agents here were installed with --ca-cert and know the
   operation; addresses, formats and the retired archive are left out. *)
EXTENDS Naturals, Sequences

CONSTANTS
    Agent,
    Admin,           \* requests of administrators that may overlap
    MaxCA,           \* bound: CAs ever made
    MaxSerial,       \* bound: server certificates ever issued
    MaxTrouble       \* bound: stops, failed writes, failed reloads, lost pushes

ASSUME TlsAssumption ==
    /\ MaxCA \in Nat \ {0} /\ MaxSerial \in Nat \ {0}
    /\ MaxTrouble \in Nat
    /\ {"sweep", "free"} \cap Admin = {}

VARIABLES
    disk,            \* the files under ca/ and server/
    caddy,           \* the certificate Caddy serves
    app,             \* "up", or "starting" until ensure_at_startup has run
    lock,            \* WRITE_LOCK: the task that holds it, or "free"
    task,            \* per task the steps still to do and the pair it has loaded
    conn,            \* the agents connected
    trust,           \* the CAs in an agent's --ca-cert file
    push,            \* the pushes under way to each agent
    known,           \* PUSHES: what each agent is known to trust
    mishap,          \* what has gone wrong so far, for the properties
    count            \* how much of each bound is used

vars == <<disk, caddy, app, lock, task, conn, trust, push, known, mishap, count>>
agents == <<conn, trust, push, known>>

Task == Admin \cup {"sweep"}
CA == 1..MaxCA
NoCA == 0
Slot == {"connect", "admin"}

Cert == [ca : CA, key : CA, serial : 0..MaxSerial, old : BOOLEAN]
NoPush == [st |-> "none", cas |-> {}]

-----------------------------------------------------------------------------
(* What the files say *)

issued_by(cert, ca) == cert.ca = ca /\ cert.key = ca

(* Mutant: only expiry makes a renewal due. *)
DueByAge(d) == d.srvCert.old

(* status().renewal_due *)
Due(d) == ~issued_by(d.srvCert, d.caCert) \/ d.srvCert.old

Matched(d) == d.srvKey = d.srvCert.serial

(* Mutant: an absent pending CA is sent as well. *)
BundleUnfiltered(active, d) == active \cup {d.pendCert}

(* trust_bundle, as it returns: the active CA as it was read first, and the pending
   one as it is now. *)
trust_bundle(active, d) == active \cup ({d.pendCert} \ {NoCA})

-----------------------------------------------------------------------------
(* The scripts *)

(* write_server is the pair "srvKey", "srvCert". *)
Script(op) ==
    CASE op = "activate" -> <<"caKey", "caCert", "srvKey", "srvCert",
                              "rmCert", "rmKey", "reload", "push">>
      [] op = "begin"    -> <<"pendKey", "pendCert", "push">>
      [] op = "cancel"   -> <<"rmCert", "rmKey", "push">>
      [] op = "renew"    -> <<"srvKey", "srvCert", "reload">>
      [] op = "startup"  -> <<"srvKey", "srvCert">>

Op == {"activate", "begin", "cancel", "renew", "startup"}   \* under the lock
StepName == {"caKey", "caCert", "srvKey", "srvCert", "pendKey", "pendCert",
             "rmCert", "rmKey", "reload", "push"}

Idle == [op |-> "none", todo |-> <<>>, ca |-> NoCA, key |-> NoCA]

Init ==
    /\ disk = [caKey |-> 1, caCert |-> 1, pendKey |-> NoCA, pendCert |-> NoCA,
               srvKey |-> 1, srvCert |-> [ca |-> 1, key |-> 1, serial |-> 1, old |-> FALSE]]
    /\ caddy = disk.srvCert
    /\ app = "up" /\ lock = "free"
    /\ task = [t \in Task |-> Idle]
    /\ conn = {} /\ trust = [h \in Agent |-> {1}]
    /\ push = [h \in Agent |-> [s \in Slot |-> NoPush]]
    /\ known = [h \in Agent |-> {}]
    /\ mishap = {}
    /\ count = [ca |-> 1, serial |-> 1, trouble |-> 0]

Trouble == count.trouble < MaxTrouble
Troubled == [count EXCEPT !.trouble = @ + 1]

-----------------------------------------------------------------------------
(* Tasks *)

Request(t, op) ==
    /\ task[t] = Idle /\ app = "up"
    /\ task' = [task EXCEPT ![t].op = op, ![t].todo = IF op = "push" THEN <<"push">> ELSE <<>>]
    /\ UNCHANGED <<disk, caddy, app, lock, agents, mishap>>

(* The routes renew, push, rotate, cancel_rotation and activate_rotation. *)
AdminRequest(t) ==
    /\ \E op \in {"renew", "push", "begin", "cancel", "activate"} : Request(t, op)
    /\ UNCHANGED count

(* The sweep looks at the status before it takes the lock. *)
Sweep == Due(disk) /\ Request("sweep", "renew") /\ UNCHANGED count

(* Every agent is known to trust the pending CA. *)
Ready == \A h \in Agent : disk.pendCert \in known[h]

(* The lock is taken and the pair to work with loaded: the active CA, the pending
   one, or a new one. *)
Lock(t) ==
    /\ task[t].op \in Op /\ task[t].todo = <<>> /\ lock = "free"
    /\ LET op == task[t].op
           pair == CASE op = "activate" -> <<disk.pendCert, disk.pendKey>>
                     [] op = "begin"    -> <<count.ca + 1, count.ca + 1>>
                     [] OTHER           -> <<disk.caCert, disk.caKey>>
       IN
       /\ op = "begin" => count.ca < MaxCA
       /\ op \in {"renew", "activate", "startup"} => count.serial < MaxSerial
       /\ IF op = "activate" /\ NoCA \in {disk.pendCert, disk.pendKey}
          THEN task' = [task EXCEPT ![t] = Idle] /\ UNCHANGED <<lock, count, mishap>>
          ELSE /\ lock' = t
               /\ task' = [task EXCEPT ![t] = [op |-> op, todo |-> Script(op),
                                               ca |-> pair[1], key |-> pair[2]]]
               /\ count' = [count EXCEPT
                              !.ca = IF op = "begin" THEN @ + 1 ELSE @,
                              !.serial = IF op \in {"renew", "activate", "startup"}
                                         THEN @ + 1 ELSE @]
               /\ mishap' = IF op = "activate" /\ ~Ready THEN mishap \cup {"rushed"}
                            ELSE mishap
    /\ UNCHANGED <<disk, caddy, app, agents>>

(* One file is replaced or removed.  The serial of the server certificate under
   way is the last one used: only the holder of the lock issues any. *)
Written(w, step) ==
    CASE step = "caKey"    -> [disk EXCEPT !.caKey = w.key]
      [] step = "caCert"   -> [disk EXCEPT !.caCert = w.ca]
      [] step = "srvKey"   -> [disk EXCEPT !.srvKey = count.serial]
      [] step = "srvCert"  -> [disk EXCEPT !.srvCert = [ca |-> w.ca, key |-> w.key,
                                                        serial |-> count.serial, old |-> FALSE]]
      [] step = "pendKey"  -> [disk EXCEPT !.pendKey = w.key]
      [] step = "pendCert" -> [disk EXCEPT !.pendCert = w.ca]
      [] step = "rmCert"   -> [disk EXCEPT !.pendCert = NoCA]
      [] step = "rmKey"    -> [disk EXCEPT !.pendKey = NoCA]

Next1(t) == IF Len(task[t].todo) = 1 THEN Idle ELSE [task[t] EXCEPT !.todo = Tail(@)]
At(t, step) == task[t].todo # <<>> /\ Head(task[t].todo) = step

(* The task goes on; after its last file it lets go of the lock, and
   ensure_at_startup is done. *)
Advance(t) ==
    LET rest == Tail(task[t].todo)
        last == rest = <<>> \/ Head(rest) \in {"reload", "push"}
    IN
    /\ task' = [task EXCEPT ![t] = Next1(t)]
    /\ lock' = IF last THEN "free" ELSE lock
    /\ app' = IF last /\ task[t].op = "startup" THEN "up" ELSE app

WriteFile(t) ==
    /\ task[t].todo # <<>> /\ Head(task[t].todo) \notin {"reload", "push"}
    /\ disk' = Written(task[t], Head(task[t].todo))
    /\ Advance(t)
    /\ UNCHANGED <<caddy, agents, mishap, count>>

(* The end of t now would leave a key without its certificate, or an activation
   that has changed files and that Caddy has not heard of. *)
Tearing(t) == \E step \in {"caCert", "srvCert", "pendCert"} : At(t, step)

HasReload(t) == \E n \in 1..Len(task[t].todo) : task[t].todo[n] = "reload"

Broken(T) ==
    mishap \cup (IF \E t \in T : Tearing(t) THEN {"torn"} ELSE {})
           \cup (IF \E t \in T : task[t].op = "activate" /\ HasReload(t) /\ ~At(t, "caKey")
                 THEN {"unserved"} ELSE {})

(* Mutant: the running configuration is posted without must-revalidate. *)
ReloadUnchanged(t) ==
    /\ At(t, "reload")
    /\ task' = [task EXCEPT ![t] = Next1(t)]
    /\ UNCHANGED <<disk, caddy, app, lock, agents, mishap, count>>

(* reload_caddy: Caddy refuses a key that does not match, and then the task ends. *)
Reload(t) ==
    /\ At(t, "reload")
    /\ IF Matched(disk)
       THEN caddy' = disk.srvCert /\ task' = [task EXCEPT ![t] = Next1(t)]
       ELSE task' = [task EXCEPT ![t] = Idle] /\ UNCHANGED caddy
    /\ mishap' = IF Matched(disk) THEN mishap ELSE Broken({t})
    /\ UNCHANGED <<disk, app, lock, agents, count>>

ReloadFails(t) ==
    /\ At(t, "reload") /\ Trouble
    /\ task' = [task EXCEPT ![t] = Idle]
    /\ mishap' = Broken({t})
    /\ count' = Troubled
    /\ UNCHANGED <<disk, caddy, app, lock, agents>>

(* push_to_all: a push to every agent connected.  One push of each kind to an
   agent is followed at a time. *)
PushAll(t) ==
    /\ At(t, "push") /\ \A h \in conn : push[h]["admin"].st = "none"
    /\ push' = [h \in Agent |->
                  IF h \in conn
                  THEN [push[h] EXCEPT !["admin"].st = "reading"] ELSE push[h]]
    /\ task' = [task EXCEPT ![t] = Next1(t)]
    /\ UNCHANGED <<disk, caddy, app, lock, conn, trust, known, mishap, count>>

(* A write fails: the handler returns, and lets go of the lock.  That a file
   could not be removed is ignored.  At startup either is a stop: see Crash. *)
WriteFails(t) ==
    /\ lock = t /\ Trouble /\ app = "up"
    /\ IF At(t, "rmCert") \/ At(t, "rmKey")
       THEN Advance(t) /\ UNCHANGED mishap
       ELSE /\ task' = [task EXCEPT ![t] = Idle] /\ lock' = "free"
            /\ mishap' = Broken({t}) /\ UNCHANGED app
    /\ count' = Troubled
    /\ UNCHANGED <<disk, caddy, agents>>

-----------------------------------------------------------------------------
(* The process stops and starts again; Caddy runs on. *)

Gone(p) == IF p.st = "sent" THEN [p EXCEPT !.st = "late"]
           ELSE IF p.st = "late" THEN p ELSE NoPush

Crash ==
    /\ Trouble
    /\ app' = "starting" /\ lock' = "free"
    /\ task' = [t \in Task |-> Idle]
    /\ conn' = {} /\ known' = [h \in Agent |-> {}]
    /\ push' = [h \in Agent |-> [s \in Slot |-> Gone(push[h][s])]]
    /\ mishap' = Broken(Task)
    /\ count' = Troubled
    /\ UNCHANGED <<disk, caddy, trust>>

(* ensure_at_startup: a renewal that is due, without telling Caddy. *)
Start ==
    /\ app = "starting" /\ task["sweep"] = Idle
    /\ IF Due(disk) THEN task' = [task EXCEPT !["sweep"].op = "startup"] /\ UNCHANGED app
       ELSE app' = "up" /\ UNCHANGED task
    /\ UNCHANGED <<disk, caddy, lock, agents, mishap, count>>

(* Caddy is restarted, or an administrator has it reload. *)
CaddyLoads ==
    /\ Matched(disk) /\ caddy # disk.srvCert
    /\ caddy' = disk.srvCert
    /\ UNCHANGED <<disk, app, lock, task, agents, mishap, count>>

(* The server certificate comes within RENEW_WITHIN_DAYS of its end. *)
Age ==
    /\ ~disk.srvCert.old /\ count.serial < MaxSerial /\ lock = "free"
    /\ disk' = [disk EXCEPT !.srvCert.old = TRUE]
    /\ caddy' = IF caddy = disk.srvCert THEN [caddy EXCEPT !.old = TRUE] ELSE caddy
    /\ UNCHANGED <<app, lock, task, agents, mishap, count>>

-----------------------------------------------------------------------------
(* Agents *)

(* Stock verification of what Caddy serves against the file; the connection's
   handler then starts a push. *)
Connect(h) ==
    /\ app = "up" /\ h \notin conn
    /\ \E ca \in trust[h] : issued_by(caddy, ca)
    /\ push[h]["connect"].st = "none"
    /\ conn' = conn \cup {h}
    /\ push' = [push EXCEPT ![h]["connect"].st = "reading"]
    /\ UNCHANGED <<disk, caddy, app, lock, task, trust, known, mishap, count>>

(* push_to_host calls trust_bundle, which takes no lock: ca.pem is read first. *)
ReadActive(h, s) ==
    /\ push[h][s].st = "reading"
    /\ push' = [push EXCEPT ![h][s] = [st |-> "half", cas |-> {disk.caCert}]]
    /\ UNCHANGED <<disk, caddy, app, lock, task, conn, trust, known, mishap, count>>

(* What goes wrong with a bundle: another push to the agent is under way, or an
   activation came between the two reads, and the bundle is without the active CA. *)
SentBadly(h, s) ==
    (IF \E o \in Slot \ {s} : push[h][o].st # "none" THEN {"overlap"} ELSE {})
    \cup (IF disk.caCert \in trust_bundle(push[h][s].cas, disk) THEN {} ELSE {"split"})

(* Then pending-ca.pem is read and the bundle dispatched. *)
Send(h, s) ==
    /\ push[h][s].st = "half"
    /\ IF h \in conn
       THEN /\ push' = [push EXCEPT ![h][s] = [st |-> "sent",
                                               cas |-> trust_bundle(push[h][s].cas, disk)]]
            /\ mishap' = mishap \cup SentBadly(h, s)
            /\ UNCHANGED known
       ELSE /\ push' = [push EXCEPT ![h][s] = NoPush]
            /\ known' = [known EXCEPT ![h] = {}]
            /\ UNCHANGED mishap
    /\ UNCHANGED <<disk, caddy, app, lock, task, conn, trust, count>>

(* update_trusted_ca: the agent replaces its file, also when nobody waits for it
   any more. *)
Apply(h, s) ==
    /\ push[h][s].st \in {"sent", "late"}
    /\ trust' = [trust EXCEPT ![h] = push[h][s].cas]
    /\ push' = [push EXCEPT ![h][s] = IF @.st = "sent" THEN [@ EXCEPT !.st = "applied"] ELSE NoPush]
    /\ UNCHANGED <<disk, caddy, app, lock, task, conn, known, mishap, count>>

(* Mutant: a push counts as trusted as soon as it is sent. *)
RecordSent(h, s) ==
    /\ push[h][s].st \in {"sent", "applied"} /\ h \in conn
    /\ known' = [known EXCEPT ![h] = push[h][s].cas]
    /\ push' = [push EXCEPT ![h][s] = IF @.st = "sent" THEN [@ EXCEPT !.st = "late"] ELSE NoPush]
    /\ UNCHANGED <<disk, caddy, app, lock, task, conn, trust, mishap, count>>

Record(h, s) ==
    /\ push[h][s].st = "applied" /\ h \in conn
    /\ known' = [known EXCEPT ![h] = push[h][s].cas]
    /\ push' = [push EXCEPT ![h][s] = NoPush]
    /\ UNCHANGED <<disk, caddy, app, lock, task, conn, trust, mishap, count>>

(* PUSH_TIMEOUT passes, or the connection ends first: the push is recorded as
   failed, and the agent may still get to it. *)
GiveUp(h, s) ==
    /\ push[h][s].st \in {"sent", "applied"}
    /\ h \in conn => Trouble
    /\ count' = IF h \in conn THEN Troubled ELSE count
    /\ known' = [known EXCEPT ![h] = {}]
    /\ push' = [push EXCEPT ![h][s] = IF @.st = "sent" THEN [@ EXCEPT !.st = "late"] ELSE NoPush]
    /\ UNCHANGED <<disk, caddy, app, lock, task, conn, trust, mishap>>

(* A message that nobody waits for is lost with its connection. *)
Drop(h, s) ==
    /\ push[h][s].st = "late" /\ h \notin conn
    /\ push' = [push EXCEPT ![h][s] = NoPush]
    /\ UNCHANGED <<disk, caddy, app, lock, task, conn, trust, known, mishap, count>>

Disconnect(h) ==
    /\ h \in conn
    /\ conn' = conn \ {h}
    /\ UNCHANGED <<disk, caddy, app, lock, task, trust, push, known, mishap, count>>

-----------------------------------------------------------------------------

TaskStep(t) == Lock(t) \/ WriteFile(t) \/ Reload(t) \/ PushAll(t)

Next ==
    \/ \E t \in Admin : AdminRequest(t)
    \/ Sweep
    \/ \E t \in Task : TaskStep(t) \/ ReloadFails(t) \/ WriteFails(t)
    \/ Crash \/ Start \/ CaddyLoads \/ Age
    \/ \E h \in Agent : Connect(h) \/ Disconnect(h)
    \/ \E h \in Agent, s \in Slot :
          ReadActive(h, s) \/ Send(h, s) \/ Apply(h, s) \/ Record(h, s) \/ GiveUp(h, s) \/ Drop(h, s)

Spec == Init /\ [][Next]_vars

-----------------------------------------------------------------------------
(* Where the search stops: after a torn pair no property below says anything, and
   after an overlap or a split bundle only ChainAtRest does, which is not about
   agents: the same files come about when they do not connect. *)
Telling == mishap \cap {"torn", "overlap", "split"} = {}

(* Every part of the state has its type. *)
TypeOK ==
    /\ disk \in [caKey : CA, caCert : CA, pendKey : CA \cup {NoCA}, pendCert : CA \cup {NoCA},
                 srvKey : 0..MaxSerial, srvCert : Cert]
    /\ caddy \in Cert
    /\ app \in {"up", "starting"} /\ lock \in Task \cup {"free"}
    /\ \A t \in Task : /\ task[t].op \in Op \cup {"none", "push"}
                       /\ \A n \in 1..Len(task[t].todo) : task[t].todo[n] \in StepName
    /\ conn \subseteq Agent
    /\ trust \in [Agent -> SUBSET CA] /\ known \in [Agent -> SUBSET CA]
    /\ push \in [Agent -> [Slot -> [st : {"none", "reading", "half", "sent", "applied", "late"},
                                    cas : SUBSET CA]]]
    /\ count.ca \in CA
    /\ count.serial \in 1..MaxSerial /\ count.trouble \in 0..MaxTrouble

(* Wherever a stop or a failed write falls, except between a key and its own
   certificate, the files can be gone on with: the active CA has its key, so has a
   pending one that could be activated, and the server certificate either is from it and has its key or is due for renewal. *)
ChainAtRest ==
    lock = "free" /\ "torn" \notin mishap =>
        /\ disk.caKey = disk.caCert
        /\ NoCA \in {disk.pendKey, disk.pendCert} \/ disk.pendKey = disk.pendCert
        /\ Due(disk) \/ (issued_by(disk.srvCert, disk.caCert) /\ Matched(disk))

(* As long as the administrator waits until every agent is known to trust the
   pending CA, no two pushes to one agent overlap, and no activation comes between
   the two reads of a bundle, every agent trusts the active CA, whatever fails or is
   lost and wherever the process stops, also in the middle of an activation. *)
ActiveTrusted ==
    mishap \subseteq {"unserved"} => \A h \in Agent : disk.caCert \in trust[h]

(* A rotation strands no agent: under the conditions of ActiveTrusted, and as long as
   no activation ends after it has changed files and before Caddy has loaded its
   certificate, every agent trusts what Caddy serves, or Caddy is about to be told,
   so it can always connect again. *)
NoneStranded ==
    mishap = {} =>
        \A h \in Agent : \/ \E ca \in trust[h] : issued_by(caddy, ca)
                        \/ \E t \in Task : HasReload(t)
=============================================================================
