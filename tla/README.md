# TLA+ specifications of Abyssal Arsenal

Abyssal Arsenal is a fleet-administration system: a control plane (an axum web
application over MariaDB, `crates/web`, `crates/hosts`, `crates/database`) and
an agent (`crates/agent`) on every managed host. The agent opens a WebSocket to
the control plane and runs the operations it is sent. Everything else, backups,
network access control, malware sweeps, telemetry, role management, is built on
that link and on the database.

## 1. Inventory

| Part | State it keeps | Operations | What is hard |
|---|---|---|---|
| Connection registry and dispatch (`hosts/src/registry.rs`, `web/src/routes/agent.rs`, `web/src/extract.rs`) | three maps, each behind its own mutex: host to connection, request to waiter, the set of guarded hosts; an epoch counter; one channel and one handler task per connection | register, unregister, resolve, dispatch, set_control_plane; the handler's select loop; the admin routes that flag, revoke and remove a host | a reconnect while the old handler still runs; dispatch is three critical sections and two awaits; a timer races a response; half-open connections; cancelled callers |
| Agent command runner (`agent/src/transport.rs`, `agent/src/main.rs`) | the current connection, its outgoing channel, its write queue and read slots; a process-wide gate | connect, read loop, writer, write task, read tasks, close | work left by an ended connection, replies sent while the gate is held, fairness of the gate |
| Execution and audit (`execution/src/executor.rs`, `audit`) | audit table | execute_on_host: check, dispatch, record | a caller that goes away between dispatch and record |
| Elevation, "Apotheosis" (`agent/src/elevation.rs`, `hosts/src/elevation_tracker.rs`) | the agent's deadline and its mirror in the control plane | elevate, drop, use | two clocks, a sliding and a fixed window |
| Roles (`rbac`, `database/src/repo/roles.rs`, `web/src/common.rs`, `web/src/routes/{roles,users}.rs`) | a forest of roles, permissions and modules per role, a role per user | create, edit, move, delete, assign | what a role confers depends on its ancestors; checks precede writes without a transaction |
| Enrollment (`web/src/routes/{agent,hosts}.rs`, `repo/{hosts,host_enrollment_tokens,install_tokens}.rs`) | host rows, single-use tokens | issue, enroll, approve, revoke, remove | concurrent use of one token, re-enrollment of a host |
| Reliquary backups (`web/src/reliquary_backup`) | a job row, a database lock, files in a store | run, prune, restore, recover after a restart | crash between file and row, two runs at once, retention |
| Panopticon NAC (`web/src/panopticon_{enforcement,policy,radius}.rs`) | enforcement rows, switch-port state | evaluate, enforce, release, auto-revert, RADIUS decision | the check and the row are far apart with SNMP requests between; unanswered requests; several actors on one port |
| Sepulchre provisioning (`web/src/sepulchre`) | storage resources, job steps | provision, roll back | a failing step in the middle |
| Thanatos telemetry, Scourge sweeps (`thanatos_stream.rs`, `scourge_ops.rs`) | cursors, offsets, a stream per host | poll, push, sweep | reconnects, duplicates, gaps |
| Internal TLS (`web/src/internal_tls.rs`, `internal-ca`, `agent/src/tls.rs`) | the files of the CA in use, the next one and the server certificate; what Caddy has loaded; what each agent trusts and is known to trust | renew, begin, cancel and activate a rotation, reload Caddy, push | several files changed one after the other, pushes that overlap or arrive late, agents that were away |
| Agent update, SSH deploy (`agent_update.rs`, `ssh_deploy.rs`, `agent/src/selfupdate.rs`) | a job per host, staged binaries | push, wait for the reconnect, roll back | the wait recognises the new connection by its epoch |
| Sessions, login limiter, password resets, self-monitor, notifications, workflows, audit export | rows and in-memory maps | as named | limits, cursors, clock edges |

How they interact: every arsenal page and background sweep calls
`HostConnectionRegistry::dispatch` (most through `execute_on_host`), which sends
over the channel of the host's registered connection and waits on a oneshot; the
connection's handler forwards to the socket and resolves the oneshot from the
response. The agent's reader hands the command to its runner, whose reply goes
back through the connection's writer.


For each part, what makes it correct: a dispatch ends exactly once and only in
ways its operation's fate allows (registry); nothing runs beside a write and
nothing starts late (runner); a row never names an archive that was not once
whole, and retention never selects what it promises to keep (backups); nobody confers more
than he has, over every order of edits (roles); what was changed on a port is
what a revert puts back (access control); an agent that was away still trusts
what is served (TLS); a token is used as often as it may be (enrollment).
`PROJECT.json` lists the hazards, line by line, with the properties aimed at
each. A hazard without one has a note: its part has no module yet, or what it
warns of does happen, and section 7 describes it.

## 2. Plan

Done, in order of importance:

1. `HostRegistry` with `RemoteCall` as its abstract specification, `AgentServe`,
   `Reliquary`; for each a proof module.
2. `PortEnforcement`: apply, release and both sweeps on a port whose state the
   switch keeps.
3. `Roles`: the forest of roles, what each confers, and every route that changes
   it as a request that is checked and then written.
4. `InternalTls`: the files of a rotation, Caddy, and the agents' trust.
5. Theorems for these modules: every invariant and every action property that a
   passing run checks (section 6).

Next:

6. `HostLink`, composing `HostRegistry` and `AgentServe` over a lossy connection;
   enrollment, and the pure algorithms (RADIUS decision, counter roll-up) as
   operators against reference definitions.

Twelve runs carry the project: one safety run and, where the code owes an end,
one liveness run for each module, and three runs for sentences of the
repository that the code does not keep. What else was found is in section 7.

## 3. The modules and the code

### HostRegistry: connections and dispatch

`hosts/src/registry.rs`, `handle_socket` in `web/src/routes/agent.rs`,
`AgentAuth` in `web/src/extract.rs`, the host routes in `web/src/routes/hosts.rs`.

| State | Code |
|---|---|
| `connections`, `epoch`, `nextEpoch` | the `connections` map and the epoch counter |
| `pending`, `oneshot` | the `pending` map and the two ends of each oneshot |
| `controlPlane` | the set of guarded hosts; `rowFlag`, `row` are the database's side; `staleFlag` is a history variable, the hosts whose flag a handler last copied from an outdated row |
| `handler`, `sockHost`, `sockVersion`, `sockFlag` | one `handle_socket` task, with what `AgentAuth` read before the upgrade |
| `chan` | the connection's bounded channel (`QueueCap` for 16) |
| `peer`, `sent`, `done`, `answered`, `ran` | the far end: whether it is there and reads, what was written to it, has run, was answered |
| `pc`, `callHost`, `callOp`, `via`, `result` | a caller inside `dispatch` |
| `adminStep`, `adminHost` | an admin route between two of its statements |

Each mutex section is one action, each await a point where anything else may
happen. `dispatch` is `Guard`, one of `Lookup*`, `InsertPending`, `SendOk` or
`SendErr`, then `Receive` or `Timeout`; `Cancel` drops its future at any await.
`register` takes its epoch from the counter (`TakeEpoch`) before it locks the map
(`Register`), so two handlers of a host may put in their entries in the other
order than their epochs. `unregister` is two sections (`UnregisterEntry`,
`UnregisterPending`), and so is the removal route. A write to the socket is two
steps, `StartWrite` and `Forward`: while it is under way the handler serves
nothing else, and it does not return as long as the peer is alive and does not
read (`Stall`; `Heartbeat` blocks in the same way). Which operations the
control-plane guard refuses is a constant set. A command the agent cannot parse,
which it answers with an error without running it, is left out: `RoutedRight`
says that none is sent one its protocol version does not know.

`RemoteCall` is what a caller may rely on: a call returns once, `Ok` only if the
operation ran, and a call that was declined never runs. `ImplementsRemoteCall`
maps every state between lookup and return to "open".

### AgentServe: the agent's command runner

`connect_and_serve`, `Serve` and the writer task in `agent/src/transport.rs`.
`cur` is the current connection, `life`, `closed` and `sink` say how far the end
of each has got, `out` is its outgoing channel (`OutCap`), `queue` its writes,
`state` and `home` follow a request, `gateQ` is the line at the process-wide
gate. `Grant` is tokio's fair `RwLock`, external. Operations are opaque: `Start`
and `Finish`. The connections overlap: what an ended one left behind goes on
while the next one is served.

### Reliquary: backups

`web/src/reliquary_backup`, `web/src/routes/reliquary_backup.rs` and
`database/src/repo/reliquary_backups.rs`. Tasks are requests and the scheduler;
a step is a database statement or a file operation. `table` holds the rows,
`file` the store, `dumped` the job table inside each archive (a dump contains
the row of its own job), `holder` and `depth` MariaDB's named lock, which belongs
to a pooled session and is re-entrant, `sess` the session each task holds, `old`
which jobs are past the retention age, `doomed` what a sweep has still to delete.
A deletion removes the file, or has it shredded: `DeleteShred` begins to overwrite
it in a child process, `Shredded` and `ShredFails` are its two ends, and a request
dropped or a process stopped meanwhile does not stop the child.

Statements fail where the failure leaves something behind: the lock (`LockFails`),
the end of a job's row (`MarkLost`), the record of a verification and the
deletion of a row (`RequestFails`), the safety backup's INSERT, which the route
does not look at (`StartUnsaved`), the retention's DELETE (`PruneRowLost`), and
the recovery of interrupted jobs at startup, whose error is only logged
(`RestartUnswept`: the rows swept before it are ended, the others stay).

Abstractions: the checks of a request and its INSERT are one action, since the
checks read nothing a later step changes; `Apply` replaces the table at once, or
fails and leaves it as it was or empty; the cancel token is never fired by any
caller, so the status `cancelled` does not occur; archive formats and encryption
are left out.

### PortEnforcement: network access control

`web/src/panopticon_enforcement.rs`, `panopticon_policy.rs`, the writes of
`panopticon_snmp.rs`, the rows of `repo/panopticon_enforcement.rs` and the routes
in `web/src/routes/panopticon.rs`. `sw` is the switch (the port's admin state, its
PVID and its memberships), `rows` the actions with the snapshot each has taken,
`conf` the kill switch, the opt-in, the mode of the policy and whether the switch
is still listed, `task` where the operator, the auto-revert sweep and the policy
sweep are. A task is a script of SNMP requests: each is a step, which the switch
obeys and answers, refuses, or obeys without the answer arriving. `apply` is
`Gate`, `Check`, the requests and `Create`; `release` is `Find`, the requests and
`Mark`. A release accepts any row by its id, as the route does, also that of a
failed attempt. The auto-revert sweep takes the rows it found due in any order.
`ClientGone` drops an operator's request at any await, as axum does when the
browser goes away; `lost` is a history variable, the ports whose action was cut
off (by that, by a stop, by a failed INSERT) after its last SNMP request and
before its row was written. One switch; its key is configured; rules are
constants.

### Roles: the forest and the delegation

`database/src/repo/roles.rs`, `web/src/common.rs`, the handlers in
`web/src/routes/roles.rs` and `users.rs`, `CurrentUser` in `web/src/extract.rs`.
`exists`, `parent`, `grants` and `userRole` are the tables; `req` a request, which
is authenticated (its permissions are read), checked, and then writes what it
has checked; anything may happen between the three. Reading the permissions is
one step, where the code makes a query for each role on the way up. `gone` keeps the ids of
deleted roles: they are random UUIDs, so a new role never takes one of them. The foreign keys are part of
the writes: a parent that is gone refuses them, a role with children is not
deleted, a user's role goes with it. `fresh` is a history variable: the requests
since whose authentication nobody has moved a role, changed a grant or given
their author another role. Initially the tables hold any shallow forest, since
someone without a ceiling can set up each of them.

### InternalTls: the certificate authority and its rotation

`web/src/internal_tls.rs`, its routes, `update_trusted_ca` in the agent. `disk`
holds the files, a certificate being known by the CA it names, the key that
signed it and its serial number; `caddy` is what the proxy has loaded; `lock` and
`task` are `WRITE_LOCK` and the scripts of writes under it; `trust` is an agent's
`--ca-cert` file, `known` what `PUSHES` says of it, `push` the pushes under way (one
from the connection's handler, one from a route). `trust_bundle` takes no lock and
reads two files, so a push is `ReadActive`, which reads `ca.pem`, and `Send`, which
reads `pending-ca.pem` and dispatches. The process may stop, or a
write fail, before any file; removing a file may fail and is ignored, as in the
code. `mishap` is a history variable that says what the properties except: a key
written without its certificate ("torn"), an activation without every agent's
confirmation ("rushed"), two pushes to one agent at a time ("overlap"), a bundle
that lacks the active CA because an activation came between its two reads
("split"), an activation that ended after it had changed files and before Caddy
loaded its certificate ("unserved").

## 4. Runs

| Run | Instance | Shows |
|---|---|---|
| `registry_safety` | 2 hosts, 2 connections, 1 call, 2 protocol versions, 1 admin request | reconnects, late handlers, full channels, timeouts, cancelled callers, removal and flagging step by step: routing, accounting, epochs that tell connections apart, guardrails, refinement of `RemoteCall` |
| `registry_live` | 1 host, 1 connection whose agent may stop reading, 2 calls | two concurrent dispatches refine `RemoteCall`, and each returns unless it waits for room behind an agent that does not read; a dead connection leaves |
| `agent_safety` | 2 connections, 3 reads, 2 writes, 2 read slots | exclusion, the cap on reads, one place per request, what may start late |
| `agent_live` | 2 connections, 1 read, 1 write | pings are answered whatever operations do; if they return, no write starves and leftovers end |
| `backup_store` | scheduler and a request, 2 sessions, 2 jobs; two troubles in any combination of a crash, a drop, a lost session, a row left open and another failing statement | lock, store and table with shredding, retention, finality of finished jobs |
| `backup_live` | scheduler and a request that backs up or restores, 2 jobs; two troubles of a crash, a drop, a row left open and another failing statement | every task ends, and every begun job unless a row has been left open |
| `nac_ports` | an operator who disables, a policy that quarantines, the auto-revert sweep, one port, 2 rows, one trouble in total (a request lost, refused or unanswered, a client gone, a stop, a failed query, a change of settings) | a port out of service is accounted for, and comes back when it is owed |
| `roles` | 3 roles, 2 users, 2 overlapping requests, 2 permissions, every initial forest | no orphans; undisturbed requests make no cycle and, as long as the walk for permissions reaches every root (`Shallow`), hand out nothing their author lacks and reach nothing outside its subtree |
| `tls_rotation` | 1 agent, 1 administrator who never tires, the sweep; 2 CAs, 3 server certificates, 2 troubles in total | files that can be gone on with, and no agent stranded |
| `registry_bounce`, `nac_stranded`, `backup_alone` | smallest | each refutes one sentence of the repository, see 7 |

Why the bounds are enough: the hazards of the registry are between an old and a
new connection of a host, so two connections; between two waiters, so two calls
and a channel of one; a third adds no new relation. The runner's are between two
connections, a write beside anything and one read more than there are slots. A
backup interacts with one other task and one dropped predecessor; retention
needs two listed backups with `keep_last` 0 for the protected one to be among
several, and larger tables and every `keep_last` are covered by the theorem. On a
port the actors are the three that exist, and a second row is what a check that
came too early lets in. Two requests are what an interleaving of roles needs; a
third role gives a chain below a system role, and `MaxAncestorWalk` is 4 where the
code has 20, more hops than there are roles in either. A rotation needs a second
CA, a server certificate for each and one to renew; an agent's trust depends on
nobody else's, so one agent stands for all. Its search stops (`CONSTRAINT
Telling`) at a state after a torn pair, of which no property says anything, and
after two overlapping pushes or a split bundle, of which only `ChainAtRest` says
anything, and that does not depend on agents. A connection whose agent stops
reading (`Stalling`) is in `registry_live` only: what it delays is a question of
liveness, and for safety a peer that does not read is one whose steps do not come.
Troubles are bounded together where each alone would multiply the states. The
invariants named in section 6 are proved for all instances. Connections and
calls of `HostRegistry` are used once each; those of `AgentServe` are used again
once nothing is left of them, so its runs are unbounded in time.

`backup_store` takes two states for one when they differ only in a dump that nothing
can read any more (`View` in `MCReliquary`): its archive is gone or was never
finished, and no backup or restore under way has it in its work directory.

`registry_safety` takes hosts, connections and calls as interchangeable: nothing in
the model names one of them, and the run checks no liveness.

`CHECK_DEADLOCK FALSE` is in the runs of every module but `AgentServe`: the
bounded supply of connections, calls, jobs, requests and troubles runs out.
`AgentServe` is checked for deadlock.

## 5. Fairness

- `HostRegistry`: weak fairness of each handler's and each call's step: tokio
  polls a task that can go on, the dispatch timer fires, and the heartbeat's
  write to a dead connection fails. Nothing is assumed of the agent or of admins:
  an agent need not answer and need not read, and a write to one that is alive and
  does not read never returns. `DispatchReturns` therefore has an exception,
  `BehindStalled` (section 7).
- `AgentServe`: `FairIO` covers the reader's reply and the writer, whose sink
  accepts or refuses; `FairTasks` adds the gate, the queue and that operations
  return (each runs its command under a timeout). Tasks that compete for a slot
  or for room in the channel get strong fairness: tokio's semaphore and channel
  serve their waiters in order. `PingAnswered` needs only `FairIO`; the other two
  properties state `FairTasks` as their premise.
- `Reliquary`: weak fairness of each task's progress, and of `Restart` or
  `RestartUnswept`: the service manager starts the control plane again. That the
  dump, the copy and the shred end is an assumption: the code gives them no time
  limit. Crashes, drops, failing statements and new requests are owed by nobody.

- `PortEnforcement`: weak fairness for each task: of the steps of an operator's
  request once it is made, of the auto-revert sweep (its pass, its next row, its
  steps), of the policy sweep (match, cooldown, steps), which tick every minute, and
  of the passing of time. Requests to a switch end in an answer or a timeout.
  Nothing is assumed of operators.

`Roles` and `InternalTls` state no fairness: their properties are about safety.

## 6. Theorems

Proved with TLAPS for every value of the constants that satisfies the named
assumptions:

- `HostRegistryProofs`: `TypeOK`, `NoDeadEntry`, `WaitersAccounted`,
  `RoutedRight`, `OnePlace`, `EpochIdentifies`, `FlagFollowsRow`, the action
  property `DropsOwnHostOnly`, and that the specification implements
  `RemoteCall`.
  The inductive invariant joins them with `CallShape` (a call past its lookup
  has a connection of its own host that knows its operation, whatever is
  registered by now), `HostShape` and `Placed`, on what a request's place says
  of the call: `RoutedRight` is preserved by the send only because of the first,
  and that a declined call never ran only because of the last.
- `AgentServeProofs`: `TypeOK`, `WritesRunAlone`, `WaitsInOnePlace`,
  `ReadsBounded`, `LateOnlyAfterError`. The exclusion rests on the gate's own invariant
  (`GateAlone`: a write that holds it is its only holder), the cap on the
  semaphore's (`SlotsBounded`), the last on `EndShape`: a connection that ended in
  order is closed.
- `ReliquaryProofs`: `TypeOK`, `OneBuilder`, `NamedWasWhole`,
  `MaintenanceMeansRestore`, `TerminalStays` and, for every table, age and
  `keep_last`, `RetentionSafe`. The inductive invariant adds that a task under
  the lock with a live session owns it alone (`LockShape`), that a job has at most
  one task (`JobShape`), that no row of a job still under way, in the table or in
  any dump, is finished or names an archive (`OpenJobs`), and that what is about
  to be recorded as a success is in the store (`OkIsWhole`).
- `RolesProofs`: `TypeOK` (with it, that no request removes a seeded role) and
  `NoOrphan`. What a request read may be stale when it writes, so the argument
  uses the conditions of the writes, which are the foreign keys; of the checks it
  needs only that a deletion under way is not of a system role
  (`DeletesNoSystemRole`), which cannot go stale. Then the action properties
  `MovesKeepForest`, `WithinCeiling` and `OwnReachOnly`. They rest on `Knowing`:
  what a request in `fresh` has found about the roles it is about (`Found`: which
  of them are below its author's, that the new parent is not below the role that
  moves, what may be granted) still holds when it writes. It is kept because the
  steps that leave a request fresh change no role that stays (`Steady`), and because
  ids come once (`IdsOnce`): a role deleted and another created with its id would
  pass for the one that was checked. `RoleWalks` has what that needs about walks:
  they are at one role at a time, join, end for good, and stay the same off a role
  that moves. These are proved for any number of hops, by induction over a set of
  numbers with the minimum of its complement, which stays first-order.
  `WithinCeiling` and `OwnReachOnly` have `Shallow` as a premise. It cannot be
  dropped: repeated moves make chains longer than the walk for permissions (section
  7), and what such a chain's far roots withhold is no longer withheld.
- `PortEnforcementProofs`: `TypeOK` and `EnforcedIsAccounted`. The latter is not
  inductive: an action changes the port before it writes its row, and a release
  brings the port back before it marks the row, while another task may act on the
  same port. A call cut off in between is excepted (`lost`), and so is a removed
  switch, whose rows are closed without a revert. `Shapes` says what a task knows at each point of its
  script (the port it works on, the original state it read, what is still to be
  sent, the row it reverts); `Accounts` says who answers for a changed port, a task on its way to write
  the row or a row that no task has undone yet.
- `InternalTlsProofs`: `TypeOK`, `ChainAtRest`, `ActiveTrusted` and `NoneStranded`.
  The files agree only when no script is in the middle of them, so the invariant
  (`Shapes`, `Chain`) says for each point of each script which files are new, and
  `Trust` and `Served` carry what an agent was sent, what was recorded of it and
  what Caddy serves across the steps in between. `Halves` says of a bundle half
  read that what it holds is the active CA or an earlier one, so that it cannot
  make a CA trusted that is still to be made. `ActiveTrusted` excepts "rushed",
  "overlap", "split" and "torn"; `NoneStranded` excepts "unserved" as well.

`SeqLemmas` holds facts about sequences without repetition that the first two
share. The proofs go action by action; each listed theorem ends in a temporal
step from the invariant.

Only model-checked, because fairness and `ENABLED` are outside what this prover
handles: the liveness properties `DispatchReturns`, `DeadConnectionLeaves`,
`PingAnswered`, `WriteNotStarved`, `LeftoversEnd`, `TasksEnd`, `JobsEnd` and
`OwedComesBack`. Every other property of a passing run is a theorem.

## 7. Where code and comments disagree

- `registry_bounce`: `unregister` removes by host id, so the handler of an old
  connection takes the entry, and the requests in flight, of the new one.
- `backup_alone`: a restore does not hold the named lock while it loads.
- `nac_stranded`: two requests for one port pass the check together, the second
  takes the quarantine for the port's original state, and reverting both leaves
  the port in quarantine.

Also seen while modelling, and without a run of their own:

- Registry: the control-plane flag is copied from a row read before the upgrade,
  and so undoes an admin's flagging in between (`web/src/routes/agent.rs:369`;
  `routes/hosts.rs:789` says that flagging "turns its guardrails on immediately").
  `FlagFollowsRow` says that this is the only way in which registry and row come to
  differ while no admin route for the host is under way, and that the next
  connection or admin change ends it.
- Registry: `dispatch` runs its timer only once the command is in the channel
  (`registry.rs:285`). Behind an agent that is alive and does not read, the handler
  waits in its write, sixteen commands fill the channel, and every further dispatch
  waits without a limit. `DispatchReturns` says that this is the only way.
- Runner: a read error leaves `connect_and_serve` before `close`, so queued work of
  the ended connection still starts (`agent/src/transport.rs:116`, against the
  comment on line 217). `LateOnlyAfterError` says that this is the only way.
- Backups: the retention sweep deletes by a selection that may be stale, so the
  last verified backup can go (`orchestrator.rs:262`, against line 224). A shred
  that fails, or is interrupted, keeps the row with the verdict of before
  (`routes/reliquary_backup.rs:714`): the page shows a verified backup, and the
  retention counts as one, what is partly overwritten. When the recovery at startup
  fails (`app/src/main.rs:145`), rows stay running until the next start;
  `JobsEnd` excepts this, a lost final UPDATE and a dropped request (`RowsLeft`).
- Access control: the cooldown counts from `created_at`, so a manual release after
  the cooldown is followed by the next sweep's action, although
  `core/src/settings.rs:266` says a manual release sticks; a failed apply is
  reported as a port that was not changed, although a SET without an answer may
  have changed it; a release that works on a row another one has already reverted
  may mark it as failed to revert. A client that goes away, a stop or a failed
  INSERT between the last SET and the row (`panopticon_enforcement.rs:200`) leaves a
  port down or in quarantine that no row names, so nothing brings it back: `lost` is
  just this. Releasing a failed quarantine, whose row kept no PVID, marks it
  reverted without restoring one.
- Roles: `edit_role` compares only the new parent's depth with `MAX_ROLE_DEPTH` and
  not what hangs below the role it moves (`routes/roles.rs:590`; `ARCHITECTURE.md:127`
  says nesting is capped), so repeated moves go past `MAX_ANCESTOR_WALK` too. Two
  moves at once can make a cycle, whose roles no root caps. `apply_permissions`
  writes back grants it read before; a rename rewrites the parent it read. A role
  assigned after `delete_role` counted its users goes with it, and leaves the user
  without one. `core/src/role.rs:9` names a `set_parent` that does not exist.
- TLS: after `activate_rotation` has replaced `ca.pem`, a failed write or reload, or a
  stop, leaves Caddy with the old certificate while agents are sent the new CA
  alone on their next connect; they cannot come back until Caddy is reloaded
  (`README.md:213`: "two-phase so nothing gets stranded"). `NoneStranded` excepts
  just that. A push that reads `ca.pem` before an activation and `pending-ca.pem`
  after it, when that is gone, sends the old CA alone (`internal_tls.rs:244`); if
  that is the last word, the agent trusts nothing that Caddy serves, with no
  failure anywhere. Both properties except that bundle. A stop between `ca.key` and `ca.pem` leaves a pair that issues invalid
  certificates and that nothing recognises; one between the server's key and its
  certificate in a manual renewal is not seen by `status()` either. Two pushes to
  one agent may be applied in the other order than they are recorded, so
  `HostPush::trusts` can be wrong. Activation takes whatever CA is pending, not the
  one the administrator was shown.
- A dispatch that took its sender before `unregister` and inserted its pending
  entry after it waits out its timeout, although `unregister`'s comment says that
  waiting dispatches fail at once. (`DispatchReturns` holds all the same.)
- Two overlapping restores share one maintenance flag; the first to end clears
  it for both. Hence `MaintenanceMeansRestore` in one direction only.
- An archive's own row is dumped as `running`, so a restore brings back a running
  job without a task, until the next start fails it; likewise a request dropped in
  mid-backup leaves its row open until then. `JobsEnd` is stated accordingly.

## 8. Not modelled

Parts without a module are listed in `PROJECT.json` with the reason. Of the
modelled parts: the protected ports and the Docker device of the control-plane
guard, `last_seen`, unsolicited telemetry and the reconnect back-off, the
backup settings page, Sepulchre destinations, archive and encryption formats,
the restore's work directory and the disaster-recovery command line; a switch
without its key, the editing of policy rules and the RADIUS listener; passwords
and sessions of an account, and the visibility of dashboard modules; certificate
addresses, the very first start, `abyssal-arsenal tls` and agents that trust the
operating system's store. Elevation keeps two windows for one state, the agent's
and a mirror of it in the control plane that its own comments call best-effort
and allowed to drift, so there is no promise to check. HTML,
static assets, migrations, installers and the wrappers around system tools are
input and output without a protocol, and stay out.
