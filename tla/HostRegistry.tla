--------------------------- MODULE HostRegistry ---------------------------
(***************************************************************************)
(* The control plane's side of the agent connections: the in-memory        *)
(* HostConnectionRegistry (hosts/src/registry.rs), the WebSocket handler    *)
(* that owns one connection (web/src/routes/agent.rs, handle_socket), the   *)
(* dispatch calls that wait on it, and the admin routes that change a host  *)
(* under them (web/src/routes/hosts.rs).  Each registry map has a mutex of  *)
(* its own, so an operation that takes two of them is two actions here; a   *)
(* step that takes none, or only one, is one action.                        *)
(*                                                                         *)
(* The agent is an environment here (AgentServe models it): a peer that     *)
(* runs what reaches it, answers in any order, may stop reading, and may    *)
(* disappear without the control plane noticing at once (a half-open TCP    *)
(* connection).                                                             *)
(***************************************************************************)
EXTENDS Naturals, Sequences, FiniteSets

CONSTANTS
    Host,        \* enrolled hosts
    Sock,        \* WebSocket connections, each used once
    Call,        \* dispatch calls; a call is its own request id (a fresh v4 UUID)
    Op,          \* operations
    GuardedOp,   \* those control_plane_guard::check refuses
    MinProto,    \* AgentOperation::min_protocol
    Version,     \* protocol versions an agent reports; 0 is "none reported"
    QueueCap,    \* capacity of a connection's command channel (16 in the code)
    MaxAdmin,    \* bound: admin changes of a host in a behaviour
    Stalling,    \* bound: the connections whose agent may stop reading
    NoHost, NoSock, NoOp

ASSUME ConstAssumption ==
    /\ NoHost \notin Host /\ NoSock \notin Sock /\ NoOp \notin Op
    /\ GuardedOp \subseteq Op
    /\ Version \subseteq Nat /\ Stalling \subseteq Sock
    /\ MinProto \in [Op -> Nat]
    /\ QueueCap \in Nat \ {0} /\ MaxAdmin \in Nat

VARIABLES
    connections,   \* HostConnectionRegistry.connections: host -> its sender, by socket
    epoch,         \* the epoch a socket was registered under, 0 before that
    nextEpoch,     \* HostConnectionRegistry.next_epoch
    pending,       \* HostConnectionRegistry.pending: request -> the host it was sent to
    controlPlane,  \* HostConnectionRegistry.control_plane
    staleFlag,     \* history: hosts whose flag there a handler last set from an outdated row
    row,           \* hosts table: whether the credential resolves, "active" | "revoked" | "gone"
    rowFlag,       \* hosts table: is_control_plane
    adminStep, adminHost,  \* the admin route under way: its next step, and its host
    adminCount,
    handler,       \* where a connection's handle_socket is
    sockHost, sockVersion, sockFlag,  \* what AgentAuth read for it
    chan,          \* its mpsc channel
    peer,          \* the agent's end: "none" | "up" | "stalled" | "gone"
    sent,          \* commands written to the socket and not yet run
    done,          \* commands the agent ran and has not answered
    answered,      \* responses on their way back
    pc,            \* where a dispatch call is
    callHost, callOp,
    via,           \* the sender clone a call holds
    oneshot,       \* its oneshot channel: "none" | "open" | "ok" | "dropped"
    result,        \* what it returned
    ran            \* history: requests some agent has run

registryVars == <<connections, epoch, nextEpoch, controlPlane, staleFlag>>
rowVars      == <<row, rowFlag, adminStep, adminHost, adminCount>>
authVars     == <<sockHost, sockVersion, sockFlag>>
wireVars     == <<peer, sent, done, answered, ran>>
callVars     == <<pc, callHost, callOp, via, result>>
vars == <<registryVars, pending, rowVars, handler, authVars, chan, wireVars, callVars, oneshot>>

InLoop       == {"serving", "writing", "pinging"}     \* handle_socket's select loop
HandlerState == {"new", "auth", "flagged", "numbered", "ending", "dropping", "leaving", "done"}
                  \cup InLoop
Outcome      == {"Ok", "Refused", "NotConnected", "AgentTooOld", "ConnectionClosed", "Timeout"}
CallState    == {"idle", "guarded", "found", "sending", "waiting", "returned", "cancelled"}
AdminStep    == {"idle", "flag", "unflag", "unregister", "drop"}

Init ==
    /\ connections = [h \in Host |-> NoSock]
    /\ epoch = [s \in Sock |-> 0]
    /\ nextEpoch = 0
    /\ pending = [c \in Call |-> NoHost]
    /\ row = [h \in Host |-> "active"]
    /\ rowFlag \in [Host -> BOOLEAN]
    /\ controlPlane = {h \in Host : rowFlag[h]}      \* control_plane::load
    /\ staleFlag = {}
    /\ adminStep = "idle" /\ adminHost = NoHost
    /\ adminCount = 0
    /\ handler = [s \in Sock |-> "new"]
    /\ sockHost = [s \in Sock |-> NoHost]
    /\ sockVersion = [s \in Sock |-> 0]
    /\ sockFlag = [s \in Sock |-> FALSE]
    /\ chan = [s \in Sock |-> <<>>]
    /\ peer = [s \in Sock |-> "none"]
    /\ sent = [s \in Sock |-> {}]
    /\ done = [s \in Sock |-> {}]
    /\ answered = [s \in Sock |-> {}]
    /\ pc = [c \in Call |-> "idle"]
    /\ callHost = [c \in Call |-> NoHost]
    /\ callOp = [c \in Call |-> NoOp]
    /\ via = [c \in Call |-> NoSock]
    /\ oneshot = [c \in Call |-> "none"]
    /\ result = [c \in Call |-> "none"]
    /\ ran = {}

-----------------------------------------------------------------------------
(* The registry's operations, one per critical section.                     *)

Registered(h) == connections[h] # NoSock

(* set_control_plane *)
SetFlag(h, b) ==
    controlPlane' = IF b THEN controlPlane \cup {h} ELSE controlPlane \ {h}

(* Mutants: the counter is taken down, or only read. *)
NextEpochDown(s) ==
    /\ nextEpoch' = nextEpoch - 1
    /\ epoch' = [epoch EXCEPT ![s] = nextEpoch]

NextEpochSame(s) ==
    /\ epoch' = [epoch EXCEPT ![s] = nextEpoch + 1]
    /\ UNCHANGED nextEpoch

(* register takes the next epoch, before it locks the connections ... *)
NextEpoch(s) ==
    /\ nextEpoch' = nextEpoch + 1
    /\ epoch' = [epoch EXCEPT ![s] = nextEpoch + 1]

(* ... and overwrites whatever entry the host had, which drops its sender. *)
InsertEntry(h, s) == connections' = [connections EXCEPT ![h] = s]

(* Mutant: unregister forgets the connection map. *)
RemoveEntryKept(h) == UNCHANGED connections

(* unregister, first critical section: by host id, whichever connection the
   entry belongs to. *)
RemoveEntry(h) == connections' = [connections EXCEPT ![h] = NoSock]

(* Mutant: unregister fails every host's requests. *)
InFlightAny(h) == {c \in Call : pending[c] # NoHost}

(* unregister, second critical section: every request still pending on the host
   loses its oneshot sender. *)
InFlight(h) == {c \in Call : pending[c] = h}

DropPending(h) ==
    /\ pending' = [c \in Call |-> IF c \in InFlight(h) THEN NoHost ELSE pending[c]]
    /\ oneshot' = [c \in Call |-> IF c \in InFlight(h) THEN "dropped" ELSE oneshot[c]]

-----------------------------------------------------------------------------
(* One connection: AgentAuth, then handle_socket.                           *)

(* Nobody is left who could send on the channel: the registry's entry was
   replaced or removed, and no dispatch holds a clone. *)
NoSender(s) ==
    /\ \A h \in Host : connections[h] # s
    /\ \A c \in Call : via[c] # s

(* AgentAuth resolves the credential to the host's row as it is now.  An agent
   is one process that opens a connection when its last one has ended. *)
Connect(s, h, v) ==
    /\ handler[s] = "new"
    /\ row[h] = "active"
    /\ \A t \in Sock : sockHost[t] = h => peer[t] = "gone"
    /\ handler' = [handler EXCEPT ![s] = "auth"]
    /\ sockHost' = [sockHost EXCEPT ![s] = h]
    /\ sockVersion' = [sockVersion EXCEPT ![s] = v]
    /\ sockFlag' = [sockFlag EXCEPT ![s] = rowFlag[h]]
    /\ peer' = [peer EXCEPT ![s] = "up"]
    /\ UNCHANGED <<registryVars, pending, rowVars, chan, sent, done, answered, ran,
                   callVars, oneshot>>

(* handle_socket flags the host from the row it authenticated with ... *)
FlagHost(s) ==
    /\ handler[s] = "auth"
    /\ SetFlag(sockHost[s], sockFlag[s])
    /\ staleFlag' = IF sockFlag[s] = rowFlag[sockHost[s]] THEN staleFlag \ {sockHost[s]}
                                                          ELSE staleFlag \cup {sockHost[s]}
    /\ handler' = [handler EXCEPT ![s] = "flagged"]
    /\ UNCHANGED <<connections, epoch, nextEpoch, pending, rowVars, authVars, chan,
                   wireVars, callVars, oneshot>>

(* ... and then registers its sender, in two steps: another handler of the host
   may put its own entry in between. *)
TakeEpoch(s) ==
    /\ handler[s] = "flagged"
    /\ NextEpoch(s)
    /\ handler' = [handler EXCEPT ![s] = "numbered"]
    /\ UNCHANGED <<connections, controlPlane, staleFlag, pending, rowVars, authVars, chan,
                   wireVars, callVars, oneshot>>

Register(s) ==
    /\ handler[s] = "numbered"
    /\ InsertEntry(sockHost[s], s)
    /\ handler' = [handler EXCEPT ![s] = "serving"]
    /\ UNCHANGED <<epoch, nextEpoch, controlPlane, staleFlag, pending, rowVars, authVars,
                   chan, wireVars, callVars, oneshot>>

(* The select loop's rx.recv arm takes a command and writes it, and serves nothing
   else until the write returns; the command stays at chan's head meanwhile. *)
StartWrite(s) ==
    /\ handler[s] = "serving"
    /\ chan[s] # <<>>
    /\ handler' = [handler EXCEPT ![s] = "writing"]
    /\ UNCHANGED <<registryVars, pending, rowVars, authVars, chan, wireVars, callVars,
                   oneshot>>

(* The write returns, unless the peer has stopped reading.  One to a peer that is
   gone may still succeed locally; the command is lost. *)
Forward(s) ==
    /\ handler[s] = "writing"
    /\ peer[s] # "stalled"
    /\ handler' = [handler EXCEPT ![s] = "serving"]
    /\ chan' = [chan EXCEPT ![s] = Tail(chan[s])]
    /\ sent' = [sent EXCEPT ![s] = IF peer[s] = "up" THEN sent[s] \cup {Head(chan[s])}
                                                     ELSE sent[s]]
    /\ UNCHANGED <<registryVars, pending, rowVars, authVars, peer, done, answered, ran,
                   callVars, oneshot>>

WriteFails(s) ==
    /\ handler[s] = "writing"
    /\ peer[s] = "gone"
    /\ handler' = [handler EXCEPT ![s] = "ending"]
    /\ chan' = [chan EXCEPT ![s] = Tail(chan[s])]
    /\ UNCHANGED <<registryVars, pending, rowVars, authVars, wireVars, callVars, oneshot>>

(* The heartbeat arm, where it matters: its write to a peer that has stopped
   reading holds the loop. *)
Heartbeat(s) ==
    /\ handler[s] = "serving"
    /\ peer[s] = "stalled"
    /\ handler' = [handler EXCEPT ![s] = "pinging"]
    /\ UNCHANGED <<registryVars, pending, rowVars, authVars, chan, wireVars, callVars,
                   oneshot>>

(* The socket.recv arm: a response goes to whichever call waits on its id, and
   one with no waiter is dropped. *)
Resolve(s, c) ==
    /\ handler[s] = "serving"
    /\ c \in answered[s]
    /\ answered' = [answered EXCEPT ![s] = answered[s] \ {c}]
    /\ IF pending[c] # NoHost
         THEN /\ pending' = [pending EXCEPT ![c] = NoHost]
              /\ oneshot' = [oneshot EXCEPT ![c] = "ok"]
         ELSE UNCHANGED <<pending, oneshot>>
    /\ UNCHANGED <<registryVars, rowVars, handler, authVars, chan, peer, sent, done, ran,
                   callVars>>

(* Mutant: the loop only ends with its channel. *)
EndLoopOnChannel(s) ==
    /\ handler[s] = "serving"
    /\ chan[s] = <<>> /\ NoSender(s)
    /\ handler' = [handler EXCEPT ![s] = "ending"]
    /\ UNCHANGED <<registryVars, pending, rowVars, authVars, chan, wireVars, callVars,
                   oneshot>>

(* Leaving the loop: the socket fails (a read, a command or a heartbeat that
   finds the peer gone), or rx.recv says every sender was dropped. *)
EndLoop(s) ==
    /\ \/ handler[s] \in {"serving", "pinging"} /\ peer[s] = "gone"
       \/ handler[s] = "serving" /\ chan[s] = <<>> /\ NoSender(s)
    /\ handler' = [handler EXCEPT ![s] = "ending"]
    /\ UNCHANGED <<registryVars, pending, rowVars, authVars, chan, wireVars, callVars,
                   oneshot>>

UnregisterEntry(s) ==
    /\ handler[s] = "ending"
    /\ RemoveEntry(sockHost[s])
    /\ handler' = [handler EXCEPT ![s] = "dropping"]
    /\ UNCHANGED <<epoch, nextEpoch, controlPlane, staleFlag, pending, rowVars, authVars,
                   chan, wireVars, callVars, oneshot>>

UnregisterPending(s) ==
    /\ handler[s] = "dropping"
    /\ DropPending(sockHost[s])
    /\ handler' = [handler EXCEPT ![s] = "leaving"]
    /\ UNCHANGED <<registryVars, rowVars, authVars, chan, wireVars, callVars>>

(* handle_socket returns: the receiver and the socket are dropped. *)
Leave(s) ==
    /\ handler[s] = "leaving"
    /\ handler' = [handler EXCEPT ![s] = "done"]
    /\ chan' = [chan EXCEPT ![s] = <<>>]
    /\ answered' = [answered EXCEPT ![s] = {}]
    /\ UNCHANGED <<registryVars, pending, rowVars, authVars, peer, sent, done, ran,
                   callVars, oneshot>>

-----------------------------------------------------------------------------
(* The agent's end of a connection.                                         *)

(* Lost, closed or crashed; the handler learns of it later. *)
PeerGone(s) ==
    /\ peer[s] \in {"up", "stalled"}
    /\ peer' = [peer EXCEPT ![s] = "gone"]
    /\ UNCHANGED <<registryVars, pending, rowVars, handler, authVars, chan, sent, done,
                   answered, ran, callVars, oneshot>>

(* It stops reading for good, with its connection alive (a suspended process, a
   path that swallows packets); an agent that reads slowly is one still up. *)
Stall(s) ==
    /\ s \in Stalling
    /\ peer[s] = "up"
    /\ peer' = [peer EXCEPT ![s] = "stalled"]
    /\ UNCHANGED <<registryVars, pending, rowVars, handler, authVars, chan, sent, done,
                   answered, ran, callVars, oneshot>>

(* A command that reached the agent runs, even when its connection has ended
   since. *)
AgentRun(s, c) ==
    /\ c \in sent[s]
    /\ sent' = [sent EXCEPT ![s] = sent[s] \ {c}]
    /\ done' = [done EXCEPT ![s] = done[s] \cup {c}]
    /\ ran' = ran \cup {c}
    /\ UNCHANGED <<registryVars, pending, rowVars, handler, authVars, chan, peer,
                   answered, callVars, oneshot>>

(* The answer to a command the agent ran.  One it cannot parse is answered without
   running it, but RoutedRight leaves no such command. *)
AgentAnswer(s, c) ==
    /\ peer[s] \in {"up", "stalled"}
    /\ c \in done[s]
    /\ done' = [done EXCEPT ![s] = done[s] \ {c}]
    /\ answered' = [answered EXCEPT ![s] = IF handler[s] = "done" THEN answered[s]
                                           ELSE answered[s] \cup {c}]
    /\ UNCHANGED <<registryVars, pending, rowVars, handler, authVars, chan, peer, sent,
                   ran, callVars, oneshot>>

-----------------------------------------------------------------------------
(* dispatch, from one lock or await to the next.                            *)

Return(c, o) ==
    /\ pc' = [pc EXCEPT ![c] = "returned"]
    /\ result' = [result EXCEPT ![c] = o]
    /\ via' = [via EXCEPT ![c] = NoSock]

(* guard *)
Guard(c, h, op) ==
    /\ pc[c] = "idle"
    /\ callHost' = [callHost EXCEPT ![c] = h]
    /\ callOp' = [callOp EXCEPT ![c] = op]
    /\ IF h \in controlPlane /\ op \in GuardedOp
         THEN Return(c, "Refused")
         ELSE pc' = [pc EXCEPT ![c] = "guarded"] /\ UNCHANGED <<via, result>>
    /\ UNCHANGED <<registryVars, pending, rowVars, handler, authVars, chan, wireVars,
                   oneshot>>

TooOld(s, op) == sockVersion[s] < MinProto[op]

(* The lookup, one critical section: no connection, an agent too old for the
   operation, or a clone of the sender. *)
LookupNone(c) ==
    /\ pc[c] = "guarded"
    /\ ~Registered(callHost[c])
    /\ Return(c, "NotConnected")
    /\ UNCHANGED <<registryVars, pending, rowVars, handler, authVars, chan, wireVars,
                   callHost, callOp, oneshot>>

LookupTooOld(c) ==
    /\ pc[c] = "guarded"
    /\ Registered(callHost[c])
    /\ TooOld(connections[callHost[c]], callOp[c])
    /\ Return(c, "AgentTooOld")
    /\ UNCHANGED <<registryVars, pending, rowVars, handler, authVars, chan, wireVars,
                   callHost, callOp, oneshot>>

(* Mutant: dispatch sends whatever the agent's version. *)
LookupFoundAny(c) ==
    /\ pc[c] = "guarded"
    /\ Registered(callHost[c])
    /\ pc' = [pc EXCEPT ![c] = "found"]
    /\ via' = [via EXCEPT ![c] = connections[callHost[c]]]
    /\ UNCHANGED <<registryVars, pending, rowVars, handler, authVars, chan, wireVars,
                   callHost, callOp, result, oneshot>>

LookupFound(c) ==
    /\ pc[c] = "guarded"
    /\ Registered(callHost[c])
    /\ ~TooOld(connections[callHost[c]], callOp[c])
    /\ pc' = [pc EXCEPT ![c] = "found"]
    /\ via' = [via EXCEPT ![c] = connections[callHost[c]]]
    /\ UNCHANGED <<registryVars, pending, rowVars, handler, authVars, chan, wireVars,
                   callHost, callOp, result, oneshot>>

InsertPending(c) ==
    /\ pc[c] = "found"
    /\ pc' = [pc EXCEPT ![c] = "sending"]
    /\ pending' = [pending EXCEPT ![c] = callHost[c]]
    /\ oneshot' = [oneshot EXCEPT ![c] = "open"]
    /\ UNCHANGED <<registryVars, rowVars, handler, authVars, chan, wireVars, callHost,
                   callOp, via, result>>

(* The command being written has left the channel. *)
Room(s) == Len(chan[s]) < QueueCap + (IF handler[s] = "writing" THEN 1 ELSE 0)

(* Mutant: the send is retried after it went through. *)
SendOkAgain(c) ==
    /\ pc[c] = "sending"
    /\ handler[via[c]] # "done"
    /\ Room(via[c])
    /\ chan' = [chan EXCEPT ![via[c]] = Append(chan[via[c]], c)]
    /\ pc' \in {pc, [pc EXCEPT ![c] = "waiting"]}
    /\ UNCHANGED <<registryVars, pending, rowVars, handler, authVars, wireVars, callHost,
                   callOp, via, result, oneshot>>

(* sender.send().await with room in the channel: no timer runs while it waits ... *)
SendOk(c) ==
    /\ pc[c] = "sending"
    /\ handler[via[c]] # "done"
    /\ Room(via[c])
    /\ chan' = [chan EXCEPT ![via[c]] = Append(chan[via[c]], c)]
    /\ pc' = [pc EXCEPT ![c] = "waiting"]
    /\ UNCHANGED <<registryVars, pending, rowVars, handler, authVars, wireVars, callHost,
                   callOp, via, result, oneshot>>

(* ... and with the receiver dropped, before the send or while it waited. *)
SendErr(c) ==
    /\ pc[c] = "sending"
    /\ handler[via[c]] = "done"
    /\ pending' = [pending EXCEPT ![c] = NoHost]
    /\ Return(c, "ConnectionClosed")
    /\ UNCHANGED <<registryVars, rowVars, handler, authVars, chan, wireVars, callHost,
                   callOp, oneshot>>

(* Mutant: a dropped sender is taken for an outcome. *)
ReceiveAny(c, signal, o) ==
    /\ pc[c] = "waiting"
    /\ oneshot[c] \in {signal, "dropped"}
    /\ Return(c, o)
    /\ UNCHANGED <<registryVars, pending, rowVars, handler, authVars, chan, wireVars,
                   callHost, callOp, oneshot>>

(* The oneshot resolves: with an outcome, or with its sender dropped. *)
Receive(c, signal, o) ==
    /\ pc[c] = "waiting"
    /\ oneshot[c] = signal
    /\ Return(c, o)
    /\ UNCHANGED <<registryVars, pending, rowVars, handler, authVars, chan, wireVars,
                   callHost, callOp, oneshot>>

(* Mutants: the timed-out request stays pending; there is no timer. *)
TimeoutKeeps(c) ==
    /\ pc[c] = "waiting"
    /\ oneshot[c] = "open"
    /\ Return(c, "Timeout")
    /\ UNCHANGED <<registryVars, pending, rowVars, handler, authVars, chan, wireVars,
                   callHost, callOp, oneshot>>

TimeoutNever(c) ==
    /\ pc[c] = "waiting"
    /\ oneshot[c] = "none"
    /\ UNCHANGED vars

(* The timer fires first: the entry goes, and a later response finds no waiter. *)
Timeout(c) ==
    /\ pc[c] = "waiting"
    /\ oneshot[c] = "open"
    /\ pending' = [pending EXCEPT ![c] = NoHost]
    /\ Return(c, "Timeout")
    /\ UNCHANGED <<registryVars, rowVars, handler, authVars, chan, wireVars, callHost,
                   callOp, oneshot>>

(* The caller's future is dropped at an await (the browser went away): its
   pending entry stays. *)
Cancel(c) ==
    /\ pc[c] \in {"sending", "waiting"}
    /\ pc' = [pc EXCEPT ![c] = "cancelled"]
    /\ via' = [via EXCEPT ![c] = NoSock]
    /\ UNCHANGED <<registryVars, pending, rowVars, handler, authVars, chan, wireVars,
                   callHost, callOp, result, oneshot>>

-----------------------------------------------------------------------------
(* Admin routes.  One is under way at a time.                               *)

StartAdmin(h, step) ==
    /\ adminStep = "idle"
    /\ adminCount < MaxAdmin
    /\ row[h] # "gone"
    /\ adminStep' = step /\ adminHost' = h
    /\ adminCount' = adminCount + 1

NextAdmin(step) == adminStep' = step /\ UNCHANGED <<adminHost, adminCount>>

(* set_control_plane: the row first, ... *)
AdminFlagRow(h, b) ==
    /\ StartAdmin(h, IF b THEN "flag" ELSE "unflag")
    /\ rowFlag' = [rowFlag EXCEPT ![h] = b]
    /\ UNCHANGED <<registryVars, pending, row, handler, authVars, chan, wireVars,
                   callVars, oneshot>>

(* Mutant: only a host that is connected is flagged in the registry. *)
AdminFlagConnected ==
    /\ adminStep \in {"flag", "unflag"}
    /\ SetFlag(adminHost, adminStep = "flag" /\ Registered(adminHost))
    /\ staleFlag' = staleFlag \ {adminHost}
    /\ NextAdmin("idle")
    /\ UNCHANGED <<connections, epoch, nextEpoch, pending, row, rowFlag, handler,
                   authVars, chan, wireVars, callVars, oneshot>>

(* ... then the registry.  remove ends with the same step. *)
AdminFlag ==
    /\ adminStep \in {"flag", "unflag"}
    /\ SetFlag(adminHost, adminStep = "flag")
    /\ staleFlag' = staleFlag \ {adminHost}
    /\ NextAdmin("idle")
    /\ UNCHANGED <<connections, epoch, nextEpoch, pending, row, rowFlag, handler,
                   authVars, chan, wireVars, callVars, oneshot>>

(* revoke changes the row only: a live connection stays. *)
AdminRevoke(h) ==
    /\ StartAdmin(h, "idle")
    /\ row' = [row EXCEPT ![h] = "revoked"]
    /\ UNCHANGED <<registryVars, pending, rowFlag, handler, authVars, chan, wireVars,
                   callVars, oneshot>>

(* remove deletes the row, unregisters the host and unflags it. *)
AdminDelete(h) ==
    /\ StartAdmin(h, "unregister")
    /\ row' = [row EXCEPT ![h] = "gone"]
    /\ rowFlag' = [rowFlag EXCEPT ![h] = FALSE]
    /\ UNCHANGED <<registryVars, pending, handler, authVars, chan, wireVars, callVars,
                   oneshot>>

AdminUnregisterEntry ==
    /\ adminStep = "unregister"
    /\ RemoveEntry(adminHost)
    /\ NextAdmin("drop")
    /\ UNCHANGED <<epoch, nextEpoch, controlPlane, staleFlag, pending, row, rowFlag,
                   handler, authVars, chan, wireVars, callVars, oneshot>>

AdminUnregisterPending ==
    /\ adminStep = "drop"
    /\ DropPending(adminHost)
    /\ NextAdmin("unflag")
    /\ UNCHANGED <<registryVars, row, rowFlag, handler, authVars, chan,
                   wireVars, callVars>>

-----------------------------------------------------------------------------
HandlerStep(s) ==
    \/ FlagHost(s) \/ TakeEpoch(s) \/ Register(s)
    \/ StartWrite(s) \/ Forward(s) \/ WriteFails(s) \/ Heartbeat(s) \/ EndLoop(s)
    \/ UnregisterEntry(s) \/ UnregisterPending(s) \/ Leave(s)
    \/ \E c \in Call : Resolve(s, c)

AgentStep(s) ==
    \/ PeerGone(s) \/ Stall(s)
    \/ \E c \in Call : AgentRun(s, c) \/ AgentAnswer(s, c)
    \/ \E h \in Host, v \in Version : Connect(s, h, v)

CallStep(c) ==
    \/ LookupNone(c) \/ LookupTooOld(c) \/ LookupFound(c)
    \/ InsertPending(c) \/ SendOk(c) \/ SendErr(c)
    \/ Receive(c, "ok", "Ok") \/ Receive(c, "dropped", "ConnectionClosed") \/ Timeout(c)

AdminNext ==
    \/ AdminFlag \/ AdminUnregisterEntry \/ AdminUnregisterPending
    \/ \E h \in Host : \/ AdminRevoke(h) \/ AdminDelete(h)
                       \/ \E b \in BOOLEAN : AdminFlagRow(h, b)

Next ==
    \/ \E s \in Sock : HandlerStep(s) \/ AgentStep(s)
    \/ \E c \in Call : \/ CallStep(c) \/ Cancel(c)
                       \/ \E h \in Host, op \in Op : Guard(c, h, op)
    \/ AdminNext

Spec == Init /\ [][Next]_vars

(* Tokio runs every task that can run, and the dispatch timer fires.  The agent
   owes nothing: it may never connect, read, run or answer.  A dead or dropped
   connection's handler does leave its loop: the heartbeat's write fails. *)
Fairness ==
    /\ \A s \in Sock : WF_vars(HandlerStep(s))
    /\ \A c \in Call : WF_vars(CallStep(c))

FairSpec == Spec /\ Fairness

-----------------------------------------------------------------------------
TypeOK ==
    /\ connections \in [Host -> Sock \cup {NoSock}]
    /\ epoch \in [Sock -> Nat] /\ nextEpoch \in Nat
    /\ pending \in [Call -> Host \cup {NoHost}]
    /\ controlPlane \subseteq Host /\ staleFlag \subseteq Host
    /\ row \in [Host -> {"active", "revoked", "gone"}] /\ rowFlag \in [Host -> BOOLEAN]
    /\ adminStep \in AdminStep /\ adminHost \in Host \cup {NoHost}
    /\ adminCount \in Nat
    /\ handler \in [Sock -> HandlerState]
    /\ sockHost \in [Sock -> Host \cup {NoHost}]
    /\ sockVersion \in [Sock -> Nat] /\ sockFlag \in [Sock -> BOOLEAN]
    /\ chan \in [Sock -> Seq(Call)]
    /\ peer \in [Sock -> {"none", "up", "stalled", "gone"}]
    /\ sent \in [Sock -> SUBSET Call] /\ done \in [Sock -> SUBSET Call]
    /\ answered \in [Sock -> SUBSET Call]
    /\ pc \in [Call -> CallState]
    /\ callHost \in [Call -> Host \cup {NoHost}] /\ callOp \in [Call -> Op \cup {NoOp}]
    /\ via \in [Call -> Sock \cup {NoSock}]
    /\ oneshot \in [Call -> {"none", "open", "ok", "dropped"}]
    /\ result \in [Call -> Outcome \cup {"none"}]
    /\ ran \subseteq Call

(* A request that is somewhere between the channel and its answer. *)
Queued(s)  == {chan[s][i] : i \in DOMAIN chan[s]}
OnSock(s)  == Queued(s) \cup sent[s] \cup done[s] \cup answered[s]

(* The registry never holds a connection whose handler has unregistered: what a
   dispatch looks up is a connection of that very host, still inside
   handle_socket.  It must survive a reconnect that overwrites the entry and an
   old handler that removes its successor's. *)
NoDeadEntry ==
    \A h \in Host : Registered(h) =>
        /\ sockHost[connections[h]] = h
        /\ handler[connections[h]] \in InLoop \cup {"ending"}

(* Every waiting dispatch can still be woken and nothing else is kept: a pending
   entry exists exactly while its oneshot is open, it names the host the call is
   for, and only a cancelled call's entry outlives the call. *)
WaitersAccounted ==
    \A c \in Call :
        /\ pending[c] # NoHost => /\ oneshot[c] = "open"
                                  /\ pending[c] = callHost[c]
                                  /\ pc[c] \in {"sending", "waiting", "cancelled"}
        /\ pc[c] \in {"sending", "waiting"} /\ oneshot[c] = "open" => pending[c] # NoHost

(* What is queued on, or was written to, a connection belongs to its host and is
   an operation its agent's protocol knows, although the host may reconnect with
   another version between dispatch's check and its send. *)
RoutedRight ==
    \A s \in Sock : \A c \in OnSock(s) :
        sockHost[s] = callHost[c] /\ ~TooOld(s, callOp[c])

(* A request is in at most one place, so no agent is ever sent it twice and no
   two responses to it exist. *)
OnePlace ==
    /\ \A s \in Sock : \A i, j \in DOMAIN chan[s] : chan[s][i] = chan[s][j] => i = j
    /\ \A c \in Call : \A s, t \in Sock : c \in OnSock(s) /\ c \in OnSock(t) => s = t
    /\ \A c \in Call : \A s \in Sock :
         /\ c \in Queued(s) => c \notin sent[s] \cup ran
         /\ c \in sent[s] => c \notin ran
         /\ c \in done[s] => c \notin answered[s]

(* connection_epoch tells a host's connections apart: no two ever have the same
   one, although register takes the number and puts the entry in the map in
   separate steps and two handlers of a host may do so crosswise (the map's epochs
   need not grow).  agent_update's wait for a reconnect and thanatos_stream's check
   for "the connection streaming was started on" compare nothing else. *)
EpochIdentifies ==
    \A s, t \in Sock : epoch[s] # 0 /\ epoch[s] = epoch[t] => s = t

(* Only the end of a connection of a call's own host, or the removal of that
   host, fails the call: one host going away disturbs no other. *)
DropsOwnHostOnly ==
    [][\A c \in Call :
         oneshot[c] = "open" /\ oneshot'[c] = "dropped" =>
           \/ adminStep = "drop" /\ adminHost = callHost[c]
           \/ \E s \in Sock : handler[s] = "dropping" /\ sockHost[s] = callHost[c]]_vars

(* The detail of connections and pending entries hidden, dispatch is a remote
   call: see RemoteCall. *)
phase ==
    [c \in Call |-> IF pc[c] \in {"idle", "returned", "cancelled"} THEN pc[c] ELSE "open"]

Remote == INSTANCE RemoteCall WITH outcome <- result

ImplementsRemoteCall == Remote!Spec

(* A dispatch that waits for room in the channel of an agent that does not read. *)
BehindStalled(c) ==
    pc[c] = "sending" /\ peer[via[c]] = "stalled" /\ ~Room(via[c])

(* Every dispatch returns, whatever its agent does, with one exception: the timeout
   covers the wait for the answer and not the send before it, so a dispatch to a
   full channel waits as long as the agent of that connection lives and does not
   read.  A dead connection, a lost answer or a full channel that drains only
   delays it. *)
DispatchReturns ==
    \A c \in Call :
        \/ <>[]BehindStalled(c)
        \/ (pc[c] = "guarded") ~> (pc[c] \in {"returned", "cancelled"})

(* A connection whose agent is gone leaves the registry. *)
DeadConnectionLeaves ==
    \A h \in Host, s \in Sock :
        (connections[h] = s /\ peer[s] = "gone") ~> (connections[h] # s)

(* hosts.rs on set_control_plane: "Flagging turns its guardrails on
   immediately".  Whenever no admin route for the host is half done, the registry's
   flag is the row's, whatever connects, ends, is revoked or removed - except after
   a handler copied a flag its AgentAuth had read before the row changed, which
   lasts until the next connection or the next admin change of the host. *)
FlagFollowsRow ==
    \A h \in Host \ staleFlag :
        (adminStep = "idle" \/ adminHost # h) => (h \in controlPlane <=> rowFlag[h])

-----------------------------------------------------------------------------
(* What the comments say and the code does not do.                          *)

(* registry.rs on HostConnectionRegistry: it "tracks which hosts currently have a
   live agent connection".  So a connection that is being served, to an agent
   that is there, is the registered one once every earlier handler of the host
   has returned. *)
LiveIsRegistered ==
    \A s \in Sock :
        /\ handler[s] = "serving" /\ peer[s] = "up" /\ row[sockHost[s]] # "gone"
        /\ \A t \in Sock \ {s} : sockHost[t] = sockHost[s] => handler[t] = "done"
        => connections[sockHost[s]] = s
=============================================================================
