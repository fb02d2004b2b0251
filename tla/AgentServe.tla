----------------------------- MODULE AgentServe -----------------------------
(***************************************************************************)
(* The agent's command runner (agent/src/transport.rs): the reader of the   *)
(* current connection, the one task that runs writes in arrival order, a    *)
(* task per read, the writer that owns the socket's sink, and the           *)
(* process-wide gate that a write holds alone.  A connection that has ended *)
(* may leave tasks behind that still hold the gate when the agent has       *)
(* reconnected (agent/src/main.rs, run).                                    *)
(*                                                                         *)
(* Request ids are never reused by the control plane; here a request that   *)
(* is over may arrive again and stands for a new one, and a connection      *)
(* with nothing left of it stands for a new one too, so behaviours are      *)
(* unbounded and the state space is finite.                                 *)
(***************************************************************************)
EXTENDS Naturals, Sequences, FiniteSets

CONSTANTS
    Conn,       \* bound: connections with something left of them at one time
    Req,        \* bound: commands under way at one time
    Read,       \* those whose operation runs_concurrently
    MaxReads,   \* MAX_CONCURRENT_READS (8)
    OutCap,     \* capacity of a connection's outgoing channel (64)
    NoConn

ASSUME ConstAssumption ==
    /\ NoConn \notin Conn
    /\ IsFiniteSet(Req) /\ Read \subseteq Req
    /\ MaxReads \in Nat \ {0} /\ OutCap \in Nat \ {0}

Write == Req \ Read

VARIABLES
    cur,     \* the connection connect_and_serve is serving
    life,    \* "unused" | "open" | "ended" | "failed" (by a read error)
    closed,  \* Serve.closed
    sink,    \* whether the writer task is still there
    owed,    \* the reply the reader itself is waiting to queue: "Pong", "Unsupported"
    out,     \* the outgoing channel
    queue,   \* Serve.exclusive
    state,   \* where a request is
    home,    \* the connection it came in on
    gateQ    \* requests waiting for the gate, in arrival order (Tokio's RwLock is fair)

connVars == <<cur, life, closed, sink, owed>>
vars == <<connVars, out, queue, state, home, gateQ>>

ReqState == {"none", "queued", "slot", "gate", "granted", "running", "replying"}
Message  == Req \cup {"Pong", "Unsupported"}

Init ==
    /\ cur = NoConn
    /\ life = [c \in Conn |-> "unused"]
    /\ closed = [c \in Conn |-> FALSE]
    /\ sink = [c \in Conn |-> FALSE]
    /\ owed = "none"
    /\ out = [c \in Conn |-> <<>>]
    /\ queue = [c \in Conn |-> <<>>]
    /\ state = [r \in Req |-> "none"]
    /\ home = [r \in Req |-> NoConn]
    /\ gateQ = <<>>

(* The gate is held from the grant until the reply has been queued. *)
Holding == {r \in Req : state[r] \in {"granted", "running", "replying"}}
Running == {r \in Req : state[r] = "running"}

(* Reads that have taken one of their connection's slots. *)
Slotted(c) == {r \in Read : home[r] = c /\ state[r] \in {"gate", "granted", "running", "replying"}}

(* The write task of a connection handles one request at a time. *)
WorkerBusy(c) ==
    \E r \in Write : home[r] = c /\ state[r] \in {"gate", "granted", "running", "replying"}

Gone(c) == \A r \in Req : home[r] # c

-----------------------------------------------------------------------------
(* The connection.                                                          *)

(* connect_and_serve, once the handshake is through: a new writer, a new Serve. *)
Connect(c) ==
    /\ cur = NoConn
    /\ life[c] # "open" /\ Gone(c)
    /\ cur' = c
    /\ life' = [life EXCEPT ![c] = "open"]
    /\ closed' = [closed EXCEPT ![c] = FALSE]
    /\ sink' = [sink EXCEPT ![c] = TRUE]
    /\ owed' = "none"
    /\ out' = [out EXCEPT ![c] = <<>>]
    /\ UNCHANGED <<queue, state, home, gateQ>>

(* Leaving the read loop through its end: close, then clear_current_outgoing. *)
CloseServe ==
    /\ cur' = NoConn
    /\ life' = [life EXCEPT ![cur] = "ended"]
    /\ closed' = [closed EXCEPT ![cur] = TRUE]
    /\ owed' = "none"
    /\ UNCHANGED sink

(* The reader is at stream.next(). *)
Reading == cur # NoConn /\ owed = "none"

(* Serve::command: a write goes to the queue, a read gets a task of its own.  The
   loop then looks at closed, which the writer may have set meanwhile. *)
Command(r) ==
    /\ Reading
    /\ state[r] = "none"
    /\ home' = [home EXCEPT ![r] = cur]
    /\ IF r \in Read
         THEN state' = [state EXCEPT ![r] = "slot"] /\ UNCHANGED queue
         ELSE /\ state' = [state EXCEPT ![r] = "queued"]
              /\ queue' = [queue EXCEPT ![cur] = Append(queue[cur], r)]
    /\ IF closed[cur] THEN CloseServe ELSE UNCHANGED connVars
    /\ UNCHANGED <<out, gateQ>>

(* What the reader answers itself: a ping, and a command this build can't parse. *)
Solicit(m) ==
    /\ Reading
    /\ owed' = m
    /\ UNCHANGED <<cur, life, closed, sink, out, queue, state, home, gateQ>>

(* Mutant: the reader runs operations itself, so a reply waits for them. *)
ReaderReplyInline ==
    /\ cur # NoConn /\ owed # "none"
    /\ sink[cur] /\ Len(out[cur]) < OutCap
    /\ Running = {}
    /\ out' = [out EXCEPT ![cur] = Append(out[cur], owed)]
    /\ owed' = "none"
    /\ UNCHANGED <<cur, life, closed, sink, queue, state, home, gateQ>>

(* Serve::send waits for room in the outgoing channel ... *)
ReaderReply ==
    /\ cur # NoConn /\ owed # "none"
    /\ sink[cur] /\ Len(out[cur]) < OutCap
    /\ out' = [out EXCEPT ![cur] = Append(out[cur], owed)]
    /\ owed' = "none"
    /\ UNCHANGED <<cur, life, closed, sink, queue, state, home, gateQ>>

(* ... and notices a writer that is gone.  After a ping the loop ends; after an
   unparseable command it goes back to the stream without looking at closed. *)
ReaderReplyFails ==
    /\ cur # NoConn /\ owed # "none"
    /\ ~sink[cur]
    /\ IF owed = "Pong"
         THEN CloseServe
         ELSE /\ closed' = [closed EXCEPT ![cur] = TRUE]
              /\ owed' = "none"
              /\ UNCHANGED <<cur, life, sink>>
    /\ UNCHANGED <<out, queue, state, home, gateQ>>

(* A close frame, or the end of the stream. *)
StreamEnds ==
    /\ Reading
    /\ CloseServe
    /\ UNCHANGED <<out, queue, state, home, gateQ>>

(* A read error leaves connect_and_serve through `message?`, past close and
   clear_current_outgoing. *)
StreamFails ==
    /\ Reading
    /\ cur' = NoConn
    /\ life' = [life EXCEPT ![cur] = "failed"]
    /\ UNCHANGED <<closed, sink, owed, out, queue, state, home, gateQ>>

(* The writer task: every message out through the sink, or the first failure. *)
WriterSends(c) ==
    /\ sink[c] /\ out[c] # <<>>
    /\ out' = [out EXCEPT ![c] = Tail(out[c])]
    /\ UNCHANGED <<connVars, queue, state, home, gateQ>>

WriterFails(c) ==
    /\ sink[c] /\ out[c] # <<>>
    /\ sink' = [sink EXCEPT ![c] = FALSE]
    /\ closed' = [closed EXCEPT ![c] = TRUE]
    /\ out' = [out EXCEPT ![c] = <<>>]
    /\ UNCHANGED <<cur, life, owed, queue, state, home, gateQ>>

-----------------------------------------------------------------------------
(* The tasks.                                                               *)

Drop(r) ==
    /\ state' = [state EXCEPT ![r] = "none"]
    /\ home' = [home EXCEPT ![r] = NoConn]

AwaitGate(r) ==
    /\ state' = [state EXCEPT ![r] = "gate"]
    /\ gateQ' = Append(gateQ, r)
    /\ UNCHANGED home

(* Mutant: the request is looked at and left in the queue. *)
TakeWritePeek(c) ==
    /\ ~WorkerBusy(c)
    /\ queue[c] # <<>>
    /\ IF closed[c] THEN Drop(Head(queue[c])) /\ UNCHANGED gateQ
                    ELSE AwaitGate(Head(queue[c]))
    /\ UNCHANGED <<connVars, out, queue>>

(* The write task takes its next request, and skips it when the connection has
   closed. *)
TakeWrite(c) ==
    /\ ~WorkerBusy(c)
    /\ queue[c] # <<>>
    /\ queue' = [queue EXCEPT ![c] = Tail(queue[c])]
    /\ IF closed[c] THEN Drop(Head(queue[c])) /\ UNCHANGED gateQ
                    ELSE AwaitGate(Head(queue[c]))
    /\ UNCHANGED <<connVars, out>>

(* Mutant: one permit too many. *)
TakeSlotOver(r) ==
    /\ r \in Read /\ state[r] = "slot"
    /\ Cardinality(Slotted(home[r])) <= MaxReads
    /\ AwaitGate(r)
    /\ UNCHANGED <<connVars, out, queue>>

(* A read task gets a slot and asks for the gate. *)
TakeSlot(r) ==
    /\ r \in Read /\ state[r] = "slot"
    /\ Cardinality(Slotted(home[r])) < MaxReads
    /\ AwaitGate(r)
    /\ UNCHANGED <<connVars, out, queue>>

(* Mutant: a gate per connection. *)
CanHoldOwn(r) ==
    LET held == {q \in Holding : home[q] = home[r]}
    IN  IF r \in Read THEN held \subseteq Read ELSE held = {}

(* The gate goes to the request at the head: shared by reads, alone to a write. *)
CanHold(r) ==
    IF r \in Read THEN Holding \subseteq Read ELSE Holding = {}

(* Mutant: an unfair lock, that lets whoever can hold it in. *)
GrantAny ==
    \E i \in DOMAIN gateQ :
        /\ CanHold(gateQ[i])
        /\ state' = [state EXCEPT ![gateQ[i]] = "granted"]
        /\ gateQ' = SubSeq(gateQ, 1, i - 1) \o SubSeq(gateQ, i + 1, Len(gateQ))
        /\ UNCHANGED <<connVars, out, queue, home>>

Grant ==
    /\ gateQ # <<>>
    /\ CanHold(Head(gateQ))
    /\ state' = [state EXCEPT ![Head(gateQ)] = "granted"]
    /\ gateQ' = Tail(gateQ)
    /\ UNCHANGED <<connVars, out, queue, home>>

(* Mutant: closed is only looked at before the wait for the gate. *)
StartAnyway(r) ==
    /\ state[r] = "granted"
    /\ state' = [state EXCEPT ![r] = "running"]
    /\ UNCHANGED <<connVars, out, queue, home, gateQ>>

(* With the gate in hand the task looks at closed, then runs the operation. *)
Start(r) ==
    /\ state[r] = "granted"
    /\ IF closed[home[r]] THEN Drop(r)
                          ELSE state' = [state EXCEPT ![r] = "running"] /\ UNCHANGED home
    /\ UNCHANGED <<connVars, out, queue, gateQ>>

Finish(r) ==
    /\ state[r] = "running"
    /\ state' = [state EXCEPT ![r] = "replying"]
    /\ UNCHANGED <<connVars, out, queue, home, gateQ>>

(* Mutants: the response is tagged with the connection; a writer that is gone is
   waited for. *)
ReplyMistagged(r) ==
    /\ state[r] = "replying"
    /\ ~sink[home[r]] \/ Len(out[home[r]]) < OutCap
    /\ out' = IF sink[home[r]] THEN [out EXCEPT ![home[r]] = Append(out[home[r]], home[r])] ELSE out
    /\ Drop(r)
    /\ UNCHANGED <<connVars, queue, gateQ>>

ReplyStuck(r) ==
    /\ state[r] = "replying"
    /\ sink[home[r]] /\ Len(out[home[r]]) < OutCap
    /\ out' = [out EXCEPT ![home[r]] = Append(out[home[r]], r)]
    /\ Drop(r)
    /\ UNCHANGED <<connVars, queue, gateQ>>

(* send_response, still holding the gate: into the channel, or nowhere. *)
Reply(r) ==
    /\ state[r] = "replying"
    /\ ~sink[home[r]] \/ Len(out[home[r]]) < OutCap
    /\ out' = IF sink[home[r]] THEN [out EXCEPT ![home[r]] = Append(out[home[r]], r)] ELSE out
    /\ Drop(r)
    /\ UNCHANGED <<connVars, queue, gateQ>>

-----------------------------------------------------------------------------
ReaderStep ==
    \/ ReaderReply \/ ReaderReplyFails \/ StreamEnds \/ StreamFails
    \/ \E r \in Req : Command(r)
    \/ \E m \in {"Pong", "Unsupported"} : Solicit(m)

WriterStep(c) == WriterSends(c) \/ WriterFails(c)

Next ==
    \/ ReaderStep
    \/ \E c \in Conn : Connect(c) \/ WriterStep(c) \/ TakeWrite(c)
    \/ \E r \in Req : TakeSlot(r) \/ Start(r) \/ Finish(r) \/ Reply(r)
    \/ Grant

Spec == Init /\ [][Next]_vars

(* Tokio's side: a task that can go on does.  The sink accepts or refuses what
   it is given (TCP does not block a write for ever); nothing is assumed of
   operations. *)
FairIO ==
    /\ WF_vars(ReaderReply \/ ReaderReplyFails)
    /\ \A c \in Conn : WF_vars(WriterStep(c))

(* And the operations return: each of them runs a command with a timeout. *)
FairTasks ==
    /\ WF_vars(Grant)
    /\ \A c \in Conn : WF_vars(TakeWrite(c))
    /\ \A r \in Req : /\ SF_vars(TakeSlot(r)) /\ WF_vars(Start(r))
                      /\ WF_vars(Finish(r)) /\ SF_vars(Reply(r))

IOSpec   == Spec /\ FairIO
FairSpec == IOSpec /\ FairTasks

-----------------------------------------------------------------------------
TypeOK ==
    /\ cur \in Conn \cup {NoConn}
    /\ life \in [Conn -> {"unused", "open", "ended", "failed"}]
    /\ closed \in [Conn -> BOOLEAN] /\ sink \in [Conn -> BOOLEAN]
    /\ owed \in {"none", "Pong", "Unsupported"}
    /\ out \in [Conn -> Seq(Message)]
    /\ queue \in [Conn -> Seq(Req)]
    /\ state \in [Req -> ReqState]
    /\ home \in [Req -> Conn \cup {NoConn}]
    /\ gateQ \in Seq(Req)

(* A write never overlaps any other operation, whichever connections the two
   came in on: what an old connection left running still excludes everything on
   the new one. *)
WritesRunAlone ==
    \A r, q \in Running : r # q => r \in Read /\ q \in Read

(* A connection never runs more than MAX_CONCURRENT_READS reads at once. *)
ReadsBounded ==
    \A c \in Conn : Cardinality({r \in Running \cap Read : home[r] = c}) <= MaxReads

(* A request waits in exactly one place, so none is run twice and none is
   forgotten: a queued write is in its own connection's queue, once, and what
   waits for the gate is in line for it, once. *)
WaitsInOnePlace ==
    /\ \A i, j \in DOMAIN gateQ : gateQ[i] = gateQ[j] => i = j
    /\ \A r \in Req : state[r] = "gate" <=> \E i \in DOMAIN gateQ : gateQ[i] = r
    /\ \A c \in Conn : \A i, j \in DOMAIN queue[c] : queue[c][i] = queue[c][j] => i = j
    /\ \A r \in Req, c \in Conn :
         (state[r] = "queued" /\ home[r] = c) <=> \E i \in DOMAIN queue[c] : queue[c][i] = r

(* A stream of reads does not starve a write: if operations return, it runs, or
   is dropped because its connection closed. *)
WriteNotStarved ==
    FairTasks => \A r \in Write : (state[r] = "queued") ~> (state[r] \in {"running", "none"})

(* Whatever a connection left behind ends if operations return, so the gate is
   free again for the next one. *)
LeftoversEnd ==
    FairTasks => \A c \in Conn : (life[c] \in {"ended", "failed"}) ~> (Gone(c) \/ life[c] = "open")

(* The reader never waits for an operation: a ping is answered although the
   operation that is running never returns. *)
PingAnswered == (owed = "Pong") ~> (owed = "none")

(* transport.rs on Serve.closed: "Set when the connection ends: work that hasn't
   started by then is dropped, not run".  So it is, whatever was queued, waiting or
   just granted, except after the one end that closes nothing, a read error. *)
LateOnlyAfterError ==
    [][\A r \in Req : state[r] = "granted" /\ state'[r] = "running"
                        => life[home[r]] \in {"open", "failed"}]_vars
=============================================================================
