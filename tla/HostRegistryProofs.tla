------------------------- MODULE HostRegistryProofs -------------------------
(***************************************************************************)
(* Theorems about HostRegistry, for any hosts, sockets, calls, operations,  *)
(* versions and channel capacity.                                           *)
(***************************************************************************)
EXTENDS HostRegistry, SeqLemmas, TLAPS

(* Where a call is decides what it holds: a sender clone from the lookup to the
   return, a pending entry from the insertion on, and a place on a connection
   only once it was sent. *)
CallShape ==
    \A c \in Call :
        /\ pc[c] # "idle" => callHost[c] \in Host /\ callOp[c] \in Op
        /\ pc[c] \in {"found", "sending", "waiting"} =>
              /\ via[c] \in Sock
              /\ sockHost[via[c]] = callHost[c]
              /\ ~TooOld(via[c], callOp[c])
              /\ handler[via[c]] # "new"
        /\ pc[c] \in {"idle", "guarded", "found"} => oneshot[c] = "none"
        /\ pc[c] # "returned" => result[c] = "none"

(* A socket's host is known from its authentication on, a handler that writes has
   a command to write, and an admin route's host is known from its start. *)
HostShape ==
    /\ \A s \in Sock : handler[s] # "new" => sockHost[s] \in Host
    /\ \A s \in Sock : handler[s] = "writing" => chan[s] # <<>>
    /\ adminStep # "idle" => adminHost \in Host

(* Calls that got as far as a send: not those still before it, nor those that
   returned without one. *)
Sendable ==
    {c \in Call : /\ pc[c] \in {"waiting", "returned", "cancelled"}
                  /\ result[c] \notin Remote!Declined}

(* What a request's place says about it: nothing is on a socket not yet
   authenticated, only a call that was sent is on one at all, what the agent has
   run is exactly what it may still answer, and a declined call never ran. *)
Placed ==
    /\ \A s \in Sock : handler[s] = "new" => OnSock(s) = {}
    /\ \A s \in Sock : done[s] \cup answered[s] \subseteq ran
    /\ \A s \in Sock : \A c \in OnSock(s) : c \in Sendable
    /\ ran \subseteq Sendable
    /\ \A c \in Call : oneshot[c] = "ok" => c \in ran

Base == TypeOK /\ HostShape /\ CallShape /\ NoDeadEntry /\ WaitersAccounted

-----------------------------------------------------------------------------
LEMMA TypeStep ==
    ASSUME TypeOK, HostShape, CallShape, [Next]_vars
    PROVE  TypeOK'
<1> USE ConstAssumption DEF InLoop
<1>1. ASSUME NEW s \in Sock, HandlerStep(s) PROVE TypeOK'
  <2>1. CASE FlagHost(s)
    BY <2>1 DEF TypeOK, HostShape, FlagHost, SetFlag, HandlerState, rowVars, authVars, wireVars, callVars
  <2>2. CASE Register(s)
    BY <2>2 DEF TypeOK, HostShape, Register, InsertEntry, HandlerState, rowVars, authVars, wireVars, callVars
  <2>21. CASE TakeEpoch(s)
    BY <2>21 DEF TypeOK, HostShape, TakeEpoch, NextEpoch, HandlerState, rowVars, authVars, wireVars, callVars
  <2>3. CASE Forward(s)
    BY <2>3 DEF TypeOK, HostShape, Forward, HandlerState, registryVars, rowVars, authVars, wireVars, callVars
  <2>4. CASE EndLoop(s)
    BY <2>4 DEF TypeOK, EndLoop, HandlerState, registryVars, rowVars, authVars, wireVars, callVars
  <2>41. CASE StartWrite(s)
    BY <2>41 DEF TypeOK, StartWrite, HandlerState, registryVars, rowVars, authVars, wireVars, callVars
  <2>42. CASE WriteFails(s)
    BY <2>42 DEF TypeOK, HostShape, WriteFails, HandlerState, registryVars, rowVars, authVars, wireVars, callVars
  <2>43. CASE Heartbeat(s)
    BY <2>43 DEF TypeOK, Heartbeat, HandlerState, registryVars, rowVars, authVars, wireVars, callVars
  <2>5. CASE UnregisterEntry(s)
    BY <2>5 DEF TypeOK, UnregisterEntry, RemoveEntry, HandlerState, rowVars, authVars, wireVars, callVars
  <2>6. CASE UnregisterPending(s)
    BY <2>6 DEF TypeOK, UnregisterPending, DropPending, HandlerState, registryVars, rowVars, authVars, wireVars, callVars
  <2>7. CASE Leave(s)
    BY <2>7 DEF TypeOK, Leave, HandlerState, registryVars, rowVars, authVars, wireVars, callVars
  <2>8. ASSUME NEW c \in Call, Resolve(s, c) PROVE TypeOK'
    BY <2>8 DEF TypeOK, Resolve, registryVars, rowVars, authVars, wireVars, callVars
  <2> QED BY <1>1, <2>1, <2>2, <2>3, <2>4, <2>21, <2>41, <2>42, <2>43,
     <2>5, <2>6, <2>7, <2>8 DEF HandlerStep
<1>2. ASSUME NEW s \in Sock, AgentStep(s) PROVE TypeOK'
  <2>1. CASE PeerGone(s)
    BY <2>1 DEF TypeOK, PeerGone, registryVars, rowVars, authVars, callVars
  <2>11. CASE Stall(s)
    BY <2>11 DEF TypeOK, Stall, registryVars, rowVars, authVars, callVars
  <2>2. ASSUME NEW c \in Call, AgentRun(s, c) PROVE TypeOK'
    BY <2>2 DEF TypeOK, AgentRun, registryVars, rowVars, authVars, callVars
  <2>3. ASSUME NEW c \in Call, AgentAnswer(s, c) PROVE TypeOK'
    BY <2>3 DEF TypeOK, AgentAnswer, registryVars, rowVars, authVars, callVars
  <2>4. ASSUME NEW h \in Host, NEW v \in Version, Connect(s, h, v) PROVE TypeOK'
    BY <2>4 DEF TypeOK, Connect, HandlerState, registryVars, rowVars, callVars
  <2> QED BY <1>2, <2>1, <2>11, <2>2, <2>3, <2>4 DEF AgentStep
<1>3. ASSUME NEW c \in Call, CallStep(c) PROVE TypeOK'
  <2>1. CASE LookupNone(c)
    BY <2>1 DEF TypeOK, LookupNone, Return, CallState, Outcome, registryVars, rowVars, authVars, wireVars
  <2>2. CASE LookupTooOld(c)
    BY <2>2 DEF TypeOK, LookupTooOld, Return, CallState, Outcome, registryVars, rowVars, authVars, wireVars
  <2>3. CASE LookupFound(c)
    BY <2>3 DEF TypeOK, CallShape, LookupFound, CallState, registryVars, rowVars, authVars, wireVars
  <2>4. CASE InsertPending(c)
    BY <2>4 DEF TypeOK, InsertPending, CallState, registryVars, rowVars, authVars, wireVars
  <2>5. CASE SendOk(c)
    BY <2>5 DEF TypeOK, CallShape, SendOk, CallState, registryVars, rowVars, authVars, wireVars
  <2>6. CASE SendErr(c)
    BY <2>6 DEF TypeOK, SendErr, Return, CallState, Outcome, registryVars, rowVars, authVars, wireVars
  <2>7. CASE Receive(c, "ok", "Ok")
    BY <2>7 DEF TypeOK, Receive, Return, CallState, Outcome, registryVars, rowVars, authVars, wireVars
  <2>8. CASE Receive(c, "dropped", "ConnectionClosed")
    BY <2>8 DEF TypeOK, Receive, Return, CallState, Outcome, registryVars, rowVars, authVars, wireVars
  <2>9. CASE Timeout(c)
    BY <2>9 DEF TypeOK, Timeout, Return, CallState, Outcome, registryVars, rowVars, authVars, wireVars
  <2> QED BY <1>3, <2>1, <2>2, <2>3, <2>4, <2>5, <2>6, <2>7, <2>8, <2>9 DEF CallStep
<1>4. ASSUME NEW c \in Call, Cancel(c) PROVE TypeOK'
  BY <1>4 DEF TypeOK, Cancel, CallState, registryVars, rowVars, authVars, wireVars
<1>5. ASSUME NEW c \in Call, NEW h \in Host, NEW op \in Op, Guard(c, h, op) PROVE TypeOK'
  BY <1>5 DEF TypeOK, Guard, Return, CallState, Outcome, registryVars, rowVars, authVars, wireVars
<1>6. ASSUME AdminNext PROVE TypeOK'
  <2>1. CASE AdminFlag
    BY <2>1 DEF TypeOK, HostShape, AdminFlag, SetFlag, NextAdmin, AdminStep, authVars, wireVars, callVars
  <2>2. CASE AdminUnregisterEntry
    BY <2>2 DEF TypeOK, AdminUnregisterEntry, RemoveEntry, NextAdmin, AdminStep, authVars, wireVars, callVars
  <2>3. CASE AdminUnregisterPending
    BY <2>3 DEF TypeOK, AdminUnregisterPending, DropPending, NextAdmin, AdminStep, registryVars, authVars, wireVars, callVars
  <2>4. ASSUME NEW h \in Host, AdminRevoke(h) PROVE TypeOK'
    BY <2>4 DEF TypeOK, AdminRevoke, StartAdmin, AdminStep, registryVars, authVars, wireVars, callVars
  <2>5. ASSUME NEW h \in Host, AdminDelete(h) PROVE TypeOK'
    BY <2>5 DEF TypeOK, AdminDelete, StartAdmin, AdminStep, registryVars, authVars, wireVars, callVars
  <2>6. ASSUME NEW h \in Host, NEW b \in BOOLEAN, AdminFlagRow(h, b) PROVE TypeOK'
    BY <2>6 DEF TypeOK, AdminFlagRow, StartAdmin, AdminStep, registryVars, authVars, wireVars, callVars
  <2> QED BY <1>6, <2>1, <2>2, <2>3, <2>4, <2>5, <2>6 DEF AdminNext
<1>7. CASE UNCHANGED vars
  BY <1>7 DEF TypeOK, vars, registryVars, rowVars, authVars, wireVars, callVars
<1> QED BY <1>1, <1>2, <1>3, <1>4, <1>5, <1>6, <1>7 DEF Next

(* No step forgets whose connection a socket is. *)
LEMMA HostShapeStep ==
    ASSUME TypeOK, HostShape, [Next]_vars
    PROVE  HostShape'
<1> USE ConstAssumption DEF InLoop
<1>1. ASSUME NEW s \in Sock, HandlerStep(s) PROVE HostShape'
  <2>1. CASE FlagHost(s)
    BY <2>1 DEF TypeOK, HostShape, FlagHost, SetFlag, registryVars, rowVars, authVars, wireVars, callVars
  <2>2. CASE Register(s)
    BY <2>2 DEF TypeOK, HostShape, Register, InsertEntry, registryVars, rowVars, authVars, wireVars, callVars
  <2>21. CASE TakeEpoch(s)
    BY <2>21 DEF TypeOK, HostShape, TakeEpoch, NextEpoch, registryVars, rowVars, authVars, wireVars, callVars
  <2>3. CASE Forward(s)
    BY <2>3 DEF TypeOK, HostShape, Forward, registryVars, rowVars, authVars, wireVars, callVars
  <2>4. CASE EndLoop(s)
    BY <2>4 DEF TypeOK, HostShape, EndLoop, registryVars, rowVars, authVars, wireVars, callVars
  <2>41. CASE StartWrite(s)
    BY <2>41 DEF TypeOK, HostShape, StartWrite, registryVars, rowVars, authVars, wireVars, callVars
  <2>42. CASE WriteFails(s)
    BY <2>42 DEF TypeOK, HostShape, WriteFails, registryVars, rowVars, authVars, wireVars, callVars
  <2>43. CASE Heartbeat(s)
    BY <2>43 DEF TypeOK, HostShape, Heartbeat, registryVars, rowVars, authVars, wireVars, callVars
  <2>5. CASE UnregisterEntry(s)
    BY <2>5 DEF TypeOK, HostShape, UnregisterEntry, RemoveEntry, registryVars, rowVars, authVars, wireVars, callVars
  <2>6. CASE UnregisterPending(s)
    BY <2>6 DEF TypeOK, HostShape, UnregisterPending, DropPending, InFlight, registryVars, rowVars, authVars, wireVars, callVars
  <2>7. CASE Leave(s)
    BY <2>7 DEF TypeOK, HostShape, Leave, registryVars, rowVars, authVars, wireVars, callVars
  <2>8. ASSUME NEW c \in Call, Resolve(s, c) PROVE HostShape'
    BY <2>8 DEF TypeOK, HostShape, Resolve, registryVars, rowVars, authVars, wireVars, callVars
  <2> QED BY <1>1, <2>1, <2>2, <2>3, <2>4, <2>21, <2>41, <2>42, <2>43,
     <2>5, <2>6, <2>7, <2>8 DEF HandlerStep
<1>2. ASSUME NEW s \in Sock, AgentStep(s) PROVE HostShape'
  <2>1. CASE PeerGone(s)
    BY <2>1 DEF TypeOK, HostShape, PeerGone, registryVars, rowVars, authVars, wireVars, callVars
  <2>11. CASE Stall(s)
    BY <2>11 DEF TypeOK, HostShape, Stall, registryVars, rowVars, authVars, wireVars, callVars
  <2>2. ASSUME NEW c \in Call, AgentRun(s, c) PROVE HostShape'
    BY <2>2 DEF TypeOK, HostShape, AgentRun, registryVars, rowVars, authVars, wireVars, callVars
  <2>3. ASSUME NEW c \in Call, AgentAnswer(s, c) PROVE HostShape'
    BY <2>3 DEF TypeOK, HostShape, AgentAnswer, registryVars, rowVars, authVars, wireVars, callVars
  <2>4. ASSUME NEW h \in Host, NEW v \in Version, Connect(s, h, v) PROVE HostShape'
    BY <2>4 DEF TypeOK, HostShape, Connect, registryVars, rowVars, authVars, wireVars, callVars
  <2> QED BY <1>2, <2>1, <2>11, <2>2, <2>3, <2>4 DEF AgentStep
<1>3. ASSUME NEW c \in Call, CallStep(c) PROVE HostShape'
  <2>1. CASE LookupNone(c)
    BY <2>1 DEF TypeOK, HostShape, LookupNone, Return, registryVars, rowVars, authVars, wireVars, callVars
  <2>2. CASE LookupTooOld(c)
    BY <2>2 DEF TypeOK, HostShape, LookupTooOld, Return, registryVars, rowVars, authVars, wireVars, callVars
  <2>3. CASE LookupFound(c)
    BY <2>3 DEF TypeOK, HostShape, LookupFound, registryVars, rowVars, authVars, wireVars, callVars
  <2>4. CASE InsertPending(c)
    BY <2>4 DEF TypeOK, HostShape, InsertPending, registryVars, rowVars, authVars, wireVars, callVars
  <2>5. CASE SendOk(c)
    <3>1. ASSUME NEW x \in Sock, chan[x] # <<>> PROVE chan'[x] # <<>>
      <4>1. chan'[x] \in {chan[x], Append(chan[x], c)}
        BY <2>5 DEF TypeOK, SendOk
      <4>2. chan[x] \in Seq(Call)
        BY DEF TypeOK
      <4>3. Len(Append(chan[x], c)) = Len(chan[x]) + 1 /\ Len(chan[x]) \in Nat
        BY <4>2
      <4>4. Append(chan[x], c) # <<>>
        BY <4>3
      <4> QED BY <3>1, <4>1, <4>4
    <3>2. UNCHANGED <<handler, authVars, adminStep, adminHost>>
      BY <2>5 DEF SendOk, rowVars
    <3> QED BY <3>1, <3>2 DEF HostShape, authVars
  <2>6. CASE SendErr(c)
    BY <2>6 DEF TypeOK, HostShape, SendErr, Return, registryVars, rowVars, authVars, wireVars, callVars
  <2>7. CASE Receive(c, "ok", "Ok")
    BY <2>7 DEF TypeOK, HostShape, Receive, Return, registryVars, rowVars, authVars, wireVars, callVars
  <2>8. CASE Receive(c, "dropped", "ConnectionClosed")
    BY <2>8 DEF TypeOK, HostShape, Receive, Return, registryVars, rowVars, authVars, wireVars, callVars
  <2>9. CASE Timeout(c)
    BY <2>9 DEF TypeOK, HostShape, Timeout, Return, registryVars, rowVars, authVars, wireVars, callVars
  <2> QED BY <1>3, <2>1, <2>2, <2>3, <2>4, <2>5, <2>6, <2>7, <2>8, <2>9 DEF CallStep
<1>4. ASSUME NEW c \in Call, Cancel(c) PROVE HostShape'
  BY <1>4 DEF TypeOK, HostShape, Cancel, registryVars, rowVars, authVars, wireVars, callVars
<1>5. ASSUME NEW c \in Call, NEW h \in Host, NEW op \in Op, Guard(c, h, op) PROVE HostShape'
  BY <1>5 DEF TypeOK, HostShape, Guard, Return, registryVars, rowVars, authVars, wireVars, callVars
<1>6. ASSUME AdminNext PROVE HostShape'
  <2>1. CASE AdminFlag
    BY <2>1 DEF TypeOK, HostShape, AdminFlag, SetFlag, NextAdmin, registryVars, rowVars, authVars, wireVars, callVars
  <2>2. CASE AdminUnregisterEntry
    BY <2>2 DEF TypeOK, HostShape, AdminUnregisterEntry, RemoveEntry, NextAdmin, registryVars, rowVars, authVars, wireVars, callVars
  <2>3. CASE AdminUnregisterPending
    BY <2>3 DEF TypeOK, HostShape, AdminUnregisterPending, DropPending, InFlight, NextAdmin, registryVars, rowVars, authVars, wireVars, callVars
  <2>4. ASSUME NEW h \in Host, AdminRevoke(h) PROVE HostShape'
    BY <2>4 DEF TypeOK, HostShape, AdminRevoke, StartAdmin, registryVars, rowVars, authVars, wireVars, callVars
  <2>5. ASSUME NEW h \in Host, AdminDelete(h) PROVE HostShape'
    BY <2>5 DEF TypeOK, HostShape, AdminDelete, StartAdmin, registryVars, rowVars, authVars, wireVars, callVars
  <2>6. ASSUME NEW h \in Host, NEW b \in BOOLEAN, AdminFlagRow(h, b) PROVE HostShape'
    BY <2>6 DEF TypeOK, HostShape, AdminFlagRow, StartAdmin, registryVars, rowVars, authVars, wireVars, callVars
  <2> QED BY <1>6, <2>1, <2>2, <2>3, <2>4, <2>5, <2>6 DEF AdminNext
<1>7. CASE UNCHANGED vars
  BY <1>7 DEF TypeOK, HostShape, vars, registryVars, rowVars, authVars, wireVars, callVars
<1> QED BY <1>1, <1>2, <1>3, <1>4, <1>5, <1>6, <1>7 DEF Next

(* No step leaves an entry behind its handler. *)
LEMMA DeadEntryStep ==
    ASSUME TypeOK, HostShape, NoDeadEntry, [Next]_vars
    PROVE  NoDeadEntry'
<1> USE ConstAssumption DEF InLoop
<1>1. ASSUME NEW s \in Sock, HandlerStep(s) PROVE NoDeadEntry'
  <2>1. CASE FlagHost(s)
    BY <2>1 DEF TypeOK, HostShape, NoDeadEntry, Registered, FlagHost, SetFlag, registryVars, rowVars, authVars, wireVars, callVars
  <2>2. CASE Register(s)
    BY <2>2 DEF TypeOK, HostShape, NoDeadEntry, Registered, Register, InsertEntry, registryVars, rowVars, authVars, wireVars, callVars
  <2>21. CASE TakeEpoch(s)
    BY <2>21 DEF TypeOK, HostShape, NoDeadEntry, Registered, TakeEpoch, NextEpoch, registryVars, rowVars, authVars, wireVars, callVars
  <2>3. CASE Forward(s)
    BY <2>3 DEF TypeOK, HostShape, NoDeadEntry, Registered, Forward, registryVars, rowVars, authVars, wireVars, callVars
  <2>4. CASE EndLoop(s)
    BY <2>4 DEF TypeOK, HostShape, NoDeadEntry, Registered, EndLoop, registryVars, rowVars, authVars, wireVars, callVars
  <2>41. CASE StartWrite(s)
    BY <2>41 DEF TypeOK, HostShape, NoDeadEntry, Registered, StartWrite, registryVars, rowVars, authVars, wireVars, callVars
  <2>42. CASE WriteFails(s)
    BY <2>42 DEF TypeOK, HostShape, NoDeadEntry, Registered, WriteFails, registryVars, rowVars, authVars, wireVars, callVars
  <2>43. CASE Heartbeat(s)
    BY <2>43 DEF TypeOK, HostShape, NoDeadEntry, Registered, Heartbeat, registryVars, rowVars, authVars, wireVars, callVars
  <2>5. CASE UnregisterEntry(s)
    BY <2>5 DEF TypeOK, HostShape, NoDeadEntry, Registered, UnregisterEntry, RemoveEntry, registryVars, rowVars, authVars, wireVars, callVars
  <2>6. CASE UnregisterPending(s)
    BY <2>6 DEF TypeOK, HostShape, NoDeadEntry, Registered, UnregisterPending, DropPending, InFlight, registryVars, rowVars, authVars, wireVars, callVars
  <2>7. CASE Leave(s)
    BY <2>7 DEF TypeOK, HostShape, NoDeadEntry, Registered, Leave, registryVars, rowVars, authVars, wireVars, callVars
  <2>8. ASSUME NEW c \in Call, Resolve(s, c) PROVE NoDeadEntry'
    BY <2>8 DEF TypeOK, HostShape, NoDeadEntry, Registered, Resolve, registryVars, rowVars, authVars, wireVars, callVars
  <2> QED BY <1>1, <2>1, <2>2, <2>3, <2>4, <2>21, <2>41, <2>42, <2>43,
     <2>5, <2>6, <2>7, <2>8 DEF HandlerStep
<1>2. ASSUME NEW s \in Sock, AgentStep(s) PROVE NoDeadEntry'
  <2>1. CASE PeerGone(s)
    BY <2>1 DEF TypeOK, HostShape, NoDeadEntry, Registered, PeerGone, registryVars, rowVars, authVars, wireVars, callVars
  <2>11. CASE Stall(s)
    BY <2>11 DEF TypeOK, HostShape, NoDeadEntry, Registered, Stall, registryVars, rowVars, authVars, wireVars, callVars
  <2>2. ASSUME NEW c \in Call, AgentRun(s, c) PROVE NoDeadEntry'
    BY <2>2 DEF TypeOK, HostShape, NoDeadEntry, Registered, AgentRun, registryVars, rowVars, authVars, wireVars, callVars
  <2>3. ASSUME NEW c \in Call, AgentAnswer(s, c) PROVE NoDeadEntry'
    BY <2>3 DEF TypeOK, HostShape, NoDeadEntry, Registered, AgentAnswer, registryVars, rowVars, authVars, wireVars, callVars
  <2>4. ASSUME NEW h \in Host, NEW v \in Version, Connect(s, h, v) PROVE NoDeadEntry'
    BY <2>4 DEF TypeOK, HostShape, NoDeadEntry, Registered, Connect, registryVars, rowVars, authVars, wireVars, callVars
  <2> QED BY <1>2, <2>1, <2>11, <2>2, <2>3, <2>4 DEF AgentStep
<1>3. ASSUME NEW c \in Call, CallStep(c) PROVE NoDeadEntry'
  <2>1. CASE LookupNone(c)
    BY <2>1 DEF TypeOK, HostShape, NoDeadEntry, Registered, LookupNone, Return, registryVars, rowVars, authVars, wireVars, callVars
  <2>2. CASE LookupTooOld(c)
    BY <2>2 DEF TypeOK, HostShape, NoDeadEntry, Registered, LookupTooOld, Return, registryVars, rowVars, authVars, wireVars, callVars
  <2>3. CASE LookupFound(c)
    BY <2>3 DEF TypeOK, HostShape, NoDeadEntry, Registered, LookupFound, registryVars, rowVars, authVars, wireVars, callVars
  <2>4. CASE InsertPending(c)
    BY <2>4 DEF TypeOK, HostShape, NoDeadEntry, Registered, InsertPending, registryVars, rowVars, authVars, wireVars, callVars
  <2>5. CASE SendOk(c)
    BY <2>5 DEF TypeOK, HostShape, NoDeadEntry, Registered, SendOk, registryVars, rowVars, authVars, wireVars, callVars
  <2>6. CASE SendErr(c)
    BY <2>6 DEF TypeOK, HostShape, NoDeadEntry, Registered, SendErr, Return, registryVars, rowVars, authVars, wireVars, callVars
  <2>7. CASE Receive(c, "ok", "Ok")
    BY <2>7 DEF TypeOK, HostShape, NoDeadEntry, Registered, Receive, Return, registryVars, rowVars, authVars, wireVars, callVars
  <2>8. CASE Receive(c, "dropped", "ConnectionClosed")
    BY <2>8 DEF TypeOK, HostShape, NoDeadEntry, Registered, Receive, Return, registryVars, rowVars, authVars, wireVars, callVars
  <2>9. CASE Timeout(c)
    BY <2>9 DEF TypeOK, HostShape, NoDeadEntry, Registered, Timeout, Return, registryVars, rowVars, authVars, wireVars, callVars
  <2> QED BY <1>3, <2>1, <2>2, <2>3, <2>4, <2>5, <2>6, <2>7, <2>8, <2>9 DEF CallStep
<1>4. ASSUME NEW c \in Call, Cancel(c) PROVE NoDeadEntry'
  BY <1>4 DEF TypeOK, HostShape, NoDeadEntry, Registered, Cancel, registryVars, rowVars, authVars, wireVars, callVars
<1>5. ASSUME NEW c \in Call, NEW h \in Host, NEW op \in Op, Guard(c, h, op) PROVE NoDeadEntry'
  BY <1>5 DEF TypeOK, HostShape, NoDeadEntry, Registered, Guard, Return, registryVars, rowVars, authVars, wireVars, callVars
<1>6. ASSUME AdminNext PROVE NoDeadEntry'
  <2>1. CASE AdminFlag
    BY <2>1 DEF TypeOK, HostShape, NoDeadEntry, Registered, AdminFlag, SetFlag, NextAdmin, registryVars, rowVars, authVars, wireVars, callVars
  <2>2. CASE AdminUnregisterEntry
    BY <2>2 DEF TypeOK, HostShape, NoDeadEntry, Registered, AdminUnregisterEntry, RemoveEntry, NextAdmin, registryVars, rowVars, authVars, wireVars, callVars
  <2>3. CASE AdminUnregisterPending
    BY <2>3 DEF TypeOK, HostShape, NoDeadEntry, Registered, AdminUnregisterPending, DropPending, InFlight, NextAdmin, registryVars, rowVars, authVars, wireVars, callVars
  <2>4. ASSUME NEW h \in Host, AdminRevoke(h) PROVE NoDeadEntry'
    BY <2>4 DEF TypeOK, HostShape, NoDeadEntry, Registered, AdminRevoke, StartAdmin, registryVars, rowVars, authVars, wireVars, callVars
  <2>5. ASSUME NEW h \in Host, AdminDelete(h) PROVE NoDeadEntry'
    BY <2>5 DEF TypeOK, HostShape, NoDeadEntry, Registered, AdminDelete, StartAdmin, registryVars, rowVars, authVars, wireVars, callVars
  <2>6. ASSUME NEW h \in Host, NEW b \in BOOLEAN, AdminFlagRow(h, b) PROVE NoDeadEntry'
    BY <2>6 DEF TypeOK, HostShape, NoDeadEntry, Registered, AdminFlagRow, StartAdmin, registryVars, rowVars, authVars, wireVars, callVars
  <2> QED BY <1>6, <2>1, <2>2, <2>3, <2>4, <2>5, <2>6 DEF AdminNext
<1>7. CASE UNCHANGED vars
  BY <1>7 DEF TypeOK, HostShape, NoDeadEntry, Registered, vars, registryVars, rowVars, authVars, wireVars, callVars
<1> QED BY <1>1, <1>2, <1>3, <1>4, <1>5, <1>6, <1>7 DEF Next

(* No step loses a waiter. *)
LEMMA WaitersStep ==
    ASSUME TypeOK, HostShape, CallShape, WaitersAccounted, [Next]_vars
    PROVE  WaitersAccounted'
<1> USE ConstAssumption DEF InLoop
<1>1. ASSUME NEW s \in Sock, HandlerStep(s) PROVE WaitersAccounted'
  <2>1. CASE FlagHost(s)
    BY <2>1 DEF TypeOK, HostShape, CallShape, WaitersAccounted, FlagHost, SetFlag, registryVars, rowVars, authVars, wireVars, callVars
  <2>2. CASE Register(s)
    BY <2>2 DEF TypeOK, HostShape, CallShape, WaitersAccounted, Register, InsertEntry, registryVars, rowVars, authVars, wireVars, callVars
  <2>21. CASE TakeEpoch(s)
    BY <2>21 DEF TypeOK, HostShape, CallShape, WaitersAccounted, TakeEpoch, NextEpoch, registryVars, rowVars, authVars, wireVars, callVars
  <2>3. CASE Forward(s)
    BY <2>3 DEF TypeOK, HostShape, CallShape, WaitersAccounted, Forward, registryVars, rowVars, authVars, wireVars, callVars
  <2>4. CASE EndLoop(s)
    BY <2>4 DEF TypeOK, HostShape, CallShape, WaitersAccounted, EndLoop, registryVars, rowVars, authVars, wireVars, callVars
  <2>41. CASE StartWrite(s)
    BY <2>41 DEF TypeOK, HostShape, CallShape, WaitersAccounted, StartWrite, registryVars, rowVars, authVars, wireVars, callVars
  <2>42. CASE WriteFails(s)
    BY <2>42 DEF TypeOK, HostShape, CallShape, WaitersAccounted, WriteFails, registryVars, rowVars, authVars, wireVars, callVars
  <2>43. CASE Heartbeat(s)
    BY <2>43 DEF TypeOK, HostShape, CallShape, WaitersAccounted, Heartbeat, registryVars, rowVars, authVars, wireVars, callVars
  <2>5. CASE UnregisterEntry(s)
    BY <2>5 DEF TypeOK, HostShape, CallShape, WaitersAccounted, UnregisterEntry, RemoveEntry, registryVars, rowVars, authVars, wireVars, callVars
  <2>6. CASE UnregisterPending(s)
    BY <2>6 DEF TypeOK, HostShape, CallShape, WaitersAccounted, UnregisterPending, DropPending, InFlight, registryVars, rowVars, authVars, wireVars, callVars
  <2>7. CASE Leave(s)
    BY <2>7 DEF TypeOK, HostShape, CallShape, WaitersAccounted, Leave, registryVars, rowVars, authVars, wireVars, callVars
  <2>8. ASSUME NEW c \in Call, Resolve(s, c) PROVE WaitersAccounted'
    BY <2>8 DEF TypeOK, HostShape, CallShape, WaitersAccounted, Resolve, registryVars, rowVars, authVars, wireVars, callVars
  <2> QED BY <1>1, <2>1, <2>2, <2>3, <2>4, <2>21, <2>41, <2>42, <2>43,
     <2>5, <2>6, <2>7, <2>8 DEF HandlerStep
<1>2. ASSUME NEW s \in Sock, AgentStep(s) PROVE WaitersAccounted'
  <2>1. CASE PeerGone(s)
    BY <2>1 DEF TypeOK, HostShape, CallShape, WaitersAccounted, PeerGone, registryVars, rowVars, authVars, wireVars, callVars
  <2>11. CASE Stall(s)
    BY <2>11 DEF TypeOK, HostShape, CallShape, WaitersAccounted, Stall, registryVars, rowVars, authVars, wireVars, callVars
  <2>2. ASSUME NEW c \in Call, AgentRun(s, c) PROVE WaitersAccounted'
    BY <2>2 DEF TypeOK, HostShape, CallShape, WaitersAccounted, AgentRun, registryVars, rowVars, authVars, wireVars, callVars
  <2>3. ASSUME NEW c \in Call, AgentAnswer(s, c) PROVE WaitersAccounted'
    BY <2>3 DEF TypeOK, HostShape, CallShape, WaitersAccounted, AgentAnswer, registryVars, rowVars, authVars, wireVars, callVars
  <2>4. ASSUME NEW h \in Host, NEW v \in Version, Connect(s, h, v) PROVE WaitersAccounted'
    BY <2>4 DEF TypeOK, HostShape, CallShape, WaitersAccounted, Connect, registryVars, rowVars, authVars, wireVars, callVars
  <2> QED BY <1>2, <2>1, <2>11, <2>2, <2>3, <2>4 DEF AgentStep
<1>3. ASSUME NEW c \in Call, CallStep(c) PROVE WaitersAccounted'
  <2>1. CASE LookupNone(c)
    BY <2>1 DEF TypeOK, HostShape, CallShape, WaitersAccounted, LookupNone, Return, registryVars, rowVars, authVars, wireVars, callVars
  <2>2. CASE LookupTooOld(c)
    BY <2>2 DEF TypeOK, HostShape, CallShape, WaitersAccounted, LookupTooOld, Return, registryVars, rowVars, authVars, wireVars, callVars
  <2>3. CASE LookupFound(c)
    BY <2>3 DEF TypeOK, HostShape, CallShape, WaitersAccounted, LookupFound, registryVars, rowVars, authVars, wireVars, callVars
  <2>4. CASE InsertPending(c)
    BY <2>4 DEF TypeOK, HostShape, CallShape, WaitersAccounted, InsertPending, registryVars, rowVars, authVars, wireVars, callVars
  <2>5. CASE SendOk(c)
    BY <2>5 DEF TypeOK, HostShape, CallShape, WaitersAccounted, SendOk, registryVars, rowVars, authVars, wireVars, callVars
  <2>6. CASE SendErr(c)
    BY <2>6 DEF TypeOK, HostShape, CallShape, WaitersAccounted, SendErr, Return, registryVars, rowVars, authVars, wireVars, callVars
  <2>7. CASE Receive(c, "ok", "Ok")
    BY <2>7 DEF TypeOK, HostShape, CallShape, WaitersAccounted, Receive, Return, registryVars, rowVars, authVars, wireVars, callVars
  <2>8. CASE Receive(c, "dropped", "ConnectionClosed")
    BY <2>8 DEF TypeOK, HostShape, CallShape, WaitersAccounted, Receive, Return, registryVars, rowVars, authVars, wireVars, callVars
  <2>9. CASE Timeout(c)
    BY <2>9 DEF TypeOK, HostShape, CallShape, WaitersAccounted, Timeout, Return, registryVars, rowVars, authVars, wireVars, callVars
  <2> QED BY <1>3, <2>1, <2>2, <2>3, <2>4, <2>5, <2>6, <2>7, <2>8, <2>9 DEF CallStep
<1>4. ASSUME NEW c \in Call, Cancel(c) PROVE WaitersAccounted'
  BY <1>4 DEF TypeOK, HostShape, CallShape, WaitersAccounted, Cancel, registryVars, rowVars, authVars, wireVars, callVars
<1>5. ASSUME NEW c \in Call, NEW h \in Host, NEW op \in Op, Guard(c, h, op) PROVE WaitersAccounted'
  BY <1>5 DEF TypeOK, HostShape, CallShape, WaitersAccounted, Guard, Return, registryVars, rowVars, authVars, wireVars, callVars
<1>6. ASSUME AdminNext PROVE WaitersAccounted'
  <2>1. CASE AdminFlag
    BY <2>1 DEF TypeOK, HostShape, CallShape, WaitersAccounted, AdminFlag, SetFlag, NextAdmin, registryVars, rowVars, authVars, wireVars, callVars
  <2>2. CASE AdminUnregisterEntry
    BY <2>2 DEF TypeOK, HostShape, CallShape, WaitersAccounted, AdminUnregisterEntry, RemoveEntry, NextAdmin, registryVars, rowVars, authVars, wireVars, callVars
  <2>3. CASE AdminUnregisterPending
    BY <2>3 DEF TypeOK, HostShape, CallShape, WaitersAccounted, AdminUnregisterPending, DropPending, InFlight, NextAdmin, registryVars, rowVars, authVars, wireVars, callVars
  <2>4. ASSUME NEW h \in Host, AdminRevoke(h) PROVE WaitersAccounted'
    BY <2>4 DEF TypeOK, HostShape, CallShape, WaitersAccounted, AdminRevoke, StartAdmin, registryVars, rowVars, authVars, wireVars, callVars
  <2>5. ASSUME NEW h \in Host, AdminDelete(h) PROVE WaitersAccounted'
    BY <2>5 DEF TypeOK, HostShape, CallShape, WaitersAccounted, AdminDelete, StartAdmin, registryVars, rowVars, authVars, wireVars, callVars
  <2>6. ASSUME NEW h \in Host, NEW b \in BOOLEAN, AdminFlagRow(h, b) PROVE WaitersAccounted'
    BY <2>6 DEF TypeOK, HostShape, CallShape, WaitersAccounted, AdminFlagRow, StartAdmin, registryVars, rowVars, authVars, wireVars, callVars
  <2> QED BY <1>6, <2>1, <2>2, <2>3, <2>4, <2>5, <2>6 DEF AdminNext
<1>7. CASE UNCHANGED vars
  BY <1>7 DEF TypeOK, HostShape, CallShape, WaitersAccounted, vars, registryVars, rowVars, authVars, wireVars, callVars
<1> QED BY <1>1, <1>2, <1>3, <1>4, <1>5, <1>6, <1>7 DEF Next

(* A call keeps what its place promises. *)
LEMMA CallShapeStep ==
    ASSUME TypeOK, HostShape, CallShape, NoDeadEntry, WaitersAccounted, [Next]_vars
    PROVE  CallShape'
<1> USE ConstAssumption DEF InLoop
<1>1. ASSUME NEW s \in Sock, HandlerStep(s) PROVE CallShape'
  <2>1. CASE FlagHost(s)
    BY <2>1 DEF TypeOK, HostShape, CallShape, NoDeadEntry, WaitersAccounted, Registered, TooOld, FlagHost, SetFlag, registryVars, rowVars, authVars, wireVars, callVars
  <2>2. CASE Register(s)
    BY <2>2 DEF TypeOK, HostShape, CallShape, NoDeadEntry, WaitersAccounted, Registered, TooOld, Register, InsertEntry, registryVars, rowVars, authVars, wireVars, callVars
  <2>21. CASE TakeEpoch(s)
    BY <2>21 DEF TypeOK, HostShape, CallShape, NoDeadEntry, WaitersAccounted, Registered, TooOld, TakeEpoch, NextEpoch, registryVars, rowVars, authVars, wireVars, callVars
  <2>3. CASE Forward(s)
    BY <2>3 DEF TypeOK, HostShape, CallShape, NoDeadEntry, WaitersAccounted, Registered, TooOld, Forward, registryVars, rowVars, authVars, wireVars, callVars
  <2>4. CASE EndLoop(s)
    BY <2>4 DEF TypeOK, HostShape, CallShape, NoDeadEntry, WaitersAccounted, Registered, TooOld, EndLoop, registryVars, rowVars, authVars, wireVars, callVars
  <2>41. CASE StartWrite(s)
    BY <2>41 DEF TypeOK, HostShape, CallShape, NoDeadEntry, WaitersAccounted, Registered, TooOld, StartWrite, registryVars, rowVars, authVars, wireVars, callVars
  <2>42. CASE WriteFails(s)
    BY <2>42 DEF TypeOK, HostShape, CallShape, NoDeadEntry, WaitersAccounted, Registered, TooOld, WriteFails, registryVars, rowVars, authVars, wireVars, callVars
  <2>43. CASE Heartbeat(s)
    BY <2>43 DEF TypeOK, HostShape, CallShape, NoDeadEntry, WaitersAccounted, Registered, TooOld, Heartbeat, registryVars, rowVars, authVars, wireVars, callVars
  <2>5. CASE UnregisterEntry(s)
    BY <2>5 DEF TypeOK, HostShape, CallShape, NoDeadEntry, WaitersAccounted, Registered, TooOld, UnregisterEntry, RemoveEntry, registryVars, rowVars, authVars, wireVars, callVars
  <2>6. CASE UnregisterPending(s)
    <3>h. sockHost[s] \in Host
      BY <1>1, <2>6 DEF HostShape, UnregisterPending
    <3>1. \A x \in Call : x \in InFlight(sockHost[s]) => pc[x] \notin {"idle", "guarded", "found"}
      BY <3>h DEF WaitersAccounted, InFlight
    <3>2. \A x \in Call : oneshot'[x] # oneshot[x] => x \in InFlight(sockHost[s])
      BY <2>6 DEF TypeOK, UnregisterPending, DropPending
    <3>3. UNCHANGED <<authVars, callVars, sockVersion>> /\ \A x \in Sock : handler'[x] = "new" => handler[x] = "new"
      BY <2>6 DEF TypeOK, UnregisterPending, registryVars, rowVars, authVars, wireVars, callVars
    <3> QED BY <3>1, <3>2, <3>3 DEF CallShape, TooOld, authVars, callVars
  <2>7. CASE Leave(s)
    BY <2>7 DEF TypeOK, HostShape, CallShape, NoDeadEntry, WaitersAccounted, Registered, TooOld, Leave, registryVars, rowVars, authVars, wireVars, callVars
  <2>8. ASSUME NEW c \in Call, Resolve(s, c) PROVE CallShape'
    BY <2>8 DEF TypeOK, HostShape, CallShape, NoDeadEntry, WaitersAccounted, Registered, TooOld, Resolve, registryVars, rowVars, authVars, wireVars, callVars
  <2> QED BY <1>1, <2>1, <2>2, <2>3, <2>4, <2>21, <2>41, <2>42, <2>43,
     <2>5, <2>6, <2>7, <2>8 DEF HandlerStep
<1>2. ASSUME NEW s \in Sock, AgentStep(s) PROVE CallShape'
  <2>1. CASE PeerGone(s)
    BY <2>1 DEF TypeOK, HostShape, CallShape, NoDeadEntry, WaitersAccounted, Registered, TooOld, PeerGone, registryVars, rowVars, authVars, wireVars, callVars
  <2>11. CASE Stall(s)
    BY <2>11 DEF TypeOK, HostShape, CallShape, NoDeadEntry, WaitersAccounted, Registered, TooOld, Stall, registryVars, rowVars, authVars, wireVars, callVars
  <2>2. ASSUME NEW c \in Call, AgentRun(s, c) PROVE CallShape'
    BY <2>2 DEF TypeOK, HostShape, CallShape, NoDeadEntry, WaitersAccounted, Registered, TooOld, AgentRun, registryVars, rowVars, authVars, wireVars, callVars
  <2>3. ASSUME NEW c \in Call, AgentAnswer(s, c) PROVE CallShape'
    BY <2>3 DEF TypeOK, HostShape, CallShape, NoDeadEntry, WaitersAccounted, Registered, TooOld, AgentAnswer, registryVars, rowVars, authVars, wireVars, callVars
  <2>4. ASSUME NEW h \in Host, NEW v \in Version, Connect(s, h, v) PROVE CallShape'
    BY <2>4 DEF TypeOK, HostShape, CallShape, NoDeadEntry, WaitersAccounted, Registered, TooOld, Connect, registryVars, rowVars, authVars, wireVars, callVars
  <2> QED BY <1>2, <2>1, <2>11, <2>2, <2>3, <2>4 DEF AgentStep
<1>3. ASSUME NEW c \in Call, CallStep(c) PROVE CallShape'
  <2>1. CASE LookupNone(c)
    BY <2>1 DEF TypeOK, HostShape, CallShape, NoDeadEntry, WaitersAccounted, Registered, TooOld, LookupNone, Return, registryVars, rowVars, authVars, wireVars, callVars
  <2>2. CASE LookupTooOld(c)
    BY <2>2 DEF TypeOK, HostShape, CallShape, NoDeadEntry, WaitersAccounted, Registered, TooOld, LookupTooOld, Return, registryVars, rowVars, authVars, wireVars, callVars
  <2>3. CASE LookupFound(c)
    <3>h. via'[c] = connections[callHost[c]] /\ callHost[c] \in Host /\ callOp[c] \in Op
      BY <2>3 DEF TypeOK, CallShape, LookupFound
    <3>a. connections[callHost[c]] \in Sock
      BY <2>3, <3>h DEF TypeOK, Registered, LookupFound
    <3>1. via'[c] \in Sock /\ sockHost[via'[c]] = callHost[c] /\ ~TooOld(via'[c], callOp[c]) /\ handler[via'[c]] # "new"
      BY <2>3, <3>h, <3>a DEF NoDeadEntry, Registered, LookupFound
    <3>2. \A x \in Call \ {c} : via'[x] = via[x] /\ pc'[x] = pc[x]
      BY <2>3 DEF TypeOK, LookupFound
    <3>3. UNCHANGED <<handler, authVars, callHost, callOp, oneshot, result>>
      BY <2>3 DEF LookupFound
    <3> QED BY <2>3, <3>1, <3>2, <3>3 DEF CallShape, TooOld, authVars, LookupFound
  <2>4. CASE InsertPending(c)
    BY <2>4 DEF TypeOK, HostShape, CallShape, NoDeadEntry, WaitersAccounted, Registered, TooOld, InsertPending, registryVars, rowVars, authVars, wireVars, callVars
  <2>5. CASE SendOk(c)
    BY <2>5 DEF TypeOK, HostShape, CallShape, NoDeadEntry, WaitersAccounted, Registered, TooOld, SendOk, registryVars, rowVars, authVars, wireVars, callVars
  <2>6. CASE SendErr(c)
    BY <2>6 DEF TypeOK, HostShape, CallShape, NoDeadEntry, WaitersAccounted, Registered, TooOld, SendErr, Return, registryVars, rowVars, authVars, wireVars, callVars
  <2>7. CASE Receive(c, "ok", "Ok")
    BY <2>7 DEF TypeOK, HostShape, CallShape, NoDeadEntry, WaitersAccounted, Registered, TooOld, Receive, Return, registryVars, rowVars, authVars, wireVars, callVars
  <2>8. CASE Receive(c, "dropped", "ConnectionClosed")
    BY <2>8 DEF TypeOK, HostShape, CallShape, NoDeadEntry, WaitersAccounted, Registered, TooOld, Receive, Return, registryVars, rowVars, authVars, wireVars, callVars
  <2>9. CASE Timeout(c)
    BY <2>9 DEF TypeOK, HostShape, CallShape, NoDeadEntry, WaitersAccounted, Registered, TooOld, Timeout, Return, registryVars, rowVars, authVars, wireVars, callVars
  <2> QED BY <1>3, <2>1, <2>2, <2>3, <2>4, <2>5, <2>6, <2>7, <2>8, <2>9 DEF CallStep
<1>4. ASSUME NEW c \in Call, Cancel(c) PROVE CallShape'
  BY <1>4 DEF TypeOK, HostShape, CallShape, NoDeadEntry, WaitersAccounted, Registered, TooOld, Cancel, registryVars, rowVars, authVars, wireVars, callVars
<1>5. ASSUME NEW c \in Call, NEW h \in Host, NEW op \in Op, Guard(c, h, op) PROVE CallShape'
  BY <1>5 DEF TypeOK, HostShape, CallShape, NoDeadEntry, WaitersAccounted, Registered, TooOld, Guard, Return, registryVars, rowVars, authVars, wireVars, callVars
<1>6. ASSUME AdminNext PROVE CallShape'
  <2>1. CASE AdminFlag
    BY <2>1 DEF TypeOK, HostShape, CallShape, NoDeadEntry, WaitersAccounted, Registered, TooOld, AdminFlag, SetFlag, NextAdmin, registryVars, rowVars, authVars, wireVars, callVars
  <2>2. CASE AdminUnregisterEntry
    BY <2>2 DEF TypeOK, HostShape, CallShape, NoDeadEntry, WaitersAccounted, Registered, TooOld, AdminUnregisterEntry, RemoveEntry, NextAdmin, registryVars, rowVars, authVars, wireVars, callVars
  <2>3. CASE AdminUnregisterPending
    <3>1. \A x \in Call : x \in InFlight(adminHost) => pc[x] \notin {"idle", "guarded", "found"}
      BY <2>3 DEF TypeOK, HostShape, WaitersAccounted, InFlight, AdminUnregisterPending
    <3>2. \A x \in Call : oneshot'[x] # oneshot[x] => x \in InFlight(adminHost)
      BY <2>3 DEF TypeOK, AdminUnregisterPending, DropPending
    <3>3. UNCHANGED <<authVars, callVars, sockVersion>> /\ \A x \in Sock : handler'[x] = "new" => handler[x] = "new"
      BY <2>3 DEF TypeOK, AdminUnregisterPending, registryVars, rowVars, authVars, wireVars, callVars
    <3> QED BY <3>1, <3>2, <3>3 DEF CallShape, TooOld, authVars, callVars
  <2>4. ASSUME NEW h \in Host, AdminRevoke(h) PROVE CallShape'
    BY <2>4 DEF TypeOK, HostShape, CallShape, NoDeadEntry, WaitersAccounted, Registered, TooOld, AdminRevoke, StartAdmin, registryVars, rowVars, authVars, wireVars, callVars
  <2>5. ASSUME NEW h \in Host, AdminDelete(h) PROVE CallShape'
    BY <2>5 DEF TypeOK, HostShape, CallShape, NoDeadEntry, WaitersAccounted, Registered, TooOld, AdminDelete, StartAdmin, registryVars, rowVars, authVars, wireVars, callVars
  <2>6. ASSUME NEW h \in Host, NEW b \in BOOLEAN, AdminFlagRow(h, b) PROVE CallShape'
    BY <2>6 DEF TypeOK, HostShape, CallShape, NoDeadEntry, WaitersAccounted, Registered, TooOld, AdminFlagRow, StartAdmin, registryVars, rowVars, authVars, wireVars, callVars
  <2> QED BY <1>6, <2>1, <2>2, <2>3, <2>4, <2>5, <2>6 DEF AdminNext
<1>7. CASE UNCHANGED vars
  BY <1>7 DEF TypeOK, HostShape, CallShape, NoDeadEntry, WaitersAccounted, Registered, TooOld, vars, registryVars, rowVars, authVars, wireVars, callVars
<1> QED BY <1>1, <1>2, <1>3, <1>4, <1>5, <1>6, <1>7 DEF Next

-----------------------------------------------------------------------------
(* Where requests are, in terms of the sets on each socket. *)
Places == Placed /\ RoutedRight /\ OnePlace

(* A step that moves no request, forgets nothing about a sent call and resolves
   no oneshot keeps all of it. *)
LEMMA PlacesFrame ==
    ASSUME Places,
           UNCHANGED <<chan, sent, done, answered, ran, authVars>>,
           \A s \in Sock : handler'[s] = "new" => handler[s] = "new",
           \A c \in Call : c \in Sendable => c \in Sendable',
           \A c \in Call : c \in Sendable => callHost'[c] = callHost[c] /\ callOp'[c] = callOp[c],
           \A c \in Call : oneshot'[c] = "ok" => oneshot[c] = "ok"
    PROVE  Places'
<1>1. \A s \in Sock : Queued(s)' = Queued(s) /\ OnSock(s)' = OnSock(s)
  BY DEF Queued, OnSock
<1>2. Sendable \subseteq Call
  BY DEF Sendable
<1>3. Placed'
  BY <1>1, <1>2 DEF Places, Placed
<1>4. RoutedRight'
  BY <1>1, <1>2 DEF Places, Placed, RoutedRight, TooOld, authVars
<1>5. OnePlace'
  BY <1>1 DEF Places, OnePlace
<1> QED BY <1>3, <1>4, <1>5 DEF Places

(* A step that only moves requests along their own socket, or drops them. *)
LEMMA PlacesShrink ==
    ASSUME Places,
           UNCHANGED <<authVars, callHost, callOp, pc, result>>,
           \A s \in Sock : handler'[s] = "new" => handler[s] = "new",
           \A s \in Sock : OnSock(s)' \subseteq OnSock(s)
    PROVE  /\ RoutedRight'
           /\ \A s \in Sock : handler'[s] = "new" => OnSock(s)' = {}
           /\ \A s \in Sock : \A c \in OnSock(s)' : c \in Sendable'
           /\ \A c \in Call : \A s, t \in Sock : c \in OnSock(s)' /\ c \in OnSock(t)' => s = t
<1>1. Sendable' = Sendable
  BY DEF Sendable
<1>2. RoutedRight'
  BY DEF Places, RoutedRight, TooOld, authVars
<1> QED BY <1>1, <1>2 DEF Places, Placed, OnePlace

(* A write moves the head of a connection's queue onto its socket, or loses it. *)
LEMMA ForwardPlaces ==
    ASSUME TypeOK, HostShape, Places, NEW s \in Sock, Forward(s) \/ WriteFails(s)
    PROVE  Places'
<1> DEFINE c == Head(chan[s])
<1>1. chan[s] \in Seq(Call) /\ chan[s] # <<>> /\ c \in Call
  BY DEF TypeOK, HostShape, Forward, WriteFails
<1>2. \A t \in Sock \ {s} : chan'[t] = chan[t] /\ sent'[t] = sent[t]
  BY DEF TypeOK, Forward, WriteFails, wireVars
<1>3. chan'[s] = Tail(chan[s]) /\ sent'[s] \in {sent[s], sent[s] \cup {c}}
  BY DEF TypeOK, Forward, WriteFails, wireVars
<1>4. /\ UNCHANGED <<authVars, callHost, callOp, pc, result>>
      /\ UNCHANGED <<done, answered, ran, oneshot>>
      /\ \A t \in Sock : handler'[t] = "new" => handler[t] = "new"
  BY DEF TypeOK, Forward, WriteFails, wireVars, callVars
<1>5. c \in Queued(s) /\ c \notin Queued(s)' /\ Queued(s)' \subseteq Queued(s)
  <2>1. \A i, j \in DOMAIN chan[s] : chan[s][i] = chan[s][j] => i = j
    BY <1>1 DEF Places, OnePlace
  <2> QED BY <1>1, <1>3, <2>1, TailElems DEF Queued
<1>6. \A t \in Sock \ {s} : Queued(t)' = Queued(t)
  BY <1>2 DEF Queued
<1>7. \A t \in Sock : OnSock(t)' \subseteq OnSock(t)
  BY <1>2, <1>3, <1>4, <1>5, <1>6 DEF OnSock
<1>8. Sendable' = Sendable
  BY <1>4 DEF Sendable
<1>9. Placed'
  BY <1>4, <1>7, <1>8, PlacesShrink DEF Places, Placed
<1>10. c \notin sent[s] \cup ran
  BY <1>1, <1>5 DEF Places, OnePlace
<1>11. ASSUME NEW t \in Sock
       PROVE \A i, j \in DOMAIN chan'[t] : chan'[t][i] = chan'[t][j] => i = j
  <2>1. \A i, j \in DOMAIN chan[t] : chan[t][i] = chan[t][j] => i = j
    BY DEF Places, OnePlace
  <2>2. CASE t = s
    <3>1. \A i, j \in DOMAIN chan[s] : chan[s][i] = chan[s][j] => i = j
      BY <2>1, <2>2
    <3>2. \A i, j \in DOMAIN Tail(chan[s]) : Tail(chan[s])[i] = Tail(chan[s])[j] => i = j
      BY <1>1, <3>1, TailDistinct
    <3> QED BY <1>3, <2>2, <3>2
  <2>3. CASE t # s
    BY <1>2, <2>1, <2>3
  <2> QED BY <2>2, <2>3
<1>12. \A x \in Call : \A t \in Sock :
         /\ x \in Queued(t)' => x \notin sent'[t] \cup ran'
         /\ x \in sent'[t] => x \notin ran'
         /\ x \in done'[t] => x \notin answered'[t]
  BY <1>2, <1>3, <1>4, <1>5, <1>6, <1>10 DEF Places, OnePlace
<1>13. OnePlace'
  BY <1>4, <1>7, <1>11, <1>12, PlacesShrink DEF OnePlace
<1> QED BY <1>4, <1>7, <1>9, <1>13, PlacesShrink DEF Places

(* What the agent and the handler do with a request that has left the channel. *)
LEMMA WirePlaces ==
    ASSUME TypeOK, Places, NEW s \in Sock, NEW c \in Call,
           AgentRun(s, c) \/ AgentAnswer(s, c) \/ Resolve(s, c)
    PROVE  Places'
<1>1. UNCHANGED <<authVars, handler, callHost, callOp, pc, result, chan>>
  BY DEF AgentRun, AgentAnswer, Resolve, callVars
<1>2. Sendable' = Sendable /\ \A t \in Sock : Queued(t)' = Queued(t)
  BY <1>1 DEF Sendable, Queued
<1>3. \A t \in Sock \ {s} : UNCHANGED <<sent[t], done[t], answered[t]>>
  BY DEF TypeOK, AgentRun, AgentAnswer, Resolve
<1>4. CASE AgentRun(s, c)
  <2>1. /\ c \in sent[s] /\ sent'[s] = sent[s] \ {c} /\ done'[s] = done[s] \cup {c}
        /\ ran' = ran \cup {c} /\ UNCHANGED <<answered, oneshot>>
    BY <1>4 DEF TypeOK, AgentRun
  <2>2. \A t \in Sock : OnSock(t)' \subseteq OnSock(t)
    BY <1>2, <1>3, <2>1 DEF OnSock
  <2>3. /\ c \in OnSock(s) /\ c \notin ran /\ c \notin Queued(s)
        /\ \A t \in Sock : c \in Queued(t) \cup sent[t] => t = s
    BY <2>1 DEF OnSock, Places, OnePlace
  <2>4. Placed'
    BY <1>1, <1>2, <1>3, <2>1, <2>2, <2>3, PlacesShrink DEF Places, Placed
  <2>5. \A x \in Call : \A t \in Sock :
          /\ x \in Queued(t)' => x \notin sent'[t] \cup ran'
          /\ x \in sent'[t] => x \notin ran'
          /\ x \in done'[t] => x \notin answered'[t]
    <3>1. c \notin answered[s]
      BY <2>3 DEF Places, Placed
    <3> QED BY <1>2, <1>3, <2>1, <2>3, <3>1 DEF Places, OnePlace
  <2>6. OnePlace'
    BY <1>1, <2>2, <2>5, PlacesShrink DEF Places, OnePlace
  <2> QED BY <1>1, <2>2, <2>4, <2>6, PlacesShrink DEF Places
<1>5. CASE AgentAnswer(s, c) \/ Resolve(s, c)
  <2>1. /\ UNCHANGED <<sent, ran>>
        /\ done'[s] \subseteq done[s]
        /\ answered'[s] \subseteq answered[s] \cup (done[s] \ done'[s])
    BY <1>5 DEF TypeOK, AgentAnswer, Resolve
  <2>2. \A t \in Sock : OnSock(t)' \subseteq OnSock(t)
    BY <1>2, <1>3, <2>1 DEF OnSock
  <2>3. \A x \in Call : oneshot'[x] = "ok" => x \in ran
    BY <1>5 DEF TypeOK, AgentAnswer, Resolve, Places, Placed
  <2>4. Placed'
    BY <1>1, <1>2, <1>3, <2>1, <2>2, <2>3, PlacesShrink DEF Places, Placed
  <2>5. \A x \in Call : \A t \in Sock :
          /\ x \in Queued(t)' => x \notin sent'[t] \cup ran'
          /\ x \in sent'[t] => x \notin ran'
          /\ x \in done'[t] => x \notin answered'[t]
    BY <1>2, <1>3, <2>1 DEF Places, OnePlace
  <2>6. OnePlace'
    BY <1>1, <2>2, <2>5, PlacesShrink DEF Places, OnePlace
  <2> QED BY <1>1, <2>2, <2>4, <2>6, PlacesShrink DEF Places
<1> QED BY <1>4, <1>5

(* A send puts a request that was nowhere on its call's socket. *)
LEMMA SendPlaces ==
    ASSUME TypeOK, CallShape, Places, NEW c \in Call, SendOk(c)
    PROVE  Places'
<1>0. PICK s \in Sock : s = via[c]
  BY DEF CallShape, SendOk
<1>1. /\ s \in Sock /\ sockHost[s] = callHost[c] /\ ~TooOld(s, callOp[c])
      /\ handler[s] # "new" /\ pc[c] = "sending"
  BY <1>0 DEF CallShape, SendOk
<1>2. /\ chan'[s] = Append(chan[s], c) /\ pc'[c] = "waiting"
      /\ \A t \in Sock \ {s} : chan'[t] = chan[t]
      /\ \A x \in Call \ {c} : pc'[x] = pc[x]
  BY <1>0 DEF TypeOK, SendOk
<1>3. UNCHANGED <<authVars, handler, callHost, callOp, result, sent, done, answered, ran, oneshot>>
  BY DEF SendOk, wireVars
<1>4. result[c] \notin Remote!Declined
  BY <1>1 DEF CallShape, Remote!Declined
<1>5. Sendable \subseteq Sendable' /\ c \in Sendable'
  BY <1>1, <1>2, <1>3, <1>4 DEF Sendable
<1>6. c \notin Sendable
  BY <1>1 DEF Sendable
<1>7. c \notin ran /\ \A t \in Sock : c \notin OnSock(t)
  BY <1>6 DEF Places, Placed
<1>8. chan[s] \in Seq(Call)
  BY <1>1 DEF TypeOK
<1>9. Queued(s)' = Queued(s) \cup {c} /\ \A t \in Sock \ {s} : Queued(t)' = Queued(t)
  BY <1>2, <1>8, AppendElems DEF Queued
<1>10. OnSock(s)' = OnSock(s) \cup {c} /\ \A t \in Sock \ {s} : OnSock(t)' = OnSock(t)
  BY <1>3, <1>9 DEF OnSock
<1>11. Placed'
  BY <1>1, <1>3, <1>5, <1>10 DEF Places, Placed
<1>12. RoutedRight'
  BY <1>1, <1>3, <1>10 DEF Places, RoutedRight, TooOld, authVars
<1>13. \A x \in Call : \A t, u \in Sock : x \in OnSock(t)' /\ x \in OnSock(u)' => t = u
  BY <1>1, <1>7, <1>10 DEF Places, OnePlace
<1>14. \A t \in Sock : \A i, j \in DOMAIN chan'[t] : chan'[t][i] = chan'[t][j] => i = j
  <2>1. \A i \in DOMAIN chan[s] : chan[s][i] # c
    BY <1>1, <1>7 DEF OnSock, Queued
  <2>2. \A i, j \in DOMAIN chan[s] : chan[s][i] = chan[s][j] => i = j
    BY <1>1 DEF Places, OnePlace
  <2>3. \A i, j \in DOMAIN chan'[s] : chan'[s][i] = chan'[s][j] => i = j
    BY <1>2, <1>8, <2>1, <2>2, AppendElems
  <2> QED BY <1>2, <2>3 DEF Places, OnePlace
<1>15. \A x \in Call : \A t \in Sock :
          /\ x \in Queued(t)' => x \notin sent'[t] \cup ran'
          /\ x \in sent'[t] => x \notin ran'
          /\ x \in done'[t] => x \notin answered'[t]
  BY <1>1, <1>3, <1>7, <1>9 DEF Places, OnePlace, OnSock
<1>16. OnePlace'
  BY <1>13, <1>14, <1>15 DEF OnePlace
<1> QED BY <1>11, <1>12, <1>16 DEF Places

(* Leave drops what was still on the connection's channel and socket. *)
LEMMA LeavePlaces ==
    ASSUME TypeOK, Places, NEW s \in Sock, Leave(s)
    PROVE  Places'
<1>1. /\ chan'[s] = <<>> /\ answered'[s] = {}
      /\ \A t \in Sock \ {s} : chan'[t] = chan[t] /\ answered'[t] = answered[t]
  BY DEF TypeOK, Leave
<1>2. /\ UNCHANGED <<authVars, callHost, callOp, pc, result, sent, done, ran, oneshot>>
      /\ \A t \in Sock : handler'[t] = "new" => handler[t] = "new"
  BY DEF TypeOK, Leave, callVars
<1>3. \A t \in Sock : Queued(t)' \subseteq Queued(t)
  BY <1>1 DEF Queued
<1>4. \A t \in Sock : OnSock(t)' \subseteq OnSock(t)
  BY <1>1, <1>2, <1>3 DEF OnSock
<1>5. Sendable' = Sendable
  BY <1>2 DEF Sendable
<1>6. Placed'
  <2>1. \A t \in Sock : done'[t] \cup answered'[t] \subseteq ran'
    BY <1>1, <1>2 DEF Places, Placed
  <2>2. \A t \in Sock : handler'[t] = "new" => OnSock(t)' = {}
    BY <1>2, <1>4 DEF Places, Placed
  <2>3. \A t \in Sock : \A c \in OnSock(t)' : c \in Sendable'
    BY <1>4, <1>5 DEF Places, Placed
  <2> QED BY <1>2, <1>5, <2>1, <2>2, <2>3 DEF Places, Placed
<1>7. RoutedRight'
  BY <1>2, <1>4 DEF Places, RoutedRight, TooOld, authVars
<1>8. \A t \in Sock : \A i, j \in DOMAIN chan'[t] : chan'[t][i] = chan'[t][j] => i = j
  <2>1. DOMAIN chan'[s] = {}
    BY <1>1
  <2>2. \A t \in Sock : \A i, j \in DOMAIN chan[t] : chan[t][i] = chan[t][j] => i = j
    BY DEF Places, OnePlace
  <2>3. \A t \in Sock \ {s} : chan'[t] = chan[t]
    BY <1>1
  <2> QED BY <2>1, <2>2, <2>3
<1>9. OnePlace'
  BY <1>1, <1>2, <1>3, <1>4, <1>8 DEF Places, OnePlace
<1> QED BY <1>6, <1>7, <1>9 DEF Places

(* A socket that authenticates has nothing on it yet. *)
LEMMA ConnectPlaces ==
    ASSUME TypeOK, Places, NEW s \in Sock, NEW h \in Host, NEW v \in Version, Connect(s, h, v)
    PROVE  Places'
<1>1. UNCHANGED <<chan, sent, done, answered, ran, callHost, callOp, pc, result, oneshot>>
  BY DEF Connect, callVars
<1>2. \A t \in Sock : Queued(t)' = Queued(t) /\ OnSock(t)' = OnSock(t)
  BY <1>1 DEF Queued, OnSock
<1>3. Sendable' = Sendable
  BY <1>1 DEF Sendable
<1>4. /\ OnSock(s) = {} /\ handler'[s] # "new"
      /\ \A t \in Sock \ {s} : /\ handler'[t] = handler[t] /\ sockHost'[t] = sockHost[t]
                              /\ sockVersion'[t] = sockVersion[t]
  BY DEF TypeOK, Connect, Places, Placed
<1>5. Placed'
  BY <1>1, <1>2, <1>3, <1>4 DEF Places, Placed
<1>6. RoutedRight'
  BY <1>1, <1>2, <1>4 DEF Places, RoutedRight, TooOld
<1>7. OnePlace'
  BY <1>1, <1>2 DEF Places, OnePlace
<1> QED BY <1>5, <1>6, <1>7 DEF Places

(* Every action keeps each request in its one place. *)
LEMMA PlacesStep ==
    ASSUME Base, Places, [Next]_vars
    PROVE  Places'
<1> USE ConstAssumption DEF Base, InLoop
<1>1. ASSUME NEW s \in Sock, HandlerStep(s) PROVE Places'
  <2>1. CASE FlagHost(s)
    BY <2>1, PlacesFrame DEF TypeOK, Sendable, FlagHost, SetFlag, registryVars, rowVars, authVars, wireVars, callVars
  <2>2. CASE Register(s)
    BY <2>2, PlacesFrame DEF TypeOK, Sendable, Register, InsertEntry, registryVars, rowVars, authVars, wireVars, callVars
  <2>21. CASE TakeEpoch(s)
    BY <2>21, PlacesFrame DEF TypeOK, Sendable, TakeEpoch, NextEpoch, registryVars, rowVars, authVars, wireVars, callVars
  <2>3. CASE Forward(s)
    BY <2>3, ForwardPlaces
  <2>4. CASE EndLoop(s)
    BY <2>4, PlacesFrame DEF TypeOK, Sendable, EndLoop, registryVars, rowVars, authVars, wireVars, callVars
  <2>41. CASE StartWrite(s)
    BY <2>41, PlacesFrame DEF TypeOK, Sendable, StartWrite, registryVars, rowVars, authVars, wireVars, callVars
  <2>42. CASE WriteFails(s)
    BY <2>42, ForwardPlaces
  <2>43. CASE Heartbeat(s)
    BY <2>43, PlacesFrame DEF TypeOK, Sendable, Heartbeat, registryVars, rowVars, authVars, wireVars, callVars
  <2>5. CASE UnregisterEntry(s)
    BY <2>5, PlacesFrame DEF TypeOK, Sendable, UnregisterEntry, RemoveEntry, registryVars, rowVars, authVars, wireVars, callVars
  <2>6. CASE UnregisterPending(s)
    BY <2>6, PlacesFrame DEF TypeOK, Sendable, UnregisterPending, DropPending, InFlight, registryVars, rowVars, authVars, wireVars, callVars
  <2>7. CASE Leave(s)
    BY <2>7, LeavePlaces
  <2>8. ASSUME NEW c \in Call, Resolve(s, c) PROVE Places'
    BY <2>8, WirePlaces
  <2> QED BY <1>1, <2>1, <2>2, <2>3, <2>4, <2>21, <2>41, <2>42, <2>43,
     <2>5, <2>6, <2>7, <2>8 DEF HandlerStep
<1>2. ASSUME NEW s \in Sock, AgentStep(s) PROVE Places'
  <2>1. CASE PeerGone(s)
    BY <2>1, PlacesFrame DEF TypeOK, Sendable, PeerGone, registryVars, rowVars, authVars, wireVars, callVars
  <2>11. CASE Stall(s)
    BY <2>11, PlacesFrame DEF TypeOK, Sendable, Stall, registryVars, rowVars, authVars, wireVars, callVars
  <2>2. ASSUME NEW c \in Call, AgentRun(s, c) \/ AgentAnswer(s, c) PROVE Places'
    BY <2>2, WirePlaces
  <2>3. ASSUME NEW h \in Host, NEW v \in Version, Connect(s, h, v) PROVE Places'
    BY <2>3, ConnectPlaces
  <2> QED BY <1>2, <2>1, <2>11, <2>2, <2>3 DEF AgentStep
<1>3. ASSUME NEW c \in Call, CallStep(c) PROVE Places'
  <2>1. CASE LookupNone(c)
    BY <2>1, PlacesFrame DEF TypeOK, Sendable, Remote!Declined, LookupNone, Return, registryVars, rowVars, authVars, wireVars, callVars
  <2>2. CASE LookupTooOld(c)
    BY <2>2, PlacesFrame DEF TypeOK, Sendable, Remote!Declined, LookupTooOld, Return, registryVars, rowVars, authVars, wireVars, callVars
  <2>3. CASE LookupFound(c)
    BY <2>3, PlacesFrame DEF TypeOK, Sendable, Remote!Declined, LookupFound, registryVars, rowVars, authVars, wireVars, callVars
  <2>4. CASE InsertPending(c)
    BY <2>4, PlacesFrame DEF TypeOK, Sendable, Remote!Declined, InsertPending, registryVars, rowVars, authVars, wireVars, callVars
  <2>5. CASE SendOk(c)
    BY <2>5, SendPlaces
  <2>6. CASE SendErr(c)
    BY <2>6, PlacesFrame DEF TypeOK, Sendable, Remote!Declined, SendErr, Return, registryVars, rowVars, authVars, wireVars, callVars
  <2>7. CASE Receive(c, "ok", "Ok")
    BY <2>7, PlacesFrame DEF TypeOK, Sendable, Remote!Declined, Receive, Return, registryVars, rowVars, authVars, wireVars, callVars
  <2>8. CASE Receive(c, "dropped", "ConnectionClosed")
    BY <2>8, PlacesFrame DEF TypeOK, Sendable, Remote!Declined, Receive, Return, registryVars, rowVars, authVars, wireVars, callVars
  <2>9. CASE Timeout(c)
    BY <2>9, PlacesFrame DEF TypeOK, Sendable, Remote!Declined, Timeout, Return, registryVars, rowVars, authVars, wireVars, callVars
  <2> QED BY <1>3, <2>1, <2>2, <2>3, <2>4, <2>5, <2>6, <2>7, <2>8, <2>9 DEF CallStep
<1>4. ASSUME NEW c \in Call, Cancel(c) PROVE Places'
  BY <1>4, PlacesFrame DEF TypeOK, Sendable, Cancel, registryVars, rowVars, authVars, wireVars, callVars
<1>5. ASSUME NEW c \in Call, NEW h \in Host, NEW op \in Op, Guard(c, h, op) PROVE Places'
  BY <1>5, PlacesFrame DEF TypeOK, Sendable, Guard, Return, registryVars, rowVars, authVars, wireVars, callVars
<1>6. ASSUME AdminNext PROVE Places'
  <2>1. CASE AdminFlag
    BY <2>1, PlacesFrame DEF TypeOK, Sendable, AdminFlag, SetFlag, NextAdmin, registryVars, rowVars, authVars, wireVars, callVars
  <2>2. CASE AdminUnregisterEntry
    BY <2>2, PlacesFrame DEF TypeOK, Sendable, AdminUnregisterEntry, RemoveEntry, NextAdmin, registryVars, rowVars, authVars, wireVars, callVars
  <2>3. CASE AdminUnregisterPending
    BY <2>3, PlacesFrame DEF TypeOK, Sendable, AdminUnregisterPending, DropPending, InFlight, NextAdmin, registryVars, rowVars, authVars, wireVars, callVars
  <2>4. ASSUME NEW h \in Host, AdminRevoke(h) PROVE Places'
    BY <2>4, PlacesFrame DEF TypeOK, Sendable, AdminRevoke, StartAdmin, registryVars, rowVars, authVars, wireVars, callVars
  <2>5. ASSUME NEW h \in Host, AdminDelete(h) PROVE Places'
    BY <2>5, PlacesFrame DEF TypeOK, Sendable, AdminDelete, StartAdmin, registryVars, rowVars, authVars, wireVars, callVars
  <2>6. ASSUME NEW h \in Host, NEW b \in BOOLEAN, AdminFlagRow(h, b) PROVE Places'
    BY <2>6, PlacesFrame DEF TypeOK, Sendable, AdminFlagRow, StartAdmin, registryVars, rowVars, authVars, wireVars, callVars
  <2> QED BY <1>6, <2>1, <2>2, <2>3, <2>4, <2>5, <2>6 DEF AdminNext
<1>7. CASE UNCHANGED vars
  BY <1>7, PlacesFrame DEF Sendable, vars, registryVars, rowVars, authVars, wireVars, callVars
<1> QED BY <1>1, <1>2, <1>3, <1>4, <1>5, <1>6, <1>7 DEF Next

-----------------------------------------------------------------------------
LEMMA InitBase == Init => Base /\ Places
<1> SUFFICES ASSUME Init PROVE Base /\ Places
  OBVIOUS
<1> USE ConstAssumption DEF InLoop
<1>1. TypeOK
  BY DEF Init, TypeOK, HandlerState, CallState, AdminStep, Outcome
<1>2. HostShape /\ CallShape /\ NoDeadEntry /\ WaitersAccounted
  BY DEF Init, HostShape, CallShape, NoDeadEntry, Registered, WaitersAccounted
<1>3. \A s \in Sock : OnSock(s) = {} /\ Queued(s) = {} /\ DOMAIN chan[s] = {}
  BY DEF Init, OnSock, Queued
<1>4. Places
  BY <1>3 DEF Init, Places, Placed, RoutedRight, OnePlace
<1> QED BY <1>1, <1>2, <1>4 DEF Base

(* One step of the specification keeps the whole invariant. *)
LEMMA BaseStep == Base /\ Places /\ [Next]_vars => (Base /\ Places)'
  BY TypeStep, HostShapeStep, CallShapeStep, DeadEntryStep, WaitersStep, PlacesStep DEF Base

(* So it always holds. *)
LEMMA Inductive == Spec => [](Base /\ Places)
  BY InitBase, BaseStep, PTL DEF Spec

(* Every variable keeps its type, whatever the hosts, sockets, calls and the
   channel's capacity are. *)
THEOREM TypeCorrect == Spec => []TypeOK
<1>1. Base => TypeOK
  BY DEF Base
<1> QED BY Inductive, <1>1, PTL

(* The registry never offers a dispatch a connection whose handler has already
   unregistered, or another host's: NoDeadEntry is an invariant. *)
THEOREM NoDeadEntryAlways == Spec => []NoDeadEntry
<1>1. Base => NoDeadEntry
  BY DEF Base
<1> QED BY Inductive, <1>1, PTL

(* No waiting dispatch loses its pending entry unnoticed and no entry outlives
   its call, except a cancelled one's. *)
THEOREM WaitersAccountedAlways == Spec => []WaitersAccounted
<1>1. Base => WaitersAccounted
  BY DEF Base
<1> QED BY Inductive, <1>1, PTL

(* A command only reaches its own host, over a connection whose agent knows the
   operation. *)
THEOREM RoutedRightAlways == Spec => []RoutedRight
<1>1. Places => RoutedRight
  BY DEF Places
<1> QED BY Inductive, <1>1, PTL

(* No request is ever in two places: none is delivered twice. *)
THEOREM OnePlaceAlways == Spec => []OnePlace
<1>1. Places => OnePlace
  BY DEF Places
<1> QED BY Inductive, <1>1, PTL

-----------------------------------------------------------------------------
LEMMA RemoteInit == Init => Remote!Init
  BY DEF Init, Remote!Init, phase

(* Returning changes the call's phase and outcome and nothing else of the
   abstract state. *)
LEMMA ReturnMaps ==
    ASSUME TypeOK, NEW c \in Call, NEW o, Return(c, o), UNCHANGED ran
    PROVE  /\ phase' = [phase EXCEPT ![c] = "returned"]
           /\ result' = [result EXCEPT ![c] = o]
  BY DEF TypeOK, Return, phase

(* Every step is a step of RemoteCall or changes nothing it sees. *)
LEMMA RemoteStep ==
    ASSUME Base, Places, [Next]_vars
    PROVE  [Remote!Next]_(Remote!callVars)
<1> USE DEF Base
<1>1. ASSUME NEW s \in Sock, HandlerStep(s) PROVE UNCHANGED <<pc, result, ran>>
  BY <1>1 DEF HandlerStep, FlagHost, TakeEpoch, Register, StartWrite, Forward, WriteFails, Heartbeat,
              EndLoop, UnregisterEntry, UnregisterPending, Leave, Resolve, wireVars, callVars
<1>2. ASSUME NEW s \in Sock, AgentStep(s) PROVE [Remote!Next]_(Remote!callVars)
  <2>1. CASE PeerGone(s) \/ Stall(s) \/ \E c \in Call : AgentAnswer(s, c)
    BY <2>1 DEF PeerGone, Stall, AgentAnswer, callVars, phase, Remote!callVars
  <2>2. CASE \E h \in Host, v \in Version : Connect(s, h, v)
    BY <2>2 DEF Connect, callVars, phase, Remote!callVars
  <2>3. ASSUME NEW c \in Call, AgentRun(s, c) PROVE Remote!Run(c)
    <3>1. c \in sent[s] /\ ran' = ran \cup {c} /\ UNCHANGED <<pc, result>>
      BY <2>3 DEF AgentRun, callVars
    <3>2. c \in OnSock(s) /\ c \notin ran
      BY <3>1 DEF OnSock, Places, OnePlace
    <3>3. c \in Sendable
      BY <3>2 DEF Places, Placed
    <3> QED BY <3>1, <3>2, <3>3 DEF Sendable, phase, Remote!Run
  <2> QED BY <1>2, <2>1, <2>2, <2>3 DEF AgentStep, Remote!Next
<1>3. ASSUME NEW c \in Call, CallStep(c) PROVE [Remote!Next]_(Remote!callVars)
  <2> USE DEF Remote!Next
  <2>1. CASE LookupFound(c) \/ InsertPending(c) \/ SendOk(c)
    <3>1. pc[c] \in {"guarded", "found", "sending"} /\ UNCHANGED <<result, ran>>
      BY <2>1 DEF LookupFound, InsertPending, SendOk, wireVars
    <3>2. \E p \in {"found", "sending", "waiting"} : pc' = [pc EXCEPT ![c] = p]
      BY <2>1 DEF LookupFound, InsertPending, SendOk
    <3>3. UNCHANGED phase
      BY <3>1, <3>2 DEF TypeOK, phase
    <3> QED BY <3>1, <3>3 DEF Remote!callVars
  <2>2. CASE LookupNone(c) \/ LookupTooOld(c)
    <3>1. pc[c] = "guarded" /\ UNCHANGED ran
      BY <2>2 DEF LookupNone, LookupTooOld, wireVars
    <3>2. c \notin ran
      BY <3>1 DEF Places, Placed, Sendable
    <3>3. PICK o \in {"NotConnected", "AgentTooOld"} : Return(c, o)
      BY <2>2 DEF LookupNone, LookupTooOld
    <3>4. Remote!End(c, o)
      BY <3>1, <3>2, <3>3, ReturnMaps DEF phase, Remote!End
    <3> QED BY <3>4 DEF Remote!Declined
  <2>3. CASE SendErr(c) \/ Timeout(c) \/ Receive(c, "dropped", "ConnectionClosed")
    <3>1. pc[c] \in {"sending", "waiting"} /\ UNCHANGED ran
      BY <2>3 DEF SendErr, Timeout, Receive, wireVars
    <3>2. PICK o \in {"ConnectionClosed", "Timeout"} : Return(c, o)
      BY <2>3 DEF SendErr, Timeout, Receive
    <3>3. Remote!End(c, o)
      BY <3>1, <3>2, ReturnMaps DEF phase, Remote!End, Remote!Declined
    <3> QED BY <3>3 DEF Remote!Failed
  <2>4. CASE Receive(c, "ok", "Ok")
    <3>1. pc[c] = "waiting" /\ Return(c, "Ok") /\ UNCHANGED ran
      BY <2>4 DEF Receive, wireVars
    <3>2. c \in ran
      BY <2>4 DEF Receive, Places, Placed
    <3>3. Remote!End(c, "Ok")
      BY <3>1, <3>2, ReturnMaps DEF phase, Remote!End, Remote!Declined
    <3> QED BY <3>3
  <2> QED BY <1>3, <2>1, <2>2, <2>3, <2>4 DEF CallStep
<1>4. ASSUME NEW c \in Call, Cancel(c) PROVE Remote!Cancel(c)
  BY <1>4 DEF TypeOK, Cancel, wireVars, phase, Remote!Cancel
<1>5. ASSUME NEW c \in Call, NEW h \in Host, NEW op \in Op, Guard(c, h, op)
      PROVE  Remote!Begin(c) \/ Remote!End(c, "Refused")
  <2>1. pc[c] = "idle" /\ UNCHANGED ran
    BY <1>5 DEF Guard, wireVars
  <2>2. c \notin ran
    BY <2>1 DEF Places, Placed, Sendable
  <2>3. CASE h \in controlPlane /\ op \in GuardedOp
    BY <1>5, <2>1, <2>2, <2>3, ReturnMaps DEF Guard, phase, Remote!End
  <2>4. CASE ~(h \in controlPlane /\ op \in GuardedOp)
    BY <1>5, <2>1, <2>4 DEF TypeOK, Guard, phase, Remote!Begin
  <2> QED BY <2>3, <2>4
<1>6. ASSUME AdminNext PROVE UNCHANGED <<pc, result, ran>>
  BY <1>6 DEF AdminNext, AdminFlag, AdminUnregisterEntry, AdminUnregisterPending,
              AdminRevoke, AdminDelete, AdminFlagRow, wireVars, callVars
<1>7. ASSUME UNCHANGED vars PROVE UNCHANGED <<pc, result, ran>>
  BY <1>7 DEF vars, callVars, wireVars
<1>8. ASSUME UNCHANGED <<pc, result, ran>> PROVE UNCHANGED Remote!callVars
  BY <1>8 DEF phase, Remote!callVars
<1> QED BY <1>1, <1>2, <1>3, <1>4, <1>5, <1>6, <1>7, <1>8 DEF Next, Remote!Next, Remote!Declined

(* dispatch implements RemoteCall: an operation runs at most once, Ok means it
   ran, and Refused, NotConnected and AgentTooOld mean that it never does. *)
THEOREM ImplementsRemoteCallAlways == Spec => ImplementsRemoteCall
<1>1. Spec => Remote!Init
  BY RemoteInit DEF Spec
<1>2. Base /\ Places /\ [Next]_vars => [Remote!Next]_(Remote!callVars)
  BY RemoteStep
<1> QED BY Inductive, <1>1, <1>2, PTL DEF Spec, ImplementsRemoteCall, Remote!Spec

-----------------------------------------------------------------------------
(* The registry's flag is the row's while no admin route for the host is half done
   and no handler has put an outdated one there; an unflagging route, or a removal,
   has cleared the row before it comes to the registry. *)
GuardShape ==
    /\ adminStep = "flag" => rowFlag[adminHost]
    /\ adminStep \in {"unflag", "unregister", "drop"} => ~rowFlag[adminHost]
    /\ FlagFollowsRow

(* Steps that touch neither flag nor row keep it. *)
LEMMA GuardFrame ==
    ASSUME GuardShape, UNCHANGED <<controlPlane, staleFlag, rowFlag, adminStep, adminHost>>
    PROVE  GuardShape'
  BY DEF GuardShape, FlagFollowsRow

(* Every step keeps it. *)
LEMMA GuardStep ==
    ASSUME TypeOK, HostShape, GuardShape, [Next]_vars
    PROVE  GuardShape'
<1> USE ConstAssumption
<1>1. ASSUME NEW s \in Sock, HandlerStep(s) PROVE GuardShape'
  <2>1. CASE FlagHost(s)
    <3>1. sockHost[s] \in Host /\ sockFlag[s] \in BOOLEAN /\ rowFlag[sockHost[s]] \in BOOLEAN
      BY <2>1 DEF TypeOK, HostShape, FlagHost
    <3>2. UNCHANGED <<rowFlag, adminStep, adminHost>>
      BY <2>1 DEF FlagHost, rowVars
    <3>3. \A h \in Host : h # sockHost[s] =>
            (h \in controlPlane' <=> h \in controlPlane) /\ (h \in staleFlag' <=> h \in staleFlag)
      BY <2>1 DEF FlagHost, SetFlag
    <3>4. sockHost[s] \notin staleFlag' => (sockHost[s] \in controlPlane' <=> rowFlag[sockHost[s]])
      BY <2>1, <3>1 DEF FlagHost, SetFlag
    <3> QED BY <3>1, <3>2, <3>3, <3>4 DEF GuardShape, FlagFollowsRow
  <2>2. CASE ~FlagHost(s)
    <3>1. UNCHANGED <<controlPlane, staleFlag, rowFlag, adminStep, adminHost>>
      BY <1>1, <2>2 DEF HandlerStep, TakeEpoch, Register, StartWrite, Forward, WriteFails, Heartbeat,
         EndLoop, UnregisterEntry, UnregisterPending, Leave, Resolve, registryVars, rowVars
    <3> QED BY <3>1, GuardFrame
  <2> QED BY <2>1, <2>2
<1>2. ASSUME NEW s \in Sock, AgentStep(s) PROVE GuardShape'
  <2>1. UNCHANGED <<controlPlane, staleFlag, rowFlag, adminStep, adminHost>>
    BY <1>2 DEF AgentStep, Connect, PeerGone, Stall, AgentRun, AgentAnswer, registryVars, rowVars
  <2> QED BY <2>1, GuardFrame
<1>3. ASSUME NEW c \in Call, CallStep(c) \/ Cancel(c) \/ \E h \in Host, op \in Op : Guard(c, h, op)
      PROVE  GuardShape'
  <2>1. UNCHANGED <<controlPlane, staleFlag, rowFlag, adminStep, adminHost>>
    BY <1>3 DEF CallStep, LookupNone, LookupTooOld, LookupFound, InsertPending, SendOk, SendErr,
       Receive, Timeout, Cancel, Guard, Return, registryVars, rowVars
  <2> QED BY <2>1, GuardFrame
<1>4. CASE AdminNext
  <2>1. CASE AdminFlag
    <3>1. adminHost \in Host /\ rowFlag[adminHost] \in BOOLEAN
          /\ (rowFlag[adminHost] <=> adminStep = "flag")
      BY <2>1 DEF TypeOK, HostShape, GuardShape, AdminFlag
    <3>2. UNCHANGED <<rowFlag, adminHost>> /\ adminStep' = "idle"
      BY <2>1 DEF AdminFlag, NextAdmin
    <3>3. \A h \in Host : h # adminHost =>
            (h \in controlPlane' <=> h \in controlPlane) /\ (h \in staleFlag' <=> h \in staleFlag)
      BY <2>1 DEF AdminFlag, SetFlag
    <3>4. adminHost \in controlPlane' <=> rowFlag[adminHost]
      BY <2>1, <3>1 DEF AdminFlag, SetFlag
    <3> QED BY <3>1, <3>2, <3>3, <3>4 DEF GuardShape, FlagFollowsRow
  <2>2. CASE AdminUnregisterEntry \/ AdminUnregisterPending
    <3>1. /\ UNCHANGED <<controlPlane, staleFlag, rowFlag, adminHost>>
          /\ adminStep \in {"unregister", "drop"} /\ adminStep' \in {"drop", "unflag"}
      BY <2>2 DEF AdminUnregisterEntry, AdminUnregisterPending, NextAdmin, registryVars
    <3> QED BY <3>1 DEF GuardShape, FlagFollowsRow
  <2>3. ASSUME NEW h \in Host, AdminRevoke(h) PROVE GuardShape'
    BY <2>3 DEF TypeOK, GuardShape, FlagFollowsRow, AdminRevoke, StartAdmin, registryVars
  <2>4. ASSUME NEW h \in Host, AdminDelete(h) PROVE GuardShape'
    BY <2>4 DEF TypeOK, GuardShape, FlagFollowsRow, AdminDelete, StartAdmin, registryVars
  <2>5. ASSUME NEW h \in Host, NEW b \in BOOLEAN, AdminFlagRow(h, b) PROVE GuardShape'
    BY <2>5 DEF TypeOK, GuardShape, FlagFollowsRow, AdminFlagRow, StartAdmin, registryVars
  <2> QED BY <1>4, <2>1, <2>2, <2>3, <2>4, <2>5 DEF AdminNext
<1>5. CASE UNCHANGED vars
  BY <1>5, GuardFrame DEF vars, registryVars, rowVars
<1> QED BY <1>1, <1>2, <1>3, <1>4, <1>5 DEF Next

(* set_control_plane: the registry's flag of a host is its row's whenever no admin
   route for it is half done, whatever connects, ends, is revoked or removed; the
   one exception is a handler that copied what it had read before the row changed. *)
THEOREM FlagFollowsRowAlways == Spec => []FlagFollowsRow
<1>1. Init => GuardShape
  BY ConstAssumption DEF Init, GuardShape, FlagFollowsRow
<1>2. TypeOK /\ HostShape /\ GuardShape /\ [Next]_vars => GuardShape'
  BY GuardStep
<1>3. GuardShape => FlagFollowsRow
  BY DEF GuardShape
<1>4. Base => TypeOK /\ HostShape
  BY DEF Base
<1> QED BY Inductive, <1>1, <1>2, <1>3, <1>4, PTL DEF Spec

-----------------------------------------------------------------------------
(* No epoch is ahead of the counter, and no two are the same. *)
EpochShape == EpochIdentifies /\ \A s \in Sock : epoch[s] <= nextEpoch

(* Only register's first step touches the epochs and the counter. *)
LEMMA OnlyRegisterNumbers ==
    ASSUME [Next]_vars, ~ \E s \in Sock : TakeEpoch(s)
    PROVE  UNCHANGED <<epoch, nextEpoch>>
<1>1. ASSUME NEW s \in Sock, HandlerStep(s) PROVE UNCHANGED <<epoch, nextEpoch>>
  BY <1>1 DEF HandlerStep, FlagHost, Register, StartWrite, Forward, WriteFails, Heartbeat,
     EndLoop, UnregisterEntry, UnregisterPending, Leave, Resolve, registryVars
<1>2. ASSUME NEW s \in Sock, AgentStep(s) PROVE UNCHANGED <<epoch, nextEpoch>>
  BY <1>2 DEF AgentStep, PeerGone, Stall, AgentRun, AgentAnswer, Connect, registryVars
<1>3. ASSUME NEW c \in Call, CallStep(c) \/ Cancel(c) \/ \E h \in Host, op \in Op : Guard(c, h, op)
      PROVE  UNCHANGED <<epoch, nextEpoch>>
  BY <1>3 DEF CallStep, LookupNone, LookupTooOld, LookupFound, InsertPending, SendOk, SendErr,
     Receive, Timeout, Cancel, Guard, registryVars
<1>4. ASSUME AdminNext PROVE UNCHANGED <<epoch, nextEpoch>>
  BY <1>4 DEF AdminNext, AdminFlag, AdminUnregisterEntry, AdminUnregisterPending,
     AdminRevoke, AdminDelete, AdminFlagRow, registryVars
<1>5. CASE UNCHANGED vars
  BY <1>5 DEF vars, registryVars
<1> QED BY <1>1, <1>2, <1>3, <1>4, <1>5 DEF Next

LEMMA TakeEpochFresh ==
    ASSUME TypeOK, EpochShape, NEW s \in Sock, TakeEpoch(s)
    PROVE  EpochShape'
<1>1. /\ nextEpoch \in Nat /\ nextEpoch' = nextEpoch + 1
      /\ epoch' = [epoch EXCEPT ![s] = nextEpoch + 1] /\ epoch \in [Sock -> Nat]
  BY DEF TakeEpoch, NextEpoch, TypeOK
<1>2. \A t \in Sock : t # s => epoch'[t] = epoch[t] /\ epoch[t] <= nextEpoch /\ epoch[t] \in Nat
  BY <1>1 DEF EpochShape
<1>3. epoch'[s] = nextEpoch + 1
  BY <1>1
<1> QED BY <1>1, <1>2, <1>3 DEF EpochShape, EpochIdentifies

(* register: no two connections are ever given the same epoch, in whatever order
   their handlers take the number and put their entries in the map. *)
THEOREM EpochIdentifiesAlways == Spec => []EpochIdentifies
<1>1. Init => EpochShape
  BY DEF Init, EpochShape, EpochIdentifies
<1>2. TypeOK /\ EpochShape /\ [Next]_vars => EpochShape'
  <2> SUFFICES ASSUME TypeOK, EpochShape, [Next]_vars PROVE EpochShape'
    OBVIOUS
  <2>1. CASE \E s \in Sock : TakeEpoch(s)
    BY <2>1, TakeEpochFresh
  <2>2. CASE ~ \E s \in Sock : TakeEpoch(s)
    <3>1. UNCHANGED <<epoch, nextEpoch>>
      BY <2>2, OnlyRegisterNumbers
    <3> QED BY <3>1 DEF EpochShape, EpochIdentifies
  <2> QED BY <2>1, <2>2
<1>3. Base => TypeOK
  BY DEF Base
<1>4. EpochShape => EpochIdentifies
  BY DEF EpochShape
<1> QED BY Inductive, <1>1, <1>2, <1>3, <1>4, PTL DEF Spec

(* Where a call's oneshot loses its sender. *)
LEMMA DropsOwn ==
    ASSUME TypeOK, HostShape, WaitersAccounted, [Next]_vars, NEW c \in Call,
           oneshot[c] = "open", oneshot'[c] = "dropped"
    PROVE  \/ adminStep = "drop" /\ adminHost = callHost[c]
           \/ \E s \in Sock : handler[s] = "dropping" /\ sockHost[s] = callHost[c]
<1>1. ASSUME NEW h \in Host, DropPending(h) PROVE h = callHost[c]
  <2>1. pending[c] = h
    BY <1>1 DEF DropPending, InFlight
  <2> QED BY <2>1, ConstAssumption DEF WaitersAccounted
<1>2. ASSUME NEW s \in Sock, HandlerStep(s) \/ AgentStep(s)
      PROVE  handler[s] = "dropping" /\ sockHost[s] = callHost[c]
  <2>1. UnregisterPending(s)
    BY <1>2 DEF TypeOK, HandlerStep, AgentStep, FlagHost, TakeEpoch, Register, StartWrite, Forward,
       WriteFails, Heartbeat, EndLoop, UnregisterEntry, Leave, Resolve, PeerGone, Stall, AgentRun, AgentAnswer, Connect
  <2> QED BY <1>1, <2>1 DEF UnregisterPending, HostShape
<1>3. ASSUME NEW d \in Call, CallStep(d) \/ Cancel(d) \/ \E h \in Host, op \in Op : Guard(d, h, op)
      PROVE  FALSE
  <2>1. CASE InsertPending(d)
    BY <2>1 DEF TypeOK, InsertPending
  <2>2. CASE ~InsertPending(d)
    <3>1. UNCHANGED oneshot
      BY <1>3, <2>2 DEF CallStep, LookupNone, LookupTooOld, LookupFound, SendOk, SendErr,
         Receive, Timeout, Cancel, Guard
    <3> QED BY <3>1
  <2> QED BY <2>1, <2>2
<1>4. ASSUME AdminNext PROVE adminStep = "drop" /\ adminHost = callHost[c]
  <2>1. AdminUnregisterPending
    BY <1>4 DEF AdminNext, AdminFlag, AdminUnregisterEntry, AdminRevoke, AdminDelete, AdminFlagRow
  <2> QED BY <1>1, <2>1 DEF AdminUnregisterPending, HostShape
<1>5. CASE UNCHANGED vars
  BY <1>5 DEF vars
<1> QED BY <1>2, <1>3, <1>4, <1>5 DEF Next

(* unregister: a call is failed only by the end of a connection of its own host, or
   by the removal of that host. *)
THEOREM DropsOwnHostOnlyAlways == Spec => DropsOwnHostOnly
<1>1. TypeOK /\ HostShape /\ WaitersAccounted /\ [Next]_vars =>
        [\A c \in Call :
           oneshot[c] = "open" /\ oneshot'[c] = "dropped" =>
             \/ adminStep = "drop" /\ adminHost = callHost[c]
             \/ \E s \in Sock : handler[s] = "dropping" /\ sockHost[s] = callHost[c]]_vars
  BY DropsOwn
<1>2. Base => TypeOK /\ HostShape /\ WaitersAccounted
  BY DEF Base
<1> QED BY Inductive, <1>1, <1>2, PTL DEF Spec, DropsOwnHostOnly
=============================================================================
