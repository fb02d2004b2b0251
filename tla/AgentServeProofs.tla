-------------------------- MODULE AgentServeProofs --------------------------
(***************************************************************************)
(* Theorems about AgentServe, for any number of connections and requests,   *)
(* any channel capacity and any cap on concurrent reads.                    *)
(***************************************************************************)
EXTENDS AgentServe, SeqLemmas, FiniteSetTheorems, TLAPS

(* A request belongs to a connection exactly while it is somewhere, and its kind
   decides where it waits first. *)
HomeShape ==
    \A r \in Req :
        /\ state[r] # "none" <=> home[r] \in Conn
        /\ state[r] = "queued" => r \in Write
        /\ state[r] = "slot" => r \in Read

(* The gate's own invariant: a write that holds it is its only holder. *)
GateAlone == \A r \in Holding : r \in Write => Holding = {r}

(* The semaphore's: a connection's reads past it never exceed its permits. *)
SlotsBounded ==
    \A c \in Conn : Cardinality(Slotted(c)) <= MaxReads

Base == TypeOK /\ HomeShape /\ GateAlone /\ WaitsInOnePlace /\ SlotsBounded

(* Whoever is first in a queue is waiting in it. *)
LEMMA HeadQueued ==
    ASSUME TypeOK, WaitsInOnePlace, NEW c \in Conn, queue[c] # <<>>
    PROVE  /\ Head(queue[c]) \in Req
           /\ state[Head(queue[c])] = "queued" /\ home[Head(queue[c])] = c
<1>1. queue[c] \in Seq(Req)
  BY DEF TypeOK
<1>2. Head(queue[c]) \in Req /\ 1 \in DOMAIN queue[c] /\ Head(queue[c]) = queue[c][1]
  BY <1>1, TailElems
<1> QED BY <1>2 DEF WaitsInOnePlace

(* And whoever is first in line for the gate is waiting for it. *)
LEMMA HeadWaits ==
    ASSUME TypeOK, WaitsInOnePlace, gateQ # <<>>
    PROVE  Head(gateQ) \in Req /\ state[Head(gateQ)] = "gate"
<1>1. Head(gateQ) \in Req /\ 1 \in DOMAIN gateQ /\ Head(gateQ) = gateQ[1]
  BY TailElems DEF TypeOK
<1> QED BY <1>1 DEF WaitsInOnePlace

(* What taking the write r from c's queue does to it. *)
TookWrite(c, r) ==
    /\ queue[c] # <<>> /\ r = Head(queue[c]) /\ state[r] = "queued" /\ home[r] = c
    /\ queue' = [queue EXCEPT ![c] = Tail(queue[c])]
    /\ \/ /\ state' = [state EXCEPT ![r] = "none"]
          /\ home' = [home EXCEPT ![r] = NoConn] /\ UNCHANGED gateQ
       \/ /\ state' = [state EXCEPT ![r] = "gate"]
          /\ gateQ' = Append(gateQ, r) /\ UNCHANGED home
    /\ UNCHANGED <<cur, life, closed, sink, owed, out>>

(* The write task takes a request that waits in its connection's queue. *)
LEMMA TakeWriteEffect ==
    ASSUME TypeOK, WaitsInOnePlace, NEW c \in Conn, TakeWrite(c)
    PROVE  \E r \in Req : TookWrite(c, r)
  BY HeadQueued DEF TookWrite, TakeWrite, Drop, AwaitGate, connVars

(* Types are kept. *)
LEMMA TypeStep ==
    ASSUME TypeOK, HomeShape, WaitsInOnePlace, [Next]_vars
    PROVE  TypeOK'
<1> USE ConstAssumption
<1>1. CASE ReaderReply
  BY <1>1 DEF TypeOK, HomeShape, ReqState, Message, ReaderReply, connVars
<1>2. CASE ReaderReplyFails
  BY <1>2 DEF TypeOK, HomeShape, ReqState, Message, ReaderReplyFails, CloseServe, connVars
<1>3. CASE StreamEnds
  BY <1>3 DEF TypeOK, HomeShape, ReqState, Message, StreamEnds, CloseServe, Reading, connVars
<1>4. CASE StreamFails
  BY <1>4 DEF TypeOK, HomeShape, ReqState, Message, StreamFails, Reading, connVars
<1>5. ASSUME NEW r \in Req, Command(r) PROVE TypeOK'
  <2>1. /\ cur \in Conn /\ home' = [home EXCEPT ![r] = cur] /\ UNCHANGED <<out, gateQ>>
        /\ (closed[cur] => CloseServe)
        /\ (~closed[cur] => UNCHANGED connVars)
    BY <1>5 DEF TypeOK, Command, Reading
  <2>2. state' \in [Req -> ReqState] /\ queue' \in [Conn -> Seq(Req)]
    <3>1. CASE r \in Read
      BY <1>5, <3>1 DEF TypeOK, ReqState, Command
    <3>2. CASE r \notin Read
      <4>1. Append(queue[cur], r) \in Seq(Req)
        BY <2>1 DEF TypeOK
      <4>2. /\ state' = [state EXCEPT ![r] = "queued"]
            /\ queue' = [queue EXCEPT ![cur] = Append(queue[cur], r)]
        BY <1>5, <3>2 DEF Command
      <4> QED BY <2>1, <4>1, <4>2 DEF TypeOK, ReqState
    <3> QED BY <3>1, <3>2
  <2>3. CASE closed[cur]
    BY <2>1, <2>2, <2>3 DEF TypeOK, CloseServe
  <2>4. CASE ~closed[cur]
    BY <2>1, <2>2, <2>4 DEF TypeOK, connVars
  <2> QED BY <2>3, <2>4
<1>6. ASSUME NEW m \in {"Pong", "Unsupported"}, Solicit(m) PROVE TypeOK'
  BY <1>6 DEF TypeOK, HomeShape, ReqState, Message, Solicit, Reading, connVars
<1>7. ASSUME NEW c \in Conn, Connect(c) PROVE TypeOK'
  BY <1>7 DEF TypeOK, HomeShape, ReqState, Message, Connect, Gone, connVars
<1>8. ASSUME NEW c \in Conn, WriterSends(c) PROVE TypeOK'
  BY <1>8 DEF TypeOK, HomeShape, ReqState, Message, WriterSends, connVars
<1>9. ASSUME NEW c \in Conn, WriterFails(c) PROVE TypeOK'
  BY <1>9 DEF TypeOK, HomeShape, ReqState, Message, WriterFails, connVars
<1>10. ASSUME NEW c \in Conn, TakeWrite(c) PROVE TypeOK'
  <2>1. Tail(queue[c]) \in Seq(Req)
    BY <1>10 DEF TypeOK, TakeWrite
  <2>2. PICK r \in Req : TookWrite(c, r)
    BY <1>10, TakeWriteEffect
  <2>3. queue' \in [Conn -> Seq(Req)]
    BY <2>1, <2>2 DEF TypeOK, TookWrite
  <2>4. state' \in [Req -> ReqState] /\ home' \in [Req -> Conn \cup {NoConn}] /\ gateQ' \in Seq(Req)
    <3>1. CASE state' = [state EXCEPT ![r] = "none"] /\ home' = [home EXCEPT ![r] = NoConn] /\ UNCHANGED gateQ
      BY <3>1 DEF TypeOK, ReqState
    <3>2. CASE state' = [state EXCEPT ![r] = "gate"] /\ gateQ' = Append(gateQ, r) /\ UNCHANGED home
      BY <3>2 DEF TypeOK, ReqState
    <3> QED BY <2>2, <3>1, <3>2 DEF TookWrite
  <2> QED BY <2>2, <2>3, <2>4 DEF TypeOK, TookWrite
<1>11. ASSUME NEW r \in Req, TakeSlot(r) PROVE TypeOK'
  BY <1>11 DEF TypeOK, HomeShape, ReqState, Message, TakeSlot, AwaitGate, connVars
<1>12. ASSUME NEW r \in Req, Start(r) PROVE TypeOK'
  BY <1>12 DEF TypeOK, HomeShape, ReqState, Message, Start, Drop, connVars
<1>13. ASSUME NEW r \in Req, Finish(r) PROVE TypeOK'
  BY <1>13 DEF TypeOK, HomeShape, ReqState, Message, Finish, connVars
<1>14. ASSUME NEW r \in Req, Reply(r) PROVE TypeOK'
  BY <1>14 DEF TypeOK, HomeShape, ReqState, Message, Reply, Drop, connVars
<1>15. CASE Grant
  BY <1>15 DEF TypeOK, HomeShape, ReqState, Message, Grant, connVars
<1>16. CASE UNCHANGED vars
  BY <1>16 DEF TypeOK, HomeShape, ReqState, Message, vars, connVars
<1> QED BY <1>1, <1>2, <1>3, <1>4, <1>5, <1>6, <1>7, <1>8, <1>9, <1>10, <1>11, <1>12, <1>13, <1>14, <1>15, <1>16 DEF Next, ReaderStep, WriterStep

(* A request keeps its connection as long as it is somewhere. *)
LEMMA HomeStep ==
    ASSUME TypeOK, HomeShape, WaitsInOnePlace, [Next]_vars
    PROVE  HomeShape'
<1> USE ConstAssumption
<1>1. CASE ReaderReply
  BY <1>1 DEF TypeOK, HomeShape, Write, ReaderReply, connVars
<1>2. CASE ReaderReplyFails
  BY <1>2 DEF TypeOK, HomeShape, Write, ReaderReplyFails, CloseServe, connVars
<1>3. CASE StreamEnds
  BY <1>3 DEF TypeOK, HomeShape, Write, StreamEnds, CloseServe, Reading, connVars
<1>4. CASE StreamFails
  BY <1>4 DEF TypeOK, HomeShape, Write, StreamFails, Reading, connVars
<1>5. ASSUME NEW r \in Req, Command(r) PROVE HomeShape'
  BY <1>5 DEF TypeOK, HomeShape, Write, Command, CloseServe, Reading, connVars
<1>6. ASSUME NEW m \in {"Pong", "Unsupported"}, Solicit(m) PROVE HomeShape'
  BY <1>6 DEF TypeOK, HomeShape, Write, Solicit, Reading, connVars
<1>7. ASSUME NEW c \in Conn, Connect(c) PROVE HomeShape'
  BY <1>7 DEF TypeOK, HomeShape, Write, Connect, Gone, connVars
<1>8. ASSUME NEW c \in Conn, WriterSends(c) PROVE HomeShape'
  BY <1>8 DEF TypeOK, HomeShape, Write, WriterSends, connVars
<1>9. ASSUME NEW c \in Conn, WriterFails(c) PROVE HomeShape'
  BY <1>9 DEF TypeOK, HomeShape, Write, WriterFails, connVars
<1>10. ASSUME NEW c \in Conn, TakeWrite(c) PROVE HomeShape'
  <2>1. PICK r \in Req : TookWrite(c, r)
    BY <1>10, TakeWriteEffect
  <2> QED BY <2>1 DEF TypeOK, HomeShape, TookWrite
<1>11. ASSUME NEW r \in Req, TakeSlot(r) PROVE HomeShape'
  BY <1>11 DEF TypeOK, HomeShape, Write, TakeSlot, AwaitGate, connVars
<1>12. ASSUME NEW r \in Req, Start(r) PROVE HomeShape'
  BY <1>12 DEF TypeOK, HomeShape, Write, Start, Drop, connVars
<1>13. ASSUME NEW r \in Req, Finish(r) PROVE HomeShape'
  BY <1>13 DEF TypeOK, HomeShape, Write, Finish, connVars
<1>14. ASSUME NEW r \in Req, Reply(r) PROVE HomeShape'
  BY <1>14 DEF TypeOK, HomeShape, Write, Reply, Drop, connVars
<1>15. CASE Grant
  BY <1>15, HeadWaits DEF TypeOK, HomeShape, Grant
<1>16. CASE UNCHANGED vars
  BY <1>16 DEF TypeOK, HomeShape, Write, vars, connVars
<1> QED BY <1>1, <1>2, <1>3, <1>4, <1>5, <1>6, <1>7, <1>8, <1>9, <1>10, <1>11, <1>12, <1>13, <1>14, <1>15, <1>16 DEF Next, ReaderStep, WriterStep

(* Nobody joins a write at the gate, and a write joins nobody. *)
LEMMA GateStep ==
    ASSUME TypeOK, HomeShape, GateAlone, WaitsInOnePlace, [Next]_vars
    PROVE  GateAlone'
<1> USE ConstAssumption
<1>1. CASE ReaderReply
  BY <1>1 DEF TypeOK, GateAlone, Holding, Write, CanHold, ReaderReply, connVars
<1>2. CASE ReaderReplyFails
  BY <1>2 DEF TypeOK, GateAlone, Holding, Write, CanHold, ReaderReplyFails, CloseServe, connVars
<1>3. CASE StreamEnds
  BY <1>3 DEF TypeOK, GateAlone, Holding, Write, CanHold, StreamEnds, CloseServe, Reading, connVars
<1>4. CASE StreamFails
  BY <1>4 DEF TypeOK, GateAlone, Holding, Write, CanHold, StreamFails, Reading, connVars
<1>5. ASSUME NEW r \in Req, Command(r) PROVE GateAlone'
  BY <1>5 DEF TypeOK, GateAlone, Holding, Write, CanHold, Command, CloseServe, Reading, connVars
<1>6. ASSUME NEW m \in {"Pong", "Unsupported"}, Solicit(m) PROVE GateAlone'
  BY <1>6 DEF TypeOK, GateAlone, Holding, Write, CanHold, Solicit, Reading, connVars
<1>7. ASSUME NEW c \in Conn, Connect(c) PROVE GateAlone'
  BY <1>7 DEF TypeOK, GateAlone, Holding, Write, CanHold, Connect, Gone, connVars
<1>8. ASSUME NEW c \in Conn, WriterSends(c) PROVE GateAlone'
  BY <1>8 DEF TypeOK, GateAlone, Holding, Write, CanHold, WriterSends, connVars
<1>9. ASSUME NEW c \in Conn, WriterFails(c) PROVE GateAlone'
  BY <1>9 DEF TypeOK, GateAlone, Holding, Write, CanHold, WriterFails, connVars
<1>10. ASSUME NEW c \in Conn, TakeWrite(c) PROVE GateAlone'
  <2>1. PICK r \in Req : TookWrite(c, r)
    BY <1>10, TakeWriteEffect
  <2>2. Holding' = Holding
    BY <2>1 DEF TypeOK, Holding, TookWrite
  <2> QED BY <2>2 DEF GateAlone
<1>11. ASSUME NEW r \in Req, TakeSlot(r) PROVE GateAlone'
  BY <1>11 DEF TypeOK, GateAlone, Holding, Write, CanHold, TakeSlot, AwaitGate, connVars
<1>12. ASSUME NEW r \in Req, Start(r) PROVE GateAlone'
  BY <1>12 DEF TypeOK, GateAlone, Holding, Write, CanHold, Start, Drop, connVars
<1>13. ASSUME NEW r \in Req, Finish(r) PROVE GateAlone'
  BY <1>13 DEF TypeOK, GateAlone, Holding, Write, CanHold, Finish, connVars
<1>14. ASSUME NEW r \in Req, Reply(r) PROVE GateAlone'
  BY <1>14 DEF TypeOK, GateAlone, Holding, Write, CanHold, Reply, Drop, connVars
<1>15. CASE Grant
  BY <1>15 DEF TypeOK, GateAlone, Holding, Write, CanHold, Grant, connVars
<1>16. CASE UNCHANGED vars
  BY <1>16 DEF TypeOK, GateAlone, Holding, Write, CanHold, vars, connVars
<1> QED BY <1>1, <1>2, <1>3, <1>4, <1>5, <1>6, <1>7, <1>8, <1>9, <1>10, <1>11, <1>12, <1>13, <1>14, <1>15, <1>16 DEF Next, ReaderStep, WriterStep

(* The line for the gate and the connections' queues, in terms of membership. *)
GateLine ==
    /\ Distinct(gateQ)
    /\ \A r \in Req : state[r] = "gate" <=> InSeq(r, gateQ)

WriteLine ==
    /\ \A c \in Conn : Distinct(queue[c])
    /\ \A r \in Req, c \in Conn : (state[r] = "queued" /\ home[r] = c) <=> InSeq(r, queue[c])

(* A step that moves no request into or out of a waiting place keeps both. *)
LEMMA WaitsSame ==
    ASSUME GateLine, WriteLine, UNCHANGED <<queue, gateQ>>,
           \A r \in Req : /\ state'[r] = "gate" <=> state[r] = "gate"
                          /\ state'[r] = "queued" <=> state[r] = "queued"
                          /\ state[r] = "queued" => home'[r] = home[r]
    PROVE  GateLine' /\ WriteLine'
  BY DEF GateLine, WriteLine

(* A request that joins the line for the gate was not in it. *)
LEMMA JoinGate ==
    ASSUME TypeOK, GateLine, NEW r \in Req, state[r] # "gate",
           state' = [state EXCEPT ![r] = "gate"], gateQ' = Append(gateQ, r)
    PROVE  GateLine'
<1>1. ~InSeq(r, gateQ) /\ gateQ \in Seq(Req) /\ Distinct(gateQ)
  BY DEF TypeOK, GateLine
<1>2. Distinct(gateQ') /\ \A y : InSeq(y, gateQ') <=> InSeq(y, gateQ) \/ y = r
  BY <1>1, AppendIn
<1> QED BY <1>2 DEF TypeOK, GateLine

(* Every request stays in one waiting place. *)
LEMMA LinesStep ==
    ASSUME TypeOK, HomeShape, GateLine, WriteLine, WaitsInOnePlace, [Next]_vars
    PROVE  GateLine' /\ WriteLine'
<1> USE ConstAssumption
<1>1. CASE UNCHANGED <<queue, state, home, gateQ>>
  BY <1>1, WaitsSame
<1>2. ASSUME NEW r \in Req, Command(r) PROVE GateLine' /\ WriteLine'
  <2>1. cur \in Conn /\ state[r] = "none" /\ home' = [home EXCEPT ![r] = cur] /\ UNCHANGED gateQ
    BY <1>2 DEF TypeOK, Command, Reading
  <2>2. CASE r \in Read
    <3>1. state' = [state EXCEPT ![r] = "slot"] /\ UNCHANGED queue
      BY <1>2, <2>2 DEF Command
    <3> QED BY <2>1, <3>1, WaitsSame DEF TypeOK
  <2>3. CASE r \notin Read
    <3>1. /\ state' = [state EXCEPT ![r] = "queued"]
          /\ queue' = [queue EXCEPT ![cur] = Append(queue[cur], r)]
      BY <1>2, <2>3 DEF Command
    <3>2. GateLine'
      BY <2>1, <3>1 DEF TypeOK, GateLine
    <3>3. ~InSeq(r, queue[cur]) /\ queue[cur] \in Seq(Req) /\ Distinct(queue[cur])
      BY <2>1 DEF TypeOK, WriteLine
    <3>4. /\ Distinct(Append(queue[cur], r))
          /\ \A y : InSeq(y, Append(queue[cur], r)) <=> InSeq(y, queue[cur]) \/ y = r
      BY <3>3, AppendIn
    <3>5. \A c \in Conn : queue'[c] = IF c = cur THEN Append(queue[cur], r) ELSE queue[c]
      BY <3>1 DEF TypeOK
    <3>6. \A q \in Req : /\ state'[q] = IF q = r THEN "queued" ELSE state[q]
                         /\ home'[q] = IF q = r THEN cur ELSE home[q]
      BY <2>1, <3>1 DEF TypeOK
    <3>7. ASSUME NEW c \in Conn PROVE Distinct(queue'[c])
      BY <3>4, <3>5 DEF WriteLine
    <3>8. ASSUME NEW q \in Req, NEW c \in Conn
          PROVE  (state'[q] = "queued" /\ home'[q] = c) <=> InSeq(q, queue'[c])
      BY <2>1, <3>4, <3>5, <3>6 DEF WriteLine
    <3> QED BY <3>2, <3>7, <3>8 DEF WriteLine
  <2> QED BY <2>2, <2>3
<1>3. ASSUME NEW c \in Conn, TakeWrite(c) PROVE GateLine' /\ WriteLine'
  <2>1. PICK r \in Req : TookWrite(c, r)
    BY <1>3, TakeWriteEffect
  <2>2. queue[c] # <<>> /\ r = Head(queue[c]) /\ queue[c] \in Seq(Req) /\ Distinct(queue[c])
    BY <2>1 DEF TookWrite, TypeOK, WriteLine
  <2>3. /\ Distinct(Tail(queue[c]))
        /\ \A y : InSeq(y, Tail(queue[c])) <=> InSeq(y, queue[c]) /\ y # r
    BY <2>2, TailIn
  <2>4. \A d \in Conn : queue'[d] = IF d = c THEN Tail(queue[c]) ELSE queue[d]
    BY <2>1 DEF TookWrite, TypeOK
  <2>5. /\ state[r] = "queued" /\ home[r] = c /\ state'[r] \in {"none", "gate"}
        /\ \A q \in Req : q # r => state'[q] = state[q] /\ home'[q] = home[q]
    BY <2>1 DEF TookWrite, TypeOK
  <2>6. WriteLine'
    <3>1. ASSUME NEW d \in Conn PROVE Distinct(queue'[d])
      BY <2>3, <2>4 DEF WriteLine
    <3>2. ASSUME NEW q \in Req, NEW d \in Conn
          PROVE  (state'[q] = "queued" /\ home'[q] = d) <=> InSeq(q, queue'[d])
      <4>1. (state[q] = "queued" /\ home[q] = d) <=> InSeq(q, queue[d])
        BY DEF WriteLine
      <4> QED BY <4>1, <2>3, <2>4, <2>5
    <3> QED BY <3>1, <3>2 DEF WriteLine
  <2>7. GateLine'
    <3>1. CASE state' = [state EXCEPT ![r] = "none"] /\ UNCHANGED gateQ
      BY <2>5, <3>1 DEF GateLine, TypeOK
    <3>2. CASE state' = [state EXCEPT ![r] = "gate"] /\ gateQ' = Append(gateQ, r)
      BY <2>5, <3>2, JoinGate
    <3> QED BY <2>1, <3>1, <3>2 DEF TookWrite
  <2> QED BY <2>6, <2>7
<1>4. ASSUME NEW r \in Req, TakeSlot(r) PROVE GateLine' /\ WriteLine'
  <2>1. /\ state[r] = "slot" /\ state' = [state EXCEPT ![r] = "gate"]
        /\ gateQ' = Append(gateQ, r) /\ UNCHANGED <<home, queue>>
    BY <1>4 DEF TakeSlot, AwaitGate
  <2>2. GateLine'
    BY <2>1, JoinGate
  <2>3. WriteLine'
    BY <2>1 DEF WriteLine, TypeOK
  <2> QED BY <2>2, <2>3
<1>5. CASE Grant
  <2>1. gateQ # <<>> /\ gateQ \in Seq(Req) /\ Distinct(gateQ)
    BY <1>5 DEF Grant, GateLine, TypeOK
  <2>2. PICK r \in Req : r = Head(gateQ) /\ state[r] = "gate"
    BY <2>1, HeadWaits
  <2>3. state' = [state EXCEPT ![r] = "granted"] /\ gateQ' = Tail(gateQ) /\ UNCHANGED <<home, queue>>
    BY <1>5, <2>2 DEF Grant
  <2>4. Distinct(gateQ') /\ \A y : InSeq(y, gateQ') <=> InSeq(y, gateQ) /\ y # r
    BY <2>1, <2>2, <2>3, TailIn
  <2>5. GateLine'
    BY <2>3, <2>4 DEF GateLine, TypeOK
  <2>6. WriteLine'
    BY <2>2, <2>3 DEF WriteLine, TypeOK
  <2> QED BY <2>5, <2>6
<1>6. ASSUME NEW r \in Req, Start(r) \/ Finish(r) \/ Reply(r) PROVE GateLine' /\ WriteLine'
  <2>1. /\ state[r] \in {"granted", "running", "replying"}
        /\ state' = [state EXCEPT ![r] = "none"] \/ state' = [state EXCEPT ![r] = "running"]
             \/ state' = [state EXCEPT ![r] = "replying"]
        /\ UNCHANGED <<queue, gateQ>>
        /\ UNCHANGED home \/ home' = [home EXCEPT ![r] = NoConn]
    BY <1>6 DEF Start, Finish, Reply, Drop
  <2>2. \A q \in Req : /\ state'[q] = "gate" <=> state[q] = "gate"
                       /\ state'[q] = "queued" <=> state[q] = "queued"
                       /\ state[q] = "queued" => home'[q] = home[q]
    BY <2>1 DEF TypeOK
  <2> QED BY <2>1, <2>2, WaitsSame
<1>7. CASE ReaderReply \/ ReaderReplyFails \/ StreamEnds \/ StreamFails
  BY <1>1, <1>7 DEF ReaderReply, ReaderReplyFails, StreamEnds, StreamFails
<1>8. ASSUME NEW m \in {"Pong", "Unsupported"}, Solicit(m) PROVE GateLine' /\ WriteLine'
  BY <1>1, <1>8 DEF Solicit
<1>9. ASSUME NEW c \in Conn, Connect(c) \/ WriterStep(c) PROVE GateLine' /\ WriteLine'
  BY <1>1, <1>9 DEF Connect, WriterStep, WriterSends, WriterFails
<1>10. CASE UNCHANGED vars
  BY <1>1, <1>10 DEF vars
<1> QED BY <1>2, <1>3, <1>4, <1>5, <1>6, <1>7, <1>8, <1>9, <1>10 DEF Next, ReaderStep

(* The invariant as the run checks it. *)
LEMMA WaitsStep ==
    ASSUME TypeOK, HomeShape, WaitsInOnePlace, [Next]_vars
    PROVE  WaitsInOnePlace'
<1>1. GateLine /\ WriteLine
  BY DEF WaitsInOnePlace, GateLine, WriteLine, InSeq, Distinct
<1>2. GateLine' /\ WriteLine'
  BY <1>1, LinesStep
<1> QED BY <1>2 DEF WaitsInOnePlace, GateLine, WriteLine, InSeq, Distinct

(* A step after which a connection holds no slot it did not hold keeps the bound. *)
LEMMA SlotsShrink ==
    ASSUME SlotsBounded, \A c \in Conn : Slotted(c)' \subseteq Slotted(c)
    PROVE  SlotsBounded'
<1> SUFFICES ASSUME NEW c \in Conn PROVE Cardinality(Slotted(c)') <= MaxReads
  BY DEF SlotsBounded
<1>1. IsFiniteSet(Slotted(c))
  BY ConstAssumption, FS_Subset DEF Slotted
<1>2. /\ Cardinality(Slotted(c)') <= Cardinality(Slotted(c))
      /\ IsFiniteSet(Slotted(c)')
  BY <1>1, FS_Subset
<1>3. /\ Cardinality(Slotted(c)) \in Nat /\ Cardinality(Slotted(c)') \in Nat
      /\ MaxReads \in Nat /\ Cardinality(Slotted(c)) <= MaxReads
  BY <1>1, <1>2, FS_CardinalityType, ConstAssumption DEF SlotsBounded
<1> QED BY <1>2, <1>3

(* A slot is taken only while one is free. *)
LEMMA SlotsStep ==
    ASSUME TypeOK, HomeShape, WaitsInOnePlace, SlotsBounded, [Next]_vars
    PROVE  SlotsBounded'
<1> USE ConstAssumption
<1>1. CASE UNCHANGED <<state, home>>
  BY <1>1, SlotsShrink DEF Slotted
<1>2. ASSUME NEW r \in Req, Command(r) PROVE SlotsBounded'
  <2>1. /\ state[r] = "none" /\ home' = [home EXCEPT ![r] = cur]
        /\ state' = [state EXCEPT ![r] = "slot"] \/ state' = [state EXCEPT ![r] = "queued"]
    BY <1>2 DEF Command
  <2> QED BY <2>1, SlotsShrink DEF TypeOK, Slotted
<1>3. ASSUME NEW c \in Conn, TakeWrite(c) PROVE SlotsBounded'
  <2>1. PICK r \in Req : TookWrite(c, r)
    BY <1>3, TakeWriteEffect
  <2>2. r \notin Read /\ \A q \in Req : q # r => state'[q] = state[q] /\ home'[q] = home[q]
    BY <2>1 DEF TookWrite, TypeOK, HomeShape, Write
  <2> QED BY <2>2, SlotsShrink DEF Slotted
<1>4. ASSUME NEW r \in Req, TakeSlot(r) PROVE SlotsBounded'
  <2>1. /\ r \in Read /\ state[r] = "slot" /\ state' = [state EXCEPT ![r] = "gate"]
        /\ UNCHANGED home /\ Cardinality(Slotted(home[r])) < MaxReads
    BY <1>4 DEF TakeSlot, AwaitGate
  <2>2. SUFFICES ASSUME NEW c \in Conn PROVE Cardinality(Slotted(c)') <= MaxReads
    BY DEF SlotsBounded
  <2>3. CASE home[r] # c
    <3>1. Slotted(c)' = Slotted(c)
      BY <2>1, <2>3 DEF TypeOK, Slotted
    <3> QED BY <3>1 DEF SlotsBounded
  <2>4. CASE home[r] = c
    <3>1. Slotted(c)' = Slotted(c) \cup {r} /\ r \notin Slotted(c)
      BY <2>1, <2>4 DEF TypeOK, Slotted
    <3>2. IsFiniteSet(Slotted(c))
      BY FS_Subset DEF Slotted
    <3>3. Cardinality(Slotted(c)') = Cardinality(Slotted(c)) + 1
      BY <3>1, <3>2, FS_AddElement
    <3>4. Cardinality(Slotted(c)) \in Nat /\ Cardinality(Slotted(c)) < MaxReads
      BY <2>1, <2>4, <3>2, FS_CardinalityType
    <3> QED BY <3>3, <3>4
  <2> QED BY <2>3, <2>4
<1>5. CASE Grant
  <2>1. PICK r \in Req : r = Head(gateQ) /\ state[r] = "gate"
    BY <1>5, HeadWaits DEF Grant
  <2>2. state' = [state EXCEPT ![r] = "granted"] /\ UNCHANGED home
    BY <1>5, <2>1 DEF Grant
  <2> QED BY <2>1, <2>2, SlotsShrink DEF TypeOK, Slotted
<1>6. ASSUME NEW r \in Req, Start(r) \/ Finish(r) \/ Reply(r) PROVE SlotsBounded'
  <2>1. /\ state[r] \in {"granted", "running", "replying"}
        /\ \/ UNCHANGED home
           \/ state' = [state EXCEPT ![r] = "none"] /\ home' = [home EXCEPT ![r] = NoConn]
        /\ \/ state' = [state EXCEPT ![r] = "none"]
           \/ state' = [state EXCEPT ![r] = "running"]
           \/ state' = [state EXCEPT ![r] = "replying"]
    BY <1>6 DEF Start, Finish, Reply, Drop
  <2>2. \A c \in Conn : Slotted(c)' \subseteq Slotted(c)
    BY <2>1 DEF TypeOK, Slotted
  <2> QED BY <2>2, SlotsShrink
<1>7. CASE ReaderReply \/ ReaderReplyFails \/ StreamEnds \/ StreamFails
  BY <1>1, <1>7 DEF ReaderReply, ReaderReplyFails, StreamEnds, StreamFails
<1>8. ASSUME NEW m \in {"Pong", "Unsupported"}, Solicit(m) PROVE SlotsBounded'
  BY <1>1, <1>8 DEF Solicit
<1>9. ASSUME NEW c \in Conn, Connect(c) \/ WriterStep(c) PROVE SlotsBounded'
  BY <1>1, <1>9 DEF Connect, WriterStep, WriterSends, WriterFails
<1>10. CASE UNCHANGED vars
  BY <1>1, <1>10 DEF vars
<1> QED BY <1>2, <1>3, <1>4, <1>5, <1>6, <1>7, <1>8, <1>9, <1>10 DEF Next, ReaderStep

(* The agent starts with nothing under way. *)
LEMMA InitBase == Init => Base
<1> SUFFICES ASSUME Init PROVE Base
  OBVIOUS
<1> USE ConstAssumption
<1>1. TypeOK /\ HomeShape
  BY DEF Init, TypeOK, HomeShape, ReqState
<1>2. GateAlone
  BY DEF Init, GateAlone, Holding
<1>3. WaitsInOnePlace
  BY DEF Init, WaitsInOnePlace
<1>4. SlotsBounded
  <2> SUFFICES ASSUME NEW c \in Conn PROVE Cardinality(Slotted(c)) <= MaxReads
    BY DEF SlotsBounded
  <2>1. Slotted(c) = {}
    BY DEF Init, Slotted
  <2> QED BY <2>1, FS_EmptySet
<1> QED BY <1>1, <1>2, <1>3, <1>4 DEF Base

(* The inductive invariant: the gate, the lines and the slots need one another's
   types and homes, so they are kept together. *)
LEMMA Inductive == Spec => []Base
<1>1. Base /\ [Next]_vars => Base'
  BY TypeStep, HomeStep, GateStep, WaitsStep, SlotsStep DEF Base
<1> QED BY InitBase, <1>1, PTL DEF Spec

(* Every variable keeps its type. *)
THEOREM TypeCorrect == Spec => []TypeOK
<1>1. Base => TypeOK
  BY DEF Base
<1> QED BY Inductive, <1>1, PTL

(* exclusive_gate: no operation runs beside a write, whatever connection either
   came in on. *)
THEOREM WritesRunAloneAlways == Spec => []WritesRunAlone
<1>1. Base => WritesRunAlone
  BY DEF Base, GateAlone, WritesRunAlone, Holding, Running, Write
<1> QED BY Inductive, <1>1, PTL

(* The worker queue and the gate's line hold every waiting request once. *)
THEOREM WaitsInOnePlaceAlways == Spec => []WaitsInOnePlace
<1>1. Base => WaitsInOnePlace
  BY DEF Base
<1> QED BY Inductive, <1>1, PTL

(* MAX_CONCURRENT_READS bounds the reads a connection runs. *)
THEOREM ReadsBoundedAlways == Spec => []ReadsBounded
<1>1. Base => ReadsBounded
  <2> SUFFICES ASSUME Base, NEW c \in Conn
               PROVE  Cardinality({r \in Running \cap Read : home[r] = c}) <= MaxReads
    BY DEF ReadsBounded
  <2> DEFINE R == {r \in Running \cap Read : home[r] = c}
  <2>1. R \subseteq Slotted(c)
    BY DEF Running, Slotted
  <2>2. IsFiniteSet(Slotted(c))
    BY ConstAssumption, FS_Subset DEF Slotted
  <2>3. IsFiniteSet(R) /\ Cardinality(R) <= Cardinality(Slotted(c))
    BY <2>1, <2>2, FS_Subset
  <2>4. /\ Cardinality(R) \in Nat /\ Cardinality(Slotted(c)) \in Nat /\ MaxReads \in Nat
        /\ Cardinality(Slotted(c)) <= MaxReads
    BY <2>2, <2>3, FS_CardinalityType, ConstAssumption DEF Base, SlotsBounded
  <2> QED BY <2>3, <2>4
<1> QED BY Inductive, <1>1, PTL

(* How a connection ended and what its Serve knows of it: the one that is served is
   open, one that ended in order is closed, and a request came in on one that has
   been opened. *)
EndShape ==
    /\ cur # NoConn => life[cur] = "open"
    /\ \A c \in Conn : life[c] = "ended" => closed[c]
    /\ \A r \in Req : home[r] \in Conn => life[home[r]] # "unused"

(* The end of a connection, and every step of a task, keeps that shape. *)
LEMMA EndStep ==
    ASSUME Base, EndShape, [Next]_vars
    PROVE  EndShape'
<1> USE ConstAssumption DEF Base
<1>1. CASE ReaderReply
  BY <1>1 DEF TypeOK, EndShape, ReaderReply
<1>2. CASE ReaderReplyFails
  BY <1>2 DEF TypeOK, EndShape, ReaderReplyFails, CloseServe
<1>3. CASE StreamEnds
  BY <1>3 DEF TypeOK, EndShape, StreamEnds, CloseServe, Reading
<1>4. CASE StreamFails
  BY <1>4 DEF TypeOK, EndShape, StreamFails, Reading
<1>5. ASSUME NEW r \in Req, Command(r) PROVE EndShape'
  <2>1. cur \in Conn /\ home' = [home EXCEPT ![r] = cur] /\ life[cur] = "open"
    BY <1>5 DEF TypeOK, EndShape, Command, Reading
  <2>2. CASE closed[cur] /\ CloseServe
    BY <2>1, <2>2 DEF TypeOK, EndShape, CloseServe
  <2>3. CASE UNCHANGED connVars
    BY <2>1, <2>3 DEF TypeOK, EndShape, connVars
  <2> QED BY <1>5, <2>2, <2>3 DEF Command
<1>6. ASSUME NEW m \in {"Pong", "Unsupported"}, Solicit(m) PROVE EndShape'
  BY <1>6 DEF TypeOK, EndShape, Solicit
<1>7. ASSUME NEW c \in Conn, Connect(c) PROVE EndShape'
  BY <1>7 DEF TypeOK, EndShape, Connect
<1>8. ASSUME NEW c \in Conn, WriterSends(c) PROVE EndShape'
  BY <1>8 DEF TypeOK, EndShape, WriterSends, connVars
<1>9. ASSUME NEW c \in Conn, WriterFails(c) PROVE EndShape'
  BY <1>9 DEF TypeOK, EndShape, WriterFails
<1>10. ASSUME NEW c \in Conn, TakeWrite(c) PROVE EndShape'
  <2>1. PICK r \in Req : TookWrite(c, r)
    BY <1>10, TakeWriteEffect
  <2> QED BY <2>1 DEF TypeOK, EndShape, TookWrite
<1>11. ASSUME NEW r \in Req, TakeSlot(r) PROVE EndShape'
  BY <1>11 DEF TypeOK, EndShape, TakeSlot, AwaitGate, connVars
<1>12. ASSUME NEW r \in Req, Start(r) \/ Finish(r) \/ Reply(r) PROVE EndShape'
  <2>1. /\ UNCHANGED connVars
        /\ UNCHANGED home \/ home' = [home EXCEPT ![r] = NoConn]
    BY <1>12 DEF Start, Finish, Reply, Drop
  <2> QED BY <2>1 DEF TypeOK, EndShape, connVars
<1>13. CASE Grant
  BY <1>13 DEF TypeOK, EndShape, Grant, connVars
<1>14. CASE UNCHANGED vars
  BY <1>14 DEF TypeOK, EndShape, vars, connVars
<1> QED BY <1>1, <1>2, <1>3, <1>4, <1>5, <1>6, <1>7, <1>8, <1>9, <1>10, <1>11, <1>12, <1>13, <1>14
        DEF Next, ReaderStep, WriterStep

(* Only the task that holds the gate for a request starts it. *)
LEMMA StartedBy ==
    ASSUME Base, [Next]_vars, NEW r \in Req, state[r] = "granted", state'[r] = "running"
    PROVE  ~closed[home[r]]
<1> USE ConstAssumption DEF Base
<1>1. CASE UNCHANGED state
  BY <1>1 DEF TypeOK
<1>2. ASSUME NEW q \in Req, Command(q) PROVE ~closed[home[r]]
  BY <1>2 DEF TypeOK, Command
<1>3. ASSUME NEW c \in Conn, TakeWrite(c) PROVE ~closed[home[r]]
  <2>1. PICK q \in Req : TookWrite(c, q)
    BY <1>3, TakeWriteEffect
  <2>2. state'[r] # "running"
    BY <2>1 DEF TypeOK, TookWrite
  <2> QED BY <2>2
<1>4. ASSUME NEW q \in Req, TakeSlot(q) \/ Finish(q) \/ Reply(q) PROVE ~closed[home[r]]
  BY <1>4 DEF TypeOK, TakeSlot, AwaitGate, Finish, Reply, Drop
<1>5. ASSUME NEW q \in Req, Start(q) PROVE ~closed[home[r]]
  BY <1>5 DEF TypeOK, Start, Drop
<1>6. CASE Grant
  <2>1. PICK q \in Req : q = Head(gateQ) /\ state[q] = "gate"
    BY <1>6, HeadWaits DEF Grant
  <2> QED BY <1>6, <2>1 DEF TypeOK, Grant
<1>7. CASE ReaderReply \/ ReaderReplyFails \/ StreamEnds \/ StreamFails
  BY <1>1, <1>7 DEF ReaderReply, ReaderReplyFails, StreamEnds, StreamFails
<1>8. ASSUME NEW m \in {"Pong", "Unsupported"}, Solicit(m) PROVE ~closed[home[r]]
  BY <1>1, <1>8 DEF Solicit
<1>9. ASSUME NEW c \in Conn, Connect(c) \/ WriterStep(c) PROVE ~closed[home[r]]
  BY <1>1, <1>9 DEF Connect, WriterStep, WriterSends, WriterFails
<1> QED BY <1>1, <1>2, <1>3, <1>4, <1>5, <1>6, <1>7, <1>8, <1>9 DEF Next, ReaderStep, vars

(* Serve.closed: after the end of its connection no work starts, unless that end
   was a read error. *)
THEOREM LateOnlyAfterErrorAlways == Spec => LateOnlyAfterError
<1>1. Init => EndShape
  BY ConstAssumption DEF Init, EndShape
<1>2. Base /\ EndShape /\ [Next]_vars => EndShape'
  BY EndStep
<1>3. Base /\ EndShape /\ [Next]_vars
        => [\A r \in Req : state[r] = "granted" /\ state'[r] = "running"
                             => life[home[r]] \in {"open", "failed"}]_vars
  <2> SUFFICES ASSUME Base, EndShape, [Next]_vars, NEW r \in Req,
                      state[r] = "granted", state'[r] = "running"
               PROVE  life[home[r]] \in {"open", "failed"}
    OBVIOUS
  <2>1. ~closed[home[r]]
    BY StartedBy
  <2>2. home[r] \in Conn
    BY DEF Base, HomeShape
  <2> QED BY <2>1, <2>2 DEF Base, TypeOK, EndShape
<1> QED BY Inductive, <1>1, <1>2, <1>3, PTL DEF Spec, LateOnlyAfterError
=============================================================================
