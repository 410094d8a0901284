-------------------------- MODULE RemoteConnProofs --------------------------
(***************************************************************************)
(* Theorems about RemoteConn, for any set of calls, any number of request  *)
(* ids and any queue bound.                                                *)
(***************************************************************************)
EXTENDS RemoteConn, TLAPS

(***************************************************************************)
(* What each group of actions can touch is found in these definitions.     *)
(***************************************************************************)
LEMMA OpsType ==
  ASSUME ops \in [OpKinds -> Nat]
  PROVE  /\ \A a, b \in OpKinds : a # b /\ ops[a] > 0 => Move(a, b) \in [OpKinds -> Nat]
         /\ \A a \in OpKinds : ops[a] > 0 => [ops EXCEPT ![a] = @ - 1] \in [OpKinds -> Nat]
         /\ \A a \in OpKinds : [ops EXCEPT ![a] = @ + 1] \in [OpKinds -> Nat]
  BY DEF Move

LEMMA CancelType ==
  ASSUME NEW o \in [OpKinds -> Nat]
  PROVE  CancelTimer(o) \in [OpKinds -> Nat]
  BY DEF CancelTimer, OpKinds, TimerOps

LEMMA InitType == Init => TypeOK
  <1> SUFFICES ASSUME Init PROVE TypeOK
    OBVIOUS
  <1>1. ops \in [OpKinds -> Nat]
    BY DEF Init
  <1>2. next_req_id \in Ids
    BY ConstantsAssumption DEF Init, Ids, ConstantsAssumption
  <1>3. header \in [id : 0 .. MaxId, call : Calls \union {NoCall},
                    rest : {"bare", "body", "bad"}]
    BY ConstantsAssumption DEF Init, ConstantsAssumption
  <1>4. ticket \in [Calls -> 0 .. MaxId]
    BY ConstantsAssumption DEF Init, ConstantsAssumption
  <1>5. write_queue \in Seq(Frame)
    BY DEF Init
  <1> QED BY <1>1, <1>2, <1>3, <1>4, <1>5 DEF Init, TypeOK

(* Type correctness, one step per group of actions. *)
LEMMA CallType ==
  ASSUME TypeOK, NEW n \in Calls, Call(n)
  PROVE  TypeOK'
  <1> USE DEF TypeOK, callVars, tableVars, writeVars, ioVars, envVars, Ids
  <1>1. CASE Refuse(n)
    BY <1>1 DEF Refuse
  <1>2. CASE Register(n)
    BY <1>2, ConstantsAssumption DEF Register, NextId
  <1>3. CASE Submit(n)
    <2>1. RequestFrame(n, ticket[n]) \in Frame
      BY DEF RequestFrame, Frame
    <2>2. write_queue' \in Seq(Frame)
      BY <1>3, <2>1 DEF Submit, EnqueueWrite
    <2>3. ops' \in [OpKinds -> Nat]
      BY <1>3 DEF Submit, EnqueueWrite, OpKinds, WriteOps
    <2> QED BY <1>3, <2>2, <2>3 DEF Submit, EnqueueWrite
  <1>4. CASE Return(n)
    BY <1>4 DEF Return
  <1>5. CASE Timeout(n)
    BY <1>5 DEF Timeout, OpKinds
  <1> QED BY <1>1, <1>2, <1>3, <1>4, <1>5 DEF Call

(* on_disconnect() and the final drain keep the types. *)
LEMMA DrainType ==
  ASSUME TypeOK, Drain
  PROVE  /\ fut' \in [Calls -> {"none", "unset", "value", "error", "broken"}]
         /\ pending' \in [Ids -> Calls \union {NoCall}]
  BY DEF TypeOK, Drain

LEMMA DisconnectType ==
  ASSUME TypeOK, NEW o \in [OpKinds -> Nat], Disconnect(o),
         UNCHANGED <<pc, ticket, answer, result, next_req_id, writeVars,
                     io, header, envVars, life>>
  PROVE  TypeOK'
  <1>1. ops' \in [OpKinds -> Nat]
    BY CancelType DEF Disconnect
  <1> QED BY <1>1, DrainType DEF TypeOK, Disconnect, writeVars, envVars

LEMMA CompleteType ==
  ASSUME TypeOK, Complete
  PROVE  /\ fut' \in [Calls -> {"none", "unset", "value", "error", "broken"}]
         /\ answer' \in [Calls -> Calls \union {NoCall}]
         /\ pending' \in [Ids -> Calls \union {NoCall}]
  BY DEF TypeOK, Complete

LEMMA DoWriteType ==
  ASSUME TypeOK, NEW o \in [OpKinds -> Nat], DoWrite(o)
  PROVE  TypeOK'
  <1>1. ops' \in [OpKinds -> Nat]
    <2>1. "write" \in OpKinds
      BY DEF OpKinds, WriteOps
    <2> QED BY <2>1 DEF DoWrite
  <1> QED BY <1>1 DEF TypeOK, DoWrite, callVars, tableVars, envVars

LEMMA WriteHandlerType ==
  ASSUME TypeOK, FrontAlive, WriteHandler
  PROVE  TypeOK'
  <1> USE DEF Run
  <1>0. {"do_write", "writeOk", "writeErr"} \subseteq OpKinds
    BY DEF OpKinds, WriteOps
  <1>1. CASE OnDoWrite
    BY <1>0, <1>1, OpsType, DoWriteType DEF OnDoWrite, TypeOK
  <1>2. CASE OnWriteOk
    <2>1. write_queue' \in Seq(Frame)
      BY <1>2 DEF OnWriteOk, TypeOK, FrontAlive
    <2> QED BY <1>0, <1>2, <2>1, OpsType
            DEF OnWriteOk, TypeOK, callVars, tableVars, envVars
  <1>3. CASE AfterPop
    BY <1>3, DoWriteType DEF AfterPop, TypeOK
  <1>4. CASE OnWriteErr
    <2>1. [ops EXCEPT !["writeErr"] = @ - 1] \in [OpKinds -> Nat]
      BY <1>0, <1>4, OpsType DEF OnWriteErr, TypeOK
    <2> QED BY <1>4, <2>1, DisconnectType DEF OnWriteErr
  <1> QED BY <1>1, <1>2, <1>3, <1>4 DEF WriteHandler

LEMMA ReadHandlerType ==
  ASSUME TypeOK, ReadHandler
  PROVE  TypeOK'
  <1> USE DEF Run
  <1>0. ReadOps \subseteq OpKinds
    BY DEF OpKinds
  <1>1. CASE OnHeaderBad
    <2>1. [ops EXCEPT !["headerOk"] = @ - 1] \in [OpKinds -> Nat]
      BY <1>0, <1>1, OpsType DEF OnHeaderBad, ReadOps, TypeOK
    <2> QED BY <1>1, <2>1, DisconnectType DEF OnHeaderBad
  <1>2. CASE OnHeaderBare
    BY <1>0, <1>2, OpsType, CompleteType
       DEF OnHeaderBare, ReadOps, TypeOK, writeVars, envVars
  <1>3. CASE OnHeaderBody
    BY <1>0, <1>3, OpsType
       DEF OnHeaderBody, ReadOps, TypeOK, callVars, tableVars, writeVars, envVars
  <1>4. CASE OnPayload
    BY <1>0, <1>4, OpsType, CompleteType
       DEF OnPayload, ReadOps, TypeOK, writeVars, envVars
  <1>5. CASE OnReadErr
    <2>1. [ops EXCEPT !["readErr"] = @ - 1] \in [OpKinds -> Nat]
      BY <1>0, <1>5, OpsType DEF OnReadErr, ReadOps, TypeOK
    <2> QED BY <1>5, <2>1, DisconnectType DEF OnReadErr
  <1> QED BY <1>1, <1>2, <1>3, <1>4, <1>5 DEF ReadHandler

LEMMA OtherHandlerType ==
  ASSUME TypeOK, OnTimer \/ OnTimerCancelled \/ OnClose \/ OnShutdown
  PROVE  TypeOK'
  <1> USE DEF Run, TypeOK, callVars, tableVars, writeVars, envVars
  <1>0. TimerOps \union {"close", "shutdown", "do_write"} \subseteq OpKinds
    BY DEF OpKinds, WriteOps
  <1>1. CASE OnTimer
    <2>1. Move("timerOk", "timer") \in [OpKinds -> Nat]
      BY <1>0, <1>1, OpsType DEF OnTimer, TimerOps
    <2>2. ops' \in [OpKinds -> Nat]
      BY <1>0, <1>1, <2>1 DEF OnTimer, EnqueueWrite
    <2>3. write_queue' \in Seq(Frame)
      <3>1. Heartbeat \in Frame
        BY ConstantsAssumption DEF Heartbeat, Frame, ConstantsAssumption
      <3> QED BY <1>1, <3>1 DEF OnTimer, EnqueueWrite
    <2> QED BY <1>1, <2>2, <2>3 DEF OnTimer, EnqueueWrite
  <1>2. CASE OnTimerCancelled
    BY <1>0, <1>2, OpsType DEF OnTimerCancelled, TimerOps
  <1>3. CASE OnClose
    BY <1>0, <1>3, OpsType DEF OnClose
  <1>4. CASE OnShutdown
    BY <1>0, <1>4, OpsType, CancelType DEF OnShutdown
  <1> QED BY <1>1, <1>2, <1>3, <1>4

LEMMA DestructorType ==
  ASSUME TypeOK, Destructor
  PROVE  TypeOK'
  <1>1. CASE Destroy
    BY <1>1, OpsType
       DEF Destroy, TypeOK, OpKinds, callVars, tableVars, writeVars, envVars
  <1>2. CASE Join
    BY <1>2, DrainType DEF Join, TypeOK, writeVars, ioVars, envVars
  <1> QED BY <1>1, <1>2 DEF Destructor

LEMMA EnvironmentType ==
  ASSUME TypeOK, FrontAlive, Environment
  PROVE  TypeOK'
  <1> USE DEF TypeOK, callVars, tableVars, writeVars, ioVars, envVars
  <1>0. InProgress \union {"writeOk", "writeErr", "headerOk", "payloadOk",
                          "readErr", "timerOk"} \subseteq OpKinds
    BY DEF OpKinds, InProgress, WriteOps, ReadOps, TimerOps
  <1>h. ops["write"] > 0 => Head(write_queue) \in Frame
    BY DEF FrontAlive
  <1>1. CASE WriteCompletes
    BY <1>0, <1>h, <1>1, OpsType DEF WriteCompletes, InProgress
  <1>2. CASE WriteFails
    BY <1>0, <1>h, <1>2, OpsType DEF WriteFails, InProgress
  <1>3. CASE HeaderArrives
    <2>1. ops' \in [OpKinds -> Nat]
      BY <1>0, <1>3, OpsType DEF HeaderArrives, InProgress
    <2> QED BY <1>3, <2>1 DEF HeaderArrives, Frame
  <1>4. CASE GarbageArrives
    <2>1. ops' \in [OpKinds -> Nat]
      BY <1>0, <1>4, OpsType DEF GarbageArrives, InProgress
    <2> QED BY <1>4, <2>1, ConstantsAssumption
            DEF GarbageArrives, ConstantsAssumption
  <1>5. CASE PayloadArrives
    BY <1>0, <1>5, OpsType DEF PayloadArrives, InProgress
  <1>6. CASE ReadFails
    <2>1. PICK k \in {"header", "payload"} : ops[k] > 0 /\ ops' = Move(k, "readErr")
      BY <1>6 DEF ReadFails
    <2>2. ops' \in [OpKinds -> Nat]
      BY <1>0, <2>1, OpsType DEF InProgress
    <2> QED BY <1>6, <2>2 DEF ReadFails
  <1>7. CASE TimerExpires
    BY <1>0, <1>7, OpsType DEF TimerExpires, InProgress
  <1>8. CASE PeerFails
    BY <1>8 DEF PeerFails
  <1> QED BY <1>1, <1>2, <1>3, <1>4, <1>5, <1>6, <1>7, <1>8 DEF Environment

LEMMA NextType ==
  ASSUME TypeOK, FrontAlive, [Next]_vars
  PROVE  TypeOK'
  <1>1. CASE UNCHANGED vars
    BY <1>1 DEF TypeOK, vars, callVars, tableVars, writeVars, ioVars, envVars
  <1> QED
    BY <1>1, CallType, WriteHandlerType, ReadHandlerType, OtherHandlerType,
       DestructorType, EnvironmentType DEF Next, IoThread

-----------------------------------------------------------------------------
(***************************************************************************)
(* WriteChain.  The chain do_write -> async_write -> handler -> pop_front  *)
(* -> do_write is never doubled, so the handler pops the frame its own     *)
(* write was given: FrontAlive needs OneWriter, and TypeOK (the type of    *)
(* the queue after pop_front) needs FrontAlive.  Nor is the chain broken   *)
(* on a live connection (NoStalledQueue).                                  *)
(***************************************************************************)
(* What enqueue_write() does to the chain, called with the other counts left alone. *)
LEMMA EnqueueWriters ==
  ASSUME TypeOK, WriteChain, NEW f \in Frame, NEW o \in [OpKinds -> Nat],
         \A k \in WriteOps : o[k] = ops[k],
         EnqueueWrite(f, o), UNCHANGED <<io, connected>>
  PROVE  WriteChain'
  <1> USE DEF TypeOK, WriteChain, EnqueueWrite, WriteOps
  <1>0. WriteOps \subseteq OpKinds
    BY DEF OpKinds
  <1>1. OneWriter'
    BY <1>0 DEF OneWriter
  <1>2. FrontAlive'
    BY <1>0 DEF OneWriter, FrontAlive
  <1>3. NoStalledQueue'
    <2>1. CASE writing
      <3>1. \A k \in WriteOps : ops'[k] = ops[k]
        BY <2>1
      <3> QED BY <2>1, <3>1 DEF NoStalledQueue
    <2>2. CASE ~writing
      <3>1. ops'["do_write"] = o["do_write"] + 1 /\ o["do_write"] \in Nat
        BY <1>0, <2>2
      <3> QED BY <3>1 DEF NoStalledQueue
    <2> QED BY <2>1, <2>2
  <1> QED BY <1>1, <1>2, <1>3

(* Whoever leaves the chain and the queue alone. *)
LEMMA OtherWriters ==
  ASSUME WriteChain, \A k \in WriteOps : ops'[k] = ops[k],
         UNCHANGED <<writeVars, io>>, connected' => connected
  PROVE  WriteChain'
  BY DEF WriteChain, OneWriter, FrontAlive, NoStalledQueue, WriteOps, writeVars

LEMMA DisconnectOps ==
  ASSUME TypeOK, NEW o \in [OpKinds -> Nat], Disconnect(o)
  PROVE  \A k \in WriteOps \union ReadOps : ops'[k] = o[k]
  BY DEF Disconnect, CancelTimer, OpKinds, WriteOps, ReadOps, TimerOps

LEMMA CallWriters ==
  ASSUME TypeOK, WriteChain, NEW n \in Calls, Call(n)
  PROVE  WriteChain'
  <1> USE DEF TypeOK, ioVars, tableVars
  <1>0. CASE UNCHANGED <<ops, writeVars, io, connected>>
    BY <1>0, OtherWriters
  <1>1. CASE Submit(n)
    <2>1. RequestFrame(n, ticket[n]) \in Frame
      BY DEF RequestFrame, Frame
    <2> QED BY <1>1, <2>1, EnqueueWriters DEF Submit
  <1>2. CASE Timeout(n)
    <2>1. \A k \in WriteOps : ops'[k] = ops[k]
      BY <1>2 DEF Timeout, WriteOps, OpKinds
    <2> QED BY <1>2, <2>1, OtherWriters DEF Timeout
  <1> QED BY <1>0, <1>1, <1>2 DEF Call, Refuse, Register, Return

LEMMA DoWriteWriters ==
  ASSUME TypeOK, WriteChain, NEW o \in [OpKinds -> Nat], DoWrite(o), writing,
         \A k \in WriteOps : o[k] = 0
  PROVE  WriteChain'
  <1>0. WriteOps \subseteq OpKinds
    BY DEF OpKinds
  <1>1. CASE write_queue = <<>>
    <2>1. /\ \A k \in WriteOps : ops'[k] = 0
          /\ writing' \in BOOLEAN /\ io' = "idle"
      BY <1>1 DEF DoWrite
    <2>2. NoStalledQueue'
      BY <1>1 DEF DoWrite, NoStalledQueue
    <2> QED BY <2>1, <2>2 DEF WriteChain, OneWriter, FrontAlive, WriteOps
  <1>2. CASE write_queue # <<>>
    <2>1. /\ \A k \in WriteOps : ops'[k] = IF k = "write" THEN 1 ELSE 0
          /\ writing' /\ io' = "idle" /\ write_queue' = write_queue
      BY <1>0, <1>2 DEF DoWrite, WriteOps
    <2>2. OneWriter'
      BY <2>1 DEF OneWriter, WriteOps
    <2>3. FrontAlive'
      BY <1>2, <2>1 DEF FrontAlive
    <2>4. NoStalledQueue'
      BY <2>1 DEF NoStalledQueue, WriteOps
    <2> QED BY <2>2, <2>3, <2>4 DEF WriteChain
  <1> QED BY <1>1, <1>2

LEMMA WriteHandlerWriters ==
  ASSUME TypeOK, WriteChain, WriteHandler
  PROVE  WriteChain'
  <1> USE DEF Run
  <1>0. WriteOps \subseteq OpKinds /\ \A k \in WriteOps : ops[k] \in Nat
    BY DEF OpKinds, TypeOK
  <1>1. CASE OnDoWrite
    <2> DEFINE o == [ops EXCEPT !["do_write"] = @ - 1]
    <2>1. o \in [OpKinds -> Nat]
      BY <1>0, <1>1, OpsType DEF OnDoWrite, WriteOps, TypeOK
    <2>2. writing /\ \A k \in WriteOps : o[k] = 0
      BY <1>0, <1>1 DEF OnDoWrite, WriteOps, WriteChain, OneWriter, TypeOK
    <2>3. DoWrite(o)
      BY <1>1 DEF OnDoWrite
    <2> HIDE DEF o
    <2> QED BY <2>1, <2>2, <2>3, DoWriteWriters
  <1>2. CASE OnWriteOk
    <2>1. OneWriter' /\ FrontAlive'
      BY <1>0, <1>2 DEF OnWriteOk, WriteOps, WriteChain, OneWriter, FrontAlive, TypeOK
    <2>2. NoStalledQueue'
      BY <1>2 DEF OnWriteOk, NoStalledQueue
    <2> QED BY <2>1, <2>2 DEF WriteChain
  <1>3. CASE AfterPop
    <2>1. writing /\ \A k \in WriteOps : ops[k] = 0
      BY <1>0, <1>3 DEF AfterPop, WriteOps, WriteChain, OneWriter, TypeOK
    <2> QED BY <1>3, <2>1, DoWriteWriters DEF AfterPop, TypeOK
  <1>4. CASE OnWriteErr
    <2> DEFINE o == [ops EXCEPT !["writeErr"] = @ - 1]
    <2>1. o \in [OpKinds -> Nat]
      BY <1>0, <1>4, OpsType DEF OnWriteErr, WriteOps, TypeOK
    <2>2. \A k \in WriteOps : o[k] <= ops[k] /\ o[k] \in Nat
      BY <1>0, <2>1 DEF WriteOps, TypeOK
    <2>3. \A k \in WriteOps : ops'[k] = o[k]
      <3>1. Disconnect(o)
        BY <1>4 DEF OnWriteErr
      <3> HIDE DEF o
      <3> QED BY <2>1, <3>1, DisconnectOps
    <2> HIDE DEF o
    <2>4. UNCHANGED <<write_queue, writing, io>>
      BY <1>4 DEF OnWriteErr, writeVars
    <2>5. /\ \A k \in WriteOps : ops'[k] <= ops[k] /\ ops'[k] \in Nat /\ ops[k] \in Nat
          /\ write_queue' = write_queue /\ writing' = writing /\ io' = io
      BY <1>0, <2>2, <2>3, <2>4
    <2>6. OneWriter'
      BY <2>5 DEF WriteOps, WriteChain, OneWriter
    <2>7. FrontAlive'
      BY <2>5 DEF WriteOps, WriteChain, FrontAlive
    <2>8. NoStalledQueue'
      BY <1>4 DEF OnWriteErr, Disconnect, NoStalledQueue
    <2> QED BY <2>6, <2>7, <2>8 DEF WriteChain
  <1> QED BY <1>1, <1>2, <1>3, <1>4 DEF WriteHandler

LEMMA ReadHandlerWriters ==
  ASSUME TypeOK, WriteChain, ReadHandler
  PROVE  WriteChain'
  <1>0. WriteOps \union ReadOps \subseteq OpKinds
    BY DEF OpKinds
  <1>1. \A k \in WriteOps : ops'[k] = ops[k]
    <2>1. CASE OnHeaderBad
      <3>1. [ops EXCEPT !["headerOk"] = @ - 1] \in [OpKinds -> Nat]
        BY <1>0, <2>1, OpsType DEF OnHeaderBad, Run, ReadOps, TypeOK
      <3> QED BY <1>0, <2>1, <3>1, DisconnectOps DEF OnHeaderBad, WriteOps, TypeOK
    <2>2. CASE OnReadErr
      <3>1. [ops EXCEPT !["readErr"] = @ - 1] \in [OpKinds -> Nat]
        BY <1>0, <2>2, OpsType DEF OnReadErr, Run, ReadOps, TypeOK
      <3> QED BY <1>0, <2>2, <3>1, DisconnectOps DEF OnReadErr, WriteOps, TypeOK
    <2>3. CASE OnHeaderBare \/ OnHeaderBody \/ OnPayload
      BY <1>0, <2>3
         DEF OnHeaderBare, OnHeaderBody, OnPayload, Move, WriteOps, ReadOps, TypeOK
    <2> QED BY <2>1, <2>2, <2>3 DEF ReadHandler
  <1>2. UNCHANGED <<writeVars, io>> /\ (connected' => connected)
    BY DEF ReadHandler, OnHeaderBad, OnHeaderBare, OnHeaderBody, OnPayload, OnReadErr,
           Disconnect, tableVars
  <1> QED BY <1>1, <1>2, OtherWriters

LEMMA OtherHandlerWriters ==
  ASSUME TypeOK, WriteChain, OnTimer \/ OnTimerCancelled \/ OnClose \/ OnShutdown
  PROVE  WriteChain'
  <1>0. WriteOps \union TimerOps \union {"close", "shutdown"} \subseteq OpKinds
    BY DEF OpKinds
  <1>1. CASE OnTimer
    <2> DEFINE o == Move("timerOk", "timer")
    <2>1. o \in [OpKinds -> Nat]
      BY <1>0, <1>1, OpsType DEF OnTimer, Run, TimerOps, TypeOK
    <2>2. \A k \in WriteOps : o[k] = ops[k]
      BY <1>0 DEF Move, WriteOps, TypeOK
    <2>3. Heartbeat \in Frame
      BY ConstantsAssumption DEF Heartbeat, Frame, ConstantsAssumption
    <2>4. EnqueueWrite(Heartbeat, o) /\ UNCHANGED <<io, connected>>
      BY <1>1 DEF OnTimer, tableVars
    <2> HIDE DEF o
    <2> QED BY <2>1, <2>2, <2>3, <2>4, EnqueueWriters
  <1>2. CASE OnTimerCancelled \/ OnClose \/ OnShutdown
    <2>1. \A k \in WriteOps : ops'[k] = ops[k]
      BY <1>0, <1>2 DEF OnTimerCancelled, OnClose, OnShutdown, CancelTimer,
                        WriteOps, TimerOps, TypeOK
    <2> QED BY <1>2, <2>1, OtherWriters
            DEF OnTimerCancelled, OnClose, OnShutdown, tableVars
  <1> QED BY <1>1, <1>2

LEMMA DestructorWriters ==
  ASSUME TypeOK, WriteChain, Destructor
  PROVE  WriteChain'
  <1>1. \A k \in WriteOps : ops'[k] = ops[k]
    BY DEF Destructor, Destroy, Join, ioVars, WriteOps, OpKinds, TypeOK
  <1> QED BY <1>1, OtherWriters DEF Destructor, Destroy, Join, ioVars, tableVars

LEMMA EnvironmentWriters ==
  ASSUME TypeOK, WriteChain, Environment
  PROVE  WriteChain'
  <1>0. WriteOps \union ReadOps \union TimerOps \subseteq OpKinds
    BY DEF OpKinds
  <1>1. CASE WriteCompletes \/ WriteFails
    <2>1. ops["write"] > 0 /\ UNCHANGED <<writeVars, io>>
      BY <1>1 DEF WriteCompletes, WriteFails
    <2>2. \/ ops' = Move("write", "writeOk")
          \/ ops' = Move("write", "writeErr")
      BY <1>1 DEF WriteCompletes, WriteFails
    <2>3. \A k \in WriteOps : ops[k] \in Nat
      BY <1>0 DEF TypeOK
    <2>4. write_queue # <<>>
      BY <2>1 DEF WriteChain, FrontAlive
    <2>5. OneWriter' /\ NoStalledQueue'
      <3>1. CASE ops' = Move("write", "writeOk")
        <4>1. /\ ops'["do_write"] = ops["do_write"]
              /\ ops'["write"] = ops["write"] - 1
              /\ ops'["writeOk"] = ops["writeOk"] + 1
              /\ ops'["writeErr"] = ops["writeErr"]
          BY <1>0, <3>1 DEF Move, WriteOps, TypeOK
        <4>2. ops'["writeOk"] > 0
          BY <2>3, <4>1 DEF WriteOps
        <4>3. NoStalledQueue'
          BY <4>2 DEF NoStalledQueue, WriteOps
        <4> QED BY <2>1, <2>3, <4>1, <4>3 DEF WriteChain, OneWriter, WriteOps, writeVars
      <3>2. CASE ops' = Move("write", "writeErr")
        <4>1. /\ ops'["do_write"] = ops["do_write"]
              /\ ops'["write"] = ops["write"] - 1
              /\ ops'["writeOk"] = ops["writeOk"]
              /\ ops'["writeErr"] = ops["writeErr"] + 1
          BY <1>0, <3>2 DEF Move, WriteOps, TypeOK
        <4>2. ops'["writeErr"] > 0
          BY <2>3, <4>1 DEF WriteOps
        <4>3. NoStalledQueue'
          BY <4>2 DEF NoStalledQueue, WriteOps
        <4> QED BY <2>1, <2>3, <4>1, <4>3 DEF WriteChain, OneWriter, WriteOps, writeVars
      <3> QED BY <2>2, <3>1, <3>2
    <2> QED BY <2>1, <2>4, <2>5 DEF WriteChain, FrontAlive, writeVars
  <1>2. CASE HeaderArrives \/ GarbageArrives \/ PayloadArrives \/ ReadFails
             \/ TimerExpires \/ PeerFails
    <2>1. \A k \in WriteOps : ops'[k] = ops[k]
      <3>1. CASE HeaderArrives \/ GarbageArrives \/ PayloadArrives
        BY <1>0, <3>1
           DEF HeaderArrives, GarbageArrives, PayloadArrives, Move, WriteOps, ReadOps, TypeOK
      <3>2. CASE ReadFails
        BY <1>0, <3>2 DEF ReadFails, Move, WriteOps, ReadOps, TypeOK
      <3>3. CASE TimerExpires \/ PeerFails
        BY <1>0, <3>3 DEF TimerExpires, PeerFails, ioVars, Move, WriteOps, TimerOps, TypeOK
      <3> QED BY <1>2, <3>1, <3>2, <3>3
    <2> QED BY <1>2, <2>1, OtherWriters
            DEF HeaderArrives, GarbageArrives, PayloadArrives, ReadFails,
                TimerExpires, PeerFails, ioVars, tableVars
  <1> QED BY <1>1, <1>2 DEF Environment

LEMMA WriterInvariant == Spec => [](TypeOK /\ WriteChain)
  <1>1. Init => TypeOK /\ WriteChain
    <2>1. Init => WriteChain
      BY DEF Init, WriteChain, OneWriter, FrontAlive, NoStalledQueue,
             OpKinds, WriteOps, ReadOps, TimerOps
    <2> QED BY <2>1, InitType
  <1>2. TypeOK /\ WriteChain /\ [Next]_vars => (TypeOK /\ WriteChain)'
    <2> SUFFICES ASSUME TypeOK, WriteChain, [Next]_vars PROVE WriteChain'
      BY NextType DEF WriteChain
    <2>1. CASE UNCHANGED vars
      <3>1. \A k \in WriteOps : ops'[k] = ops[k]
        BY <2>1 DEF vars, ioVars
      <3> QED BY <2>1, <3>1, OtherWriters DEF vars, ioVars, tableVars
    <2> QED BY <2>1, CallWriters, WriteHandlerWriters, ReadHandlerWriters,
               OtherHandlerWriters, DestructorWriters, EnvironmentWriters
            DEF Next, IoThread
  <1> QED BY <1>1, <1>2, PTL DEF Spec

(* The state of a connection is always well formed. *)
THEOREM TypeCorrect == Spec => []TypeOK
  BY WriterInvariant, PTL

(* No two writes are ever under way on the socket (the flag writing_ and the  *)
(* queue are shared with every caller of enqueue_write()), the buffer of a    *)
(* write in progress is never popped under it, and a frame queued on a live   *)
(* connection has a writer on its way.                                        *)
THEOREM WriteChainHolds == Spec => []WriteChain
  BY WriterInvariant, PTL

-----------------------------------------------------------------------------
(***************************************************************************)
(* The pending table.  A call that has not begun owns no promise           *)
(* (StartIsNew): without it Register could store a promise twice.          *)
(***************************************************************************)
StartIsNew == \A n \in Calls : pc[n] = "start" => fut[n] = "none"

TableInv == DisconnectedIsDrained /\ NoLostPromise /\ PromisesSetOnce /\ StartIsNew

(* A step that leaves promises and table alone, and lets calls only proceed. *)
LEMMA OtherTable ==
  ASSUME TableInv, UNCHANGED <<fut, pending, connected>>,
         \A n \in Calls : /\ pc'[n] = "start" => pc[n] = "start"
                          /\ InSend(n)' => InSend(n)
  PROVE  TableInv'
  BY DEF TableInv, DisconnectedIsDrained, NoLostPromise, PromisesSetOnce, StartIsNew

(* Draining leaves no promise behind, whatever becomes of connected_. *)
LEMMA DrainTable ==
  ASSUME TypeOK, TableInv, Drain, UNCHANGED pc
  PROVE  TableInv'
  <1>1. \A i \in Ids : pending'[i] = NoCall
    BY DEF Drain
  <1>2. DisconnectedIsDrained' /\ PromisesSetOnce'
    BY <1>1 DEF DisconnectedIsDrained, PromisesSetOnce
  <1>3. NoLostPromise'
    BY DEF TypeOK, TableInv, NoLostPromise, InSend, Drain
  <1>4. StartIsNew'
    <2> SUFFICES ASSUME NEW n \in Calls, pc[n] = "start"
                 PROVE  fut'[n] = "none"
      BY DEF StartIsNew
    <2>1. fut[n] = "none"
      BY DEF TableInv, StartIsNew
    <2>2. ~ \E i \in Ids : pending[i] = n
      BY <2>1, ConstantsAssumption DEF TableInv, PromisesSetOnce, ConstantsAssumption
    <2> QED BY <2>1, <2>2 DEF Drain
  <1> QED BY <1>2, <1>3, <1>4 DEF TableInv

LEMMA CompleteTable ==
  ASSUME TypeOK, TableInv, Complete, UNCHANGED <<pc, connected>>
  PROVE  TableInv'
  <1>1. CASE UNCHANGED <<fut, pending>>
    BY <1>1, OtherTable DEF InSend
  <1>2. CASE header.id # 0 /\ pending[header.id] # NoCall
    <2> DEFINE i == header.id
               n == pending[i]
    <2>1. i \in Ids /\ n \in Calls
      BY <1>2, ConstantsAssumption DEF TypeOK, Ids, ConstantsAssumption
    <2>2. fut' = [fut EXCEPT ![n] = "value"] /\ pending' = [pending EXCEPT ![i] = NoCall]
      BY <1>2 DEF Complete
    <2> HIDE DEF i, n
    <2>3. fut[n] = "unset" /\ \A j \in Ids : pending[j] = n => j = i
      BY <1>2, <2>1 DEF TableInv, PromisesSetOnce, i, n
    <2>4. DisconnectedIsDrained' /\ StartIsNew'
      BY <2>1, <2>2, <2>3 DEF TypeOK, TableInv, DisconnectedIsDrained, StartIsNew
    <2>5. PromisesSetOnce'
      BY <2>1, <2>2, <2>3 DEF TypeOK, TableInv, PromisesSetOnce
    <2>6. NoLostPromise'
      BY <2>1, <2>2, <2>3, n = pending[i] DEF TypeOK, TableInv, NoLostPromise, InSend, n
    <2> QED BY <2>4, <2>5, <2>6 DEF TableInv
  <1> QED BY <1>1, <1>2 DEF Complete

LEMMA RegisterTable ==
  ASSUME TypeOK, TableInv, NEW n \in Calls, Register(n)
  PROVE  TableInv'
  <1> DEFINE i == next_req_id
  <1>1. i \in Ids /\ connected /\ connected' /\ pc[n] = "start" /\ fut[n] = "none"
    BY DEF Register, TypeOK, TableInv, StartIsNew
  <1>2. /\ pc' = [pc EXCEPT ![n] = "registered"]
        /\ pending' = [pending EXCEPT ![i] = n]
        /\ fut' = [m \in Calls |-> IF m = n THEN "unset"
                                    ELSE IF m = pending[i] THEN "broken" ELSE fut[m]]
    BY DEF Register
  <1> HIDE DEF i
  <1>3. n # NoCall /\ \A j \in Ids : pending[j] # n
    BY <1>1, ConstantsAssumption DEF TableInv, PromisesSetOnce, ConstantsAssumption
  <1>4. DisconnectedIsDrained' /\ StartIsNew'
    <2>1. DisconnectedIsDrained'
      BY <1>1 DEF DisconnectedIsDrained
    <2>2. ASSUME NEW m \in Calls, pc'[m] = "start" PROVE fut'[m] = "none"
      <3>1. m # n /\ fut[m] = "none"
        BY <1>1, <1>2, <2>2 DEF TypeOK, TableInv, StartIsNew
      <3>2. m # pending[i]
        BY <1>1, <3>1, ConstantsAssumption
           DEF TableInv, PromisesSetOnce, ConstantsAssumption
      <3> QED BY <1>2, <3>1, <3>2
    <2> QED BY <2>1, <2>2 DEF StartIsNew
  <1>5. PromisesSetOnce'
    <2> SUFFICES ASSUME NEW j \in Ids, NEW k \in Ids, pending'[j] # NoCall
                 PROVE  /\ fut'[pending'[j]] = "unset"
                        /\ pending'[j] = pending'[k] => j = k
      BY DEF PromisesSetOnce
    <2>1. CASE j = i
      BY <1>1, <1>2, <1>3, <2>1 DEF TypeOK
    <2>2. CASE j # i
      <3>1. pending'[j] = pending[j] /\ pending[j] \in Calls
        BY <1>2, <2>2 DEF TypeOK
      <3>2. fut[pending[j]] = "unset" /\ pending[j] # pending[i]
        BY <1>1, <2>2, <3>1 DEF TableInv, PromisesSetOnce
      <3> QED BY <1>1, <1>2, <1>3, <2>2, <3>1, <3>2 DEF TableInv, PromisesSetOnce, TypeOK
    <2> QED BY <2>1, <2>2
  <1>6. NoLostPromise'
    <2> SUFFICES ASSUME NEW m \in Calls, InSend(m)', fut'[m] = "unset"
                 PROVE  \E j \in Ids : pending'[j] = m
      BY DEF NoLostPromise
    <2>1. CASE m = n
      BY <1>1, <1>2, <2>1 DEF TypeOK
    <2>2. CASE m # n
      <3>1. InSend(m) /\ fut[m] = "unset" /\ m # pending[i]
        BY <1>2, <2>2 DEF InSend, TypeOK
      <3>2. PICK j \in Ids : pending[j] = m
        BY <3>1 DEF TableInv, NoLostPromise
      <3> QED BY <1>2, <3>1, <3>2 DEF TypeOK
    <2> QED BY <2>1, <2>2
  <1> QED BY <1>4, <1>5, <1>6 DEF TableInv

LEMMA NextTable ==
  ASSUME TypeOK, TableInv, [Next]_vars
  PROVE  TableInv'
  <1>1. ASSUME NEW n \in Calls, Call(n) PROVE TableInv'
    <2>1. CASE Register(n)
      BY <2>1, RegisterTable
    <2>2. CASE Refuse(n) \/ Submit(n) \/ Return(n) \/ Timeout(n)
      BY <2>2, OtherTable
         DEF Refuse, Submit, Return, Timeout, tableVars, InSend, TypeOK
    <2> QED BY <1>1, <2>1, <2>2 DEF Call
  <1>2. CASE OnWriteErr \/ OnHeaderBad \/ OnReadErr
    BY <1>2, DrainTable DEF OnWriteErr, OnHeaderBad, OnReadErr, Disconnect
  <1>3. CASE Join
    BY <1>3, DrainTable DEF Join
  <1>4. CASE OnHeaderBare \/ OnPayload
    BY <1>4, CompleteTable DEF OnHeaderBare, OnPayload
  <1>5. CASE UNCHANGED <<callVars, tableVars>>
    BY <1>5, OtherTable DEF callVars, tableVars, InSend
  <1>6. OnDoWrite \/ OnWriteOk \/ AfterPop \/ OnHeaderBody \/ OnTimer
          \/ OnTimerCancelled \/ OnClose \/ OnShutdown \/ Destroy \/ Environment
        => UNCHANGED <<callVars, tableVars>>
    BY DEF OnDoWrite, OnWriteOk, AfterPop, DoWrite, OnHeaderBody, OnTimer,
           OnTimerCancelled, OnClose, OnShutdown, Destroy, Environment,
           WriteCompletes, WriteFails, HeaderArrives, GarbageArrives,
           PayloadArrives, ReadFails, TimerExpires, PeerFails
  <1> QED BY <1>1, <1>2, <1>3, <1>4, <1>5, <1>6
          DEF Next, IoThread, WriteHandler, ReadHandler, Destructor, vars

LEMMA TableInvariant == Spec => []TableInv
  <1>1. Init => TableInv
    BY DEF Init, TableInv, DisconnectedIsDrained, NoLostPromise, PromisesSetOnce,
           StartIsNew, InSend
  <1>2. TypeOK /\ TableInv /\ [Next]_vars => TableInv'
    BY NextTable
  <1> QED BY <1>1, <1>2, TypeCorrect, PTL DEF Spec

(* The pledge of the comments at remote_conn.cpp:83-85 and 218-219: whoever     *)
(* waits in send_request() with an unset future can still be found through      *)
(* pending_, and on_disconnect() leaves nothing there, now or later.            *)
THEOREM PendingComplete == Spec => []PendingIsComplete
  <1>1. TableInv => PendingIsComplete
    BY DEF TableInv, PendingIsComplete
  <1> QED BY <1>1, TableInvariant, PTL

(* set_value() is never called twice on a promise: it would throw on the IO thread. *)
THEOREM PromisesSetAtMostOnce == Spec => []PromisesSetOnce
  <1>1. TableInv => PromisesSetOnce
    BY DEF TableInv
  <1> QED BY <1>1, TableInvariant, PTL

-----------------------------------------------------------------------------
(***************************************************************************)
(* LinkWatched.  The timer of a live connection is cancelled only together *)
(* with connected_, or by the closure the destructor posted (ShutdownLast).*)
(***************************************************************************)
ShutdownLast == ops["shutdown"] > 0 => life # "live"

Watch == LinkWatched /\ ShutdownLast

\* The operations Watch speaks of.
Watched == ReadOps \union {"timer", "timerOk", "shutdown"}

(* Whoever leaves them alone. *)
LEMMA OtherWatch ==
  ASSUME Watch, \A k \in Watched : ops'[k] = ops[k],
         connected' => connected, life' = life
  PROVE  Watch'
  BY DEF Watch, Watched, LinkWatched, OneReader, OneHeartbeat, ShutdownLast, ReadOps

(* on_disconnect(), called by a handler that was at most part of the pipeline. *)
LEMMA DisconnectWatch ==
  ASSUME TypeOK, Watch, NEW o \in [OpKinds -> Nat], Disconnect(o), life' = life,
         \A k \in Watched : o[k] <= ops[k]
  PROVE  Watch'
  <1>0. Watched \subseteq OpKinds
    BY DEF Watched, OpKinds, TimerOps
  <1>1. \A k \in Watched : ops[k] \in Nat /\ o[k] \in Nat
    BY <1>0 DEF TypeOK
  <1>2. \A k \in Watched : ops'[k] = IF k = "timer" THEN 0 ELSE o[k]
    BY <1>0 DEF Disconnect, CancelTimer, Watched, OpKinds, ReadOps
  <1>3. \A k \in Watched : ops'[k] \in Nat /\ ops[k] \in Nat /\ ops'[k] <= ops[k]
    BY <1>1, <1>2
  <1>4. ~connected'
    BY DEF Disconnect
  <1> QED BY <1>3, <1>4
          DEF Watch, Watched, LinkWatched, OneReader, OneHeartbeat, ShutdownLast, ReadOps

(* The pipeline goes on with the operation b after a, or the timer does. *)
LEMMA MoveWatch ==
  ASSUME TypeOK, Watch, UNCHANGED <<connected, life>>,
         NEW a, NEW b, a # b, ops[a] > 0, ops' = Move(a, b),
         \/ a \in ReadOps /\ b \in ReadOps
         \/ a = "timer" /\ b = "timerOk"
  PROVE  Watch'
  <1>0. Watched \subseteq OpKinds /\ \A k \in Watched : ops[k] \in Nat
    BY DEF Watched, OpKinds, TimerOps, TypeOK
  <1>1. \A k \in Watched : ops'[k] = IF k = a THEN ops[k] - 1
                                     ELSE IF k = b THEN ops[k] + 1 ELSE ops[k]
    BY <1>0 DEF Move, TypeOK
  <1>2. CASE a \in ReadOps /\ b \in ReadOps
    <2>1. /\ ops["header"] \in Nat
          /\ ops["headerOk"] \in Nat
          /\ ops["payload"] \in Nat
          /\ ops["payloadOk"] \in Nat
          /\ ops["readErr"] \in Nat
      BY <1>0 DEF Watched, ReadOps
    <2>2. /\ ops'["header"] = IF a = "header" THEN ops["header"] - 1 ELSE IF b = "header" THEN ops["header"] + 1 ELSE ops["header"]
          /\ ops'["headerOk"] = IF a = "headerOk" THEN ops["headerOk"] - 1 ELSE IF b = "headerOk" THEN ops["headerOk"] + 1 ELSE ops["headerOk"]
          /\ ops'["payload"] = IF a = "payload" THEN ops["payload"] - 1 ELSE IF b = "payload" THEN ops["payload"] + 1 ELSE ops["payload"]
          /\ ops'["payloadOk"] = IF a = "payloadOk" THEN ops["payloadOk"] - 1 ELSE IF b = "payloadOk" THEN ops["payloadOk"] + 1 ELSE ops["payloadOk"]
          /\ ops'["readErr"] = IF a = "readErr" THEN ops["readErr"] - 1 ELSE IF b = "readErr" THEN ops["readErr"] + 1 ELSE ops["readErr"]
      BY <1>1, <1>2 DEF Watched, ReadOps
    <2>3. OneReader'
      BY <1>2, <2>1, <2>2 DEF Watch, LinkWatched, OneReader, ReadOps
    <2>4. \A k \in {"timer", "timerOk", "shutdown"} : ops'[k] = ops[k]
      BY <1>1, <1>2 DEF Watched, ReadOps
    <2>5. OneHeartbeat' /\ ShutdownLast'
      BY <2>4 DEF Watch, LinkWatched, OneHeartbeat, ShutdownLast
    <2> QED BY <2>3, <2>5 DEF Watch, LinkWatched
  <1>3. CASE a = "timer" /\ b = "timerOk"
    <2>1. \A k \in ReadOps \union {"shutdown"} : ops'[k] = ops[k]
      BY <1>1, <1>3 DEF Watched, ReadOps
    <2>2. OneReader'
      BY <2>1 DEF Watch, LinkWatched, OneReader, ReadOps
    <2>3. /\ ops["timer"] \in Nat /\ ops["timerOk"] \in Nat
          /\ ops'["timer"] = ops["timer"] - 1
          /\ ops'["timerOk"] = ops["timerOk"] + 1
      BY <1>0, <1>1, <1>3 DEF Watched
    <2>4. OneHeartbeat' /\ ShutdownLast'
      BY <2>1, <2>3 DEF Watch, LinkWatched, OneHeartbeat, ShutdownLast
    <2> QED BY <2>2, <2>4 DEF Watch, LinkWatched
  <1> QED BY <1>2, <1>3

LEMMA CallWatch ==
  ASSUME TypeOK, Watch, NEW n \in Calls, Call(n)
  PROVE  Watch'
  <1>1. \A k \in Watched : ops'[k] = ops[k]
    BY DEF Call, Refuse, Register, Submit, Return, Timeout, EnqueueWrite, TypeOK,
           Watched, OpKinds, ReadOps, TimerOps, ioVars
  <1> QED BY <1>1, OtherWatch
          DEF Call, Refuse, Register, Submit, Return, Timeout, tableVars

LEMMA WriteHandlerWatch ==
  ASSUME TypeOK, Watch, WriteHandler
  PROVE  Watch'
  <1>1. CASE OnDoWrite \/ OnWriteOk \/ AfterPop
    <2>0. /\ Watched \intersect {"do_write", "writeOk", "write"} = {}
          /\ Watched \subseteq OpKinds
      BY DEF Watched, ReadOps, OpKinds, TimerOps
    <2>1. \A k \in Watched : ops'[k] = ops[k]
      <3>1. CASE OnDoWrite
        BY <2>0, <3>1 DEF OnDoWrite, DoWrite, TypeOK
      <3>2. CASE OnWriteOk
        BY <2>0, <3>2 DEF OnWriteOk, TypeOK
      <3>3. CASE AfterPop
        BY <2>0, <3>3 DEF AfterPop, DoWrite, TypeOK
      <3> QED BY <1>1, <3>1, <3>2, <3>3
    <2> QED BY <1>1, <2>1, OtherWatch
            DEF OnDoWrite, OnWriteOk, AfterPop, DoWrite, tableVars
  <1>2. CASE OnWriteErr
    <2> DEFINE o == [ops EXCEPT !["writeErr"] = @ - 1]
    <2>1. o \in [OpKinds -> Nat]
      BY <1>2, OpsType DEF OnWriteErr, Run, OpKinds, WriteOps, TypeOK
    <2>2. \A k \in Watched : o[k] = ops[k] /\ ops[k] \in Nat
      BY DEF Watched, OpKinds, ReadOps, TimerOps, TypeOK
    <2>3. Disconnect(o) /\ life' = life
      BY <1>2 DEF OnWriteErr
    <2> HIDE DEF o
    <2>4. \A k \in Watched : o[k] <= ops[k]
      BY <2>2
    <2> QED BY <2>1, <2>3, <2>4, DisconnectWatch
  <1> QED BY <1>1, <1>2 DEF WriteHandler

LEMMA ReadHandlerWatch ==
  ASSUME TypeOK, Watch, ReadHandler
  PROVE  Watch'
  <1>0. Watched \subseteq OpKinds /\ \A k \in Watched : ops[k] \in Nat
    BY DEF Watched, OpKinds, TimerOps, TypeOK
  <1>1. ASSUME NEW k \in {"headerOk", "readErr"}, ops[k] > 0, life' = life,
               Disconnect([ops EXCEPT ![k] = @ - 1])
        PROVE  Watch'
    <2> DEFINE o == [ops EXCEPT ![k] = @ - 1]
    <2>1. o \in [OpKinds -> Nat]
      BY <1>1, OpsType DEF OpKinds, ReadOps, TypeOK
    <2>2. \A j \in Watched : o[j] <= ops[j]
      BY <1>0 DEF TypeOK
    <2>3. Disconnect(o)
      BY <1>1
    <2> HIDE DEF o
    <2> QED BY <1>1, <2>1, <2>2, <2>3, DisconnectWatch
  <1>2. CASE OnHeaderBad \/ OnReadErr
    BY <1>1, <1>2 DEF OnHeaderBad, OnReadErr, Run
  <1>3. CASE OnHeaderBare \/ OnHeaderBody \/ OnPayload
    BY <1>3, MoveWatch
       DEF OnHeaderBare, OnHeaderBody, OnPayload, Run, ReadOps, tableVars
  <1> QED BY <1>2, <1>3 DEF ReadHandler

LEMMA OtherHandlerWatch ==
  ASSUME TypeOK, Watch, OnTimer \/ OnTimerCancelled \/ OnClose \/ OnShutdown
  PROVE  Watch'
  <1>0. Watched \subseteq OpKinds /\ \A k \in Watched : ops[k] \in Nat
    BY DEF Watched, OpKinds, TimerOps, TypeOK
  <1>1. CASE OnTimer
    <2>1. \A k \in Watched : ops'[k] = Move("timerOk", "timer")[k]
      BY <1>0, <1>1 DEF OnTimer, EnqueueWrite, Move, TypeOK,
                        Watched, OpKinds, ReadOps, TimerOps
    <2>2. \A k \in Watched : ops'[k] = IF k = "timerOk" THEN ops[k] - 1
                                       ELSE IF k = "timer" THEN ops[k] + 1 ELSE ops[k]
      BY <1>0, <2>1 DEF Move, TypeOK
    <2>3. UNCHANGED <<connected, life>>
      BY <1>1 DEF OnTimer, tableVars
    <2>4. OneReader'
      BY <2>2, <2>3 DEF Watch, Watched, LinkWatched, OneReader, ReadOps
    <2>5. OneHeartbeat' /\ ShutdownLast'
      BY <1>0, <2>2, <2>3 DEF Watch, Watched, LinkWatched, OneHeartbeat, ShutdownLast
    <2> QED BY <2>4, <2>5 DEF Watch, LinkWatched
  <1>2. CASE OnTimerCancelled \/ OnClose
    <2>1. \A k \in Watched : ops'[k] = ops[k]
      BY <1>2 DEF OnTimerCancelled, OnClose, TypeOK, Watched, OpKinds, ReadOps, TimerOps
    <2> QED BY <1>2, <2>1, OtherWatch DEF OnTimerCancelled, OnClose, tableVars
  <1>3. CASE OnShutdown
    <2>1. /\ \A k \in ReadOps \union {"timerOk"} : ops'[k] = ops[k]
          /\ ops'["timer"] = 0
      BY <1>3 DEF OnShutdown, CancelTimer, TypeOK, OpKinds, ReadOps, TimerOps
    <2>2. life # "live" /\ UNCHANGED <<connected, life>>
      BY <1>3 DEF OnShutdown, Run, Watch, ShutdownLast, tableVars
    <2>3. OneReader'
      BY <2>1, <2>2 DEF Watch, LinkWatched, OneReader, ReadOps
    <2>4. OneHeartbeat'
      BY <1>0, <2>1, <2>2 DEF Watch, Watched, LinkWatched, OneHeartbeat
    <2> QED BY <2>2, <2>3, <2>4 DEF Watch, LinkWatched, ShutdownLast
  <1> QED BY <1>1, <1>2, <1>3

LEMMA DestructorWatch ==
  ASSUME TypeOK, Watch, Destructor
  PROVE  Watch'
  <1>1. \A k \in Watched \ {"shutdown"} : ops'[k] = ops[k]
    BY DEF Destructor, Destroy, Join, ioVars, TypeOK, Watched, OpKinds, ReadOps, TimerOps
  <1>2. connected' = connected /\ life' # "live"
    BY DEF Destructor, Destroy, Join, tableVars
  <1> QED BY <1>1, <1>2
          DEF Watch, Watched, LinkWatched, OneReader, OneHeartbeat, ShutdownLast, ReadOps

LEMMA EnvironmentWatch ==
  ASSUME TypeOK, Watch, Environment
  PROVE  Watch'
  <1>0. UNCHANGED <<connected, life>>
    BY DEF Environment, WriteCompletes, WriteFails, HeaderArrives, GarbageArrives,
           PayloadArrives, ReadFails, TimerExpires, PeerFails, tableVars
  <1>1. CASE WriteCompletes \/ WriteFails \/ PeerFails
    <2>1. \A k \in Watched : ops'[k] = ops[k]
      BY <1>1 DEF WriteCompletes, WriteFails, PeerFails, Move, ioVars, TypeOK,
                  Watched, OpKinds, ReadOps, TimerOps
    <2> QED BY <1>0, <2>1, OtherWatch
  <1>2. CASE HeaderArrives \/ GarbageArrives \/ PayloadArrives
    BY <1>0, <1>2, MoveWatch
       DEF HeaderArrives, GarbageArrives, PayloadArrives, ReadOps
  <1>3. CASE ReadFails
    <2>1. PICK k \in {"header", "payload"} : ops[k] > 0 /\ ops' = Move(k, "readErr")
      BY <1>3 DEF ReadFails
    <2> QED BY <1>0, <2>1, MoveWatch DEF ReadOps
  <1>4. CASE TimerExpires
    BY <1>0, <1>4, MoveWatch DEF TimerExpires
  <1> QED BY <1>1, <1>2, <1>3, <1>4 DEF Environment

LEMMA WatchInvariant == Spec => []Watch
  <1>1. Init => Watch
    BY DEF Init, Watch, LinkWatched, OneReader, OneHeartbeat, ShutdownLast,
           OpKinds, WriteOps, ReadOps, TimerOps
  <1>2. TypeOK /\ Watch /\ [Next]_vars => Watch'
    <2> SUFFICES ASSUME TypeOK, Watch, [Next]_vars PROVE Watch'
      OBVIOUS
    <2>1. CASE UNCHANGED vars
      <3>1. \A k \in Watched : ops'[k] = ops[k]
        BY <2>1 DEF vars, ioVars
      <3> QED BY <2>1, <3>1, OtherWatch DEF vars, tableVars
    <2> QED BY <2>1, CallWatch, WriteHandlerWatch, ReadHandlerWatch,
               OtherHandlerWatch, DestructorWatch, EnvironmentWatch
            DEF Next, IoThread
  <1> QED BY <1>1, <1>2, TypeCorrect, PTL DEF Spec

(* A live connection always has its one read outstanding, and its heartbeat    *)
(* armed or due: the end of the link cannot go unnoticed (start_read() and      *)
(* schedule_heartbeat() are called again on every path that keeps connected_).  *)
THEOREM LinkAlwaysWatched == Spec => []LinkWatched
  <1>1. Watch => LinkWatched
    BY DEF Watch
  <1> QED BY <1>1, WatchInvariant, PTL

-----------------------------------------------------------------------------
(***************************************************************************)
(* RemoteConn implements RequestReply, for any set of calls and any number *)
(* of request ids, as long as no id comes round again while its request is *)
(* outstanding (SlowWrap).                                                 *)
(***************************************************************************)
\* What the theorems of RemoteConnProofs give of every reachable state.
Known == TypeOK /\ WriteChain /\ TableInv /\ LinkWatched

LEMMA AlwaysKnown == Spec => []Known
  BY WriterInvariant, TableInvariant, LinkAlwaysWatched, PTL DEF Known

(***************************************************************************)
(* The calls: an unset future is one that pending_ still holds, also after *)
(* its caller has given up, and no caller was told anything before he      *)
(* returned.                                                               *)
(***************************************************************************)
OpenIsPending == \A n \in Calls : fut[n] = "unset" => \E i \in Ids : pending[i] = n
NoneBroken == \A n \in Calls : fut[n] # "broken"
AskedHasFuture == \A n \in Calls : InSend(n) => fut[n] # "none"
ToldOnReturn == \A n \in Calls : pc[n] # "done" => result[n] = "none"

CallInv == OpenIsPending /\ NoneBroken /\ AskedHasFuture /\ ToldOnReturn

LEMMA DrainCalls ==
  ASSUME Known, CallInv, Drain, UNCHANGED <<pc, result>>
  PROVE  CallInv'
  <1>1. OpenIsPending'
    BY DEF Drain, CallInv, OpenIsPending, Known, TypeOK
  <1> QED BY <1>1 DEF Drain, CallInv, NoneBroken, AskedHasFuture, ToldOnReturn, InSend

LEMMA CompleteCalls ==
  ASSUME Known, CallInv, Complete, UNCHANGED <<pc, result>>
  PROVE  CallInv'
  <1>1. CASE UNCHANGED <<fut, pending>>
    BY <1>1 DEF CallInv, OpenIsPending, NoneBroken, AskedHasFuture, ToldOnReturn, InSend
  <1>2. CASE header.id # 0 /\ pending[header.id] # NoCall
    <2> DEFINE i == header.id
               n == pending[i]
    <2>1. i \in Ids /\ n \in Calls
      BY <1>2, ConstantsAssumption DEF Known, TypeOK, Ids, ConstantsAssumption
    <2>2. fut' = [fut EXCEPT ![n] = "value"] /\ pending' = [pending EXCEPT ![i] = NoCall]
      BY <1>2 DEF Complete
    <2>3. OpenIsPending'
      <3> SUFFICES ASSUME NEW m \in Calls, fut'[m] = "unset"
                   PROVE  \E j \in Ids : pending'[j] = m
        BY DEF OpenIsPending
      <3>1. m # n /\ fut[m] = "unset"
        BY <2>1, <2>2 DEF Known, TypeOK
      <3>2. PICK j \in Ids : pending[j] = m
        BY <3>1 DEF CallInv, OpenIsPending
      <3> QED BY <2>1, <2>2, <3>1, <3>2 DEF Known, TypeOK
    <2> QED BY <2>1, <2>2, <2>3
            DEF CallInv, NoneBroken, AskedHasFuture, ToldOnReturn, InSend, Known, TypeOK
  <1> QED BY <1>1, <1>2 DEF Complete

LEMMA CallCalls ==
  ASSUME SlowWrap, Known, CallInv, NEW n \in Calls, Call(n)
  PROVE  CallInv'
  <1> USE DEF Known, TypeOK, CallInv, OpenIsPending, NoneBroken, AskedHasFuture,
              ToldOnReturn, InSend, tableVars
  <1>1. CASE Refuse(n)
    BY <1>1 DEF Refuse
  <1>2. CASE Register(n)
    <2> DEFINE i == next_req_id
    <2>1. i \in Ids /\ pending[i] = NoCall /\ pc[n] = "start" /\ UNCHANGED result
      BY <1>2 DEF Register
    <2>2. \A m \in Calls : m # NoCall
      BY ConstantsAssumption DEF ConstantsAssumption
    <2>3. /\ pc' = [pc EXCEPT ![n] = "registered"]
          /\ pending' = [pending EXCEPT ![i] = n]
          /\ \A m \in Calls : fut'[m] = IF m = n THEN "unset" ELSE fut[m]
      BY <1>2, <2>1, <2>2 DEF Register
    <2> HIDE DEF i
    <2>4. OpenIsPending'
      <3> SUFFICES ASSUME NEW m \in Calls, fut'[m] = "unset"
                   PROVE  \E j \in Ids : pending'[j] = m
        OBVIOUS
      <3>1. CASE m = n
        BY <2>1, <2>3, <3>1
      <3>2. CASE m # n
        <4>1. PICK j \in Ids : pending[j] = m
          BY <2>3, <3>2
        <4> QED BY <2>1, <2>2, <2>3, <4>1
      <3> QED BY <3>1, <3>2
    <2> QED BY <2>1, <2>3, <2>4
  <1>3. CASE Submit(n)
    BY <1>3 DEF Submit
  <1>4. CASE Return(n)
    BY <1>4 DEF Return
  <1>5. CASE Timeout(n)
    BY <1>5 DEF Timeout
  <1> QED BY <1>1, <1>2, <1>3, <1>4, <1>5 DEF Call

LEMMA NextCalls ==
  ASSUME SlowWrap, Known, CallInv, [Next]_vars
  PROVE  CallInv'
  <1>1. CASE OnWriteErr \/ OnHeaderBad \/ OnReadErr
    BY <1>1, DrainCalls DEF OnWriteErr, OnHeaderBad, OnReadErr, Disconnect
  <1>2. CASE Join
    BY <1>2, DrainCalls DEF Join
  <1>3. CASE OnHeaderBare \/ OnPayload
    BY <1>3, CompleteCalls DEF OnHeaderBare, OnPayload
  <1>4. CASE UNCHANGED <<callVars, tableVars>>
    BY <1>4 DEF callVars, tableVars, CallInv, OpenIsPending, NoneBroken, AskedHasFuture,
                ToldOnReturn, InSend
  <1>5. OnDoWrite \/ OnWriteOk \/ AfterPop \/ OnHeaderBody \/ OnTimer
          \/ OnTimerCancelled \/ OnClose \/ OnShutdown \/ Destroy \/ Environment
        => UNCHANGED <<callVars, tableVars>>
    BY DEF OnDoWrite, OnWriteOk, AfterPop, DoWrite, OnHeaderBody, OnTimer,
           OnTimerCancelled, OnClose, OnShutdown, Destroy, Environment,
           WriteCompletes, WriteFails, HeaderArrives, GarbageArrives,
           PayloadArrives, ReadFails, TimerExpires, PeerFails
  <1> QED BY CallCalls, <1>1, <1>2, <1>3, <1>4, <1>5
          DEF Next, IoThread, WriteHandler, ReadHandler, Destructor, vars

-----------------------------------------------------------------------------
(***************************************************************************)
(* The frames.  While the connection lives, a frame that still may be      *)
(* answered finds the promise of its own call under its id, and no other   *)
(* frame has that id: when its answer clears the entry, nothing is left    *)
(* that could be taken for the answer to a later call.                     *)
(***************************************************************************)

\* A frame at the front of the queue that was written already does not count.
IsWritten == ops["writeOk"] + ops["writeErr"] > 0
Waiting == {k \in DOMAIN write_queue : IsWritten => k # 1}
HeaderRead == ops["headerOk"] + ops["payload"] + ops["payloadOk"] > 0
Registered == {n \in Calls : pc[n] = "registered"}

Finds(i, n) == i # 0 => pending[i] = n /\ n # NoCall
FindsOwn ==
  /\ \A k \in Waiting : Finds(write_queue[k].id, write_queue[k].call)
  /\ \A f \in server : Finds(f.id, f.call)
  /\ HeaderRead => Finds(header.id, header.call)
  /\ \A n \in Registered : ticket[n] # 0 /\ pending[ticket[n]] = n

\* Ids that are not those of heartbeats differ.
Differ(i, j) == i = 0 \/ i # j
FramesApart ==
  /\ \A k \in Waiting : /\ \A l \in Waiting : k # l => Differ(write_queue[k].id, write_queue[l].id)
                        /\ \A f \in server : Differ(f.id, write_queue[k].id)
  /\ HeaderRead => /\ \A k \in Waiting : Differ(header.id, write_queue[k].id)
                   /\ \A f \in server : Differ(header.id, f.id)
  /\ \A n \in Registered :
       /\ \A k \in Waiting : Differ(ticket[n], write_queue[k].id)
       /\ \A f \in server : Differ(ticket[n], f.id)
       /\ HeaderRead => Differ(ticket[n], header.id)

FrameInv == connected => FindsOwn /\ FramesApart

\* Steps that leave the table, the frames and where they are alone.
LEMMA OtherFrames ==
  ASSUME FrameInv, UNCHANGED <<pending, connected, write_queue, server, header, ticket>>,
         IsWritten' = IsWritten, HeaderRead' => HeaderRead, Registered' \subseteq Registered
  PROVE  FrameInv'
  <1>1. Waiting' = Waiting
    BY DEF Waiting
  <1> QED BY <1>1 DEF FrameInv, FindsOwn, FramesApart, Finds

LEMMA DeadFrames ==
  ASSUME ~connected'
  PROVE  FrameInv'
  BY DEF FrameInv

\* A new id is that of no frame: every frame finds its own call.
LEMMA RegisterFrames ==
  ASSUME SlowWrap, Known, FrameInv, NEW n \in Calls, Register(n)
  PROVE  FrameInv'
  <1> DEFINE i == next_req_id
  <1>1. i \in Ids /\ i # 0 /\ pending[i] = NoCall /\ connected /\ n # NoCall
    BY ConstantsAssumption DEF Register, Known, TypeOK, Ids, ConstantsAssumption
  <1>2. /\ pending' = [pending EXCEPT ![i] = n] /\ ticket' = [ticket EXCEPT ![n] = i]
        /\ pc' = [pc EXCEPT ![n] = "registered"]
        /\ UNCHANGED <<connected, write_queue, server, header, ops>>
    BY DEF Register, writeVars, ioVars, envVars
  <1> HIDE DEF i
  <1>3. /\ Waiting' = Waiting /\ HeaderRead' = HeaderRead
        /\ Registered' = Registered \union {n}
    BY <1>2 DEF Waiting, IsWritten, HeaderRead, Registered, Known, TypeOK
  <1>4. FindsOwn /\ FramesApart
    BY <1>1 DEF FrameInv
  <1>5. ASSUME NEW j, NEW m, Finds(j, m)
        PROVE  Finds(j, m)' /\ Differ(i, j)
    BY <1>1, <1>2, <1>5 DEF Finds, Differ, Known, TypeOK
  <1>6. \A m \in Registered \ {n} : ticket'[m] = ticket[m] /\ ticket[m] # i
    BY <1>1, <1>2, <1>4, ConstantsAssumption
       DEF FindsOwn, Registered, Known, TypeOK, ConstantsAssumption
  <1>7. ticket'[n] = i
    BY <1>2 DEF Known, TypeOK
  <1>8. FindsOwn'
    <2>1. \A k \in Waiting' : Finds(write_queue[k].id, write_queue[k].call)'
      BY <1>2, <1>3, <1>4, <1>5 DEF FindsOwn
    <2>2. \A f \in server' : Finds(f.id, f.call)'
      BY <1>2, <1>4, <1>5 DEF FindsOwn
    <2>3. HeaderRead' => Finds(header.id, header.call)'
      BY <1>2, <1>3, <1>4, <1>5 DEF FindsOwn
    <2>4. \A m \in Registered' : ticket'[m] # 0 /\ pending'[ticket'[m]] = m
      BY <1>1, <1>2, <1>3, <1>4, <1>6, <1>7 DEF FindsOwn, Known, TypeOK
    <2> QED BY <2>1, <2>2, <2>3, <2>4 DEF FindsOwn
  <1>9. FramesApart'
    <2>1. \A m \in Registered' :
            /\ \A k \in Waiting : Differ(ticket'[m], write_queue[k].id)
            /\ \A f \in server : Differ(ticket'[m], f.id)
            /\ HeaderRead => Differ(ticket'[m], header.id)
      BY <1>3, <1>4, <1>5, <1>6, <1>7 DEF FindsOwn, FramesApart
    <2> QED BY <1>2, <1>3, <1>4, <2>1 DEF FramesApart
  <1> QED BY <1>8, <1>9 DEF FrameInv

\* enqueue_write(): the frame comes last, and is not written yet.
LEMMA EnqueueFrames ==
  ASSUME Known, NEW f \in Frame, FindsOwn, FramesApart,
         write_queue' = Append(write_queue, f),
         UNCHANGED <<pending, connected, server, header, ticket>>,
         IsWritten' = IsWritten, HeaderRead' = HeaderRead,
         Registered' \subseteq Registered,
         Finds(f.id, f.call),
         \A k \in Waiting : Differ(f.id, write_queue[k].id),
         \A g \in server : Differ(g.id, f.id),
         HeaderRead => Differ(header.id, f.id),
         \A n \in Registered' : Differ(ticket[n], f.id)
  PROVE  FrameInv'
  <1> DEFINE last == Len(write_queue) + 1
  <1>1. write_queue \in Seq(Frame)
    BY DEF Known, TypeOK
  <1>2. /\ \A k \in DOMAIN write_queue : write_queue'[k] = write_queue[k]
        /\ write_queue'[last] = f
        /\ DOMAIN write_queue' = DOMAIN write_queue \union {last}
    BY <1>1
  <1>3. Waiting' = Waiting \union {last}
    <2>1. IsWritten => last # 1
      <3>1. IsWritten => ops["writeOk"] > 0 \/ ops["writeErr"] > 0
        BY DEF IsWritten, Known, TypeOK, OpKinds, WriteOps
      <3> QED BY <1>1, <3>1 DEF Known, WriteChain, FrontAlive
    <2> QED BY <1>2, <2>1 DEF Waiting
  <1>4. \A k \in Waiting : write_queue'[k] = write_queue[k] /\ k # last
    BY <1>1, <1>2 DEF Waiting
  <1> HIDE DEF last
  <1>5. \A i, n : Finds(i, n)' <=> Finds(i, n)
    BY DEF Finds
  <1>6. FindsOwn'
    BY <1>2, <1>3, <1>4, <1>5 DEF FindsOwn
  <1>7. \A k \in Waiting : Differ(write_queue[k].id, f.id)
    BY DEF Differ
  <1>8. FramesApart'
    <2>1. \A k \in Waiting' : \A l \in Waiting' :
            k # l => Differ(write_queue'[k].id, write_queue'[l].id)
      <3> SUFFICES ASSUME NEW k \in Waiting', NEW l \in Waiting', k # l
                   PROVE  Differ(write_queue'[k].id, write_queue'[l].id)
        OBVIOUS
      <3>1. CASE k \in Waiting /\ l \in Waiting
        BY <1>4, <3>1 DEF FramesApart
      <3>2. CASE k = last /\ l \in Waiting
        BY <1>2, <1>4, <3>2
      <3>3. CASE k \in Waiting /\ l = last
        BY <1>2, <1>4, <1>7, <3>3
      <3> QED BY <1>3, <3>1, <3>2, <3>3
    <2>2. \A k \in Waiting' : \A g \in server' : Differ(g.id, write_queue'[k].id)
      BY <1>2, <1>3, <1>4 DEF FramesApart
    <2>3. HeaderRead' => /\ \A k \in Waiting' : Differ(header'.id, write_queue'[k].id)
                         /\ \A g \in server' : Differ(header'.id, g.id)
      BY <1>2, <1>3, <1>4 DEF FramesApart
    <2>4. \A n \in Registered' :
            /\ \A k \in Waiting' : Differ(ticket'[n], write_queue'[k].id)
            /\ \A g \in server' : Differ(ticket'[n], g.id)
            /\ HeaderRead' => Differ(ticket'[n], header'.id)
      BY <1>2, <1>3, <1>4 DEF FramesApart
    <2> QED BY <2>1, <2>2, <2>3, <2>4 DEF FramesApart
  <1> QED BY <1>6, <1>8 DEF FrameInv

LEMMA SubmitFrames ==
  ASSUME Known, FrameInv, NEW n \in Calls, Submit(n)
  PROVE  FrameInv'
  <1> DEFINE f == RequestFrame(n, ticket[n])
  <1>1. CASE connected
    <2>1. FindsOwn /\ FramesApart /\ n \in Registered
      BY <1>1 DEF FrameInv, Submit, Registered
    <2>2. f \in Frame /\ f.id = ticket[n] /\ f.call = n
      BY DEF RequestFrame, Frame, Known, TypeOK
    <2>3. f # Heartbeat
      BY <2>1, <2>2 DEF Heartbeat, FindsOwn
    <2>4. /\ write_queue' = Append(write_queue, f)
          /\ UNCHANGED <<pending, connected, server, header, ticket>>
          /\ IsWritten' = IsWritten /\ HeaderRead' = HeaderRead
      BY <2>3 DEF Submit, EnqueueWrite, tableVars, envVars, IsWritten, HeaderRead,
                  Known, TypeOK, OpKinds, WriteOps
    <2>5. Registered' = Registered \ {n}
      BY DEF Submit, Registered, Known, TypeOK
    <2>6. Finds(f.id, f.call)
      BY <2>1, <2>2, ConstantsAssumption DEF FindsOwn, Finds, ConstantsAssumption
    <2>7. \A m \in Registered' : Differ(ticket[m], f.id)
      BY <2>1, <2>2, <2>5 DEF FindsOwn, Differ
    <2>8. /\ \A k \in Waiting : Differ(f.id, write_queue[k].id)
          /\ \A g \in server : Differ(g.id, f.id)
          /\ HeaderRead => Differ(header.id, f.id)
      BY <2>1, <2>2 DEF FramesApart, Differ
    <2> HIDE DEF f
    <2> QED BY <2>1, <2>2, <2>4, <2>5, <2>6, <2>7, <2>8, EnqueueFrames
  <1>2. CASE ~connected
    BY <1>2, DeadFrames DEF Submit, tableVars
  <1> QED BY <1>1, <1>2

LEMMA TimerFrames ==
  ASSUME Known, FrameInv, OnTimer
  PROVE  FrameInv'
  <1>1. /\ UNCHANGED <<pending, connected, server, header, ticket, pc>>
        /\ IsWritten' = IsWritten /\ HeaderRead' = HeaderRead /\ Registered' = Registered
    <2>1. \A k \in {"writeOk", "writeErr", "headerOk", "payload", "payloadOk"} : ops'[k] = ops[k]
      BY DEF OnTimer, EnqueueWrite, Move, Known, TypeOK, OpKinds, WriteOps, ReadOps, TimerOps
    <2> QED BY <2>1 DEF OnTimer, callVars, tableVars, envVars, IsWritten, HeaderRead, Registered
  <1>2. CASE write_queue' = write_queue
    BY <1>1, <1>2, OtherFrames
  <1>3. CASE write_queue' = Append(write_queue, Heartbeat)
    <2>1. CASE connected
      <3>1. Heartbeat \in Frame /\ Heartbeat.id = 0
        BY ConstantsAssumption DEF Heartbeat, Frame, ConstantsAssumption
      <3>2. FindsOwn /\ FramesApart
        BY <2>1 DEF FrameInv
      <3>3. \A n \in Registered' : Differ(ticket[n], Heartbeat.id)
        BY <1>1, <3>1, <3>2 DEF FindsOwn, Differ
      <3>4. /\ Finds(Heartbeat.id, Heartbeat.call)
            /\ \A k \in Waiting : Differ(Heartbeat.id, write_queue[k].id)
        BY <3>1 DEF Finds, Differ
      <3>5. \A i : Differ(i, 0)
        BY DEF Differ
      <3> QED BY <1>1, <1>3, <3>1, <3>2, <3>3, <3>4, <3>5, EnqueueFrames
    <2>2. CASE ~connected
      BY <1>1, <2>2, DeadFrames
    <2> QED BY <2>1, <2>2
  <1> QED BY <1>2, <1>3 DEF OnTimer, EnqueueWrite

-----------------------------------------------------------------------------
(* The counts, read in a reachable state. *)
LEMMA Counts ==
  ASSUME Known
  PROVE  /\ \A k \in OpKinds : ops[k] \in Nat
         /\ IsWritten <=> ops["writeOk"] > 0 \/ ops["writeErr"] > 0
         /\ HeaderRead <=> ops["headerOk"] > 0 \/ ops["payload"] > 0 \/ ops["payloadOk"] > 0
  BY DEF Known, TypeOK, OpKinds, WriteOps, ReadOps, IsWritten, HeaderRead

LEMMA Moved ==
  ASSUME Known, NEW a \in OpKinds, NEW b \in OpKinds, a # b, ops' = Move(a, b)
  PROVE  \A k \in OpKinds : ops'[k] = IF k = a THEN ops[k] - 1
                                     ELSE IF k = b THEN ops[k] + 1 ELSE ops[k]
  BY DEF Move, Known, TypeOK

\* One writer: a write in progress or ready is the only one.
LEMMA OneWrite ==
  ASSUME Known
  PROVE  /\ ops["write"] > 0 => ops["writeOk"] = 0 /\ ops["writeErr"] = 0
         /\ ops["writeOk"] > 0 => ops["writeOk"] = 1 /\ ops["writeErr"] = 0
  <1>1. \A k \in WriteOps : ops[k] \in Nat
    BY Counts DEF OpKinds
  <1> QED BY <1>1 DEF Known, WriteChain, OneWriter, WriteOps

\* One reader: so is a read.
LEMMA OneRead ==
  ASSUME Known
  PROVE  /\ \A k \in ReadOps : ops[k] \in Nat
         /\ \A k \in ReadOps : ops[k] > 0 =>
              ops[k] = 1 /\ \A j \in ReadOps : j # k => ops[j] = 0
  <1>1. \A k \in ReadOps : ops[k] \in Nat
    BY Counts DEF OpKinds
  <1>2. /\ ops["header"] \in Nat /\ ops["headerOk"] \in Nat /\ ops["payload"] \in Nat
        /\ ops["payloadOk"] \in Nat /\ ops["readErr"] \in Nat
    BY <1>1 DEF ReadOps
  <1>3. ops["header"] + ops["headerOk"] + ops["payload"] + ops["payloadOk"]
          + ops["readErr"] <= 1
    BY DEF Known, LinkWatched, OneReader
  <1>4. ASSUME NEW k \in ReadOps, ops[k] > 0
        PROVE  ops[k] = 1 /\ \A j \in ReadOps : j # k => ops[j] = 0
    <2> SUFFICES ASSUME NEW j \in ReadOps, j # k
                 PROVE  ops[k] + ops[j] <= 1
      BY <1>1, <1>2, <1>3, <1>4 DEF ReadOps
    <2>1. CASE k = "header"
      BY <1>2, <1>3, <2>1 DEF ReadOps
    <2>2. CASE k = "headerOk"
      BY <1>2, <1>3, <2>2 DEF ReadOps
    <2>3. CASE k = "payload"
      BY <1>2, <1>3, <2>3 DEF ReadOps
    <2>4. CASE k = "payloadOk"
      BY <1>2, <1>3, <2>4 DEF ReadOps
    <2>5. CASE k = "readErr"
      BY <1>2, <1>3, <2>5 DEF ReadOps
    <2> QED BY <2>1, <2>2, <2>3, <2>4, <2>5 DEF ReadOps
  <1> QED BY <1>1, <1>4

\* pop_front(): the frame that goes was written.
LEMMA PopFrames ==
  ASSUME Known, FrameInv, OnWriteOk
  PROVE  FrameInv'
  <1>1. /\ UNCHANGED <<pending, connected, server, header, ticket, pc>>
        /\ write_queue' = Tail(write_queue) /\ write_queue # <<>>
    BY DEF OnWriteOk, Run, callVars, tableVars, envVars, Known, WriteChain, FrontAlive
  <1>2. ~IsWritten' /\ IsWritten /\ HeaderRead' = HeaderRead /\ Registered' = Registered
    <2>1. /\ ops["writeOk"] > 0
          /\ ops'["writeOk"] = ops["writeOk"] - 1
          /\ \A k \in {"writeErr", "headerOk", "payload", "payloadOk"} : ops'[k] = ops[k]
      BY DEF OnWriteOk, Run, Known, TypeOK, OpKinds, WriteOps, ReadOps
    <2>2. ops["writeOk"] = 1 /\ ops["writeErr"] = 0
      BY <2>1, OneWrite
    <2> QED BY <1>1, <2>1, <2>2 DEF IsWritten, HeaderRead, Registered
  <1>3. write_queue \in Seq(Frame)
    BY DEF Known, TypeOK
  <1>4. \A k \in Waiting' : k + 1 \in Waiting /\ write_queue'[k] = write_queue[k + 1]
    BY <1>1, <1>2, <1>3 DEF Waiting
  <1>5. \A k, l \in Waiting' : k # l => k + 1 # l + 1
    BY <1>1, <1>3 DEF Waiting
  <1>6. \A i, n : Finds(i, n)' <=> Finds(i, n)
    BY <1>1 DEF Finds
  <1>7. ASSUME FindsOwn, FramesApart
        PROVE  FindsOwn' /\ FramesApart'
    <2>1. FindsOwn'
      BY <1>1, <1>2, <1>4, <1>6, <1>7 DEF FindsOwn
    <2>2. FramesApart'
      BY <1>1, <1>2, <1>4, <1>5, <1>7 DEF FramesApart
    <2> QED BY <2>1, <2>2
  <1> QED BY <1>1, <1>7 DEF FrameInv

\* The frame written may be with the server now, and waits no more.
LEMMA WrittenFrames ==
  ASSUME Known, FrameInv, WriteCompletes \/ WriteFails
  PROVE  FrameInv'
  <1>1. /\ UNCHANGED <<pending, connected, write_queue, header, ticket, pc>>
        /\ server' \subseteq server \union {write_queue[1]}
    BY DEF WriteCompletes, WriteFails, callVars, tableVars, writeVars
  <1>2. write_queue \in Seq(Frame) /\ write_queue # <<>>
    BY DEF WriteCompletes, WriteFails, Known, TypeOK, WriteChain, FrontAlive
  <1>3. ~IsWritten /\ IsWritten' /\ HeaderRead' = HeaderRead /\ Registered' = Registered
    <2>1. /\ ops["write"] > 0
          /\ ops'["writeOk"] + ops'["writeErr"] = ops["writeOk"] + ops["writeErr"] + 1
          /\ \A k \in {"headerOk", "payload", "payloadOk"} : ops'[k] = ops[k]
      <3>1. CASE WriteCompletes
        BY <3>1, Moved, Counts DEF WriteCompletes, OpKinds, WriteOps, ReadOps
      <3>2. CASE WriteFails
        BY <3>2, Moved, Counts DEF WriteFails, OpKinds, WriteOps, ReadOps
      <3> QED BY <3>1, <3>2
    <2>2. ops["writeOk"] = 0 /\ ops["writeErr"] = 0
      BY <2>1, OneWrite
    <2> QED BY <1>1, <2>1, <2>2 DEF IsWritten, HeaderRead, Registered
  <1>4. /\ 1 \in Waiting /\ 1 \notin Waiting' /\ Waiting' \subseteq Waiting
    BY <1>1, <1>2, <1>3 DEF Waiting
  <1>5. \A i, n : Finds(i, n)' <=> Finds(i, n)
    BY <1>1 DEF Finds
  <1>6. ASSUME FindsOwn, FramesApart
        PROVE  FindsOwn' /\ FramesApart'
    <2>1. FindsOwn'
      BY <1>1, <1>3, <1>4, <1>5, <1>6 DEF FindsOwn
    <2>2. \A k \in Waiting' :
            /\ \A l \in Waiting' : k # l => Differ(write_queue[k].id, write_queue[l].id)
            /\ \A f \in server' : Differ(f.id, write_queue[k].id)
      BY <1>1, <1>4, <1>6 DEF FramesApart
    <2>3. HeaderRead => /\ \A k \in Waiting' : Differ(header.id, write_queue[k].id)
                        /\ \A f \in server' : Differ(header.id, f.id)
      BY <1>1, <1>4, <1>6 DEF FramesApart
    <2>4. \A n \in Registered :
            /\ \A k \in Waiting' : Differ(ticket[n], write_queue[k].id)
            /\ \A f \in server' : Differ(ticket[n], f.id)
            /\ HeaderRead => Differ(ticket[n], header.id)
      BY <1>1, <1>4, <1>6 DEF FramesApart
    <2> QED BY <1>1, <1>3, <2>1, <2>2, <2>3, <2>4 DEF FramesApart
  <1> QED BY <1>1, <1>6 DEF FrameInv

\* The server answers one of its frames.
LEMMA ArrivedFrames ==
  ASSUME Known, FrameInv, HeaderArrives
  PROVE  FrameInv'
  <1>1. PICK f \in server : header'.id = f.id /\ header'.call = f.call
                            /\ server' = server \ {f}
    BY DEF HeaderArrives
  <1>2. UNCHANGED <<pending, connected, write_queue, ticket, pc>>
    BY DEF HeaderArrives, callVars, tableVars, writeVars
  <1>3. ~HeaderRead /\ IsWritten' = IsWritten /\ Registered' = Registered
    <2>1. ops["header"] > 0 /\ \A k \in {"writeOk", "writeErr"} : ops'[k] = ops[k]
      BY DEF HeaderArrives, Move, Known, TypeOK, OpKinds, WriteOps, ReadOps
    <2>2. \A k \in ReadOps : k # "header" => ops[k] = 0
      BY <2>1, OneRead DEF ReadOps
    <2> QED BY <1>2, <2>1, <2>2 DEF IsWritten, HeaderRead, Registered, ReadOps
  <1>4. Waiting' = Waiting
    BY <1>2, <1>3 DEF Waiting
  <1>5. \A i, n : Finds(i, n)' <=> Finds(i, n)
    BY <1>2 DEF Finds
  <1>6. ASSUME FindsOwn, FramesApart
        PROVE  FindsOwn' /\ FramesApart'
    <2>1. FindsOwn'
      BY <1>1, <1>2, <1>3, <1>4, <1>5, <1>6 DEF FindsOwn
    <2>2. \A g \in server' : Differ(f.id, g.id)
      <3> SUFFICES ASSUME NEW g \in server', f.id # 0, f.id = g.id
                   PROVE  FALSE
        BY DEF Differ
      <3>1. f \in Frame /\ g \in Frame /\ f # g
        BY <1>1 DEF Known, TypeOK
      <3>2. f.call = g.call
        BY <1>1, <1>6 DEF FindsOwn, Finds
      <3> QED BY <3>1, <3>2 DEF Frame
    <2>3. \A k \in Waiting : Differ(f.id, write_queue[k].id)
      BY <1>6 DEF FramesApart
    <2>4. \A n \in Registered : Differ(ticket[n], f.id)
      BY <1>6 DEF FramesApart
    <2> QED BY <1>1, <1>2, <1>3, <1>4, <1>6, <2>1, <2>2, <2>3, <2>4 DEF FramesApart
  <1> QED BY <1>2, <1>6 DEF FrameInv

\* complete_response(): the entry that is cleared is that of no other frame.
LEMMA CompleteFrames ==
  ASSUME Known, FrameInv, HeaderRead, ~HeaderRead', Complete,
         UNCHANGED <<pc, ticket, connected, write_queue, server>>, IsWritten' = IsWritten
  PROVE  FrameInv'
  <1> DEFINE h == header.id
  <1>1. Waiting' = Waiting /\ Registered' = Registered
    BY DEF Waiting, Registered
  <1>2. ASSUME FindsOwn, FramesApart
        PROVE  FindsOwn' /\ FramesApart'
    <2>1. h \in 0 .. MaxId
      BY DEF Known, TypeOK
    <2>2. ASSUME NEW j, NEW n, Finds(j, n), Differ(h, j)
          PROVE  Finds(j, n)'
      <3>1. CASE UNCHANGED pending
        BY <2>2, <3>1 DEF Finds
      <3>2. CASE h # 0 /\ pending' = [pending EXCEPT ![h] = NoCall]
        BY <2>1, <2>2, <3>2 DEF Finds, Differ, Known, TypeOK
      <3> QED BY <3>1, <3>2 DEF Complete
    <2>3. \A n \in Registered : ticket[n] # 0 => ticket[n] # h
      BY <1>2 DEF FramesApart, Differ
    <2>4. \A n \in Registered : pending'[ticket[n]] = n
      BY <1>2, <2>2, <2>3, ConstantsAssumption
         DEF FindsOwn, Finds, Differ, Registered, ConstantsAssumption
    <2>5. FindsOwn'
      BY <1>1, <1>2, <2>2, <2>4 DEF FindsOwn, FramesApart
    <2> QED BY <1>1, <1>2, <2>5 DEF FramesApart
  <1> QED BY <1>2 DEF FrameInv

LEMMA CallFrames ==
  ASSUME SlowWrap, Known, FrameInv, NEW n \in Calls, Call(n)
  PROVE  FrameInv'
  <1>1. CASE Refuse(n)
    BY <1>1, DeadFrames DEF Refuse, tableVars
  <1>2. CASE Return(n) \/ Timeout(n)
    <2>1. UNCHANGED <<pending, connected, write_queue, server, header, ticket>>
      BY <1>2 DEF Return, Timeout, tableVars, writeVars, ioVars, envVars
    <2>2. IsWritten' = IsWritten /\ HeaderRead' = HeaderRead
      BY <1>2 DEF Return, Timeout, ioVars, IsWritten, HeaderRead, Known, TypeOK,
                  OpKinds, WriteOps, ReadOps
    <2>3. Registered' \subseteq Registered
      BY <1>2 DEF Return, Timeout, Registered, Known, TypeOK
    <2> QED BY <2>1, <2>2, <2>3, OtherFrames
  <1> QED BY <1>1, <1>2, RegisterFrames, SubmitFrames DEF Call

\* The handlers and the rest of the environment: they move no frame.
LEMMA StillFrames ==
  ASSUME Known, FrameInv,
         \/ OnDoWrite \/ AfterPop \/ OnHeaderBody \/ OnTimerCancelled \/ OnClose
         \/ OnShutdown \/ Destroy \/ PayloadArrives \/ ReadFails \/ TimerExpires
         \/ PeerFails
  PROVE  FrameInv'
  <1> USE DEF Known, TypeOK, OpKinds, WriteOps, ReadOps, TimerOps
  <1>1. UNCHANGED <<pending, connected, write_queue, server, header, ticket, pc>>
    BY DEF OnDoWrite, AfterPop, DoWrite, OnHeaderBody, OnTimerCancelled, OnClose,
           OnShutdown, Destroy, PayloadArrives, ReadFails, TimerExpires, PeerFails,
           callVars, tableVars, writeVars, ioVars, envVars
  <1>2. /\ ops'["writeOk"] = ops["writeOk"] /\ ops'["writeErr"] = ops["writeErr"]
        /\ HeaderRead' => HeaderRead
    <2>1. CASE OnDoWrite \/ AfterPop
      BY <2>1 DEF OnDoWrite, AfterPop, DoWrite, HeaderRead
    <2>2. CASE OnHeaderBody
      BY <2>2, Counts DEF OnHeaderBody, Run, Move
    <2>3. CASE OnTimerCancelled \/ OnClose \/ Destroy \/ PeerFails
      BY <2>3 DEF OnTimerCancelled, OnClose, Destroy, PeerFails, ioVars, HeaderRead
    <2>4. CASE OnShutdown
      BY <2>4 DEF OnShutdown, CancelTimer, HeaderRead
    <2>5. CASE PayloadArrives
      BY <2>5, Counts DEF PayloadArrives, Move
    <2>6. CASE ReadFails
      <3>1. PICK k \in {"header", "payload"} : ops[k] > 0 /\ ops' = Move(k, "readErr")
        BY <2>6 DEF ReadFails
      <3>2. \A j \in OpKinds : ops'[j] = IF j = k THEN ops[j] - 1
                                     ELSE IF j = "readErr" THEN ops[j] + 1 ELSE ops[j]
        <4>1. k \in OpKinds /\ "readErr" \in OpKinds /\ k # "readErr"
          OBVIOUS
        <4> HIDE DEF Known, OpKinds
        <4> QED BY <3>1, <4>1, Moved
      <3>3. /\ ops'["headerOk"] = ops["headerOk"] /\ ops'["payloadOk"] = ops["payloadOk"]
            /\ ops'["payload"] \in {ops["payload"], ops["payload"] - 1}
            /\ ops'["writeOk"] = ops["writeOk"] /\ ops'["writeErr"] = ops["writeErr"]
        BY <3>2
      <3>4. ops["headerOk"] \in Nat /\ ops["payload"] \in Nat /\ ops["payloadOk"] \in Nat
        OBVIOUS
      <3>5. HeaderRead' => HeaderRead
        <4> HIDE DEF Known, TypeOK, OpKinds
          <4>1. \A m, n, o \in Nat : \A p \in {n, n - 1} : m + p + o > 0 => m + n + o > 0
          OBVIOUS
        <4> QED BY <3>3, <3>4, <4>1 DEF HeaderRead
      <3> QED BY <3>3, <3>5
    <2>7. CASE TimerExpires
      BY <2>7 DEF TimerExpires, Move, HeaderRead
    <2> QED BY <2>1, <2>2, <2>3, <2>4, <2>5, <2>6, <2>7
  <1>3. IsWritten' = IsWritten /\ Registered' = Registered
    BY <1>1, <1>2 DEF IsWritten, Registered
  <1> QED BY <1>1, <1>2, <1>3, OtherFrames

\* Bytes that are no answer have no id.
LEMMA GarbageFrames ==
  ASSUME Known, FrameInv, GarbageArrives
  PROVE  FrameInv'
  <1>1. /\ UNCHANGED <<pending, connected, write_queue, server, ticket, pc>>
        /\ header'.id = 0
    BY DEF GarbageArrives, callVars, tableVars, writeVars, envVars
  <1>2. IsWritten' = IsWritten /\ Registered' = Registered
    <2>1. \A k \in {"writeOk", "writeErr"} : ops'[k] = ops[k]
      BY DEF GarbageArrives, Move, Known, TypeOK, OpKinds, WriteOps, ReadOps
    <2> QED BY <1>1, <2>1 DEF IsWritten, Registered
  <1>3. Waiting' = Waiting
    BY <1>1, <1>2 DEF Waiting
  <1>4. \A i, n : Finds(i, n)' <=> Finds(i, n)
    BY <1>1 DEF Finds
  <1>5. ASSUME FindsOwn, FramesApart
        PROVE  FindsOwn' /\ FramesApart'
    <2>1. FindsOwn'
      BY <1>1, <1>2, <1>3, <1>4, <1>5 DEF FindsOwn, Finds
    <2>2. \A j : Differ(0, j)
      BY DEF Differ
    <2>3. \A n \in Registered : Differ(ticket[n], 0)
      BY <1>5 DEF FindsOwn, Differ
    <2> QED BY <1>1, <1>2, <1>3, <1>5, <2>1, <2>2, <2>3 DEF FramesApart
  <1> QED BY <1>1, <1>5 DEF FrameInv

LEMMA NextFrames ==
  ASSUME SlowWrap, Known, FrameInv, [Next]_vars
  PROVE  FrameInv'
  <1>1. CASE UNCHANGED vars
    <2>1. /\ UNCHANGED <<pending, connected, write_queue, server, header, ticket>>
          /\ IsWritten' = IsWritten /\ HeaderRead' = HeaderRead /\ Registered' = Registered
      BY <1>1 DEF vars, callVars, tableVars, writeVars, ioVars, envVars,
                  IsWritten, HeaderRead, Registered
    <2> QED BY <2>1, OtherFrames
  <1>2. CASE OnWriteErr \/ OnHeaderBad \/ OnReadErr
    BY <1>2, DeadFrames DEF OnWriteErr, OnHeaderBad, OnReadErr, Disconnect
  <1>3. CASE OnHeaderBare \/ OnPayload
    <2>1. /\ Complete
          /\ UNCHANGED <<pc, ticket, connected, write_queue, server>>
      BY <1>3 DEF OnHeaderBare, OnPayload, writeVars, envVars
    <2>2. HeaderRead /\ ~HeaderRead' /\ IsWritten' = IsWritten
      <3> DEFINE now == {"headerOk", "payload", "payloadOk"}
      <3>1. PICK k \in {"headerOk", "payloadOk"} :
              ops[k] > 0 /\ ops' = Move(k, "header")
        BY <1>3 DEF OnHeaderBare, OnPayload, Run
      <3>2. ops[k] = 1 /\ \A j \in now : j # k => ops[j] = 0
        BY <3>1, OneRead DEF ReadOps
      <3>3. /\ \A j \in now : ops'[j] = 0
            /\ \A j \in {"writeOk", "writeErr"} : ops'[j] = ops[j]
        BY <3>1, <3>2 DEF Move, Known, TypeOK, OpKinds, WriteOps, ReadOps
      <3> QED BY <3>1, <3>3, Counts DEF HeaderRead, IsWritten
    <2> QED BY <2>1, <2>2, CompleteFrames
  <1>4. CASE Join
    <2>1. ~connected
      BY <1>4 DEF Join, Known, LinkWatched, OneReader, OpKinds, ReadOps
    <2> QED BY <1>4, <2>1, DeadFrames DEF Join
  <1> QED BY <1>1, <1>2, <1>3, <1>4, CallFrames, StillFrames, PopFrames,
             WrittenFrames, ArrivedFrames, GarbageFrames, TimerFrames
          DEF Next, IoThread, WriteHandler, ReadHandler, Destructor, Environment

\* Both strengthenings hold from the start.
LEMMA Strengthened == ASSUME SlowWrap PROVE Spec => [](Known /\ CallInv /\ FrameInv)
  <1>1. Init => CallInv
    BY DEF Init, CallInv, OpenIsPending, NoneBroken, AskedHasFuture, ToldOnReturn, InSend
  <1>2. Init => FrameInv
    BY DEF Init, FrameInv, FindsOwn, FramesApart, Waiting, HeaderRead, Registered,
           OpKinds, WriteOps, ReadOps, TimerOps
  <1>3. Known /\ CallInv /\ FrameInv /\ [Next]_vars => CallInv' /\ FrameInv'
    BY NextCalls, NextFrames
  <1> QED BY <1>1, <1>2, <1>3, AlwaysKnown, PTL DEF Spec

-----------------------------------------------------------------------------
(***************************************************************************)
(* The simulation: what each step does to the requests.                    *)
(***************************************************************************)
Request == [n \in Calls |-> RequestState(n)]

LEMMA RequestIs ==
  \A n \in Calls :
    Request[n] = IF fut[n] = "none" THEN IF pc[n] = "done" THEN "failed" ELSE "new"
                 ELSE IF fut[n] = "unset" THEN "open"
                 ELSE IF fut[n] = "value" THEN "answered" ELSE "failed"
  BY DEF Request, RequestState

LEMMA RequestWas ==
  \A n \in Calls :
    Request'[n] = IF fut'[n] = "none" THEN IF pc'[n] = "done" THEN "failed" ELSE "new"
                  ELSE IF fut'[n] = "unset" THEN "open"
                  ELSE IF fut'[n] = "value" THEN "answered" ELSE "failed"
  BY DEF Request, RequestState

AbstractVars == <<Request, answer, result, connected>>

LEMMA AbstractVarsAre == Abstract!vars = AbstractVars
  BY DEF Abstract!vars, AbstractVars, Request

LEMMA SameRequests ==
  ASSUME UNCHANGED fut,
         \A n \in Calls : fut[n] = "none" => (pc'[n] = "done" <=> pc[n] = "done")
  PROVE  Request' = Request
  <1>1. \A n \in Calls : Request'[n] = Request[n]
    BY RequestIs, RequestWas
  <1> QED BY <1>1 DEF Request

\* Nothing a caller can see.
LEMMA Stutter ==
  ASSUME UNCHANGED <<fut, answer, result, connected>>,
         \A n \in Calls : fut[n] = "none" => (pc'[n] = "done" <=> pc[n] = "done")
  PROVE  UNCHANGED AbstractVars
  BY SameRequests DEF AbstractVars

LEMMA CallSimulated ==
  ASSUME SlowWrap, Known, CallInv, NEW n \in Calls, Call(n)
  PROVE  Abstract!Next \/ UNCHANGED AbstractVars
  <1> USE DEF Known, TypeOK
  <1>1. CASE Refuse(n)
    <2>1. fut[n] = "none"
      BY <1>1 DEF Refuse, TableInv, StartIsNew
    <2>2. Abstract!Refuse(n)
      <3>1. Request[n] = "new" /\ Request' = [Request EXCEPT ![n] = "failed"]
        <4>1. \A m \in Calls : Request'[m] = IF m = n THEN "failed" ELSE Request[m]
          BY <1>1, <2>1, RequestIs, RequestWas DEF Refuse
        <4> QED BY <1>1, <2>1, <4>1, RequestIs DEF Refuse, Request
      <3> QED BY <1>1, <3>1 DEF Refuse, Abstract!Refuse, Request, tableVars
    <2> QED BY <2>2 DEF Abstract!Next
  <1>2. CASE Register(n)
    <2>1. fut[n] = "none" /\ connected
      BY <1>2 DEF Register, TableInv, StartIsNew
    <2>2. \A m \in Calls : fut'[m] = IF m = n THEN "unset" ELSE fut[m]
      BY <1>2, ConstantsAssumption DEF Register, ConstantsAssumption
    <2>3. Abstract!Ask(n)
      <3>1. Request[n] = "new" /\ Request' = [Request EXCEPT ![n] = "open"]
        <4>1. \A m \in Calls : Request'[m] = IF m = n THEN "open" ELSE Request[m]
          BY <1>2, <2>1, <2>2, RequestIs, RequestWas DEF Register
        <4> QED BY <1>2, <2>1, <4>1, RequestIs DEF Register, Request
      <3> QED BY <1>2, <2>1, <3>1 DEF Register, Abstract!Ask, Request
    <2> QED BY <2>3 DEF Abstract!Next
  <1>3. CASE Submit(n)
    <2> QED BY <1>3, Stutter DEF Submit, tableVars
  <1>4. CASE Return(n) \/ Timeout(n)
    <2>1. /\ fut[n] # "none" /\ result[n] = "none"
          /\ UNCHANGED <<fut, answer, connected>> /\ pc' = [pc EXCEPT ![n] = "done"]
      BY <1>4 DEF Return, Timeout, CallInv, AskedHasFuture, ToldOnReturn, InSend, tableVars
    <2>2. Request' = Request
      <3>1. \A m \in Calls : fut[m] = "none" => (pc'[m] = "done" <=> pc[m] = "done")
        BY <2>1
      <3> QED BY <2>1, <3>1, SameRequests
    <2>3. CASE Return(n)
      <3>1. \/ Request[n] = "answered" /\ fut[n] = "value"
            \/ Request[n] = "failed" /\ fut[n] = "error"
        BY <2>1, <2>3, RequestIs DEF Return, CallInv, NoneBroken
      <3>2. Abstract!Report(n)
        BY <2>1, <2>2, <2>3, <3>1 DEF Return, Abstract!Report, Request
      <3> QED BY <3>2 DEF Abstract!Next
    <2>4. CASE Timeout(n)
      <3>1. Request[n] = "open"
        BY <2>4, RequestIs DEF Timeout
      <3>2. Abstract!GiveUp(n)
        BY <2>1, <2>2, <2>4, <3>1 DEF Timeout, Abstract!GiveUp, Request
      <3> QED BY <3>2 DEF Abstract!Next
    <2> QED BY <1>4, <2>3, <2>4
  <1> QED BY <1>1, <1>2, <1>3, <1>4 DEF Call

\* on_disconnect(): the connection is lost, unless it was before.
LEMMA DisconnectSimulated ==
  ASSUME Known, CallInv, Drain, connected' = FALSE, UNCHANGED <<pc, answer, result>>
  PROVE  Abstract!Next \/ UNCHANGED AbstractVars
  <1> USE DEF Known, TypeOK
  <1>1. \A n \in Calls : (\E i \in Ids : pending[i] = n) <=> fut[n] = "unset"
    <2>1. ASSUME NEW n \in Calls, NEW i \in Ids, pending[i] = n
          PROVE  fut[n] = "unset"
      BY <2>1, ConstantsAssumption DEF TableInv, PromisesSetOnce, ConstantsAssumption
    <2> QED BY <2>1 DEF CallInv, OpenIsPending
  <1>2. \A n \in Calls : fut'[n] = IF fut[n] = "unset" THEN "error" ELSE fut[n]
    BY <1>1 DEF Drain
  <1>3. CASE connected
    <2>1. \A n \in Calls : Request'[n] = IF Request[n] = "open" THEN "failed" ELSE Request[n]
      <3> SUFFICES ASSUME NEW n \in Calls
                   PROVE  Request'[n] = IF Request[n] = "open" THEN "failed" ELSE Request[n]
        OBVIOUS
      <3>1. pc'[n] = pc[n] /\ fut'[n] = IF fut[n] = "unset" THEN "error" ELSE fut[n]
        BY <1>2
      <3> HIDE DEF Known, TypeOK
      <3> QED BY <3>1, RequestIs, RequestWas
    <2>2. Request' = [n \in Calls |-> IF Request[n] = "open" THEN "failed" ELSE Request[n]]
      BY <2>1 DEF Request
    <2>3. Abstract!Lose
      BY <1>3, <2>2 DEF Abstract!Lose, Request
    <2> QED BY <2>3 DEF Abstract!Next
  <1>4. CASE ~connected
    <2>1. \A i \in Ids : pending[i] = NoCall
      BY <1>4 DEF TableInv, DisconnectedIsDrained
    <2>2. fut' = fut
      BY <2>1, ConstantsAssumption DEF Drain, ConstantsAssumption
    <2> QED BY <1>4, <2>2, Stutter
  <1> QED BY <1>3, <1>4

\* complete_response(): the frame carries the answer to the call it wakes.
LEMMA CompleteSimulated ==
  ASSUME Known, CallInv, FrameInv, HeaderRead, Complete,
         UNCHANGED <<pc, result, connected>>
  PROVE  Abstract!Next \/ UNCHANGED AbstractVars
  <1> USE DEF Known, TypeOK
  <1>1. CASE UNCHANGED <<fut, answer, pending>>
    BY <1>1, Stutter
  <1>2. CASE ~ UNCHANGED <<fut, answer, pending>>
    <2> DEFINE n == pending[header.id]
    <2>1. /\ header.id # 0 /\ n # NoCall
          /\ fut' = [fut EXCEPT ![n] = "value"] /\ answer' = [answer EXCEPT ![n] = header.call]
      BY <1>2 DEF Complete
    <2>2. header.id \in Ids /\ n \in Calls
      BY <2>1 DEF Ids
    <2>3. connected
      BY <2>1, <2>2 DEF TableInv, DisconnectedIsDrained
    <2>4. header.call = n
      BY <2>1, <2>3 DEF FrameInv, FindsOwn, Finds
    <2>5. fut[n] = "unset"
      BY <2>1, <2>2 DEF TableInv, PromisesSetOnce
    <2> HIDE DEF n
    <2>6. \A m \in Calls : Request'[m] = IF m = n THEN "answered" ELSE Request[m]
      BY <2>1, <2>2, RequestIs, RequestWas
    <2>7. Request[n] = "open" /\ Request' = [Request EXCEPT ![n] = "answered"]
      BY <2>2, <2>5, <2>6, RequestIs DEF Request
    <2>8. Abstract!Answer(n)
      BY <2>1, <2>2, <2>3, <2>4, <2>7 DEF Abstract!Answer, Request
    <2> QED BY <2>2, <2>8 DEF Abstract!Next
  <1> QED BY <1>1, <1>2

LEMMA StepSimulated ==
  ASSUME SlowWrap, Known, CallInv, FrameInv, [Next]_vars
  PROVE  Abstract!Next \/ UNCHANGED AbstractVars
  <1>1. CASE OnWriteErr \/ OnHeaderBad \/ OnReadErr
    BY <1>1, DisconnectSimulated DEF OnWriteErr, OnHeaderBad, OnReadErr, Disconnect
  <1>2. CASE Join
    <2>1. connected' = FALSE
      BY <1>2 DEF Join, Known, TypeOK, LinkWatched, OneReader, OpKinds, ReadOps
    <2> QED BY <1>2, <2>1, DisconnectSimulated DEF Join
  <1>3. CASE OnHeaderBare \/ OnPayload
    <2>1. HeaderRead
      BY <1>3, Counts DEF OnHeaderBare, OnPayload, Run
    <2> QED BY <1>3, <2>1, CompleteSimulated DEF OnHeaderBare, OnPayload
  <1>4. CASE UNCHANGED <<callVars, tableVars>>
    BY <1>4, Stutter DEF callVars, tableVars
  <1>5. OnDoWrite \/ OnWriteOk \/ AfterPop \/ OnHeaderBody \/ OnTimer
          \/ OnTimerCancelled \/ OnClose \/ OnShutdown \/ Destroy \/ Environment
        => UNCHANGED <<callVars, tableVars>>
    BY DEF OnDoWrite, OnWriteOk, AfterPop, DoWrite, OnHeaderBody, OnTimer,
           OnTimerCancelled, OnClose, OnShutdown, Destroy, Environment,
           WriteCompletes, WriteFails, HeaderArrives, GarbageArrives,
           PayloadArrives, ReadFails, TimerExpires, PeerFails
  <1> QED BY CallSimulated, <1>1, <1>2, <1>3, <1>4, <1>5
          DEF Next, IoThread, WriteHandler, ReadHandler, Destructor, vars

(* What send_request() promises its callers (remote_conn.hpp:22-38), for any   *)
(* number of callers: a request asked on a live connection is answered once,    *)
(* with the answer to that very request, or fails; and the loss of the          *)
(* connection (on_disconnect()) fails all open requests in the step that makes  *)
(* it refuse new ones.                                                          *)
THEOREM ConnectionImplements == ASSUME SlowWrap PROVE Spec => ImplementsRequestReply
  <1>1. Init => Abstract!Init
    <2> SUFFICES ASSUME Init PROVE Abstract!Init
      OBVIOUS
    <2>1. \A n \in Calls : Request[n] = "new"
      BY RequestIs DEF Init
    <2>2. Request = [n \in Calls |-> "new"]
      BY <2>1 DEF Request
    <2> QED BY <2>2 DEF Init, Abstract!Init, Request
  <1>2. Known /\ CallInv /\ FrameInv /\ [Next]_vars => [Abstract!Next]_(Abstract!vars)
    BY StepSimulated, AbstractVarsAre DEF Abstract!vars, AbstractVars, Request
  <1> QED BY <1>1, <1>2, Strengthened, PTL DEF Spec, ImplementsRequestReply, Abstract!Spec

=============================================================================
