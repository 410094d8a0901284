----------------------------- MODULE RemoteConn -----------------------------
(***************************************************************************)
(* The client connection of unifs/remote_conn.{hpp,cpp}: any number of     *)
(* threads block in send_request() while one IO thread runs the handlers   *)
(* of an asio io_context -- the write queue, the read pipeline, the        *)
(* heartbeat timer -- and the destructor tears everything down.            *)
(*                                                                         *)
(* A handler is one action: each of them enters at most one critical       *)
(* section, and touches nothing else another thread can see.  The write    *)
(* completion handler enters two (pop_front, then do_write), so the IO     *)
(* thread has a control state between them (io).  asio promises no order   *)
(* between the handlers that are ready: any of them may run next.          *)
(*                                                                         *)
(* The socket, the timer and the server are external.  The server answers  *)
(* each frame at most once, in any order, and may send garbage; the link   *)
(* may fail at any moment.                                                 *)
(*                                                                         *)
(* The operators marked "Fault" are not part of the specification: each is *)
(* a plausible slip in the definition that follows it, kept to see that    *)
(* the properties notice it.                                               *)
(***************************************************************************)
EXTENDS Naturals, Sequences

CONSTANTS Calls,     \* the executions of send_request(), over all threads
          NoCall,    \* no call: a free entry of pending_, a heartbeat frame
          MaxId,     \* the largest request id (65535 in the code)
          MaxQueue,  \* a heartbeat is queued only behind fewer frames than this
          SlowWrap   \* TRUE: no request stays outstanding while MaxId others start

ASSUME ConstantsAssumption ==
  /\ NoCall \notin Calls
  /\ MaxId \in Nat \ {0}
  /\ MaxQueue \in Nat \ {0}
  /\ SlowWrap \in BOOLEAN

Ids == 1 .. MaxId
Frame == [id : 0 .. MaxId, call : Calls \union {NoCall}]
Heartbeat == [id |-> 0, call |-> NoCall]
RequestFrame(n, i) == [id |-> i, call |-> n]

(***************************************************************************)
(* The asynchronous operations of the io_context: posted closures          *)
(* ("do_write", "close", "shutdown"), operations in progress ("write",     *)
(* "header", "payload", "timer") and completions whose handler is ready    *)
(* ("writeOk", "writeErr", ...).  ops counts them.                         *)
(***************************************************************************)
WriteOps == {"do_write", "write", "writeOk", "writeErr"}
ReadOps  == {"header", "headerOk", "payload", "payloadOk", "readErr"}
TimerOps == {"timer", "timerOk", "timerErr"}
OpKinds  == WriteOps \union ReadOps \union TimerOps \union {"close", "shutdown"}

InProgress == {"write", "header", "payload", "timer"}

VARIABLES
  pc,            \* where each call of send_request() stands
  ticket,        \* its local req_id
  fut,           \* its future: "none", "unset", "value", "error" or "broken"
  answer,        \* the call whose answer the value of the future carries
  result,        \* what send_request() returned ("broken": fut.get() threw)
  pending,       \* pending_: the call whose promise is stored under an id
  next_req_id,   \* next_req_id_
  connected,     \* connected_
  write_queue,   \* write_queue_
  writing,       \* writing_
  ops,           \* the operations of io_ctx_
  io,            \* "idle", or "do_write" between pop_front and do_write()
  header,        \* header_buf_: the frame read last, with what follows it
  server,        \* external: frames the server holds, not answered yet
  link,          \* external: "up", "down" (peer gone) or "closed" (by us)
  life           \* "live", "closing" (destructor entered) or "destroyed"

callVars  == <<pc, ticket, fut, answer, result>>
tableVars == <<pending, next_req_id, connected>>
writeVars == <<write_queue, writing>>
ioVars    == <<ops, io, header>>
envVars   == <<server, link>>
vars == <<callVars, tableVars, writeVars, ioVars, envVars, life>>

TypeOK ==
  /\ pc \in [Calls -> {"start", "registered", "waiting", "done"}]
  /\ ticket \in [Calls -> 0 .. MaxId]
  /\ fut \in [Calls -> {"none", "unset", "value", "error", "broken"}]
  /\ answer \in [Calls -> Calls \union {NoCall}]
  /\ result \in [Calls -> {"none", "value", "error", "broken"}]
  /\ pending \in [Ids -> Calls \union {NoCall}]
  /\ next_req_id \in Ids
  /\ connected \in BOOLEAN
  /\ write_queue \in Seq(Frame)
  /\ writing \in BOOLEAN
  /\ ops \in [OpKinds -> Nat]
  /\ io \in {"idle", "do_write"}
  /\ header \in [id : 0 .. MaxId, call : Calls \union {NoCall},
                 rest : {"bare", "body", "bad"}]
  /\ server \in SUBSET Frame
  /\ link \in {"up", "down", "closed"}
  /\ life \in {"live", "closing", "destroyed"}

(***************************************************************************)
(* connect() returned: the first header read and the heartbeat timer are   *)
(* armed, and the IO thread runs.                                          *)
(***************************************************************************)
Init ==
  /\ pc = [n \in Calls |-> "start"]
  /\ ticket = [n \in Calls |-> 0]
  /\ fut = [n \in Calls |-> "none"]
  /\ answer = [n \in Calls |-> NoCall]
  /\ result = [n \in Calls |-> "none"]
  /\ pending = [i \in Ids |-> NoCall]
  /\ next_req_id = 1
  /\ connected = TRUE
  /\ write_queue = <<>>
  /\ writing = FALSE
  /\ ops = [k \in OpKinds |-> IF k \in {"header", "timer"} THEN 1 ELSE 0]
  /\ io = "idle"
  /\ header = [id |-> 0, call |-> NoCall, rest |-> "bare"]
  /\ server = {}
  /\ link = "up"
  /\ life = "live"

-----------------------------------------------------------------------------
(* Helpers shared by the callers and the handlers.                         *)

\* Operation a ends and b starts.
Move(a, b) == [ops EXCEPT ![a] = @ - 1, ![b] = @ + 1]

\* The handler of a ready operation k starts; it runs to its end.
Run(k) == io = "idle" /\ ops[k] > 0

\* Fault: the wrap-around is forgotten.
NextId_NoWrap(i) == i + 1

\* alloc_req_id_locked(): the id after i, 0 being reserved for heartbeats.
NextId(i) == IF i = MaxId THEN 1 ELSE i + 1

\* enqueue_write(): append, and post do_write() unless a write is under way.
\* o is the value of ops the caller of enqueue_write() has established.
EnqueueWrite(f, o) ==
  /\ write_queue' = IF f = Heartbeat /\ Len(write_queue) >= MaxQueue
                    THEN write_queue ELSE Append(write_queue, f)
  /\ writing' = TRUE
  /\ ops' = IF writing THEN o ELSE [o EXCEPT !["do_write"] = @ + 1]

\* heartbeat_timer_.cancel(): a wait in progress is aborted; one that has
\* already expired keeps its successful completion.
CancelTimer(o) == [o EXCEPT !["timerErr"] = @ + o["timer"], !["timer"] = 0]

\* Every promise still stored in pending_ gets an error, and pending_ is cleared.
Drain ==
  /\ fut' = [n \in Calls |-> IF \E i \in Ids : pending[i] = n
                             THEN "error" ELSE fut[n]]
  /\ pending' = [i \in Ids |-> NoCall]

\* on_disconnect(), at the end of a handler that leaves ops = o.
Disconnect(o) ==
  /\ ops' = CancelTimer(o)
  /\ connected' = FALSE
  /\ Drain

-----------------------------------------------------------------------------
(* send_request(), on any thread.                                          *)

\* Under pending_mutex_: the connection is already known to be dead.
Refuse(n) ==
  /\ pc[n] = "start" /\ life = "live" /\ ~connected
  /\ pc' = [pc EXCEPT ![n] = "done"]
  /\ result' = [result EXCEPT ![n] = "error"]
  /\ UNCHANGED <<ticket, fut, answer, tableVars, writeVars, ioVars, envVars, life>>

\* Fault: connected_ is checked before the lock, and may change before the insert.
Register_Unchecked(n) ==
  /\ pc[n] = "start" /\ life = "live"
  /\ pending[next_req_id] = NoCall
  /\ pc' = [pc EXCEPT ![n] = "registered"]
  /\ ticket' = [ticket EXCEPT ![n] = next_req_id]
  /\ fut' = [fut EXCEPT ![n] = "unset"]
  /\ pending' = [pending EXCEPT ![next_req_id] = n]
  /\ next_req_id' = NextId(next_req_id)
  /\ UNCHANGED <<answer, result, connected, writeVars, ioVars, envVars, life>>

\* Under pending_mutex_: take an id and store the promise under it.  A promise
\* already stored there is destroyed, which breaks its future.
Register(n) ==
  /\ pc[n] = "start" /\ life = "live" /\ connected
  /\ SlowWrap => pending[next_req_id] = NoCall
  /\ pc' = [pc EXCEPT ![n] = "registered"]
  /\ ticket' = [ticket EXCEPT ![n] = next_req_id]
  /\ fut' = [m \in Calls |-> IF m = n THEN "unset"
                             ELSE IF m = pending[next_req_id] THEN "broken"
                             ELSE fut[m]]
  /\ pending' = [pending EXCEPT ![next_req_id] = n]
  /\ next_req_id' = NextId(next_req_id)
  /\ UNCHANGED <<answer, result, connected, writeVars, ioVars, envVars, life>>

\* Under write_mutex_: queue the frame and start to wait for the future.
Submit(n) ==
  /\ pc[n] = "registered"
  /\ pc' = [pc EXCEPT ![n] = "waiting"]
  /\ EnqueueWrite(RequestFrame(n, ticket[n]), ops)
  /\ UNCHANGED <<ticket, fut, answer, result, tableVars, io, header, envVars, life>>

\* wait_for() found the future ready.
Return(n) ==
  /\ pc[n] = "waiting" /\ fut[n] # "unset"
  /\ pc' = [pc EXCEPT ![n] = "done"]
  /\ result' = [result EXCEPT ![n] = fut[n]]
  /\ UNCHANGED <<ticket, fut, answer, tableVars, writeVars, ioVars, envVars, life>>

\* wait_for() gave up: have the IO thread close the socket.
Timeout(n) ==
  /\ pc[n] = "waiting" /\ fut[n] = "unset"
  /\ pc' = [pc EXCEPT ![n] = "done"]
  /\ result' = [result EXCEPT ![n] = "error"]
  /\ ops' = [ops EXCEPT !["close"] = @ + 1]
  /\ UNCHANGED <<ticket, fut, answer, tableVars, writeVars, io, header, envVars, life>>

-----------------------------------------------------------------------------
(* Handlers, on the IO thread.                                             *)

\* Fault: writing_ stays set when the queue is found empty.
DoWrite_KeepsWriting(o) ==
  /\ ops' = IF write_queue = <<>> THEN o ELSE [o EXCEPT !["write"] = @ + 1]
  /\ io' = "idle"
  /\ UNCHANGED <<callVars, tableVars, writeVars, header, envVars, life>>

\* do_write(): start to write the front frame, or go idle; o as above.
DoWrite(o) ==
  /\ IF write_queue = <<>>
     THEN writing' = FALSE /\ ops' = o
     ELSE writing' = writing /\ ops' = [o EXCEPT !["write"] = @ + 1]
  /\ io' = "idle"
  /\ UNCHANGED <<callVars, tableVars, write_queue, header, envVars, life>>

OnDoWrite == Run("do_write") /\ DoWrite([ops EXCEPT !["do_write"] = @ - 1])

\* The write handler: pop_front under write_mutex_ ...
OnWriteOk ==
  /\ Run("writeOk")
  /\ ops' = [ops EXCEPT !["writeOk"] = @ - 1]
  /\ write_queue' = Tail(write_queue)
  /\ io' = "do_write"
  /\ UNCHANGED <<callVars, tableVars, writing, header, envVars, life>>

\* ... and do_write() under write_mutex_ again.
AfterPop == io = "do_write" /\ DoWrite(ops)

\* A failed write: writing_ stays set and the frame stays in the queue.
OnWriteErr ==
  /\ Run("writeErr")
  /\ Disconnect([ops EXCEPT !["writeErr"] = @ - 1])
  /\ UNCHANGED <<pc, ticket, answer, result, next_req_id, writeVars,
                 io, header, envVars, life>>

\* Fault: the entry is left in pending_.
Complete_NoErase ==
  IF header.id = 0 \/ pending[header.id] = NoCall
  THEN UNCHANGED <<fut, answer, pending>>
  ELSE /\ fut' = [fut EXCEPT ![pending[header.id]] = "value"]
       /\ answer' = [answer EXCEPT ![pending[header.id]] = header.call]
       /\ UNCHANGED pending

\* complete_response() for the frame in header_buf_.
Complete ==
  IF header.id = 0 \/ pending[header.id] = NoCall
  THEN UNCHANGED <<fut, answer, pending>>
  ELSE LET n == pending[header.id] IN
       /\ fut' = [fut EXCEPT ![n] = "value"]
       /\ answer' = [answer EXCEPT ![n] = header.call]
       /\ pending' = [pending EXCEPT ![header.id] = NoCall]

\* Fault: a bad header ends the reading, without on_disconnect().
OnHeaderBad_Returns ==
  /\ Run("headerOk") /\ header.rest = "bad"
  /\ ops' = [ops EXCEPT !["headerOk"] = @ - 1]
  /\ UNCHANGED <<callVars, tableVars, writeVars, io, header, envVars, life>>

\* on_header(): a length below the header's or above the limit.
OnHeaderBad ==
  /\ Run("headerOk") /\ header.rest = "bad"
  /\ Disconnect([ops EXCEPT !["headerOk"] = @ - 1])
  /\ UNCHANGED <<pc, ticket, answer, result, next_req_id, writeVars,
                 io, header, envVars, life>>

\* on_header(): no payload, so the response is complete.
OnHeaderBare ==
  /\ Run("headerOk") /\ header.rest = "bare"
  /\ Complete
  /\ ops' = Move("headerOk", "header")
  /\ UNCHANGED <<pc, ticket, result, next_req_id, connected, writeVars,
                 io, header, envVars, life>>

\* on_header(): go on to read the payload.
OnHeaderBody ==
  /\ Run("headerOk") /\ header.rest = "body"
  /\ ops' = Move("headerOk", "payload")
  /\ UNCHANGED <<callVars, tableVars, writeVars, io, header, envVars, life>>

\* Fault: start_read() is forgotten after a payload.
OnPayload_NoRead ==
  /\ Run("payloadOk")
  /\ Complete
  /\ ops' = [ops EXCEPT !["payloadOk"] = @ - 1]
  /\ UNCHANGED <<pc, ticket, result, next_req_id, connected, writeVars,
                 io, header, envVars, life>>

OnPayload ==
  /\ Run("payloadOk")
  /\ Complete
  /\ ops' = Move("payloadOk", "header")
  /\ UNCHANGED <<pc, ticket, result, next_req_id, connected, writeVars,
                 io, header, envVars, life>>

\* Fault: the drain is left to another critical section.
OnReadErr_FlagOnly ==
  /\ Run("readErr")
  /\ ops' = CancelTimer([ops EXCEPT !["readErr"] = @ - 1])
  /\ connected' = FALSE
  /\ UNCHANGED <<callVars, pending, next_req_id, writeVars, io, header, envVars, life>>

OnReadErr ==
  /\ Run("readErr")
  /\ Disconnect([ops EXCEPT !["readErr"] = @ - 1])
  /\ UNCHANGED <<pc, ticket, answer, result, next_req_id, writeVars,
                 io, header, envVars, life>>

\* The heartbeat handler: queue a heartbeat and arm the timer again.
OnTimer ==
  /\ Run("timerOk")
  /\ EnqueueWrite(Heartbeat, Move("timerOk", "timer"))
  /\ UNCHANGED <<callVars, tableVars, io, header, envVars, life>>

OnTimerCancelled ==
  /\ Run("timerErr")
  /\ ops' = [ops EXCEPT !["timerErr"] = @ - 1]
  /\ UNCHANGED <<callVars, tableVars, writeVars, io, header, envVars, life>>

\* The closure a timed-out call posted.
OnClose ==
  /\ Run("close")
  /\ ops' = [ops EXCEPT !["close"] = @ - 1]
  /\ link' = "closed"
  /\ UNCHANGED <<callVars, tableVars, writeVars, io, header, server, life>>

\* The closure the destructor posted.
OnShutdown ==
  /\ Run("shutdown")
  /\ ops' = CancelTimer([ops EXCEPT !["shutdown"] = @ - 1])
  /\ link' = "closed"
  /\ UNCHANGED <<callVars, tableVars, writeVars, io, header, server, life>>

-----------------------------------------------------------------------------
(* ~RemoteConn().                                                          *)

\* The last shared_ptr is gone, so no call is in progress and none starts.
Destroy ==
  /\ life = "live"
  /\ \A n \in Calls : pc[n] \in {"start", "done"}
  /\ life' = "closing"
  /\ ops' = [ops EXCEPT !["shutdown"] = @ + 1]
  /\ UNCHANGED <<callVars, tableVars, writeVars, io, header, envVars>>

\* io_ctx_.run() returns once nothing is left to run or wait for; then join()
\* returns and the requests without a response are woken up.
Join ==
  /\ life = "closing"
  /\ io = "idle" /\ \A k \in OpKinds : ops[k] = 0
  /\ life' = "destroyed"
  /\ Drain
  /\ UNCHANGED <<pc, ticket, answer, result, next_req_id, connected,
                 writeVars, ioVars, envVars>>

-----------------------------------------------------------------------------
(* External: the socket, the timer, the server.                            *)

WriteCompletes ==
  /\ ops["write"] > 0 /\ link # "closed"
  /\ ops' = Move("write", "writeOk")
  /\ server' = IF link = "up" THEN server \union {Head(write_queue)} ELSE server
  /\ UNCHANGED <<callVars, tableVars, writeVars, io, header, link, life>>

\* The frame may have reached the server in spite of the error.
WriteFails ==
  /\ ops["write"] > 0 /\ link # "up"
  /\ ops' = Move("write", "writeErr")
  /\ \/ server' = server
     \/ server' = server \union {Head(write_queue)}
  /\ UNCHANGED <<callVars, tableVars, writeVars, io, header, link, life>>

\* The header of the server's answer to f arrives (heartbeats have no payload).
HeaderArrives ==
  /\ ops["header"] > 0 /\ link # "closed"
  /\ \E f \in server, r \in {"bare", "body"} :
       /\ f = Heartbeat => r = "bare"
       /\ header' = [id |-> f.id, call |-> f.call, rest |-> r]
       /\ server' = server \ {f}
  /\ ops' = Move("header", "headerOk")
  /\ UNCHANGED <<callVars, tableVars, writeVars, io, link, life>>

GarbageArrives ==
  /\ ops["header"] > 0 /\ link # "closed"
  /\ header' = [id |-> 0, call |-> NoCall, rest |-> "bad"]
  /\ ops' = Move("header", "headerOk")
  /\ UNCHANGED <<callVars, tableVars, writeVars, io, envVars, life>>

PayloadArrives ==
  /\ ops["payload"] > 0 /\ link # "closed"
  /\ ops' = Move("payload", "payloadOk")
  /\ UNCHANGED <<callVars, tableVars, writeVars, io, header, envVars, life>>

ReadFails ==
  /\ link # "up"
  /\ \E k \in {"header", "payload"} : ops[k] > 0 /\ ops' = Move(k, "readErr")
  /\ UNCHANGED <<callVars, tableVars, writeVars, io, header, envVars, life>>

\* The wait is 60 seconds long: what was ready when the timer was armed has run
\* by then, and a closed socket has aborted what was outstanding on it.  What
\* becomes ready later may still run before the heartbeat.
TimerExpires ==
  /\ ops["timer"] > 0
  /\ io = "idle" /\ \A k \in OpKinds \ InProgress : ops[k] = 0
  /\ link = "closed" => ops["write"] + ops["header"] + ops["payload"] = 0
  /\ ops' = Move("timer", "timerOk")
  /\ UNCHANGED <<callVars, tableVars, writeVars, io, header, envVars, life>>

PeerFails ==
  /\ link = "up"
  /\ link' = "down"
  /\ UNCHANGED <<callVars, tableVars, writeVars, ioVars, server, life>>

-----------------------------------------------------------------------------
Call(n) == Refuse(n) \/ Register(n) \/ Submit(n) \/ Return(n) \/ Timeout(n)

WriteHandler == OnDoWrite \/ OnWriteOk \/ AfterPop \/ OnWriteErr
ReadHandler ==
  OnHeaderBad \/ OnHeaderBare \/ OnHeaderBody \/ OnPayload \/ OnReadErr
IoThread ==
  \/ WriteHandler \/ ReadHandler
  \/ OnTimer \/ OnTimerCancelled \/ OnClose \/ OnShutdown

Destructor == Destroy \/ Join

Environment ==
  \/ WriteCompletes \/ WriteFails
  \/ HeaderArrives \/ GarbageArrives \/ PayloadArrives \/ ReadFails
  \/ TimerExpires \/ PeerFails

Next == (\E n \in Calls : Call(n)) \/ IoThread \/ Destructor \/ Environment

Spec == Init /\ [][Next]_vars

(***************************************************************************)
(* run() serves its queue in turn, so a handler that is ready again and    *)
(* again between others runs sooner or later (SF: io is busy for a step    *)
(* after each pop_front); a thread in send_request() goes on once it can,  *)
(* join() returns once run() has, the kernel fails what is outstanding on  *)
(* a dead or closed socket, and time passes.  Nothing is assumed of the    *)
(* server, of a working link, of the 60 seconds of wait_for(), or of a     *)
(* caller that has not begun.                                              *)
(***************************************************************************)
ReadFairness == SF_vars(ReadHandler) /\ WF_vars(AfterPop) /\ WF_vars(ReadFails)
CallerFairness == \A n \in Calls : WF_vars(Submit(n)) /\ WF_vars(Return(n))
TeardownFairness ==
  /\ SF_vars(WriteHandler) /\ WF_vars(WriteFails)
  /\ SF_vars(OnTimer) /\ SF_vars(OnTimerCancelled) /\ WF_vars(TimerExpires)
  /\ SF_vars(OnClose) /\ SF_vars(OnShutdown) /\ WF_vars(Join)

\* What a caller needs to get away from a dead connection, and all of it.
CallerSpec == Spec /\ ReadFairness /\ CallerFairness
FairSpec == CallerSpec /\ TeardownFairness

-----------------------------------------------------------------------------
(* Properties.                                                             *)

InSend(n) == pc[n] \in {"registered", "waiting"}

\* A dead connection holds no promise: the check of connected_ and the insert
\* in send_request() are one critical section with the drain in on_disconnect()
\* (remote_conn.cpp:83-85, 218-219).
DisconnectedIsDrained == ~connected => \A i \in Ids : pending[i] = NoCall

\* Whoever waits is owed something: as long as the future of a call in progress
\* is not set, its promise is in pending_, where complete_response(),
\* on_disconnect() or the destructor will find it.
NoLostPromise ==
  \A n \in Calls : (InSend(n) /\ fut[n] = "unset") =>
                   \E i \in Ids : pending[i] = n

\* set_value() is called on a promise once: what pending_ stores is not yet
\* set, and no promise is stored twice.
PromisesSetOnce ==
  \A i, j \in Ids : pending[i] # NoCall =>
    /\ fut[pending[i]] = "unset"
    /\ pending[i] = pending[j] => i = j

\* At most one chain of do_write() and async_write() exists, and none while
\* writing_ is unset; otherwise frames would interleave on the socket.
OneWriter ==
  ops["do_write"] + ops["write"] + ops["writeOk"] + ops["writeErr"]
    + (IF io = "do_write" THEN 1 ELSE 0) <= IF writing THEN 1 ELSE 0

\* The frame being written stays at the front until the handler pops it
\* (remote_conn.cpp:143-144): its buffer belongs to the operation until then.
FrontAlive ==
  (\E k \in {"write", "writeOk", "writeErr"} : ops[k] > 0) => write_queue # <<>>

\* A frame queued on a live connection has a writer on its way: nobody leaves
\* the queue non-empty with writing_ set and nothing running.
NoStalledQueue ==
  (connected /\ (writing \/ write_queue # <<>>)) =>
    \/ io = "do_write"
    \/ \E k \in WriteOps : ops[k] > 0

\* One read is outstanding, and on a live connection always: the end of the
\* connection cannot go unnoticed.
OneReader ==
  LET reads == ops["header"] + ops["headerOk"] + ops["payload"]
               + ops["payloadOk"] + ops["readErr"]
  IN reads <= 1 /\ (connected => reads = 1)

\* One heartbeat wait at a time, and one armed or due while the connection lives.
OneHeartbeat ==
  /\ ops["timer"] + ops["timerOk"] <= 1
  /\ connected /\ life = "live" => ops["timer"] + ops["timerOk"] = 1

\* The parts above as the runs check them: nobody waits for a promise that no
\* one will set, before and after the connection is lost ...
PendingIsComplete == NoLostPromise /\ DisconnectedIsDrained

\* ... every frame has one writer, and keeps its buffer (enqueue_write, do_write)
WriteChain == OneWriter /\ FrontAlive /\ NoStalledQueue

\* ... and a dead link is noticed, by the read or by the heartbeat.
LinkWatched == OneReader /\ OneHeartbeat

\* Once the link is gone (peer, timeout of somebody else) every call returns,
\* without waiting for its own 60 seconds.
NoStrandedCaller ==
  \A n \in Calls : (InSend(n) /\ link # "up") ~> pc[n] = "done"

\* remote_conn.hpp:25: the last release of the shared_ptr triggers the
\* teardown -- the destructor comes to its end.
TeardownEnds == life = "closing" ~> life = "destroyed"

-----------------------------------------------------------------------------
(* RemoteConn implements RequestReply.                                     *)

RequestState(n) ==
  CASE fut[n] = "none"  -> IF pc[n] = "done" THEN "failed" ELSE "new"
    [] fut[n] = "unset" -> "open"
    [] fut[n] = "value" -> "answered"
    [] OTHER            -> "failed"

Abstract == INSTANCE RequestReply WITH
  request <- [n \in Calls |-> RequestState(n)],
  reply   <- answer,
  verdict <- result,
  up      <- connected

\* Seen by its callers the connection behaves as RequestReply says: every
\* request asked is answered with its own answer or failed, once, and the loss
\* of the connection fails all open requests in the step that makes the
\* connection refuse new ones.
ImplementsRequestReply == Abstract!Spec

=============================================================================
