---------------------------- MODULE RequestReply ----------------------------
(***************************************************************************)
(* What RemoteConn promises its callers (unifs/remote_conn.hpp:22-38),     *)
(* with no queue, no id and no thread: a request asked on a live           *)
(* connection is answered once, with its own answer, or fails; the loss of *)
(* the connection fails every open request at once, and later ones are     *)
(* refused.  A caller reports what became of its request, or gives up.     *)
(***************************************************************************)
CONSTANTS Calls, NoCall

VARIABLES
  request,  \* request[n]: "new", "open", "answered" or "failed"
  reply,    \* reply[n]: the call whose answer the request got
  verdict,  \* verdict[n]: what the caller was told
  up        \* the connection accepts requests

vars == <<request, reply, verdict, up>>

Init ==
  /\ request = [n \in Calls |-> "new"]
  /\ reply = [n \in Calls |-> NoCall]
  /\ verdict = [n \in Calls |-> "none"]
  /\ up = TRUE

Ask(n) ==
  /\ up /\ request[n] = "new"
  /\ request' = [request EXCEPT ![n] = "open"]
  /\ UNCHANGED <<reply, verdict, up>>

Refuse(n) ==
  /\ ~up /\ request[n] = "new"
  /\ request' = [request EXCEPT ![n] = "failed"]
  /\ verdict' = [verdict EXCEPT ![n] = "error"]
  /\ UNCHANGED <<reply, up>>

Answer(n) ==
  /\ up /\ request[n] = "open"
  /\ request' = [request EXCEPT ![n] = "answered"]
  /\ reply' = [reply EXCEPT ![n] = n]
  /\ UNCHANGED <<verdict, up>>

Lose ==
  /\ up
  /\ request' = [n \in Calls |-> IF request[n] = "open" THEN "failed"
                                 ELSE request[n]]
  /\ up' = FALSE
  /\ UNCHANGED <<reply, verdict>>

Report(n) ==
  /\ verdict[n] = "none"
  /\ \/ request[n] = "answered" /\ verdict' = [verdict EXCEPT ![n] = "value"]
     \/ request[n] = "failed" /\ verdict' = [verdict EXCEPT ![n] = "error"]
  /\ UNCHANGED <<request, reply, up>>

\* The caller stops waiting; its request stays open and may be answered yet.
GiveUp(n) ==
  /\ request[n] = "open" /\ verdict[n] = "none"
  /\ verdict' = [verdict EXCEPT ![n] = "error"]
  /\ UNCHANGED <<request, reply, up>>

Next ==
  \/ \E n \in Calls : Ask(n) \/ Refuse(n) \/ Answer(n) \/ Report(n) \/ GiveUp(n)
  \/ Lose

Spec == Init /\ [][Next]_vars

=============================================================================
