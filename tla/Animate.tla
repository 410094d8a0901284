------------------------------ MODULE Animate ------------------------------
(***************************************************************************)
(* The animation of the image on display: Doc::onAnimate() (Doc.cpp), the  *)
(* callback of a timer that is set anew for every frame, with nextFrame()  *)
(* and getFrameDelay() of the codecs.                                      *)
(*                                                                         *)
(* The frames follow a schedule: "due" is _tmstart + _totaldelay, the time *)
(* at which the frame on display ends.  A tick that comes late skips what  *)
(* it has missed, and starts the animation over when it has missed too     *)
(* much.  GetTickCount() wraps around, _tmstart does not.                  *)
(*                                                                         *)
(* One turn of the loop that skips frames is an action ("at" is where a    *)
(* tick stands), so that a loop that does not end can be seen.  The unit   *)
(* of time is the 10 milliseconds of the shortest timer.  The operators    *)
(* marked "Fault" are not part of the specification.  All frames decode.   *)
(***************************************************************************)
EXTENDS Integers, Sequences

CONSTANTS
  Movies,    \* the animations; 0 loops (a negative number in the code, too) are endless
  Wrap,      \* the period of GetTickCount()
  Patience,  \* the least a tick may be off before the animation starts over
  Slips,     \* by how much a timer may be off, before or after its time
  Delays,    \* by how much it may be late when the UI thread was busy
  MaxLate,   \* the bound on the ticks of Delays
  Horizon    \* _totaldelay is not told from larger ones from here on

None == -1

ASSUME AnimateAssumption ==
  /\ Wrap \in Nat \ {0} /\ Patience \in Nat /\ MaxLate \in Nat
  /\ Movies \subseteq [delays : Seq(Nat), loops : Nat]
  /\ \A m \in Movies : Len(m.delays) > 1
  /\ Slips \subseteq Int /\ Delays \subseteq Nat
  /\ Horizon \in Nat \ {0}

VARIABLES
  movie,  \* _image
  pos,    \* the frame its codec is at; Count when it has run out of them
  frame,  \* _curframe
  loop,   \* _curloop; in an endless animation 1 stands for every larger number
  due,    \* _tmstart + _totaldelay
  total,  \* _totaldelay, up to Horizon
  now,    \* GetTickCount(); in a tick its tmcur
  timer,  \* the delay of the timer, or None
  at,     \* "idle", or in a tick "loop" or "end"
  reset,  \* its reset
  late    \* how many ticks came too late so far (a bound, not in the code)

vars == <<movie, pos, frame, loop, due, total, now, timer, at, reset, late>>

Count == Len(movie.delays)
Loops == movie.loops
FrameDelay(p) == movie.delays[p + 1]
\* The frame whose picture is kept: running out of frames leaves the last one.
Shown == IF pos = Count THEN Count - 1 ELSE pos

Least(m, n) == IF m <= n THEN m ELSE n
Most(m, n) == IF m >= n THEN m ELSE n

TypeOK ==
  /\ movie \in Movies
  /\ pos \in 0 .. Count /\ frame \in 0 .. Count - 1
  /\ loop \in -1 .. Most(Loops, 1)
  /\ due \in Int /\ total \in 0 .. Horizon
  /\ now \in 0 .. Wrap - 1
  /\ timer \in Nat \union {None}
  /\ at \in {"idle", "loop", "end"} /\ reset \in BOOLEAN
  /\ late \in 0 .. MaxLate

(* open() has shown the first frame.  Up to Horizon the sum is exact.      *)
Init ==
  /\ movie \in Movies
  /\ pos = 0 /\ frame = 0 /\ loop = 0
  /\ now \in 0 .. Wrap - 1
  /\ total = Least(FrameDelay(0), Horizon) /\ due = now + FrameDelay(0)
  /\ timer = Most(FrameDelay(0), 1)
  /\ at = "idle" /\ reset = FALSE
  /\ late = 0

-----------------------------------------------------------------------------
(* A tick.  _tmstart is set back by the period of the clock until the      *)
(* frame on display has begun.  The check of the rounds with which a tick  *)
(* begins never holds: a timer is only set while there are rounds left.    *)
\* Fault: the clock is not expected to wrap.
Unwrapped_Not(d, begun, t) == d

Unwrapped(d, begun, t) ==
  IF begun <= t THEN d ELSE d - Wrap * (((begun - t - 1) \div Wrap) + 1)

Allowed == Most(FrameDelay(pos) * 10, Patience)

Decide(t) ==
  LET end == Unwrapped(due, due - FrameDelay(pos), t)
      off == end > t + Allowed \/ end < t - Allowed
  IN  CASE off ->   \* "shifted too much -- restart"
             /\ due' = t + total
             /\ frame' = Count - 1
             /\ at' = "loop" /\ reset' = TRUE /\ timer' = None
        [] ~off /\ end > t + 2 ->   \* "current frame not due yet"
             /\ due' = end
             /\ timer' = end - t
             /\ UNCHANGED <<frame, at, reset>>
        [] OTHER ->
             /\ due' = end
             /\ at' = "loop" /\ reset' = FALSE /\ timer' = None
             /\ UNCHANGED frame

Tick ==
  /\ at = "idle" /\ timer # None
  /\ \/ /\ \E s \in Slips : timer + s >= 0 /\ now' = (now + timer + s) % Wrap
        /\ UNCHANGED late
     \/ /\ late < MaxLate /\ late' = late + 1
        /\ \E d \in Delays : now' = (now + timer + d) % Wrap
  /\ Decide(now')
  /\ UNCHANGED <<movie, pos, loop, total>>

-----------------------------------------------------------------------------
(* The loop.  nextFrame() goes to the next frame, or to the first one.     *)
NextPos == IF reset THEN 0 ELSE pos + 1
NextCount == IF reset THEN 0 ELSE frame + 1
Exhausted == NextPos = Count

\* Running out of frames ends a round.
Round == IF Exhausted THEN Least(loop + 1, Most(Loops, 1)) ELSE loop
Over == Exhausted /\ Loops > 0 /\ loop + 1 >= Loops

\* Fault: _curframe is left where nextFrame() put it.
LastFrame_Counts ==
  /\ at = "loop" /\ Over
  /\ pos' = NextPos /\ frame' = NextCount /\ loop' = loop + 1
  /\ at' = "end"
  /\ UNCHANGED <<movie, due, total, now, timer, reset, late>>

(* The last round is over, and its last frame stays.                       *)
LastFrame ==
  /\ at = "loop" /\ Over
  /\ pos' = NextPos /\ frame' = Count - 1 /\ loop' = loop + 1
  /\ at' = "end"
  /\ UNCHANGED <<movie, due, total, now, timer, reset, late>>

\* Fault: an animation of nothing but frames without delay goes on looking for one.
NextFrame_NeverStill ==
  /\ at = "loop" /\ ~Over
  /\ LET next == IF Exhausted THEN 0 ELSE NextPos
     IN  /\ pos' = next
         /\ frame' = (IF Exhausted THEN 0 ELSE NextCount)
         /\ total' = Least(total + FrameDelay(next), Horizon)
         /\ due' = due + FrameDelay(next)
  /\ loop' = Round
  /\ at' = IF due' <= now + 1 THEN "loop" ELSE "end"
  /\ UNCHANGED <<movie, now, timer, reset, late>>

\* Fault: the frame is counted on when the codec is rewound.
NextFrame_CountsOn ==
  /\ at = "loop" /\ ~Over
  /\ LET next == IF Exhausted THEN 0 ELSE NextPos
     IN  /\ pos' = next
         /\ frame' = (IF Exhausted THEN 1 ELSE NextCount)
         /\ total' = Least(total + FrameDelay(next), Horizon)
         /\ due' = due + FrameDelay(next)
  /\ loop' = Round
  /\ at' = IF due' <= now + 1 THEN "loop" ELSE "end"
  /\ UNCHANGED <<movie, now, timer, reset, late>>

(* A frame is taken, in a new round if the last one was the last.  Frames  *)
(* without delay are skipped, and others if the tick is behind; but if     *)
(* there are none with a delay, the animation is to stay at the first.     *)
\* A codec that counts more than one frame has more than one: the branch for
\* "only one effective frame" is never taken, since _curframe = pos.
NextFrame ==
  /\ at = "loop" /\ ~Over
  /\ LET next == IF Exhausted THEN 0 ELSE NextPos
         still == FrameDelay(next) = 0 /\ Round > 0 /\ total = 0
     IN  IF still
         THEN /\ pos' = 0 /\ frame' = 0 /\ loop' = -1
              /\ at' = "end"
              /\ UNCHANGED <<due, total>>
         ELSE /\ pos' = next
              /\ frame' = (IF Exhausted THEN 0 ELSE NextCount)
              /\ loop' = Round
              /\ total' = Least(total + FrameDelay(next), Horizon)
              /\ due' = due + FrameDelay(next)
              /\ at' = IF due' <= now + 1 THEN "loop" ELSE "end"
  /\ UNCHANGED <<movie, now, timer, reset, late>>

-----------------------------------------------------------------------------
(* The timer for the next frame.  The clock may wrap within a tick.        *)
Running == (Loops <= 0 /\ loop >= 0) \/ loop < Loops

\* Fault: a clock that wraps within the tick goes unnoticed.
Rearm_Wraps(e) ==
  /\ now' = (now + e) % Wrap
  /\ UNCHANGED due
  /\ timer' = Most(Least(IF due > now THEN due - now ELSE 1, FrameDelay(pos) * 5), 1)

Rearm(e) ==
  /\ now' = (now + e) % Wrap
  /\ due' = IF now' < now THEN due - Wrap ELSE due
  /\ timer' = Most(Least(IF due' > now THEN due' - now ELSE 1, FrameDelay(pos) * 5), 1)

Finish ==
  /\ at = "end"
  /\ at' = "idle"
  /\ IF Running THEN \E e \in {0, 1} : Rearm(e) ELSE UNCHANGED <<now, due, timer>>
  /\ UNCHANGED <<movie, pos, frame, loop, total, reset, late>>

Next == Tick \/ LastFrame \/ NextFrame \/ Finish

Spec == Init /\ [][Next]_vars

(* A timer that is set fires, and a tick runs on.                          *)
FairSpec == Spec /\ WF_vars(Next)

-----------------------------------------------------------------------------
Idle == at = "idle"
Stopped == Idle /\ timer = None
NeverLate == [](late = 0)
\* Doc.cpp:466 takes a tick before the end of a frame without delay for a wrap.
Timed == \A p \in 0 .. Count - 1 : FrameDelay(p) > 0
\* A tick that is not late is at most 10 ms before its time, no later than what
\* Doc.cpp:474 allows, and no frame lasts for a period of the clock.
InTime == \A m \in Movies : \A p \in 1 .. Len(m.delays) :
            m.delays[p] > 0 =>
              /\ m.delays[p] + 2 <= Wrap
              /\ \A s \in Slips : /\ -1 <= s /\ s + 1 <= Most(m.delays[p] * 10, Patience)
                                  /\ m.delays[p] + s + 2 <= Wrap

(* The frame Doc counts is the frame of the codec, through rounds, skipped *)
(* frames and restarts (_curframe against the codec's own counter).        *)
CountsWithCodec == Idle => frame = Shown

(* While no tick comes much too late, the frame on display is the one the  *)
(* schedule asks for: it is never shown more than 20 ms before its time,   *)
(* nor after it, however often the clock wraps, between ticks or in one.   *)
OnSchedule ==
  Timed /\ late = 0 /\ Idle /\ timer # None =>
    due - FrameDelay(pos) <= now + 2 /\ now <= due

(* An animation stops on the last frame of its last round, and nowhere     *)
(* else, not even after a restart.                                         *)
StopsOnLast == Stopped => Loops > 0 /\ loop = Loops /\ Shown = Count - 1

(* Counter, codec and end agree.                                           *)
CountsAgree == CountsWithCodec /\ StopsOnLast

\* A restart onto a first frame without delay, the schedule at its beginning: no
\* turn of the loop brings another frame, nor any time.
Stuck == at = "loop" /\ reset /\ FrameDelay(0) = 0 /\ due <= now + 1

(* onAnimate() comes back, late or not, whatever frames are without delay: *)
(* it skips them and stays at the first if there are no others.  Only a    *)
(* restart that is stuck does not (EveryTickReturns).                      *)
TickReturns == (~Idle /\ ~Stuck) ~> Idle

(* "all frames 0-delay -- stick on frame 0" (Doc.cpp:515): onAnimate()     *)
(* always comes back.  It does not: Doc.cpp:487-525 is stuck.              *)
EveryTickReturns == ~Idle ~> Idle

(* An animation of so many rounds ends, if no tick comes much too late.    *)
RoundsEnd == Timed /\ Loops > 0 /\ NeverLate => <>Stopped

(* One without end goes on, if no tick comes much too late.                *)
GoesOn == Timed /\ Loops <= 0 /\ NeverLate => []<><<Shown' # Shown>>_vars

(* An animation neither stops early nor goes on for ever.                  *)
PlaysOn == RoundsEnd /\ GoesOn

=============================================================================
