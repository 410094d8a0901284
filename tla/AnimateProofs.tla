--------------------------- MODULE AnimateProofs ---------------------------
(***************************************************************************)
(* Theorems about Animate, for any animations, any clock and any lateness  *)
(* of the ticks.                                                           *)
(***************************************************************************)
EXTENDS Animate, TLAPS

LEMMA MovieType ==
  ASSUME movie \in Movies
  PROVE  /\ Count \in Nat /\ Count > 1
         /\ Loops \in Nat
         /\ \A p \in 0 .. Count - 1 : FrameDelay(p) \in Nat
  BY AnimateAssumption DEF AnimateAssumption, Count, Loops, FrameDelay

LEMMA ModType ==
  ASSUME NEW n \in Int
  PROVE  n % Wrap \in 0 .. Wrap - 1
  BY AnimateAssumption DEF AnimateAssumption

LEMMA UnwrappedType ==
  ASSUME NEW d \in Int, NEW b \in Int, NEW t \in Int
  PROVE  Unwrapped(d, b, t) \in Int
  BY AnimateAssumption DEF AnimateAssumption, Unwrapped

-----------------------------------------------------------------------------
(* Between two steps of a tick the codec and Doc's counter agree, but for  *)
(* a restart that is under way; a timer is set exactly between ticks, and  *)
(* the rounds are over exactly when the codec has run out of frames.       *)
Counting ==
  /\ at = "loop" => /\ pos < Count /\ timer = None
                    /\ ~reset => frame = pos
                    /\ Loops > 0 => loop < Loops
  /\ at # "loop" => /\ frame = Shown
                    /\ pos = Count => Loops > 0 /\ loop = Loops
                    /\ pos < Count /\ Loops > 0 => loop < Loops
  /\ at = "end" => timer = None
  /\ at = "idle" => (timer = None <=> pos = Count)

Inv == TypeOK /\ Counting

LEMMA InitInv == Init => Inv
  <1> SUFFICES ASSUME Init PROVE Inv
    OBVIOUS
  <1> movie \in Movies
    BY DEF Init
  <1>1. FrameDelay(0) \in Nat /\ Count > 1 /\ Count \in Nat /\ Loops \in Nat
    BY MovieType
  <1>2. now \in 0 .. Wrap - 1 /\ now \in Int /\ Horizon \in Nat
    BY AnimateAssumption DEF Init, AnimateAssumption
  <1>3. loop \in -1 .. Most(Loops, 1) /\ (Loops > 0 => loop < Loops)
    BY <1>1 DEF Init, Most
  <1>4. due \in Int /\ total \in 0 .. Horizon /\ timer \in Nat /\ timer # None
    BY <1>1, <1>2 DEF Init, Least, Most, None
  <1>5. late \in 0 .. MaxLate
    BY AnimateAssumption DEF Init, AnimateAssumption
  <1>6. TypeOK
    <2>1. pos \in 0 .. Count /\ frame \in 0 .. Count - 1
      BY <1>1 DEF Init
    <2>2. at \in {"idle", "loop", "end"} /\ reset \in BOOLEAN
      BY DEF Init
    <2> QED
      BY <2>1, <2>2, <1>2, <1>3, <1>4, <1>5 DEF TypeOK
  <1>7. Counting
    BY <1>1, <1>3, <1>4 DEF Init, Counting, Shown
  <1> QED
    BY <1>6, <1>7 DEF Inv

(* A tick only moves the clock and decides; it is only run when a timer    *)
(* was set, so the codec is at a frame.                                    *)
LEMMA TickInv == Inv /\ Tick => Inv'
  <1> SUFFICES ASSUME Inv, Tick PROVE Inv'
    OBVIOUS
  <1> movie \in Movies /\ movie' = movie
    BY DEF Inv, TypeOK, Tick
  <1>1. Count \in Nat /\ Count > 1 /\ Loops \in Nat /\ Count' = Count /\ Loops' = Loops
    BY MovieType DEF Count, Loops
  <1>2. pos < Count /\ pos \in 0 .. Count - 1 /\ frame = Shown /\ frame = pos
    BY <1>1 DEF Inv, TypeOK, Counting, Tick, Shown
  <1>3. now' \in 0 .. Wrap - 1 /\ now' \in Int /\ late' \in 0 .. MaxLate
    <2>1. timer \in Int
      BY DEF Inv, TypeOK, None
    <2>2. now \in Int /\ late \in 0 .. MaxLate /\ MaxLate \in Nat
      BY AnimateAssumption DEF AnimateAssumption, Inv, TypeOK
    <2>3. CASE /\ \E s \in Slips : timer + s >= 0 /\ now' = (now + timer + s) % Wrap
               /\ UNCHANGED late
      <3>1. PICK s \in Slips : now' = (now + timer + s) % Wrap
        BY <2>3
      <3>2. now + timer + s \in Int
        BY <2>1, <2>2, AnimateAssumption DEF AnimateAssumption
      <3>3. now' \in 0 .. Wrap - 1
        BY <3>1, <3>2, ModType
      <3> QED
        BY <3>3, <2>2, <2>3, AnimateAssumption DEF AnimateAssumption
    <2>4. CASE /\ late < MaxLate /\ late' = late + 1
               /\ \E d \in Delays : now' = (now + timer + d) % Wrap
      <3>1. PICK d \in Delays : now' = (now + timer + d) % Wrap
        BY <2>4
      <3>2. now + timer + d \in Int
        BY <2>1, <2>2, AnimateAssumption DEF AnimateAssumption
      <3>3. now' \in 0 .. Wrap - 1
        BY <3>1, <3>2, ModType
      <3> QED
        BY <3>3, <2>2, <2>4, AnimateAssumption DEF AnimateAssumption
    <2> QED
      BY <2>3, <2>4 DEF Tick
  <1> DEFINE end == Unwrapped(due, due - FrameDelay(pos), now')
  <1>4. end \in Int /\ FrameDelay(pos) \in Nat /\ total \in Int /\ due \in Int
    <2>1. FrameDelay(pos) \in Nat /\ due \in Int /\ total \in Int
      BY <1>2, MovieType, AnimateAssumption DEF AnimateAssumption, Inv, TypeOK
    <2>2. due - FrameDelay(pos) \in Int
      BY <2>1
    <2> QED
      BY <2>1, <2>2, <1>3, UnwrappedType
  <1>5. /\ due' \in Int
        /\ \/ at' = "loop" /\ timer' = None /\ reset' \in BOOLEAN
              /\ frame' \in 0 .. Count - 1 /\ (~reset' => frame' = pos)
           \/ at' = "idle" /\ timer' \in Nat /\ reset' = reset /\ frame' = frame
    <2> DEFINE off == end > now' + Allowed \/ end < now' - Allowed
    <2>1. CASE off
      <3>1. due' = now' + total /\ frame' = Count - 1 /\ at' = "loop" /\ reset' = TRUE
            /\ timer' = None
        BY <2>1 DEF Tick, Decide
      <3> QED
        BY <3>1, <1>1, <1>3, <1>4
    <2>2. CASE ~off /\ end > now' + 2
      BY <2>2, <1>3, <1>4 DEF Tick, Decide
    <2>3. CASE ~off /\ ~(end > now' + 2)
      BY <2>3, <1>2, <1>4 DEF Tick, Decide
    <2> QED
      BY <2>1, <2>2, <2>3
  <1>6. TypeOK'
    <2>1. pos' = pos /\ loop' = loop /\ total' = total
      BY DEF Tick
    <2> QED
      BY <2>1, <1>1, <1>2, <1>3, <1>5 DEF Inv, TypeOK, None
  <1>7. Counting'
    <2>1. pos' = pos /\ loop' = loop
      BY DEF Tick
    <2>2. Loops > 0 => loop < Loops
      BY <1>2 DEF Inv, Counting, Tick
    <2> QED
      BY <2>1, <2>2, <1>1, <1>2, <1>5 DEF Counting, Shown, None
  <1> QED
    BY <1>6, <1>7 DEF Inv

(* The last round ends: the codec is left without a frame, and the last    *)
(* picture stays.                                                          *)
LEMMA LastFrameInv == Inv /\ LastFrame => Inv'
  <1> SUFFICES ASSUME Inv, LastFrame PROVE Inv'
    OBVIOUS
  <1> movie \in Movies /\ movie' = movie
    BY DEF Inv, TypeOK, LastFrame
  <1>1. Count \in Nat /\ Count > 1 /\ Loops \in Nat /\ Count' = Count /\ Loops' = Loops
    BY MovieType DEF Count, Loops
  <1>2. Loops > 0 /\ loop \in Int /\ loop < Loops /\ loop + 1 >= Loops
    BY <1>1 DEF Inv, TypeOK, Counting, LastFrame, Over, Most
  <1>3. pos' = Count /\ frame' = Count - 1 /\ loop' = Loops /\ at' = "end" /\ timer' = None
    BY <1>1, <1>2 DEF Inv, Counting, LastFrame, Over, Exhausted
  <1>4. Loops \in -1 .. Most(Loops, 1)
    BY <1>1 DEF Most
  <1>5. TypeOK'
    BY <1>1, <1>3, <1>4 DEF Inv, TypeOK, LastFrame
  <1>6. Counting'
    BY <1>1, <1>2, <1>3 DEF Counting, Shown
  <1> QED
    BY <1>5, <1>6 DEF Inv

(* A frame is taken: wherever the loop stands then, the counters agree.    *)
LEMMA NextFrameInv == Inv /\ NextFrame => Inv'
  <1> SUFFICES ASSUME Inv, NextFrame PROVE Inv'
    OBVIOUS
  <1> movie \in Movies /\ movie' = movie
    BY DEF Inv, TypeOK, NextFrame
  <1>1. Count \in Nat /\ Count > 1 /\ Loops \in Nat /\ Count' = Count /\ Loops' = Loops
    BY MovieType DEF Count, Loops
  <1>2. /\ at = "loop" /\ pos \in Nat /\ pos < Count /\ timer = None
        /\ reset \in BOOLEAN /\ (~reset => frame = pos) /\ loop \in Int /\ loop >= -1
        /\ loop <= Most(Loops, 1) /\ (Loops > 0 => loop < Loops)
    BY <1>1 DEF Inv, TypeOK, Counting, NextFrame, Most
  <1>3. timer' = timer /\ reset' = reset /\ now' = now /\ late' = late
    BY DEF NextFrame
  <1> DEFINE next == IF Exhausted THEN 0 ELSE NextPos
  <1>4. next \in 0 .. Count - 1 /\ (IF Exhausted THEN 0 ELSE NextCount) = next
    BY <1>1, <1>2 DEF Exhausted, NextPos, NextCount
  <1>5. FrameDelay(next) \in Nat
    BY <1>4, MovieType
  <1>6. Round \in -1 .. Most(Loops, 1) /\ (Loops > 0 => Round < Loops)
    BY <1>1, <1>2 DEF Round, Over, Least, Most, NextFrame
  <1>7. /\ pos' \in 0 .. Count - 1 /\ frame' = pos'
        /\ loop' \in -1 .. Most(Loops, 1) /\ (Loops > 0 => loop' < Loops)
        /\ due' \in Int /\ total' \in 0 .. Horizon /\ at' \in {"loop", "end"}
    <2> DEFINE still == FrameDelay(next) = 0 /\ Round > 0 /\ total = 0
    <2>1. due \in Int /\ total \in 0 .. Horizon /\ Horizon \in Nat
      BY AnimateAssumption DEF AnimateAssumption, Inv, TypeOK
    <2>2. CASE still
      <3>1. pos' = 0 /\ frame' = 0 /\ loop' = -1 /\ at' = "end" /\ due' = due /\ total' = total
        BY <2>2 DEF NextFrame
      <3>2. -1 \in -1 .. Most(Loops, 1)
        BY <1>1 DEF Most
      <3> QED
        BY <3>1, <3>2, <2>1, <1>1
    <2>3. CASE ~still
      <3>1. /\ pos' = next /\ frame' = next /\ loop' = Round
            /\ total' = Least(total + FrameDelay(next), Horizon)
            /\ due' = due + FrameDelay(next)
            /\ at' = IF due' <= now + 1 THEN "loop" ELSE "end"
        BY <2>3, <1>4 DEF NextFrame
      <3> QED
        BY <3>1, <2>1, <1>4, <1>5, <1>6 DEF Least
    <2> QED
      BY <2>2, <2>3
  <1>8. TypeOK'
    BY <1>1, <1>2, <1>3, <1>7 DEF Inv, TypeOK
  <1>9. Counting'
    BY <1>1, <1>2, <1>3, <1>7 DEF Counting, Shown
  <1> QED
    BY <1>8, <1>9 DEF Inv

(* A timer is set exactly if the codec is still at a frame.                *)
LEMMA FinishInv == Inv /\ Finish => Inv'
  <1> SUFFICES ASSUME Inv, Finish PROVE Inv'
    OBVIOUS
  <1> movie \in Movies /\ movie' = movie
    BY DEF Inv, TypeOK, Finish
  <1>1. Count \in Nat /\ Count > 1 /\ Loops \in Nat /\ Count' = Count /\ Loops' = Loops
    BY MovieType DEF Count, Loops
  <1>2. pos \in 0 .. Count /\ loop \in Int /\ due \in Int /\ now \in Int /\ timer = None
    BY <1>1, AnimateAssumption DEF AnimateAssumption, Inv, TypeOK, Counting, Finish
  <1>3. /\ pos' = pos /\ frame' = frame /\ loop' = loop /\ total' = total /\ reset' = reset
        /\ late' = late /\ at = "end" /\ at' = "idle"
    BY DEF Finish
  <1>4. /\ due' \in Int /\ now' \in 0 .. Wrap - 1 /\ timer' \in Nat \union {None}
        /\ (timer' = None <=> pos = Count)
    <2>1. CASE Running
      <3>1. pos < Count
        BY <2>1, <1>1, <1>2, <1>3 DEF Inv, Counting, Running
      <3>2. FrameDelay(pos) \in Nat
        BY <3>1, <1>1, <1>2, MovieType
      <3>3. PICK e \in {0, 1} : Rearm(e)
        BY <2>1 DEF Finish
      <3>4. now' \in 0 .. Wrap - 1 /\ now' \in Int
        BY <3>3, <1>2, ModType DEF Rearm
      <3>5. due' \in Int
        BY <3>3, <1>2, AnimateAssumption DEF AnimateAssumption, Rearm
      <3>6. timer' \in Nat /\ timer' # None
        BY <3>2, <3>3, <3>4, <3>5 DEF Rearm, Least, Most, None
      <3> QED
        BY <3>1, <3>4, <3>5, <3>6, <1>1, <1>2
    <2>2. CASE ~Running
      <3>1. pos = Count
        BY <2>2, <1>1, <1>2, <1>3 DEF Inv, Counting, Running
      <3> QED
        BY <2>2, <3>1, <1>2 DEF Finish, Inv, TypeOK
    <2> QED
      BY <2>1, <2>2
  <1>5. TypeOK'
    BY <1>1, <1>3, <1>4 DEF Inv, TypeOK
  <1>6. Counting'
    BY <1>1, <1>2, <1>3, <1>4 DEF Inv, Counting, Shown
  <1> QED
    BY <1>5, <1>6 DEF Inv

LEMMA StutterInv == Inv /\ UNCHANGED vars => Inv'
  BY DEF Inv, TypeOK, Counting, vars, Shown, Count, Loops

LEMMA SpecInv == Spec => []Inv
  <1>1. Init => Inv
    BY InitInv
  <1>2. Inv /\ [Next]_vars => Inv'
    BY TickInv, LastFrameInv, NextFrameInv, FinishInv, StutterInv DEF Next
  <1> QED
    BY <1>1, <1>2, PTL DEF Spec

-----------------------------------------------------------------------------
(* The state of an animation is well formed: nextFrame() goes at most one  *)
(* frame past the last, and _curframe always names a frame there is.       *)
THEOREM AnimationTypeCorrect == Spec => []TypeOK
  <1>1. Inv => TypeOK
    BY DEF Inv
  <1> QED
    BY SpecInv, <1>1, PTL

(* Between ticks _curframe is the frame the codec shows, in every round    *)
(* and after every restart, however late the ticks are, and an animation   *)
(* is only left without a timer on the last frame of its last round.       *)
THEOREM CountsAlwaysAgree == Spec => []CountsAgree
  <1>1. Inv => CountsWithCodec
    BY DEF Inv, Counting, CountsWithCodec, Idle
  <1>2. Inv => StopsOnLast
    BY DEF Inv, Counting, StopsOnLast, Stopped, Idle, Shown
  <1>3. Inv => CountsAgree
    BY <1>1, <1>2 DEF CountsAgree
  <1> QED
    BY SpecInv, <1>3, PTL

-----------------------------------------------------------------------------
(* The clock.  A number of periods and a rest, divided by the period.      *)
LEMMA Quotient ==
  ASSUME NEW w \in Nat \ {0}, NEW k \in Int, NEW r \in 0 .. w - 1
  PROVE  (w * k + r) \div w = k
  <1> DEFINE x == w * k + r
             a == x \div w
             b == x % w
  <1>1. x \in Int /\ x = w * k + r
    OBVIOUS
  <1> HIDE DEF x
  <1>2. a \in Int /\ b \in 0 .. w - 1 /\ x = w * a + b
    BY <1>1
  <1> HIDE DEF a, b
  <1>3. \A j \in Int : j >= 1 => w * j >= w
    OBVIOUS
  <1>4. a - k \in Int /\ k - a \in Int /\ w * (a - k) = r - b /\ w * (k - a) = b - r
    BY <1>1, <1>2
  <1>5. ~(a - k >= 1) /\ ~(k - a >= 1)
    BY <1>2, <1>3, <1>4
  <1>6. a = k
    BY <1>2, <1>5
  <1> QED BY <1>6 DEF a, x

(* A tick at the time r, of which the clock shows the remainder: the       *)
(* schedule is set back by as much as the clock is.                        *)
LEMMA UnwrappedTo ==
  ASSUME NEW d \in Int, NEW b \in Int, NEW r \in Nat, b <= r, r < b + Wrap
  PROVE  Unwrapped(d, b, r % Wrap) = d - (r - (r % Wrap))
  <1> DEFINE k == r \div Wrap
             t == r % Wrap
             v == Wrap - (r - b + 1)
  <1>1. Wrap \in Nat \ {0}
    BY AnimateAssumption DEF AnimateAssumption
  <1>2. k \in Int /\ t \in 0 .. Wrap - 1 /\ r = Wrap * k + t
    BY <1>1
  <1> HIDE DEF k, t
  <1>3. CASE b <= t
    <2>1. Wrap * k < Wrap
      BY <1>1, <1>2, <1>3
    <2>2. k < 1
      BY <1>1, <1>2, <2>1
    <2>3. ~(k <= -1)
      <3>1. \A j \in Int : j <= -1 => Wrap * j <= -Wrap
        BY <1>1
      <3> QED BY <1>1, <1>2, <3>1
    <2>4. k = 0
      BY <1>2, <2>2, <2>3
    <2>5. r = t
      BY <1>1, <1>2, <2>4
    <2> QED BY <1>2, <1>3, <2>5 DEF Unwrapped, t
  <1>4. CASE ~(b <= t)
    <2>1. v \in 0 .. Wrap - 1
      BY <1>1
    <2>2. b - t - 1 = Wrap * (k - 1) + v
      <3>1. Wrap * (k - 1) = Wrap * k - Wrap /\ Wrap * k \in Int
        BY <1>1, <1>2
      <3> QED BY <1>1, <1>2, <3>1
    <2> HIDE DEF v
    <2>3. (b - t - 1) \div Wrap = k - 1
      BY <1>1, <1>2, <2>1, <2>2, Quotient
    <2>4. Unwrapped(d, b, t) = d - Wrap * (((b - t - 1) \div Wrap) + 1)
      BY <1>4 DEF Unwrapped
    <2>5. (k - 1) + 1 = k
      BY <1>2
    <2>6. Unwrapped(d, b, t) = d - Wrap * k
      BY <2>3, <2>4, <2>5
    <2>7. Wrap * k = r - t
      <3>1. Wrap * k \in Int
        BY <1>1, <1>2
      <3> QED BY <1>2, <3>1
    <2> QED BY <2>6, <2>7 DEF t
  <1> QED BY <1>3, <1>4

-----------------------------------------------------------------------------
(* Where the schedule stands.  Between ticks the timer is set for the end  *)
(* of the frame or, when the clock wrapped while it was set, early; in a   *)
(* tick the frame on display ends now; then the next one has begun.        *)
Waiting == due - FrameDelay(pos) <= now + 2 /\ now <= due
Aimed == /\ 1 <= timer /\ timer <= due - now + 1
         /\ (now = 0 /\ due <= FrameDelay(pos)) \/ due - now <= timer
Near(t) == t <= now + 2 /\ (t = now + 2 => now < Wrap - 1)
Scheduled ==
  Timed /\ late = 0 =>
    /\ at = "idle" /\ timer # None => Waiting /\ Aimed
    /\ at = "loop" => ~reset /\ Near(due)
    /\ at = "end" /\ pos < Count => Near(due - FrameDelay(pos)) /\ now + 1 < due

LEMMA FramesInTime ==
  ASSUME InTime, movie \in Movies, Timed, NEW p \in 0 .. Count - 1
  PROVE  /\ FrameDelay(p) \in Nat \ {0} /\ FrameDelay(p) + 2 <= Wrap
         /\ \A s \in Slips : /\ -1 <= s /\ s + 1 <= Most(FrameDelay(p) * 10, Patience)
                             /\ FrameDelay(p) + s + 2 <= Wrap
  <1>1. Count \in Nat /\ FrameDelay(p) \in Nat /\ FrameDelay(p) > 0
    BY MovieType DEF Timed
  <1>2. p + 1 \in 1 .. Len(movie.delays)
    BY <1>1 DEF Count
  <1> QED BY <1>1, <1>2 DEF InTime, FrameDelay

LEMMA InitScheduled ==
  ASSUME InTime, Init
  PROVE  Scheduled
  <1>1. movie \in Movies /\ 0 \in 0 .. Count - 1 /\ now \in Int
    <2>1. movie \in Movies
      BY DEF Init
    <2> QED BY <2>1, MovieType, AnimateAssumption DEF Init, AnimateAssumption
  <1>2. pos = 0 /\ due = now + FrameDelay(0) /\ timer = Most(FrameDelay(0), 1) /\ at = "idle"
    BY DEF Init
  <1>3. Timed => FrameDelay(0) \in Nat \ {0}
    BY <1>1, FramesInTime
  <1> QED BY <1>1, <1>2, <1>3 DEF Scheduled, Waiting, Aimed, Most

LEMMA TickScheduled ==
  ASSUME InTime, Inv, Scheduled, Tick
  PROVE  Scheduled'
  <1> SUFFICES ASSUME Timed', late' = 0
               PROVE  \/ at' = "idle" /\ Waiting' /\ Aimed'
                      \/ /\ at' = "loop" /\ ~reset' /\ due' <= now' + 2
                         /\ due' = now' + 2 => now' < Wrap - 1
    BY DEF Scheduled, Near
  <1>1. /\ movie' = movie /\ pos' = pos /\ movie \in Movies /\ Timed /\ Count' = Count
        /\ late \in Nat /\ Patience \in Nat
    BY AnimateAssumption DEF Tick, Inv, TypeOK, Timed, Count, FrameDelay, AnimateAssumption
  <1>2. late = 0 /\ \E s \in Slips : timer + s >= 0 /\ now' = (now + timer + s) % Wrap
    BY <1>1 DEF Tick
  <1>3. PICK s \in Slips : timer + s >= 0 /\ now' = (now + timer + s) % Wrap
    BY <1>2
  <1> DEFINE f == FrameDelay(pos)
             b == due - f
             r == now + timer + s
  <1>4. Waiting /\ Aimed /\ timer # None /\ pos # Count
    BY <1>1, <1>2 DEF Tick, Scheduled, Inv, Counting
  <1>5. Count \in Nat /\ pos \in 0 .. Count - 1
    BY <1>1, <1>4, MovieType DEF Inv, TypeOK
  <1>6. /\ f \in Nat \ {0} /\ f + 2 <= Wrap /\ -1 <= s /\ s + 1 <= Most(f * 10, Patience)
        /\ f + s + 2 <= Wrap
    BY <1>1, <1>5, FramesInTime
  <1>7. due \in Int /\ now \in Nat /\ timer \in Nat /\ s \in Int /\ Wrap \in Nat
    BY <1>4, AnimateAssumption DEF Inv, TypeOK, AnimateAssumption
  <1>8. FrameDelay(pos)' = f
    BY <1>1 DEF FrameDelay
  <1>9. /\ b <= now + 2 /\ now <= due /\ 1 <= timer /\ timer <= due - now + 1
        /\ (now = 0 /\ due <= f) \/ due - now <= timer
    BY <1>4 DEF Waiting, Aimed
  <1>10. b \in Int /\ due = b + f
    BY <1>6, <1>7
  <1>a. Allowed = Most(f * 10, Patience) /\ Allowed \in Nat /\ f * 10 <= Allowed
    BY <1>1, <1>6 DEF Allowed, Most
  <1>b. Decide(now')
    BY DEF Tick
  <1> HIDE DEF f, b
  <1>11. /\ r \in Nat /\ r >= now /\ b <= r /\ r < b + Wrap /\ r <= due + s + 1
         /\ (now = 0 /\ due <= f) \/ due - 1 <= r
    BY <1>3, <1>6, <1>7, <1>9, <1>10
  <1>12. now' = r % Wrap
    BY <1>3
  <1> HIDE DEF r
  <1>13. PICK t \in Nat : t = now' /\ t <= r
    <2>1. \A x \in Nat : x % Wrap \in Nat /\ x % Wrap <= x
      BY AnimateAssumption DEF AnimateAssumption
    <2> QED BY <1>11, <1>12, <2>1
  <1>14. PICK end \in Int : end = due - (r - t) /\ end = Unwrapped(due, b, t)
    <2>1. Unwrapped(due, b, r % Wrap) = due - (r - (r % Wrap))
      BY <1>7, <1>10, <1>11, UnwrappedTo
    <2>2. t = r % Wrap
      BY <1>12, <1>13
    <2>3. due - (r - t) \in Int
      BY <1>7, <1>11, <1>13
    <2> QED BY <2>1, <2>2, <2>3
  <1>15. end = Unwrapped(due, due - FrameDelay(pos), t)
    BY <1>14 DEF b, f
  <1>c. due \in Int /\ r \in Int /\ t \in Int /\ end \in Int /\ end = due - (r - t)
    BY <1>7, <1>11, <1>13, <1>14
  <1>16. end - t = due - r /\ end - f <= t
    <2>1. end - t = due - r
      BY <1>c
    <2>2. due - r <= f
      BY <1>6, <1>10, <1>11
    <2> QED BY <1>6, <1>11, <1>13, <1>14, <2>1, <2>2
  <1>17. ~(end > t + Allowed) /\ ~(end < t - Allowed)
    <2>1. due - r <= f + 2
      BY <1>6, <1>7, <1>9, <1>10, <1>11
    <2>2. r - due <= Allowed
      BY <1>6, <1>7, <1>11, <1>a
    <2>3. f + 2 <= Allowed
      BY <1>6, <1>a
    <2> QED BY <1>6, <1>7, <1>11, <1>14, <1>a, <2>1, <2>2, <2>3
  <1>20. CASE end > t + 2
    <2>1. due' = end /\ timer' = end - t /\ at' = at /\ reset' = reset
      BY <1>b, <1>13, <1>15, <1>17, <1>20 DEF Decide
    <2>2. at' = "idle"
      BY <2>1 DEF Tick
    <2>3. Waiting'
      <3>1. due' - FrameDelay(pos)' = end - f /\ end - f <= t /\ now' = t
        BY <1>8, <1>13, <1>16, <2>1
      <3>2. end - f <= t + 2 /\ t <= end
        BY <1>6, <1>16, <1>20, <1>c
      <3>3. due' = end /\ now' = t
        BY <1>13, <2>1
      <3> QED BY <3>1, <3>2, <3>3 DEF Waiting
    <2>4. Aimed'
      BY <1>8, <1>13, <1>14, <1>16, <1>20, <2>1 DEF Aimed
    <2> QED BY <2>2, <2>3, <2>4
  <1>21. CASE ~(end > t + 2)
    <2>1. due' = end /\ timer' = None /\ at' = "loop" /\ reset' = FALSE
      BY <1>b, <1>13, <1>15, <1>17, <1>21 DEF Decide
    <2>2. due' <= now' + 2
      BY <1>13, <1>14, <1>21, <2>1
    <2>3. due' = now' + 2 => now' < Wrap - 1
      <3> SUFFICES ASSUME end = t + 2
                   PROVE  t < Wrap - 1
        BY <1>13, <2>1
      <3>1. due - r = 2
        BY <1>c
      <3>2. due <= f
        BY <1>7, <1>11, <3>1
      <3>3. t <= r /\ r = due - 2
        BY <1>7, <1>11, <1>13, <3>1
      <3> QED BY <1>6, <1>7, <1>13, <3>2, <3>3
    <2> QED BY <2>1, <2>2, <2>3
  <1> QED BY <1>20, <1>21

LEMMA NextFrameScheduled ==
  ASSUME InTime, Inv, Scheduled, NextFrame
  PROVE  Scheduled'
  <1> SUFFICES ASSUME Timed', late' = 0
               PROVE  /\ at' = "idle" /\ timer' # None => (Waiting /\ Aimed)'
                      /\ at' = "loop" => ~reset' /\ Near(due)'
                      /\ at' = "end" /\ pos' < Count' =>
                           Near(due - FrameDelay(pos))' /\ now' + 1 < due'
    BY DEF Scheduled
  <1>1. /\ movie' = movie /\ late' = late /\ now' = now /\ reset' = reset /\ at = "loop"
        /\ movie \in Movies /\ Timed /\ Count' = Count
    BY DEF NextFrame, Inv, TypeOK, Timed, Count, FrameDelay
  <1> DEFINE next == IF Exhausted THEN 0 ELSE NextPos
  <1>2. ~reset /\ Near(due) /\ due \in Int /\ now \in Int /\ Wrap \in Nat
    BY <1>1, AnimateAssumption DEF Scheduled, Inv, TypeOK, AnimateAssumption
  <1>3. pos \in Nat /\ pos < Count /\ Count \in Nat
    BY <1>1, MovieType DEF Inv, TypeOK, Counting
  <1>4. next \in 0 .. Count - 1
    BY <1>2, <1>3 DEF Exhausted, NextPos
  <1>5. FrameDelay(next) \in Nat \ {0}
    BY <1>1, <1>4, FramesInTime
  <1>6. /\ pos' = next /\ due' = due + FrameDelay(next)
        /\ at' = IF due' <= now + 1 THEN "loop" ELSE "end"
    BY <1>5 DEF NextFrame
  <1>7. FrameDelay(pos)' = FrameDelay(next)
    BY <1>1, <1>6 DEF FrameDelay
  <1> HIDE DEF next
  <1>8. at' = "loop" => due' <= now + 1
    BY <1>6
  <1>9. at' # "loop" => at' = "end" /\ now + 1 < due'
    BY <1>2, <1>5, <1>6
  <1>10. (due - FrameDelay(pos))' = due
    BY <1>2, <1>5, <1>6, <1>7
  <1>11. Near(due - FrameDelay(pos))'
    BY <1>1, <1>2, <1>10 DEF Near
  <1>12. at' = "loop" => Near(due)'
    BY <1>1, <1>2, <1>5, <1>6, <1>8 DEF Near
  <1> QED BY <1>1, <1>2, <1>8, <1>9, <1>11, <1>12

LEMMA FinishScheduled ==
  ASSUME InTime, Inv, Scheduled, Finish
  PROVE  Scheduled'
  <1> SUFFICES ASSUME Timed', late' = 0, timer' # None
               PROVE  Waiting' /\ Aimed'
    BY DEF Scheduled, Finish
  <1>1. /\ movie' = movie /\ late' = late /\ pos' = pos /\ at = "end"
        /\ movie \in Movies /\ Timed
    BY DEF Finish, Inv, TypeOK, Timed, Count, FrameDelay
  <1>2. timer = None /\ Running
    BY <1>1 DEF Inv, Counting, Finish
  <1>3. PICK e \in {0, 1} : Rearm(e)
    BY <1>2 DEF Finish
  <1>4. Count \in Nat /\ Loops \in Nat /\ pos \in 0 .. Count - 1
    <2>1. Count \in Nat /\ Loops \in Nat /\ pos \in 0 .. Count /\ loop \in Int
      BY <1>1, MovieType DEF Inv, TypeOK
    <2>2. pos # Count
      BY <1>1, <1>2, <2>1 DEF Inv, Counting, Running
    <2> QED BY <2>1, <2>2
  <1> DEFINE f == FrameDelay(pos)
  <1>5. f \in Nat \ {0} /\ f + 2 <= Wrap
    BY <1>1, <1>4, FramesInTime
  <1>6. FrameDelay(pos)' = f
    BY <1>1 DEF FrameDelay
  <1>7. due - f <= now + 2 /\ now + 1 < due /\ (due - f = now + 2 => now < Wrap - 1)
    BY <1>1, <1>4 DEF Scheduled, Near
  <1>8. due \in Int /\ now \in 0 .. Wrap - 1 /\ Wrap \in Nat \ {0}
    BY AnimateAssumption DEF Inv, TypeOK, AnimateAssumption
  <1> HIDE DEF f
  <1> DEFINE left == Least(IF due' > now THEN due' - now ELSE 1, f * 5)
  <1>9. /\ now' = (now + e) % Wrap
        /\ due' = IF now' < now THEN due - Wrap ELSE due
        /\ timer' = Most(left, 1)
    BY <1>3 DEF Rearm, f
  <1>10. CASE now + e < Wrap
    <2>1. now' = now + e
      BY <1>8, <1>9, <1>10
    <2>2. due' = due
      BY <1>8, <1>9, <2>1
    <2>3. left = due - now
      BY <1>5, <1>7, <1>8, <2>2 DEF Least
    <2> HIDE DEF left
    <2>4. timer' = due - now
      BY <1>7, <1>8, <1>9, <2>3 DEF Most
    <2> QED BY <1>5, <1>6, <1>7, <1>8, <2>1, <2>2, <2>4 DEF Waiting, Aimed
  <1>11. CASE ~(now + e < Wrap)
    <2>1. now = Wrap - 1 /\ e = 1 /\ now + e = Wrap
      BY <1>8, <1>11
    <2>2. now' = 0
      BY <1>8, <1>9, <2>1
    <2>3. due' = due - Wrap
      BY <1>5, <1>8, <1>9, <2>1, <2>2
    <2>4. left = 1
      BY <1>5, <1>7, <1>8, <2>1, <2>3 DEF Least
    <2> HIDE DEF left
    <2>5. timer' = 1
      BY <1>9, <2>4 DEF Most
    <2>6. Waiting'
      BY <1>5, <1>6, <1>7, <1>8, <2>1, <2>2, <2>3 DEF Waiting
    <2>7. Aimed'
      BY <1>5, <1>6, <1>7, <1>8, <2>1, <2>2, <2>3, <2>5 DEF Aimed
    <2> QED BY <2>6, <2>7
  <1> QED BY <1>10, <1>11

LEMMA StepScheduled ==
  ASSUME InTime, Inv, Scheduled, [Next]_vars
  PROVE  Scheduled'
  <1>1. CASE LastFrame
    <2>2. at' = "end" /\ pos' = Count /\ Count' = Count
      BY <1>1 DEF LastFrame, Over, Exhausted, Count
    <2>3. Count \in Nat
      BY MovieType DEF Inv, TypeOK
    <2> QED BY <2>2, <2>3 DEF Scheduled
  <1>2. CASE UNCHANGED vars
    <2>1. /\ movie' = movie /\ pos' = pos /\ due' = due /\ now' = now /\ timer' = timer
          /\ at' = at /\ reset' = reset /\ late' = late
      BY <1>2 DEF vars
    <2>2. Count' = Count /\ FrameDelay(pos)' = FrameDelay(pos) /\ Timed' = Timed
      BY <2>1 DEF Count, FrameDelay, Timed
    <2>3. Waiting' = Waiting /\ Aimed' = Aimed /\ Near(due)' = Near(due)
      BY <2>1, <2>2 DEF Waiting, Aimed, Near
    <2>4. Near(due - FrameDelay(pos))' = Near(due - FrameDelay(pos))
      BY <2>1, <2>2 DEF Near
    <2> QED BY <2>1, <2>2, <2>3, <2>4 DEF Scheduled
  <1> QED BY <1>1, <1>2, TickScheduled, NextFrameScheduled, FinishScheduled DEF Next

-----------------------------------------------------------------------------
(* Doc::onAnimate() keeps the frames to their schedule: while the ticks    *)
(* are in time, the frame on display is at most 20 ms early and never      *)
(* late when a tick is over, for any frames and however often the clock    *)
(* wraps (Doc.cpp:466-490, 534-541).                                       *)
THEOREM ScheduleIsKept ==
  ASSUME InTime
  PROVE  Spec => []OnSchedule
  <1>1. Init => Scheduled
    BY InitScheduled
  <1>2. Inv /\ Scheduled /\ [Next]_vars => Scheduled'
    BY StepScheduled
  <1>3. Scheduled => OnSchedule
    BY DEF Scheduled, OnSchedule, Waiting, Idle
  <1> QED BY <1>1, <1>2, <1>3, SpecInv, PTL DEF Spec

-----------------------------------------------------------------------------
(* A round counts only once a frame with a delay was shown, unless it was  *)
(* the last.                                                               *)
NoEmptyRound == pos < Count /\ total = 0 => loop <= 0

LEMMA NoEmptyRoundStep ==
  ASSUME Inv, NoEmptyRound, [Next]_vars
  PROVE  NoEmptyRound'
  <1>1. movie \in Movies /\ movie' = movie /\ Count' = Count /\ Count \in Nat /\ Loops \in Nat
    BY MovieType DEF Inv, TypeOK, Next, Tick, LastFrame, NextFrame, Finish, vars, Count
  <1>2. pos \in Nat /\ loop \in Int /\ total \in 0 .. Horizon /\ Horizon \in Nat \ {0}
    BY <1>1, AnimateAssumption DEF Inv, TypeOK, AnimateAssumption
  <1>3. CASE Tick \/ Finish \/ UNCHANGED vars
    <2>1. pos' = pos /\ total' = total /\ loop' = loop
      BY <1>3 DEF Tick, Finish, vars
    <2> QED BY <1>1, <2>1 DEF NoEmptyRound
  <1>4. CASE LastFrame
    BY <1>1, <1>4 DEF LastFrame, Over, Exhausted, NoEmptyRound
  <1>5. CASE NextFrame
    <2> DEFINE next == IF Exhausted THEN 0 ELSE NextPos
    <2>1. pos < Count /\ loop <= Most(Loops, 1)
      BY <1>5 DEF NextFrame, Inv, TypeOK, Counting
    <2>2. next \in 0 .. Count - 1
      BY <1>1, <1>2, <2>1 DEF Exhausted, NextPos
    <2>3. FrameDelay(next) \in Nat
      BY <1>1, <2>2, MovieType
    <2> HIDE DEF next
    <2>4. Round \in Int /\ (~Exhausted => Round = loop)
      BY <1>1, <1>2 DEF Round, Least, Most
    <2>5. CASE FrameDelay(next) = 0 /\ Round > 0 /\ total = 0
      <3>1. loop' = -1
        BY <1>5, <2>5 DEF NextFrame, next
      <3> QED BY <3>1 DEF NoEmptyRound
    <2>6. CASE ~(FrameDelay(next) = 0 /\ Round > 0 /\ total = 0)
      <3>1. loop' = Round /\ total' = Least(total + FrameDelay(next), Horizon)
        BY <1>5, <2>6 DEF NextFrame, next
      <3>2. total' = 0 => total = 0 /\ FrameDelay(next) = 0
        BY <1>2, <2>3, <3>1 DEF Least
      <3> QED BY <2>4, <2>6, <3>1, <3>2 DEF NoEmptyRound
    <2> QED BY <2>5, <2>6
  <1> QED BY <1>3, <1>4, <1>5 DEF Next

(* Doc::onAnimate() never leaves the loop once a restart is stuck there    *)
(* (Doc.cpp:487-525): every turn takes the first frame again, adds no      *)
(* delay and counts no round.  What TickReturns leaves out is just what    *)
(* does not return.                                                        *)
THEOREM StuckStays == Spec => [][Stuck => Stuck']_vars
  <1>1. Init => NoEmptyRound
    BY DEF Init, NoEmptyRound
  <1>2. Inv /\ NoEmptyRound /\ [Next]_vars => NoEmptyRound'
    BY NoEmptyRoundStep
  <1>3. Inv /\ NoEmptyRound /\ [Next]_vars => [Stuck => Stuck']_vars
    <2> SUFFICES ASSUME Inv, NoEmptyRound, Next, Stuck PROVE Stuck'
      OBVIOUS
    <2>1. movie \in Movies /\ Count \in Nat /\ Count > 1 /\ FrameDelay(0) = 0
      BY MovieType DEF Inv, TypeOK, Stuck
    <2>2. NextPos = 0 /\ ~Exhausted /\ ~Over /\ Round = loop
      BY <2>1 DEF Stuck, NextPos, Exhausted, Over, Round
    <2>3. NextFrame
      BY <2>2 DEF Next, Stuck, Tick, LastFrame, Finish
    <2>4. ~(Round > 0 /\ total = 0)
      BY <2>1, <2>2 DEF NoEmptyRound, Inv, TypeOK, Counting, Stuck
    <2>5. due' = due + 0 /\ at' = (IF due' <= now + 1 THEN "loop" ELSE "end")
      BY <2>1, <2>2, <2>3, <2>4 DEF NextFrame
    <2>6. movie' = movie /\ now' = now /\ reset' = reset
      BY <2>3 DEF NextFrame
    <2>7. due' = due
      BY <2>5 DEF Inv, TypeOK
    <2> QED BY <2>1, <2>5, <2>6, <2>7 DEF Stuck, FrameDelay
  <1> QED BY <1>1, <1>2, <1>3, SpecInv, PTL DEF Spec
=============================================================================
