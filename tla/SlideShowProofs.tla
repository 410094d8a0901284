-------------------------- MODULE SlideShowProofs --------------------------
(***************************************************************************)
(* Theorems about SlideShow, for any files, lists and bounds, any number   *)
(* of rounds and any depth of nested calls.                                *)
(***************************************************************************)
EXTENDS SlideShow, TLAPS, SequenceTheorems

(* A part of a list is a list.                                             *)
LEMMA PartOfList ==
  ASSUME NEW S, NEW s \in Seq(S), NEW m \in Nat \ {0}, NEW n \in Int, n <= Len(s)
  PROVE  SubSeq(s, m, n) \in Seq(S)
  <1>1. \A i \in m .. n : s[i] \in S
    BY ElementOfSeq
  <1> QED BY <1>1, SubSeqProperties

(* Turning a list keeps it a list of images.                               *)
LEMMA TurnedType ==
  ASSUME NEW s \in Seq(Images), NEW i \in DOMAIN s
  PROVE  Turned(s, i) \in Seq(Images)
  <1>1. i \in Nat \ {0} /\ i <= Len(s) /\ Len(s) \in Nat
    OBVIOUS
  <1>2. SubSeq(s, i, Len(s)) \in Seq(Images)
    BY <1>1, PartOfList
  <1>3. SubSeq(s, 1, i - 1) \in Seq(Images)
    BY <1>1, PartOfList
  <1> QED BY <1>2, <1>3, ConcatProperties DEF Turned

LEMMA ReverseType ==
  ASSUME NEW s \in Seq(Images)
  PROVE  Reverse(s) \in Seq(Images)
  <1>1. \A i \in 1 .. Len(s) : s[(Len(s) - i) + 1] \in Images
    <2> TAKE i \in 1 .. Len(s)
    <2>1. (Len(s) - i) + 1 \in 1 .. Len(s)
      OBVIOUS
    <2> QED BY <2>1, ElementOfSeq
  <1>2. Reverse(s) \in [1 .. Len(s) -> Images]
    BY <1>1 DEF Reverse
  <1> QED BY <1>2

LEMMA BackFromType ==
  ASSUME NEW s \in Seq(Images), NEW i \in DOMAIN s
  PROVE  BackFrom(s, i) \in Seq(Images)
  <1>1. i \in Nat /\ Len(s) \in Nat \ {0}
    OBVIOUS
  <1>2. i % Len(s) \in 0 .. Len(s) - 1
    BY <1>1
  <1>3. (i % Len(s)) + 1 \in DOMAIN s
    BY <1>1, <1>2
  <1> QED BY <1>3, TurnedType, ReverseType DEF BackFrom

(* What a show is made of are images.                                      *)
LEMMA ListsType ==
  ASSUME NEW o \in Options, NEW list \in Lists(o)
  PROVE  list \in Seq(Images)
  <1>1. Folder \in Seq(Images) /\ CustomLists \subseteq Seq(Images)
    BY SlideShowAssumption DEF SlideShowAssumption
  <1>2. o.items # None => o.items \in Seq(Images)
    BY <1>1 DEF Options
  <1>3. <<>> \in Seq(Images)
    OBVIOUS
  <1>4. CASE o.items # None
    <2>1. list = Reverse(o.items) \/ list = o.items
      BY <1>4 DEF Lists
    <2> QED BY <1>2, <1>4, <2>1, ReverseType
  <1>5. CASE o.items = None
    <2>1. list = <<>> \/ (\E i \in DOMAIN Folder : list = BackFrom(Folder, i)
                                                 \/ list = Turned(Folder, i))
      BY <1>5 DEF Lists
    <2> QED BY <1>1, <1>3, <2>1, BackFromType, TurnedType
  <1> QED BY <1>4, <1>5

(* Shuffling keeps the length of a list, so a place in it stays one.       *)
LEMMA OrderedSound ==
  ASSUME NEW s \in Seq(Images), NEW o, NEW t \in Ordered(s, o)
  PROVE  t \in Seq(Images) /\ Len(t) = Len(s)
  <1>1. CASE t = s
    BY <1>1
  <1>2. CASE t \in Shuffles(s)
    <2>1. PICK p \in [DOMAIN s -> DOMAIN s] : t = [i \in DOMAIN s |-> s[p[i]]]
      BY <1>2 DEF Shuffles
    <2>2. \A i \in DOMAIN s : s[p[i]] \in Images
      BY ElementOfSeq
    <2>3. t \in [1 .. Len(s) -> Images]
      BY <2>1, <2>2
    <2> QED BY <2>3
  <1> QED BY <1>1, <1>2 DEF Ordered

(* The stack below its top, and the stack with another top.                *)
LEMMA BelowSound ==
  ASSUME stack \in Seq(Frames), ~Idle
  PROVE  /\ Below \in Seq(Frames) /\ Len(Below) = Len(stack) - 1
         /\ Top \in Frames /\ Len(stack) \in Nat \ {0}
  <1>1. Len(stack) \in Nat \ {0}
    BY DEF Idle
  <1>2. \A i \in 1 .. Len(stack) - 1 : stack[i] \in Frames
    BY ElementOfSeq
  <1>3. Below \in Seq(Frames)
    BY <1>1, PartOfList DEF Below
  <1>4. Len(Below) = Len(stack) - 1
    <2> DEFINE n == Len(stack) - 1
    <2>1. n \in Nat /\ n \in Int /\ 1 \in Int
      BY <1>1
    <2>2. \A i \in 1 .. n : stack[i] \in Frames
      BY <1>2
    <2> HIDE DEF n
    <2>3. Len(SubSeq(stack, 1, n)) = IF 1 <= n THEN n - 1 + 1 ELSE 0
      BY <2>1, <2>2, SubSeqProperties
    <2>4. Len(SubSeq(stack, 1, n)) = n
      BY <2>1, <2>3
    <2> QED BY <2>4 DEF Below, n
  <1>5. Top \in Frames
    BY <1>1, ElementOfSeq DEF Top
  <1> QED BY <1>1, <1>3, <1>4, <1>5

LEMMA PushSound ==
  ASSUME NEW s \in Seq(Frames), NEW f \in Frames
  PROVE  Append(s, f) \in Seq(Frames) /\ Len(Append(s, f)) = Len(s) + 1
  BY AppendProperties

-----------------------------------------------------------------------------
(* What holds of a show between any two steps: it has files exactly while  *)
(* it runs, stands at one of them, has its timer unless a call is under    *)
(* way that will set it or end the show, and owns the full screen.         *)
ShowSound ==
  /\ active <=> files # <<>>
  /\ IndexInRange
  /\ timer => active
  /\ NeverStalls
  /\ FullscreenFollowsShow

ShowInv == TypeOK /\ ShowSound

(* StopSlideShow() leaves the show in a sound state, whoever calls it.     *)
LEMMA StopSound ==
  ASSUME StopShow
  PROVE  /\ active' = FALSE /\ timer' = FALSE /\ fullscreen' = FALSE
         /\ files' \in Seq(Images)
         /\ ShowSound'
  <1>1. /\ active' = FALSE /\ timer' = FALSE /\ fullscreen' = FALSE
        /\ files' = <<>>
    BY Zenon DEF StopShow
  <1>2. files' \in Seq(Images)
    BY <1>1, EmptySeq
  <1>3. IndexInRange' /\ NeverStalls' /\ FullscreenFollowsShow'
    BY <1>1, Zenon DEF IndexInRange, NeverStalls, FullscreenFollowsShow
  <1>4. (active <=> files # <<>>)' /\ (timer => active)'
    BY <1>1, Zenon
  <1> QED BY <1>1, <1>2, <1>3, <1>4, Zenon DEF ShowSound

(* A call that leaves the show alone and does not return while it runs.    *)
LEMMA KeptSound ==
  ASSUME ShowSound, UNCHANGED <<active, files, index, timer, options, fullscreen>>,
         Idle' => Idle \/ ~active
  PROVE  ShowSound'
  <1>1. NeverStalls'
    BY Zenon DEF ShowSound, NeverStalls
  <1>2. IndexInRange' /\ FullscreenFollowsShow'
    BY Zenon DEF ShowSound, IndexInRange, InRange, FullscreenFollowsShow
  <1>3. (active <=> files # <<>>)' /\ (timer => active)'
    BY Zenon DEF ShowSound
  <1> QED BY <1>1, <1>2, <1>3, Zenon DEF ShowSound

LEMMA FrameOf ==
  ASSUME NEW at \in {"open", "box", "step"}, NEW n \in Nat
  PROVE  [at |-> at, attempts |-> n] \in Frames
  BY DEF Frames

(* The call at the top of the stack, elsewhere.                            *)
LEMMA TopMoved ==
  ASSUME stack \in Seq(Frames), ~Idle, NEW at \in {"open", "box", "step"}
  PROVE  /\ Append(Below, [Top EXCEPT !.at = at]) \in Seq(Frames)
         /\ Append(Below, [Top EXCEPT !.at = at]) # <<>>
  <1>1. Below \in Seq(Frames) /\ Top \in Frames
    BY BelowSound
  <1>2. [Top EXCEPT !.at = at] \in Frames
    BY <1>1 DEF Frames
  <1> QED BY <1>1, <1>2, AppendProperties

(* A list that is not empty has places, the first one among them.          *)
LEMMA FirstPlace ==
  ASSUME NEW s \in Seq(Images), s # <<>>
  PROVE  1 \in DOMAIN s /\ Len(s) \in Nat \ {0}
  <1>1. Len(s) \in Nat \ {0}
    BY EmptySeq
  <1> QED BY <1>1

LEMMA InitSound == Init => ShowInv
  <1> SUFFICES ASSUME Init PROVE ShowInv
    OBVIOUS
  <1>1. options \in Options
    BY SlideShowAssumption DEF SlideShowAssumption, Init, Options
  <1>2. TypeOK
    <2>1. files \in Seq(Images) /\ stack \in Seq(Frames)
      BY EmptySeq DEF Init
    <2>2. 0 \in 0 .. MaxVisits
      BY SlideShowAssumption DEF SlideShowAssumption
    <2>3. index \in Nat \ {0} /\ round \in Nat /\ visits \in 0 .. MaxVisits
      BY <2>2 DEF Init
    <2>4. /\ active \in BOOLEAN /\ timer \in BOOLEAN /\ fullscreen \in BOOLEAN
          /\ opening \in BOOLEAN /\ due \in BOOLEAN /\ posted \in BOOLEAN
          /\ hasFs \in BOOLEAN /\ shown \in Images \union {None}
      BY Zenon DEF Init
    <2> QED BY <1>1, <2>1, <2>3, <2>4 DEF TypeOK
  <1>3. ShowSound
    BY DEF Init, ShowSound, IndexInRange, NeverStalls, FullscreenFollowsShow
  <1> QED BY <1>2, <1>3 DEF ShowInv

-----------------------------------------------------------------------------
LEMMA OpenSucceedsSound == ShowInv /\ OpenSucceeds => ShowInv'
  <1> SUFFICES ASSUME ShowInv, OpenSucceeds PROVE ShowInv'
    OBVIOUS
  <1>1. stack' \in Seq(Frames)
    BY BelowSound DEF ShowInv, TypeOK, OpenSucceeds, Running
  <1>2. /\ shown' \in Images /\ hasFs' = TRUE /\ opening' = FALSE
        /\ timer' = (active \/ timer)
        /\ UNCHANGED <<active, files, index, round, options, fullscreen, due, posted, visits>>
    BY DEF OpenSucceeds, ResetTimer, plan, queue
  <1>3. timer' \in BOOLEAN
    BY <1>2
  <1>4. TypeOK'
    BY <1>1, <1>2, <1>3 DEF ShowInv, TypeOK
  <1>5. NeverStalls'
    BY <1>2, Zenon DEF NeverStalls
  <1>6. IndexInRange' /\ FullscreenFollowsShow'
    BY <1>2, Zenon DEF ShowInv, ShowSound, IndexInRange, InRange, FullscreenFollowsShow
  <1>7. (active <=> files # <<>>)' /\ (timer => active)'
    BY <1>2, Zenon DEF ShowInv, ShowSound
  <1> QED BY <1>4, <1>5, <1>6, <1>7, Zenon DEF ShowInv, ShowSound

(* After a file that could not be opened, whether or not its box was up.   *)
LEMMA AfterFailureSound ==
  ASSUME ShowInv, ~Idle, AfterFailure, UNCHANGED <<index, options>>
  PROVE  /\ active' \in BOOLEAN /\ timer' \in BOOLEAN /\ fullscreen' \in BOOLEAN
         /\ files' \in Seq(Images) /\ stack' \in Seq(Frames)
         /\ ShowSound'
  <1>1. /\ active \in BOOLEAN /\ timer \in BOOLEAN /\ fullscreen \in BOOLEAN
        /\ files \in Seq(Images) /\ stack \in Seq(Frames) /\ ShowSound
    BY DEF ShowInv, TypeOK
  <1>2. Below \in Seq(Frames) /\ Top \in Frames
    BY <1>1, BelowSound
  <1>3. Top.attempts \in Nat
    BY <1>2 DEF Frames
  <1> DEFINE again(n) == Append(Below, [at |-> "step", attempts |-> n])
  <1>4. ASSUME NEW n \in Nat PROVE again(n) \in Seq(Frames) /\ again(n) # <<>>
    <2>1. [at |-> "step", attempts |-> n] \in Frames
      BY FrameOf
    <2> QED BY <1>2, <2>1, AppendProperties
  <1>5. Len(files) \in Nat
    BY <1>1
  <1>6. CASE Top.attempts = 0
    <2>1. stack' = (IF active /\ files # <<>> THEN again(Len(files)) ELSE Below)
          /\ UNCHANGED <<active, files, timer, fullscreen>>
      BY <1>6 DEF AfterFailure
    <2>2. stack' \in Seq(Frames)
      BY <1>2, <1>4, <1>5, <2>1
    <2>3. Idle' => ~active
      BY <1>1, <1>4, <1>5, <2>1 DEF Idle, ShowSound
    <2> QED BY <1>1, <2>1, <2>2, <2>3, KeptSound
  <1>7. CASE Top.attempts = 1
    <2>1. StopShow /\ stack' = Below
      BY <1>7 DEF AfterFailure
    <2> QED BY <1>2, <2>1, StopSound
  <1>8. CASE Top.attempts > 1
    <2>1. stack' = again(Top.attempts - 1) /\ UNCHANGED <<active, files, timer, fullscreen>>
      BY <1>3, <1>8 DEF AfterFailure
    <2>2. stack' \in Seq(Frames) /\ ~Idle'
      BY <1>3, <1>4, <1>8, <2>1 DEF Idle
    <2> QED BY <1>1, <2>1, <2>2, KeptSound
  <1> QED BY <1>3, <1>6, <1>7, <1>8

LEMMA OpenFailsSound == ShowInv /\ OpenFails => ShowInv'
  <1> SUFFICES ASSUME ShowInv, OpenFails PROVE ShowInv'
    OBVIOUS
  <1>1. ~Idle /\ AfterFailure /\ UNCHANGED <<index, round, options, shown, due, posted, visits>>
    BY DEF OpenFails, Running, queue
  <1>2. /\ active' \in BOOLEAN /\ timer' \in BOOLEAN /\ fullscreen' \in BOOLEAN
        /\ files' \in Seq(Images) /\ stack' \in Seq(Frames)
        /\ ShowSound'
    BY <1>1, AfterFailureSound
  <1>3. opening' \in BOOLEAN
    BY DEF OpenFails, ShowInv, TypeOK
  <1>4. hasFs' \in BOOLEAN
    BY DEF OpenFails, ShowInv, TypeOK
  <1>5. TypeOK'
    BY <1>1, <1>2, <1>3, <1>4 DEF ShowInv, TypeOK
  <1> QED BY <1>2, <1>5, Zenon DEF ShowInv

LEMMA CloseBoxSound == ShowInv /\ CloseBox => ShowInv'
  <1> SUFFICES ASSUME ShowInv, CloseBox PROVE ShowInv'
    OBVIOUS
  <1>1. /\ ~Idle /\ AfterFailure /\ opening' = FALSE
        /\ UNCHANGED <<index, round, options, shown, hasFs, due, posted, visits>>
    BY DEF CloseBox, Running, queue, doc
  <1>2. /\ active' \in BOOLEAN /\ timer' \in BOOLEAN /\ fullscreen' \in BOOLEAN
        /\ files' \in Seq(Images) /\ stack' \in Seq(Frames)
        /\ ShowSound'
    BY <1>1, AfterFailureSound
  <1>3. TypeOK'
    BY <1>1, <1>2 DEF ShowInv, TypeOK
  <1> QED BY <1>2, <1>3, Zenon DEF ShowInv

LEMMA OpenBoxesSound == ShowInv /\ OpenBoxes => ShowInv'
  <1> SUFFICES ASSUME ShowInv, OpenBoxes PROVE ShowInv'
    OBVIOUS
  <1>1. /\ ~Idle /\ opening' = TRUE /\ shown' = None /\ hasFs' = FALSE
        /\ stack' = Append(Below, [Top EXCEPT !.at = "box"])
        /\ UNCHANGED <<active, files, index, round, options, timer, fullscreen, due, posted, visits>>
    BY DEF OpenBoxes, Running, plan, queue
  <1>2. stack' \in Seq(Frames) /\ ~Idle'
    BY <1>1, TopMoved DEF ShowInv, TypeOK, Idle
  <1>3. TypeOK'
    BY <1>1, <1>2 DEF ShowInv, TypeOK
  <1>4. ShowSound'
    BY <1>1, <1>2, KeptSound DEF ShowInv
  <1> QED BY <1>3, <1>4 DEF ShowInv

(* The next place in the list, the end of the show, or the list anew.      *)
LEMMA StepSound == ShowInv /\ Step => ShowInv'
  <1> SUFFICES ASSUME ShowInv, Step PROVE ShowInv'
    OBVIOUS
  <1>1. ~Idle /\ UNCHANGED <<options, opening, shown, hasFs, due, posted, visits>>
    BY DEF Step, Running, doc, queue
  <1>2. /\ files \in Seq(Images) /\ index \in Nat \ {0} /\ round \in Nat
        /\ stack \in Seq(Frames) /\ Len(files) \in Nat
    BY DEF ShowInv, TypeOK
  <1> DEFINE next == Append(Below, [Top EXCEPT !.at = "open"])
  <1>3. next \in Seq(Frames) /\ next # <<>>
    BY <1>1, <1>2, TopMoved
  <1> HIDE DEF next
  <1>4. CASE index < Len(files)
    <2> ~(index >= Len(files))
      BY <1>2, <1>4
    <2>1. /\ index' = index + 1 /\ stack' = next
          /\ UNCHANGED <<active, files, round, timer, fullscreen>>
      BY <1>4, Zenon DEF Step, next
    <2>2. TypeOK'
      BY <1>1, <1>2, <1>3, <2>1 DEF ShowInv, TypeOK
    <2>3. ~Idle'
      BY <1>3, <2>1 DEF Idle
    <2>4. index' \in DOMAIN files'
      BY <1>2, <1>4, <2>1
    <2>5. IndexInRange' /\ NeverStalls' /\ FullscreenFollowsShow'
      BY <1>1, <2>1, <2>3, <2>4, Zenon
         DEF ShowInv, ShowSound, IndexInRange, InRange, NeverStalls, FullscreenFollowsShow
    <2>6. (active <=> files # <<>>)' /\ (timer => active)'
      BY <2>1, Zenon DEF ShowInv, ShowSound
    <2> QED BY <2>2, <2>5, <2>6, Zenon DEF ShowInv, ShowSound
  <1>5. CASE index >= Len(files) /\ options.rounds # 0 /\ round + 1 >= options.rounds
    <2>1. /\ index' = index + 1 /\ round' = round + 1 /\ StopShow /\ stack' = Below
      BY <1>2, <1>5 DEF Step
    <2>2. Below \in Seq(Frames)
      BY <1>1, <1>2, BelowSound
    <2>3. /\ active' = FALSE /\ timer' = FALSE /\ fullscreen' = FALSE
          /\ files' \in Seq(Images) /\ ShowSound'
      BY <2>1, StopSound
    <2>a. active' \in BOOLEAN /\ timer' \in BOOLEAN /\ fullscreen' \in BOOLEAN
      BY <2>3
    <2>b. index' \in Nat \ {0} /\ round' \in Nat /\ stack' \in Seq(Frames)
      BY <1>2, <2>1, <2>2
    <2>4. TypeOK'
      BY <1>1, <2>3, <2>a, <2>b DEF ShowInv, TypeOK
    <2> QED BY <2>3, <2>4 DEF ShowInv
  <1>6. CASE ~(index < Len(files))
             /\ ~(index >= Len(files) /\ options.rounds # 0 /\ round + 1 >= options.rounds)
    <2>1. /\ index' = 1 /\ stack' = next /\ files' \in Ordered(files, options)
          /\ round' = (IF options.rounds = 0 THEN round ELSE round + 1)
          /\ UNCHANGED <<active, timer, fullscreen>>
      BY <1>2, <1>6 DEF Step, next
    <2>2. files' \in Seq(Images) /\ Len(files') = Len(files)
      BY <1>2, <2>1, OrderedSound
    <2>3. round' \in Nat
      BY <1>2, <2>1
    <2>4. TypeOK'
      BY <1>1, <1>3, <2>1, <2>2, <2>3 DEF ShowInv, TypeOK
    <2>5. ~Idle'
      BY <1>3, <2>1 DEF Idle
    <2>6. files # <<>> <=> files' # <<>>
      BY <1>2, <2>2, EmptySeq
    <2>7. files' # <<>> => index' \in DOMAIN files'
      BY <2>1, <2>2, FirstPlace
    <2>8. (active <=> files # <<>>)' /\ (timer => active)'
      BY <2>1, <2>6, Zenon DEF ShowInv, ShowSound
    <2>9. IndexInRange' /\ NeverStalls' /\ FullscreenFollowsShow'
      BY <1>1, <2>1, <2>5, <2>7, <2>8, Zenon
         DEF ShowInv, ShowSound, IndexInRange, InRange, NeverStalls, FullscreenFollowsShow
    <2> QED BY <2>4, <2>8, <2>9, Zenon DEF ShowInv, ShowSound
  <1> QED BY <1>4, <1>5, <1>6

LEMMA StartSound == ShowInv /\ Start => ShowInv'
  <1> SUFFICES ASSUME ShowInv, NEW o \in Options, StartShow(o), Acts,
                      UNCHANGED <<opening, doc, queue>>
               PROVE  ShowInv'
    BY DEF Start
  <1>1. PICK list \in Lists(o) :
          /\ options' = o /\ timer' = FALSE
          /\ IF list = <<>>
             THEN /\ active' = FALSE /\ fullscreen' = FALSE /\ files' = <<>>
                  /\ UNCHANGED <<index, round, stack>>
             ELSE /\ files' \in Ordered(list, o)
                  /\ active' = TRUE /\ index' = 1 /\ round' = 0 /\ fullscreen' = o.full
                  /\ stack' = <<[at |-> "open", attempts |-> 0]>>
    BY DEF StartShow
  <1>2. visits' \in 0 .. MaxVisits /\ UNCHANGED <<opening, shown, hasFs, due, posted>>
    BY SlideShowAssumption DEF SlideShowAssumption, ShowInv, TypeOK, Acts, doc, queue
  <1>3. o.full \in BOOLEAN
    BY DEF Options
  <1>4. CASE list = <<>>
    <2>1. StopShow /\ UNCHANGED <<index, round, stack>>
      BY <1>1, <1>4 DEF StopShow
    <2>2. /\ active' = FALSE /\ timer' = FALSE /\ fullscreen' = FALSE
          /\ files' \in Seq(Images) /\ ShowSound'
      BY <2>1, StopSound
    <2>3. TypeOK'
      BY <1>1, <1>2, <2>1, <2>2 DEF ShowInv, TypeOK
    <2> QED BY <2>2, <2>3 DEF ShowInv
  <1>5. CASE list # <<>>
    <2>1. /\ files' \in Ordered(list, o)
          /\ active' = TRUE /\ index' = 1 /\ round' = 0 /\ fullscreen' = o.full
          /\ stack' = <<[at |-> "open", attempts |-> 0]>>
      BY <1>1, <1>5
    <2>2. list \in Seq(Images)
      BY ListsType
    <2>3. files' \in Seq(Images) /\ Len(files') = Len(list)
      BY <2>1, <2>2, OrderedSound
    <2>4. files' # <<>>
      BY <1>5, <2>2, <2>3, EmptySeq
    <2>5. index' \in DOMAIN files'
      BY <2>1, <2>3, <2>4, FirstPlace
    <2>6. stack' \in Seq(Frames) /\ ~Idle'
      BY <2>1, FrameOf DEF Idle
    <2>a. /\ index' \in Nat \ {0} /\ round' \in Nat /\ options' \in Options
      BY <1>1, <2>1
    <2>b. active' \in BOOLEAN /\ timer' \in BOOLEAN /\ fullscreen' \in BOOLEAN
      BY <1>1, <1>3, <2>1, Zenon
    <2>7. TypeOK'
      BY <1>2, <2>3, <2>6, <2>a, <2>b DEF ShowInv, TypeOK
    <2>8. FullscreenFollowsShow'
      BY <1>1, <1>3, <2>1 DEF FullscreenFollowsShow
    <2>9. IndexInRange' /\ NeverStalls'
      BY <2>5, <2>6 DEF IndexInRange, InRange, NeverStalls
    <2> QED BY <1>1, <2>1, <2>4, <2>7, <2>8, <2>9 DEF ShowInv, ShowSound
  <1> QED BY <1>4, <1>5

(* What the messages and the user do to a show that they leave running.    *)
LEMMA TimerFiresSound == ShowInv /\ TimerFires => ShowInv'
  <1> SUFFICES ASSUME ShowInv, TimerFires PROVE ShowInv'
    OBVIOUS
  <1>1. /\ due' = TRUE
        /\ UNCHANGED <<active, files, index, round, options, timer, fullscreen, opening,
                       stack, shown, hasFs, posted, visits>>
    BY DEF TimerFires, plan, doc
  <1>2. TypeOK'
    BY <1>1 DEF ShowInv, TypeOK
  <1>3. ShowSound'
    BY <1>1, KeptSound DEF ShowInv, Idle
  <1> QED BY <1>2, <1>3 DEF ShowInv

LEMMA OnTimerSound == ShowInv /\ OnTimer => ShowInv'
  <1> SUFFICES ASSUME ShowInv, OnTimer PROVE ShowInv'
    OBVIOUS
  <1>1. /\ due' = FALSE
        /\ UNCHANGED <<active, files, index, round, options, timer, fullscreen, opening,
                       shown, hasFs, posted, visits>>
    BY DEF OnTimer, plan, doc
  <1>2. Len(files) \in Nat /\ stack \in Seq(Frames)
    BY DEF ShowInv, TypeOK
  <1>3. stack' \in Seq(Frames) /\ (Idle' => Idle)
    <2>1. CASE stack' = stack
      BY <1>2, <2>1 DEF Idle
    <2>2. CASE stack' = Append(stack, [at |-> "step", attempts |-> Len(files)])
      <3>1. [at |-> "step", attempts |-> Len(files)] \in Frames
        BY <1>2, FrameOf
      <3> QED BY <1>2, <2>2, <3>1, AppendProperties DEF Idle
    <2> QED BY <2>1, <2>2 DEF OnTimer
  <1>4. TypeOK'
    BY <1>1, <1>3 DEF ShowInv, TypeOK
  <1>5. ShowSound'
    BY <1>1, <1>3, KeptSound DEF ShowInv
  <1> QED BY <1>4, <1>5 DEF ShowInv

LEMMA OnResetTimerSound == ShowInv /\ OnResetTimer => ShowInv'
  <1> SUFFICES ASSUME ShowInv, OnResetTimer PROVE ShowInv'
    OBVIOUS
  <1>1. /\ posted' = FALSE
        /\ UNCHANGED <<active, files, round, options, fullscreen, opening, stack,
                       shown, hasFs, due, visits>>
    BY DEF OnResetTimer, doc
  <1>2. CASE UNCHANGED <<index, timer>>
    <2>1. TypeOK'
      BY <1>1, <1>2 DEF ShowInv, TypeOK
    <2>2. ShowSound'
      BY <1>1, <1>2, KeptSound DEF ShowInv, Idle
    <2> QED BY <2>1, <2>2 DEF ShowInv
  <1>3. CASE active /\ SyncIndex /\ ResetTimer
    <2>1. timer' = TRUE
      BY <1>3 DEF ResetTimer
    <2>2. index' = index \/ index' \in DOMAIN files
      BY <1>3 DEF SyncIndex
    <2>3. index \in DOMAIN files
      BY <1>3 DEF ShowInv, ShowSound, IndexInRange, InRange
    <2>4. index' \in DOMAIN files
      BY <2>2, <2>3
    <2>5. index' \in Nat \ {0}
      BY <2>4 DEF ShowInv, TypeOK
    <2>6. TypeOK'
      BY <1>1, <2>1, <2>5 DEF ShowInv, TypeOK
    <2>7. IndexInRange' /\ NeverStalls' /\ FullscreenFollowsShow'
      BY <1>1, <2>1, <2>4, Zenon
         DEF ShowInv, ShowSound, IndexInRange, InRange, NeverStalls, FullscreenFollowsShow
    <2>8. (active <=> files # <<>>)' /\ (timer => active)'
      BY <1>1, <1>3, Zenon DEF ShowInv, ShowSound
    <2> QED BY <2>6, <2>7, <2>8 DEF ShowInv, ShowSound
  <1> QED BY <1>2, <1>3 DEF OnResetTimer

LEMMA StopActSound == ShowInv /\ Stop => ShowInv'
  <1> SUFFICES ASSUME ShowInv, Stop PROVE ShowInv'
    OBVIOUS
  <1>1. StopShow /\ UNCHANGED <<index, round, options, opening, stack, shown, hasFs, due, posted>>
    BY DEF Stop, doc, queue
  <1>2. visits' \in 0 .. MaxVisits
    BY SlideShowAssumption DEF SlideShowAssumption, ShowInv, TypeOK, Stop, Acts
  <1>3. /\ active' = FALSE /\ timer' = FALSE /\ fullscreen' = FALSE
        /\ files' \in Seq(Images) /\ ShowSound'
    BY <1>1, StopSound
  <1>4. TypeOK'
    BY <1>1, <1>2, <1>3 DEF ShowInv, TypeOK
  <1> QED BY <1>3, <1>4 DEF ShowInv

LEMMA UserOpensSound == ShowInv /\ (Navigate \/ Browse) => ShowInv'
  <1> SUFFICES ASSUME ShowInv, Navigate \/ Browse PROVE ShowInv'
    OBVIOUS
  <1>1. UNCHANGED <<active, files, index, round, options, timer, fullscreen, opening, stack, due>>
    BY DEF Navigate, Browse, plan, queue
  <1>2. visits' \in 0 .. MaxVisits
    BY SlideShowAssumption DEF SlideShowAssumption, ShowInv, TypeOK, Navigate, Browse, Acts
  <1>3. shown' \in Images \union {None} /\ hasFs' \in BOOLEAN
    BY DEF Navigate, Browse
  <1>4. posted' \in BOOLEAN
    BY DEF ShowInv, TypeOK, Navigate, Browse, queue
  <1>5. TypeOK'
    BY <1>1, <1>2, <1>3, <1>4 DEF ShowInv, TypeOK
  <1>6. ShowSound'
    BY <1>1, KeptSound DEF ShowInv, Idle
  <1> QED BY <1>5, <1>6 DEF ShowInv

(* Every step of the specification keeps the invariant.                    *)
LEMMA ShowStep == ShowInv /\ [Next]_vars => ShowInv'
  <1> SUFFICES ASSUME ShowInv, [Next]_vars PROVE ShowInv'
    OBVIOUS
  <1>1. CASE UNCHANGED vars
    <2>1. UNCHANGED <<active, files, index, round, options, timer, fullscreen, opening, stack,
                      shown, hasFs, due, posted, visits>>
      BY <1>1 DEF vars, plan, doc, queue
    <2>2. TypeOK'
      BY <2>1 DEF ShowInv, TypeOK
    <2>3. ShowSound'
      BY <2>1, KeptSound DEF ShowInv, Idle
    <2> QED BY <2>2, <2>3 DEF ShowInv
  <1>2. CASE Run
    BY <1>2, OpenSucceedsSound, OpenFailsSound, OpenBoxesSound, StepSound DEF Run
  <1>3. CASE CloseBox \/ TimerFires \/ OnTimer \/ OnResetTimer
    BY <1>3, CloseBoxSound, TimerFiresSound, OnTimerSound, OnResetTimerSound
  <1>4. CASE User
    BY <1>4, StartSound, StopActSound, UserOpensSound DEF User
  <1> QED BY <1>1, <1>2, <1>3, <1>4 DEF Next

-----------------------------------------------------------------------------
(* StopSlideShow(), StartSlideShow() and the calls they nest in keep every *)
(* variable of the show in its type, and a list of images a list of images.*)
THEOREM ShowTypeCorrect == Spec => []TypeOK
  <1>1. ShowInv => TypeOK
    BY DEF ShowInv
  <1> QED BY <1>1, InitSound, ShowStep, PTL DEF Spec

(* Whatever nested calls and broken files there were, a show that runs     *)
(* while the UI thread is idle has its timer set -- no path through        *)
(* AdvanceSlideShow() returns without setting it or ending the show -- and *)
(* stands at one of its files; the window is in full screen exactly while  *)
(* a show that asked for it runs.                                          *)
THEOREM ShowStaysIntact == Spec => []ShowIntact
  <1>1. ShowInv => ShowIntact
    BY DEF ShowInv, ShowSound, ShowIntact
  <1> QED BY <1>1, InitSound, ShowStep, PTL DEF Spec

(* A call that waited for its message box while a nested one ended the     *)
(* show opens nothing when it goes on: the list it would take a file from  *)
(* is empty.                                                               *)
THEOREM ShowStoppedOpensNothing == Spec => StoppedOpensNothing
  <1>1. ShowInv /\ [Next]_vars => [~Idle /\ doc' # doc => active]_vars
    <2> SUFFICES ASSUME ShowInv, [Next]_vars, ~Idle, doc' # doc PROVE active
      OBVIOUS
    <2>1. CanOpen => active
      <3>1. ASSUME InRange PROVE files # <<>>
        BY <3>1 DEF InRange
      <3> QED BY <3>1 DEF CanOpen, ShowInv, ShowSound
    <2>2. CASE Run
      <3>1. CASE OpenSucceeds \/ OpenBoxes
        BY <2>1, <3>1 DEF OpenSucceeds, OpenBoxes
      <3>2. CASE OpenFails
        BY <2>1, <3>2 DEF OpenFails, doc, ShowInv, TypeOK
      <3>3. CASE Step
        BY <3>3 DEF Step
      <3> QED BY <2>2, <3>1, <3>2, <3>3 DEF Run
    <2>3. CASE User
      BY <2>3 DEF User, Start, Stop, Navigate, Browse, Acts
    <2>4. CASE CloseBox \/ TimerFires \/ OnTimer \/ OnResetTimer
      BY <2>4 DEF CloseBox, TimerFires, OnTimer, OnResetTimer
    <2>5. CASE UNCHANGED vars
      BY <2>5 DEF vars
    <2> QED BY <2>2, <2>3, <2>4, <2>5 DEF Next
  <1> QED BY <1>1, InitSound, ShowStep, PTL DEF Spec, StoppedOpensNothing
=============================================================================
