----------------------------- MODULE SlideShow -----------------------------
(***************************************************************************)
(* The slide show of the main window (MainWnd.cpp).  A timer advances      *)
(* through a list of files; each file is opened with Doc::open(), and when *)
(* that fails the next one is tried at once.                               *)
(*                                                                         *)
(* Some failures of open() put up a message box, and a message box pumps   *)
(* messages: the timer keeps firing, and AdvanceSlideShow() is entered     *)
(* again while an earlier call waits for its box to be closed.  "stack" is *)
(* the call stack of the UI thread.  Its frames are the calls of           *)
(* StartSlideShow() (attempts = 0) and of AdvanceSlideShow() (attempts     *)
(* still to be made, the one under way included); at "box" the UI thread   *)
(* handles messages.  Main window and menu are disabled then, so the user  *)
(* acts only when the stack is empty.                                      *)
(*                                                                         *)
(* List positions are counted from 1.  The document is seen from here as   *)
(* the path it shows and whether it has a file system (module Doc has the  *)
(* rest).  The operators marked "Fault" are not part of the specification. *)
(***************************************************************************)
EXTENDS Naturals, Sequences, SequencesExt

CONSTANTS
  Images,       \* the paths of the files
  None,         \* no path
  Folder,       \* the listing of the document's directory
  CustomLists,  \* the custom lists a user may have put together
  MaxRounds,    \* the bound on the rounds of a show that counts them
  MaxBoxes,     \* the bound on the message boxes that are up when a tick comes
  MaxVisits     \* the bound on what the user does besides closing boxes

ASSUME SlideShowAssumption ==
  /\ None \notin Images
  /\ Folder \in Seq(Images)
  /\ CustomLists \subseteq Seq(Images) \ {<<>>}
  /\ MaxRounds \in Nat /\ MaxBoxes \in Nat /\ MaxVisits \in Nat

\* rounds = 0 is REPEAT_FOREVER; the dialog clamps a count to at least 1.
Options == [items : CustomLists \union {None}, order : {"normal", "reverse", "random"},
            rounds : 0 .. MaxRounds, full : BOOLEAN]

VARIABLES
  active,      \* m_slideShowActive
  files,       \* m_slideShowFiles
  index,       \* m_slideShowIndex
  round,       \* m_slideShowRound
  options,     \* m_slideShowOptions; items = None is SOURCE_CURRENT_FOLDER
  timer,       \* m_slideShowTimer: it is set
  fullscreen,  \* m_slideShowFullscreen
  opening,     \* m_slideShowOpening
  stack,       \* the calls in progress on the UI thread
  shown,       \* Doc::_path
  hasFs,       \* Doc::_unifs is set
  due,         \* a WM_TIMER message is waiting
  posted,      \* a WM_APP_SLIDESHOW_RESET_TIMER message is waiting
  visits       \* what the user has done so far (a bound, not in the code)

plan  == <<files, index, round, options>>
doc   == <<shown, hasFs>>
queue == <<due, posted>>
vars  == <<active, plan, timer, fullscreen, opening, stack, doc, queue, visits>>

Frames == [at : {"open", "box", "step"}, attempts : Nat]

TypeOK ==
  /\ active \in BOOLEAN /\ timer \in BOOLEAN
  /\ fullscreen \in BOOLEAN /\ opening \in BOOLEAN
  /\ files \in Seq(Images) /\ index \in Nat \ {0} /\ round \in Nat
  /\ options \in Options
  /\ stack \in Seq(Frames)
  /\ shown \in Images \union {None} /\ hasFs \in BOOLEAN
  /\ due \in BOOLEAN /\ posted \in BOOLEAN /\ visits \in 0 .. MaxVisits

Init ==
  /\ active = FALSE /\ timer = FALSE /\ fullscreen = FALSE /\ opening = FALSE
  /\ files = <<>> /\ index = 1 /\ round = 0
  /\ options = [items |-> None, order |-> "normal", rounds |-> 0, full |-> FALSE]
  /\ stack = <<>>
  /\ shown = None /\ hasFs = FALSE
  /\ due = FALSE /\ posted = FALSE /\ visits = 0

Idle == stack = <<>>
Top == stack[Len(stack)]
Below == SubSeq(stack, 1, Len(stack) - 1)
Running(at) == ~Idle /\ Top.at = at
Dispatching == Idle \/ Running("box")

-----------------------------------------------------------------------------
(* BuildSlideShowFiles(): the custom list, or the listing from the current *)
(* file on and round to it again; nothing if there is no current file.     *)
Turned(s, i) == SubSeq(s, i, Len(s)) \o SubSeq(s, 1, i - 1)
BackFrom(s, i) == Reverse(Turned(s, (i % Len(s)) + 1))

Lists(o) ==
  IF o.items # None
  THEN {IF o.order = "reverse" THEN Reverse(o.items) ELSE o.items}
  ELSE {<<>>} \union
       {IF o.order = "reverse" THEN BackFrom(Folder, i) ELSE Turned(Folder, i) :
          i \in IF hasFs THEN DOMAIN Folder ELSE {}}

Shuffles(s) ==
  LET places == DOMAIN s
      orders == {p \in [places -> places] : \A i, j \in places : p[i] = p[j] => i = j}
  IN  {[i \in places |-> s[p[i]]] : p \in orders}

Ordered(s, o) == IF o.order = "random" THEN Shuffles(s) ELSE {s}

-----------------------------------------------------------------------------
\* Fault: the list of files outlives the show.
StopShow_KeepsFiles ==
  /\ active' = FALSE /\ timer' = FALSE /\ fullscreen' = FALSE
  /\ UNCHANGED files

(* StopSlideShow().                                                        *)
StopShow ==
  /\ active' = FALSE /\ timer' = FALSE /\ fullscreen' = FALSE
  /\ files' = <<>>

ResetTimer == timer' = (active \/ timer)

\* Fault: the new show begins at the index of the one before.
StartShow_KeepsIndex(o) ==
  \E list \in Lists(o) :
    /\ options' = o /\ timer' = FALSE
    /\ IF list = <<>>
       THEN /\ active' = FALSE /\ fullscreen' = FALSE /\ files' = <<>>
            /\ UNCHANGED <<index, round, stack>>
       ELSE /\ files' \in Ordered(list, o)
            /\ active' = TRUE /\ round' = 0 /\ fullscreen' = o.full
            /\ stack' = <<[at |-> "open", attempts |-> 0]>>
            /\ UNCHANGED index

(* StartSlideShow(), up to the first open(): StopSlideShow(), then the new *)
(* list.  Without files a message box is all that follows.                 *)
StartShow(o) ==
  \E list \in Lists(o) :
    /\ options' = o /\ timer' = FALSE
    /\ IF list = <<>>
       THEN /\ active' = FALSE /\ fullscreen' = FALSE /\ files' = <<>>
            /\ UNCHANGED <<index, round, stack>>
       ELSE /\ files' \in Ordered(list, o)
            /\ active' = TRUE /\ index' = 1 /\ round' = 0 /\ fullscreen' = o.full
            /\ stack' = <<[at |-> "open", attempts |-> 0]>>

-----------------------------------------------------------------------------
(* OpenSlideShowCurrent().  A folder show has no file system of its own:   *)
(* it uses the document's, if it still has one.                            *)
InRange == index \in DOMAIN files
CanOpen == InRange /\ (options.items # None \/ hasFs)

(* The file is opened, or one next to it if it is not there any more.      *)
OpenSucceeds ==
  /\ Running("open") /\ CanOpen
  /\ shown' \in Images /\ hasFs' = TRUE
  /\ opening' = FALSE
  /\ ResetTimer
  /\ stack' = Below
  /\ UNCHANGED <<active, plan, fullscreen, queue, visits>>

\* Fault: the attempts are not counted.
AfterFailure_Forever ==
  /\ stack' = Append(Below, [at |-> "step", attempts |-> Len(files)])
  /\ UNCHANGED <<active, files, timer, fullscreen>>

(* What follows a file that could not be opened: StartSlideShow() calls    *)
(* AdvanceSlideShow(), which tries as many files as the list has.          *)
AfterFailure ==
  CASE Top.attempts = 0 ->
         /\ stack' = IF active /\ files # <<>>
                     THEN Append(Below, [at |-> "step", attempts |-> Len(files)])
                     ELSE Below
         /\ UNCHANGED <<active, files, timer, fullscreen>>
    [] Top.attempts = 1 -> StopShow /\ stack' = Below
    [] OTHER ->
         /\ stack' = Append(Below, [at |-> "step", attempts |-> Top.attempts - 1])
         /\ UNCHANGED <<active, files, timer, fullscreen>>

(* open() fails without a box (a locked file, no file system; no codec for *)
(* it, and then it has set the file system already), or there is no file   *)
(* at this index: a nested call has ended the show.                        *)
OpenFails ==
  /\ Running("open")
  /\ opening' = IF InRange THEN FALSE ELSE opening
  /\ hasFs' \in {hasFs, hasFs \/ CanOpen}
  /\ AfterFailure
  /\ UNCHANGED <<index, round, options, shown, queue, visits>>

(* open() cannot list the directory, or reconnect: it has cleared the      *)
(* document when the box comes up.                                         *)
OpenBoxes ==
  /\ Running("open") /\ CanOpen
  /\ opening' = TRUE
  /\ shown' = None /\ hasFs' = FALSE
  /\ stack' = Append(Below, [Top EXCEPT !.at = "box"])
  /\ UNCHANGED <<active, plan, timer, fullscreen, queue, visits>>

CloseBox ==
  /\ Running("box")
  /\ opening' = FALSE
  /\ AfterFailure
  /\ UNCHANGED <<index, round, options, doc, queue, visits>>

\* Fault: the rounds are not counted.
Step_CountsNothing ==
  /\ Running("step")
  /\ IF index < Len(files)
     THEN /\ index' = index + 1
          /\ UNCHANGED files
     ELSE /\ index' = 1
          /\ files' \in Ordered(files, options)
  /\ stack' = Append(Below, [Top EXCEPT !.at = "open"])
  /\ UNCHANGED <<active, round, timer, fullscreen, options, opening, doc, queue, visits>>

(* StepSlideShowIndex().  The rounds of a show without end are counted in  *)
(* the code too, but never looked at.                                      *)
Step ==
  /\ Running("step")
  /\ CASE index < Len(files) ->
            /\ index' = index + 1
            /\ stack' = Append(Below, [Top EXCEPT !.at = "open"])
            /\ UNCHANGED <<active, files, round, timer, fullscreen>>
       [] index >= Len(files) /\ options.rounds # 0 /\ round + 1 >= options.rounds ->
            /\ index' = index + 1 /\ round' = round + 1
            /\ StopShow
            /\ stack' = Below
       [] OTHER ->
            /\ index' = 1
            /\ round' = IF options.rounds = 0 THEN round ELSE round + 1
            /\ files' \in Ordered(files, options)
            /\ stack' = Append(Below, [Top EXCEPT !.at = "open"])
            /\ UNCHANGED <<active, timer, fullscreen>>
  /\ UNCHANGED <<options, opening, doc, queue, visits>>

-----------------------------------------------------------------------------
(* Messages.  KillTimer() and SetTimer() leave a WM_TIMER message that is  *)
(* waiting where it is.                                                    *)
TimerFires ==
  /\ timer /\ ~due
  /\ due' = TRUE
  /\ UNCHANGED <<active, plan, timer, fullscreen, opening, stack, doc, posted, visits>>

OnTimer ==
  /\ due /\ Dispatching /\ Len(stack) <= MaxBoxes
  /\ due' = FALSE
  /\ stack' = IF timer /\ active /\ files # <<>>
              THEN Append(stack, [at |-> "step", attempts |-> Len(files)])
              ELSE stack
  /\ UNCHANGED <<active, plan, timer, fullscreen, opening, doc, posted, visits>>

\* Fault: a path that is not in the list is not told from one that is.
SyncIndex_Unfound ==
  LET places == {i \in DOMAIN files : files[i] = shown}
  IN  IF places = {} THEN index' = 0
      ELSE \E i \in places : (\A j \in places : i <= j) /\ index' = i

(* SyncSlideShowIndexToCurrent().                                          *)
SyncIndex ==
  LET places == {i \in DOMAIN files : files[i] = shown}
  IN  IF places = {} THEN UNCHANGED index
      ELSE \E i \in places : (\A j \in places : i <= j) /\ index' = i

OnResetTimer ==
  /\ posted /\ Dispatching
  /\ posted' = FALSE
  /\ IF active /\ ~opening THEN SyncIndex /\ ResetTimer ELSE UNCHANGED <<index, timer>>
  /\ UNCHANGED <<active, files, round, options, fullscreen, opening, stack, doc, due, visits>>

-----------------------------------------------------------------------------
(* The user.  A message box of an open() of his own pumps messages too;    *)
(* nothing of the show depends on when he closes it.                       *)
Acts == Idle /\ visits < MaxVisits /\ visits' = visits + 1

Start ==
  /\ Acts
  /\ \E o \in Options : StartShow(o)
  /\ UNCHANGED <<opening, doc, queue>>

\* ID_FILE_EXIT.
Stop ==
  /\ Acts /\ (active \/ fullscreen)
  /\ StopShow
  /\ UNCHANGED <<index, round, options, opening, stack, doc, queue>>

\* He goes to another file of the folder, and the show goes on from there.
Navigate ==
  /\ Acts /\ hasFs
  /\ shown' \in Images /\ hasFs' = TRUE
  /\ posted' = TRUE
  /\ UNCHANGED <<active, plan, timer, fullscreen, opening, stack, due>>

\* He opens any other file, or tries to.
Browse ==
  /\ Acts
  /\ \/ shown' \in Images /\ hasFs' = TRUE
     \/ shown' = None /\ hasFs' = FALSE
  /\ UNCHANGED <<active, plan, timer, fullscreen, opening, stack, queue>>

Run == OpenSucceeds \/ OpenFails \/ OpenBoxes \/ Step
User == Start \/ Stop \/ Navigate \/ Browse
Next == Run \/ CloseBox \/ TimerFires \/ OnTimer \/ OnResetTimer \/ User

Spec == Init /\ [][Next]_vars

(* A call that is not waiting goes on; messages are dispatched, and timers *)
(* fire.  The user closes a box he sees again and again (each of those     *)
(* that may be on top of each other), and opens files only so often.       *)
CloseBoxAt(d) == Len(stack) = d /\ CloseBox
Fairness ==
  /\ WF_vars(Run) /\ WF_vars(TimerFires) /\ WF_vars(OnTimer) /\ WF_vars(OnResetTimer)
  /\ \A d \in 1 .. MaxBoxes + 1 : SF_vars(CloseBoxAt(d))
FairSpec == Spec /\ Fairness

-----------------------------------------------------------------------------
(* A running show has its timer: whatever nested calls and failed files    *)
(* there were, it does not come to a halt with the window in full screen.  *)
NeverStalls == Idle /\ active => timer

(* Where a show stands is a place in its list, whichever call moves it     *)
(* (AdvanceSlideShow, also nested, and the reset message, against shows    *)
(* that start, end and are reordered).                                     *)
IndexInRange == active => InRange

(* The window is in full screen exactly when a show runs that asks for it: *)
(* StopSlideShow() in a nested call and a new show over a running one      *)
(* included.                                                               *)
FullscreenFollowsShow == fullscreen = (active /\ options.full)

(* A show that runs is whole: timer, place and full screen.                *)
ShowIntact == NeverStalls /\ IndexInRange /\ FullscreenFollowsShow

(* A show that was stopped opens no more files, not even by a call that    *)
(* was waiting for its message box when a nested one stopped it.           *)
StoppedOpensNothing ==
  [][~Idle /\ doc' # doc => active]_vars

(* Every call comes back: no list of broken files keeps the UI thread, as  *)
(* long as the user closes the boxes.                                      *)
CallsReturn == ~Idle ~> Idle

(* A show of so many rounds ends (unless the user starts one without end   *)
(* in its place).                                                          *)
ShowEnds == active /\ options.rounds # 0 ~> ~active \/ options.rounds = 0

=============================================================================
