------------------------------- MODULE Settings -------------------------------
(* What the program keeps between runs: Config with its two ini files, the    *)
(* recent files, the addresses of the connect dialog and the window's place.  *)
(* Instances of the program run side by side; each writes key by key and may  *)
(* be killed between two keys.  An instance that may write beside the program *)
(* (as an administrator, say) writes the exe file, another the user's.        *)
(*                                                                            *)
(* A value that is absent and one that is empty read the same: Empty is both. *)
(* Reading the keys of one list is one step.                                  *)
EXTENDS Integers, FiniteSets, FiniteSetsExt, SequencesExt

CONSTANTS
  Insts,         \* instances of the program
  Locals,        \* paths of local files
  Remotes,       \* records [path, host, port] of remote files
  Addresses,     \* what is typed into the connect dialog
  MaxItems,      \* MAX_ITEMS
  MaxHosts,      \* 5
  Rects, Works,  \* windows' places, work areas of monitors
  MinWidth, MinHeight,
  MaxStarts, MaxAdds,  \* bounds: starts of the program, files and addresses
  Empty

NoPort == "0"
LocalEntry(p) == [type |-> "local", path |-> p, host |-> Empty, port |-> NoPort]
RemoteEntry(r) == [type |-> "remote", path |-> r.path, host |-> r.host, port |-> r.port]
Entries == {LocalEntry(p) : p \in Locals} \union {RemoteEntry(r) : r \in Remotes}

Slots == 1 .. MaxItems
Fields == <<"type", "path", "host", "port">>   \* in the order Save() writes them
RecentKeys == ToSet(Fields) \X Slots
HostKeys == {"addr"} \X (1 .. MaxHosts)
PlaceKey == <<"place", 1>>
Keys == RecentKeys \union HostKeys \union {PlaceKey}
Rect == [left : Int, top : Int, right : Int, bottom : Int]

ASSUME PlacesAssumption ==
  /\ Rects \subseteq Rect
  /\ Works \subseteq {w \in Rect : w.left < w.right /\ w.top < w.bottom}
  /\ MinWidth \in Nat /\ MinHeight \in Nat /\ Empty \notin Rect
\* Add() refuses an entry without a path; what was opened on a server, or
\* connected to, has a host and a port.
ASSUME TextsAssumption ==
  /\ Empty \notin Locals \union Addresses \union {"local", "remote", NoPort}
  /\ \A r \in Remotes : Empty \notin {r.path, r.host, r.port} /\ r.port # NoPort
ASSUME BoundsAssumption == MaxItems \in Nat /\ MaxHosts \in Nat /\ MaxStarts \in Nat /\ MaxAdds \in Nat

VARIABLES
  ini,     \* the two ini files
  prog,    \* the instances
  starts, adds,
  asked,   \* addresses that were connected to
  raced    \* two instances were writing at once, or one was killed while it wrote

vars == <<ini, prog, starts, adds, asked, raced>>

Off == [on |-> FALSE, file |-> "exe", list |-> <<>>, todo |-> <<>>, win |-> Empty, work |-> Empty,
        log |-> <<>>, before |-> <<>>, saved |-> FALSE, alone |-> TRUE]

Init ==
  /\ ini = [f \in {"exe", "user"} |-> [k \in Keys |-> Empty]]
  /\ prog = [i \in Insts |-> Off]
  /\ starts = 0 /\ adds = 0 /\ asked = {} /\ raced = FALSE

-----------------------------------------------------------------------------
(* What a list has at some of its places, in their order: push_back() of what *)
(* a loop does not skip, and remove_if().                                     *)
InOrder(places) ==
  CHOOSE at \in [1 .. Cardinality(places) -> places] :
    \A m, n \in DOMAIN at : m < n => at[m] < at[n]
Sift(list, places) == LET at == InOrder(places) IN [n \in DOMAIN at |-> list[at[n]]]

-----------------------------------------------------------------------------
(* Config.                                                                    *)

\* getStr() and getInt(): the exe file first, whoever wrote last.
Get(key) == IF ini["exe"][key] # Empty THEN ini["exe"][key] ELSE ini["user"][key]

\* The constructor tries to write beside the program.
WriteFile(writable) == IF writable THEN "exe" ELSE "user"

-----------------------------------------------------------------------------
(* RecentFileRegistry.                                                        *)

\* A slot counts if it says all that its type needs.
SlotEntry(s) ==
  IF Get(<<"type", s>>) = "remote"
  THEN [type |-> "remote", path |-> Get(<<"path", s>>), host |-> Get(<<"host", s>>),
        port |-> Get(<<"port", s>>)]
  ELSE LocalEntry(Get(<<"path", s>>))
SlotCounts(s) ==
  /\ Get(<<"type", s>>) # Empty /\ Get(<<"path", s>>) # Empty
  /\ Get(<<"type", s>>) = "remote" =>
       Get(<<"host", s>>) # Empty /\ Get(<<"port", s>>) \notin {Empty, NoPort}
Load == Sift([s \in Slots |-> SlotEntry(s)], {s \in Slots : SlotCounts(s)})

Without(list, e) == Sift(list, {n \in DOMAIN list : list[n] # e})

\* Fault: the list is not cut.
MoveToFront_Grows(e, list, max) == <<e>> \o Without(list, e)

\* Add(), and SaveHistory(): once, and first.
MoveToFront(e, list, max) ==
  LET moved == <<e>> \o Without(list, e)
  IN  SubSeq(moved, 1, Min({max, Len(moved)}))

NoEntry == [type |-> Empty, path |-> Empty, host |-> Empty, port |-> NoPort]

\* Fault: only the slots that are used are written.
SavesList_Used(list) ==
  [n \in 1 .. 4 * Len(list) |->
     LET slot == ((n - 1) \div 4) + 1
         field == Fields[((n - 1) % 4) + 1]
     IN  [key |-> <<field, slot>>, val |-> list[slot][field]]]

\* Fault: field after field, instead of entry after entry.
SavesList_ByField(list) ==
  [n \in 1 .. 4 * MaxItems |->
     LET slot == ((n - 1) % MaxItems) + 1
         field == Fields[((n - 1) \div MaxItems) + 1]
         entry == IF slot <= Len(list) THEN list[slot] ELSE NoEntry
     IN  [key |-> <<field, slot>>, val |-> entry[field]]]

\* What Save() writes: every key of every slot.
SavesList(list) ==
  [n \in 1 .. 4 * MaxItems |->
     LET slot == ((n - 1) \div 4) + 1
         field == Fields[((n - 1) % 4) + 1]
         entry == IF slot <= Len(list) THEN list[slot] ELSE NoEntry
     IN  [key |-> <<field, slot>>, val |-> entry[field]]]

-----------------------------------------------------------------------------
(* The history of addresses, of ConnectDlg.cpp.                               *)

LoadHistory == Sift([h \in 1 .. MaxHosts |-> Get(<<"addr", h>>)],
                    {h \in 1 .. MaxHosts : Get(<<"addr", h>>) # Empty})

\* Fault: the first address is written, the others are thought to be there.
SavesHistory_First(hist) == <<[key |-> <<"addr", 1>>, val |-> hist[1]]>>

SavesHistory(hist) ==
  [n \in 1 .. MaxHosts |->
     [key |-> <<"addr", n>>, val |-> IF n <= Len(hist) THEN hist[n] ELSE Empty]]

-----------------------------------------------------------------------------
(* The window's place.                                                        *)

\* Fault: the work area's length is looked at first.
Length_MinLast(lo, hi, wlo, whi, least) ==
  LET fitting == IF hi - lo > whi - wlo THEN whi - wlo ELSE hi - lo
  IN  IF fitting < least THEN least ELSE fitting

\* One axis of ClampWindowRectToNearestWorkArea(): at least `least` long, at
\* most as the work area; moved back from its far edge, then from its near one.
Length(lo, hi, wlo, whi, least) ==
  LET wanted == IF hi - lo < least THEN least ELSE hi - lo
  IN  IF wanted > whi - wlo THEN whi - wlo ELSE wanted

Near(lo, length, wlo, whi) ==
  LET back == IF lo + length > whi THEN whi - length ELSE lo
  IN  IF back < wlo THEN wlo ELSE back

Clamp(rc, work) ==
  LET width == Length(rc.left, rc.right, work.left, work.right, MinWidth)
      height == Length(rc.top, rc.bottom, work.top, work.bottom, MinHeight)
      left == Near(rc.left, width, work.left, work.right)
      top == Near(rc.top, height, work.top, work.bottom)
  IN  [left |-> left, top |-> top, right |-> left + width, bottom |-> top + height]

\* LoadWindowPlacement(): not a place that is inside out.
Placed(saved, work) ==
  IF saved = Empty THEN Empty
  ELSE IF saved.left < saved.right /\ saved.top < saved.bottom THEN Clamp(saved, work) ELSE Empty

-----------------------------------------------------------------------------
\* The program starts, allowed to write beside itself or not.
Start(i, writable, work) ==
  /\ ~prog[i].on /\ starts < MaxStarts
  /\ starts' = starts + 1
  /\ prog' = [prog EXCEPT ![i] = [Off EXCEPT !.on = TRUE, !.file = WriteFile(writable),
                                             !.list = Load, !.work = work,
                                             !.win = Placed(Get(PlaceKey), work)]]
  /\ UNCHANGED <<ini, adds, asked, raced>>

Ready(i) == prog[i].on /\ prog[i].todo = <<>>

\* A file was opened: Add() and the first step of its Save().
AddRecent(i, e) ==
  /\ Ready(i) /\ adds < MaxAdds
  /\ adds' = adds + 1
  /\ LET list == MoveToFront(e, prog[i].list, MaxItems) IN
       prog' = [prog EXCEPT ![i].list = list, ![i].todo = SavesList(list), ![i].saved = TRUE,
                            ![i].log = <<e>> \o @, ![i].before = Load, ![i].alone = TRUE]
  /\ UNCHANGED <<ini, starts, asked, raced>>

\* A server was connected to: SaveHistory() of what is there now.
Connected(i, a) ==
  /\ Ready(i) /\ adds < MaxAdds
  /\ adds' = adds + 1
  /\ prog' = [prog EXCEPT ![i].todo = SavesHistory(MoveToFront(a, LoadHistory, MaxHosts))]
  /\ asked' = asked \union {a}
  /\ UNCHANGED <<ini, starts, raced>>

\* setStr() or setInt(): the next key.  What the encoding of the file and the
\* buffer of 511 characters do to a value is left out.
Write(i) ==
  /\ prog[i].todo # <<>>
  /\ LET w == Head(prog[i].todo) IN
       /\ ini' = [ini EXCEPT ![prog[i].file][w.key] = w.val]
       /\ prog' = [j \in Insts |-> IF j = i THEN [prog[i] EXCEPT !.todo = Tail(@)]
                                   ELSE [prog[j] EXCEPT !.alone = FALSE]]
  /\ raced' = (raced \/ \E j \in Insts \ {i} : prog[j].todo # <<>>)
  /\ UNCHANGED <<starts, adds, asked>>

\* SaveWindowPlacement(), wherever the user left the window.
Quit(i, rc) ==
  /\ Ready(i)
  /\ ini' = [ini EXCEPT ![prog[i].file][PlaceKey] = rc]
  /\ prog' = [prog EXCEPT ![i] = Off]
  /\ UNCHANGED <<starts, adds, asked, raced>>

Kill(i) ==
  /\ prog[i].on
  /\ prog' = [prog EXCEPT ![i] = Off]
  /\ raced' = (raced \/ prog[i].todo # <<>>)
  /\ UNCHANGED <<ini, starts, adds, asked>>

Next == \E i \in Insts :
  \/ \E writable \in BOOLEAN, work \in Works : Start(i, writable, work)
  \/ \E e \in Entries : AddRecent(i, e)
  \/ \E a \in Addresses : Connected(i, a)
  \/ Write(i)
  \/ \E rc \in Rects : Quit(i, rc)
  \/ Kill(i)

Spec == Init /\ [][Next]_vars
-----------------------------------------------------------------------------
(* Lists are no longer than their maximum, files hold values of their keys.   *)
Texts == Locals \union Addresses \union {"local", "remote", NoPort, Empty}
           \union UNION {{r.path, r.host, r.port} : r \in Remotes}
TypeOK ==
  /\ \A f \in {"exe", "user"} : /\ \A key \in Keys \ {PlaceKey} : ini[f][key] \in Texts
                                /\ ini[f][PlaceKey] \in Rects \union {Empty}
  /\ \A i \in Insts :
       /\ prog[i].on \in BOOLEAN /\ prog[i].file \in {"exe", "user"}
       /\ prog[i].list \in Seq([type : Texts, path : Texts, host : Texts, port : Texts])
       /\ Len(prog[i].list) <= MaxItems
       /\ prog[i].todo \in Seq([key : Keys \ {PlaceKey}, val : Texts])
       /\ prog[i].win \in Rect \union {Empty} /\ prog[i].work \in Works \union {Empty}
  /\ starts \in 0 .. MaxStarts /\ adds \in 0 .. MaxAdds /\ asked \subseteq Addresses

\* The distinct members of a sequence, as they come first.
Firsts(log) == Sift(log, {n \in DOMAIN log : \A k \in 1 .. n - 1 : log[k] # log[n]})

(* The list starts with the files opened in this run, last one first, each    *)
(* once, whatever was loaded, also from slots that a kill left half-written   *)
(* or twice the same (RecentFileRegistry.cpp:134).                            *)
TopIsNewest ==
  \A i \in Insts : LET newest == Firsts(prog[i].log)
                   IN  IsPrefix(SubSeq(newest, 1, Min({MaxItems, Len(newest)})), prog[i].list)

Elsewhere(i) == IF prog[i].file = "exe" THEN "user" ELSE "exe"
Unshadowed(i) == \A key \in RecentKeys : ini[Elsewhere(i)][key] = Empty

(* Once a list is saved, and until another instance writes, the program would *)
(* load the same list: nothing of an older, longer list shows through.  Where *)
(* the other file has entries too this holds for the entries only, and only   *)
(* for who writes the exe file, which is read first (config.cpp:101).         *)
SavedIsLoaded ==
  \A i \in Insts :
    Ready(i) /\ prog[i].saved /\ prog[i].alone =>
      /\ Unshadowed(i) => Load = prog[i].list
      /\ prog[i].file = "exe" => IsPrefix(prog[i].list, Load)

(* The list of recent files: as the user made it, also after a restart.       *)
RecentKept == TopIsNewest /\ SavedIsLoaded

(* A kill between any two keys spoils one entry at most: every other one that *)
(* is loaded next is of the old list or of the new (RecentFileRegistry.cpp:83).*)
CrashTearsOneSlot ==
  \A i \in Insts :
    prog[i].saved /\ prog[i].alone /\ Unshadowed(i) =>
      Cardinality({n \in DOMAIN Load :
                     Load[n] \notin ToSet(prog[i].before) \union ToSet(prog[i].list)}) <= 1

(* An address that was connected to stays in the history while there is room, *)
(* whichever instance asked for it: the history is read again before it is    *)
(* written (ConnectDlg.cpp:51), unlike the recent files.  Not when two        *)
(* instances write at once, or into different files.                          *)
AddressesKept ==
  /\ ~raced /\ \A i \in Insts : prog[i].todo = <<>>
  /\ Cardinality(asked) <= MaxHosts
  /\ \E f \in {"exe", "user"} : \A key \in HostKeys : ini[f][key] = Empty
  => asked \subseteq ToSet(LoadHistory)

(* The window comes back inside the work area it is nearest to, whatever      *)
(* place was saved, on whatever monitors: no later correction of the clamping *)
(* undoes an earlier one (MainWnd.cpp:615).                                   *)
Inside(rc, work) == /\ work.left <= rc.left /\ rc.left <= rc.right /\ rc.right <= work.right
                    /\ work.top <= rc.top /\ rc.top <= rc.bottom /\ rc.bottom <= work.bottom
WindowOnScreen ==
  \A i \in Insts : prog[i].win # Empty => Inside(prog[i].win, prog[i].work)
=============================================================================
