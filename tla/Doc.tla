-------------------------------- MODULE Doc --------------------------------
(***************************************************************************)
(* The document (Doc.cpp): the image on display, the file system it comes  *)
(* from, the listing of its directory and the place in that listing, with  *)
(* the file list panel (FileList.cpp) that repeats the listing.            *)
(*                                                                         *)
(* open(), the handler everything goes through, does its I/O in up to four *)
(* steps, and other programs change the disk between them: each I/O call   *)
(* is an action, and "call" is the activation record of the open() that is *)
(* running (call.at names the I/O call it makes next).  The UI thread      *)
(* starts nothing else meanwhile, but for two dialogs that pump messages:  *)
(* the message box of a failed open(), which comes when all its work is    *)
(* done (call is None by then), and the Shell's in a local delete, where   *)
(* the slide show timer may run open() while removeCurrentFile() waits     *)
(* ("deleting").                                                           *)
(*                                                                         *)
(* File indices are counted from 1; 0 stands for the -1 of the code.       *)
(* The operators marked "Fault" are not part of the specification.         *)
(***************************************************************************)
EXTENDS FileList

CONSTANTS
  Universe,  \* every file there can be: [fs |-> ..., dir |-> ..., name |-> ...]
  Corrupt,   \* the files no codec can decode
  None,      \* no file system, file, directory or name
  Faults,    \* what can go wrong: "locked" (a file cannot be opened), "torn" (it
             \* cannot be read to the end), "link" (a server is lost), "flap" (it is
             \* lost again after the reconnect), "scan" (a directory cannot be
             \* listed), "race" (the disk changes during an open())
  Shows,     \* the slide shows that may be running: "folder", "custom"
  MaxRows    \* the bound on the panel's rows: with more, nothing is opened

FileSystems == {"local", "remote"}
Dirs == {f.dir : f \in Universe}

ASSUME DocAssumption ==
  /\ Universe \subseteq [fs : FileSystems, dir : Dirs, name : Names]
  /\ Corrupt \subseteq Universe
  /\ Faults \subseteq {"locked", "torn", "link", "flap", "scan", "race"}
  /\ Shows \subseteq {"folder", "custom"}
  /\ MaxRows \in Nat
  /\ None \notin Universe /\ None \notin FileSystems
  /\ None \notin Dirs /\ None \notin Names
  /\ None \notin [dir : Dirs, name : Names]

VARIABLES
  disk,      \* external: the files that exist now
  image,     \* _image: the file it was decoded from
  unifs,     \* _unifs
  path,      \* _path, as [dir, name]
  travel,    \* not in the code: the other file that was displayed just before
  dir,       \* _dir
  dirfiles,  \* _dirfiles
  diridx,    \* _diridx
  curFile,   \* _curFile
  prevFile,  \* _prevFile
  list,      \* the rows of the panel and the selected one
  call,      \* the open() in progress
  deleting   \* the removeCurrentFile() in the Shell: delIdx and delFile

shown == <<image, unifs, path, travel>>
place == <<dir, dirfiles, diridx>>
trail == <<curFile, prevFile>>
vars  == <<disk, shown, place, trail, list, call, deleting>>

Steps == {"open", "scan", "retry", "rescan"}
Hints == {"none", "after", "before"}

File(fs, d, n) == [fs |-> fs, dir |-> d, name |-> n]
PathOf(d, n) == [dir |-> d, name |-> n]

(* The activation records of open().                                       *)
Activations ==
  [at : Steps, fs : FileSystems, dir : Dirs, name : Names, force : BOOLEAN, hint : Hints,
   prevDir : Dirs \union {None}, prevIdx : Nat, old : Seq(Names), target : Names,
   retried : BOOLEAN, lost : BOOLEAN, scanned : BOOLEAN, gone : Universe \union {None}]

ASSUME NoneAssumption == None \notin Activations

Deletions == [idx : Nat \ {0}, name : Names, file : [fs : FileSystems, dir : Dirs, name : Names]]

DocType ==
  /\ disk \subseteq Universe
  /\ image \in Universe \union {None}
  /\ unifs \in FileSystems \union {None}
  /\ path \in [dir : Dirs, name : Names] \union {None}
  /\ travel \in Universe \union {None}
  /\ dir \in Dirs \union {None}
  /\ dirfiles \in Seq(Names) /\ (dirfiles # <<>> => dir # None)
  /\ diridx \in 0 .. Len(dirfiles)
  /\ curFile \in Names \union {None} /\ prevFile \in Names \union {None}
  /\ call # None => call \in Activations
  /\ deleting # None => deleting \in Deletions

PanelType == list.rows \in Seq(Names) /\ list.sel \in 0 .. Len(list.rows)

(* Every step leaves the document and the panel well formed; in particular *)
(* _diridx, which the code uses without a check, stays within _dirfiles.   *)
TypeOK == DocType /\ PanelType

Init ==
  /\ disk \in SUBSET Universe
  /\ image = None /\ unifs = None /\ path = None /\ travel = None
  /\ dir = None /\ dirfiles = <<>> /\ diridx = 0
  /\ curFile = None /\ prevFile = None
  /\ list = NoRows
  /\ call = None /\ deleting = None

-----------------------------------------------------------------------------
(* The directory listing as updateDir() leaves it: the supported files of  *)
(* the directory in StrCmpLogicalW order.  std::sort orders equal names as *)
(* it likes.                                                               *)
Listings(fs, d) ==
  LET names == {n \in Names : File(fs, d, n) \in disk}
  IN  {s \in SetToSeqs(names) : Sorted(s)}

FirstOf(hits) == IF hits = {} THEN 0 ELSE CHOOSE i \in hits : \A j \in hits : i <= j

(* updateDir() looks the file up with _wcsicmp, Step 3 with ==. *)
IndexIgnoringCase(s, n) == FirstOf({i \in DOMAIN s : Key[s[i]] = Key[n]})
IndexOf(s, n) == FirstOf({i \in DOMAIN s : s[i] = n})

(* Where the fallback looks for a file in place of n: at its insertion     *)
(* point, or just before it.                                               *)
\* Fault: the insertion point itself is taken in both directions.
NearestIndex_IgnoresHint(s, n, hint) ==
  LET pos == FirstOf({i \in DOMAIN s : Key[s[i]] >= Key[n]})
  IN  IF pos = 0 THEN Len(s) ELSE pos

NearestIndex(s, n, hint) ==
  LET first == FirstOf({i \in DOMAIN s : Key[s[i]] >= Key[n]})
      pos   == IF first = 0 THEN Len(s) + 1 ELSE first
  IN  IF hint = "after" THEN Min({pos, Len(s)}) ELSE Max({1, pos - 1})

-----------------------------------------------------------------------------
(* clearOpenState(): what an open() does that cannot go on.                *)
ClearOpenState ==
  /\ image' = None /\ unifs' = None /\ path' = None /\ travel' = None
  /\ dir' = None /\ dirfiles' = <<>> /\ diridx' = 0
  /\ curFile' = None /\ prevFile' = None
  /\ list' = NoRows

(* The start of open().  With no file system given and none open it        *)
(* returns at once.  gone (not in the code) is the file that was deleted   *)
(* just before.                                                            *)
Activation(fs, d, n, force, hint, idx, gone) ==
  IF fs = None THEN None
  ELSE [at |-> "open", fs |-> fs, dir |-> d, name |-> n, force |-> force, hint |-> hint,
        prevDir |-> dir, prevIdx |-> idx, old |-> <<>>, target |-> n,
        retried |-> FALSE, lost |-> FALSE, scanned |-> FALSE, gone |-> gone]

Start(fs, d, n, force, hint) ==
  /\ Len(list.rows) <= MaxRows
  /\ call' = Activation(fs, d, n, force, hint, diridx, None)
  /\ UNCHANGED <<disk, shown, place, trail, deleting>>

Ready == call = None /\ deleting = None

-----------------------------------------------------------------------------
(* openfile() of the running open() fails for good: the file is not there  *)
(* or locked; or the connection is lost once more after the reconnect, and *)
(* then every later call of this open() fails too.                         *)
LostAgain == "flap" \in Faults /\ call.fs = "remote" /\ call.retried

FileRefused(n) == File(call.fs, call.dir, n) \notin disk \/ "locked" \in Faults

\* Fault: _curFile is set before _prevFile takes it.
Conclude_Swapped(newDir, files, idx, n) ==
  /\ dir' = newDir /\ dirfiles' = files /\ diridx' = idx
  /\ list' = IF ~call.force /\ ~call.scanned
              THEN MoveSelection(list, call.prevIdx, idx, Len(files))
              ELSE IF newDir = call.prevDir THEN SmoothRebuild(list, call.old, files, idx)
              ELSE Rebuild(list, files, idx)
  /\ curFile' = n
  /\ prevFile' = IF newDir = call.prevDir THEN curFile' ELSE None
  /\ call' = None

(* Steps 3 and 4: the panel and the trail follow the new listing.          *)
Conclude(newDir, files, idx, n) ==
  /\ dir' = newDir /\ dirfiles' = files /\ diridx' = idx
  /\ list' = IF ~call.force /\ ~call.scanned
              THEN MoveSelection(list, call.prevIdx, idx, Len(files))
              ELSE IF newDir = call.prevDir THEN SmoothRebuild(list, call.old, files, idx)
              ELSE Rebuild(list, files, idx)
  /\ prevFile' = IF newDir = call.prevDir THEN curFile ELSE None
  /\ curFile' = n
  /\ call' = None

(* Step 2, with the file n of call.dir open: close(), then decode.  A file *)
(* that cannot be decoded ends open() there.                               *)
Undecodable(n) ==
  /\ File(call.fs, call.dir, n) \in Corrupt \/ "torn" \in Faults
  /\ image' = None /\ unifs' = call.fs /\ travel' = None /\ diridx' = 0
  /\ call' = None
  /\ UNCHANGED <<path, dir, dirfiles, trail, list>>

\* Fault: _path is set only once the listing is there too.
Decoded_PathLater(n) ==
  /\ File(call.fs, call.dir, n) \notin Corrupt
  /\ image' = File(call.fs, call.dir, n) /\ unifs' = call.fs
  /\ travel' = IF image' = image THEN None ELSE image
  /\ IF call.force /\ ~call.scanned
     THEN /\ call' = [call EXCEPT !.at = "rescan", !.old = dirfiles]
          /\ diridx' = 0
          /\ UNCHANGED <<path, dir, dirfiles, trail, list>>
     ELSE Conclude(dir, dirfiles, IndexOf(dirfiles, n), n) /\ path' = PathOf(call.dir, n)

\* Fault: Step 3 keeps the index of the fallback instead of looking it up.
Decoded_KeepsIndex(n) ==
  /\ File(call.fs, call.dir, n) \notin Corrupt
  /\ image' = File(call.fs, call.dir, n) /\ unifs' = call.fs
  /\ travel' = IF image' = image THEN None ELSE image
  /\ path' = PathOf(call.dir, n)
  /\ IF call.force /\ ~call.scanned
     THEN /\ call' = [call EXCEPT !.at = "rescan", !.old = dirfiles]
          /\ diridx' = 0
          /\ UNCHANGED <<dir, dirfiles, trail, list>>
     ELSE Conclude(dir, dirfiles, diridx, n)

Decoded(n) ==
  /\ File(call.fs, call.dir, n) \notin Corrupt
  /\ image' = File(call.fs, call.dir, n) /\ unifs' = call.fs
  /\ travel' = IF image' = image THEN None ELSE image
  /\ path' = PathOf(call.dir, n)
  /\ IF call.force /\ ~call.scanned
     THEN /\ call' = [call EXCEPT !.at = "rescan", !.old = dirfiles]
          /\ diridx' = 0
          /\ UNCHANGED <<dir, dirfiles, trail, list>>
     ELSE Conclude(dir, dirfiles, IndexOf(dirfiles, n), n)

(* Step 1: openfile() of the requested file.                               *)
OpenSucceeds ==
  /\ call # None /\ call.at = "open"
  /\ File(call.fs, call.dir, call.name) \in disk
  /\ Decoded(call.name) \/ Undecodable(call.name)
  /\ UNCHANGED <<disk, deleting>>

OpenFails ==
  /\ call # None /\ call.at = "open"
  /\ \E lost \in BOOLEAN :
       /\ IF lost THEN LostAgain ELSE FileRefused(call.name)
       /\ call' = IF call.hint = "none" THEN None
                  ELSE [call EXCEPT !.at = "scan", !.old = dirfiles, !.lost = lost]
  /\ UNCHANGED <<disk, shown, place, trail, list, deleting>>

(* The fallback: list the directory, take the nearest file, open it.       *)
ScanSucceeds ==
  /\ call # None /\ call.at = "scan" /\ ~call.lost
  /\ \E s \in Listings(call.fs, call.dir) :
       IF s = <<>> THEN ClearOpenState /\ call' = None
       ELSE LET i == NearestIndex(s, call.name, call.hint)
            IN  /\ dir' = call.dir /\ dirfiles' = s /\ diridx' = i
                /\ call' = [call EXCEPT !.at = "retry", !.target = s[i], !.scanned = TRUE]
                /\ UNCHANGED <<shown, trail, list>>
  /\ UNCHANGED <<disk, deleting>>

RetrySucceeds ==
  /\ call # None /\ call.at = "retry"
  /\ File(call.fs, call.dir, call.target) \in disk
  /\ Decoded(call.target) \/ Undecodable(call.target)
  /\ UNCHANGED <<disk, deleting>>

RetryFails ==
  /\ call # None /\ call.at = "retry"
  /\ FileRefused(call.target) \/ LostAgain
  /\ list' = SmoothRebuild(list, call.old, dirfiles, diridx)
  /\ call' = None
  /\ UNCHANGED <<disk, shown, place, trail, deleting>>

(* Step 3: the forced rescan behind a file that was opened.                *)
RescanSucceeds ==
  /\ call # None /\ call.at = "rescan"
  /\ \E s \in Listings(call.fs, call.dir) :
       Conclude(call.dir, s, IndexIgnoringCase(s, call.name), call.name)
  /\ UNCHANGED <<disk, shown, deleting>>

(* readdir() fails for good: without a server to reconnect to, or after    *)
(* the one reconnect.                                                      *)
ListingFails ==
  /\ call # None /\ call.at \in {"scan", "rescan"}
  /\ "scan" \in Faults \/ LostAgain
  /\ ClearOpenState /\ call' = None
  /\ UNCHANGED <<disk, deleting>>

(* The connection is lost in an I/O call, for the first time in this       *)
(* open(): it reconnects and the call is repeated.  A failed updateDir()   *)
(* has emptied the listing by then.                                        *)
\* Fault: open() starts over on the new connection, and forgets that it did.
Reconnects_StartsOver ==
  /\ call # None /\ call.fs = "remote" /\ "link" \in Faults
  /\ ~call.retried
  /\ call' = [call EXCEPT !.at = "open"]
  /\ IF call.at \in {"scan", "rescan"}
     THEN dir' = None /\ dirfiles' = <<>> /\ diridx' = 0 ELSE UNCHANGED place
  /\ UNCHANGED <<disk, shown, trail, list, deleting>>

\* Fault: the failed listing leaves the index behind.
Reconnects_KeepsIndex ==
  /\ call # None /\ call.fs = "remote" /\ "link" \in Faults
  /\ ~call.retried
  /\ call' = [call EXCEPT !.retried = TRUE]
  /\ IF call.at \in {"scan", "rescan"}
     THEN dir' = None /\ dirfiles' = <<>> /\ UNCHANGED diridx ELSE UNCHANGED place
  /\ UNCHANGED <<disk, shown, trail, list, deleting>>

Reconnects ==
  /\ call # None /\ call.fs = "remote" /\ "link" \in Faults
  /\ ~call.retried
  /\ call' = [call EXCEPT !.retried = TRUE]
  /\ IF call.at \in {"scan", "rescan"}
     THEN dir' = None /\ dirfiles' = <<>> /\ diridx' = 0 ELSE UNCHANGED place
  /\ UNCHANGED <<disk, shown, trail, list, deleting>>

ReconnectFails ==
  /\ call # None /\ call.fs = "remote" /\ "link" \in Faults
  /\ ~call.retried
  /\ ClearOpenState /\ call' = None
  /\ UNCHANGED <<disk, deleting>>

CallStep ==
  \/ OpenSucceeds \/ OpenFails
  \/ ScanSucceeds \/ RetrySucceeds \/ RetryFails
  \/ RescanSucceeds \/ ListingFails
  \/ Reconnects \/ ReconnectFails

-----------------------------------------------------------------------------
(* The user, while no call is in progress.  A file is opened from the      *)
(* dialog, by drag and drop, from the recent files or from a server.       *)
OpenFile ==
  /\ Ready
  /\ \E f \in Universe : Start(f.fs, f.dir, f.name, TRUE, "none")
  /\ UNCHANGED list

(* navigate(): PREV, NEXT, FIRST and LAST.                                 *)
Navigate ==
  /\ Ready /\ diridx # 0
  /\ \E move \in {<<diridx - 1, "before">>, <<diridx + 1, "after">>,
                  <<1, "after">>, <<Len(dirfiles), "after">>} :
       /\ move[1] \in DOMAIN dirfiles \ {diridx}
       /\ Start(unifs, dir, dirfiles[move[1]], FALSE, move[2])
  /\ UNCHANGED list

(* A row is selected with the mouse or the keyboard (OnActivateItem).      *)
Click ==
  /\ Ready
  /\ \E i \in DOMAIN list.rows \ {list.sel} :
       /\ list' = SelectRow(list, i)
       /\ IF i \in DOMAIN dirfiles /\ path # PathOf(dir, dirfiles[i])
          THEN Start(unifs, dir, dirfiles[i], FALSE, "after")
          ELSE UNCHANGED <<disk, shown, place, trail, call, deleting>>

Refresh ==
  /\ Ready /\ path # None
  /\ Start(unifs, path.dir, path.name, TRUE, "after")
  /\ UNCHANGED list

(* The slide show timer.  A custom show opens local files by path; a       *)
(* folder show opens files of the directory that was listed when it began, *)
(* on whatever file system is open now.  It also fires while the Shell     *)
(* dialog of a delete is up.                                               *)
SlideShow ==
  /\ call = None
  /\ \E f \in Universe :
       \/ "custom" \in Shows /\ f.fs = "local" /\ Start("local", f.dir, f.name, FALSE, "after")
       \/ "folder" \in Shows /\ Start(unifs, f.dir, f.name, FALSE, "after")
  /\ UNCHANGED list

-----------------------------------------------------------------------------
(* removeCurrentFile().                                                    *)
FileAtIndex == File(unifs, dir, dirfiles[diridx])

(* Which file follows the deleted one: the one on the far side of the file *)
(* shown before it.                                                        *)
NextIndex(files, i, deleted) ==
  LET back == prevFile # None /\ Key[prevFile] > Key[deleted]
  IN  IF back /\ i > 1 THEN i - 1 ELSE Min({i, Len(files)})

(* The file is gone: take it off the listing and open the next one.        *)
AfterDelete(i, deleted, gone) ==
  LET files == RemoveAt(dirfiles, i)
      next  == NextIndex(files, i, deleted)
  IN  IF files = <<>>
      THEN /\ image' = None /\ unifs' = None /\ travel' = None /\ diridx' = 0
           /\ dir' = None /\ dirfiles' = <<>>
           /\ curFile' = None /\ prevFile' = None
           /\ list' = NoRows /\ call' = None
           /\ UNCHANGED path
      ELSE /\ dirfiles' = files /\ diridx' = 0
           /\ list' = RemoveItem(list, i)
           /\ call' = Activation(unifs, dir, files[next], FALSE,
                                 IF next >= i THEN "after" ELSE "before", 0, gone)
           /\ UNCHANGED <<shown, dir, trail>>

DeleteRemote ==
  /\ Ready /\ diridx # 0 /\ unifs = "remote"
  /\ FileAtIndex \in disk
  /\ disk' = disk \ {FileAtIndex}
  /\ AfterDelete(diridx, dirfiles[diridx], FileAtIndex)
  /\ UNCHANGED deleting

(* removefile() fails: the file is gone already, or the server is.         *)
DeleteRemoteFails ==
  /\ Ready /\ diridx # 0 /\ unifs = "remote"
  /\ FileAtIndex \notin disk \/ Faults \intersect {"locked", "link"} # {}
  /\ IF path = None THEN UNCHANGED vars
     ELSE Start(unifs, path.dir, path.name, TRUE, "after") /\ UNCHANGED list

(* Without a file system it is taken for a remote one, and _unifs, which is *)
(* null, is dereferenced: the process dies.  What is left is the disk, and  *)
(* a new one that has nothing open.                                         *)
DeleteDies ==
  /\ Ready /\ diridx # 0 /\ unifs = None
  /\ ClearOpenState
  /\ UNCHANGED <<disk, call, deleting>>

(* SHFileOperationW() is entered, and while it runs its dialog pumps       *)
(* messages.                                                               *)
DeleteLocal ==
  /\ Ready /\ diridx # 0 /\ unifs = "local"
  /\ deleting' = [idx |-> diridx, name |-> dirfiles[diridx], file |-> FileAtIndex]
  /\ UNCHANGED <<disk, shown, place, trail, list, call>>

(* It succeeds.  erase() beyond the end of the listing is undefined: the   *)
(* model stops there.                                                      *)
DeleteLocalDone ==
  /\ call = None /\ deleting # None /\ deleting.file \in disk
  /\ deleting.idx <= Len(dirfiles)
  /\ disk' = disk \ {deleting.file}
  /\ deleting' = None
  /\ AfterDelete(deleting.idx, deleting.name, deleting.file)

DeleteLocalFails ==
  /\ call = None /\ deleting # None
  /\ deleting.file \notin disk \/ "locked" \in Faults
  /\ deleting' = None
  /\ call' = IF path = None THEN None
             ELSE Activation(unifs, path.dir, path.name, TRUE, "after", diridx, None)
  /\ UNCHANGED <<disk, shown, place, trail, list>>

DeleteLocalAborted ==
  /\ call = None /\ deleting # None
  /\ deleting' = None
  /\ UNCHANGED <<disk, shown, place, trail, list, call>>

(* Other programs create and remove files.                                 *)
Others ==
  /\ call = None \/ "race" \in Faults
  /\ \E f \in Universe : disk' = IF f \in disk THEN disk \ {f} ELSE disk \union {f}
  /\ UNCHANGED <<shown, place, trail, list, call, deleting>>

User == \/ OpenFile \/ Navigate \/ Click \/ Refresh
        \/ DeleteRemote \/ DeleteRemoteFails \/ DeleteDies \/ DeleteLocal
Shell == DeleteLocalDone \/ DeleteLocalFails \/ DeleteLocalAborted
Next == CallStep \/ User \/ SlideShow \/ Shell \/ Others

Spec == Init /\ [][Next]_vars

(* open() is synchronous code: while it runs, its next call is made.       *)
FairSpec == Spec /\ WF_vars(CallStep)

-----------------------------------------------------------------------------
(* What is displayed is what path and file system say it is: Refresh, Save *)
(* As and the title all go by them, through failed opens, reconnects and   *)
(* file systems that change (Doc::open, Steps 1 to 3).                     *)
DisplayedIsPath == image # None => path # None /\ image = File(unifs, path.dir, path.name)

(* The fallback of open() takes the file next to the missing one in the    *)
(* direction of dirHint, and the one on the other side only at an end of   *)
(* the listing (Doc.h: "prefer file after target", "before target").       *)
FallbackIsNearest ==
  call # None /\ call.at = "retry" =>
    LET there  == ToSet(dirfiles)
        before == {n \in there : Key[n] < Key[call.name]}
        after  == there \ before
    IN  IF before = {} \/ (call.hint = "after" /\ after # {})
        THEN call.target \in after /\ \A n \in after : Key[call.target] <= Key[n]
        ELSE call.target \in before /\ \A n \in before : Key[call.target] >= Key[n]

(* open() comes to an end whatever the disk and the server do.             *)
OpenReturns == call # None ~> call = None

(* The index that Delete goes by is the image on display (Doc.h: "Delete   *)
(* the currently displayed file"): the user sees one file and loses that   *)
(* one.                                                                    *)
DeleteTargetsDisplayed == Ready /\ diridx # 0 => image = FileAtIndex

(* The circumstances under which it holds: a file that exists can be opened,*)
(* though perhaps not decoded; no two names of a directory differ only in   *)
(* case; a connection is lost at most once in an open(); and nobody         *)
(* interferes with the document or the directory while a call is in progress.*)
Calm == /\ Faults \subseteq {"link", "scan", "torn"} /\ Shows = {}
        /\ \A m, n \in Names : Key[m] = Key[n] => m = n

(* ... and it can be decoded as well.                                      *)
Decodes == Corrupt = {} /\ "torn" \notin Faults

(* The panel shows the listing, and its selected row is the current file   *)
(* (Doc::open Step 4, removeCurrentFile, clearOpenState against the four   *)
(* update operations of FileList).                                         *)
ListFollowsDoc == Ready => /\ list.rows = dirfiles
                           /\ diridx # 0 => list.sel = diridx

(* A deleted file does not stay on display once the open() that follows it *)
(* has ended (Doc.h: "and open the next one").                             *)
LeavesDeleted == call # None /\ call.gone # None /\ call' = None => image' # call.gone

(* That open() goes on in the direction of travel: if the file displayed   *)
(* before the deleted one was of the same directory, the next file is the  *)
(* neighbour on the other side of the deleted one, when there is one.      *)
\* What was displayed before is forgotten by a refresh, which makes the file its
\* own predecessor (Doc.cpp:358).
KeepsDirection ==
  /\ call = None /\ call' # None /\ call'.gone # None
  /\ travel # None /\ travel.fs = call'.fs /\ travel.dir = call'.dir
  =>
    LET here   == Key[call'.gone.name]
        upward == Key[travel.name] < here
        onward == {n \in ToSet(dirfiles') : IF upward THEN Key[n] > here ELSE Key[n] < here}
    IN  onward # {} =>
          /\ call'.name \in onward
          /\ \A n \in onward : IF upward THEN Key[call'.name] <= Key[n]
                                          ELSE Key[call'.name] >= Key[n]

(* After a deletion the user is shown the next file of his journey.        *)
DeleteMovesOn == [][LeavesDeleted /\ KeepsDirection]_vars
=============================================================================
