---------------------------- MODULE SessionProofs ----------------------------
(***************************************************************************)
(* Theorems about ConnectDlg and the files under it, for any servers,      *)
(* paths, contents and bounds.                                             *)
(***************************************************************************)
EXTENDS ConnectDlg, FilesProofs

(***************************************************************************)
(* The file systems that the document and a call hold belong to a server.  *)
(* The records of call, doc and dlg keep their fields.                     *)
(***************************************************************************)
Connected(o) == o \in Fs => fsys[o].server \in Servers

Sound ==
  /\ DOMAIN store = Stored /\ DOMAIN fsys = Fs
  /\ DOMAIN call = DOMAIN NoCall /\ DOMAIN doc = DOMAIN NoDoc
  /\ Connected(doc.fs) /\ (At("idle") \/ Connected(call.fs))

LEMMA NoCallFields ==
  /\ DOMAIN NoCall = {"n", "op", "at", "ok", "fs", "file", "to", "codec", "first", "size",
                      "got", "pos", "retried", "orig", "touched", "failed"}
  /\ NoCall.fs = Disk /\ NoCall.at = "idle" /\ Disk \notin Fs
  BY DEF NoCall, Disk, Fs

LEMMA NoDocFields ==
  DOMAIN NoDoc = {"fs", "path", "image"} /\ NoDoc.fs = None /\ None \notin Fs
  BY FilesAssumption DEF NoDoc, FilesAssumption

(* A RemoteFs that the document does not have. *)
LEMMA NewFs ==
  ASSUME NEW o
  PROVE  Min(Fs \ {o}) \in Fs \ {o}
  <1>1. \E m \in Fs \ {o} : \A k \in Fs \ {o} : m =< k
    <2>1. CASE o = 1
      BY <2>1 DEF Fs
    <2>2. CASE o # 1
      <3>1. 1 \in Fs \ {o} /\ \A k \in Fs : 1 =< k
        BY <2>2 DEF Fs
      <3> QED BY <3>1
    <2> QED BY <2>1, <2>2
  <1> QED BY <1>1 DEF Min

-----------------------------------------------------------------------------
(* The calls.  None of them begins by itself. *)
LEMMA CallsBusy ==
  ASSUME Calls
  PROVE  ~At("idle")
  BY DEF Calls, Step1, Decoding, Filetype, Saving, At,
         Opens, OpenFails, Reconnects, ReconnectFails, Opened, Rewinds, SeeksEnd,
         TellsSize, SeeksBegin, ReadsChunk, Shows, DecodeFails, Tells, Looks, Peeks,
         GoesBack, Rescans, Closes, Creates, Copies, Writes, Flushes

\* What a step of a call leaves of it.
SameCall == DOMAIN call' = DOMAIN call /\ call'.n = call.n /\ call'.fs = call.fs

LEMMA StepOfCall ==
  ASSUME Sound, Calls, ~Closes
  PROVE  SameCall
  <1> USE NoCallFields DEF Sound, SameCall, Then, Ends, AttemptFails, TypeFound
  <1>1. CASE Step1
    <2>1. CASE Opens
      BY <2>1 DEF Opens
    <2>2. CASE OpenFails
      <3>1. PICK r : Then("reconnect", r) \/ Ends(FALSE, r)
        BY <2>2 DEF OpenFails
      <3> QED BY <3>1
    <2>3. CASE Reconnects \/ ReconnectFails
      BY <2>3 DEF Reconnects, ReconnectFails
    <2> QED BY <1>1, <2>1, <2>2, <2>3 DEF Step1
  <1>2. CASE Opened \/ Rewinds \/ SeeksEnd \/ TellsSize
    <2>1. CASE Opened
      BY <2>1 DEF Opened
    <2>2. CASE Rewinds
      BY <2>2 DEF Rewinds
    <2>3. CASE SeeksEnd
      BY <2>3 DEF SeeksEnd
    <2>4. CASE TellsSize
      BY <2>4 DEF TellsSize
    <2> QED BY <1>2, <2>1, <2>2, <2>3, <2>4
  <1>3. CASE SeeksBegin \/ ReadsChunk \/ Shows \/ DecodeFails
    <2>1. CASE SeeksBegin
      BY <2>1 DEF SeeksBegin
    <2>2. CASE ReadsChunk
      BY <2>2 DEF ReadsChunk
    <2>3. CASE Shows
      BY <2>3 DEF Shows
    <2>4. CASE DecodeFails
      BY <2>4 DEF DecodeFails
    <2> QED BY <1>3, <2>1, <2>2, <2>3, <2>4
  <1>4. CASE Filetype
    <2>1. CASE Tells
      BY <2>1 DEF Tells
    <2>2. CASE Looks
      BY <2>2 DEF Looks
    <2>3. CASE Peeks
      BY <2>3 DEF Peeks
    <2>4. CASE GoesBack
      <3>1. \E r : TypeFound(r)
        BY <2>4 DEF GoesBack
      <3>2. PICK r : Then("rewind", r) \/ Ends(FALSE, r)
        BY <3>1 DEF TypeFound
      <3> QED BY <3>2
    <2> QED BY <1>4, <2>1, <2>2, <2>3, <2>4 DEF Filetype
  <1>5. CASE Rescans
    BY <1>5 DEF Rescans
  <1>6. CASE Saving
    BY <1>6 DEF Saving, Creates, Copies, Writes, Flushes
  <1> QED BY <1>1, <1>2, <1>3, <1>4, <1>5, <1>6 DEF Calls, Decoding

LEMMA StepOfStore ==
  ASSUME Sound, Calls
  PROVE  DOMAIN store' = Stored
  <1>1. CASE Creates \/ Writes
    BY <1>1 DEF Sound, Creates, Writes
  <1>2. CASE Calls /\ ~Creates /\ ~Writes
    BY <1>2 DEF Sound, Calls, Step1, Decoding, Filetype, Saving,
         Opens, OpenFails, Reconnects, ReconnectFails, Opened, Rewinds, SeeksEnd,
         TellsSize, SeeksBegin, ReadsChunk, Shows, DecodeFails, Tells, Looks, Peeks,
         GoesBack, Rescans, Closes, Copies, Flushes
  <1> QED BY <1>1, <1>2

(* Connecting gives a file system a server and leaves the others alone. *)
LEMMA ConnectsServer ==
  ASSUME DOMAIN fsys = Fs, NEW o \in Fs, NEW s, Connects(o, s)
  PROVE  /\ DOMAIN fsys' = Fs /\ fsys'[o].server = s
         /\ \A p \in Fs \ {o} : fsys'[p] = fsys[p]
  BY DEF Connects

LEMMA StepOfFs ==
  ASSUME Sound, Calls, ~Closes
  PROVE  DOMAIN fsys' = Fs /\ \A o \in Fs : Connected(o) => Connected(o)'
  <1>1. CASE Reconnects
    <2>1. CASE call.fs \in Fs
      BY <1>1, <2>1, ConnectsServer DEF Reconnects, Sound, Connected
    <2>2. CASE call.fs \notin Fs
      BY <1>1, <2>2 DEF Reconnects, Connects, Sound, Connected
    <2> QED BY <2>1, <2>2
  <1>2. CASE ~Reconnects
    <2>1. fsys' = fsys
      BY <1>2 DEF Calls, Step1, Decoding, Filetype, Saving,
         Opens, OpenFails, ReconnectFails, Opened, Rewinds, SeeksEnd,
         TellsSize, SeeksBegin, ReadsChunk, Shows, DecodeFails, Tells, Looks, Peeks,
         GoesBack, Rescans, Creates, Copies, Writes, Flushes
    <2> QED BY <2>1 DEF Sound, Connected
  <1> QED BY <1>1, <1>2

LEMMA StepOfDoc ==
  ASSUME Sound, Calls
  PROVE  DOMAIN doc' = DOMAIN doc /\ doc'.fs \in {doc.fs, call.fs, None}
  <1>1. CASE Opened \/ Shows \/ ReconnectFails \/ Rescans
    BY <1>1, NoDocFields DEF Sound, Opened, Shows, ReconnectFails, Rescans
  <1>2. CASE Calls /\ ~Opened /\ ~Shows /\ ~ReconnectFails /\ ~Rescans
    BY <1>2 DEF Calls, Step1, Decoding, Filetype, Saving,
         Opens, OpenFails, Reconnects, Rewinds, SeeksEnd,
         TellsSize, SeeksBegin, ReadsChunk, DecodeFails, Tells, Looks, Peeks,
         GoesBack, Closes, Creates, Copies, Writes, Flushes
  <1> QED BY <1>1, <1>2

LEMMA CallsSound ==
  ASSUME Sound, Calls
  PROVE  Sound'
  <1>1. CASE Closes
    <2>1. /\ DOMAIN call' = DOMAIN call /\ call'.fs = Disk
          /\ doc' = doc /\ store' = store /\ At("idle")'
          /\ DOMAIN fsys' = Fs /\ (doc.fs \in Fs => fsys'[doc.fs] = fsys[doc.fs])
      BY <1>1, NoCallFields DEF Closes, Sound, At
    <2> QED BY <2>1, NoCallFields DEF Sound, Connected
  <1>2. CASE ~Closes
    <2>1. Connected(doc'.fs) /\ Connected(call'.fs)
      BY <1>2, CallsBusy, StepOfCall, StepOfDoc, NoDocFields DEF Sound, SameCall, Connected
    <2> QED BY <1>2, <2>1, StepOfCall, StepOfStore, StepOfFs, StepOfDoc
            DEF Sound, SameCall, Connected
  <1> QED BY <1>1, <1>2

(* What begins a call. *)
LEMMA StartSound ==
  ASSUME NEW op, NEW o, NEW file, NEW to, Start(op, o, file, to)
  PROVE  DOMAIN call' = DOMAIN NoCall /\ call'.fs = o /\ call'.file = file
  BY NoCallFields DEF Start

LEMMA CommandsSound ==
  ASSUME Sound, Commands
  PROVE  Sound'
  <1>1. ASSUME NEW p \in Paths, OpenLocal(p) \/ SaveAs(p)
        PROVE  Sound'
    BY <1>1, StartSound, NoCallFields DEF OpenLocal, SaveAs, Sound, Connected
  <1>2. ASSUME NEW s \in Servers, NEW p \in Paths, OpenRecent(s, p)
        PROVE  Sound'
    <2> DEFINE o == Min(Fs \ {doc.fs})
    <2>1. Connects(o, s) /\ Start("load", o, <<s, p>>, None) /\ UNCHANGED <<store, doc>>
      BY <1>2 DEF OpenRecent
    <2>2. o \in Fs /\ o # doc.fs
      BY NewFs
    <2> HIDE DEF o
    <2> QED BY <2>1, <2>2, ConnectsServer, StartSound DEF Sound, Connected
  <1> QED BY <1>1, <1>2 DEF Commands

LEMMA OthersSound ==
  ASSUME Sound, Others
  PROVE  Sound' /\ call'.at = call.at /\ call'.n = call.n
         /\ \A file \in Stored : store[file] # Missing => store'[file] # Missing
  BY NoCallFields, FilesAssumption DEF Others, Rewrite, Sound, Connected, At, FilesAssumption

-----------------------------------------------------------------------------
(***************************************************************************)
(* The dialog.  While it is shown no call is under way, and the files it   *)
(* lists are on the server it is connected to: a new server comes with an  *)
(* empty list, and a failed listing leaves the old one with its server.    *)
(***************************************************************************)
DialogInv ==
  /\ Sound
  /\ DOMAIN dlg = DOMAIN NoDialog
  /\ ~DlgAt("off") =>
       /\ At("idle")
       /\ DlgAt("list") \/ dlg.enabled \/ dlg.entries # {} => dlg.client \in Fs
       /\ Connected(dlg.client)
       /\ \A p \in dlg.entries \intersect Paths :
            store[<<fsys[dlg.client].server, p>>] # Missing

LEMMA NoDialogFields ==
  /\ DOMAIN NoDialog = {"at", "client", "cwd", "target", "entries", "enabled"}
  /\ NoDialog.at = "off" /\ NoDialog.entries = {} /\ NoDialog.client = None
  /\ ~NoDialog.enabled
  BY DEF NoDialog

LEMMA ShowInv ==
  ASSUME DialogInv, Show
  PROVE  DialogInv'
  <1>1. UNCHANGED vars /\ At("idle") /\ Sound'
    BY DEF Show, DialogInv, vars, Sound, Connected, At
  <1>2. /\ DOMAIN dlg' = DOMAIN NoDialog /\ dlg'.entries = {}
        /\ \/ dlg'.client = doc.fs /\ doc.fs \in Fs
           \/ dlg'.client = None /\ dlg'.at = "browse" /\ ~dlg'.enabled
    BY NoDialogFields DEF Show
  <1>3. Connected(dlg'.client) /\ fsys' = fsys /\ call' = call
    BY <1>1, <1>2, NoDocFields DEF DialogInv, Sound, Connected, vars
  <1> QED BY <1>1, <1>2, <1>3 DEF DialogInv, DlgAt, At, Connected

LEMMA ConnectInv ==
  ASSUME DialogInv, NEW s \in Servers, Connect(s)
  PROVE  /\ DialogInv' /\ doc' = doc /\ call' = call
         /\ doc.fs \in Fs => fsys'[doc.fs] = fsys[doc.fs]
  <1> DEFINE o == Min(Fs \ {doc.fs})
  <1>1. o \in Fs /\ o # doc.fs
    BY NewFs
  <1>2. Connects(o, s) /\ UNCHANGED <<store, doc, call>>
    BY DEF Connect
  <1>3. /\ DOMAIN dlg' = DOMAIN NoDialog /\ dlg'.entries = {} /\ dlg'.client = o
    BY NoDialogFields DEF Connect, DialogInv
  <1>a. ~DlgAt("off")
    BY DEF Connect, DlgAt
  <1> HIDE DEF o
  <1>4. /\ DOMAIN fsys' = Fs /\ fsys'[o].server = s
        /\ \A p \in Fs \ {o} : fsys'[p] = fsys[p]
    BY <1>1, <1>2, ConnectsServer DEF DialogInv, Sound
  <1>5. Sound'
    BY <1>1, <1>2, <1>4 DEF DialogInv, Sound, Connected, At
  <1> QED BY <1>1, <1>2, <1>3, <1>a, <1>4, <1>5 DEF DialogInv, Connected, At

LEMMA NavigateInv ==
  ASSUME DialogInv, Navigate
  PROVE  DialogInv' /\ UNCHANGED <<doc, fsys, call>>
  <1>1. UNCHANGED <<store, fsys, doc, call>> /\ DlgAt("list") /\ ~DlgAt("off")
    BY DEF Navigate, DlgAt
  <1>2. Sound'
    BY <1>1 DEF DialogInv, Sound, Connected, At
  <1>3. /\ DOMAIN dlg' = DOMAIN NoDialog /\ dlg'.client = dlg.client
        /\ \/ dlg'.entries = dlg.entries
           \/ dlg'.entries = Listing(fsys[dlg.client].server, dlg.target)
    BY NoDialogFields DEF Navigate, DialogInv
  <1>4. \A p \in Listing(fsys[dlg.client].server, dlg.target) \intersect Paths :
          store[<<fsys[dlg.client].server, p>>] # Missing
    BY DirsAssumption DEF Listing, DirsAssumption
  <1> QED BY <1>1, <1>2, <1>3, <1>4 DEF DialogInv, Connected, At

LEMMA BrowseInv ==
  ASSUME DialogInv, GoUp \/ \E d \in Dirs : Enter(d)
  PROVE  DialogInv' /\ UNCHANGED vars
  <1>1. /\ UNCHANGED vars /\ ~DlgAt("off") /\ dlg.enabled
        /\ DOMAIN dlg' = DOMAIN NoDialog
        /\ dlg'.client = dlg.client /\ dlg'.entries = dlg.entries
    BY NoDialogFields DEF GoUp, Enter, DialogInv, DlgAt
  <1> QED BY <1>1 DEF DialogInv, Sound, Connected, At, vars

LEMMA ChooseInv ==
  ASSUME DialogInv, NEW p \in Paths, Choose(p)
  PROVE  DialogInv' /\ UNCHANGED <<doc, fsys>> /\ store[call'.file] # Missing
  <1> DEFINE file == <<fsys[dlg.client].server, p>>
  <1>1. /\ ~DlgAt("off") /\ dlg.enabled /\ p \in dlg.entries
        /\ UNCHANGED <<store, fsys, doc>> /\ dlg' = NoDialog
        /\ Start("load", dlg.client, file, None)
    BY DEF Choose, DlgAt
  <1>2. store[file] # Missing /\ Connected(dlg.client)
    BY <1>1 DEF DialogInv
  <1> HIDE DEF file
  <1>3. DOMAIN call' = DOMAIN NoCall /\ call'.fs = dlg.client /\ call'.file = file
    BY <1>1, StartSound
  <1> QED BY <1>1, <1>2, <1>3, NoDialogFields DEF DialogInv, Sound, Connected, DlgAt

LEMMA CancelInv ==
  ASSUME DialogInv, Cancel
  PROVE  /\ DialogInv' /\ doc' = doc /\ call' = call
         /\ doc.fs \in Fs => fsys'[doc.fs] = fsys[doc.fs]
  <1>1. /\ UNCHANGED <<store, doc, call>> /\ dlg' = NoDialog
        /\ DOMAIN fsys' = Fs /\ (doc.fs \in Fs => fsys'[doc.fs] = fsys[doc.fs])
        /\ At("idle") /\ Sound
    BY DEF Cancel, DialogInv, DlgAt
  <1> QED BY <1>1, NoDialogFields DEF DialogInv, Sound, Connected, DlgAt, At

-----------------------------------------------------------------------------
(* While the dialog is shown only the dialog and other programs act. *)
LEMMA SessionStep ==
  ASSUME DialogInv, [SNext]_svars
  PROVE  /\ DialogInv'
         /\ DlgAt("browse") /\ call'.n # call.n => store[call'.file] # Missing
         /\ ~DlgAt("off") => /\ doc' = doc
                             /\ doc.fs \in Fs => fsys'[doc.fs] = fsys[doc.fs]
  <1>1. CASE UNCHANGED svars
    BY <1>1 DEF svars, vars, DialogInv, Sound, Connected, DlgAt, At
  <1>2. CASE Window
    BY <1>2, CommandsSound DEF Window, DialogInv, DlgAt
  <1>3. CASE Dialog
    <2>1. CASE Show
      BY <2>1, ShowInv DEF Show, DlgAt
    <2>2. CASE Navigate
      BY <2>2, NavigateInv
    <2>3. CASE GoUp \/ \E d \in Dirs : Enter(d)
      BY <2>3, BrowseInv DEF vars
    <2>4. CASE Cancel
      BY <2>4, CancelInv
    <2>5. CASE \E s \in Servers : Connect(s)
      BY <2>5, ConnectInv
    <2>6. CASE \E p \in Paths : Choose(p)
      BY <2>6, ChooseInv
    <2> QED BY <1>3, <2>1, <2>2, <2>3, <2>4, <2>5, <2>6 DEF Dialog
  <1>4. CASE Running
    <2>1. DlgAt("off") /\ dlg' = dlg
      BY <1>4, CallsBusy DEF Running, DialogInv
    <2> QED BY <1>4, <2>1, CallsSound DEF Running, DialogInv, DlgAt
  <1>5. CASE Outside
    <2>1. /\ Sound' /\ call'.at = call.at /\ call'.n = call.n
          /\ \A file \in Stored : store[file] # Missing => store'[file] # Missing
          /\ UNCHANGED <<fsys, doc, dlg>>
      BY <1>5, OthersSound DEF Outside, Others, Rewrite, DialogInv
    <2>2. ASSUME ~DlgAt("off"), NEW p \in dlg.entries \intersect Paths
          PROVE  <<fsys[dlg.client].server, p>> \in Stored
      <3>1. fsys[dlg.client].server \in Servers
        BY <2>2 DEF DialogInv, Connected
      <3> QED BY <3>1 DEF Stored
    <2> QED BY <2>1, <2>2 DEF DialogInv, Connected, DlgAt, At
  <1> QED BY <1>1, <1>2, <1>3, <1>4, <1>5 DEF SNext

LEMMA SessionInvariant == SSpec => []DialogInv
  <1>1. SInit => DialogInv
    BY NoCallFields, NoDocFields, NoDialogFields, FilesAssumption
       DEF SInit, Init, DialogInv, Sound, Connected, DlgAt, At, FilesAssumption
  <1>2. DialogInv /\ [SNext]_svars => DialogInv'
    BY SessionStep
  <1> QED BY <1>1, <1>2, PTL DEF SSpec

(* The dialog hands over a file that its server has, although connecting,   *)
(* listing and choosing are steps of their own, each of which may fail: the *)
(* browser is emptied in ConnectFromInput() and not in Navigate().  Nothing *)
(* done in it disturbs the document that may share its RemoteFs.            *)
THEOREM DialogIsSound == SSpec => DialogSound
  <1>1. DialogInv /\ [SNext]_svars
          => [DlgAt("browse") /\ call'.n # call.n => store[call'.file] # Missing]_svars
    BY SessionStep
  <1>2. DialogInv /\ [SNext]_svars
          => [~DlgAt("off") => /\ doc' = doc
                               /\ doc.fs \in Fs => fsys'[doc.fs] = fsys[doc.fs]]_svars
    BY SessionStep
  <1>3. SSpec => ChosenIsThere
    BY <1>1, SessionInvariant, PTL DEF SSpec, ChosenIsThere
  <1>4. SSpec => DialogLeavesDocument
    BY <1>2, SessionInvariant, PTL DEF SSpec, DialogLeavesDocument
  <1> QED BY <1>3, <1>4 DEF DialogSound

-----------------------------------------------------------------------------
(***************************************************************************)
(* The files under the window and the dialog.  Between two calls nothing   *)
(* is open, and a call begins with one of the stored files.                *)
(***************************************************************************)
\* The file systems have their type and no other connection is alive.
FsOk == fsys \in [Fs -> ConnType] /\ up \subseteq Conns

LEMMA FilesTyped ==
  ASSUME FilesInv
  PROVE  FsOk /\ TypeOK
  BY DEF FilesInv, Placed, TypeOK, FsOk, ConnType

LEMMA ConnectedTo ==
  ASSUME FilesInv, NEW o, NEW server \in Servers, Connects(Min(Fs \ {o}), server)
  PROVE  FsOk'
  <1>1. Min(Fs \ {o}) \in Fs
    BY NewFs
  <1> QED BY <1>1, FilesTyped, ConnectsEffect DEF FsOk

LEMMA CommandsInv ==
  ASSUME FilesInv, Sound, Commands
  PROVE  FilesInv'
  <1>1. ASSUME NEW p \in Paths, OpenLocal(p)
        PROVE  FilesInv'
    <2>1. <<Disk, p>> \in Stored
      BY DEF Stored
    <2>2. fsys' \in [Fs -> ConnType] /\ up' \subseteq Conns
      BY <1>1, FilesTyped DEF OpenLocal, FsOk
    <2> QED BY <1>1, <2>1, <2>2, StartInv DEF OpenLocal
  <1>2. ASSUME NEW p \in Paths, SaveAs(p)
        PROVE  FilesInv'
    <2>1. <<Disk, p>> \in Stored
      BY DEF Stored
    <2>2. doc.fs \in Fs \union {Disk} /\ doc.path \in Paths
      BY <1>2, FilesTyped DEF SaveAs, TypeOK
    <2>3. Home(doc.fs) \in {Disk} \union Servers
      BY <2>2 DEF Sound, Connected, Home
    <2>4. DocFile \in Stored
      BY <2>2, <2>3 DEF DocFile, Stored
    <2>5. fsys' \in [Fs -> ConnType] /\ up' \subseteq Conns
      BY <1>2, FilesTyped DEF SaveAs, FsOk
    <2> QED BY <1>2, <2>1, <2>2, <2>4, <2>5, StartInv DEF SaveAs
  <1>3. ASSUME NEW s \in Servers, NEW p \in Paths, OpenRecent(s, p)
        PROVE  FilesInv'
    <2> DEFINE o == Min(Fs \ {doc.fs})
    <2>1. /\ At("idle") /\ Connects(o, s) /\ Start("load", o, <<s, p>>, None)
          /\ UNCHANGED <<store, edits, src, uf, dst, doc>>
      BY <1>3 DEF OpenRecent
    <2>2. o \in Fs /\ fsys' \in [Fs -> ConnType] /\ up' \subseteq Conns
      BY <2>1, NewFs, ConnectedTo DEF FsOk
    <2>3. <<s, p>> \in Stored
      BY DEF Stored
    <2> HIDE DEF o
    <2> QED BY <2>1, <2>2, <2>3, StartInv
  <1> QED BY <1>1, <1>2, <1>3 DEF Commands

LEMMA DialogFilesInv ==
  ASSUME FilesInv, DialogInv, Dialog
  PROVE  FilesInv'
  <1>1. CASE Show \/ GoUp \/ \E d \in Dirs : Enter(d)
    <2>1. UNCHANGED vars
      BY <1>1 DEF Show, GoUp, Enter
    <2> QED BY <2>1, StutterInv
  <1>2. CASE Navigate
    <2>1. At("idle") /\ UNCHANGED <<store, edits, fsys, src, uf, dst, doc, call>> /\ up' \subseteq up
      BY <1>2 DEF Navigate, DialogInv, DlgAt, Survives
    <2>2. fsys' \in [Fs -> ConnType] /\ up' \subseteq Conns
      BY <2>1, FilesTyped DEF FsOk
    <2> QED BY <2>1, <2>2, QuietInv
  <1>3. CASE Cancel
    <2>1. /\ At("idle") /\ UNCHANGED <<store, edits, src, uf, dst, doc, call>> /\ up' \subseteq up
          /\ fsys' = [o \in Fs |-> IF o = doc.fs THEN fsys[o] ELSE Free]
      BY <1>3 DEF Cancel, DialogInv, DlgAt
    <2>2. Free \in ConnType
      BY DEF Free, ConnType
    <2>3. fsys' \in [Fs -> ConnType] /\ up' \subseteq Conns
      BY <2>1, <2>2, FilesTyped DEF FsOk
    <2> QED BY <2>1, <2>3, QuietInv
  <1>4. ASSUME NEW s \in Servers, Connect(s)
        PROVE  FilesInv'
    <2>1. /\ At("idle") /\ UNCHANGED <<store, edits, src, uf, dst, doc, call>>
          /\ Connects(Min(Fs \ {doc.fs}), s)
      BY <1>4 DEF Connect, DialogInv, DlgAt
    <2>2. fsys' \in [Fs -> ConnType] /\ up' \subseteq Conns
      BY <2>1, ConnectedTo DEF FsOk
    <2> QED BY <2>1, <2>2, QuietInv
  <1>5. ASSUME NEW p \in Paths, Choose(p)
        PROVE  FilesInv'
    <2> DEFINE file == <<fsys[dlg.client].server, p>>
    <2>1. /\ At("idle") /\ dlg.client \in Fs /\ fsys[dlg.client].server \in Servers
      BY <1>5 DEF Choose, DialogInv, DlgAt, Connected
    <2>2. file \in Stored
      BY <2>1 DEF Stored
    <2>3. /\ Start("load", dlg.client, file, None)
          /\ UNCHANGED <<store, edits, fsys, up, src, uf, dst, doc>>
      BY <1>5 DEF Choose
    <2> HIDE DEF file
    <2>4. fsys' \in [Fs -> ConnType] /\ up' \subseteq Conns
      BY <2>3, FilesTyped DEF FsOk
    <2> QED BY <2>1, <2>2, <2>3, <2>4, StartInv
  <1> QED BY <1>1, <1>2, <1>3, <1>4, <1>5 DEF Dialog

DlgType == [at : {"off", "list", "browse"}, client : Fs \union {None}, cwd : Dirs,
            target : Dirs, entries : SUBSET (Dirs \union Paths), enabled : BOOLEAN]

LEMMA NoDialogType == NoDialog \in DlgType
  BY DirsAssumption DEF NoDialog, DlgType, DirsAssumption

LEMMA ListingType ==
  ASSUME NEW server, NEW dir
  PROVE  Listing(server, dir) \subseteq Dirs \union Paths
  BY DEF Listing

LEMMA DialogType ==
  ASSUME dlg \in DlgType, TypeOK, [SNext]_svars
  PROVE  dlg' \in DlgType
  <1> USE DEF DlgType
  <1>1. CASE UNCHANGED svars \/ Window \/ Running \/ Outside
    BY <1>1 DEF svars, Window, Running, Outside
  <1>2. CASE Show
    <2>1. CASE doc.fs \in Fs /\ doc.path # None
      <3>1. DirOf[doc.path] \in Dirs
        BY <2>1, DirsAssumption DEF TypeOK, DirsAssumption
      <3>2. dlg' = [NoDialog EXCEPT !.at = "list", !.client = doc.fs, !.cwd = DirOf[doc.path],
                                    !.target = DirOf[doc.path], !.enabled = TRUE]
        BY <1>2, <2>1 DEF Show
      <3> QED BY <2>1, <3>1, <3>2, NoDialogType
    <2>2. CASE ~(doc.fs \in Fs /\ doc.path # None)
      <3>1. dlg' = [NoDialog EXCEPT !.at = "browse"]
        BY <1>2, <2>2 DEF Show
      <3> QED BY <3>1, NoDialogType
    <2> QED BY <2>1, <2>2
  <1>3. CASE Navigate
    <2> DEFINE entries == Listing(fsys[dlg.client].server, dlg.target)
    <2>1. \/ dlg' = [dlg EXCEPT !.at = "browse"]
          \/ dlg' = [dlg EXCEPT !.at = "browse", !.cwd = dlg.target, !.enabled = TRUE,
                                !.entries = entries]
      BY <1>3 DEF Navigate
    <2>2. entries \subseteq Dirs \union Paths
      BY ListingType
    <2> HIDE DEF entries
    <2> QED BY <2>1, <2>2
  <1>4. CASE GoUp
    BY <1>4, DirsAssumption DEF GoUp, DirsAssumption
  <1>5. CASE Cancel \/ \E p \in Paths : Choose(p)
    BY <1>5, NoDialogType DEF Cancel, Choose
  <1>6. ASSUME NEW s \in Servers, Connect(s)
        PROVE  dlg' \in DlgType
    <2> DEFINE o == Min(Fs \ {doc.fs})
    <2>1. o \in Fs
      BY NewFs
    <2>2. dlg' = [dlg EXCEPT !.at = "list", !.client = o, !.target = Root,
                             !.entries = {}, !.enabled = FALSE]
      BY <1>6 DEF Connect
    <2> HIDE DEF o
    <2> QED BY <2>1, <2>2, DirsAssumption DEF DirsAssumption
  <1>7. ASSUME NEW d \in Dirs, Enter(d)
        PROVE  dlg' \in DlgType
    BY <1>7 DEF Enter
  <1> QED BY <1>1, <1>2, <1>3, <1>4, <1>5, <1>6, <1>7 DEF SNext, Dialog

SessionInv == FilesInv /\ DialogInv /\ dlg \in DlgType

LEMMA SessionInvStep ==
  ASSUME SessionInv, [SNext]_svars
  PROVE  SessionInv'
  <1>1. FilesInv /\ DialogInv /\ dlg \in DlgType /\ TypeOK
    BY FilesTyped DEF SessionInv
  <1>2. DialogInv' /\ dlg' \in DlgType
    BY <1>1, SessionStep, DialogType
  <1>3. FilesInv'
    <2>1. CASE UNCHANGED svars
      BY <1>1, <2>1, StutterInv DEF svars
    <2>2. CASE Window
      BY <1>1, <2>2, CommandsInv DEF Window, DialogInv
    <2>3. CASE Dialog
      BY <1>1, <2>3, DialogFilesInv
    <2>4. CASE Running
      BY <1>1, <2>4, CallsInv DEF Running
    <2>5. CASE Outside
      BY <1>1, <2>5, OthersInv DEF Outside
    <2> QED BY <2>1, <2>2, <2>3, <2>4, <2>5 DEF SNext
  <1> QED BY <1>2, <1>3 DEF SessionInv, DlgType

LEMMA SessionInit ==
  ASSUME SInit
  PROVE  SessionInv
  <1>1. /\ store = Initial /\ edits = 0 /\ fsys = [o \in Fs |-> Free] /\ up = {}
        /\ src = Closed /\ uf = Closed /\ dst = Closed /\ doc = NoDoc /\ call = NoCall
        /\ dlg = NoDialog
    BY DEF SInit, Init
  <1>2. call \in CallRecord /\ At("idle") /\ call.op = "none"
    <2>1. "idle" \in Points /\ <<>> \in Contents /\ 0 \in 0 .. MaxCalls
      BY EmptyBytes, FilesAssumption DEF Points, FilesAssumption
    <2> QED BY <1>1, <2>1 DEF CallRecord, NoCall, At
  <1>3. Free \in ConnType /\ 0 \in 0 .. MaxEdits
    BY FilesAssumption DEF Free, ConnType, FilesAssumption
  <1>4. TypeOK
    BY <1>1, <1>2, <1>3, NoDocType, FilesAssumption DEF TypeOK, ConnType, FilesAssumption
  <1>5. Placed
    BY <1>1, <1>2, <1>4
       DEF Placed, Stands, FileRead, FileWritten, At, Loading, Trying, Typing, SavePoints
  <1>6. Bytes
    BY <1>2 DEF Bytes, InStep, BytesLoaded, Attempts, Healthy, BytesSaved, At, Trying
  <1>7. DialogInv /\ dlg \in DlgType
    BY <1>1, NoCallFields, NoDocFields, NoDialogFields, NoDialogType, FilesAssumption
       DEF DialogInv, Sound, Connected, DlgAt, At, FilesAssumption
  <1> QED BY <1>5, <1>6, <1>7 DEF SessionInv, FilesInv

-----------------------------------------------------------------------------
LEMMA SessionHolds == SSpec => []SessionInv
  <1>1. SInit => SessionInv
    BY SessionInit
  <1>2. SessionInv /\ [SNext]_svars => SessionInv'
    BY SessionInvStep
  <1> QED BY <1>1, <1>2, PTL DEF SSpec

(* Every variable of the files and of the dialog has a value of its kind:   *)
(* Doc's call goes only to points that it has, with a file that exists in   *)
(* the model's space of files, and the dialog lists directories and paths.  *)
THEOREM SessionTyped == SSpec => []STypeOK
  <1>1. SessionInv => STypeOK
    BY FilesTyped DEF SessionInv, STypeOK, DlgType
  <1> QED BY <1>1, SessionHolds, PTL

(* Doc::open() shows an image only from all of the file's bytes, each       *)
(* decoded with its own state of the generator, and shows it if no request  *)
(* fails (readFromUniFile(), filetype(), the two attempts of Doc.cpp:252):  *)
(* for any contents, chunk size, short answers and lost connections.        *)
THEOREM LoadsAreRight == SSpec => []LoadsRight
  <1>1. SessionInv => LoadsRight
    <2> SUFFICES ASSUME SessionInv
                 PROVE  LoadsRight
      OBVIOUS
    <2>1. BytesLoaded /\ Healthy /\ call \in CallRecord
      BY CallContext DEF SessionInv
    <2>2. LoadedIsWhole
      BY <2>1 DEF BytesLoaded, LoadedIsWhole, Finished, Whole, At
    <2>3. HealthyLoadSucceeds
      BY <2>1 DEF Healthy, HealthyLoadSucceeds, Finished, At
    <2> QED BY <2>2, <2>3 DEF LoadsRight
  <1> QED BY <1>1, SessionHolds, PTL

(* A handle is used only on the connection that returned it, and whenever   *)
(* bytes are decoded ZDataFile's generator is where the file is and passes  *)
(* on the states that seekAfter() would jump to, for any number of bytes.   *)
THEOREM FilesAreInStep == SSpec => []FileInStep
  <1>1. SessionInv => FileInStep
    <2> SUFFICES ASSUME SessionInv
                 PROVE  FileInStep
      OBVIOUS
    <2>1. InStep /\ FileRead /\ TypeOK /\ Stands
      BY CallContext DEF SessionInv
    <2>2. HandleOfConnection
      BY <2>1 DEF FileRead, HandleOfConnection, Alive
    <2>3. ASSUME At("read") \/ At("peek"), uf.z, uf.conn \in up \union {Disk},
                 NEW n \in 0 .. MaxLen
          PROVE  Seeds(uf.seed)[n] = SeedAfter(src.pos + n)
      <3>1. uf # Closed
        BY <2>1, <2>3 DEF Stands, At, Loading, Trying, Typing
      <3>2. src # Closed
        BY <2>1, <2>3, <3>1 DEF FileRead, Alive
      <3>3. src.pos \in Nat /\ uf.seed = SeedAfter(src.pos)
        BY <2>1, <2>3, <3>2 DEF InStep, TypeOK, Handles
      <3>4. n \in Nat
        OBVIOUS
      <3> QED BY <3>3, <3>4, StepsOn
    <2> QED BY <2>2, <2>3 DEF FileInStep, DecodesInStep
  <1> QED BY <1>1, SessionHolds, PTL

(* What saveAsLocal() reports as saved is the beginning of the file, and    *)
(* all of it unless a read failed: for any buffer, short write and place    *)
(* where the connection is lost.                                            *)
THEOREM SavesAreRead == SSpec => []SavedIsRead
  <1>1. SessionInv => SavedIsRead
    <2> SUFFICES ASSUME SessionInv
                 PROVE  SavedIsRead
      OBVIOUS
    <2>1. BytesSaved
      BY CallContext DEF SessionInv
    <2> QED BY <2>1 DEF BytesSaved, SavedIsRead, Finished, At
  <1> QED BY <1>1, SessionHolds, PTL
=============================================================================
