------------------------------ MODULE ConnectDlg ------------------------------
(* The dialog that connects to a server, browses it and gives a file to       *)
(* Doc::open(), with the document and the files of module Files under it.     *)
(* The dialog is modal: the main window's commands wait for it.  It starts on *)
(* the document's own RemoteFs when that is remote; the two then share it.    *)
(* Typing, the history of addresses and the order of the list are left out.   *)
EXTENDS Files

CONSTANTS
  Dirs, Root,  \* directories of the servers
  Parent,      \* [Dirs -> Dirs]
  DirOf        \* [Paths -> Dirs]

ASSUME DirsAssumption == /\ Root \in Dirs /\ Parent \in [Dirs -> Dirs]
                         /\ DirOf \in [Paths -> Dirs] /\ Dirs \intersect Paths = {}

VARIABLE dlg   \* the dialog's m_client, m_cwd and m_entries, and whether it can browse

svars == <<vars, dlg>>

NoDialog == [at |-> "off", client |-> None, cwd |-> Root, target |-> Root,
             entries |-> {}, enabled |-> FALSE]

DlgAt(point) == dlg.at = point

\* readdir() keeps directories and the files a codec knows.
Listing(server, dir) == {d \in Dirs \ {Root} : Parent[d] = dir} \union
                        {p \in Paths : DirOf[p] = dir /\ store[<<server, p>>] # Missing}

\* DoModal() and WM_INITDIALOG.  The controls are enabled in the resource file.
Show ==
  /\ At("idle") /\ DlgAt("off") /\ call.n < MaxCalls
  /\ dlg' = IF doc.fs \in Fs /\ doc.path # None
            THEN [NoDialog EXCEPT !.at = "list", !.client = doc.fs, !.cwd = DirOf[doc.path],
                                  !.target = DirOf[doc.path], !.enabled = TRUE]
            ELSE [NoDialog EXCEPT !.at = "browse"]
  /\ UNCHANGED vars

\* Fault: the list is left to Navigate().
Connect_KeepsList(server) ==
  /\ DlgAt("browse")
  /\ LET o == Min(Fs \ {doc.fs})
     IN  /\ Connects(o, server)
         /\ dlg' = [dlg EXCEPT !.at = "list", !.client = o, !.target = Root]
  /\ UNCHANGED <<store, edits, src, uf, dst, doc, call>>

\* ConnectFromInput() with a server that answers: the new client replaces the
\* old one, the browser is emptied, and m_cwd stays until / is listed.
Connect(server) ==
  /\ DlgAt("browse")
  /\ LET o == Min(Fs \ {doc.fs})
     IN  /\ Connects(o, server)
         /\ dlg' = [dlg EXCEPT !.at = "list", !.client = o, !.target = Root,
                               !.entries = {}, !.enabled = FALSE]
  /\ UNCHANGED <<store, edits, src, uf, dst, doc, call>>

\* Navigate(): a listing replaces what is shown, a failure leaves it alone.
Navigate ==
  /\ DlgAt("list")
  /\ LET c == fsys[dlg.client].conn IN
       \E r \in Replies(c) :
         /\ Survives(c, r)
         /\ dlg' = IF r = "ok"
                   THEN [dlg EXCEPT !.at = "browse", !.cwd = dlg.target, !.enabled = TRUE,
                                    !.entries = Listing(fsys[dlg.client].server, dlg.target)]
                   ELSE [dlg EXCEPT !.at = "browse"]
  /\ UNCHANGED <<store, edits, fsys, src, uf, dst, doc, call>>

GoUp ==
  /\ DlgAt("browse") /\ dlg.enabled /\ dlg.cwd # Root
  /\ dlg' = [dlg EXCEPT !.at = "list", !.target = Parent[dlg.cwd]]
  /\ UNCHANGED vars

\* TryOpenSelected().
Enter(dir) ==
  /\ DlgAt("browse") /\ dlg.enabled /\ dir \in dlg.entries
  /\ dlg' = [dlg EXCEPT !.at = "list", !.target = dir]
  /\ UNCHANGED vars

\* A file ends the dialog, and MainWnd gives it with the client to open().
Choose(p) ==
  /\ DlgAt("browse") /\ dlg.enabled /\ p \in dlg.entries
  /\ Start("load", dlg.client, <<fsys[dlg.client].server, p>>, None)
  /\ dlg' = NoDialog
  /\ UNCHANGED <<store, edits, fsys, up, src, uf, dst, doc>>

\* The dialog's client goes unless it is the document's.
Cancel ==
  /\ DlgAt("browse")
  /\ dlg' = NoDialog
  /\ fsys' = [o \in Fs |-> IF o = doc.fs THEN fsys[o] ELSE Free]
  /\ up' = up \intersect {fsys[o].conn : o \in Fs \intersect {doc.fs}}
  /\ UNCHANGED <<store, edits, src, uf, dst, doc, call>>

SInit == Init /\ dlg = NoDialog

Dialog == \/ Show \/ Navigate \/ GoUp \/ Cancel
          \/ \E s \in Servers : Connect(s)
          \/ \E d \in Dirs : Enter(d)
          \/ \E p \in Paths : Choose(p)
\* The main window waits for the dialog.  A slide show's timer does not; what a
\* show does under a dialog is in SlideShow and Doc.
Window == /\ DlgAt("off") /\ Commands
          /\ UNCHANGED dlg
Running == Calls /\ UNCHANGED dlg
Outside == Others /\ UNCHANGED dlg

SNext == Window \/ Dialog \/ Running \/ Outside

SSpec == SInit /\ [][SNext]_svars /\ WF_svars(Running)

-----------------------------------------------------------------------------
(* Type correctness, with the files under the dialog.                         *)
STypeOK ==
  /\ TypeOK
  /\ dlg \in [at : {"off", "list", "browse"}, client : Fs \union {None}, cwd : Dirs,
              target : Dirs, entries : SUBSET (Dirs \union Paths), enabled : BOOLEAN]

(* The dialog hands over a file that the server it hands over has: what is    *)
(* left in the list of one server is never opened on another, also when the   *)
(* new server's / cannot be listed (ConnectDlg.cpp:266).                      *)
ChosenIsThere == [][DlgAt("browse") /\ call'.n # call.n => store[call'.file] # Missing]_svars

(* Browsing, connecting elsewhere and cancelling leave the document its image *)
(* and its file system, which the dialog may share (ConnectDlg.cpp:92, 263).  *)
DialogLeavesDocument ==
  [][~DlgAt("off") => /\ doc' = doc
                      /\ doc.fs \in Fs => fsys'[doc.fs] = fsys[doc.fs]]_svars

(* The dialog gives what is there, and until then touches nothing.            *)
DialogSound == ChosenIsThere /\ DialogLeavesDocument
=============================================================================
