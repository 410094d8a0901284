-------------------------------- MODULE Files --------------------------------
(* The bytes of a file: how Doc::open() reads them through UniFile (from the  *)
(* local disk, from a server, through ZDataFile) until a codec accepts them,  *)
(* and how saveAsLocal() copies them.  Every request to a server or call into *)
(* the C library is one action, so other programs may change the file between *)
(* two of them, and each may fail or take the connection with it.             *)
(*                                                                            *)
(* Left to module Doc: the fallback to another file, the listing itself, and  *)
(* what a document does between two calls.                                    *)
EXTENDS ZData, FiniteSetsExt, SequencesExt

CONSTANTS
  Servers,       \* host:port of the servers
  Paths,         \* paths, on the disk and on every server
  Ext,           \* [Paths -> Exts]: the extension of a path
  Kind,          \* [Bit -> Types]: the type that a file's first byte tells
  Initial,       \* [Stored -> contents at the start, or Missing]
  Edits,         \* what other programs may write into a file
  MaxEdits,      \* bound: how often they do
  MaxCalls,      \* bound: calls of open() and saveAsLocal()
  Chunk,         \* MAX_READ_CHUNK
  SaveBuf,       \* the buffer of saveAsLocal()
  Missing, None

Types == {"gdi", "webp"}             \* what GdiPlusCodec and WebpCodec open
Exts == Types \union {"zdata"}
Disk == 0                            \* LocalFs has no state and no connection
Fs == 1 .. 2                         \* RemoteFs objects
Conns == 1 .. 4                      \* RemoteConn objects
Stored == ({Disk} \union Servers) \X Paths
Contents == Seq(Bit)
Closed == [conn |-> None]            \* no UniFile, no handle
Free == [server |-> None, conn |-> None]
NoDoc == [fs |-> None, path |-> None, image |-> None]

ASSUME FilesAssumption ==
  /\ Ext \in [Paths -> Exts] /\ Kind \in [Bit -> Types]
  /\ Initial \in [Stored -> Contents \union {Missing}]
  /\ Edits \subseteq Contents /\ Missing \notin Edits
  /\ MaxEdits \in Nat /\ MaxCalls \in Nat /\ Chunk \in Nat \ {0} /\ SaveBuf \in Nat \ {0}
  /\ Disk \notin Servers /\ None \notin Servers \union Paths \union Fs \union Conns \union {Disk}

VARIABLES
  store,   \* contents of every file
  edits,   \* changes by other programs, so far
  fsys,    \* RemoteFs: its server and its connection
  up,      \* the connections that are alive
  src,     \* what the server or the C library keeps for the file that is read
  uf,      \* the UniFile that is read, with the generator of a ZDataFile
  dst,     \* the file that is written
  doc,     \* _unifs, _path and _image
  call     \* the call of open() or saveAsLocal(), or the last one

vars == <<store, edits, fsys, up, src, uf, dst, doc, call>>

\* The call also remembers, for the properties, the contents when the file was
\* opened, whether another program wrote into it or into the copy since then
\* (touched), and whether a request failed or brought less than it could.
NoCall == [n |-> 0, op |-> "none", at |-> "idle", ok |-> FALSE, fs |-> Disk, file |-> None, to |-> None,
           codec |-> None, first |-> TRUE, size |-> 0, got |-> <<>>, pos |-> 0, retried |-> FALSE,
           orig |-> <<>>, touched |-> FALSE, failed |-> FALSE]

Init ==
  /\ store = Initial /\ edits = 0
  /\ fsys = [o \in Fs |-> Free] /\ up = {}
  /\ src = Closed /\ uf = Closed /\ dst = Closed
  /\ doc = NoDoc /\ call = NoCall

At(point) == call.at = point
PathOf(file) == file[2]
Home(o) == IF o = Disk THEN Disk ELSE fsys[o].server
ConnOf(o) == IF o = Disk THEN Disk ELSE fsys[o].conn
DocFile == <<Home(doc.fs), doc.path>>

-----------------------------------------------------------------------------
(* Requests.                                                                  *)

\* How a request on a connection, or a call into the C library, may end.
Replies(c) == IF c = Disk THEN {"ok", "error"}
              ELSE IF c \in up THEN {"ok", "error", "lost"} ELSE {"lost"}

\* A lost connection takes the server's handles with it.
Survives(c, r) == up' = IF r = "lost" THEN up \ {c} ELSE up
Keeps(r, handle) == src' = IF r = "lost" THEN Closed ELSE handle

\* The call goes on at `point`, having had the answer r.
Then(point, r) == call' = [call EXCEPT !.at = point, !.failed = @ \/ r # "ok"]
\* The call returns: uf and dst are destroyed first.
Ends(ok, r) ==
  call' = [call EXCEPT !.at = "close", !.ok = ok, !.failed = @ \/ r # "ok"]

\* seek(), which returns 0 only for the answer "ok".  ZDataFile::seek() asks
\* where that was and jumps the generator there; without an answer it fails,
\* and the file under it has moved.
Seek(target, answer) ==
  \E r \in Replies(uf.conn) :
    /\ answer \in IF uf.z /\ r = "ok" THEN Replies(uf.conn) ELSE {r}
    /\ Survives(uf.conn, answer)
    /\ Keeps(answer, IF r = "ok" THEN [src EXCEPT !.pos = target] ELSE src)
    /\ uf' = IF uf.z /\ answer = "ok" THEN [uf EXCEPT !.seed = SeedAfter(target)] ELSE uf
Answers == {"ok", "error", "lost"}

\* What read() of `limit` bytes may get: a server may send fewer bytes than
\* there are, and an error looks like none at all.  That it sends no more than
\* was asked for is taken for granted, as it is in RemoteFile::read().
Rest(limit) == SubSeq(store[src.file], src.pos + 1,
                      Min({Len(store[src.file]), src.pos + limit}))
Reads(limit) ==
  {[reply |-> r, data |-> <<>>] : r \in Replies(uf.conn) \ {"ok"}} \union
  {[reply |-> IF n = Len(Rest(limit)) THEN "ok" ELSE "short", data |-> SubSeq(Rest(limit), 1, n)] :
     n \in IF "ok" \notin Replies(uf.conn) THEN {}
           ELSE IF uf.conn = Disk THEN {Len(Rest(limit))} ELSE 0 .. Len(Rest(limit))}

\* The handle moves, and ZDataFile::read() steps the generator as it decodes.
Moves(x) ==
  /\ Survives(uf.conn, x.reply)
  /\ Keeps(x.reply, [src EXCEPT !.pos = @ + Len(x.data)])
  /\ uf' = IF uf.z THEN [uf EXCEPT !.seed = Seeds(@)[Len(x.data)]] ELSE uf
Decoded(x) == IF uf.z THEN Decode(uf.seed, x.data) ELSE x.data

\* A new connection for o: RemoteFs::open() and reconnect().  The old one goes
\* unless an open file still holds it.
Connects(o, server) ==
  LET c == Min(Conns \ ({fsys[p].conn : p \in Fs} \union {uf.conn}))
  IN  /\ fsys' = [fsys EXCEPT ![o] = [server |-> server, conn |-> c]]
      /\ up' = (up \ ({fsys[o].conn} \ {uf.conn})) \union {c}

-----------------------------------------------------------------------------
(* Doc::open(), Step 1: a UniFile.                                            *)

Start(op, o, file, to) ==
  /\ call.n < MaxCalls
  /\ call' = [NoCall EXCEPT !.n = call.n + 1, !.op = op, !.at = "open", !.fs = o,
                            !.file = file, !.to = to]

\* MainWnd::OpenFile(): a dialog, a drop, the command line; and a recent entry.
OpenLocal(p) ==
  /\ At("idle")
  /\ Start("load", Disk, <<Disk, p>>, None)
  /\ UNCHANGED <<store, edits, fsys, up, src, uf, dst, doc>>

\* OpenRecentFile() of a remote entry: a new RemoteFs.
OpenRecent(s, p) ==
  /\ At("idle")
  /\ LET o == Min(Fs \ {doc.fs})
     IN  Connects(o, s) /\ Start("load", o, <<s, p>>, None)
  /\ UNCHANGED <<store, edits, src, uf, dst, doc>>

\* MainWnd::SaveAs(): the copy goes to the local disk.
SaveAs(p) ==
  /\ At("idle") /\ doc.path # None /\ doc.fs # None
  /\ Start("save", doc.fs, DocFile, <<Disk, p>>)
  /\ UNCHANGED <<store, edits, fsys, up, src, uf, dst, doc>>

\* openfile(): the file is there.
Opens ==
  /\ At("open") /\ store[call.file] # Missing
  /\ LET c == ConnOf(call.fs) IN
       /\ "ok" \in Replies(c)
       /\ src' = [conn |-> c, file |-> call.file, pos |-> 0]
       /\ uf' = [conn |-> c, z |-> FALSE, seed |-> Seed0]
  /\ call' = [call EXCEPT !.at = IF call.op = "load" THEN "opened" ELSE "create",
                          !.orig = store[call.file], !.touched = FALSE]
  /\ UNCHANGED <<store, edits, fsys, up, dst, doc>>

\* openfile() fails: open() reconnects once unless the server knows no such
\* file ("ok" here); saveAsLocal() and a local open() give up.
OpenFails ==
  /\ At("open")
  /\ LET c == ConnOf(call.fs) IN
       \E r \in Replies(c) :
         /\ r = "ok" => store[call.file] = Missing
         /\ Survives(c, r)
         /\ IF call.op = "load" /\ c # Disk /\ ~call.retried /\ r # "ok"
            THEN Then("reconnect", r) ELSE Ends(FALSE, r)
  /\ UNCHANGED <<store, edits, fsys, src, uf, dst, doc>>

\* Fault: open() may reconnect as often as it fails.
Reconnects_Again ==
  /\ At("reconnect")
  /\ Connects(call.fs, fsys[call.fs].server)
  /\ call' = [call EXCEPT !.at = IF uf = Closed THEN "open" ELSE "rescan"]
  /\ UNCHANGED <<store, edits, src, uf, dst, doc>>

\* Fault: an open file moves to the new connection with its old handle.
Reconnects_MovesFile ==
  /\ At("reconnect")
  /\ Connects(call.fs, fsys[call.fs].server)
  /\ uf' = IF uf = Closed THEN uf ELSE [uf EXCEPT !.conn = fsys'[call.fs].conn]
  /\ call' = [call EXCEPT !.at = IF uf = Closed THEN "open" ELSE "rescan", !.retried = TRUE]
  /\ UNCHANGED <<store, edits, src, dst, doc>>

\* reconnectRemoteOnce(), of Step 1 or of Step 3.
Reconnects ==
  /\ At("reconnect")
  /\ Connects(call.fs, fsys[call.fs].server)
  /\ call' = [call EXCEPT !.at = IF uf = Closed THEN "open" ELSE "rescan", !.retried = TRUE]
  /\ UNCHANGED <<store, edits, src, uf, dst, doc>>

ReconnectFails ==
  /\ At("reconnect")
  /\ doc' = NoDoc
  /\ Ends(FALSE, "lost")
  /\ UNCHANGED <<store, edits, fsys, up, src, uf, dst>>

-----------------------------------------------------------------------------
(* Step 2: close the image, decode.  The codec of the extension is tried,     *)
(* then the one of what filetype() finds in the bytes.                        *)

\* close(), and a ZDataFile for an obfuscated file: its constructor asks where
\* the file is, which is at its beginning, answer or not.  No codec has z00.
Opened ==
  /\ At("opened")
  /\ doc' = [doc EXCEPT !.fs = call.fs, !.image = None]
  /\ LET ext == Ext[PathOf(call.file)]
         z == ext = "zdata"
     IN  /\ uf' = [uf EXCEPT !.z = z]
         /\ \E r \in IF z THEN Replies(uf.conn) ELSE {"ok"} :
              /\ Survives(uf.conn, r)
              /\ Keeps(r, src)
              /\ call' = [call EXCEPT !.at = IF z THEN "tell" ELSE "rewind", !.failed = r # "ok" \/ @,
                                      !.codec = IF z THEN None ELSE ext]
  /\ UNCHANGED <<store, edits, fsys, dst>>

\* No image from this attempt.
AttemptFails(r) == IF call.first THEN Then("tell", r) ELSE Ends(FALSE, r)

\* Doc's own seek to the beginning, whose result it does not look at.
Rewinds ==
  /\ At("rewind")
  /\ \E r \in Answers : Seek(0, r) /\ Then("end", r)
  /\ UNCHANGED <<store, edits, fsys, dst, doc>>

\* readFromUniFile(): how long is the file?
SeeksEnd ==
  /\ At("end")
  /\ \E r \in Answers :
       /\ Seek(Len(store[src.file]), r)
       /\ IF r = "ok" THEN Then("size", r) ELSE AttemptFails(r)
  /\ UNCHANGED <<store, edits, fsys, dst, doc>>

\* Fault: only an empty file is refused, not a size that is not known.
TellsSize_NotZero ==
  /\ At("size")
  /\ \E r \in Replies(uf.conn) :
       /\ Survives(uf.conn, r)
       /\ Keeps(r, src)
       /\ LET size == IF r = "ok" THEN src.pos ELSE -1
          IN  IF size # 0
              THEN call' = [call EXCEPT !.at = "begin", !.size = size] ELSE AttemptFails(r)
  /\ UNCHANGED <<store, edits, fsys, uf, dst, doc>>

TellsSize ==
  /\ At("size")
  /\ \E r \in Replies(uf.conn) :
       /\ Survives(uf.conn, r)
       /\ Keeps(r, src)
       /\ IF r = "ok" /\ src.pos > 0
          THEN call' = [call EXCEPT !.at = "begin", !.size = src.pos] ELSE AttemptFails(r)
  /\ UNCHANGED <<store, edits, fsys, uf, dst, doc>>

SeeksBegin ==
  /\ At("begin")
  /\ \E r \in Answers :
       /\ Seek(0, r)
       /\ IF r = "ok"
          THEN call' = [call EXCEPT !.at = "read", !.got = <<>>] ELSE AttemptFails(r)
  /\ UNCHANGED <<store, edits, fsys, dst, doc>>

\* RemoteFile::read() asks for a chunk at a time and takes a short one for the
\* end of the file; the C library reads all at once.
ReadsChunk ==
  /\ At("read")
  /\ LET want == call.size - Len(call.got)
         limit == IF uf.conn = Disk THEN want ELSE Min({want, Chunk})
     IN  \E x \in Reads(limit) :
           /\ Moves(x)
           /\ call' = [call EXCEPT !.got = @ \o Decoded(x), !.failed = @ \/ x.reply # "ok",
                         !.at = IF Len(x.data) = limit /\ limit < want THEN "read" ELSE "decode"]
  /\ UNCHANGED <<store, edits, fsys, dst, doc>>

\* Fault: whatever was read is decoded.
Decodable_Partial == call.got # <<>> /\ Kind[call.got[1]] = call.codec

\* All of the bytes are there and the codec knows them: the image is shown.
Decodable == Len(call.got) = call.size /\ Kind[call.got[1]] = call.codec

Shows ==
  /\ At("decode") /\ Decodable
  /\ doc' = [doc EXCEPT !.path = PathOf(call.file),
                        !.image = [file |-> call.file, data |-> call.got]]
  /\ Then("rescan", "ok")
  /\ UNCHANGED <<store, edits, fsys, up, src, uf, dst>>

DecodeFails ==
  /\ At("decode") /\ ~Decodable
  /\ AttemptFails("ok")
  /\ UNCHANGED <<store, edits, fsys, up, src, uf, dst, doc>>

-----------------------------------------------------------------------------
(* filetype(): remember the position, look at the first bytes, go back.       *)

Tells ==
  /\ At("tell")
  /\ \E r \in Replies(uf.conn) :
       /\ Survives(uf.conn, r)
       /\ Keeps(r, src)
       /\ call' = [call EXCEPT !.at = "look", !.pos = IF r = "ok" THEN src.pos ELSE -1,
                               !.first = FALSE, !.failed = r # "ok" \/ @]
  /\ UNCHANGED <<store, edits, fsys, uf, dst, doc>>

Looks ==
  /\ At("look")
  /\ \E r \in Answers : Seek(0, r) /\ IF r = "ok" THEN Then("peek", r) ELSE Ends(FALSE, r)
  /\ UNCHANGED <<store, edits, fsys, dst, doc>>

Peeks ==
  /\ At("peek")
  /\ \E x \in Reads(1) :
       /\ Moves(x)
       /\ call' = [call EXCEPT !.at = "back", !.failed = @ \/ x.reply # "ok",
                     !.codec = IF x.data = <<>> THEN None ELSE Kind[Decoded(x)[1]]]
  /\ UNCHANGED <<store, edits, fsys, dst, doc>>

\* What was found is tried unless it is what the extension says.  GdiPlusCodec
\* has several extensions: it may be tried a second time, by another of them.
TypeFound(r) ==
  LET ext == Ext[PathOf(call.file)]
  IN  \/ call.codec \in Types /\ (call.codec # ext \/ ext = "gdi") /\ Then("rewind", r)
      \/ call.codec \notin Types \ {ext} /\ Ends(FALSE, r)

GoesBack ==
  /\ At("back")
  /\ \/ call.pos >= 0 /\ \E r \in Answers : Seek(call.pos, r) /\ TypeFound(r)
     \/ call.pos < 0 /\ TypeFound("ok") /\ UNCHANGED <<up, src, uf>>
  /\ UNCHANGED <<store, edits, fsys, dst, doc>>

-----------------------------------------------------------------------------
(* Step 3: the directory is listed again; the file is open meanwhile.         *)

Rescans ==
  /\ At("rescan")
  /\ LET c == ConnOf(call.fs) IN
       \E r \in Replies(c) :
         /\ Survives(c, r)
         /\ src' = IF src.conn \in {Disk, None} \union up' THEN src ELSE Closed
         /\ \/ r = "ok" /\ Ends(TRUE, r) /\ doc' = doc
            \/ /\ r # "ok" /\ c # Disk /\ ~call.retried
               /\ Then("reconnect", r) /\ doc' = doc
            \/ /\ r = "error" \/ (r = "lost" /\ call.retried)
               /\ Ends(FALSE, r) /\ doc' = NoDoc
  /\ UNCHANGED <<store, edits, fsys, uf, dst>>

\* The UniFiles go, and with the call the last reference to a RemoteFs that is
\* not the document's, and to its connection.
Closes ==
  /\ At("close")
  /\ src' = Closed /\ uf' = Closed /\ dst' = Closed
  /\ fsys' = [o \in Fs |-> IF o = doc.fs THEN fsys[o] ELSE Free]
  /\ up' = up \intersect {fsys[o].conn : o \in Fs \intersect {doc.fs}}
  /\ call' = [call EXCEPT !.at = "idle", !.fs = Disk, !.codec = None, !.first = TRUE,
                          !.size = 0, !.got = <<>>, !.pos = 0, !.retried = FALSE]
  /\ UNCHANGED <<store, edits, doc>>

-----------------------------------------------------------------------------
(* saveAsLocal().                                                             *)

\* openfile(..., "wb") empties the file, which may be the one that is read.
Creates ==
  /\ At("create")
  /\ \/ /\ store' = [store EXCEPT ![call.to] = <<>>]
        /\ dst' = [conn |-> Disk, file |-> call.to, pos |-> 0]
        /\ Then("copy", "ok")
     \/ Ends(FALSE, "error") /\ UNCHANGED <<store, dst>>
  /\ UNCHANGED <<edits, fsys, up, src, uf, doc>>

\* A read of no bytes ends the copy, whatever it means.
Copies ==
  /\ At("copy")
  /\ \E x \in Reads(SaveBuf) :
       /\ Moves(x)
       /\ IF x.data = <<>> THEN Then("flush", x.reply)
          ELSE call' = [call EXCEPT !.at = "write", !.got = x.data]
  /\ UNCHANGED <<store, edits, fsys, dst, doc>>

Written(old, pos, data) ==
  [i \in 1 .. Max({Len(old), pos + Len(data)}) |->
     IF i \in pos + 1 .. pos + Len(data) THEN data[i - pos]
     ELSE IF i <= Len(old) THEN old[i] ELSE 0]

\* Fault: the number of bytes that were written is not looked at.
Writes_Unchecked ==
  /\ At("write")
  /\ \E n \in 0 .. Len(call.got) :
       /\ store' = [store EXCEPT ![dst.file] = Written(@, dst.pos, SubSeq(call.got, 1, n))]
       /\ dst' = [dst EXCEPT !.pos = @ + n]
       /\ Then("copy", "ok")
  /\ UNCHANGED <<edits, fsys, up, src, uf, doc>>

Writes ==
  /\ At("write")
  /\ \E n \in 0 .. Len(call.got) :
       /\ store' = [store EXCEPT ![dst.file] = Written(@, dst.pos, SubSeq(call.got, 1, n))]
       /\ dst' = [dst EXCEPT !.pos = @ + n]
       /\ IF n = Len(call.got) THEN Then("copy", "ok") ELSE Ends(FALSE, "error")
  /\ UNCHANGED <<edits, fsys, up, src, uf, doc>>

\* The result of dst->close() is that of saveAsLocal().
Flushes ==
  /\ At("flush")
  /\ \E ok \in BOOLEAN : Ends(ok, IF ok THEN "ok" ELSE "error")
  /\ UNCHANGED <<store, edits, fsys, up, src, uf, dst, doc>>

-----------------------------------------------------------------------------
\* Another program changes a file of the call; those of no call do not matter.
Rewrite(file, contents) ==
  /\ edits < MaxEdits /\ file \in {call.file, call.to} /\ store[file] # Missing
  /\ edits' = edits + 1
  /\ store' = [store EXCEPT ![file] = contents]
  /\ call' = [call EXCEPT !.touched = TRUE]
  /\ UNCHANGED <<fsys, up, src, uf, dst, doc>>

Commands == \/ \E p \in Paths : OpenLocal(p) \/ SaveAs(p)
            \/ \E s \in Servers, p \in Paths : OpenRecent(s, p)

Step1 == Opens \/ OpenFails \/ Reconnects \/ ReconnectFails
Decoding == \/ Opened \/ Rewinds \/ SeeksEnd \/ TellsSize \/ SeeksBegin \/ ReadsChunk
            \/ Shows \/ DecodeFails
Filetype == Tells \/ Looks \/ Peeks \/ GoesBack
Saving == Creates \/ Copies \/ Writes \/ Flushes
Calls == Step1 \/ Decoding \/ Filetype \/ Rescans \/ Saving \/ Closes
Others == \E file \in Stored, contents \in Edits : Rewrite(file, contents)

Next == Commands \/ Calls \/ Others
\* Every request is answered or times out, and every call of the C library
\* returns.
Spec == Init /\ [][Next]_vars /\ WF_vars(Calls)

-----------------------------------------------------------------------------
(* Every variable has a value of its kind.                                    *)
Points == {"idle", "open", "reconnect", "opened", "rewind", "end", "size", "begin", "read",
           "decode", "tell", "look", "peek", "back", "rescan", "close", "create", "copy",
           "write", "flush"}
Handles(conns) == [conn : conns, file : Stored, pos : Nat]
CallRecord ==
  [n : 0 .. MaxCalls, op : {"none", "load", "save"}, at : Points, ok : BOOLEAN,
   fs : Fs \union {Disk}, file : Stored \union {None}, to : Stored \union {None},
   codec : Types \union {None}, first : BOOLEAN, size : Nat, got : Contents,
   pos : Nat \union {-1}, retried : BOOLEAN, orig : Contents, touched : BOOLEAN,
   failed : BOOLEAN]
TypeOK ==
  /\ store \in [Stored -> Contents \union {Missing}] /\ edits \in 0 .. MaxEdits
  /\ fsys \in [Fs -> [server : Servers \union {None}, conn : Conns \union {None}]]
  /\ up \subseteq Conns
  /\ src = Closed \/ src \in Handles(Conns \union {Disk})
  /\ uf = Closed \/ uf \in [conn : Conns \union {Disk}, z : BOOLEAN, seed : Words]
  /\ dst = Closed \/ dst \in Handles({Disk})
  /\ doc \in [fs : Fs \union {Disk, None}, path : Paths \union {None},
              image : [file : Stored, data : Contents] \union {None}]
  /\ call \in CallRecord

Finished(op) == At("idle") /\ call.op = op

(* An image is shown only from all of the file's bytes, each decoded with its *)
(* own state of the generator, however the server cut them up, whatever seek  *)
(* failed unseen (Doc.cpp:252, filetype.cpp:55) and whichever attempt it was. *)
(* This is as long as no other program writes between the requests.           *)
Text(file, bytes) == IF Ext[PathOf(file)] = "zdata" THEN Plain(bytes) ELSE bytes
LoadedIsWhole ==
  Finished("load") /\ call.ok /\ ~call.touched => doc.image.data = Text(call.file, call.orig)

(* When nothing fails, a file of a known type is shown, also if its name says *)
(* another type (Doc.cpp:263) or hides it (Doc.cpp:244).                      *)
HealthyLoadSucceeds ==
  /\ Finished("load") /\ ~call.failed /\ ~call.touched
  /\ call.orig # <<>>
  => call.ok

(* What is shown is the whole file, and it is shown if nothing fails.         *)
LoadsRight == LoadedIsWhole /\ HealthyLoadSucceeds

(* Whenever ZDataFile reads, its generator is where the file is, and reading  *)
(* on from there passes the states that a seek would jump to: a seek that     *)
(* moved the file and failed to learn where (ZDataFile.hpp:30) is followed by *)
(* one that is looked at before anything is read.                             *)
DecodesInStep ==
  (At("read") \/ At("peek")) /\ uf.z /\ uf.conn \in up \union {Disk} =>
    \A n \in 0 .. MaxLen : Seeds(uf.seed)[n] = SeedAfter(src.pos + n)

(* A handle is used only on the connection that returned it, and a live       *)
(* connection knows it: a RemoteFile keeps its own RemoteConn when the        *)
(* RemoteFs reconnects under it (remote_file.cpp:57, Doc.cpp:313).            *)
HandleOfConnection ==
  /\ src # Closed => src.conn = uf.conn
  /\ ~At("close") /\ uf # Closed /\ uf.conn \in up => src # Closed

(* What is read is read from the handle and decoded with the state it has to. *)
FileInStep == HandleOfConnection /\ DecodesInStep

(* A copy that is reported as saved holds, from its beginning, the bytes of   *)
(* the file, and all of them unless a read failed: no short write and no      *)
(* failed close passes (Doc.cpp:571, 575).  A read that fails ends the copy   *)
(* like the end of the file does (Doc.cpp:569).  Not when it is the file that *)
(* is saved; see SavedIsWhole.                                                *)
SavedIsRead ==
  Finished("save") /\ call.ok /\ ~call.touched /\ call.to # call.file =>
    /\ IsPrefix(store[call.to], call.orig)
    /\ ~call.failed => store[call.to] = call.orig

(* Each open() and each saveAsLocal() returns: no answer of a server keeps    *)
(* it reading, retrying or reconnecting.                                      *)
CallReturns == ~At("idle") ~> At("idle")

(* Doc.h:72, "Save the currently opened file bytes to a local filesystem      *)
(* path": what is reported as saved is the file's bytes.                      *)
SavedIsWhole ==
  Finished("save") /\ call.ok /\ ~call.touched /\ ~call.failed => store[call.to] = call.orig
=============================================================================
