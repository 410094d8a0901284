# obZrv: a verification project

obZrv is a Win32 image viewer. It shows one image at a time, lists the folder the image is in, walks through that
folder, deletes files from it, runs slide shows, and does all of this on the local disk or on a server reached through
a small request/response protocol (`unifs/`). This directory holds TLA+ models of the program, the TLC configurations
that check them on small instances, and TLAPS proofs of the results that matter most. File and line references are to
`src/`.

1. [The system](#1-the-system): components, state, interactions, what is hard
2. [The modules](#2-the-modules) and how they correspond to the code
3. [The runs](#3-the-runs): what is checked, in which bounds, under which fairness
4. [Findings](#4-findings)
5. [The proofs](#5-the-proofs)
6. [What is not modelled](#6-what-is-not-modelled)
7. [Plan](#7-plan)

## 1. The system

Two kinds of threads exist. The **UI thread** runs everything under `obZrv/`; its handlers are synchronous, but any
of them that puts up a dialog (a message box, the Shell's progress dialog, a file dialog) pumps messages, and timers
then enter further handlers. The **IO thread** of each server connection runs the handlers of an asio `io_context`.
There is no other concurrency, but other programs change the disk, and servers and links fail, at any moment.

```
   MainWnd (commands, slide show) ──opens, steps, deletes──► Doc ──listing, selection──► FileList (panel)
        │  ▲ WM_APP_SLIDESHOW_RESET_TIMER                     │ │
        │  └──────────── user navigates ──────────────────────┘ └─onFileOpened, onFrameUpdate──► ImageView
        │                                                       │
        └─ SlideShowDlg, ConnectDlg, Config, RecentFiles        ▼ unifs::FileSystem, unifs::File
                                                    local disk  or  RemoteFs/RemoteFile ──send_request()──► RemoteConn ──► server
```

| Component (code) | State it keeps | Operations | What makes it hard | What makes it correct | Model |
|---|---|---|---|---|---|
| **Remote connection** `unifs/remote_conn.*` | `pending_` (promises by request id), `write_queue_`, `writing_`, `connected_`, timer, socket | `send_request()` from any thread; handlers on the IO thread; heartbeat; destructor | callers, handlers, timeouts, link failure and teardown interleave; ids are recycled | each request is answered once, with its own answer, or fails; losing the link wakes every caller; one writer, one reader, one heartbeat; teardown ends | `RemoteConn` |
| **Document** `obZrv/Doc.*` | `_image`, `_unifs`, `_path`, `_dir`, `_dirfiles`, `_diridx`, `_curFile`, `_prevFile` | `open()` with fallback, reconnect and rescan; `navigate()`, `refreshDir()`, `removeCurrentFile()` | up to four I/O calls in one `open()`, each of which can fail, reconnect or find another disk; a modal Shell dialog inside a delete | what is shown is what path and file system say; Delete removes the file on display and moves on; every `open()` ends | `Doc` |
| **File list panel** `obZrv/FileList.*` | rows of the list view, selected row | `rebuild()`, `smoothRebuild()`, `moveSelection()`, `removeItem()`, click | the rows are patched by position, never refilled | the rows are the listing and the selection is the current file | `FileList`, in `Doc` |
| **Slide show** `obZrv/MainWnd.cpp` 688-960 | `m_slideShow*`: list, index, round, options, timer, full screen, opening flag | start, stop, tick, advance, step, shuffle, sync to the user's navigation | a failed `open()` may put up a message box during which the timer enters the advance again | the show keeps its timer and its place, ends when it should, and every call returns | `SlideShow` |
| **Image view** `obZrv/ImageView.*` | zoom type and level, scaled size, crop, offset, drag, cached bitmap, window size | open, animation frame, zoom, zoom modes, fit window, pan, zoom drag, resize, paint | handlers work on numbers only a later paint brings up to date; two buttons at once | what is painted is current and covers the view; the window stays on the monitor | `ImageView` |
| **Animation** `Doc.cpp` 447-543, codecs' `nextFrame()` | `_tmstart`, `_totaldelay`, `_curframe`, `_curloop`, timer; the codec's own position | tick, restart, end of the rounds | a clock that wraps, ticks that come late, frames without delay | frames keep to their schedule; a finite animation stops on its last frame, an endless one goes on | `Animate` |
| **Remote files** `unifs/remote_fs.*`, `remote_file.*` | connection, handle, position, last status | open, read in chunks, seek, tell, close, list, remove, reconnect | short reads, lost connections, handles of a connection that is gone | a read returns the file or fails; nothing of an old connection is used on a new one | `Files`; listing and removal as outcomes in `Doc` |
| **Local files** `unifs/win_fs.*`, `nix_fs.*`, `local_file.*`, `win_path.hpp` | a `FILE*` or a directory handle | single calls into the C library or the system | other programs write the same files | – | the disk in `Files`; outcomes in `Doc` |
| **Obfuscated files** `ZDataFile.hpp` | state of a generator, kept in step with the file position | read, seek (jump by squaring) | a seek that fails half-way, reads cut short | decoding does not depend on how a position was reached | `ZData`, in `Files` |
| **Loading and saving** `Doc::open()` Step 2, `saveAsLocal()`, `filetype.*`, `GdiPlusCodec`'s and `WebpCodec`'s reading of a file | position and bytes read so far | try the codec of the extension, find the type, try again; copy in blocks | many requests for one image, each of which may fail unseen | an image is made of all of its file's bytes; a saved copy is what was read | `Files` |
| **Connect dialog** `ConnectDlg.*` | file system, directory shown, its entries, history | connect, browse, accept, cancel | connecting a second time; a listing that fails; a file system shared with the document | what it returns is a file of the server it returns; the document is left alone | `ConnectDlg`; the history in `Settings` |
| **Recent files** `RecentFileRegistry.*` | newest-first list | add, load, save | saved key by key, by several instances of the program | no duplicates, bounded, newest first, survives a restart and a crash | `Settings` |
| **Configuration** `config.*` | two ini files, one of which is written | get, set | the file that is read first may not be the one that is written | what was set is read back | `Settings` |
| **Main window** `MainWnd.*` without the slide show | enabled buttons, placement, menus | dispatch of commands, drag and drop, save and restore the placement | the button state is pushed, not derived; monitors change between runs | the window comes back on the screen | placement in `Settings`, file commands in `Files` |
| **Codecs** `Codec.h`, the decoding half of `GdiPlusCodec.*`, `WebpCodec.*` | decoded frames | decode, next frame | – | – | outcomes; `nextFrame()` in `Animate` |
| **Slide show dialog** `SlideShowDlg.*` | the custom list being edited | add, remove, move a selection | – | moving keeps the items and their order | no: its result is a constant of `SlideShow` |
| **Main view** `MainView.*` | splitter position, drag | layout, drag, hover | – | splitter within bounds | no |
| **Window shell** `App`, `main`, `WndBase`, `Menu`, `StatusBar`, `Toolbar`, `dpi`, `strutil` | handles | wrappers of Win32 | – | – | no |
| **Third party** asio, libwebp, `BasicBitmap` | – | – | – | – | no; what asio does with handlers, timers and sockets is modelled as external in `RemoteConn` |

`PROJECT.json` lists the hazards of this code, each at its line and with the properties that would notice it.

## 2. The modules

| Module | What it is |
|---|---|
| `RemoteConn` | the connection: threads in `send_request()`, IO thread, heartbeat, destructor, external server and link |
| `RequestReply` | the abstract specification: what a connection promises its callers, without queue, id or thread |
| `RemoteConnProofs` | theorems about `RemoteConn`, and that it implements `RequestReply` |
| `FileList` | the panel's rows as pure operators |
| `Doc` | the document; EXTENDS `FileList` and composes it, the disk, the server and the Shell |
| `DocProofs` | theorems about `Doc` |
| `SlideShow` | the slide show; the document is a path and whether there is a file system |
| `SlideShowProofs` | theorems about `SlideShow` |
| `ImageView` | the image view; the document is the current image |
| `ImageViewProofs` | theorems about `ImageView` |
| `Animate` | the animation of the image on display, with the codecs' frame counters |
| `AnimateProofs` | theorems about `Animate` |
| `ZData` | the generator of the obfuscated files: steps, jumps, decoding |
| `Files` | the requests behind loading and saving; EXTENDS `ZData` |
| `ConnectDlg` | the connect dialog; EXTENDS `Files` and composes it with the document's load |
| `FilesProofs` | what every step of `Files` keeps, and the lemmas about numbers, the generator and bytes it takes |
| `SessionProofs` | theorems about `ConnectDlg` over `Files` |
| `Settings` | ini files, recent files, address history, placement, in several instances of the program |
| `SettingsProofs` | theorems about what the lists hold, a kill within a save, the recent files, the address history, the placement |
| `MC...` | the instances TLC checks |

Indices are counted from 1; 0 stands for the code's −1. Definitions commented "Fault" are not part of any
specification: each is a plausible slip in the definition it precedes, and the run of the property it is aimed at is
known to fail when it takes that definition's place.

### RemoteConn

A call of `send_request()` goes through *Register* (lines 83-92: the check of `connected_`, the id and the insert
into `pending_` under one mutex) or *Refuse*, *Submit* (the frame goes into the queue), and *Return* or *Timeout*
(line 103 on). A handler of the IO thread is one action, because each enters at most one critical section and touches
nothing else that is shared; the write completion enters two, so `io = "do_write"` is the point between them. `ops`
counts the asynchronous operations of the `io_context` by kind: closures that were posted, operations in progress,
and completions whose handler is ready. asio promises no order among ready handlers, so any may run next.

The environment may complete a write, fail it, let a header, a payload or garbage arrive, fail a read once the link is
gone, let the timer expire, and take the peer away. The server answers a frame at most once and in any order.
Frames carry the call they belong to as a ghost, so that "its own answer" can be said at all. `SlowWrap` is the
assumption that an id is free when its turn comes round again.

`RequestReply` has five operations per call (ask, refuse, answer, report, give up) and one for the loss of the
connection, which fails every open request in one step. The refinement mapping is in `RemoteConn` (`Abstract`): a
request is open while its future is unset, `up` is `connected_`.

Left out: `connect()` up to the start of the IO thread (it is the initial state), and the contents of frames.

### Doc and FileList

`open()` is the handler nearly everything goes through. `call` is its activation record, and `call.at` names the I/O
call it makes next: `openfile()` (Step 1), `readdir()` and `openfile()` of the fallback, `readdir()` of the forced
rescan (Step 3). Each I/O call is one action, up to the next one, so other programs may change the disk in between.
Each has its outcomes: success, failure, loss of the connection with a reconnect that succeeds (once per
`open()`) or fails (`clearOpenState()`). Decoding, closing the previous image, the lookup of the index and the update
of the panel (Steps 2 to 4) are parts of the action whose I/O precedes them.

The user opens a file, navigates, clicks a row, refreshes or deletes. A local delete goes through the Shell, whose
dialog pumps messages: *DeleteLocal* enters it, *DeleteLocalDone*, *-Fails* or *-Aborted* leaves it, and the slide
show's timer may run a whole `open()` between the two. *DeleteDies* is a delete while there is an index and no file
system, which an `open()` leaves behind that finds nothing but files it cannot open (line 585: the null pointer is taken
for a server and dereferenced). `Faults` and `Shows` say what may go wrong in an instance.
`travel` is a ghost: the other file that was displayed just before this one, which is what `_prevFile` is meant to be.

`FileList` has the four update operations of the panel as operators on rows and selection, with what the Win32 list
view does with a position that is not there. `smoothRebuild()` is a recursive function of the merge step.

Left out of `Doc`: the animation (module `Animate`), the single requests of an I/O call and `saveAsLocal()` (module
`Files`), `initCodec()`, window titles. The names of a directory are a finite set with a place (`Key`) in
`StrCmpLogicalW` order; two names that differ only in case share a place, and `std::sort` may put them either way.

### SlideShow

`stack` is the call stack of the UI thread: calls of `StartSlideShow()` and of `AdvanceSlideShow()` with the attempts
left to each. A call is at `open()`, waiting in a message box, or at `StepSlideShowIndex()`. The timer is an own
action that leaves a `WM_TIMER` waiting; `KillTimer()` does not remove one that waits already. While a box is up
messages are dispatched, and a tick pushes another call. The user acts only when the stack is empty, since a message
box disables the window. From `Doc` it takes: `open()` succeeds with some file of the folder, fails without a box, or
fails with a box after it has cleared the document.

### ImageView

Handlers compute levels, offsets and window placements and invalidate the window (`dirty`); `Paint` derives the fitted
level, the scaled size, the crop and the offset and makes the bitmap it draws, or keeps it. `bitmap` records what it
was made from. Input messages come before `WM_PAINT`, so several handlers may run between paints; `WM_TIMER` comes
after it, hence the guard of *FrameUpdate*. All divisions are the code's integer divisions, rounding towards zero.

Abstractions: the window is on its monitor at the start and is never so small that the view is empty (the code does
not paint a minimized window); integers are unbounded; the exponential of a zoom drag is replaced by any level on the
side the mouse went to, or by 1 % for an upward drag so long that its power is no `int` any more (`ImageView.cpp:807`);
the pixels and the status line are left out.

### Animate

`onAnimate()` is a timer callback that sets its timer anew. *Tick* is its beginning: the clock moves on to the time the
timer was set for, a little before or after it (`Slips`) or long after (`Delays`, at most `MaxLate` times), the start
time is set back if the clock seems to have wrapped, and *Decide* restarts, waits or goes on. Each turn of the loop that
skips frames is then an action, *NextFrame* or *LastFrame*, because whether that loop ends is one of the questions;
*Finish* leaves it and sets the timer. `due` is `_tmstart + _totaldelay`, the only way the code uses the two together;
`_totaldelay` alone (`total`) matters for the restart and is exact up to `Horizon`. `pos` is the codec's counter,
`frame` is Doc's. The unit of time is 10 ms, the shortest timer of Windows.

Two branches of the code are never taken and have no action: the check of the rounds at the start of a tick (a timer is
only set while rounds are left) and "only one effective frame" (a codec that counts more than one frame has them, and
the two counters agree); both rest on *Counting* of `AnimateProofs`. `Stuck` names the one place the loop does not
leave: a restart (`reset`) onto a first frame without delay. Left out: frames that cannot be decoded.

### ZData, Files and ConnectDlg

`Files` takes apart what `Doc` has as one outcome each: the requests behind a load and a save. Every request to a
server and every call into the C library is one action; it may succeed, fail, or take the connection with it
(`Replies`), and a read may bring less than there is (`Reads`). Between any two of them another program may write the
file that is read or the one that is written. `call` is the activation record of `Doc::open()` or `saveAsLocal()`, and
`call.at` its next request:

| `call.at` | Code | Actions |
|---|---|---|
| `open`, `reconnect` | Step 1 of `open()` with `reconnectRemoteOnce()`; `openfile()` of `saveAsLocal()` | *Opens*, *OpenFails*, *Reconnects*, *ReconnectFails* |
| `opened`, `rewind` | `close()`, the `ZDataFile` around the file, the seek before a codec | *Opened*, *Rewinds* |
| `end`, `size`, `begin`, `read`, `decode` | `readFromUniFile()` and the codec's verdict | *SeeksEnd*, *TellsSize*, *SeeksBegin*, *ReadsChunk*, *Shows*, *DecodeFails* |
| `tell`, `look`, `peek`, `back` | `filetype()` after the codec of the extension has refused | *Tells*, *Looks*, *Peeks*, *GoesBack* |
| `rescan` | `readdir()` of Step 3, with the one reconnect that is left | *Rescans* |
| `create`, `copy`, `write`, `flush` | `saveAsLocal()` | *Creates*, *Copies*, *Writes*, *Flushes* |
| `close` | the `UniFile`s and the last references go | *Closes* |

`fsys` has the server and the connection of each `RemoteFs`, `up` the connections that live, `src` what the server keeps
for an open handle, `uf` the client's file: its connection, and the generator's state when a `ZDataFile` is around it.
The difference between `src` and `uf` is the point: a handle is good only on the connection that returned it, and the
generator must be where the server's position is. A byte is one bit, since xor treats each bit alone, and the generator
works on a shorter word with the code's multiplier: its low bits do not depend on its high ones. The instance checks
the jump (`SeedAfter`, whose `Turn` is one turn of the loop of `seedAfter()`) against the steps for every position up to
`MaxLen`; `JumpsAreSteps` proves it for all.

`ConnectDlg` adds the modal dialog in which a document's next file may be chosen: *Show* on the document's own file
system or on none, *Connect*, *Navigate*, *Enter*, *GoUp*, *Choose* (which starts the load of `Files`), *Cancel*. The
main window's commands wait while it is up; the disk does not. What the two modules leave out: the fallback to another
file (`Doc`), writing to a server, which nothing calls, the order of the listing and the bytes of the messages.

### Settings

`ini` holds the two ini files key by key, and `prog` one record per instance of the program: which file it writes, its
recent files, the keys it has yet to write (`todo`), its window. *Start* reads everything; *AddRecent* and *Connected* put
an entry first and compute the whole list of keys; *Write* writes the next key; *Kill* may come between any two;
*Quit* saves the placement. Reading looks into the exe's file first, whichever file is written (`Get`). `Clamp` is
`ClampWindowRectToNearestWorkArea()` axis by axis. The ghost fields `log`, `before`, `saved` and `alone` remember what the
user opened, what was loadable before the last save, and whether another instance has written since.

## 3. The runs

| Run | Instance and bounds | What it shows |
|---|---|---|
| `remoteconn` | 2 calls, 2 ids, `MaxQueue` 1, `SlowWrap`, `CallerSpec` | no promise is lost, set twice or kept past a disconnect; one writer, whose frame stays at the front, and no stalled queue; one reader and one heartbeat; the connection implements `RequestReply`; once the link is gone every caller returns without its own 60 seconds |
| `remoteconn_teardown` | 1 call, `FairSpec` | finding 1 |
| `doc_calm` | a server folder of four names, a local folder of the same name with one of them, a local file that cannot be decoded, `Faults = {link, scan}`, `MaxRows` 4 | Delete hits the file on display and goes on in the direction of travel; the fallback takes the nearest file; the panel follows |
| `doc_faults` | one local and two remote files, one undecodable, every fault at once, a custom slide show, `MaxRows` 2, `FairSpec` | the document stays well formed, shows what its path says, and every `open()` ends |
| `doc_custom_show` | two local folders that share a name, a custom show | finding 2 |
| `animate` | frames of 30 and 40 ms without end and for two rounds; two rounds with frames without delay at both ends and in the middle, and two that begin with a delay; no delay at all, without end and for one round; a clock of 150 units that starts anywhere; timers 1 unit early, exact or 20 late, one tick 60 late; `FairSpec` | the frame shown is the one the schedule asks for, through every wrap of the clock; the counters agree, and the animation stops on the last frame of the last round and nowhere else; a tick returns unless it is stuck, which finding 4 is about; rounds end and endless animations go on |
| `animate_hang` | the endless animation without any delay alone; every timer exact, none late; `FairSpec` | finding 4 |
| `slideshow` | a folder of two of three files, a custom list with a file twice, `MaxRounds` 2, `MaxBoxes` 2, `MaxVisits` 2, `FairSpec` | the show never stalls, keeps its place and the full screen, opens nothing once stopped; calls return; counted shows end |
| `image_view` | images of 13×5 and 3×4 on a work area of 10×6, two frames, two mouse points, `MaxInputs` 5 | what is painted is current, covers the view, hides no offset and leaves a level to zoom from; fitting stays on the monitor; zooming goes the right way |
| `settings` | two instances, two local files and a remote one that shares a path with a local one, two addresses, lists of two, `MaxStarts` 2, `MaxAdds` 3, two monitors, one smaller than the least window | lists come back as they were saved; a kill spoils one entry; addresses are kept; the window comes back on the screen |
| `session` | two servers and the disk; a file whose name tells the right type on the disk and the wrong one on a server, an obfuscated one, files of three bytes read in chunks of two, `MaxCalls` 2, `MaxEdits` 1, a generator of 15 bits, `MaxLen` 40 | an image comes from all of its file's bytes and is shown if nothing fails; handle, position and generator stay together; a copy is what was read; calls return; the dialog gives what is there |
| `save_onto_itself` | the same | finding 3 |

**Why the bounds are enough.** *RemoteConn*: two outstanding calls already show every order of answers, and the
counter wraps after the second; what happens when an id is handed out again is in the theorems, which hold for any
number of calls and ids (the refinement with `SlowWrap`, the rest without); a heartbeat behind one frame shows the
queue in every relation of one frame to another, and `MaxQueue` only keeps the heartbeat from filling a queue nobody
drains. *Doc*: four names give a fallback with neighbours on both sides and at both ends; two file systems give every
change between them; the local folder of the server's name is there for an index to be mistaken in, and the broken
file to leave an `open()` half-way. `MaxRows` matters only for a panel whose rows have gone wrong (after a failed
decode, see section 7), where each merge may add to them. Of the slide shows `doc_faults` runs the custom one; the folder show, whose
calls of `open()` are of the same form, is in the theorems for every `Shows`. *SlideShow*: `MaxBoxes` 2 lets a call be
nested in a nested call, after which the outer ones see nothing new; two visits let the user start a show over another,
or navigate in one. *ImageView*: one image is larger than the monitor in one direction only and the other fits, so each
axis meets each case; five inputs are enough for open, press, move, release and one surprise in any place. *Animate*:
the clock's period (150 units against 2^32 ms) is longer than any delay, tolerance (`Patience` 10 for the code's second)
or lateness, which is all its length is for, and short enough to wrap many times between the start and the point where
`due` repeats. *Files*: three bytes in chunks of two are a full chunk and a short one, so a read may end early in either; the
second call starts on whatever the first has left, a document or none, on any file system; one edit at any moment is
the only one the properties can tell apart, since after it they promise nothing about the bytes; 15 bits are the
mask's bit with 8 below and 6 above it, so that neighbouring positions differ in the mask and no state repeats within `MaxLen`. *Settings*: three
additions to lists of two push an entry out, repeat one and collide across instances; two starts are two instances at
once, or a restart after an end or a kill.

**Deadlock** is checked in the `Doc` runs. It is not in those of `RemoteConn` (all calls done and the object destroyed
is the end), `SlideShow` (the user has no visits left and no show runs), `ImageView` (inputs are bounded, and a
process may have died), `Animate` (an animation that is over has no timer), `Settings` (no start is left) and
`ConnectDlg` (no call is left).

**Fairness.** *RemoteConn*: `io_context::run()` serves its queue in turn, so a handler that is ready again and again
runs (SF, because `io` is busy for a step after each `pop_front()`); the second half of a handler runs (WF); a thread
goes on once its future is set; `join()` returns once `run()` has; the kernel fails what is outstanding on a dead or
closed socket; time passes for the heartbeat. Nothing is assumed of the server, of a working link, of the 60 seconds
of `wait_for()` or of a caller that has not begun. *Doc*: WF of the next step of `open()`, which is
straight-line code of one thread. *SlideShow*: a call that is not waiting goes on, a set timer fires, waiting messages
are dispatched (WF each), and the user closes a box that he sees again and again, at every depth of nesting (SF: the
box on top changes as nested calls come and go). *Animate*: WF of the next step: a set timer fires, and a tick runs on.
That ticks are not late for ever is not assumed but a premise of `RoundsEnd` and `GoesOn`, the halves of `PlaysOn`.
*Files*: WF of the next request of a call: each is answered, fails or times out, which is what `RemoteConn` promises its
callers (`NoStrandedCaller`, and `wait_for()` on a link that does not fail), and the C library returns.

## 4. Findings

Each is a run whose property TLC refutes; the property is what a comment of the code promises.

1. **Teardown may wait for ever** (`remoteconn_teardown`; `remote_conn.cpp:243`). The heartbeat handler re-arms the
   timer without looking at `connected_`. If the wait has expired by the time the destructor's closure cancels it, the
   cancel is too late, and if a failed write has left `writing_` set (line 148), no later write fails and cancels the
   timer. `run()` then never runs out of work and `join()` (line 27) never returns. A narrow race.
2. **A custom slide show misleads Delete** (`doc_custom_show`; `obZrv/Doc.cpp:337`). A custom show opens a file of
   another folder without a rescan; Step 3 compares bare names with the old listing. A file of the same name gets the
   index, and `removeCurrentFile()` deletes that one. `Doc.h:58`: "Delete the currently displayed file".
3. **A file that is saved over itself is lost** (`save_onto_itself`; `obZrv/Doc.cpp:562`). `saveAsLocal()` opens the
   source and then the destination with `"wb"`. If Save As names the local file on display (the dialog asks before it
   overwrites), that empties it before its first byte is read; the loop ends at once and the call reports success.
   `Doc.h:72`: "Save the currently opened file bytes to a local filesystem path."
4. **A tick of an animation may never return** (`animate_hang`; `obZrv/Doc.cpp:511`). A tick that restarts the animation
   sets `reset`, and nothing clears it in the loop of lines 487-525. If the first frame has no delay, every turn takes
   it again (`nextFrame(true)`), `_totaldelay` stays 0, no round is counted, and the UI thread hangs. It takes a first
   frame without delay and a first tick more than a second late; or just an endless WebP none of whose frames has a
   delay: lines 513-519 are to stop it and set `_curloop` to -1, but that is below every number of loops, so the timer goes
   on, and after a second of ticks at which `_totaldelay` has not moved the restart comes by itself. `Doc.cpp:515`: "all
   frames 0-delay -- stick on frame 0". TLC's counterexample ends in stuttering, as the turn of the loop
   changes nothing any more; `StuckStays` (section 5) proves that it stays there.

## 5. The proofs

TLC's results are about small instances. The following are proved by TLAPS for every value of the constants that
satisfies the `ASSUME`s of the modules (which TLC evaluates on every run).

**RemoteConn.** `TypeCorrect` is `Spec => []TypeOK`. It is proved together with `WriteChainHolds`, since neither invariant
is inductive alone: the type of the queue after `pop_front()` needs a frame at the front, and that needs that no second
chain pops the frame the first one is writing. *TableInv* = `DisconnectedIsDrained /\ NoLostPromise /\ PromisesSetOnce /\
StartIsNew`: `StartIsNew` says that a call that has not registered has no future, which is why *Register* stores a
promise that is nowhere else. It gives `PendingComplete` and `PromisesSetAtMostOnce`. *Watch* = `LinkWatched /\
ShutdownLast` gives `LinkAlwaysWatched`: a timer of a live connection can only be cancelled together with `connected_` or
by the destructor's closure, which exists only when the destructor has begun. All of them hold with and without
`SlowWrap`: when an id is handed out that is still in use, the old promise is broken, and a broken future is no longer
unset.

**The refinement.** `ConnectionImplements` is `ASSUME SlowWrap PROVE Spec => ImplementsRequestReply`. Beside the above it
needs two strengthenings. *CallInv*: an unset future is one that `pending_` still holds, also after its caller has given
up, and nobody was told anything before he returned; so the drain of `on_disconnect()` fails exactly the open requests.
*FrameInv*: while the connection lives, a frame that may still be answered (waiting in the queue and not written, with
the server, in `header_buf_`, or about to be queued) finds the promise of its own call under its id, and no other frame
has that id. The second half is what makes the first inductive: when an answer clears an entry, nothing is left that
could be taken for the answer to the next owner of the id. A written frame that is not popped yet must not count, as its
answer may be read before the write handler runs. *Refuse*, *Register*, *Return*, *Timeout*, `complete_response()` and
`on_disconnect()` then map to the six operations of `RequestReply`, and every other step to a stutter.

**Doc.** `DisplayIsConsistent` (`DisplayedIsPath`) and `DocTypeCorrect` (`DocType`: in particular `_diridx`, which the
code uses unchecked, stays within `_dirfiles`) hold under every fault and slide show. `DeleteIsSafe` is
`ASSUME Calm PROVE Spec => []DeleteTargetsDisplayed`; *Calm* says that files that exist can be opened, though perhaps not
decoded, no two names of a directory differ only in case, a connection is lost at most once in an `open()`, nobody
changes the disk during one and no slide show runs. The strengthening *OnTarget* = `DocType /\ IndexShown /\ StepShown`
follows an `open()` step by step: at Step 1 the index is still that of the image; a plain `open()` stays in its
directory; the fallback's file exists and its directory is the one listed; when a rescan is due the image is the
requested file. An `open()` that ends in a failed decode must have dropped the index, as the image is gone and the
listing may be of another folder. That an assumption of *Calm* is needed is what `doc_custom_show` shows for the slide
show.

`FallbackTakesNearest` is `FallbackIsNearest` without *Calm*: `NearestIndex` in a sorted listing separates what is before
the missing file from what is after it, whatever is listed. `DeleteGoesOn` is the action property `DeleteMovesOn` under
*Calm*. Its first half is that the deleted file is gone from the disk until the `open()` that follows has ended, so that
`open()` cannot show it again (*GoneIsGone*), and the file the fallback takes instead is there, so that it does not end
with the old image either. Its second half is the direction: if the file displayed before was of the same directory,
the next one is the neighbour on the other side of the deleted one, when there is one. That needs to know what
`_curFile` and `_prevFile` are through opens, refreshes and failed opens (*Journey*): while an image is on display it is
`_curFile`, in the directory of the document or, during an `open()`, in the one that was left, and `_prevFile` is `travel` if
that is of the same directory; and that listings are in order (*Rising*), so that the next index is the neighbour
(`NextIsOnward`).

**FileList.** `smoothRebuild()` patches rows by position, so what it leaves depends on what was there.
`SmoothRebuildShows`: if the rows were the old listing, they are the new one afterwards, for any two listings, sorted or not,
if no two names share a place. *Halves* is the invariant of the merge: the rows before `lv_idx` are the new listing's, the
others are what is left of the old one. Without that premise it still keeps the selected row within the rows
(`DocAndPanelTypeCorrect`, `Doc`'s whole `TypeOK`, under every fault). `PanelFollows` is
`ASSUME Calm, Decodes PROVE Spec => []ListFollowsDoc`, where *Decodes* says that what can be opened can be decoded (see
section 7 for what a failed decode leaves of the panel); *Followed* says where rows and selection stand at each point of an
`open()`: a click has moved the selection before the file is open, and from the fallback or the rescan on
the rows are those of the listing that `open()` has put aside. `Merges` is a recursive function on Nat; that it exists
comes from the `Recursion` lemma described under *ZData*.

**SlideShow.** *ShowInv* = `TypeOK /\ ShowSound`, where `ShowSound` adds to the checked invariants that a show has
files exactly while it runs, and a timer only then. It gives `ShowTypeCorrect`, `ShowStaysIntact` and the action
property `ShowStoppedOpensNothing`, for any lists and any depth of nested calls.

**Animate.** *Inv* = `TypeOK /\ Counting`. `Counting` relates the two counters, the timer and the rounds wherever a tick
may stand: in the loop the codec is at a frame, no timer is set and rounds are left; elsewhere the counters agree, and
the codec has run out of frames exactly when the rounds are over. It gives `AnimationTypeCorrect` and
`CountsAlwaysAgree`, for any delays and rounds and however late the ticks are. `StuckStays` is about the loop of a tick:
once it is `Stuck` it stays so, hence what `TickReturns` leaves out is just what does not return. It needs *NoEmptyRound*: no
round is counted before a frame with a delay was shown, so the stop for animations without any delay is not
reached. `ScheduleIsKept` is
`ASSUME InTime PROVE Spec => []OnSchedule`; *InTime* (an `ASSUME` of `MCAnimate`, so TLC evaluates it) says of the timers
that are not late that they are at most 10 ms early and no later than the code's own limit, and that a frame is shorter
than a period of the clock. *Scheduled* says where the schedule is at each point of a tick, and between ticks
that the timer is set for the end of the frame (*Aimed*); only right after the clock wrapped within a tick it is set
early. `UnwrappedTo` is the arithmetic of the wrap: the schedule is set back by exactly as much as the clock.

**ImageView.** `ViewTypeCorrect` needs the arithmetic of the zoom: a scaled side is never 0 (`ScaledPositive`), and a
window that is fitted to an image never loses its client area (*Fit*), whatever the monitor. `WindowKeptOnScreen` is the
action property `FitStaysOnScreen`; it rests on `PlacedOnMonitor`, the two corrections of an edge in the order of the
code. `ScreenIsCurrent` and `ViewIsSettled` come from *ScreenInv* = `ShownIsThis /\ FreshIsSettled`: whenever a bitmap is
kept, size and part are those it was made from: a handler that changes them drops it, also when several inputs come
without a paint between them; and whatever the last paint computed for the present window stays settled until something
asks for another. `FitsInView` and `CropCovers` are the facts about the fitted level and the part in view, for images
and windows of any size. `ZoomGoesThatWay` is the action property `ZoomDirection`: what no input has disturbed
since the last paint is the size and the level that a paint would compute (*FreshIsComputed*), and `UpFromFit` and
`DownFromFit` are the arithmetic of a fitted side and the rounded other one.

**Settings.** `WindowStaysOnScreen`: `ClampInside` shows for any integers that the four corrections of the clamping do
not undo each other, also on a work area smaller than the least window; *PlaceInv* says that the keys a list
has yet to write are never the placement's, so that what is read back as a place is one that *Quit* wrote.

`ListsStayTyped`: *Types* holds whatever was killed wherever, since every key holds a value of its kind and `Load` takes
only slots with a type and a path. That `InOrder(S)` lists a finite set of numbers upwards, and that only one list
does, is induction over a set of numbers (`Induction`, as under ZData); what `Sift`, `Without` and `MoveToFront` return
follows from it. `OneEntryTorn` rests on *Saving*: from *AddRecent* on, and until another instance writes, there is a d
such that the first d keys are the list's in the file, the others wait in `todo`, and a slot none of whose keys is
written yet is as it was when the save began; only the slot in which d falls can be torn. With d at its end the file has
the whole list, which is the second half of `RecentFilesKept`; the first is *NewestKept*, for which `Add()` on the list
that was cut to its room and on all that was ever opened must agree at the top (`StaysOnTop`, `WithoutAgree`).
`HistoryKept` needs to know how far `SaveHistory()` got: *History* says that, while no two instances wrote at once and
into one file only, either nobody writes addresses and the files have those that were asked for, or one instance
has written the first d of them and holds the others. *FirstFirst* says that the first key is written first and never
Empty, so a file in which it is Empty has no addresses at all, and what is read at the next *Connected* is not
half a list.

**ZData.** `JumpsAreSteps`: `seedAfter()` gives for every count the state that as many steps of the loop in `read()`
give, for any multiplier, increment and word. The library states induction with an operator as parameter, which the
provers cannot instantiate; over a *set* of numbers it follows from `NatLessThanWellFounded` and `WFMin` (`Induction`),
and so does the existence of a function defined by recursion (`Recursion`). *OnTheWay* is the loop's invariant: `acc`
is the map of the d steps whose bits are done, `(mul, add)` that of p steps, and d + count * p is the position.

**Files.** *FilesInv* is inductive with one lemma per action of `Files` (`RewindsInv`, `ReadsChunkInv`, ...):
*Stands* and *FileRead* say what is open at which point of a call and that a handle is known exactly as long as its
connection lives; *InStep* that before bytes are decoded the generator is at the position of the file; *BytesLoaded*
that what was read is the beginning of the text (`ReadsOn`: decoding a part with the state of its position gives that
part of the text, so it does not matter how a server cuts the file up); *Attempts* and *Healthy* which codec is tried
when, and that without a failure the second attempt has the one that fits; *BytesSaved* that a copy is the
beginning of the file and the buffer goes on from there. Other programs may write at any time; the conjuncts about bytes
then have nothing more to say about the call.

**ConnectDlg over Files.** `SessionProofs` takes these to the reachable states: between two calls nothing is open, so
whatever the dialog does to connections is harmless, and a call begins with a stored file. Hence `SessionTyped`,
`LoadsAreRight`, `FilesAreInStep` and `SavesAreRead`, for any servers, paths, contents, chunk and buffer sizes.
`DialogIsSound` is the action property `DialogSound`. *DialogInv* says that while the dialog is up
no call runs, that it lists and lets the user choose only with a client that has a server, and that the files it shows
are files of that server (nobody deletes files in `Files`, so a listing stays true): connecting elsewhere empties the
list, and a failed listing leaves the old one with its server. *Sound* is the part about the documents and calls below.

**Only model-checked.** All liveness (`NoStrandedCaller`, `OpenReturns`, `CallsReturn`, `ShowEnds`, `TickReturns`,
`PlaysOn`, `CallReturns`): the prover does not handle fairness. Every safety property that a passing run checks is
the statement of a theorem.

## 6. What is not modelled

- Decoding, drawing, colours, wording, layout, icons, string conversion: no property is about them.
- Win32 and asio themselves. What the models assume of them: the order of input, paint and timer messages; which
  messages a modal dialog lets through; that a list view ignores a row that is not there; that `KillTimer()` leaves a
  posted `WM_TIMER`; that `cancel()` does not take back a completion that is due; that writing one key of an ini file is
  atomic.
- The server's own behaviour beyond answering, not answering, answering less, or sending garbage; the time anything takes.
  A server is taken to send no more than it was asked for (`Reads` of `Files`; `remote_file.cpp:62` goes by the length of
  the answer).
- How a value is written in an ini file: `Settings` reads back what it wrote. The code writes an ANSI file
  (`config.cpp:139`) and reads at most 511 characters (lines 63 and 120), so a path with other characters or a longer one
  comes back changed.
- The slide show's timer under the modal connect dialog, which dispatches it like any modal dialog: the show may open
  another file of the document while the user browses. `ConnectDlg` lets the main window start nothing while the dialog
  is up; what a show does under a modal dialog is modelled in `SlideShow` (message boxes) and `Doc` (the Shell's).
- `SlideShowDlg` (pure list moves whose result is a constant of `SlideShow`), the splitter of `MainView`, the menu and
  toolbar wrappers: single-message handlers on numbers nothing else reads.
- `connect()` before the IO thread exists, `RemoteFile::write()`, which nothing calls, and drag and drop, which ends in
  the same `OpenFile()`.
- The vendored libraries, which are most of the repository by size: of its 189 000 lines about 10 000 are the program's
  own (`obZrv/` without `BasicBitmap/`, and `unifs/`). asio is modelled where the program meets it (`RemoteConn`'s `ops`);
  `BasicBitmap` and libwebp are pure functions on pixels.

## 7. Plan

What would come next, in this order:

1. The enabled buttons of `MainWnd`, composed with `Doc`: `UpdateButtonStates()` runs when a file was opened, not when a
   failed `open()` clears the document (`MainWnd.cpp:1036`).
2. A slide show that rescans while the Shell's dialog of a delete is up leaves `delIdx` stale (`Doc.cpp:641`, the hazard
   without a property): `Doc` has the interleaving, a property about the row that is removed is missing.

Questions that came up while the models were written and that no run puts to the test. Whether they are defects is for
the authors to say.

- *Connection.* Request ids are recycled without a look at the table, so after 65535 requests within 60 seconds a
  promise may be overwritten (`remote_conn.cpp:91`; the model has it where `SlowWrap` is FALSE). A server whose path is
  longer than 16 bits can say (`remote_fs.cpp:60`).
- *Document.* When the file the fallback picked is there and cannot be opened, `_diridx` is already on it and the old image
  stays on display, so Delete removes a file that is not shown (`Doc.cpp:212`); `Doc` has it under the fault `locked`, and
  `DeleteTargetsDisplayed` is stated without it. A failed `open()` may leave an index and no file system, and Delete then
  dereferences a null pointer (`Doc.cpp:585`, *DeleteDies*). When the file the fallback picked cannot be decoded, the
  listing is new and the panel keeps its old rows (`Doc.cpp:285`); a failed decode also leaves the new file system with
  the old path, so that Save As may copy another file; after a failed decode a click on the row of the file before does
  nothing (`FileList.cpp:233`); `refreshDir()` makes the file its own predecessor, so the next delete forgets the direction of travel (`Doc.cpp:358`); a lost
  connection ends a copy as the end of the file does, and the copy is reported as saved (`Doc.cpp:568`).
- *Animation.* The restart after a tick that is too late sets `_tmstart` to now and keeps `_totaldelay`
  (`Doc.cpp:474-477`): the schedule is then ahead of the clock. The timer waits for five delays of the frame at most, so with a
  total of more than that the next tick takes the rest for a wrap and restarts again, and so does every later one: the
  picture stays on the first frame though no tick is late any more. `RoundsEnd` and `GoesOn` have ticks in time as their
  premise for that reason. A tick that comes early on a frame without delay is taken for a wrap (`Doc.cpp:466`).
- *View.* A zoom drag divides by `_fitlevel`, which is 0 until the first paint (`ImageView.cpp:779`, `dead` in the model;
  `ViewSettled` says that it is not 0 afterwards). A zoom key before the first paint starts from level 0
  (`ImageView.cpp:326`); a pan at a very high level overflows 32 bits (`ImageView.cpp:343`); a zoom drag on an image smaller
  than the view moves the clicked point (`ImageView.cpp:723`).
- *Slide show.* Message boxes of a show in an unreachable folder pile up (`MainWnd.cpp:285`).
- *Settings.* `config.h:30` sends the reader to the user's file if a key is absent; the code does so for an empty
  value as well (`config.cpp:102`), which `Settings` takes from the code. A second instance
  overwrites the recent files of the first, which it does not read again; with entries in both files the list of the
  exe's shows through (`config.cpp:101`).
