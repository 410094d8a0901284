----------------------------- MODULE ImageView -----------------------------
(***************************************************************************)
(* The image view (ImageView.cpp): zooming, panning and fitting the image  *)
(* to the window or the window to the image.                               *)
(*                                                                         *)
(* Handlers only change the numbers and invalidate the window ("dirty");   *)
(* OnPaint() derives from them the level of an automatic zoom, the size of *)
(* the scaled image and the part of it that is in view.  Input goes before *)
(* WM_PAINT, so several handlers may run on numbers that no paint has seen *)
(* yet; WM_TIMER comes after it.                                           *)
(*                                                                         *)
(* Sizes and points are functions of the axis.  Decoding, colours and the  *)
(* status line are left out, and so is the time it takes to scale.  The    *)
(* operators marked "Fault" are not part of the specification.             *)
(***************************************************************************)
EXTENDS Integers, FiniteSets

Axis == {"x", "y"}
Size == [Axis -> Nat]
Offset == [Axis -> Int]
Span == [lo : Int, hi : Int]

CONSTANTS
  Images,      \* the files that can be opened
  None,
  Dim,         \* the size of each image
  Work,        \* the work area of the monitor, a Span for each axis
  Chrome,      \* what the main window has around the view
  MinSize,     \* what fitWindow2Image() leaves of the view at least
  Frames,      \* where the user may put the main window
  Points,      \* where the mouse may be
  DragLevels,  \* the levels that dragging reaches (pow() is not modelled)
  Reach,       \* the levels that zoom() is followed to
  MaxInputs    \* the bound on files and input messages together

Extent(f) == [a \in Axis |-> f[a].hi - f[a].lo]
Inside(f) == [a \in Axis |-> Extent(f)[a] - Chrome[a]]
Room == Inside(Work)

ASSUME ImageViewAssumption ==
  /\ None \notin Images
  /\ Dim \in [Images -> [Axis -> Nat \ {0}]]
  /\ Work \in [Axis -> Span] /\ Chrome \in Size /\ MinSize \in [Axis -> Nat \ {0}]
  /\ Frames \subseteq [Axis -> Span]
  /\ \A f \in Frames \union {Work} : \A a \in Axis : Inside(f)[a] > 0
  /\ Points \subseteq Offset
  /\ DragLevels \subseteq 1 .. 10000 /\ Reach \subseteq Nat /\ MaxInputs \in Nat

\* ZT_W2I_... resize the window, ZT_I2W_... the image.
ZoomTypes == {"W2I_ZOOMOUT", "W2I", "I2W_ZOOMOUT", "I2W", "NOFIT"}
Levels == {1, 2, 3, 5, 7, 10, 15, 20, 30, 50, 70, 100, 150, 200, 300, 500, 700,
           1000, 2000, 3000, 5000, 7000, 10000}

VARIABLES
  image,      \* Doc::getImage(), by its file
  frame,      \* the main window
  maximized,  \* it is not shown normally
  zoomtype,   \* _zoomtype
  zoomlevel,  \* _zoomlevel, 0 for automatic
  fitlevel,   \* _fitlevel, 0 before the first paint
  scale,      \* _scaleSize
  crop,       \* _viewCrop
  offset,     \* _viewOffset
  laid,       \* _viewWndDim
  bitmap,     \* _viewBitmap, what a paint draws: what it was made from
  drag,       \* _isdragging, _dragType, _draggingOrigin, _draggingCur, ...
  dirty,      \* WM_PAINT is due
  dead,       \* the process has divided by zero
  inputs      \* files and input messages so far (a bound, not in the code)

window == <<frame, maximized>>
zoomed == <<zoomtype, zoomlevel, fitlevel>>
view   == <<scale, crop, offset>>
vars   == <<image, window, zoomed, view, laid, bitmap, drag, dirty, dead, inputs>>

NoSize == [a \in Axis |-> -1]
NoCrop == [a \in Axis |-> [lo |-> -1, hi |-> -1]]
Zero == [a \in Axis |-> 0]

Picture == [image : Images, scale : Offset, crop : [Axis -> Span]]
\* The origin; for a pan the position; for a DT_ZOOMDRAG the level at the
\* start and the point of the image that was clicked.
Drag == [type : {"pan", "zoom"}, origin : Points, cur : Points, level : Nat, click : Offset]

ASSUME NoneAssumption == None \notin Drag \union Picture

TypeOK ==
  /\ image \in Images \union {None}
  /\ frame \in [Axis -> Span] /\ maximized \in BOOLEAN
  /\ zoomtype \in ZoomTypes /\ zoomlevel \in Nat /\ fitlevel \in Nat
  /\ scale \in [Axis -> Nat \ {0}] \union {NoSize} /\ crop \in [Axis -> Span] /\ offset \in Offset
  /\ laid \in Offset
  /\ bitmap \in Picture \union {None}
  /\ drag \in Drag \union {None}
  /\ dirty \in BOOLEAN /\ dead \in BOOLEAN /\ inputs \in 0 .. MaxInputs

Init ==
  /\ image = None
  /\ frame \in Frames /\ maximized \in BOOLEAN
  /\ zoomtype \in ZoomTypes /\ zoomlevel = 0 /\ fitlevel = 0
  /\ scale = NoSize /\ crop = NoCrop /\ offset = Zero /\ laid = NoSize
  /\ bitmap = None /\ drag = None
  /\ dirty = TRUE /\ dead = FALSE /\ inputs = 0

client == IF maximized THEN Room ELSE Inside(frame)
Level == IF zoomlevel # 0 THEN zoomlevel ELSE fitlevel
W2I == {"W2I_ZOOMOUT", "W2I"}

Least(m, n) == IF m <= n THEN m ELSE n
Most(m, n) == IF m >= n THEN m ELSE n
\* C++ division rounds towards zero.
Quot(m, n) == IF m >= 0 THEN m \div n ELSE -((-m) \div n)
\* Fault: a thin image is scaled to nothing.
Scaled_Vanishes(d, level) == [a \in Axis |-> (d[a] * level) \div 100]

Scaled(d, level) == [a \in Axis |-> Most((d[a] * level) \div 100, 1)]

-----------------------------------------------------------------------------
(* fitWindow2Image(): the view gets the size the image asks for, the       *)
(* window grows or shrinks around its centre and is moved back onto the    *)
(* monitor.                                                                *)
Asked(d, type, level) ==
  IF level # 0 \/ type = "W2I"
  THEN [a \in Axis |-> Least(IF level # 0 THEN (d[a] * level) \div 100 ELSE d[a], Room[a])]
  ELSE IF d["x"] > Room["x"] /\ Room["x"] * d["y"] <= Room["y"] * d["x"]
  THEN [d EXCEPT !["x"] = Room["x"],
                 !["y"] = Least((Room["x"] * d["y"]) \div d["x"] + 1, Room["y"])]
  ELSE IF d["y"] > Room["y"] /\ Room["x"] * d["y"] >= Room["y"] * d["x"]
  THEN [d EXCEPT !["x"] = Least((Room["y"] * d["x"]) \div d["y"] + 1, Room["x"]),
                 !["y"] = Room["y"]]
  ELSE d

Wanted(d, type, level) ==
  [a \in Axis |-> Least(Most(Asked(d, type, level)[a], MinSize[a]), Room[a])]

\* Fault: the right and the lower edge of the monitor are not looked at.
Placed_OffRight(f, d, w) ==
  LET lo == f.lo - Quot(d, 2)
      hi == f.hi + (d - Quot(d, 2))
  IN  IF lo < w.lo THEN [lo |-> w.lo, hi |-> w.lo + (hi - lo)] ELSE [lo |-> lo, hi |-> hi]

Placed(f, d, w) ==
  LET lo == f.lo - Quot(d, 2)
      hi == f.hi + (d - Quot(d, 2))
      left == IF hi > w.hi THEN w.hi - (hi - lo) ELSE lo
      right == IF hi > w.hi THEN w.hi ELSE hi
  IN  IF left < w.lo THEN [lo |-> w.lo, hi |-> w.lo + (right - left)]
                     ELSE [lo |-> left, hi |-> right]

(* WM_SIZE comes before SetWindowPlacement() returns.                      *)
FitWindow(d, type, level) ==
  /\ frame' = IF maximized THEN frame
              ELSE [a \in Axis |->
                      LET grow == Wanted(d, type, level)[a] - client[a]
                      IN  IF grow = 0 THEN frame[a] ELSE Placed(frame[a], grow, Work[a])]
  /\ UNCHANGED maximized

\* WM_SIZE, if the view has got another size.
Sized == laid' = IF client' = client THEN laid ELSE NoSize

\* Fault: releaseBitmap() is forgotten.
Redraw_KeepsBitmap == dirty' = TRUE /\ UNCHANGED bitmap

\* releaseBitmap() and InvalidateRect().
Redraw == bitmap' = None /\ dirty' = TRUE

-----------------------------------------------------------------------------
Input == ~dead /\ inputs < MaxInputs /\ inputs' = inputs + 1

(* onFileOpened().                                                         *)
FileOpened ==
  /\ Input
  /\ \E i \in Images :
       /\ image' = i
       /\ IF zoomtype \in W2I THEN FitWindow(Dim[i], zoomtype, 0) ELSE UNCHANGED window
  /\ Sized
  /\ zoomlevel' = 0 /\ fitlevel' = 0
  /\ scale' = NoSize /\ crop' = NoCrop /\ offset' = Zero
  /\ Redraw
  /\ UNCHANGED <<zoomtype, drag, dead>>

(* Doc::close() without a new image; the view is not told.                 *)
ImageClosed ==
  /\ Input /\ image # None
  /\ image' = None
  /\ UNCHANGED <<window, zoomed, view, laid, bitmap, drag, dirty, dead>>

(* onFrameUpdate(), from the timer of an animation.                        *)
FrameUpdate ==
  /\ ~dead /\ image # None /\ ~dirty
  /\ bitmap' = [image |-> image, scale |-> scale, crop |-> crop]
  /\ dirty' = TRUE
  /\ UNCHANGED <<image, window, zoomed, view, laid, drag, dead, inputs>>

(* zoom() moves along its list of levels.                                  *)
\* Fault: lower_bound() in place of upper_bound().
Above_OrSame(level) == {l \in Levels : l >= level /\ \A m \in Levels : m >= level => l <= m}

Above(level) == {l \in Levels : l > level /\ \A m \in Levels : m > level => l <= m}
Below(level) == {l \in Levels : l < level /\ \A m \in Levels : m < level => l >= m}

ZoomTo(level) ==
  /\ Input
  /\ zoomlevel' = level
  /\ offset' = [a \in Axis |-> Quot(offset[a] * level, IF zoomlevel # 0 THEN zoomlevel ELSE 100)]
  /\ IF zoomtype \in W2I
     THEN FitWindow(Dim[image], zoomtype, level) /\ Sized
     ELSE laid' = NoSize /\ UNCHANGED window
  /\ Redraw
  /\ UNCHANGED <<image, zoomtype, fitlevel, scale, crop, drag, dead>>

ZoomIn ==
  /\ image # None
  /\ \E level \in Above(Level) \intersect Reach : ZoomTo(level)

ZoomOut ==
  /\ image # None
  /\ \E level \in Below(Level) \intersect Reach :
       /\ (Most(Dim[image]["x"], Dim[image]["y"]) * level) \div 100 >= 1
       /\ ZoomTo(level)

(* setZoomMode().                                                          *)
SetZoomMode(type) ==
  /\ Input
  /\ zoomtype' = type
  /\ zoomlevel' = 0 /\ fitlevel' = 0
  /\ scale' = NoSize /\ crop' = NoCrop /\ offset' = Zero /\ laid' = NoSize
  /\ IF image = None THEN UNCHANGED <<bitmap, dirty>> ELSE Redraw
  /\ IF image # None /\ type \in W2I THEN FitWindow(Dim[image], type, 0) ELSE UNCHANGED window
  /\ UNCHANGED <<image, drag, dead>>

(* The user moves, sizes or maximizes the main window.                     *)
Resize ==
  /\ Input
  /\ frame' \in Frames /\ maximized' \in BOOLEAN
  /\ Sized /\ dirty' = (dirty \/ client' # client)
  /\ UNCHANGED <<image, zoomed, view, bitmap, drag, dead>>

-----------------------------------------------------------------------------
(* The mouse buttons and the mouse.                                        *)
\* How far the part in view is from the left when it is the middle one.
Centre(s) == [a \in Axis |-> IF s[a] > client[a] THEN (s[a] - client[a]) \div 2 ELSE 0]

PressPan(p) ==
  /\ Input
  /\ drag' = [type |-> "pan", origin |-> p, cur |-> p, level |-> 0, click |-> Zero]
  /\ UNCHANGED <<image, window, zoomed, view, laid, bitmap, dirty, dead>>

\* WM_RBUTTONDOWN, and WM_LBUTTONDOWN with Ctrl.
PressZoom(p) ==
  /\ Input
  /\ IF Level = 0
     THEN dead' = TRUE /\ UNCHANGED drag
     ELSE /\ drag' = [type |-> "zoom", origin |-> p, cur |-> p, level |-> Level,
                      click |-> [a \in Axis |-> Quot((Centre(scale)[a] + offset[a] + p[a]) * 100, Level)]]
          /\ UNCHANGED dead
  /\ UNCHANGED <<image, window, zoomed, view, laid, bitmap, dirty>>

\* applyZoomDrag() and adjustViewOffsetForZoom().
DragTo(level) ==
  IF image = None \/ level = Level THEN UNCHANGED <<zoomed, view, laid>>
  ELSE /\ zoomlevel' = level
       /\ scale' = Scaled(Dim[image], level)
       /\ offset' = [a \in Axis |->
                       Quot(drag.click[a] * level, 100) - drag.origin[a] - Centre(scale')[a]]
       /\ laid' = NoSize
       /\ UNCHANGED <<zoomtype, fitlevel, crop>>

\* Up is towards 10000 %, down is towards 1 %.  A power that is no int any more
\* becomes the least one, and is clamped to 1 %.
Reached(p) ==
  {Least(drag.level, 10000)} \union
  {l \in DragLevels : \/ p["y"] < drag.origin["y"] /\ l > drag.level
                      \/ p["y"] > drag.origin["y"] /\ l < drag.level} \union
  {l \in {1} : p["y"] < drag.origin["y"]}

MouseMove(p) ==
  /\ Input /\ drag # None
  /\ IF drag.type = "zoom"
     THEN (\E level \in Reached(p) : DragTo(level)) /\ UNCHANGED drag
     ELSE drag' = [drag EXCEPT !.cur = p] /\ UNCHANGED <<zoomed, view, laid>>
  /\ Redraw
  /\ UNCHANGED <<image, window, dead>>

Moved(a) == IF drag # None /\ drag.type = "pan" THEN drag.cur[a] - drag.origin[a] ELSE 0

LeftUp ==
  /\ Input /\ drag # None
  /\ drag' = None
  /\ offset' = [a \in Axis |-> offset[a] - Moved(a)]
  /\ Redraw
  /\ UNCHANGED <<image, window, zoomed, scale, crop, laid, dead>>

\* What a pan has dragged is dropped.
RightUp ==
  /\ Input /\ drag # None
  /\ drag' = None
  /\ Redraw
  /\ UNCHANGED <<image, window, zoomed, view, laid, dead>>

-----------------------------------------------------------------------------
(* OnPaint().                                                              *)
Pannable == zoomlevel # 0 \/ zoomtype \in {"W2I", "NOFIT"}

\* The axis on which the image fills the view.
Tight(d) == IF client["x"] * d["y"] > client["y"] * d["x"] THEN "y" ELSE "x"

Natural(d) ==
  \/ zoomtype \in {"W2I", "NOFIT"}
  \/ zoomtype # "I2W" /\ \A a \in Axis : client[a] >= d[a]

FitLevel(d) == IF Natural(d) THEN 100 ELSE (client[Tight(d)] * 100) \div d[Tight(d)]

ScaleSize(d) ==
  IF zoomlevel # 0 THEN Scaled(d, zoomlevel)
  ELSE IF Natural(d) THEN d
  ELSE LET k == Tight(d)
           Rounded(m, n) == (2 * m + n) \div (2 * n)
       IN  [a \in Axis |-> IF a = k THEN client[k] ELSE Most(Rounded(client[k] * d[a], d[k]), 1)]

\* Fault: a part that is in the middle may be dragged out of the image.
ViewCrop_Unclamped(s) ==
  [a \in Axis |->
     IF s[a] <= client[a] \/ ~Pannable THEN [lo |-> 0, hi |-> s[a]]
     ELSE LET lo == Centre(s)[a] + offset[a] - Moved(a) IN [lo |-> lo, hi |-> lo + client[a]]]

ViewCrop(s) ==
  [a \in Axis |->
     IF s[a] <= client[a] \/ ~Pannable THEN [lo |-> 0, hi |-> s[a]]
     ELSE LET lo == Most(0, Least(Centre(s)[a] + offset[a] - Moved(a), s[a] - client[a]))
          IN  [lo |-> lo, hi |-> lo + client[a]]]

ViewOffset(s) ==
  IF ~Pannable THEN Zero
  ELSE IF drag # None THEN offset
  ELSE [a \in Axis |-> ViewCrop(s)[a].lo - Centre(s)[a]]

Paint ==
  /\ ~dead /\ dirty
  /\ IF image = None
     THEN UNCHANGED <<zoomed, view, laid, bitmap>>
     ELSE IF bitmap # None /\ laid = client
     THEN UNCHANGED <<zoomed, view, laid, bitmap>>
     ELSE /\ fitlevel' = IF zoomlevel = 0 THEN FitLevel(Dim[image]) ELSE fitlevel
          /\ scale' = ScaleSize(Dim[image])
          /\ crop' = ViewCrop(scale') /\ offset' = ViewOffset(scale')
          /\ laid' = client
          /\ bitmap' = IF bitmap = None \/ crop' # crop
                       THEN [image |-> image, scale |-> scale', crop |-> crop']
                       ELSE bitmap
          /\ UNCHANGED <<zoomtype, zoomlevel>>
  /\ dirty' = FALSE
  /\ UNCHANGED <<image, window, drag, dead, inputs>>

Next ==
  \/ FileOpened \/ ImageClosed \/ FrameUpdate
  \/ ZoomIn \/ ZoomOut \/ Resize
  \/ \E type \in ZoomTypes : SetZoomMode(type)
  \/ \E p \in Points : PressPan(p) \/ PressZoom(p) \/ MouseMove(p)
  \/ LeftUp \/ RightUp
  \/ Paint

Spec == Init /\ [][Next]_vars

-----------------------------------------------------------------------------
Painted == image # None /\ ~dirty

(* Once the view is painted, it was painted from the current image at the  *)
(* current size and place.  OnPaint() keeps its bitmap when the part in    *)
(* view has the same corners as before, whatever has become of the size    *)
(* and of the image.                                                       *)
ScreenCurrent == Painted => bitmap = [image |-> image, scale |-> scale, crop |-> crop]

(* No part of the view is left empty that the image could fill, and        *)
(* getBBitmap() is never asked for pixels outside of the scaled image.     *)
ViewCovered ==
  Painted => \A a \in Axis : /\ 0 <= crop[a].lo /\ crop[a].hi <= scale[a]
                             /\ crop[a].hi - crop[a].lo = Least(client[a], scale[a])

(* _viewOffset is what the user sees once he has let go of the mouse: what *)
(* he drags against an edge is not kept to be dragged back.                *)
NoHiddenPan ==
  Painted /\ drag = None => \A a \in Axis : offset[a] = crop[a].lo - Centre(scale)[a]

(* With a picture on the screen a zoom drag has a level to start from: the *)
(* division of ImageView.cpp:779 traps only before the paint that follows  *)
(* a new file or a new zoom mode, unless the view is a hundred times       *)
(* smaller than the image.                                                 *)
LevelOncePainted ==
  Painted /\ (\A a \in Axis : 100 * client[a] >= Dim[image][a]) => Level > 0 /\ ~dead

(* What a paint leaves for the next input to start from.                   *)
ViewSettled == ViewCovered /\ NoHiddenPan /\ LevelOncePainted

(* Where fitWindow2Image() moves an edge of the window, the window is on   *)
(* the monitor.                                                            *)
FitStaysOnScreen ==
  [][~Resize => \A a \in Axis : frame'[a] # frame[a] =>
                                  Work[a].lo <= frame'[a].lo /\ frame'[a].hi <= Work[a].hi]_vars

(* zoom(1) makes what is on the screen larger and zoom(-1) makes it        *)
(* smaller, from every automatic level, on both axes, but for one pixel of *)
(* rounding.                                                               *)
ZoomDirection ==
  [][Painted =>
       /\ ZoomIn => \A a \in Axis : Scaled(Dim[image], zoomlevel')[a] >= scale[a] - 1
       /\ ZoomOut => \A a \in Axis : Scaled(Dim[image], zoomlevel')[a] <= scale[a]
       /\ ZoomIn \/ ZoomOut => Level' # Level]_vars

=============================================================================
