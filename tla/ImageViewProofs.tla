--------------------------- MODULE ImageViewProofs ---------------------------
(***************************************************************************)
(* Theorems about ImageView, for images, windows and monitors of any size. *)
(***************************************************************************)
EXTENDS ImageView, TLAPS

Positive == [Axis -> Nat \ {0}]

(***************************************************************************)
(* Arithmetic of the sizes.                                                *)
(***************************************************************************)
LEMMA QuotInt ==
  ASSUME NEW m \in Int, NEW n \in Nat \ {0}
  PROVE  Quot(m, n) \in Int
  BY DEF Quot

LEMMA ScaledPositive ==
  ASSUME NEW d \in Positive, NEW level \in Nat
  PROVE  Scaled(d, level) \in Positive
  <1>1. \A a \in Axis : (d[a] * level) \div 100 \in Int
    <2> SUFFICES ASSUME NEW a \in Axis PROVE (d[a] * level) \div 100 \in Int
      OBVIOUS
    <2>1. d[a] * level \in Int
      BY DEF Positive
    <2> QED BY <2>1
  <1>2. \A k \in Int : Most(k, 1) \in Nat \ {0}
    BY DEF Most
  <1> QED BY <1>1, <1>2 DEF Scaled, Positive

LEMMA QuotientAtLeastOne ==
  ASSUME NEW m \in Nat, NEW n \in Nat \ {0}
  PROVE  m \div n \in Nat /\ (m >= n => m \div n >= 1)
  <1> DEFINE q == m \div n
  <1>1. q \in Int /\ n * q <= m /\ m < n * q + n
    OBVIOUS
  <1> HIDE DEF q
  <1>2. ASSUME q <= -1 PROVE FALSE
    <2>1. n * q <= -n
      BY <1>1, <1>2
    <2> QED BY <1>1, <2>1
  <1>3. ASSUME m >= n, q <= 0 PROVE FALSE
    <2>1. q = 0
      BY <1>1, <1>2, <1>3
    <2> QED BY <1>1, <1>3, <2>1
  <1> QED BY <1>1, <1>2, <1>3 DEF q

(* m/n rounded to the nearest is no more than c if m/n is not. *)
LEMMA RoundedBelow ==
  ASSUME NEW m \in Nat, NEW n \in Nat \ {0}, NEW c \in Nat, m <= c * n
  PROVE  (2 * m + n) \div (2 * n) <= c
  <1> DEFINE q == (2 * m + n) \div (2 * n)
  <1>1. q \in Int /\ (2 * n) * q <= 2 * m + n
    OBVIOUS
  <1> HIDE DEF q
  <1>2. ASSUME q >= c + 1 PROVE FALSE
    <2>1. c * n \in Nat /\ (2 * n) * q \in Int
      BY <1>1
    <2>2. (2 * n) * q = (2 * n) * (q - c - 1) + 2 * (c * n) + 2 * n
      BY <1>1
    <2>3. (2 * n) * (q - c - 1) >= 0
      BY <1>1, <1>2
    <2> QED BY <1>1, <2>1, <2>2, <2>3
  <1> QED BY <1>1, <1>2 DEF q

-----------------------------------------------------------------------------
(* The window.  Placed() makes it as much larger as it is told, and keeps  *)
(* it on the monitor if it can be there.                                   *)
LEMMA PlacedOnMonitor ==
  ASSUME NEW f \in Span, NEW d \in Int, NEW w \in Span
  PROVE  /\ Placed(f, d, w) \in Span
         /\ Placed(f, d, w).hi - Placed(f, d, w).lo = f.hi - f.lo + d
         /\ f.hi - f.lo + d <= w.hi - w.lo =>
              w.lo <= Placed(f, d, w).lo /\ Placed(f, d, w).hi <= w.hi
  <1> DEFINE half == Quot(d, 2)
  <1>1. half \in Int
    BY QuotInt
  <1>2. f.lo \in Int /\ f.hi \in Int /\ w.lo \in Int /\ w.hi \in Int
    BY DEF Span
  <1> HIDE DEF half
  <1>3. Placed(f, d, w) =
          LET lo == f.lo - half
              hi == f.hi + (d - half)
              left == IF hi > w.hi THEN w.hi - (hi - lo) ELSE lo
              right == IF hi > w.hi THEN w.hi ELSE hi
          IN  IF left < w.lo THEN [lo |-> w.lo, hi |-> w.lo + (right - left)]
                             ELSE [lo |-> left, hi |-> right]
    BY DEF Placed, half
  <1> QED BY <1>1, <1>2, <1>3 DEF Span

LEMMA MonitorType ==
  /\ Work \in [Axis -> Span] /\ Chrome \in [Axis -> Nat] /\ MinSize \in Positive
  /\ Dim \in [Images -> Positive] /\ Points \subseteq [Axis -> Int]
  /\ None \notin Images /\ MaxInputs \in Nat /\ DragLevels \subseteq Nat
  <1>1. /\ Work \in [Axis -> Span] /\ Chrome \in [Axis -> Nat] /\ MinSize \in Positive
        /\ Dim \in [Images -> Positive] /\ Points \subseteq [Axis -> Int]
    <2>1. /\ Work \in [Axis -> Span] /\ Chrome \in Size /\ MinSize \in [Axis -> Nat \ {0}]
          /\ Dim \in [Images -> [Axis -> Nat \ {0}]] /\ Points \subseteq Offset
      BY ImageViewAssumption, SMTT(20) DEF ImageViewAssumption
    <2> QED BY <2>1, Zenon DEF Size, Offset, Positive
  <1>2. None \notin Images /\ MaxInputs \in Nat
    BY ImageViewAssumption, SMTT(20) DEF ImageViewAssumption
  <1>3. DragLevels \subseteq 1 .. 10000
    BY ImageViewAssumption, SMTT(20) DEF ImageViewAssumption
  <1>4. DragLevels \subseteq Nat
    BY <1>3
  <1> QED BY <1>1, <1>2, <1>4

LEMMA InsideInt ==
  ASSUME NEW f \in [Axis -> Span]
  PROVE  /\ Inside(f) \in Offset
         /\ \A a \in Axis : Inside(f)[a] = f[a].hi - f[a].lo - Chrome[a]
  <1>1. ASSUME NEW a \in Axis PROVE f[a].hi \in Int /\ f[a].lo \in Int /\ Chrome[a] \in Int
    <2>1. f[a] \in Span /\ Chrome[a] \in Nat
      BY MonitorType
    <2> QED BY <2>1 DEF Span
  <1> QED BY <1>1 DEF Inside, Extent, Offset

LEMMA RoomPositive ==
  Room \in Positive
  <1>1. Work \in [Axis -> Span] /\ \A a \in Axis : Inside(Work)[a] > 0
    BY ImageViewAssumption, SMTT(20) DEF ImageViewAssumption
  <1>2. Inside(Work) \in Offset
    BY <1>1, InsideInt, Zenon
  <1>3. \A a \in Axis : Inside(Work)[a] \in Nat \ {0}
    <2> SUFFICES ASSUME NEW a \in Axis PROVE Inside(Work)[a] \in Nat \ {0}
      OBVIOUS
    <2>1. Inside(Work)[a] \in Int
      BY <1>2 DEF Offset
    <2> QED BY <1>1, <2>1
  <1> QED BY <1>2, <1>3, Zenon DEF Room, Positive, Offset

LEMMA WantedFits ==
  ASSUME NEW d \in Positive, NEW type, NEW level \in Nat
  PROVE  /\ Wanted(d, type, level) \in Positive
         /\ \A a \in Axis : Wanted(d, type, level)[a] <= Room[a]
  <1>0. Axis = {"x", "y"} /\ \A a \in Axis : /\ d[a] \in Nat \ {0} /\ Room[a] \in Nat \ {0}
                                             /\ MinSize[a] \in Nat \ {0}
    BY RoomPositive, ImageViewAssumption DEF Axis, Positive, ImageViewAssumption
  <1>1. \A m, n \in Int : Least(m, n) \in Int /\ Least(m, n) <= n
    BY DEF Least
  <1>2. ASSUME NEW a \in Axis PROVE Asked(d, type, level)[a] \in Int
    <2>1. (d[a] * level) \div 100 \in Int
      <3>1. d[a] * level \in Int
        BY <1>0
      <3> QED BY <3>1
    <2>2. (Room["x"] * d["y"]) \div d["x"] + 1 \in Int
      <3>1. Room["x"] * d["y"] \in Int /\ d["x"] \in Nat \ {0}
        BY <1>0
      <3> QED BY <3>1
    <2>3. (Room["y"] * d["x"]) \div d["y"] + 1 \in Int
      <3>1. Room["y"] * d["x"] \in Int /\ d["y"] \in Nat \ {0}
        BY <1>0
      <3> QED BY <3>1
    <2>4. d[a] \in Int /\ Room[a] \in Int /\ DOMAIN d = Axis
      BY <1>0 DEF Positive
    <2> QED BY <1>0, <1>1, <2>1, <2>2, <2>3, <2>4 DEF Asked
  <1>3. \A k \in Int : \A m, r \in Nat \ {0} :
          Least(Most(k, m), r) \in Nat \ {0} /\ Least(Most(k, m), r) <= r
    BY DEF Least, Most
  <1> QED BY <1>0, <1>2, <1>3 DEF Wanted, Positive

-----------------------------------------------------------------------------
(***************************************************************************)
(* Type correctness.  It needs that the view never loses its extent.       *)
(***************************************************************************)
Fit == \A a \in Axis : Inside(frame)[a] > 0

LEMMA ClientPositive ==
  ASSUME frame \in [Axis -> Span], Fit
  PROVE  client \in Positive
  <1>1. Inside(frame) \in Positive
    BY InsideInt DEF Fit, Positive, Offset
  <1> QED BY <1>1, RoomPositive DEF client

(* fitWindow2Image() *)
LEMMA FitWindowFits ==
  ASSUME frame \in [Axis -> Span], Fit,
         NEW d \in Positive, NEW type, NEW level \in Nat, FitWindow(d, type, level)
  PROVE  /\ frame' \in [Axis -> Span] /\ Fit' /\ maximized' = maximized
         /\ \A a \in Axis : frame'[a] # frame[a] =>
                             Work[a].lo <= frame'[a].lo /\ frame'[a].hi <= Work[a].hi
  <1>1. CASE maximized
    BY <1>1 DEF FitWindow, Fit
  <1>2. CASE ~maximized
    <2> DEFINE W == Wanted(d, type, level)
               grow(a) == W[a] - client[a]
    <2>1. \A a \in Axis : W[a] \in Nat \ {0} /\ W[a] <= Room[a]
      BY WantedFits DEF Positive
    <2>2. \A a \in Axis : /\ client[a] \in Int /\ client[a] = frame[a].hi - frame[a].lo - Chrome[a]
                          /\ frame[a] \in Span /\ Work[a] \in Span
                          /\ Room[a] = Work[a].hi - Work[a].lo - Chrome[a]
      <3>1. client = Inside(frame) /\ Room = Inside(Work)
        BY <1>2 DEF client, Room
      <3>2. frame \in [Axis -> Span] /\ Work \in [Axis -> Span]
        BY MonitorType
      <3>3. ASSUME NEW f \in [Axis -> Span], NEW a \in Axis
            PROVE  Inside(f)[a] \in Int /\ Inside(f)[a] = f[a].hi - f[a].lo - Chrome[a]
        BY InsideInt DEF Offset
      <3>4. ASSUME NEW a \in Axis
            PROVE  /\ client[a] \in Int /\ client[a] = frame[a].hi - frame[a].lo - Chrome[a]
                   /\ frame[a] \in Span /\ Work[a] \in Span
                   /\ Room[a] = Work[a].hi - Work[a].lo - Chrome[a]
        <4>1. frame[a] \in Span /\ Work[a] \in Span
          BY <3>2
        <4>2. client[a] = Inside(frame)[a] /\ Room[a] = Inside(Work)[a]
          BY <3>1
        <4> QED BY <3>2, <3>3, <4>1, <4>2
      <3> QED BY <3>4
    <2>3. /\ frame' = [a \in Axis |-> IF grow(a) = 0 THEN frame[a]
                                       ELSE Placed(frame[a], grow(a), Work[a])]
          /\ maximized' = maximized
      BY <1>2 DEF FitWindow
    <2> HIDE DEF W
    <2>4. ASSUME NEW a \in Axis
          PROVE  /\ frame'[a] \in Span
                 /\ frame'[a].hi - frame'[a].lo - Chrome[a] = W[a]
                 /\ frame'[a] # frame[a] =>
                      Work[a].lo <= frame'[a].lo /\ frame'[a].hi <= Work[a].hi
      <3>0. Chrome[a] \in Int /\ grow(a) \in Int
        BY <2>1, <2>2, MonitorType
      <3>1. CASE grow(a) = 0
        <4>1. frame'[a] = frame[a]
          BY <2>3, <3>1
        <4>2. W[a] = client[a]
          BY <2>1, <2>2, <3>1
        <4> QED BY <2>2, <4>1, <4>2
      <3>2. CASE grow(a) # 0
        <4>1. frame'[a] = Placed(frame[a], grow(a), Work[a])
          BY <2>3, <3>2
        <4>2. /\ frame'[a] \in Span
              /\ frame'[a].hi - frame'[a].lo = frame[a].hi - frame[a].lo + grow(a)
              /\ frame[a].hi - frame[a].lo + grow(a) <= Work[a].hi - Work[a].lo =>
                   Work[a].lo <= frame'[a].lo /\ frame'[a].hi <= Work[a].hi
          BY <2>2, <3>0, <4>1, PlacedOnMonitor
        <4> QED BY <2>1, <2>2, <3>0, <4>2 DEF Span
      <3> QED BY <3>1, <3>2
    <2>5. frame' \in [Axis -> Span]
      BY <2>3, <2>4
    <2>6. \A a \in Axis : Inside(frame')[a] = W[a]
      BY <2>4, <2>5, InsideInt
    <2>7. Fit'
      BY <2>1, <2>6 DEF Fit
    <2> QED BY <2>3, <2>4, <2>5, <2>7
  <1> QED BY <1>1, <1>2

\* The types by the groups that the actions share.
WindowType == frame \in [Axis -> Span] /\ maximized \in BOOLEAN /\ Fit
ZoomType == zoomtype \in ZoomTypes /\ zoomlevel \in Nat /\ fitlevel \in Nat
ViewType == /\ scale \in Positive \union {NoSize} /\ crop \in [Axis -> Span]
            /\ offset \in Offset /\ laid \in Offset
PictureType == image \in Images \union {None} /\ bitmap \in Picture \union {None}
DragType == drag \in Drag \union {None}
RestType == dirty \in BOOLEAN /\ dead \in BOOLEAN /\ inputs \in 0 .. MaxInputs

Types == WindowType /\ ZoomType /\ ViewType /\ PictureType /\ DragType /\ RestType

LEMMA TypesOK ==
  Types => TypeOK
  BY DEF Types, WindowType, ZoomType, ViewType, PictureType, DragType, RestType, TypeOK, Positive

LEMMA NothingType ==
  NoSize \in Offset /\ NoCrop \in [Axis -> Span] /\ Zero \in Offset
  BY DEF NoSize, NoCrop, Zero, Offset, Span

LEMMA InitTypes == Init => Types
  <1> SUFFICES ASSUME Init PROVE Types
    OBVIOUS
  <1>1. WindowType
    <2>1. frame \in Frames /\ maximized \in BOOLEAN
      BY DEF Init
    <2>2. frame \in [Axis -> Span] /\ \A a \in Axis : Inside(frame)[a] > 0
      BY <2>1, ImageViewAssumption DEF ImageViewAssumption
    <2> QED BY <2>1, <2>2 DEF WindowType, Fit
  <1>2. ZoomType /\ ViewType /\ PictureType /\ DragType
    BY NothingType DEF Init, ZoomType, ViewType, PictureType, DragType
  <1>3. RestType
    <2>1. inputs \in 0 .. MaxInputs
      BY MonitorType DEF Init
    <2> QED BY <2>1 DEF Init, RestType
  <1> QED BY <1>1, <1>2, <1>3 DEF Types

LEMMA InputType ==
  ASSUME RestType, Input
  PROVE  inputs' \in 0 .. MaxInputs
  BY ImageViewAssumption DEF RestType, Input, ImageViewAssumption

LEMMA SizedType ==
  ASSUME ViewType, Sized
  PROVE  laid' \in Offset
  BY NothingType DEF ViewType, Sized

LEMMA FitWindowType ==
  ASSUME WindowType, NEW i \in Images, NEW type, NEW level \in Nat,
         FitWindow(Dim[i], type, level)
  PROVE  WindowType'
  <1>1. Dim[i] \in Positive
    BY MonitorType
  <1> QED BY <1>1, FitWindowFits DEF WindowType, Fit

LEMMA FileOpenedTypes ==
  ASSUME Types, FileOpened
  PROVE  Types'
  <1>1. PICK i \in Images :
          /\ image' = i
          /\ IF zoomtype \in W2I THEN FitWindow(Dim[i], zoomtype, 0) ELSE UNCHANGED window
    BY DEF FileOpened
  <1>2. WindowType'
    BY <1>1, FitWindowType DEF Types, WindowType, window, Fit
  <1>3. ViewType'
    BY SizedType, NothingType DEF FileOpened, Types, ViewType
  <1>4. RestType'
    BY InputType DEF FileOpened, Types, RestType, Redraw
  <1> QED BY <1>1, <1>2, <1>3, <1>4
          DEF FileOpened, Redraw, Types, ZoomType, PictureType, DragType

LEMMA ZoomToTypes ==
  ASSUME Types, NEW level \in Nat, image # None, ZoomTo(level)
  PROVE  Types'
  <1>1. WindowType'
    BY FitWindowType DEF ZoomTo, Types, WindowType, PictureType, window, Fit
  <1>2. offset' \in Offset
    <2>1. (IF zoomlevel # 0 THEN zoomlevel ELSE 100) \in Nat \ {0}
      BY DEF Types, ZoomType
    <2>2. \A a \in Axis : offset[a] * level \in Int
      BY DEF Types, ViewType, Offset
    <2> QED BY <2>1, <2>2, QuotInt DEF ZoomTo, Offset
  <1>3. laid' \in Offset
    BY SizedType, NothingType DEF ZoomTo, Types
  <1>4. RestType'
    BY InputType DEF ZoomTo, Types, RestType, Redraw
  <1> QED BY <1>1, <1>2, <1>3, <1>4
          DEF ZoomTo, Redraw, Types, ZoomType, ViewType, PictureType, DragType

LEMMA ZoomTypes2 ==
  ASSUME Types, ZoomIn \/ ZoomOut
  PROVE  Types'
  <1>1. Reach \subseteq Nat
    BY ImageViewAssumption, SMTT(20) DEF ImageViewAssumption
  <1> QED BY <1>1, ZoomToTypes DEF ZoomIn, ZoomOut

LEMMA SetZoomModeTypes ==
  ASSUME Types, NEW type \in ZoomTypes, SetZoomMode(type)
  PROVE  Types'
  <1>1. WindowType'
    BY FitWindowType DEF SetZoomMode, Types, WindowType, PictureType, window, Fit
  <1>2. ViewType'
    BY NothingType DEF SetZoomMode, ViewType
  <1>3. RestType' /\ PictureType'
    BY InputType DEF SetZoomMode, Types, RestType, PictureType, Redraw
  <1> QED BY <1>1, <1>2, <1>3 DEF SetZoomMode, Types, ZoomType, DragType

LEMMA ResizeTypes ==
  ASSUME Types, Resize
  PROVE  Types'
  <1>1. WindowType'
    <2>1. frame' \in Frames /\ maximized' \in BOOLEAN
      BY DEF Resize
    <2>2. frame' \in [Axis -> Span] /\ \A a \in Axis : Inside(frame')[a] > 0
      BY <2>1, ImageViewAssumption DEF ImageViewAssumption
    <2> QED BY <2>1, <2>2 DEF WindowType, Fit
  <1>2. laid' \in Offset /\ inputs' \in 0 .. MaxInputs
    BY SizedType, InputType DEF Resize, Types
  <1> QED BY <1>1, <1>2
          DEF Resize, zoomed, view, Types, ZoomType, ViewType, PictureType, DragType, RestType

LEMMA ImageTypes ==
  ASSUME Types, ImageClosed \/ FrameUpdate
  PROVE  Types'
  <1>1. CASE ImageClosed
    BY <1>1, InputType
       DEF ImageClosed, window, zoomed, view, Types, WindowType, Fit, ZoomType, ViewType,
           PictureType, DragType, RestType
  <1>2. CASE FrameUpdate
    <2>1. scale \in Offset
      BY NothingType DEF Types, ViewType, Positive, Offset
    <2>2. bitmap' \in Picture
      BY <1>2, <2>1 DEF FrameUpdate, Picture, Types, PictureType, ViewType
    <2> QED BY <1>2, <2>2
            DEF FrameUpdate, window, zoomed, view, Types, WindowType, Fit, ZoomType,
                ViewType, PictureType, DragType, RestType
  <1> QED BY <1>1, <1>2

LEMMA CentreInt ==
  ASSUME WindowType, NEW s \in Offset
  PROVE  Centre(s) \in Offset
  <1>1. client \in Positive
    BY ClientPositive DEF WindowType
  <1>2. \A a \in Axis : s[a] \in Int /\ client[a] \in Int
    BY <1>1 DEF Offset, Positive
  <1> QED BY <1>2 DEF Centre, Offset

LEMMA ZoomDragType ==
  ASSUME Types, NEW p \in Points, PressZoom(p), Level # 0
  PROVE  drag' \in Drag
  <1> DEFINE c == [a \in Axis |-> Quot((Centre(scale)[a] + offset[a] + p[a]) * 100, Level)]
  <1>1. Level \in Nat \ {0}
    BY DEF Level, Types, ZoomType
  <1>2. scale \in Offset /\ offset \in Offset /\ p \in Offset
    BY NothingType, MonitorType DEF Types, ViewType, Positive, Offset
  <1>3. Centre(scale) \in Offset
    BY <1>2, CentreInt DEF Types
  <1>4. \A a \in Axis : (Centre(scale)[a] + offset[a] + p[a]) * 100 \in Int
    BY <1>2, <1>3 DEF Offset
  <1>5. c \in Offset
    BY <1>1, <1>4, QuotInt DEF Offset
  <1>6. drag' = [type |-> "zoom", origin |-> p, cur |-> p, level |-> Level, click |-> c]
    BY DEF PressZoom
  <1> HIDE DEF c
  <1> QED BY <1>1, <1>5, <1>6 DEF Drag

LEMMA PressTypes ==
  ASSUME Types, NEW p \in Points, PressPan(p) \/ PressZoom(p)
  PROVE  Types'
  <1>1. RestType'
    BY InputType DEF PressPan, PressZoom, Types, RestType
  <1>2. DragType'
    <2>1. CASE PressPan(p)
      BY <2>1 DEF PressPan, DragType, Drag, Zero, Offset
    <2>2. CASE PressZoom(p) /\ Level = 0
      BY <2>2 DEF PressZoom, Types, DragType
    <2>3. CASE PressZoom(p) /\ Level # 0
      BY <2>3, ZoomDragType DEF DragType
    <2> QED BY <2>1, <2>2, <2>3
  <1> QED BY <1>1, <1>2
          DEF PressPan, PressZoom, window, zoomed, view, Types, WindowType, Fit,
              ZoomType, ViewType, PictureType

LEMMA DragToTypes ==
  ASSUME Types, drag # None, NEW level \in Nat, DragTo(level), UNCHANGED <<window, image>>
  PROVE  ZoomType' /\ ViewType'
  <1>1. CASE image = None \/ level = Level
    BY <1>1 DEF DragTo, zoomed, view, Types, ZoomType, ViewType
  <1>2. CASE ~(image = None \/ level = Level)
    <2>1. /\ zoomlevel' = level /\ scale' = Scaled(Dim[image], level)
          /\ offset' = [a \in Axis |-> Quot(drag.click[a] * level, 100)
                                       - drag.origin[a] - Centre(scale')[a]]
          /\ laid' = NoSize /\ UNCHANGED <<zoomtype, fitlevel, crop>>
      BY <1>2 DEF DragTo
    <2>2. scale' \in Positive
      BY <1>2, <2>1, ScaledPositive, MonitorType DEF Types, PictureType
    <2>3. Centre(scale') \in Offset
      <3>1. scale' \in Offset
        BY <2>2 DEF Positive, Offset
      <3> QED BY <3>1, CentreInt DEF Types
    <2>4. drag.click \in Offset /\ drag.origin \in Offset
      BY MonitorType DEF Types, DragType, Drag, Offset
    <2>5. \A a \in Axis : drag.click[a] * level \in Int
      BY <2>4 DEF Offset
    <2>6. \A a \in Axis : Quot(drag.click[a] * level, 100) \in Int
      BY <2>5, QuotInt
    <2>7. offset' \in Offset
      BY <2>1, <2>3, <2>4, <2>6 DEF Offset
    <2> QED BY <2>1, <2>2, <2>7, NothingType DEF Types, ZoomType, ViewType
  <1> QED BY <1>1, <1>2

LEMMA ReachedNat ==
  ASSUME drag.level \in Nat, NEW p
  PROVE  Reached(p) \subseteq Nat
  <1> DEFINE low == {Least(drag.level, 10000)}
             far == {l \in DragLevels : \/ p["y"] < drag.origin["y"] /\ l > drag.level
                                        \/ p["y"] > drag.origin["y"] /\ l < drag.level}
             least == {l \in {1} : p["y"] < drag.origin["y"]}
  <1>1. low \subseteq Nat
    BY DEF Least
  <1>2. far \subseteq Nat
    <2>1. far \subseteq DragLevels
      OBVIOUS
    <2> QED BY <2>1, MonitorType
  <1>3. Reached(p) = low \union far \union least /\ least \subseteq Nat
    BY DEF Reached
  <1> QED BY <1>1, <1>2, <1>3

LEMMA MouseMoveTypes ==
  ASSUME Types, NEW p \in Points, MouseMove(p)
  PROVE  Types'
  <1>1. RestType' /\ PictureType' /\ WindowType'
    BY InputType DEF MouseMove, Redraw, Types, RestType, PictureType, WindowType, window, Fit
  <1>2. drag \in Drag
    BY DEF MouseMove, Types, DragType
  <1>3. ZoomType' /\ ViewType' /\ DragType'
    <2>1. CASE drag.type = "zoom"
      <3>1. \E level \in Reached(p) : DragTo(level)
        BY <2>1 DEF MouseMove
      <3>2. PICK level \in Nat : DragTo(level)
        <4>1. drag.level \in Nat
          BY <1>2 DEF Drag
        <4> QED BY <3>1, <4>1, ReachedNat
      <3>3. ZoomType' /\ ViewType'
        BY <3>1, <3>2, DragToTypes DEF MouseMove
      <3> QED BY <2>1, <3>3 DEF MouseMove, Types, DragType
    <2>2. CASE drag.type # "zoom"
      BY <1>2, <2>2
         DEF MouseMove, zoomed, view, Types, ZoomType, ViewType, DragType, Drag
    <2> QED BY <2>1, <2>2
  <1> QED BY <1>1, <1>3 DEF Types

LEMMA ReleaseTypes ==
  ASSUME Types, LeftUp \/ RightUp
  PROVE  Types'
  <1>1. RestType'
    BY InputType DEF LeftUp, RightUp, Redraw, Types, RestType
  <1>2. offset' \in Offset
    <2>1. ASSUME NEW a \in Axis PROVE Moved(a) \in Int
      <3>1. drag # None => drag.cur[a] \in Int /\ drag.origin[a] \in Int
        BY MonitorType DEF Types, DragType, Drag
      <3> QED BY <3>1 DEF Moved
    <2> QED BY <2>1 DEF LeftUp, RightUp, view, Types, ViewType, Offset
  <1> QED BY <1>1, <1>2
          DEF LeftUp, RightUp, Redraw, window, zoomed, view, Types, WindowType, Fit,
              ZoomType, ViewType, PictureType, DragType

-----------------------------------------------------------------------------
(* OnPaint() *)
LEMMA FitLevelType ==
  ASSUME Types, NEW d \in Positive
  PROVE  /\ FitLevel(d) \in Nat
         /\ (\A a \in Axis : 100 * client[a] >= d[a]) => FitLevel(d) > 0
  <1>1. Tight(d) \in Axis
    BY DEF Tight, Axis
  <1>2. client[Tight(d)] \in Nat \ {0} /\ d[Tight(d)] \in Nat \ {0}
    BY <1>1, ClientPositive DEF Types, WindowType, Positive
  <1>3. client[Tight(d)] * 100 \in Nat
    BY <1>2
  <1> QED BY <1>1, <1>2, <1>3, QuotientAtLeastOne DEF FitLevel

LEMMA ScaleSizeType ==
  ASSUME Types, NEW d \in Positive
  PROVE  ScaleSize(d) \in Positive
  <1>1. CASE zoomlevel # 0
    BY <1>1, ScaledPositive DEF ScaleSize, Types, ZoomType
  <1>2. CASE zoomlevel = 0 /\ Natural(d)
    BY <1>2 DEF ScaleSize
  <1>3. CASE zoomlevel = 0 /\ ~Natural(d)
    <2> DEFINE k == Tight(d)
    <2>1. k \in Axis
      BY DEF Tight, Axis
    <2>2. client[k] \in Nat \ {0} /\ \A a \in Axis : d[a] \in Nat \ {0}
      BY <2>1, ClientPositive DEF Types, WindowType, Positive
    <2> HIDE DEF k
    <2>3. ASSUME NEW a \in Axis
          PROVE  Most((2 * (client[k] * d[a]) + d[k]) \div (2 * d[k]), 1) \in Nat \ {0}
      <3>1. client[k] * d[a] \in Int /\ 2 * d[k] \in Nat \ {0}
        BY <2>1, <2>2
      <3>2. (2 * (client[k] * d[a]) + d[k]) \div (2 * d[k]) \in Int
        BY <2>1, <2>2, <3>1
      <3> QED BY <3>2 DEF Most
    <2>4. ScaleSize(d) = [a \in Axis |->
            IF a = k THEN client[k]
            ELSE Most((2 * (client[k] * d[a]) + d[k]) \div (2 * d[k]), 1)]
      BY <1>3 DEF ScaleSize, k
    <2> QED BY <2>2, <2>3, <2>4 DEF Positive
  <1> QED BY <1>1, <1>2, <1>3

LEMMA ViewCropType ==
  ASSUME Types, NEW s \in Positive
  PROVE  ViewCrop(s) \in [Axis -> Span] /\ ViewOffset(s) \in Offset
  <1>1. s \in Offset
    BY DEF Positive, Offset
  <1>2. ASSUME NEW a \in Axis
        PROVE  /\ s[a] \in Nat \ {0} /\ client[a] \in Nat \ {0} /\ Centre(s)[a] \in Int
               /\ offset[a] \in Int /\ Moved(a) \in Int
    <2>1. drag # None => drag.cur[a] \in Int /\ drag.origin[a] \in Int
      BY MonitorType DEF Types, DragType, Drag
    <2>2. Moved(a) \in Int
      BY <2>1 DEF Moved
    <2> QED BY <1>1, <2>2, ClientPositive, CentreInt
            DEF Types, WindowType, ViewType, Positive, Offset
  <1>3. ASSUME NEW a \in Axis PROVE ViewCrop(s)[a] \in Span
    BY <1>2 DEF ViewCrop, Most, Least, Span
  <1>4. ViewCrop(s) \in [Axis -> Span]
    BY <1>3 DEF ViewCrop
  <1>5. ViewOffset(s) \in Offset
    <2>1. \A a \in Axis : ViewCrop(s)[a].lo - Centre(s)[a] \in Int
      BY <1>2, <1>3 DEF Span
    <2> QED BY <2>1, NothingType DEF ViewOffset, Types, ViewType, Offset
  <1> QED BY <1>4, <1>5

LEMMA PaintTypes ==
  ASSUME Types, Paint
  PROVE  Types'
  <1>0. WindowType' /\ DragType' /\ RestType' /\ image' = image
    BY DEF Paint, window, Types, WindowType, Fit, DragType, RestType
  <1>1. CASE UNCHANGED <<zoomed, view, laid, bitmap>>
    BY <1>0, <1>1 DEF zoomed, view, Types, ZoomType, ViewType, PictureType
  <1>2. CASE image # None /\ ~(bitmap # None /\ laid = client)
    <2> DEFINE d == Dim[image]
    <2>1. d \in Positive /\ image \in Images
      BY <1>2, MonitorType DEF Types, PictureType
    <2>2. /\ fitlevel' = IF zoomlevel = 0 THEN FitLevel(d) ELSE fitlevel
          /\ scale' = ScaleSize(d) /\ crop' = ViewCrop(scale') /\ offset' = ViewOffset(scale')
          /\ laid' = client
          /\ bitmap' = IF bitmap = None \/ crop' # crop
                       THEN [image |-> image, scale |-> scale', crop |-> crop'] ELSE bitmap
          /\ UNCHANGED <<zoomtype, zoomlevel>>
      BY <1>2 DEF Paint
    <2> HIDE DEF d
    <2>3. ZoomType'
      BY <2>1, <2>2, FitLevelType DEF Types, ZoomType
    <2>4. scale' \in Positive /\ crop' \in [Axis -> Span] /\ offset' \in Offset
      BY <2>1, <2>2, ScaleSizeType, ViewCropType
    <2>5. laid' \in Offset /\ scale' \in Offset
      BY <2>2, <2>4, ClientPositive DEF Types, WindowType, Positive, Offset
    <2>6. bitmap' \in Picture \union {None}
      BY <2>1, <2>2, <2>4, <2>5 DEF Picture, Types, PictureType
    <2> QED BY <1>0, <2>1, <2>3, <2>4, <2>5, <2>6 DEF Types, ViewType, PictureType
  <1> QED BY <1>0, <1>1, <1>2 DEF Paint, Types

LEMMA NextTypes ==
  ASSUME Types, [Next]_vars
  PROVE  Types'
  <1>1. CASE UNCHANGED vars
    BY <1>1 DEF vars, window, zoomed, view, Types, WindowType, Fit, ZoomType, ViewType,
                PictureType, DragType, RestType
  <1> QED
    BY <1>1, FileOpenedTypes, ImageTypes, ZoomTypes2, ResizeTypes, SetZoomModeTypes,
       PressTypes, MouseMoveTypes, ReleaseTypes, PaintTypes DEF Next

LEMMA TypesInvariant == Spec => []Types
  BY InitTypes, NextTypes, PTL DEF Spec

(* The view is well formed, for any sizes: OnPaint() never scales to a side  *)
(* of no length, and the view never loses its extent in fitWindow2Image().   *)
THEOREM ViewTypeCorrect == Spec => []TypeOK
  BY TypesInvariant, TypesOK, PTL

(* Where fitWindow2Image() moves the window, it is on the monitor.           *)
LEMMA StepOnScreen ==
  ASSUME Types, [Next]_vars, ~Resize
  PROVE  \A a \in Axis : frame'[a] # frame[a] =>
                         Work[a].lo <= frame'[a].lo /\ frame'[a].hi <= Work[a].hi
  <1>1. ASSUME NEW i \in Images, NEW type, NEW level \in Nat, FitWindow(Dim[i], type, level)
        PROVE  \A a \in Axis : frame'[a] # frame[a] =>
                         Work[a].lo <= frame'[a].lo /\ frame'[a].hi <= Work[a].hi
    <2>1. Dim[i] \in Positive
      BY MonitorType
    <2> QED BY <1>1, <2>1, FitWindowFits DEF Types, WindowType
  <1>2. CASE FileOpened
    BY <1>1, <1>2 DEF FileOpened, window
  <1>3. ASSUME NEW level \in Reach, image # None, ZoomTo(level)
        PROVE  \A a \in Axis : frame'[a] # frame[a] =>
                         Work[a].lo <= frame'[a].lo /\ frame'[a].hi <= Work[a].hi
    <2>1. level \in Nat
      BY ImageViewAssumption, SMTT(20) DEF ImageViewAssumption
    <2>2. image \in Images
      BY <1>3 DEF Types, PictureType
    <2>3. FitWindow(Dim[image], zoomtype, level) \/ UNCHANGED window
      BY <1>3 DEF ZoomTo
    <2>4. CASE FitWindow(Dim[image], zoomtype, level)
      BY <1>1, <2>1, <2>2, <2>4
    <2>5. CASE UNCHANGED window
      BY <2>5 DEF window
    <2> QED BY <2>3, <2>4, <2>5
  <1>4. CASE ZoomIn \/ ZoomOut
    BY <1>3, <1>4 DEF ZoomIn, ZoomOut
  <1>5. ASSUME NEW type \in ZoomTypes, SetZoomMode(type)
        PROVE  \A a \in Axis : frame'[a] # frame[a] =>
                         Work[a].lo <= frame'[a].lo /\ frame'[a].hi <= Work[a].hi
    BY <1>1, <1>5 DEF SetZoomMode, window, Types, PictureType
  <1>6. CASE UNCHANGED window
    BY <1>6 DEF window
  <1> QED BY <1>2, <1>4, <1>5, <1>6
          DEF Next, vars, ImageClosed, FrameUpdate, PressPan, PressZoom, MouseMove,
              LeftUp, RightUp, Paint

THEOREM WindowKeptOnScreen == Spec => FitStaysOnScreen
  <1>1. Types /\ [Next]_vars =>
          [~Resize => \A a \in Axis : frame'[a] # frame[a] =>
                       Work[a].lo <= frame'[a].lo /\ frame'[a].hi <= Work[a].hi]_vars
    BY StepOnScreen
  <1> QED BY <1>1, TypesInvariant, PTL DEF Spec, FitStaysOnScreen

-----------------------------------------------------------------------------
(***************************************************************************)
(* The screen.  Between two paints the numbers may run ahead of the        *)
(* bitmap, so the properties of a painted view are not inductive: what is  *)
(* kept is said of every bitmap that a paint may still reuse.              *)
(***************************************************************************)

\* A paint may keep the bitmap: it shows this image at this size.
Shown == image # None /\ (bitmap # None \/ ~dirty)
NaturalSize == IF zoomlevel # 0 THEN Scaled(Dim[image], zoomlevel) ELSE Dim[image]
ShowsThis ==
  /\ bitmap = [image |-> image, scale |-> scale, crop |-> crop]
  /\ Pannable => scale = NaturalSize
  /\ ~Pannable => \A a \in Axis : crop[a] = [lo |-> 0, hi |-> scale[a]]
ShownIsThis == Shown => ShowsThis

\* A paint will not look at the numbers again.
Fresh == image # None /\ (~dirty \/ (bitmap # None /\ laid = client))
Covers == \A a \in Axis : /\ 0 <= crop[a].lo /\ crop[a].hi <= scale[a]
                          /\ crop[a].hi - crop[a].lo = Least(client[a], scale[a])
NothingHidden == drag = None => \A a \in Axis : offset[a] = crop[a].lo - Centre(scale)[a]
HasLevel == (\A a \in Axis : 100 * client[a] >= Dim[image][a]) => Level > 0 /\ ~dead
FreshIsSettled == Fresh => Covers /\ NothingHidden /\ HasLevel

ScreenInv == ShownIsThis /\ FreshIsSettled

LEMMA FitsInView ==
  ASSUME Types, ~Pannable, NEW d \in Positive
  PROVE  \A a \in Axis : ScaleSize(d)[a] <= client[a]
  <1>1. client \in Positive
    BY ClientPositive DEF Types, WindowType
  <1>2. \A a \in Axis : client[a] \in Nat \ {0} /\ d[a] \in Nat \ {0}
    BY <1>1 DEF Positive
  <1>3. CASE Natural(d)
    BY <1>2, <1>3 DEF ScaleSize, Natural, Pannable
  <1>4. CASE ~Natural(d)
    <2> DEFINE k == Tight(d)
    <2>1. k \in Axis /\ \A a \in Axis : client[k] * d[a] <= client[a] * d[k]
      BY <1>2 DEF Tight, Axis
    <2>2. ScaleSize(d) = [a \in Axis |->
            IF a = k THEN client[k]
            ELSE Most((2 * (client[k] * d[a]) + d[k]) \div (2 * d[k]), 1)]
      BY <1>4 DEF ScaleSize, Pannable, k
    <2> HIDE DEF k
    <2>3. ASSUME NEW a \in Axis
          PROVE  Most((2 * (client[k] * d[a]) + d[k]) \div (2 * d[k]), 1) <= client[a]
      <3>1. client[k] * d[a] \in Nat /\ client[k] * d[a] <= client[a] * d[k]
        BY <1>2, <2>1
      <3>2. (2 * (client[k] * d[a]) + d[k]) \div (2 * d[k]) <= client[a]
        BY <1>2, <2>1, <3>1, RoundedBelow
      <3> QED BY <1>2, <3>2 DEF Most
    <2> QED BY <1>2, <2>1, <2>2, <2>3
  <1> QED BY <1>3, <1>4

LEMMA CropCovers ==
  ASSUME Types, NEW s \in Positive, ~Pannable => \A a \in Axis : s[a] <= client[a]
  PROVE  /\ \A a \in Axis : /\ 0 <= ViewCrop(s)[a].lo /\ ViewCrop(s)[a].hi <= s[a]
                            /\ ViewCrop(s)[a].hi - ViewCrop(s)[a].lo = Least(client[a], s[a])
         /\ drag = None =>
              \A a \in Axis : ViewOffset(s)[a] = ViewCrop(s)[a].lo - Centre(s)[a]
         /\ ~Pannable => \A a \in Axis : ViewCrop(s)[a] = [lo |-> 0, hi |-> s[a]]
  <1>1. ASSUME NEW a \in Axis
        PROVE  /\ s[a] \in Nat \ {0} /\ client[a] \in Nat \ {0} /\ Centre(s)[a] \in Int
               /\ offset[a] \in Int /\ Moved(a) \in Int
    <2>1. drag # None => drag.cur[a] \in Int /\ drag.origin[a] \in Int
      BY MonitorType DEF Types, DragType, Drag
    <2>2. Moved(a) \in Int
      BY <2>1 DEF Moved
    <2>3. s \in Offset
      BY DEF Positive, Offset
    <2> QED BY <2>2, <2>3, ClientPositive, CentreInt
            DEF Types, WindowType, ViewType, Positive, Offset
  <1>2. ASSUME NEW a \in Axis
        PROVE  /\ 0 <= ViewCrop(s)[a].lo /\ ViewCrop(s)[a].hi <= s[a]
               /\ ViewCrop(s)[a].hi - ViewCrop(s)[a].lo = Least(client[a], s[a])
    BY <1>1 DEF ViewCrop, Most, Least
  <1>3. ~Pannable => \A a \in Axis : ViewCrop(s)[a] = [lo |-> 0, hi |-> s[a]]
    BY DEF ViewCrop
  <1>4. ASSUME ~Pannable, NEW a \in Axis
        PROVE  ViewOffset(s)[a] = ViewCrop(s)[a].lo - Centre(s)[a]
    <2>1. ViewOffset(s)[a] = 0
      BY <1>4 DEF ViewOffset, Zero
    <2>2. Centre(s)[a] = 0
      BY <1>1, <1>4 DEF Centre
    <2>3. ViewCrop(s)[a] = [lo |-> 0, hi |-> s[a]]
      BY <1>3, <1>4
    <2> QED BY <2>1, <2>2, <2>3
  <1>5. Pannable /\ drag = None =>
          \A a \in Axis : ViewOffset(s)[a] = ViewCrop(s)[a].lo - Centre(s)[a]
    BY DEF ViewOffset
  <1> QED BY <1>2, <1>3, <1>4, <1>5

\* After these there is nothing to show before the next paint.
LEMMA RedrawShowsNothing ==
  ASSUME Redraw
  PROVE  ScreenInv'
  BY DEF Redraw, ScreenInv, ShownIsThis, FreshIsSettled, Shown, Fresh

LEMMA NoImageShowsNothing ==
  ASSUME image' = None
  PROVE  ScreenInv'
  BY DEF ScreenInv, ShownIsThis, FreshIsSettled, Shown, Fresh

\* Steps that leave the picture and the window alone.
LEMMA Untouched ==
  ASSUME ScreenInv, UNCHANGED <<image, window, zoomed, view, laid, bitmap, dirty>>,
         UNCHANGED drag \/ drag' # None,
         Fresh => (HasLevel => HasLevel')
  PROVE  ScreenInv'
  <1>1. Pannable' = Pannable /\ NaturalSize' = NaturalSize /\ client' = client
    BY DEF Pannable, NaturalSize, client, window, zoomed
  <1>2. Centre(scale)' = Centre(scale)
    BY <1>1 DEF Centre, view
  <1>3. ShownIsThis'
    BY <1>1 DEF ScreenInv, ShownIsThis, Shown, ShowsThis, view
  <1>4. Fresh' = Fresh /\ Covers' = Covers
    BY <1>1 DEF Fresh, Covers, view
  <1>5. NothingHidden => NothingHidden'
    BY <1>2 DEF NothingHidden, view
  <1> QED BY <1>3, <1>4, <1>5 DEF ScreenInv, FreshIsSettled

LEMMA ResizeScreen ==
  ASSUME Types, Types', ScreenInv, Resize
  PROVE  ScreenInv'
  <1>1. Pannable' = Pannable /\ NaturalSize' = NaturalSize
    BY DEF Resize, Pannable, NaturalSize, zoomed
  <1>2. ShownIsThis'
    BY <1>1 DEF Resize, ScreenInv, ShownIsThis, Shown, ShowsThis, view
  <1>3. CASE client' = client
    <2>1. Fresh' = Fresh /\ Covers' = Covers
      BY <1>3 DEF Resize, Sized, Fresh, Covers, view, Types, RestType
    <2>2. NothingHidden' = NothingHidden
      <3>1. Centre(scale)' = Centre(scale)
        BY <1>3 DEF Centre, Resize, view
      <3> QED BY <3>1 DEF Resize, NothingHidden, view
    <2>3. HasLevel' = HasLevel
      BY <1>3 DEF Resize, HasLevel, Level, zoomed
    <2> QED BY <1>2, <2>1, <2>2, <2>3 DEF ScreenInv, FreshIsSettled
  <1>4. CASE client' # client
    <2>1. client' \in Positive /\ laid' = NoSize
      <3>1. frame' \in [Axis -> Span] /\ \A a \in Axis : Inside(frame')[a] > 0
        BY DEF Types, WindowType, Fit
      <3>2. Inside(frame') \in Positive
        BY <3>1, InsideInt DEF Positive, Offset
      <3> QED BY <1>4, <3>2, RoomPositive DEF client, Resize, Sized
    <2>2. client' # NoSize
      BY <2>1 DEF Positive, NoSize, Axis
    <2>3. ~Fresh'
      BY <1>4, <2>1, <2>2 DEF Resize, Fresh
    <2> QED BY <1>2, <2>3 DEF ScreenInv, FreshIsSettled
  <1> QED BY <1>3, <1>4

LEMMA PressScreen ==
  ASSUME Types, ScreenInv, NEW p \in Points, PressPan(p) \/ PressZoom(p)
  PROVE  ScreenInv'
  <1>1. UNCHANGED <<image, window, zoomed, view, laid, bitmap, dirty>>
    BY DEF PressPan, PressZoom
  <1>2. CASE PressPan(p)
    <2>1. drag' \in Drag
      <3>1. drag' = [type |-> "pan", origin |-> p, cur |-> p, level |-> 0, click |-> Zero]
        BY <1>2 DEF PressPan
      <3> QED BY <3>1, NothingType DEF Drag
    <2>2. HasLevel' = HasLevel
      BY <1>2 DEF PressPan, HasLevel, Level, client, window, zoomed
    <2> QED BY <1>1, <2>1, <2>2, NoneAssumption, Untouched DEF NoneAssumption
  <1>3. CASE PressZoom(p) /\ Level = 0
    <2>1. drag' = drag
      BY <1>3 DEF PressZoom
    <2>2. Fresh => (HasLevel => HasLevel')
      BY <1>3 DEF PressZoom, HasLevel, client, window
    <2> QED BY <1>1, <2>1, <2>2, Untouched
  <1>4. CASE PressZoom(p) /\ Level # 0
    <2>1. drag' # None
      BY <1>4, ZoomDragType, NoneAssumption DEF NoneAssumption
    <2>2. HasLevel' = HasLevel
      BY <1>4 DEF PressZoom, HasLevel, Level, client, window, zoomed
    <2> QED BY <1>1, <2>1, <2>2, Untouched
  <1> QED BY <1>2, <1>3, <1>4

LEMMA FrameUpdateScreen ==
  ASSUME ScreenInv, FrameUpdate
  PROVE  ScreenInv'
  <1>1. Shown /\ Fresh
    BY DEF FrameUpdate, Shown, Fresh
  <1>2. Pannable' = Pannable /\ NaturalSize' = NaturalSize /\ client' = client
    BY DEF FrameUpdate, Pannable, NaturalSize, client, window, zoomed
  <1>3. ShowsThis'
    BY <1>1, <1>2 DEF FrameUpdate, ScreenInv, ShownIsThis, ShowsThis, view
  <1>4. Covers' /\ NothingHidden'
    <2>1. Centre(scale)' = Centre(scale)
      BY <1>2 DEF Centre, FrameUpdate, view
    <2> QED BY <1>1, <1>2, <2>1
            DEF FrameUpdate, ScreenInv, FreshIsSettled, Covers, NothingHidden, view
  <1>5. HasLevel'
    BY <1>1, <1>2 DEF FrameUpdate, ScreenInv, FreshIsSettled, HasLevel, Level, zoomed
  <1> QED BY <1>3, <1>4, <1>5 DEF ScreenInv, ShownIsThis, FreshIsSettled

LEMMA SetZoomModeScreen ==
  ASSUME NEW type \in ZoomTypes, SetZoomMode(type)
  PROVE  ScreenInv'
  <1>1. CASE image = None
    BY <1>1, NoImageShowsNothing DEF SetZoomMode
  <1>2. CASE image # None
    BY <1>2, RedrawShowsNothing DEF SetZoomMode
  <1> QED BY <1>1, <1>2

LEMMA PaintScreen ==
  ASSUME Types, Types', ScreenInv, Paint
  PROVE  ScreenInv'
  <1>0. /\ image' = image /\ ~dirty' /\ ~dead /\ drag' = drag /\ dead' = dead
        /\ Pannable' = Pannable /\ client' = client /\ UNCHANGED window
    BY DEF Paint, Pannable, client, window, zoomed
  <1>1. CASE image = None
    BY <1>0, <1>1, NoImageShowsNothing
  <1>2. CASE image # None /\ bitmap # None /\ laid = client
    <2>1. Fresh /\ Shown
      BY <1>2 DEF Fresh, Shown
    <2>2. UNCHANGED <<zoomed, view, laid, bitmap>>
      BY <1>2 DEF Paint
    <2>3. NaturalSize' = NaturalSize /\ Centre(scale)' = Centre(scale)
      BY <1>0, <2>2 DEF NaturalSize, Centre, zoomed, view
    <2>4. ShowsThis'
      BY <1>0, <2>1, <2>2, <2>3 DEF ScreenInv, ShownIsThis, ShowsThis, view
    <2>5. Covers' /\ NothingHidden' /\ HasLevel'
      BY <1>0, <2>1, <2>2, <2>3
         DEF ScreenInv, FreshIsSettled, Covers, NothingHidden, HasLevel, Level, zoomed, view
    <2> QED BY <2>4, <2>5 DEF ScreenInv, ShownIsThis, FreshIsSettled
  <1>3. CASE image # None /\ ~(bitmap # None /\ laid = client)
    <2> DEFINE d == Dim[image]
               s == scale'
    <2>1. d \in Positive
      BY <1>3, MonitorType DEF Types, PictureType
    <2>2. /\ fitlevel' = IF zoomlevel = 0 THEN FitLevel(d) ELSE fitlevel
          /\ s = ScaleSize(d) /\ crop' = ViewCrop(s) /\ offset' = ViewOffset(s)
          /\ bitmap' = IF bitmap = None \/ crop' # crop
                       THEN [image |-> image, scale |-> s, crop |-> crop'] ELSE bitmap
          /\ zoomlevel' = zoomlevel
      BY <1>3 DEF Paint
    <2>3. s \in Positive /\ (~Pannable => \A a \in Axis : s[a] <= client[a])
      BY <2>1, <2>2, ScaleSizeType, FitsInView
    <2>4. Pannable => s = NaturalSize
      BY <2>2 DEF Pannable, ScaleSize, NaturalSize, Natural
    <2>5. NaturalSize' = NaturalSize
      BY <1>0, <2>2 DEF NaturalSize
    <2>6. ShowsThis'
      <3>1. ~Pannable => \A a \in Axis : crop'[a] = [lo |-> 0, hi |-> s[a]]
        BY <2>2, <2>3, CropCovers
      <3>2. CASE bitmap = None \/ crop' # crop
        BY <1>0, <2>2, <2>4, <2>5, <3>1, <3>2 DEF ShowsThis
      <3>3. CASE bitmap # None /\ crop' = crop
        <4>1. ShowsThis
          BY <1>3, <3>3 DEF ScreenInv, ShownIsThis, Shown
        <4>2. ASSUME Pannable PROVE s = scale
          BY <2>4, <4>1, <4>2 DEF ShowsThis
        <4>3. ASSUME ~Pannable PROVE s = scale
          <5>1. scale \in Offset /\ s \in Offset
            BY <2>3, NothingType DEF Types, ViewType, Positive, Offset
          <5>2. ASSUME NEW a \in Axis PROVE s[a] = scale[a]
            <6>1. crop[a] = [lo |-> 0, hi |-> scale[a]] /\ crop'[a] = [lo |-> 0, hi |-> s[a]]
              BY <3>1, <4>1, <4>3 DEF ShowsThis
            <6>2. crop[a].hi = scale[a] /\ crop'[a].hi = s[a]
              BY <6>1
            <6> QED BY <3>3, <6>2
          <5> QED BY <5>1, <5>2 DEF Offset
        <4>4. s = scale
          BY <4>2, <4>3
        <4> QED BY <1>0, <2>2, <2>4, <2>5, <3>1, <3>3, <4>1, <4>4 DEF ShowsThis
      <3> QED BY <3>2, <3>3
    <2>7. Covers'
      BY <1>0, <2>2, <2>3, CropCovers DEF Covers
    <2>8. NothingHidden'
      <3>1. Centre(scale)' = Centre(s)
        BY <1>0 DEF Centre
      <3> QED BY <1>0, <2>2, <2>3, <3>1, CropCovers DEF NothingHidden
    <2>9. HasLevel'
      <3>1. zoomlevel \in Nat
        BY DEF Types, ZoomType
      <3> QED BY <1>0, <2>1, <2>2, <3>1, FitLevelType DEF HasLevel, Level
    <2> QED BY <2>6, <2>7, <2>8, <2>9 DEF ScreenInv, ShownIsThis, FreshIsSettled
  <1> QED BY <1>1, <1>2, <1>3

LEMMA NextScreen ==
  ASSUME Types, Types', ScreenInv, [Next]_vars
  PROVE  ScreenInv'
  <1>1. CASE UNCHANGED vars
    BY <1>1, Untouched DEF vars, HasLevel, Level, client, window, zoomed
  <1>2. CASE FileOpened \/ ZoomIn \/ ZoomOut \/ LeftUp \/ RightUp
    BY <1>2, RedrawShowsNothing DEF FileOpened, ZoomIn, ZoomOut, ZoomTo, LeftUp, RightUp
  <1>3. ASSUME NEW p \in Points, MouseMove(p) PROVE ScreenInv'
    BY <1>3, RedrawShowsNothing DEF MouseMove
  <1>4. CASE ImageClosed
    BY <1>4, NoImageShowsNothing DEF ImageClosed
  <1> QED
    BY <1>1, <1>2, <1>3, <1>4, FrameUpdateScreen, ResizeScreen, SetZoomModeScreen,
       PressScreen, PaintScreen DEF Next

LEMMA ScreenInvariant == Spec => [](Types /\ ScreenInv)
  <1>1. Init => Types /\ ScreenInv
    BY InitTypes, NoneAssumption
       DEF Init, ScreenInv, ShownIsThis, FreshIsSettled, Shown, Fresh
  <1>2. Types /\ ScreenInv /\ [Next]_vars => (Types /\ ScreenInv)'
    BY NextTypes, NextScreen
  <1> QED BY <1>1, <1>2, PTL DEF Spec

(* What is on the screen was painted from the current image at the current   *)
(* size, though OnPaint() only compares the corners of the part in view:     *)
(* without a pan the corners give the size, and with one the size is the     *)
(* zoom level's or the image's own.                                          *)
THEOREM ScreenIsCurrent == Spec => []ScreenCurrent
  <1>1. ScreenInv => ScreenCurrent
    BY DEF ScreenInv, ShownIsThis, Shown, ShowsThis, ScreenCurrent, Painted
  <1> QED BY <1>1, ScreenInvariant, PTL

(* What OnPaint() leaves covers the view, holds back no pan and has a level  *)
(* for the next drag to start from.                                          *)
THEOREM ViewIsSettled == Spec => []ViewSettled
  <1>1. ScreenInv => ViewSettled
    BY DEF ScreenInv, FreshIsSettled, Fresh, Covers, NothingHidden, HasLevel, Painted,
           ViewSettled, ViewCovered, NoHiddenPan, LevelOncePainted
  <1> QED BY <1>1, ScreenInvariant, PTL

-----------------------------------------------------------------------------
(***************************************************************************)
(* The direction of a zoom.  What a paint has left, and no input has       *)
(* disturbed since, is the size and the level that it computes.            *)
(***************************************************************************)
Computed ==
  /\ scale = ScaleSize(Dim[image])
  /\ zoomlevel = 0 => fitlevel = FitLevel(Dim[image])
FreshIsComputed == Fresh => Computed

LEMMA KeepsComputed ==
  ASSUME FreshIsComputed, UNCHANGED <<zoomed, scale, image>>,
         Fresh' => Fresh /\ client' = client
  PROVE  FreshIsComputed'
  <1> SUFFICES ASSUME Fresh' PROVE Computed'
    BY DEF FreshIsComputed
  <1>1. Computed /\ client' = client
    BY DEF FreshIsComputed
  <1>2. UNCHANGED <<zoomtype, zoomlevel, fitlevel, scale, image>>
    BY DEF zoomed
  <1> DEFINE d == Dim[image]
  <1>3. d' = d
    BY <1>2
  <1> HIDE DEF d
  <1>4. (ScaleSize(d))' = ScaleSize(d) /\ (FitLevel(d))' = FitLevel(d)
    BY <1>1, <1>2, <1>3 DEF ScaleSize, FitLevel, Natural, Tight
  <1> QED BY <1>1, <1>2, <1>4 DEF Computed, d

LEMMA NextComputed ==
  ASSUME Types, Types', FreshIsComputed, [Next]_vars
  PROVE  FreshIsComputed'
  <1>1. CASE Redraw \/ image' = None
    BY <1>1 DEF Redraw, FreshIsComputed, Fresh
  <1>2. CASE FileOpened \/ ZoomIn \/ ZoomOut \/ LeftUp \/ RightUp
    BY <1>1, <1>2 DEF FileOpened, ZoomIn, ZoomOut, ZoomTo, LeftUp, RightUp
  <1>3. ASSUME NEW p \in Points, MouseMove(p) PROVE FreshIsComputed'
    BY <1>1, <1>3 DEF MouseMove
  <1>4. ASSUME NEW type \in ZoomTypes, SetZoomMode(type) PROVE FreshIsComputed'
    BY <1>1, <1>4 DEF SetZoomMode
  <1>5. CASE ImageClosed
    BY <1>1, <1>5 DEF ImageClosed
  <1>6. CASE FrameUpdate
    BY <1>6, KeepsComputed DEF FrameUpdate, Fresh, view, window, client
  <1>7. ASSUME NEW p \in Points, PressPan(p) \/ PressZoom(p) PROVE FreshIsComputed'
    BY <1>7, KeepsComputed DEF PressPan, PressZoom, Fresh, view, window, client
  <1>8. CASE Resize
    <2>1. client' \in Positive
      <3>1. frame' \in [Axis -> Span] /\ \A a \in Axis : Inside(frame')[a] > 0
        BY DEF Types, WindowType, Fit
      <3>2. Inside(frame') \in Positive
        BY <3>1, InsideInt DEF Positive, Offset
      <3> QED BY <3>2, RoomPositive DEF client
    <2>2. client' # NoSize
      BY <2>1 DEF Positive, NoSize, Axis
    <2>3. Fresh' => Fresh /\ client' = client
      BY <1>8, <2>2 DEF Resize, Sized, Fresh, Types, RestType
    <2> QED BY <1>8, <2>3, KeepsComputed DEF Resize, view
  <1>9. CASE Paint /\ image # None /\ ~(bitmap # None /\ laid = client)
    <2>1. /\ fitlevel' = IF zoomlevel = 0 THEN FitLevel(Dim[image]) ELSE fitlevel
          /\ scale' = ScaleSize(Dim[image]) /\ UNCHANGED <<zoomtype, zoomlevel, image, window>>
      BY <1>9 DEF Paint
    <2>2. client' = client
      BY <2>1 DEF client, window
    <2> DEFINE d == Dim[image]
    <2>3. d' = d
      BY <2>1
    <2> HIDE DEF d
    <2>4. (ScaleSize(d))' = ScaleSize(d) /\ (FitLevel(d))' = FitLevel(d)
      BY <2>1, <2>2, <2>3 DEF ScaleSize, FitLevel, Natural, Tight
    <2> QED BY <2>1, <2>4 DEF FreshIsComputed, Computed, d
  <1>10. CASE Paint /\ ~(image # None /\ ~(bitmap # None /\ laid = client))
    BY <1>10, KeepsComputed DEF Paint, Fresh, view, window, client
  <1>11. CASE UNCHANGED vars
    BY <1>11, KeepsComputed DEF vars, Fresh, view, window, client
  <1> QED
    BY <1>2, <1>3, <1>4, <1>5, <1>6, <1>7, <1>8, <1>9, <1>10, <1>11 DEF Next

LEMMA ComputedInvariant == Spec => [](Types /\ FreshIsComputed)
  <1>1. Init => Types /\ FreshIsComputed
    BY InitTypes DEF Init, FreshIsComputed, Fresh
  <1>2. Types /\ FreshIsComputed /\ [Next]_vars => (Types /\ FreshIsComputed)'
    BY NextTypes, NextComputed
  <1> QED BY <1>1, <1>2, PTL DEF Spec

-----------------------------------------------------------------------------
(* Arithmetic: the scaled size is monotone in the level.                   *)
LEMMA QuotientMonotone ==
  ASSUME NEW m \in Nat, NEW n \in Nat, m <= n
  PROVE  m \div 100 <= n \div 100
  OBVIOUS

LEMMA ScaledMonotone ==
  ASSUME NEW d \in Positive, NEW k \in Nat, NEW l \in Nat, k <= l, NEW a \in Axis
  PROVE  Scaled(d, k)[a] <= Scaled(d, l)[a]
  <1>1. d[a] \in Nat
    BY DEF Positive
  <1>2. d[a] * k \in Nat /\ d[a] * l \in Nat /\ d[a] * k <= d[a] * l
    BY <1>1
  <1>3. (d[a] * k) \div 100 <= (d[a] * l) \div 100
    BY <1>2, QuotientMonotone
  <1>4. (d[a] * k) \div 100 \in Int /\ (d[a] * l) \div 100 \in Int
    BY <1>2
  <1>5. Scaled(d, k)[a] = Most((d[a] * k) \div 100, 1) /\ Scaled(d, l)[a] = Most((d[a] * l) \div 100, 1)
    BY DEF Scaled
  <1> QED BY <1>3, <1>4, <1>5 DEF Most

(* Up from the level that fits one side c into d: that side becomes no     *)
(* smaller, and the other one, e, was rounded.                             *)
LEMMA UpFromFit ==
  ASSUME NEW c \in Nat \ {0}, NEW d \in Nat \ {0}, NEW e \in Nat \ {0}, NEW l \in Nat,
         l > (c * 100) \div d
  PROVE  /\ (d * l) \div 100 >= c
         /\ (e * l) \div 100 >= (2 * (c * e) + d) \div (2 * d) - 1
  <1> DEFINE fit == (c * 100) \div d
             r == (2 * (c * e) + d) \div (2 * d)
             q == (e * l) \div 100
             ce == c * e
  <1>1. fit \in Int /\ c * 100 < d * fit + d
    OBVIOUS
  <1>2. ce \in Nat
    OBVIOUS
  <1>3. r \in Int /\ (2 * d) * r <= 2 * ce + d
    BY <1>2
  <1>4. e * l \in Nat /\ q \in Int /\ e * l < 100 * q + 100
    OBVIOUS
  <1> HIDE DEF fit, r, q, ce
  <1>5. fit + 1 <= l
    BY <1>1 DEF fit
  <1>6. d * (fit + 1) <= d * l
    BY <1>1, <1>5
  <1>7. c * 100 < d * l /\ d * l \in Nat
    BY <1>1, <1>6
  <1>8. (d * l) \div 100 >= c
    BY <1>7
  <1>9. ASSUME q + 1 < r PROVE FALSE
    <2>1. q + 2 <= r
      BY <1>3, <1>4, <1>9
    <2>2. 100 * (ce) < (e * l) * d
      <3>1. e * (c * 100) < e * (d * l)
        BY <1>7
      <3> QED BY <3>1, <1>2 DEF ce
    <2>3. (e * l) * d < (100 * q + 100) * d
      BY <1>4
    <2>4. ce < (q + 1) * d
      <3>1. (100 * q + 100) * d = 100 * ((q + 1) * d) /\ (q + 1) * d \in Int
        BY <1>4
      <3>2. (e * l) * d \in Int
        BY <1>4
      <3> QED BY <1>2, <2>2, <2>3, <3>1, <3>2
    <2>5. (2 * d) * (q + 2) <= (2 * d) * r
      BY <1>3, <1>4, <2>1
    <2>6. (2 * d) * (q + 2) = 2 * ((q + 1) * d) + 2 * d /\ (q + 1) * d \in Int
      BY <1>4
    <2> QED BY <1>2, <1>3, <2>4, <2>5, <2>6
  <1> QED BY <1>3, <1>4, <1>8, <1>9 DEF r, q, ce

(* Down from it: neither side becomes larger.                              *)
LEMMA DownFromFit ==
  ASSUME NEW c \in Nat \ {0}, NEW d \in Nat \ {0}, NEW e \in Nat \ {0}, NEW l \in Nat,
         l < (c * 100) \div d
  PROVE  /\ (d * l) \div 100 <= c
         /\ (e * l) \div 100 <= (2 * (c * e) + d) \div (2 * d)
  <1> DEFINE fit == (c * 100) \div d
             r == (2 * (c * e) + d) \div (2 * d)
             q == (e * l) \div 100
             ce == c * e
  <1>1. fit \in Int /\ d * fit <= c * 100
    OBVIOUS
  <1>2. ce \in Nat
    OBVIOUS
  <1>3. r \in Int /\ 2 * ce + d < (2 * d) * r + 2 * d
    BY <1>2
  <1>4. e * l \in Nat /\ q \in Int /\ 100 * q <= e * l
    OBVIOUS
  <1> HIDE DEF fit, r, q, ce
  <1>5. l <= fit
    BY <1>1 DEF fit
  <1>6. d * l <= d * fit
    BY <1>1, <1>5
  <1>7. d * l <= c * 100 /\ d * l \in Nat
    BY <1>1, <1>6
  <1>8. (d * l) \div 100 <= c
    BY <1>7
  <1>9. ASSUME r < q PROVE FALSE
    <2>1. r + 1 <= q
      BY <1>3, <1>4, <1>9
    <2>2. (e * l) * d <= 100 * ce
      <3>1. e * (d * l) <= e * (c * 100)
        BY <1>7
      <3> QED BY <3>1, <1>2 DEF ce
    <2>3. (100 * q) * d <= (e * l) * d
      BY <1>4
    <2>4. q * d <= ce
      <3>1. (100 * q) * d = 100 * (q * d) /\ q * d \in Int
        BY <1>4
      <3>2. (e * l) * d \in Int
        BY <1>4
      <3> QED BY <1>2, <2>2, <2>3, <3>1, <3>2
    <2>5. (r + 1) * d <= q * d
      BY <1>3, <1>4, <2>1
    <2>6. (2 * d) * r + 2 * d = 2 * ((r + 1) * d) /\ (r + 1) * d \in Int /\ q * d \in Int
      BY <1>3, <1>4
    <2> QED BY <1>2, <1>3, <2>4, <2>5, <2>6
  <1> QED BY <1>3, <1>4, <1>8, <1>9 DEF r, q, ce

(* A level above the one on the screen, and one below it.                  *)
LEMMA LevelUp ==
  ASSUME Types, Computed, image # None, NEW l \in Nat, l > Level, NEW a \in Axis
  PROVE  Scaled(Dim[image], l)[a] >= scale[a] - 1
  <1> DEFINE d == Dim[image]
             k == Tight(d)
  <1>1. d \in Positive /\ \A b \in Axis : d[b] \in Nat \ {0}
    BY MonitorType DEF Types, PictureType, Positive
  <1>2. zoomlevel \in Nat /\ Scaled(d, l)[a] \in Nat \ {0} /\ scale = ScaleSize(d)
    BY <1>1, ScaledPositive DEF Types, ZoomType, Computed, Positive
  <1>3. (d[a] * l) \div 100 \in Int /\ Scaled(d, l)[a] = Most((d[a] * l) \div 100, 1)
    <2>1. d[a] * l \in Nat
      BY <1>1
    <2> QED BY <2>1 DEF Scaled
  <1>4. CASE zoomlevel # 0
    <2>1. zoomlevel <= l /\ scale = Scaled(d, zoomlevel)
      BY <1>2, <1>4 DEF Level, ScaleSize
    <2>2. scale[a] <= Scaled(d, l)[a] /\ scale[a] \in Nat
      BY <1>1, <1>2, <2>1, ScaledMonotone, ScaledPositive DEF Positive
    <2> QED BY <1>2, <2>2
  <1>5. CASE zoomlevel = 0 /\ Natural(d)
    <2>1. scale[a] = d[a] /\ l > 100
      BY <1>2, <1>5 DEF Level, ScaleSize, FitLevel, Computed
    <2>2. d[a] * l >= d[a] * 100 /\ d[a] * l \in Nat
      BY <1>1, <2>1
    <2>3. (d[a] * l) \div 100 >= d[a]
      BY <1>1, <2>2
    <2> QED BY <1>1, <1>3, <2>1, <2>3 DEF Most
  <1>6. CASE zoomlevel = 0 /\ ~Natural(d)
    <2>1. k \in Axis
      BY DEF Tight, Axis
    <2>2. client[k] \in Nat \ {0}
      BY <2>1, ClientPositive DEF Types, WindowType, Positive
    <2>3. l > (client[k] * 100) \div d[k]
      BY <1>6 DEF Level, FitLevel, Computed
    <2>4. scale[a] = IF a = k THEN client[k]
                     ELSE Most((2 * (client[k] * d[a]) + d[k]) \div (2 * d[k]), 1)
      BY <1>2, <1>6 DEF ScaleSize
    <2> HIDE DEF k, d
    <2>5. /\ (d[k] * l) \div 100 >= client[k]
          /\ (d[a] * l) \div 100 >= (2 * (client[k] * d[a]) + d[k]) \div (2 * d[k]) - 1
      BY <1>1, <2>1, <2>2, <2>3, UpFromFit
    <2>6. (2 * (client[k] * d[a]) + d[k]) \div (2 * d[k]) \in Int
      <3>1. client[k] * d[a] \in Nat
        BY <1>1, <2>2
      <3> QED BY <1>1, <2>1, <3>1
    <2> HIDE DEF k
    <2>7. CASE a = k
      BY <1>3, <2>2, <2>4, <2>5, <2>7 DEF Most, d
    <2>8. CASE a # k
      BY <1>3, <2>4, <2>5, <2>6, <2>8 DEF Most, d
    <2> QED BY <2>7, <2>8
  <1> QED BY <1>4, <1>5, <1>6

LEMMA LevelDown ==
  ASSUME Types, Computed, image # None, NEW l \in Nat, l < Level, NEW a \in Axis
  PROVE  Scaled(Dim[image], l)[a] <= scale[a]
  <1> DEFINE d == Dim[image]
             k == Tight(d)
  <1>1. d \in Positive /\ \A b \in Axis : d[b] \in Nat \ {0}
    BY MonitorType DEF Types, PictureType, Positive
  <1>2. zoomlevel \in Nat /\ Scaled(d, l)[a] \in Nat \ {0} /\ scale = ScaleSize(d)
    BY <1>1, ScaledPositive DEF Types, ZoomType, Computed, Positive
  <1>3. (d[a] * l) \div 100 \in Int /\ Scaled(d, l)[a] = Most((d[a] * l) \div 100, 1)
    <2>1. d[a] * l \in Nat
      BY <1>1
    <2> QED BY <2>1 DEF Scaled
  <1>4. CASE zoomlevel # 0
    <2>1. l <= zoomlevel /\ scale = Scaled(d, zoomlevel)
      BY <1>2, <1>4 DEF Level, ScaleSize
    <2> QED BY <1>1, <1>2, <2>1, ScaledMonotone
  <1>5. CASE zoomlevel = 0 /\ Natural(d)
    <2>1. scale[a] = d[a] /\ l < 100
      BY <1>2, <1>5 DEF Level, ScaleSize, FitLevel, Computed
    <2>2. d[a] * l <= d[a] * 100 /\ d[a] * l \in Nat
      BY <1>1, <2>1
    <2>3. (d[a] * l) \div 100 <= d[a]
      BY <1>1, <2>2
    <2> QED BY <1>1, <1>3, <2>1, <2>3 DEF Most
  <1>6. CASE zoomlevel = 0 /\ ~Natural(d)
    <2>1. k \in Axis
      BY DEF Tight, Axis
    <2>2. client[k] \in Nat \ {0}
      BY <2>1, ClientPositive DEF Types, WindowType, Positive
    <2>3. l < (client[k] * 100) \div d[k]
      BY <1>6 DEF Level, FitLevel, Computed
    <2>4. scale[a] = IF a = k THEN client[k]
                     ELSE Most((2 * (client[k] * d[a]) + d[k]) \div (2 * d[k]), 1)
      BY <1>2, <1>6 DEF ScaleSize
    <2> HIDE DEF k, d
    <2>5. /\ (d[k] * l) \div 100 <= client[k]
          /\ (d[a] * l) \div 100 <= (2 * (client[k] * d[a]) + d[k]) \div (2 * d[k])
      BY <1>1, <2>1, <2>2, <2>3, DownFromFit
    <2>6. (2 * (client[k] * d[a]) + d[k]) \div (2 * d[k]) \in Int
      <3>1. client[k] * d[a] \in Nat
        BY <1>1, <2>2
      <3> QED BY <1>1, <2>1, <3>1
    <2>7. CASE a = k
      BY <1>3, <2>2, <2>4, <2>5, <2>7 DEF Most, d
    <2>8. CASE a # k
      BY <1>3, <2>4, <2>5, <2>6, <2>8 DEF Most, d
    <2> QED BY <2>7, <2>8
  <1> QED BY <1>4, <1>5, <1>6

(* zoom() from what is on the screen makes it larger or smaller as it was  *)
(* asked to (ImageView.cpp:305-342), from a level of the list and from     *)
(* one that OnPaint() has fitted, however the other side was rounded.      *)
THEOREM ZoomGoesThatWay == Spec => ZoomDirection
  <1> DEFINE Way == Painted =>
       /\ ZoomIn => \A a \in Axis : Scaled(Dim[image], zoomlevel')[a] >= scale[a] - 1
       /\ ZoomOut => \A a \in Axis : Scaled(Dim[image], zoomlevel')[a] <= scale[a]
       /\ ZoomIn \/ ZoomOut => Level' # Level
  <1>1. ASSUME Types, FreshIsComputed, Painted PROVE Way
    <2>1. Computed /\ image # None /\ Level \in Nat
      BY <1>1 DEF Painted, FreshIsComputed, Fresh, Types, ZoomType, Level
    <2>2. Levels \subseteq Nat \ {0}
      BY DEF Levels
    <2>3. ASSUME ZoomIn PROVE zoomlevel' \in Nat \ {0} /\ zoomlevel' > Level
      BY <2>2, <2>3 DEF ZoomIn, ZoomTo, Above
    <2>4. ASSUME ZoomOut PROVE zoomlevel' \in Nat \ {0} /\ zoomlevel' < Level
      BY <2>2, <2>4 DEF ZoomOut, ZoomTo, Below
    <2>5. ASSUME ZoomIn, NEW a \in Axis PROVE Scaled(Dim[image], zoomlevel')[a] >= scale[a] - 1
      BY <1>1, <2>1, <2>3, <2>5, LevelUp
    <2>6. ASSUME ZoomOut, NEW a \in Axis PROVE Scaled(Dim[image], zoomlevel')[a] <= scale[a]
      BY <1>1, <2>1, <2>4, <2>6, LevelDown
    <2>7. zoomlevel' \in Nat \ {0} => Level' = zoomlevel'
      BY DEF Level
    <2>8. ASSUME ZoomIn \/ ZoomOut PROVE Level' # Level
      BY <2>1, <2>3, <2>4, <2>7, <2>8
    <2> QED BY <2>5, <2>6, <2>8
  <1>2. Types /\ FreshIsComputed => [Way]_vars
    BY <1>1
  <1> QED BY <1>2, ComputedInvariant, PTL DEF ZoomDirection
=============================================================================
