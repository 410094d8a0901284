---------------------------- MODULE MCImageView ----------------------------
(* A wide image that is larger than the monitor and one that is smaller    *)
(* than the view, on a monitor of 10 by 6.                                 *)
EXTENDS ImageView

CONSTANTS wide, small

XY(x, y) == [a \in Axis |-> IF a = "x" THEN x ELSE y]
Box(left, top, right, bottom) == XY([lo |-> left, hi |-> right], [lo |-> top, hi |-> bottom])

MCImages == {wide, small}
MCDim == [i \in MCImages |-> IF i = wide THEN XY(13, 5) ELSE XY(3, 4)]
MCWork == Box(0, 0, 10, 6)
MCChrome == XY(1, 1)
MCMinSize == XY(4, 1)
MCFrames == {Box(1, 1, 7, 5), Box(4, 2, 9, 6)}
MCPoints == {XY(1, 1), XY(3, 0)}
MCDragLevels == {20, 150}
MCReach == {50, 70, 100, 150}
=============================================================================
