----------------------------- MODULE MCAnimate -----------------------------
(* Instances of Animate for TLC. *)
EXTENDS Animate

Movie(delays, loops) == [delays |-> delays, loops |-> loops]
Endless == Movie(<<3, 4>>, 0)
Twice == Movie(<<3, 4>>, 2)
\* Frames without delay at either end and in the middle, or first with a delay.
Skipping == Movie(<<0, 3, 0, 3, 0>>, 2)

Gaps == Movie(<<3, 0, 4, 0>>, 2)
\* No frame with a delay: as a WebP file without end, and as a GIF file, which
\* plays once.
Still == Movie(<<0, 0>>, 0)
Instant == Movie(<<0, 0>>, 1)

AllMovies == {Endless, Twice, Skipping, Gaps, Still, Instant}
OnlyStill == {Still}
OnTime == {0}
MCSlips == {-1, 0, 20}
MCDelays == {60}

\* The premise of ScheduleIsKept (AnimateProofs).
ASSUME MCInTime == InTime
=============================================================================
