----------------------------- MODULE MCSlideShow -----------------------------
(* Instances of SlideShow for TLC. *)
EXTENDS SlideShow

CONSTANTS a, b, c

TwoOfThree == <<a, b>>
\* A file that is in the list twice.
Repeating == {<<c, a, c>>}
=============================================================================
