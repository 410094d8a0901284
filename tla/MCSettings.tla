------------------------------ MODULE MCSettings ------------------------------
(* Two instances, two local files and a remote one that shares a path with a  *)
(* local one, lists of two; two monitors, one smaller than the least window.  *)
EXTENDS Settings

CONSTANTS i1, i2, a, b, h, x, y

\* Instances and addresses are only ever compared.
Alike == Permutations({i1, i2}) \union Permutations({x, y})

MCRemotes == {[path |-> a, host |-> h, port |-> "1"]}
Box(l, t, r, d) == [left |-> l, top |-> t, right |-> r, bottom |-> d]
MCRects == {Box(7, -3, 20, -2), Box(3, 3, 3, 4)}
MCWorks == {Box(0, 0, 9, 7), Box(-4, 1, -2, 3)}
=============================================================================
