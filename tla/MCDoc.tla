-------------------------------- MODULE MCDoc --------------------------------
(* Instances of Doc for TLC.  Names are numbers, in order. *)
EXTENDS Doc

LongKey  == <<1, 2, 3, 4>>
ShortKey == <<1, 2>>

Album(fs, d, names) == {File(fs, d, n) : n \in names}

\* Broken files.
BrokenLocal == Album("local", "home", {1})
BrokenRemote == Album("remote", "pics", {2})
\* A server's folder next to a local one of its name and to a broken local file.
BothSides == Album("local", "pics", {2}) \union Album("remote", "pics", 1 .. 4) \union BrokenLocal
Mixed == Album("local", "home", {1}) \union Album("remote", "pics", {1, 2})
\* A local folder and one that repeats a name of it.
TwoFolders == Album("local", "home", {1, 2}) \union Album("local", "trip", {1})
NoFiles == {}
=============================================================================
