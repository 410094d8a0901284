------------------------------ MODULE MCSession ------------------------------
(* Two servers, one with a file whose name tells the wrong type and an        *)
(* obfuscated file, the other empty; on the disk a file and a free name.      *)
EXTENDS ConnectDlg

CONSTANTS near, far, photo, hidden, root, sub

MCExt == (photo :> "gdi") @@ (hidden :> "zdata")
MCKind == (0 :> "gdi") @@ (1 :> "webp")
MCInitial ==
  [file \in Stored |->
     CASE file = <<Disk, photo>> -> <<0, 1, 0>>
       [] file = <<near, photo>> -> <<1, 0, 1>>
       [] file = <<near, hidden>> -> <<0, 1, 1>>
       [] OTHER -> Missing]
\* seedAfter() against the loop of read(), over MaxLen positions.
ASSUME MCJumps == JumpIsSteps

MCEdits == {<<0, 0>>}
MCParent == (root :> root) @@ (sub :> root)
MCDirOf == (photo :> root) @@ (hidden :> sub)
=============================================================================
