------------------------------ MODULE MCFolders -----------------------------
(***************************************************************************)
(* The root holds a directory and a file, and there is room for one more,  *)
(* listed between them, which may be a sidecar (h).                         *)
(***************************************************************************)
EXTENDS Folders, TLC

CONSTANTS root, dir, file, spare, x, y, h, dotdot, gone, noname

AllNodes == {root, dir, file, spare}
Directories == {root, dir}
Names == {x, y, h}
Conceals == {h}
SmallTree ==
  root :> AtRoot @@ dir :> [dir |-> root, name |-> x]
  @@ file :> [dir |-> root, name |-> y] @@ spare :> Nowhere
Cookies == root :> 9 @@ dir :> 1 @@ spare :> 2 @@ file :> 3
Fids == {2, 3, 22}
=============================================================================
