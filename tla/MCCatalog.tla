----------------------------- MODULE MCCatalog -----------------------------
(***************************************************************************)
(* A directory in the root with a directory and a file in it, all known to *)
(* the driver, and a node that may appear.  Two names, so that files can   *)
(* take each other's place.  Requests of two components make browse loop.  *)
(*                                                                         *)
(* Three worlds: the host acts between calls; paths have empty components; *)
(* the host acts during a call.                                            *)
(***************************************************************************)
EXTENDS Catalog, TLC

CONSTANTS root, outer, inner, spare, file, x, y, dotdot, gone, noname

AllNodes == {root, outer, inner, spare, file}
Directories == {root, outer, inner, spare}
AllButSpare == AllNodes \ {spare}
SmallTree ==
  root :> AtRoot @@ outer :> [dir |-> root, name |-> x]
  @@ inner :> [dir |-> outer, name |-> x] @@ file :> [dir |-> outer, name |-> y]
  @@ spare :> Nowhere
Fids == {2, 9, 10, 11, 12, 27}

World(r, c, m, d, i) == [rel |-> r, calls |-> c, moves |-> m, dots |-> d, interferes |-> i]

WorldsValue ==
  {World(1, 2, 2, FALSE, FALSE), World(3, 2, 0, TRUE, FALSE), World(2, 1, 2, TRUE, TRUE)}
=============================================================================
