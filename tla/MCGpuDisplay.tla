---------------------------- MODULE MCGpuDisplay ----------------------------
(***************************************************************************)
(* Small displays for TLC.  Two buffers let updates overlap and make the   *)
(* third wait.  Two tiles are drawn, merged and shown separately.          *)
(***************************************************************************)
EXTENDS GpuDisplay

OneTile == {1}
TwoTiles == {1, 2}
=============================================================================
