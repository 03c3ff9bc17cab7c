---------------------------- MODULE MCVirtqueue -----------------------------
(***************************************************************************)
(* Small queues for TLC.  Two descriptors and indices that wrap at four    *)
(* (or eight) reach every overlap of the index windows and wrap many times *)
(* in a behaviour; messages of one and two buffers fill the queue and      *)
(* fragment it.                                                            *)
(***************************************************************************)
EXTENDS Virtqueue

OneAndTwo == {1, 2}
TwoOnly == {2}
=============================================================================
