--------------------------- MODULE MCInputEvents ----------------------------
(***************************************************************************)
(* Three buffers hold one packet of two changes and its EV_SYN, or a packet *)
(* of one change while the buffer of another is still in use.  Positions    *)
(* are alike (nothing chooses one of them, unlike Buttons, whose events a   *)
(* packet puts in an order), so states that only swap them are one.        *)
(***************************************************************************)
EXTENDS InputEvents

PositionSymmetry == Permutations(Positions)
=============================================================================
