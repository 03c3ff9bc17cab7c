------------------------------ MODULE MCHashTab -----------------------------
(***************************************************************************)
(* Tables of four slots that may grow to eight, blocks of four words that  *)
(* may grow to eight.  All three keys meet around the end of the small     *)
(* table and have slots of their own in the large one.  The short value    *)
(* is inline, the others fill two words and three.                         *)
(***************************************************************************)
EXTENDS HashTab, TLC

CONSTANTS k1, k2, k3, short, two, three

Keys3 == {k1, k2, k3}
Hashes == k1 :> 3 @@ k2 :> 7 @@ k3 :> 0

Values == {short, two, three}
Lengths == short :> 4 @@ two :> 16 @@ three :> 24
=============================================================================
