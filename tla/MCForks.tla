------------------------------- MODULE MCForks ------------------------------
(***************************************************************************)
(* Two files and three FCBs; the second file's resource fork is not opened.*)
(***************************************************************************)
EXTENDS Forks

CONSTANTS f1, f2, none

Files == {f1, f2}
BothAndData == {<<f1, Data>>, <<f1, Rsrc>>, <<f2, Data>>}
First == {f1}
SecondData == {<<f2, Data>>}
Refnums == {2, 96, 190}
=============================================================================
