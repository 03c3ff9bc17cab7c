------------------------------ MODULE MCStartup -----------------------------
(***************************************************************************)
(* Two 9P drivers, other software with a drive, a patch and a volume, one  *)
(* directory besides the root and two WDCBs to use.                         *)
(***************************************************************************)
EXTENDS Startup

CONSTANTS nineP1, nineP2, alien, else, rom, folder, root

Drivers == {nineP1, nineP2}
Aliens == {alien}
Folders == {folder}
=============================================================================
