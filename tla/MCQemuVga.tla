----------------------------- MODULE MCQemuVga ------------------------------
(* QemuVga with a monitor without an EDID, one that names a mode twice, and *)
(* one with modes too large; 4 MB of adapter memory.                        *)
EXTENDS QemuVga

NoEdid == [valid |-> FALSE, standard |-> <<>>, extended |-> <<>>, extension |-> <<>>]

Plain ==
  [valid |-> TRUE, standard |-> <<Size(800, 600), Size(640, 480), Size(1024, 768)>>,
   extended |-> <<Size(640, 350), Size(1024, 768)>>, extension |-> <<Size(640, 480)>>]

Wide ==
  [valid |-> TRUE, standard |-> <<Size(1024, 768)>>,
   extended |-> <<Size(1280, 1024), Size(1600, 1200)>>,
   extension |-> <<Size(800, 450), Size(1920, 1080)>>]

EdidsValue == {NoEdid, Plain, Wide}
BootSizesValue == {Size(640, 480), Size(1024, 768), Size(1152, 870)}
=============================================================================
