----------------------------- MODULE MCGpuModes -----------------------------
(***************************************************************************)
(* A machine of 32 MB, whose frame buffers are of 4 MB each: the host may  *)
(* want a built-in size, one that fits and one that must be made smaller.  *)
(***************************************************************************)
EXTENDS GpuModes

Windows == {Size(832, 624), Size(1036, 1028)}
ThirtyTwo == 32 * 1024 * 1024
Client(calls, depths, n) == [calls |-> calls, depths |-> depths, resizes |-> n]
Painters == Client({"SetMode", "SwitchMode", "SetEntries", "SetGamma"},
                   {k1bit, k8bit, k32bit}, 1)
Pointers == Client({"SwitchMode", "SetHardwareCursor", "DrawHardwareCursor"},
                   {k32bit}, 0)
Designers == Client({"SetHardwareCursor", "DrawHardwareCursor", "SetGamma", "DirtyRectCallback",
                     "GrayPage"}, {}, 0)
All == {Painters, Pointers, Designers}
Tables == <<"mac", "linear", "ntsc">>
Tops == {-1, 400, 620}
=============================================================================
