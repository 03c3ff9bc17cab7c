------------------------------ MODULE GpuModes ------------------------------
(***************************************************************************)
(* What the display driver's control calls set (device-gpu.c): resolution  *)
(* and depth, with the list of resolutions whose last entry follows the    *)
(* host's window; colour table and gamma table; and the cursor that the    *)
(* driver draws into the front buffer itself.                              *)
(*                                                                         *)
(* Who runs.  Control calls and the notification run on the main line; the *)
(* frame timer and DConfigChange interrupt it, except in the notification, *)
(* which runs in ATOMIC.  The host runs in parallel with all of them.  How *)
(* updates and the commands of a mode change get to the host is the        *)
(* subject of GpuDisplay; here a mode change succeeds or is refused.       *)
(*                                                                         *)
(* The screen is modelled in one dimension, its rows.                      *)
(***************************************************************************)
EXTENDS Integers, Sequences, FiniteSets, FiniteSetsExt

CONSTANTS
  Wishes,      (* the sizes that the host's window takes                   *)
  Clients,     (* sets of control calls, of depths, and how often the      *)
               (* window changes: a behaviour keeps to one of them (bound) *)
  Ram,         (* Gestalt's 'ram ', from which bufsize follows             *)
  Gammas,      (* gamma tables that are set                                *)
  builtinGamma,(* those that the driver lists, the first one set at first  *)
  Colours,     (* colours of applications                                  *)
  Entries,     (* the entries of the colour table that are looked at       *)
  Heights,     (* heights of the opaque part of a cursor's image           *)
  Places,      (* rows where the cursor may be put                         *)
  HostRefuses, (* the host may have no room for a resource                 *)
  HookTorn     (* an interrupt may fall into lateBootHook's DConfigChange  *)

k1bit == 128
k8bit == 131
k16bit == 132
k32bit == 133

ASSUME ModesAssumption ==
  /\ Wishes \subseteq [w : 1 .. 4096, h : 1 .. 4096] /\ Wishes # {}
  /\ Ram \in Nat
  /\ \A c \in Clients : c.depths \subseteq k1bit .. k32bit
  /\ Entries \subseteq 0 .. 255 /\ builtinGamma \in Seq(STRING) \ {<<>>}
  /\ Heights \subseteq 0 .. 16 /\ Places \subseteq Int
  /\ HostRefuses \in BOOLEAN /\ HookTorn \in BOOLEAN

VARIABLES
  client,      (* what may happen in this behaviour; never changes         *)
  rezzes, size, depth,
  (* the host: its window, VIRTIO_GPU_EVENT_DISPLAY, how often resized     *)
  window, eventsRead, resizes,
  configIrq,   (* ISR bit 2 is raised                                      *)
  configTasks, (* configIntBottomHalf, queued                              *)
  installed,   (* how often rec is in the Notification Manager's queue     *)
  pending,     (* pending_notification                                     *)
  hook,        (* lateBootHook: still to come, in DConfigChange, done      *)
  task,        (* where the main line is                                   *)
  best,        (* what getBestSize answered last: to which window, what    *)
  refused,     (* the last resolution put into rezzes was not adopted      *)
  gamma, public, private,
  cursor,      (* curs_set, curs_visible, curs_t, curs_b and what          *)
               (* curs_front was made with                                 *)
  traces,      (* rows of the front buffer that show a cursor              *)
  smudged,     (* a trace may be left until the next frame                 *)
  moving,      (* DrawHardwareCursor on the main line: the cursor before   *)
               (* and after, while it is under way                         *)
  told         (* history: whether the last SetHardwareCursor succeeded,   *)
               (* what the last DrawHardwareCursor that did was told       *)

listVars == <<rezzes, size, depth, refused>>
hostVars == <<window, eventsRead, resizes>>
noteVars == <<configIrq, configTasks, installed, pending, hook, best>>
colourVars == <<gamma, public, private>>
cursorVars == <<cursor, traces, smudged, moving, told>>
vars == <<client, listVars, hostVars, noteVars, task, colourVars, cursorVars>>

-----------------------------------------------------------------------------
(* Sizes and buffers *)

Largest(a, b) == IF a > b THEN a ELSE b
Least(a, b) == IF a < b THEN a ELSE b

Size(w, h) == [w |-> w, h |-> h]
NoSize == Size(0, 0)
BuiltIn == <<Size(512, 342), Size(640, 480), Size(800, 600), Size(1024, 768), NoSize>>

(* Bits of a pixel *)
Bits(d) == <<1, 2, 4, 8, 16, 32>>[d - k1bit + 1]

BlitterAlign == <<4, 4, 4, 1, 2, 4>>

RowbytesForBack(d, w) ==
  LET bytes == (w * Bits(d) + 7) \div 8
      align == BlitterAlign[d - k1bit + 1]
  IN  ((bytes + align - 1) \div align) * align

RowbytesForFront(d, w) == RowbytesForBack(d, w) * (Bits(k32bit) \div Bits(d))

(* Blit widens the columns it is given to whole units of the back buffer.   *)
BlitColumns(d, l, r) ==
  LET pixalign == (BlitterAlign[d - k1bit + 1] * 8) \div Bits(d)
  IN  [l |-> (l \div pixalign) * pixalign, r |-> ((r + pixalign - 1) \div pixalign) * pixalign]

Bytes(d, s) == s.h * RowbytesForBack(d, s.w)

MAXBUF == 64 * 1024 * 1024
MINBUF == 2 * 1024 * 1024

(* Halve until an eighth of the memory (and a little) is not exceeded,      *)
(* which 13 times suffice for.                                              *)
bufsize ==
  LET half[n \in 0 .. 13] ==
        IF n = 0 THEN MAXBUF
        ELSE IF Ram # 0 /\ half[n - 1] > (Ram + 65536) \div 8 THEN half[n - 1] \div 2
        ELSE half[n - 1]
  IN  half[13]

(* initialize gives up when the buffers get less.                           *)
ASSUME EnoughRam == bufsize >= MINBUF

(* Cancel the aspect ratio down: every i less than both terms divides them  *)
(* as often as it can.  Each time halves them at least.                     *)
Divided(r, i) ==
  IF r.w % i = 0 /\ r.h % i = 0 THEN Size(r.w \div i, r.h \div i) ELSE r

Without(r, i) ==
  LET out[n \in 0 .. 12] == IF n = 0 THEN r ELSE Divided(out[n - 1], i)
  IN  out[12]

Cancelled(s) ==
  LET common(r) == {i \in 2 .. Least(r.w, r.h) - 1 : r.w % i = 0 /\ r.h % i = 0}
      out[n \in 0 .. 12] ==
        IF n = 0 THEN s
        ELSE IF common(out[n - 1]) = {} THEN out[n - 1]
        ELSE Without(out[n - 1], Min(common(out[n - 1])))
  IN  out[12]

(* One size down: by the ratio itself, or a row or column at a time with    *)
(* the other dimension rounded to nearest.                                 *)
Smaller(s, r) ==
  IF r.w <= 256 /\ r.h <= 256 THEN Size(s.w - r.w, s.h - r.h)
  ELSE IF s.w > s.h THEN Size(((s.h - 1) * r.w + r.h \div 2) \div r.h, s.h - 1)
  ELSE Size(s.w - 1, ((s.w - 1) * r.h + r.w \div 2) \div r.w)

(* getBestSize: the host's wish, smaller if the buffers demand it.  No step *)
(* makes the sum of both larger.                                            *)
MaxSteps == 2 * 4096

Fits(s) == Bytes(k32bit, s) <= bufsize

BestSize(s) ==
  LET ratio == Cancelled(s)
      down[n \in 0 .. MaxSteps] == IF n = 0 THEN s ELSE Smaller(down[n - 1], ratio)
  IN  down[CHOOSE n \in 0 .. MaxSteps : Fits(down[n]) /\ \A m \in 0 .. n - 1 : ~Fits(down[m])]

Best == [s \in Wishes |-> BestSize(s)]

(* idForRes: the fifth entry answers for every size not found before it.    *)
IdForRes(s) ==
  LET known == {i \in 1 .. 4 : rezzes[i] = s}
  IN  IF known = {} THEN 5 ELSE Min(known)

Forced(s) == [rezzes EXCEPT ![IdForRes(s)] = s]

(* Slip: the fifth resolution is never counted. *)
BuiltInCount == 4

ResCount == IF rezzes[5].w = 0 THEN 4 ELSE 5

(* GetNextResolution, called over and over.                                 *)
Resolutions == {[id |-> i, size |-> rezzes[i]] : i \in 1 .. ResCount}

GetCurMode == [id |-> IdForRes(size), depth |-> depth]

(* The mode of the size that is set is the default one. *)
GetModeTiming(id) == [default |-> rezzes[id] = size]

GetVideoParameters(id, d) ==
  [bounds |-> rezzes[id], rowBytes |-> RowbytesForBack(d, rezzes[id].w), indexed |-> d <= k8bit]

(* grayPattern goes from row to row in steps that may end beyond the row:   *)
(* where the last one ends.                                                 *)
GrayPattern(d, s) ==
  LET row == RowbytesForBack(d, s.w)
      step == IF d = k32bit THEN 8 ELSE 4
  IN  (s.h - 1) * row + ((row + step - 1) \div step) * step

-----------------------------------------------------------------------------
(* The cursor and the front buffer *)

(* blitCursor stays on the screen. *)
OnScreen(c, s) == Largest(0, c.t) .. Least(c.b, s.h) - 1

(* updateScreen: Blit, and the cursor again where it was overdrawn.         *)
Overlaps(c, t, b) == c.visible /\ c.t < b /\ t < c.b

Blit(rows, t, b) == {r \in rows : ~(t <= r /\ r < b)}

Repainted(rows, c, s, t, b) ==
  IF Overlaps(c, t, b) THEN rows \union OnScreen(c, s) ELSE rows

Updated(c, s, t, b) == Repainted(Blit(traces, t, b), c, s, t, b)

UpdateScreen(t, b) == traces' = Updated(cursor, size, t, b)

UpdateAll(c, s) ==
  /\ traces' = Updated(c, s, 0, s.h) \intersect 0 .. s.h - 1
  /\ smudged' = FALSE

GetHardwareCursorDrawState == [set |-> cursor.set, visible |-> cursor.visible, t |-> cursor.t]

GammaCursor(c, g) == [c EXCEPT !.gamma = g]

(* The cursor goes with the gamma table. *)
SetGammaTable(g) == gamma' = g /\ cursor' = GammaCursor(cursor, g)

-----------------------------------------------------------------------------
(* Colours.  A private entry is a public one seen through a gamma table.    *)

ReCLUT(colour, g) == <<colour, g>>

GetEntries(e) == public[e]

InUse(d) == {e \in Entries : e < 2 ^ Bits(d)}

(* Slip: the private entries are left to the next SetEntries. *)
GrayPublic(d) ==
  /\ public' = [e \in Entries |-> IF d > k8bit THEN public[e] ELSE "gray"]
  /\ UNCHANGED private

GrayCLUT(d) ==
  IF d > k8bit THEN UNCHANGED <<public, private>>
  ELSE /\ public' = [e \in Entries |-> "gray"]
       /\ private' = [e \in Entries |-> ReCLUT("gray", gamma)]

LinearCLUT(d, g) ==
  IF d > k8bit THEN UNCHANGED <<public, private>>
  ELSE /\ public' = [e \in Entries |-> IF e \in InUse(d) THEN "linear" ELSE public[e]]
       /\ private' = [e \in Entries |-> IF e \in InUse(d) THEN ReCLUT("linear", g)
                                        ELSE private[e]]

FirstGamma == 128
LastGamma == FirstGamma + Len(builtinGamma) - 1
FindFirst == -2
Specific == 0
NoMoreTables == -3
ParamErr == -50

(* The ID after another, or NoMoreTables; or an ID itself, if there is one. *)
GetGammaInfoList(previous, id) ==
  IF previous = FindFirst THEN FirstGamma
  ELSE IF previous = Specific THEN IF id \in FirstGamma .. LastGamma THEN id ELSE ParamErr
  ELSE IF previous \in FirstGamma .. LastGamma - 1 THEN previous + 1
  ELSE IF previous = LastGamma THEN NoMoreTables ELSE ParamErr

(* No table, or one. *)
RetrieveGammaTable(id) ==
  {builtinGamma[i] : i \in {j \in DOMAIN builtinGamma : FirstGamma + j - 1 = id}}

-----------------------------------------------------------------------------
(* mode, for control calls: the host has room or the call fails.            *)
Mode(d, id) ==
  /\ size' = rezzes[id]
  /\ depth' = d
  /\ refused' = FALSE
  /\ GrayCLUT(d)
  /\ UpdateAll(cursor, rezzes[id])
  /\ UNCHANGED <<rezzes, gamma, cursor, moving, told>>

Refused == HostRefuses /\ UNCHANGED <<listVars, colourVars, cursorVars>>

(* initialize: buffers of the size that memory allows, at least MINBUF; the *)
(* host's wish in 32 bits; no cursor.                                       *)
Init ==
  /\ client \in Clients
  /\ window \in Wishes
  /\ best = [window |-> window, size |-> Best[window]]
  /\ size = best.size
  /\ rezzes = [BuiltIn EXCEPT ![IF \E i \in 1 .. 4 : BuiltIn[i] = size
                                THEN CHOOSE i \in 1 .. 4 : BuiltIn[i] = size ELSE 5] = size]
  /\ depth = k32bit
  /\ resizes = 0 /\ eventsRead = FALSE
  /\ configIrq = FALSE /\ configTasks = 0 /\ installed = 0 /\ pending = FALSE
  /\ hook = "to come" /\ task = "idle" /\ refused = FALSE
  /\ gamma = builtinGamma[1]
  /\ public = [e \in Entries |-> "black"]
  /\ private = [e \in Entries |-> ReCLUT("none", gamma)]
  /\ cursor = [set |-> FALSE, visible |-> FALSE, t |-> 0, b |-> 0, gamma |-> gamma]
  /\ traces = {} /\ smudged = FALSE /\ moving = <<>>
  /\ told = [set |-> FALSE, visible |-> FALSE, t |-> 0]

-----------------------------------------------------------------------------
(* The host's window, and the interrupt for it *)

HostResizes ==
  /\ resizes < client.resizes /\ resizes' = resizes + 1
  /\ \E s \in Wishes \ {window} : window' = s
  /\ eventsRead' = TRUE
  /\ configIrq' = TRUE
  /\ UNCHANGED <<client, listVars, configTasks, installed, pending, hook, best, task,
                 colourVars, cursorVars>>

MayInterrupt == task \notin {"asking", "setting"}
(* The main line is free for a notification or the next control call.      *)
MainIdle == task = "idle" /\ hook # "installing" /\ moving = <<>>

Called(call) == MainIdle /\ call \in client.calls

(* interruptTopHalf: reading the flags lowers the interrupt. *)
ConfigTopHalf ==
  /\ configIrq
  /\ configIrq' = FALSE
  /\ configTasks' = configTasks + 1
  /\ UNCHANGED <<client, listVars, hostVars, installed, pending, hook, best, task,
                 colourVars, cursorVars>>

(* Slip: nothing is remembered of the record that is queued. *)
PostAgain ==
  /\ installed' = installed + 1
  /\ pending' = TRUE

(* DConfigChange: one record, which must not be queued twice.               *)
Post ==
  /\ installed' = IF pending THEN installed ELSE installed + 1
  /\ pending' = TRUE

DConfigChange ==
  /\ configTasks > 0 /\ MayInterrupt
  /\ hook = "installing" => HookTorn
  /\ configTasks' = configTasks - 1
  /\ Post
  /\ UNCHANGED <<client, listVars, hostVars, configIrq, hook, best, task, colourVars,
                 cursorVars>>

(* lateBootHook, on the main line: the screen is drawn, and DConfigChange   *)
(* finds no notification pending or returns...                              *)
LateBootHook ==
  /\ MainIdle /\ hook = "to come"
  /\ UpdateAll(cursor, size)
  /\ hook' = IF pending THEN "done" ELSE "installing"
  /\ UNCHANGED <<client, listVars, hostVars, configIrq, configTasks, installed, pending,
                 best, task, colourVars, cursor, moving, told>>

(* ... and installs one. *)
LateBootInstalls ==
  /\ hook = "installing"
  /\ hook' = "done"
  /\ installed' = installed + 1
  /\ pending' = TRUE
  /\ UNCHANGED <<client, listVars, hostVars, configIrq, configTasks, best, task, colourVars,
                 cursorVars>>

-----------------------------------------------------------------------------
(* notificationProc, when an application gives time *)

(* Slip: pending_notification stays set when there is nothing to do. *)
NotificationForgets ==
  /\ MainIdle /\ installed > 0
  /\ installed' = installed - 1
  /\ pending' = ~eventsRead
  /\ task' = IF eventsRead THEN "asking" ELSE "idle"
  /\ eventsRead' = FALSE
  /\ UNCHANGED <<client, listVars, window, resizes, configIrq, configTasks, hook, best,
                 colourVars, cursorVars>>

NotificationAtomic ==
  /\ MainIdle /\ installed > 0
  /\ installed' = installed - 1
  /\ pending' = FALSE
  /\ task' = IF eventsRead THEN "asking" ELSE "idle"
  /\ eventsRead' = FALSE
  /\ UNCHANGED <<client, listVars, window, resizes, configIrq, configTasks, hook, best,
                 colourVars, cursorVars>>

(* Asked of the host, whose window may have changed since the event.        *)
GetSuggestedSizes == window

GetBestSize ==
  /\ task = "asking"
  /\ best' = [window |-> GetSuggestedSizes, size |-> Best[GetSuggestedSizes]]
  /\ task' = IF best'.size = size THEN "idle" ELSE "setting"
  /\ UNCHANGED <<client, listVars, hostVars, configIrq, configTasks, installed, pending,
                 hook, colourVars, cursorVars>>

(* DMSetDisplayMode comes back with SwitchMode to the ID it is given, at    *)
(* the depth of before; or the mode is refused, and its entry stays.        *)
DMSetDisplayMode ==
  /\ task = "setting"
  /\ task' = "idle"
  /\ rezzes' = Forced(best.size)
  /\ \/ /\ size' = rezzes'[IdForRes(best.size)]
        /\ refused' = FALSE
        /\ GrayCLUT(depth)
        /\ UpdateAll(cursor, size')
     \/ /\ HostRefuses
        /\ refused' = TRUE
        /\ UNCHANGED <<size, public, private, traces, smudged>>
  /\ UNCHANGED <<client, hostVars, noteVars, depth, gamma, cursor, moving, told>>

-----------------------------------------------------------------------------
(* Control calls *)

SetMode ==
  /\ Called("SetMode")
  /\ \E d \in client.depths : Mode(d, IdForRes(size)) \/ Refused
  /\ UNCHANGED <<client, hostVars, noteVars, task>>

SwitchMode ==
  /\ Called("SwitchMode")
  /\ \E d \in client.depths, id \in 1 .. ResCount : Mode(d, id) \/ Refused
  /\ UNCHANGED <<client, hostVars, noteVars, task>>

(* SetEntries goes to direct devices too as DirectSetEntries. *)
SetEntries ==
  /\ Called("SetEntries")
  /\ \E e \in Entries, c \in Colours :
       /\ public' = [public EXCEPT ![e] = c]
       /\ private' = [private EXCEPT ![e] = ReCLUT(c, gamma)]
  /\ UpdateAll(cursor, size)
  /\ UNCHANGED <<client, listVars, hostVars, noteVars, task, gamma, cursor, moving, told>>

(* An indexed device gets a linear colour table and no update, a direct one *)
(* an update.                                                               *)
SetGamma ==
  /\ Called("SetGamma")
  /\ \E g \in Gammas :
       /\ SetGammaTable(g)
       /\ LinearCLUT(depth, g)
  /\ IF depth <= k8bit THEN UNCHANGED <<traces, smudged>> ELSE UpdateAll(cursor', size)
  /\ UNCHANGED <<client, listVars, hostVars, noteVars, task, moving, told>>

GrayPage ==
  /\ Called("GrayPage") /\ traces # {}
  /\ UpdateAll(cursor, size)
  /\ UNCHANGED <<client, listVars, hostVars, noteVars, task, colourVars, cursor, moving, told>>

-----------------------------------------------------------------------------
(* The cursor's control calls, made by QuickDraw one at a time: by the main *)
(* line, or in the frame timer                                              *)

(* The image changes in place and is not drawn anew; or cannot be taken.    *)
SetHardwareCursor ==
  /\ Called("SetHardwareCursor")
  /\ \/ \E n \in Heights :
          /\ cursor' = [cursor EXCEPT !.set = TRUE, !.b = cursor.t + n, !.gamma = gamma]
          /\ smudged' = (smudged \/ (cursor.visible /\ cursor.b # cursor.t + n))
          /\ told' = [told EXCEPT !.set = TRUE]
     \/ /\ cursor' = [cursor EXCEPT !.set = FALSE]
        /\ told' = [told EXCEPT !.set = FALSE]
        /\ UNCHANGED smudged
  /\ UNCHANGED <<client, listVars, hostVars, noteVars, task, colourVars, traces, moving>>

Told(y, v) == told' = [told EXCEPT !.visible = v, !.t = y]

Moved(c, y, v) == [c EXCEPT !.visible = v, !.t = y, !.b = c.b + (y - c.t)]

(* Slip: only the place the cursor goes to. *)
NewPlace(a, b) == IF b.visible THEN <<b.t, Largest(0, b.b)>> ELSE <<>>

(* What DrawHardwareCursor updates: where the cursor was seen, and is.      *)
Union(a, b) ==
  LET seen == {c \in {a, b} : c.visible}
  IN  IF seen = {} THEN <<>>
      ELSE <<Min({c.t : c \in seen}), Largest(0, Max({c.b : c \in seen}))>>

Redrawn(a, b) ==
  IF Union(a, b) = <<>> THEN traces
  ELSE Updated(b, size, Largest(Union(a, b)[1], 0), Least(Union(a, b)[2], size.h))

(* On the main line the frame timer may find the cursor shown or hidden but *)
(* not yet moved.                                                           *)
DrawHardwareCursor ==
  /\ Called("DrawHardwareCursor") /\ cursor.set
  /\ \E v \in BOOLEAN, y \in {p \in Places : p < size.h} :
       /\ moving' = <<cursor, Moved(cursor, y, v)>>
       /\ cursor' = [cursor EXCEPT !.visible = v]
       /\ Told(y, v)
  /\ UNCHANGED <<client, listVars, hostVars, noteVars, task, colourVars, traces, smudged>>

DrawsCursor == moving # <<>>

DrawHardwareCursorMoves ==
  /\ DrawsCursor
  /\ moving' = <<>>
  /\ cursor' = moving[2]
  /\ traces' = Redrawn(moving[1], moving[2])
  /\ UNCHANGED <<client, listVars, hostVars, noteVars, task, colourVars, smudged, told>>

(* DirtyRectCallback: QuickDraw has drawn on rows t to b.                   *)
Clamped(n) == Largest(Least(n, size.h), 0)

DirtyRectCallback ==
  /\ Called("DirtyRectCallback") /\ hook = "done"
  /\ \E t, b \in Places :
       /\ Clamped(t) < Clamped(b)
       /\ UpdateScreen(Clamped(t), Clamped(b))
  /\ UNCHANGED <<client, listVars, hostVars, noteVars, task, colourVars, cursor, smudged, moving, told>>

(* VBL: QuickDraw's cursor task, unless the cursor is busy, and the whole   *)
(* screen.  A cursor that appears in mid-call is drawn where it is not.     *)
VBL ==
  /\ MayInterrupt
  /\ \/ UNCHANGED <<cursor, told>>
     \/ /\ ~DrawsCursor /\ cursor.set
        /\ \E y \in Places : cursor' = Moved(cursor, y, cursor.visible) /\ Told(y, cursor.visible)
  /\ traces' = Updated(cursor', size, 0, size.h)
  /\ smudged' = (DrawsCursor /\ ~moving[1].visible /\ cursor.visible)
  /\ UNCHANGED <<client, listVars, hostVars, noteVars, task, colourVars, moving>>

-----------------------------------------------------------------------------
Next ==
  \/ HostResizes \/ ConfigTopHalf \/ DConfigChange
  \/ LateBootHook \/ LateBootInstalls
  \/ NotificationAtomic \/ GetBestSize \/ DMSetDisplayMode
  \/ SetMode \/ SwitchMode \/ SetEntries \/ SetGamma \/ GrayPage
  \/ SetHardwareCursor \/ DrawHardwareCursor \/ DrawHardwareCursorMoves
  \/ DirtyRectCallback \/ VBL

(* Interrupts are taken, calls come to their end, and applications go on    *)
(* asking for events, which is when notifications are served.               *)
Fairness ==
  /\ WF_vars(ConfigTopHalf) /\ WF_vars(DConfigChange) /\ WF_vars(LateBootInstalls)
  /\ SF_vars(NotificationAtomic) /\ WF_vars(GetBestSize) /\ WF_vars(DMSetDisplayMode)
  /\ WF_vars(DrawHardwareCursorMoves)

(* Every variable is what the driver may hold. *)
TypeOK ==
  /\ size \in [w : 1 .. 4096, h : 1 .. 4096] /\ depth \in k1bit .. k32bit
  /\ \A i \in 1 .. 5 : rezzes[i] \in [w : 0 .. 4096, h : 0 .. 4096]
  /\ configTasks \in Nat /\ installed \in Nat
  /\ pending \in BOOLEAN /\ hook \in {"to come", "installing", "done"}
  /\ task \in {"idle", "asking", "setting"}

(* The screen of every mode that is listed fits the back buffer, whatever   *)
(* sizes the host's window has taken and in any depth (getBestSize), and    *)
(* the columns that Blit widens an update to are in their row of either     *)
(* buffer.  So is what grayPattern fills.                                   *)
BackFits ==
  \A r \in Resolutions, d \in k1bit .. k32bit :
    LET given == GetVideoParameters(r.id, d)
        blit == BlitColumns(d, r.size.w - 1, r.size.w)
    IN  /\ given.bounds = r.size /\ r.size.h * given.rowBytes <= bufsize
        /\ GrayPattern(d, r.size) <= bufsize
        /\ blit.l < r.size.w /\ blit.r * Bits(d) <= 8 * given.rowBytes
        /\ 4 * blit.r <= RowbytesForFront(d, r.size.w)

(* The screen of the mode that is set fits the front buffer ("Not enough    *)
(* RAM allocated? Try for smaller").                                        *)
FrontFits == size.h * RowbytesForFront(depth, size.w) <= bufsize

(* The ID that GetCurMode reports is one that is listed, with the size that *)
(* is set, and is the one default mode; so SetMode changes the depth only   *)
(* (idForRes).  Not after a mode was refused: its size has replaced that of *)
(* the current mode by then.                                                *)
CurModeTrue ==
  ~refused =>
    /\ [id |-> GetCurMode.id, size |-> size] \in Resolutions
    /\ {r.id : r \in {m \in Resolutions : GetModeTiming(m.id).default}} = {GetCurMode.id}

(* The notification record is queued at most once, and when it is not       *)
(* queued pending_notification lets the next change queue it.               *)
PostedOnce ==
  /\ installed <= 1
  /\ hook # "installing" => (pending <=> installed = 1)

(* The list of gamma tables that a program is led through has them all.     *)
GammasListed ==
  LET id[n \in 0 .. Len(builtinGamma)] ==
        GetGammaInfoList(IF n = 0 THEN FindFirst ELSE id[n - 1], ParamErr)
  IN  /\ \A n \in DOMAIN builtinGamma :
           /\ RetrieveGammaTable(id[n - 1]) = {builtinGamma[n]}
           /\ GetGammaInfoList(Specific, id[n - 1]) = id[n - 1]
      /\ id[Len(builtinGamma)] = NoMoreTables

(* In indexed modes every entry in use is its public entry seen through the *)
(* gamma table, and the cursor goes through the same one, whatever order    *)
(* depth, gamma table and entries are set in.  GetGammaInfoList leads to    *)
(* every built-in gamma table, in order, and RetrieveGammaTable has it.     *)
ColoursTrue ==
  /\ GammasListed
  /\ GetVideoParameters(GetCurMode.id, depth).indexed =>
       \A e \in InUse(depth) : private[e] = ReCLUT(GetEntries(e), gamma)
  /\ cursor.set => cursor.gamma = gamma

(* "csCursorSet ... should be true if the last SetHardwareCursor control    *)
(* call was successful"; "the csCursorX, csCursorY, and csCursorVisible     *)
(* values must match the parameters passed in to the last                   *)
(* DrawHardwareCursor control call", although cursors are reshaped between. *)
CursorTold ==
  moving = <<>> => GetHardwareCursorDrawState = told

(* Outside of DrawHardwareCursor the front buffer shows the cursor where it *)
(* is and nowhere else, except that a trace of a cursor reshaped, or of one *)
(* met by the frame timer while it appears, may stay until the next frame.  *)
(* The state that the driver reports of it is that it was told.             *)
CursorTrue ==
  /\ moving = <<>> /\ ~smudged =>
       traces = IF cursor.visible THEN OnScreen(cursor, size) ELSE {}
  /\ CursorTold

(* The driver learns of every size that the host's window takes and keeps:  *)
(* an interrupt that comes while an earlier one is served is not lost.      *)
ResizeHeard == \A s \in Wishes : (window = s) ~> (best.window = s \/ window # s)

Spec == Init /\ [][Next]_vars /\ Fairness

(* The modes that are listed and reported are real ones.                    *)
ModesTrue == TypeOK /\ BackFits /\ CurModeTrue
=============================================================================
