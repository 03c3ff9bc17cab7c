------------------------------ MODULE QemuVga -------------------------------
(***************************************************************************)
(* The older display driver, for QEMU's VGA adapter (QemuVGADriver/src):   *)
(* its list of modes from the monitor's EDID, modes and pages in the       *)
(* adapter's memory, blanking, and the timer that stands in for a vertical *)
(* blanking interrupt between opening and closing the driver.              *)
(*                                                                         *)
(* Device Manager calls run on the main line, one at a time; VBLTimerProc  *)
(* interrupts them between any two of the steps below.  Sizes are bytes.   *)
(***************************************************************************)
EXTENDS Integers, Sequences, SequencesExt, FiniteSets, FiniteSetsExt

CONSTANTS
  Edids,           (* [valid, standard, extended, extension]: the monitor's *)
                   (* modes, in the order in which ParseEdid meets them     *)
  boardFBMappedSize,
  BootDepths,      (* BPP as the firmware left it                           *)
  BootSizes,       (* XRES and YRES as the firmware left them               *)
  MaxTimers,       (* timers pending at once (bound)                        *)
  MaxOpens,        (* openCount (bound)                                     *)
  CancelTorn       (* the timer may expire between the reading of           *)
                   (* VBLTimerID and CancelTimer                            *)

Size(w, h) == [w |-> w, h |-> h]

ASSUME AdapterAssumption ==
  /\ boardFBMappedSize \in Nat \ {0}
  /\ BootDepths \subseteq {8, 15, 16, 32}
  /\ MaxTimers \in Nat \ {0} /\ MaxOpens \in Nat \ {0} /\ CancelTorn \in BOOLEAN

Resolution == [w : Nat, h : Nat]

VARIABLES
  vModes, curMode, depth, curPage, curBaseAddress,
  dispi,           (* the adapter's registers                               *)
  attribute,       (* the attribute controller: whether the next write to   *)
                   (* 0x3c0 is an index, whether the screen is on, whether  *)
                   (* a register is selected and one has been written       *)
  blanked,
  openCount, isOpen,
  superseded,      (* finalised or replaced: the driver is not called again    *)
  qdInterruptsEnable, hasTimer,
  timerWorks,      (* SetInterruptTimer does; not on Mac OS X               *)
  timers,          (* timers pending, by ID                                 *)
  VBLTimerID,
  service,         (* qdVBLInterrupt is not NULL, and is not disposed of    *)
  misused,         (* VSLDoInterruptService was called on a disposed one    *)
  task,            (* where the main line is in a Device Manager call       *)
  cancelling       (* the ID that CancelTimer was called with               *)

modeVars == <<vModes, curMode, depth, curPage, curBaseAddress, dispi>>
blankVars == <<attribute, blanked>>
openVars == <<openCount, isOpen, superseded>>
timerVars == <<qdInterruptsEnable, hasTimer, timerWorks, timers, VBLTimerID, service, misused,
               cancelling>>
vars == <<modeVars, blankVars, openVars, timerVars, task>>

-----------------------------------------------------------------------------
(* The list of modes *)

defaultVModes == <<Size(640, 480), Size(800, 600), Size(1024, 768), Size(1280, 1024),
                   Size(1600, 1200), Size(1920, 1080), Size(1920, 1200)>>

Before(a, b) == a.w < b.w \/ (a.w = b.w /\ a.h < b.h)

TooLarge(m) == m.w * m.h * 4 > boardFBMappedSize

(* Slip: the same size twice. *)
AddTwice(list, m) ==
  LET at == Min({i \in 1 .. Len(list) + 1 : i > Len(list) \/ Before(m, list[i])})
  IN  IF list # <<>> /\ TooLarge(m) THEN list ELSE InsertAt(list, at, m)

(* addVModeToList: in order and once; the size is looked at on the way      *)
(* through the list, so not for the first mode.                             *)
AddVModeToList(list, m) ==
  LET at == Min({i \in 1 .. Len(list) + 1 : i > Len(list) \/ Before(m, list[i])})
  IN  IF \/ list # <<>> /\ TooLarge(m)
         \/ m \in ToSet(list)
      THEN list ELSE InsertAt(list, at, m)

Offered(edid) ==
  IF edid.valid THEN edid.standard \o edid.extended \o edid.extension ELSE defaultVModes

(* An EDID that names no mode at all would leave an empty list.             *)
ASSUME EdidsAssumption ==
  \A edid \in Edids : Offered(edid) \in Seq(Resolution) /\ Offered(edid) # <<>>

(* One after the other. *)
ReadEdidModes(edid) ==
  LET list[n \in 0 .. Len(Offered(edid))] ==
        IF n = 0 THEN <<>> ELSE AddVModeToList(list[n - 1], Offered(edid)[n])
  IN  list[Len(Offered(edid))]

-----------------------------------------------------------------------------
(* Modes and pages *)

BytesPerPixel(d) == (d + 7) \div 8

PageSize(m, d) == m.w * BytesPerPixel(d) * m.h

(* GetModePages *)
Pages(m, d) == IF PageSize(m, d) <= boardFBMappedSize \div 2 THEN 2 ELSE 1

DepthToDepthMode(d) == CASE d \in {15, 16} -> 2 [] d \in {24, 32} -> 3 [] OTHER -> 1
DepthModeToDepth(n) == CASE n = 2 -> 15 [] n = 3 -> 32 [] OTHER -> 8

Registers(m, d, page) ==
  [enabled |-> TRUE, bpp |-> d, xres |-> m.w, yres |-> m.h, virtWidth |-> m.w,
   virtHeight |-> m.h * Pages(m, d), yOffset |-> m.h * page]

(* Slip: the address of the page is left as it was. *)
ShownElsewhere(list, i, d, page) ==
  /\ dispi' = Registers(list[i + 1], d, page)
  /\ curMode' = i /\ depth' = d /\ curPage' = page
  /\ UNCHANGED curBaseAddress

(* QemuVga_SetMode, once it has accepted the mode and the page.             *)
Shown(list, i, d, page) ==
  /\ dispi' = Registers(list[i + 1], d, page)
  /\ curMode' = i /\ depth' = d /\ curPage' = page
  /\ curBaseAddress' = page * PageSize(list[i + 1], d)

(* QemuVga_Init: the firmware's mode if the list has it, or the first.      *)
BootMode(list, s) ==
  LET found == {i \in 0 .. Len(list) - 1 : list[i + 1] = s}
  IN  IF found = {} THEN 0 ELSE Min(found)

QemuVga_Init ==
  /\ \E edid \in Edids, s \in BootSizes :
       /\ vModes = ReadEdidModes(edid)
       /\ curMode = BootMode(vModes, s)
  /\ depth \in BootDepths /\ curPage = 0 /\ curBaseAddress = 0
  /\ dispi = Registers(vModes[curMode + 1], depth, 0)

DriverInitializeCmd ==
  /\ openCount = 0 /\ isOpen = FALSE /\ superseded = FALSE
  /\ qdInterruptsEnable = FALSE /\ hasTimer = FALSE /\ timerWorks \in BOOLEAN
  /\ timers = {} /\ VBLTimerID = 0 /\ cancelling = 0
  /\ service = [ref |-> FALSE, live |-> FALSE] /\ misused = FALSE
  /\ task = "idle"
  /\ QemuVga_Init

(* The firmware leaves the attribute controller either way round.           *)
Init ==
  /\ DriverInitializeCmd
  /\ attribute \in [index : BOOLEAN, on : {TRUE}, selected : {TRUE}, written : {FALSE}]
  /\ blanked = FALSE

Called == task = "idle" /\ isOpen

(* GraphicsCoreSetMode: another depth or page of this mode.                 *)
SetMode ==
  /\ Called
  /\ \E n \in 1 .. 3, page \in 0 .. 1 :
       /\ page < Pages(vModes[curMode + 1], DepthModeToDepth(n))
       /\ DepthModeToDepth(n) # depth \/ page # curPage
       /\ Shown(vModes, curMode, DepthModeToDepth(n), page)
  /\ UNCHANGED <<vModes, blankVars, openVars, timerVars, task>>

(* GraphicsCoreSwitchMode.  The page must be one of the mode left as well   *)
(* as of the mode entered.                                                  *)
SwitchMode ==
  /\ Called
  /\ \E i \in 0 .. Len(vModes) - 1, n \in 1 .. 3, page \in 0 .. 1 :
       LET d == DepthModeToDepth(n)
       IN  /\ page < Pages(vModes[curMode + 1], d)
           /\ page < Pages(vModes[i + 1], d)
           /\ <<i, d, page>> # <<curMode, depth, curPage>>
           /\ Shown(vModes, i, d, page)
  /\ UNCHANGED <<vModes, blankVars, openVars, timerVars, task>>

-----------------------------------------------------------------------------
(* What status calls answer.  Modes are numbered from 1 outside.            *)

GetModeInfo(id) == vModes[id]

GetVideoParams(id, n) ==
  LET d == DepthModeToDepth(n)
  IN  [size |-> GetModeInfo(id), rowBytes |-> GetModeInfo(id).w * BytesPerPixel(d),
       pageCount |-> Pages(GetModeInfo(id), d)]

GetCurrentMode ==
  [id |-> curMode + 1, depthMode |-> DepthToDepthMode(depth), page |-> curPage,
   base |-> curBaseAddress]

GetBaseAddress(page) == page * PageSize(vModes[curMode + 1], depth)

GetPages(n) == Pages(vModes[curMode + 1], DepthModeToDepth(n))

(* GrayPage accepts a page of the current mode and paints nothing. *)
GrayPage(page) == page < Pages(vModes[curMode + 1], depth)

GetModeTiming(id) == id \in DOMAIN vModes

FindFirst == -2
Current == 0
NoMore == -3

(* The ID and the size of the mode after this one, or NoMore.               *)
GetNextResolution(previous) ==
  LET id == CASE previous = FindFirst -> 1
              [] previous = Current -> curMode + 1
              [] OTHER -> previous + 1
  IN  IF id = Len(vModes) + 1 THEN [id |-> NoMore, size |-> Size(0, 0)]
                              ELSE [id |-> id, size |-> GetModeInfo(id)]

GetSync == IF blanked THEN "disabled" ELSE "enabled"

-----------------------------------------------------------------------------
(* Blanking *)

(* One write to 0x3c0 of the index that does not exist.  As an index it     *)
(* carries the bit that turns the screen on; as data it is lost, unless an  *)
(* index of the firmware's is still selected.                               *)
WriteIndex(a, on) ==
  IF a.index THEN [a EXCEPT !.index = FALSE, !.on = on, !.selected = FALSE]
             ELSE [a EXCEPT !.index = TRUE, !.written = a.written \/ a.selected]

(* Slip: once. *)
BlankOnce(blank) == attribute' = WriteIndex(attribute, ~blank) /\ blanked' = blank

QemuVga_Blank(blank) ==
  /\ attribute' = WriteIndex(WriteIndex(attribute, ~blank), ~blank)
  /\ blanked' = blank

(* GraphicsCoreSetSync: anything disabled blanks the screen.                *)
SetSync ==
  /\ Called
  /\ \E blank \in BOOLEAN : QemuVga_Blank(blank)
  /\ UNCHANGED <<modeVars, openVars, timerVars, task>>

-----------------------------------------------------------------------------
(* The timer *)

FreshTimer == Min((1 .. MaxTimers + 3) \ (timers \union {VBLTimerID, cancelling}))

(* ScheduleVBLTimer overwrites the ID of the timer before. *)
ScheduleVBLTimer(pending) ==
  /\ timers' = pending \union {FreshTimer}
  /\ VBLTimerID' = FreshTimer

(* Slip: interrupts are not enabled anew while a timer is pending. *)
NothingScheduled == UNCHANGED <<timers, VBLTimerID>>

(* QemuVga_EnableInterrupts *)
TimerEnabled == ScheduleVBLTimer(timers)

(* VBLTimerProc expires, serves QuickDraw and schedules the next. *)
VBLTimerProc ==
  /\ task = "cancel" => CancelTorn
  /\ \E t \in timers : ScheduleVBLTimer(timers \ {t})
  /\ misused' = (misused \/ (service.ref /\ qdInterruptsEnable /\ ~service.live))
  /\ UNCHANGED <<modeVars, blankVars, openVars, qdInterruptsEnable, hasTimer, timerWorks,
                 service, cancelling, task>>

(* QemuVga_Open schedules the timer, if there are timers...                 *)
QemuVga_Open ==
  /\ Cardinality(timers) < MaxTimers
  /\ isOpen' = TRUE
  /\ IF timerWorks THEN TimerEnabled ELSE UNCHANGED <<timers, VBLTimerID>>
  /\ hasTimer' = timerWorks
  /\ qdInterruptsEnable' = timerWorks
  /\ task' = IF timerWorks THEN "service" ELSE "idle"
  /\ UNCHANGED <<timerWorks, service, misused, cancelling>>

(* DriverOpenCmd: the first opening counts. *)
DriverOpenCmd ==
  /\ task = "idle" /\ openCount < MaxOpens
  /\ openCount' = openCount + 1
  /\ IF openCount = 0 THEN QemuVga_Open ELSE UNCHANGED <<isOpen, timerVars, task>>
  /\ UNCHANGED <<modeVars, blankVars, superseded>>

(* ... and then makes the service for it. *)
NewInterruptService ==
  /\ task = "service"
  /\ service' = [ref |-> TRUE, live |-> TRUE]
  /\ task' = "idle"
  /\ UNCHANGED <<modeVars, blankVars, openVars, qdInterruptsEnable, hasTimer, timerWorks, timers,
                 VBLTimerID, misused, cancelling>>

(* GraphicsCoreSetInterrupt: enabling schedules a timer, whether or not one *)
(* is pending.                                                              *)
EnableInterrupts ==
  /\ Called
  /\ Cardinality(timers) < MaxTimers
  /\ qdInterruptsEnable' = TRUE
  /\ IF hasTimer THEN TimerEnabled ELSE UNCHANGED <<timers, VBLTimerID>>
  /\ UNCHANGED <<modeVars, blankVars, openVars, hasTimer, timerWorks, service, misused,
                 cancelling, task>>

(* Where the end of a call leaves the main line.                            *)
Returned == IF superseded THEN "gone" ELSE "idle"

(* QemuVga_DisableInterrupts: the flag, then the last timer scheduled.      *)
Disabling(after) ==
  /\ qdInterruptsEnable' = FALSE
  /\ cancelling' = IF hasTimer THEN VBLTimerID ELSE 0
  /\ task' = IF hasTimer THEN "cancel" ELSE after

DisableInterrupts ==
  /\ Called
  /\ Disabling("idle")
  /\ UNCHANGED <<modeVars, blankVars, openVars, hasTimer, timerWorks, timers, VBLTimerID,
                 service, misused>>

(* QemuVga_Close: without a timer there is no service either. *)
QemuVga_Close(after) ==
  /\ isOpen' = FALSE
  /\ Disabling(after)
  /\ UNCHANGED <<hasTimer, timerWorks, timers, VBLTimerID, service, misused>>

(* DriverCloseCmd: the last closing. *)
DriverCloseCmd ==
  /\ task = "idle" /\ openCount > 0
  /\ openCount' = openCount - 1
  /\ IF openCount = 1 THEN QemuVga_Close("idle") ELSE UNCHANGED <<isOpen, timerVars, task>>
  /\ UNCHANGED <<modeVars, blankVars, superseded>>

(* DriverSupersededCmd, also from finalize: closed however often opened.    *)
DriverSupersededCmd ==
  /\ task = "idle"
  /\ superseded' = TRUE
  /\ QemuVga_Close("gone")
  /\ UNCHANGED <<modeVars, blankVars, openCount>>

CancelTimer ==
  /\ task = "cancel"
  /\ timers' = timers \ {cancelling}
  /\ cancelling' = 0
  /\ task' = IF ~isOpen /\ service.ref THEN "dispose" ELSE Returned
  /\ UNCHANGED <<modeVars, blankVars, openVars, qdInterruptsEnable, hasTimer, timerWorks,
                 VBLTimerID, service, misused>>

DisposeInterruptService ==
  /\ task = "dispose"
  /\ service' = [service EXCEPT !.live = FALSE]
  /\ task' = "forget"
  /\ UNCHANGED <<modeVars, blankVars, openVars, qdInterruptsEnable, hasTimer, timerWorks, timers,
                 VBLTimerID, misused, cancelling>>

ForgetInterruptService ==
  /\ task = "forget"
  /\ service' = [service EXCEPT !.ref = FALSE]
  /\ task' = Returned
  /\ UNCHANGED <<modeVars, blankVars, openVars, qdInterruptsEnable, hasTimer, timerWorks, timers,
                 VBLTimerID, misused, cancelling>>

-----------------------------------------------------------------------------
Next ==
  \/ SetMode \/ SwitchMode \/ SetSync
  \/ VBLTimerProc
  \/ DriverOpenCmd \/ NewInterruptService
  \/ EnableInterrupts \/ DisableInterrupts
  \/ DriverCloseCmd \/ DriverSupersededCmd
  \/ CancelTimer \/ DisposeInterruptService \/ ForgetInterruptService

Spec == Init /\ [][Next]_vars

-----------------------------------------------------------------------------
(* Properties *)

(* The list that modes are numbered by has every size once, smallest first, *)
(* and all that the monitor offers and the adapter has memory for, in       *)
(* whatever order and under however many headings the EDID names them.      *)
ModesListed ==
  /\ \A i \in DOMAIN vModes :
       LET m == GetNextResolution(IF i = 1 THEN FindFirst ELSE i - 1)
           n == GetNextResolution(m.id)
       IN  /\ m = [id |-> i, size |-> vModes[i]] /\ GetModeTiming(m.id)
           /\ (n.id = NoMore \/ Before(m.size, n.size))
  /\ \E edid \in Edids :
       ToSet(vModes) \ {Offered(edid)[1]} =
         {m \in ToSet(Offered(edid)) : ~TooLarge(m)} \ {Offered(edid)[1]}

(* QuickDraw draws in the picture that the adapter shows: whatever the      *)
(* changes of mode, depth and page, the size and the bytes of a row that    *)
(* the driver states for its current mode are the adapter's, the page is    *)
(* one that it offers and the base address that it states is where the      *)
(* adapter begins to read, and all pages are within the adapter's memory.   *)
ShownIsSaid ==
  LET now  == GetCurrentMode
      said == GetVideoParams(now.id, now.depthMode)
      row  == dispi.virtWidth * BytesPerPixel(dispi.bpp)
  IN  /\ GetNextResolution(Current) = [id |-> now.id, size |-> said.size]
      /\ said.size = Size(dispi.xres, dispi.yres)
      /\ said.rowBytes = row
      /\ GetPages(now.depthMode) = said.pageCount
      /\ now.page < said.pageCount /\ GrayPage(now.page)
      /\ GetBaseAddress(now.page) = now.base
      /\ now.base = row * dispi.yOffset
      /\ ~TooLarge(said.size) => row * dispi.virtHeight <= boardFBMappedSize

(* What was set last is what the screen does, and the attribute controller  *)
(* is as the firmware left it otherwise: the flip-flop that tells an index  *)
(* from data is where it was, and no register took the index for data,      *)
(* save the one the firmware had selected itself.                           *)
BlankTrue ==
  [][SetSync => /\ attribute'.on = (GetSync' = "enabled")
                /\ attribute'.index = attribute.index
                /\ attribute.index => attribute'.written = attribute.written]_vars

(* The service is not called once it has been disposed of, although the     *)
(* timer may expire at any step of closing and its chain may outlive the    *)
(* closing.                                                                 *)
ServiceLive == ~misused

(* While vertical blanking interrupts are on, one is always to come:        *)
(* neither disabling and enabling nor closing and opening loses the chain.  *)
VblGoesOn == task = "idle" /\ isOpen /\ qdInterruptsEnable /\ hasTimer => timers # {}

(* The vertical blanking service is called as long as it should be, and no  *)
(* longer.                                                                  *)
VblServed == ServiceLive /\ VblGoesOn
=============================================================================
