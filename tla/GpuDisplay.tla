----------------------------- MODULE GpuDisplay -----------------------------
(***************************************************************************)
(* The screen-update path of the display driver (device-gpu.c): drawing is *)
(* copied from the back to the front buffer (Blit), a rectangle of it is   *)
(* transferred to a resource of the host and flushed to its window, and a  *)
(* change of mode replaces the resource.                                   *)
(*                                                                         *)
(* The virtqueue appears as what Virtqueue shows it to be: messages come   *)
(* back one by one, QPoll claims all that are back at once, a bottom half  *)
(* follows what comes back while the driver listens.                       *)
(*                                                                         *)
(* Who runs.  sendPixels, VBL and QNotified run at secondary interrupt     *)
(* level: each stops the main line and none stops another.  The device     *)
(* runs in parallel with all.  The main line calls QPoll itself, not in    *)
(* ATOMIC, in transact, debugPoll and perfTest.                            *)
(*                                                                         *)
(* The first state is the one that initialize leaves.                      *)
(***************************************************************************)
EXTENDS Integers, Sequences, SequencesExt, FiniteSets, FiniteSetsExt

CONSTANTS
  MaxInFlight,  (* maxinflight, the number of update buffers               *)
  Tiles,        (* the screen, in one dimension: a few consecutive numbers *)
  PollsTorn     (* TRUE if an interrupt may fall inside QPoll's claim of   *)
                (* the used ring when the main line polls                  *)

ASSUME DisplayAssumption ==
  /\ MaxInFlight \in Nat \ {0}
  /\ Tiles \subseteq Nat /\ IsFiniteSet(Tiles) /\ Tiles # {}
  /\ PollsTorn \in BOOLEAN

Bufs == 0 .. MaxInFlight - 1
Resources == {100, 101}                 \* res_ids[0] alternates: old ^ 1
Commands == {"create", "detach", "attach", "scanout", "unref"}
Stages == {"back", "front", "host", "shown"}

(* Tags that are no buffer's: the characters the code uses, far above 256.  *)
Tfer == -1
Done == -2
Wait == -3

(* A message: its tag, its place in the page and what it asks for.  A      *)
(* control command uses the whole page and no place of its own.            *)
Update == [tag : Bufs \union {Tfer}, buf : Bufs, rect : SUBSET Tiles, res : Resources]
Command == [tag : {Done}, cmd : Commands, res : Resources]
Message == Update \union Command
Tag == Bufs \union {Tfer, Done}

VARIABLES
  stage,     (* how far the newest drawing on each tile has come           *)
  (* device-gpu.c *)
  freebufs, lastTag, screenResource, changeInProgress,
  pending,   (* ptop..pright, as the tiles covered                         *)
  interest,  (* the queue's interest count; sendPixels' flag says it is 1  *)
  listening, (* sendPixels' static flag "interest"                         *)
  rect,      (* the rectangle that sendPixels is working on                *)
  sending,   (* where sendPixels is                                        *)
  inner,     (* entries claimed by the QPoll of sendPixels                 *)
  outer,     (* entries claimed by any other QPoll                         *)
  task,      (* where the main line is                                     *)
  area,      (* what the main line's updateScreen covers                   *)
  after,     (* where the main line goes on after updateScreen             *)
  cmd, reply,(* the command of transact and the device's answer to it      *)
  (* the queue and the interrupt *)
  avail, used,
  bottomHalf,(* where QNotified is                                         *)
  notified,  (* an interrupt has been raised and no bottom half has begun  *)
  torn,      (* a main-line QPoll's reading of the ring, not yet acted on  *)
  (* the device *)
  created, backed, scanout

hostVars == <<created, backed, scanout>>
screenVars == <<stage, screenResource, changeInProgress, hostVars>>
sendVars == <<freebufs, lastTag, pending, interest, listening, rect, sending>>
pollVars == <<inner, outer, used, torn>>
taskVars == <<task, area, after, cmd, reply>>
irqVars == <<bottomHalf, notified>>
vars == <<screenVars, sendVars, pollVars, taskVars, irqVars, avail>>

-----------------------------------------------------------------------------
(* The union of rectangles is the least rectangle around them. *)
Hull(tiles) == {t \in Tiles : \E a, b \in tiles : a <= t /\ t <= b}

AllFree == Bufs
NotTorn == [active |-> FALSE, read |-> <<>>, since |-> <<>>]

SecondaryIdle == sending = "idle" /\ inner = <<>> /\ outer = <<>> /\ bottomHalf = "idle"

(* The main line goes on when nothing above it has work in progress.  In    *)
(* the middle of its own QPoll only that QPoll goes on.                     *)
MainLine == SecondaryIdle /\ ~torn.active

(* The debugger waits with interrupts off. *)
MayInterrupt == SecondaryIdle /\ task # "debug" /\ (torn.active => PollsTorn)

(* Blit and blitCursor: the drawing in the back buffer reaches the front. *)
Blitted(area_) ==
  [t \in Tiles |-> IF t \in area_ /\ stage[t] = "back" THEN "front" ELSE stage[t]]

-----------------------------------------------------------------------------
(* sendPixels, entered with the rectangle r and not reentered. *)

(* Slip: the pending rectangle is forgotten. *)
Alone(r) == Hull(r)

Merged(r) == Hull(r \union pending)

AskOnce == IF listening THEN interest ELSE interest + 1

(* Union with the pending rectangle; nothing to do if that is empty.        *)
(* Otherwise listen before polling, so that no buffer is missed.            *)
SendPixels(r) ==
  IF Merged(r) = {}
  THEN UNCHANGED <<rect, sending, listening, interest>>
  ELSE /\ rect' = Merged(r)
       /\ sending' = "poll"
       /\ listening' = TRUE
       /\ interest' = AskOnce

(* The QPoll of sendPixels. *)
SendPixelsPoll ==
  /\ sending = "poll"
  /\ inner' = used
  /\ used' = <<>>
  /\ sending' = "drain"
  /\ UNCHANGED <<screenVars, freebufs, lastTag, pending, interest, listening, rect,
                 outer, torn, taskVars, irqVars, avail>>

(* DNotified records the tag and frees the buffer it names... *)
Notify(tag) ==
  /\ lastTag' = tag
  /\ freebufs' = freebufs \union ({tag} \intersect Bufs)

(* ... and in the nested QPoll that is all: sendPixels is reentered. *)
SendPixelsDrain ==
  /\ sending = "drain" /\ inner # <<>>
  /\ Notify(Head(inner))
  /\ inner' = Tail(inner)
  /\ UNCHANGED <<screenVars, pending, interest, listening, rect, sending,
                 outer, used, torn, taskVars, irqVars, avail>>

(* No buffer: the rectangle waits for a notification to provide one.        *)
SendPixelsWait ==
  /\ sending = "drain" /\ inner = <<>> /\ freebufs = {}
  /\ pending' = rect
  /\ sending' = "idle"
  /\ rect' = {}
  /\ UNCHANGED <<screenVars, freebufs, lastTag, interest, listening,
                 pollVars, taskVars, irqVars, avail>>

UpdateMessage(tag, i) ==
  [tag |-> tag, buf |-> i, rect |-> rect, res |-> screenResource]

(* Slip: the buffer is named by the first message. *)
NamedFirst(i) == <<UpdateMessage(i, i), UpdateMessage(Tfer, i)>>

(* The two messages of an update; only the second, returned last, names the *)
(* buffer that both are in.                                                 *)
UpdateMessages(i) == <<UpdateMessage(Tfer, i), UpdateMessage(i, i)>>

SendPixelsSend ==
  /\ sending = "drain" /\ inner = <<>> /\ freebufs # {}
  /\ listening' = FALSE
  /\ interest' = interest - 1
  /\ LET i == Min(freebufs)
     IN /\ freebufs' = freebufs \ {i}
        /\ avail' = avail \o UpdateMessages(i)
  /\ pending' = {}
  /\ sending' = "idle"
  /\ rect' = {}
  /\ UNCHANGED <<screenVars, lastTag, pollVars, taskVars, irqVars>>

(* One entry of any other QPoll: DNotified, with sendPixels for a buffer.   *)
PollEntry ==
  /\ sending = "idle" /\ outer # <<>>
  /\ Notify(Head(outer))
  /\ outer' = Tail(outer)
  /\ IF Head(outer) \in Bufs THEN SendPixels({})
     ELSE UNCHANGED <<rect, sending, listening, interest>>
  /\ UNCHANGED <<screenVars, pending, inner, used, torn, taskVars, irqVars, avail>>

-----------------------------------------------------------------------------
(* The bottom half and the frame timer. *)

QNotified ==
  /\ notified /\ MayInterrupt
  /\ notified' = FALSE
  /\ bottomHalf' = "poll1"
  /\ outer' = used
  /\ used' = <<>>
  /\ UNCHANGED <<screenVars, sendVars, inner, torn, taskVars, avail>>

(* The second QPoll, after VRearm. *)
QNotifiedAgain ==
  /\ bottomHalf = "poll1" /\ sending = "idle" /\ outer = <<>>
  /\ bottomHalf' = "poll2"
  /\ outer' = used
  /\ used' = <<>>
  /\ UNCHANGED <<screenVars, sendVars, inner, torn, taskVars, notified, avail>>

QNotifiedReturn ==
  /\ bottomHalf = "poll2" /\ sending = "idle" /\ outer = <<>>
  /\ bottomHalf' = "idle"
  /\ UNCHANGED <<screenVars, sendVars, pollVars, taskVars, notified, avail>>

(* VBL: updateScreen of everything, unless a mode change locks it out.      *)
VBL ==
  /\ MayInterrupt /\ ~changeInProgress
  /\ stage' = Blitted(Tiles)
  /\ SendPixels(Tiles)
  /\ UNCHANGED <<screenResource, changeInProgress, hostVars, freebufs, lastTag,
                 pending, pollVars, taskVars, irqVars, avail>>

-----------------------------------------------------------------------------
(* The main line: drawing. *)

(* QuickDraw has drawn and calls DirtyRectCallback. *)
Draw(a) ==
  /\ MainLine /\ task = "idle"
  /\ stage' = [t \in Tiles |-> IF t \in a THEN "back" ELSE stage[t]]
  /\ task' = "blit" /\ area' = a
  /\ UNCHANGED <<screenResource, changeInProgress, hostVars, sendVars, pollVars,
                 after, cmd, reply, irqVars, avail>>

(* updateScreen, as far as the call of sendPixels... *)
UpdateScreenBlit ==
  /\ MainLine /\ task = "blit"
  /\ stage' = Blitted(area)
  /\ task' = "send"
  /\ UNCHANGED <<screenResource, changeInProgress, hostVars, sendVars, pollVars,
                 area, after, cmd, reply, irqVars, avail>>

(* ... which is in ATOMIC. *)
UpdateScreenSend ==
  /\ MainLine /\ task = "send"
  /\ SendPixels(area)
  /\ task' = after /\ area' = {} /\ after' = "idle"
  /\ UNCHANGED <<screenVars, freebufs, lastTag, pending, pollVars, cmd, reply,
                 irqVars, avail>>

(* The debugger polls the keyboard: wait for a buffer, update everything.   *)
DebugPoll ==
  /\ MainLine /\ task = "idle"
  /\ task' = "debug"
  /\ UNCHANGED <<screenVars, sendVars, pollVars, area, after, cmd, reply, irqVars, avail>>

DebugPollUpdate ==
  /\ MainLine /\ task = "debug" /\ freebufs # {}
  /\ task' = "blit" /\ area' = Tiles
  /\ UNCHANGED <<screenVars, sendVars, pollVars, after, cmd, reply, irqVars, avail>>

(* A turn of perfTest is the same; then there is another turn or the        *)
(* updateScreen of SetMode.                                                 *)
PerfTestUpdate ==
  /\ MainLine /\ task = "perf" /\ freebufs # {}
  /\ task' = "blit" /\ area' = Tiles /\ after' = "perf"
  /\ UNCHANGED <<screenVars, sendVars, pollVars, cmd, reply, irqVars, avail>>

PerfTestEnd ==
  /\ MainLine /\ task = "perf"
  /\ task' = "blit" /\ area' = Tiles
  /\ UNCHANGED <<screenVars, sendVars, pollVars, after, cmd, reply, irqVars, avail>>

-----------------------------------------------------------------------------
(* The main line: QPoll while it waits. *)

(* Slip: transact does not wait for the updates in flight. *)
NoWait == TRUE

(* transact first waits until every update buffer is back. *)
PageFree == freebufs = AllFree

Waits ==
  \/ task \in {"debug", "perf"} /\ freebufs = {}
  \/ task = "wait" /\ ~PageFree
  \/ task = "spin" /\ lastTag # Done

(* Reading used_ctr and used->idx... *)
QPollRead ==
  /\ MainLine /\ Waits /\ used # <<>>
  /\ torn' = [active |-> TRUE, read |-> used, since |-> <<>>]
  /\ UNCHANGED <<screenVars, sendVars, inner, outer, used, taskVars, irqVars, avail>>

(* ... and storing used_ctr: everything returned since the reading is new,  *)
(* even what a bottom half has handled in between.                          *)
QPollStore ==
  /\ SecondaryIdle /\ torn.active
  /\ outer' = torn.read
  /\ used' = torn.since
  /\ torn' = NotTorn
  /\ UNCHANGED <<screenVars, sendVars, inner, taskVars, irqVars, avail>>

-----------------------------------------------------------------------------
(* The main line: SetMode and SwitchMode. *)

NewResource == CHOOSE r \in Resources : r # screenResource

Target(c) == IF c \in {"detach", "unref"} THEN screenResource ELSE NewResource

(* Slip: mode forgets to lock out the frame timer. *)
NotLocked == FALSE

LockedOut == TRUE

(* mode locks out the frame timer, then setVirtioScanout begins. *)
SetMode ==
  /\ MainLine /\ task = "idle"
  /\ changeInProgress' = LockedOut
  /\ task' = "wait" /\ cmd' = "create"
  /\ UNCHANGED <<stage, screenResource, hostVars, sendVars, pollVars, area, after,
                 reply, irqVars, avail>>

TransactSend ==
  /\ MainLine /\ task = "wait" /\ PageFree
  /\ lastTag' = Wait
  /\ avail' = Append(avail, [tag |-> Done, cmd |-> cmd, res |-> Target(cmd)])
  /\ task' = "spin"
  /\ UNCHANGED <<screenVars, freebufs, pending, interest, listening, rect, sending,
                 pollVars, area, after, cmd, reply, irqVars>>

(* setVirtioScanout's order: the old resource goes when the new is shown.   *)
Following(c) ==
  CASE c = "create" -> "detach" [] c = "detach" -> "attach"
    [] c = "attach" -> "scanout" [] c = "scanout" -> "unref"

TransactDone ==
  /\ MainLine /\ task = "spin" /\ lastTag = Done
  /\ cmd # "unref" /\ (cmd = "create" => reply = "ok")
  /\ task' = "wait" /\ cmd' = Following(cmd)
  /\ UNCHANGED <<screenVars, sendVars, pollVars, area, after, reply, irqVars, avail>>

(* The host has no room: SetMode fails and the old mode stays.              *)
ModeFails ==
  /\ MainLine /\ task = "spin" /\ lastTag = Done
  /\ cmd = "create" /\ reply = "error"
  /\ changeInProgress' = FALSE
  /\ task' = "idle" /\ reply' = "ok"
  /\ UNCHANGED <<stage, screenResource, hostVars, sendVars, pollVars, area, after,
                 cmd, irqVars, avail>>

(* The colours change with the mode, so all has to be drawn again: at once  *)
(* or, with control and shift held, when perfTest has taken its turns.      *)
ModeDone ==
  /\ MainLine /\ task = "spin" /\ lastTag = Done /\ cmd = "unref"
  /\ screenResource' = NewResource
  /\ changeInProgress' = FALSE
  /\ stage' = [t \in Tiles |-> "back"]
  /\ \/ task' = "blit" /\ area' = Tiles
     \/ task' = "perf" /\ UNCHANGED area
  /\ cmd' = "create"
  /\ UNCHANGED <<hostVars, sendVars, pollVars, after, reply, irqVars, avail>>

-----------------------------------------------------------------------------
(* The device (not part of src/): the messages one after the other, each    *)
(* returned when it has been carried out.                                   *)

Return(tag) ==
  /\ avail' = Tail(avail)
  /\ used' = Append(used, tag)
  /\ torn' = IF torn.active THEN [torn EXCEPT !.since = Append(@, tag)] ELSE torn
  /\ notified' = (notified \/ (interest > 0 /\ bottomHalf # "poll1"))
  /\ UNCHANGED <<sendVars, inner, outer, bottomHalf, task, area, after, cmd,
                 screenResource, changeInProgress>>

Advance(tiles, from, to) ==
  stage' = [t \in Tiles |-> IF t \in tiles /\ stage[t] = from THEN to ELSE stage[t]]

DeviceTransfer ==
  /\ avail # <<>> /\ Head(avail).tag = Tfer
  /\ IF Head(avail).res \in created \intersect backed
     THEN Advance(Head(avail).rect, "front", "host") ELSE UNCHANGED stage
  /\ Return(Tfer)
  /\ UNCHANGED <<hostVars, reply>>

DeviceFlush ==
  /\ avail # <<>> /\ Head(avail).tag \in Bufs
  /\ IF Head(avail).res \in created /\ Head(avail).res = scanout
     THEN Advance(Head(avail).rect, "host", "shown") ELSE UNCHANGED stage
  /\ Return(Head(avail).tag)
  /\ UNCHANGED <<hostVars, reply>>

DeviceCommand ==
  /\ avail # <<>> /\ Head(avail).tag = Done
  /\ LET r == Head(avail).res
     IN \/ /\ Head(avail).cmd = "create"
           /\ \/ reply' = "ok" /\ created' = created \union {r}
              \/ reply' = "error" /\ UNCHANGED created
           /\ UNCHANGED <<backed, scanout>>
        \/ /\ Head(avail).cmd # "create"
           /\ reply' = "ok"
           /\ created' = IF Head(avail).cmd = "unref" THEN created \ {r} ELSE created
           /\ backed' = CASE Head(avail).cmd = "attach" -> backed \union {r}
                          [] Head(avail).cmd = "detach" -> backed \ {r}
                          [] OTHER -> backed
           /\ scanout' = IF Head(avail).cmd = "scanout" THEN r ELSE scanout
  /\ Return(Done)
  /\ UNCHANGED stage

-----------------------------------------------------------------------------
Init ==
  /\ stage = [t \in Tiles |-> "shown"]
  /\ freebufs = Bufs /\ lastTag = Done
  /\ screenResource = 100 /\ changeInProgress = FALSE
  /\ pending = {} /\ interest = 0 /\ listening = FALSE
  /\ rect = {} /\ sending = "idle" /\ inner = <<>> /\ outer = <<>>
  /\ task = "idle" /\ area = {} /\ after = "idle" /\ cmd = "create" /\ reply = "ok"
  /\ avail = <<>> /\ used = <<>>
  /\ bottomHalf = "idle" /\ notified = FALSE /\ torn = NotTorn
  /\ created = {100} /\ backed = {100} /\ scanout = 100

Sending == SendPixelsPoll \/ SendPixelsDrain \/ SendPixelsWait \/ SendPixelsSend

Secondary == Sending \/ PollEntry \/ QNotified \/ QNotifiedAgain \/ QNotifiedReturn

MainGoesOn ==
  \/ UpdateScreenBlit \/ UpdateScreenSend
  \/ DebugPollUpdate \/ PerfTestUpdate \/ PerfTestEnd
  \/ QPollRead \/ QPollStore
  \/ TransactSend \/ TransactDone \/ ModeFails \/ ModeDone

Device == DeviceTransfer \/ DeviceFlush \/ DeviceCommand

Next ==
  \/ Secondary \/ VBL \/ MainGoesOn \/ Device
  \/ DebugPoll \/ SetMode
  \/ \E a \in {Hull(s) : s \in SUBSET Tiles \ {{}}} : Draw(a)

Spec == Init /\ [][Next]_vars

(* The processor runs interrupts, and the main line between them; the       *)
(* device does not stop.  The frame timer is left out: what is drawn must   *)
(* be shown without waiting for its next frame, which is a second away.     *)
Fairness ==
  /\ WF_vars(Secondary) /\ SF_vars(MainGoesOn) /\ WF_vars(Device)

FairSpec == Spec /\ Fairness

-----------------------------------------------------------------------------
(* Types; in particular the interest of the one queue never exceeds one.    *)
TypeOK ==
  /\ stage \in [Tiles -> Stages]
  /\ freebufs \subseteq Bufs /\ lastTag \in Tag \union {Wait}
  /\ screenResource \in Resources /\ changeInProgress \in BOOLEAN
  /\ pending \subseteq Tiles /\ rect \subseteq Tiles /\ area \subseteq Tiles
  /\ interest \in {0, 1} /\ listening \in BOOLEAN
  /\ sending \in {"idle", "poll", "drain"}
  /\ \A s \in {inner, outer, used, torn.read, torn.since} : s \in Seq(Tag)
  /\ torn.active \in BOOLEAN
  /\ avail \in Seq(Message)
  /\ task \in {"idle", "blit", "send", "debug", "perf", "wait", "spin"}
  /\ after \in {"idle", "perf"}
  /\ cmd \in Commands /\ reply \in {"ok", "error"}
  /\ bottomHalf \in {"idle", "poll1", "poll2"} /\ notified \in BOOLEAN
  /\ created \subseteq Resources /\ backed \subseteq Resources /\ scanout \in Resources

(* A rectangle that waits for a buffer is never stranded: whenever the      *)
(* interrupt-level code rests, all buffers are lent, the driver listens and *)
(* one of them is still with the device or has raised its interrupt.        *)
AwaitsCompletion ==
  pending # {} /\ MainLine =>
    /\ freebufs = {} /\ interest > 0
    /\ \/ \E n \in DOMAIN avail : avail[n].tag \in Bufs
       \/ notified /\ \E n \in DOMAIN used : used[n] \in Bufs

(* device.h: DNotified means "Device has finished with a buffer".  So no    *)
(* message lies in a part of the page that sendPixels takes for free.       *)
FreeWhenFinished ==
  \A n \in DOMAIN avail : avail[n].tag # Done => avail[n].buf \notin freebufs

(* A control command, which overwrites the page from its start and is       *)
(* recognised by the last tag seen, is alone in the queue.                  *)
CommandAlone ==
  (\E n \in DOMAIN avail : avail[n].tag = Done) =>
    Len(avail) = 1 /\ used = <<>> /\ inner = <<>> /\ freebufs = Bufs

(* Four descriptors for each buffer suffice: QSend, which panics for want   *)
(* of descriptors, never finds fewer than it needs.                         *)
DescriptorBudget ==
  Len(avail) + Len(used) + Len(inner) + Len(outer) <= 2 * MaxInFlight

(* No update reaches the host for a resource that is gone, has lost its     *)
(* backing memory or is not the one on the screen, though updates and the   *)
(* commands of a mode change are started by different actors.               *)
NoStaleResource ==
  \A n \in DOMAIN avail : avail[n].tag # Done =>
    avail[n].res \in created \intersect backed /\ avail[n].res = scanout

(* What has been drawn and copied to the front buffer is shown, if it is    *)
(* not drawn on again, without help from the frame timer.                   *)
DrawnIsShown ==
  \A t \in Tiles : <>[](stage[t] # "back") => <>[](stage[t] = "shown")

(* SetMode comes to its end: the reply that transact waits for is not      *)
(* hidden by another tag, and every buffer it waits for comes back.         *)
ModeEnds == task \in {"wait", "spin"} ~> task \in {"idle", "blit", "perf"}

(* Every update is accounted for, between interrupt levels that share the   *)
(* free buffers, the pending rectangle and the queue's descriptors.         *)
UpdatesAccounted ==
  /\ TypeOK
  /\ AwaitsCompletion
  /\ FreeWhenFinished
  /\ DescriptorBudget
=============================================================================
