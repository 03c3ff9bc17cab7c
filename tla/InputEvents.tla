---------------------------- MODULE InputEvents -----------------------------
(***************************************************************************)
(* The tablet driver (device-input.c): event buffers that go round between *)
(* driver and device, the state machine (handleEvent) that turns packets   *)
(* of events into clicks and cursor positions, and the way of a scroll     *)
(* step from the interrupt through the Event Manager to a scroll bar.      *)
(*                                                                         *)
(* The virtqueue appears as what Virtqueue shows it to be.  The main line  *)
(* queues the buffers at start-up with interest already on, so the bottom  *)
(* half may run between two of its QSend calls (that it may also run       *)
(* inside one is left out).  The device writes into the buffers it has     *)
(* been given at any time.                                                 *)
(***************************************************************************)
EXTENDS Integers, Sequences, SequencesExt, FiniteSets

CONSTANTS
  NBuf,       (* event buffers: QInit's result                             *)
  Buttons,    (* the buttons the driver knows: BTN_LEFT, BTN_RIGHT         *)
  Positions,  (* values of an axis; the other axis is handled alike        *)
  MaxWheel    (* bound on the scroll steps of a behaviour                  *)

ASSUME InputAssumption ==
  /\ NBuf \in Nat \ {0} /\ MaxWheel \in Nat
  /\ Buttons # {} /\ IsFiniteSet(Buttons) /\ Positions # {}

Bufs == 0 .. NBuf - 1

Event == [type : {"key"}, button : Buttons, down : BOOLEAN]
           \union [type : {"abs"}, pos : Positions]
           \union [type : {"wheel", "syn"}]
Syn == [type |-> "syn"]
Wheel == [type |-> "wheel"]

VARIABLES
  (* device-input.c *)
  lpage,       (* the buffers                                              *)
  queuing,     (* next buffer of initialize's loop, NBuf when it is over   *)
  knowpos, x, knowmask, newbtn, oldbtn,
  tag,         (* DNotified's, 0 outside it                                *)
  step,        (* where DNotified is                                       *)
  claimed,     (* entries claimed by QPoll                                 *)
  pendingScroll,
  curScroller, (* TRUE if it is not NULL                                   *)
  tracking,    (* where myTrackControl is, with the pendingScroll it read  *)
  (* the system *)
  mouse,       (* "down" or "up", as the last click event posted           *)
  cursor,      (* where JCrsrTask has put it                               *)
  posted,      (* scroll clicks posted and not yet seen by the filter      *)
  scrolled,    (* steps the scroll bars have moved                         *)
  (* the queue *)
  avail, used,
  (* the device *)
  packet,      (* events of the packet being written                       *)
  told, toldPos, toldWheel   (* what the packets so far amount to          *)

buttonVars == <<knowpos, x, knowmask, newbtn, oldbtn, mouse, cursor>>
scrollVars == <<pendingScroll, curScroller, tracking, posted, scrolled>>
deviceVars == <<packet, told, toldPos, toldWheel>>
loopVars == <<queuing, tag, step, claimed>>
vars == <<lpage, loopVars, buttonVars, scrollVars, avail, used, deviceVars>>

-----------------------------------------------------------------------------
(* initialize: reQueue of every buffer, on the main line.                   *)
Queue ==
  /\ queuing < NBuf /\ step = "idle" /\ claimed = <<>>
  /\ avail' = Append(avail, queuing)
  /\ queuing' = queuing + 1
  /\ UNCHANGED <<lpage, tag, step, claimed, buttonVars, scrollVars, used, deviceVars>>

(* The bottom half's QPoll. *)
QPoll ==
  /\ step = "idle" /\ claimed = <<>> /\ used # <<>>
  /\ claimed' = used
  /\ used' = <<>>
  /\ UNCHANGED <<lpage, queuing, tag, step, buttonVars, scrollVars, avail, deviceVars>>

(* Slip: DNotified hands the buffer back before it has read it. *)
LentAtOnce == Append(avail, Head(claimed))

LentLater == avail

(* DNotified handles the event, then gives the buffer back.                 *)
DNotified ==
  /\ step = "idle" /\ claimed # <<>>
  /\ tag' = Head(claimed)
  /\ claimed' = Tail(claimed)
  /\ step' = "handle"
  /\ avail' = LentLater
  /\ UNCHANGED <<lpage, queuing, buttonVars, scrollVars, used, deviceVars>>

HandleAbs(e) ==
  /\ e.type = "abs"
  /\ knowpos' = TRUE /\ x' = e.pos
  /\ UNCHANGED <<knowmask, newbtn, oldbtn, mouse, cursor, scrollVars>>

HandleKey(e) ==
  /\ e.type = "key"
  /\ knowmask' = knowmask \union {e.button}
  /\ newbtn' = IF e.down THEN newbtn \union {e.button} ELSE newbtn
  /\ UNCHANGED <<knowpos, x, oldbtn, mouse, cursor, scrollVars>>

(* A scroll step is added up, and a click with a message of its own posted. *)
HandleWheel(e) ==
  /\ e.type = "wheel"
  /\ pendingScroll' = pendingScroll + 1
  /\ posted' = posted + 1
  /\ UNCHANGED <<buttonVars, curScroller, tracking, scrolled>>

(* Slip: buttons the packet does not mention are taken to be up. *)
MentionedOnly == newbtn \intersect knowmask

MergedButtons == (newbtn \intersect knowmask) \union (oldbtn \ knowmask)

(* Slip: knowmask is not cleared at the end of the packet. *)
MaskKept == knowmask

MaskCleared == {}

(* The end of a packet: the cursor moves if there was a position; a click   *)
(* is posted if the first button went down or the last one up.              *)
HandleSyn(e) ==
  /\ e.type = "syn"
  /\ cursor' = IF knowpos THEN x ELSE cursor
  /\ knowpos' = FALSE
  /\ mouse' = IF (oldbtn # {}) = (MergedButtons # {}) THEN mouse
              ELSE IF MergedButtons # {} THEN "down" ELSE "up"
  /\ oldbtn' = MergedButtons
  /\ knowmask' = MaskCleared /\ newbtn' = {}
  /\ UNCHANGED <<x, scrollVars>>

HandleEvent ==
  /\ step = "handle"
  /\ LET e == lpage[tag]
     IN HandleAbs(e) \/ HandleKey(e) \/ HandleWheel(e) \/ HandleSyn(e)
  /\ step' = "requeue"
  /\ UNCHANGED <<lpage, queuing, tag, claimed, avail, used, deviceVars>>

ReQueue ==
  /\ step = "requeue"
  /\ avail' = Append(avail, tag)
  /\ step' = "idle" /\ tag' = 0
  /\ UNCHANGED <<lpage, queuing, claimed, buttonVars, scrollVars, used, deviceVars>>

-----------------------------------------------------------------------------
(* The application's main line, which the bottom half interrupts. *)

BottomHalfIdle == step = "idle" /\ claimed = <<>>

(* myGNEFilter meets a scroll click; the front window has a scroll bar or   *)
(* not.                                                                     *)
GNEFilter ==
  /\ BottomHalfIdle /\ posted > 0 /\ tracking.at = "idle"
  /\ posted' = posted - 1
  /\ curScroller' \in BOOLEAN
  /\ UNCHANGED <<lpage, loopVars, buttonVars, pendingScroll, tracking, scrolled,
                 avail, used, deviceVars>>

(* myTrackControl of that scroll bar reads pendingScroll... *)
TrackControl ==
  /\ BottomHalfIdle /\ curScroller /\ tracking.at = "idle"
  /\ tracking' = [at |-> "read", steps |-> pendingScroll]
  /\ UNCHANGED <<lpage, loopVars, buttonVars, pendingScroll, curScroller, posted,
                 scrolled, avail, used, deviceVars>>

(* Slip: pendingScroll is not reset. *)
ScrollKept == pendingScroll

ScrollTaken == 0

(* ... resets it and moves the scroll bar.                                  *)
TrackControlMove ==
  /\ BottomHalfIdle /\ tracking.at = "read"
  /\ pendingScroll' = ScrollTaken
  /\ scrolled' = scrolled + tracking.steps
  /\ curScroller' = FALSE
  /\ tracking' = [at |-> "idle", steps |-> 0]
  /\ UNCHANGED <<lpage, loopVars, buttonVars, posted, avail, used, deviceVars>>

-----------------------------------------------------------------------------
(* The device (not part of src/).  A packet of changes ends with EV_SYN; it *)
(* is dropped as a whole unless there are buffers for all of it.            *)

KeyEvents(changed, down) ==
  {[type |-> "key", button |-> b, down |-> b \in down] : b \in changed}

DevicePacket(changed, down, moves, pos, wheel) ==
  LET events == SetToSeq(KeyEvents(changed, down))
                  \o (IF moves THEN <<[type |-> "abs", pos |-> pos]>> ELSE <<>>)
                  \o (IF wheel THEN <<Wheel>> ELSE <<>>)
  IN /\ packet = <<>> /\ events # <<>> /\ Len(avail) > Len(events)
     /\ packet' = Append(events, Syn)
     /\ told' = (told \ changed) \union (changed \intersect down)
     /\ toldPos' = IF moves THEN pos ELSE toldPos
     /\ toldWheel' = IF wheel THEN toldWheel + 1 ELSE toldWheel
     /\ toldWheel' <= MaxWheel
     /\ UNCHANGED <<lpage, loopVars, buttonVars, scrollVars, avail, used>>

DeviceWrite ==
  /\ packet # <<>>
  /\ lpage' = [lpage EXCEPT ![Head(avail)] = Head(packet)]
  /\ packet' = Tail(packet)
  /\ avail' = Tail(avail)
  /\ used' = Append(used, Head(avail))
  /\ UNCHANGED <<loopVars, buttonVars, scrollVars, told, toldPos, toldWheel>>

-----------------------------------------------------------------------------
Init ==
  /\ lpage = [b \in Bufs |-> Syn] /\ queuing = 0
  /\ \E p \in Positions : x = p /\ cursor = p /\ toldPos = p
  /\ knowpos = FALSE /\ knowmask = {} /\ newbtn = {} /\ oldbtn = {}
  /\ tag = 0 /\ step = "idle" /\ claimed = <<>>
  /\ pendingScroll = 0 /\ curScroller = FALSE
  /\ tracking = [at |-> "idle", steps |-> 0]
  /\ mouse = "up" /\ posted = 0 /\ scrolled = 0
  /\ avail = <<>> /\ used = <<>>
  /\ packet = <<>> /\ told = {} /\ toldWheel = 0

BottomHalf == QPoll \/ DNotified \/ HandleEvent \/ ReQueue

MainLine == Queue \/ GNEFilter \/ TrackControl \/ TrackControlMove

Device ==
  \/ DeviceWrite
  \/ \E changed, down \in SUBSET Buttons, moves, wheel \in BOOLEAN, pos \in Positions :
       down \subseteq changed /\ DevicePacket(changed, down, moves, pos, wheel)

Next == BottomHalf \/ MainLine \/ Device

Spec == Init /\ [][Next]_vars

-----------------------------------------------------------------------------
TypeOK ==
  /\ lpage \in [Bufs -> Event] /\ queuing \in 0 .. NBuf
  /\ knowpos \in BOOLEAN /\ x \in Positions /\ cursor \in Positions
  /\ \A s \in {knowmask, newbtn, oldbtn, told} : s \subseteq Buttons
  /\ tag \in Bufs /\ step \in {"idle", "handle", "requeue"}
  /\ \A s \in {claimed, avail, used} : s \in Seq(Bufs) /\ Len(s) <= NBuf
  /\ pendingScroll \in 0 .. MaxWheel /\ posted \in 0 .. MaxWheel
  /\ curScroller \in BOOLEAN
  /\ tracking \in [at : {"idle", "read"}, steps : 0 .. MaxWheel]
  /\ scrolled \in 0 .. MaxWheel
  /\ mouse \in {"up", "down"}
  /\ packet \in Seq(Event) /\ toldPos \in Positions /\ toldWheel \in 0 .. MaxWheel

(* Every buffer that was queued at start-up is in one place: with the       *)
(* device, returned, claimed or in DNotified's hands.  None is lost to the  *)
(* device for ever and none is lent to it while it is still being read.     *)
BuffersKept ==
  LET held == IF step = "idle" THEN <<>> ELSE <<tag>>
      all == avail \o used \o claimed \o held
  IN Len(all) = queuing /\ ToSet(all) = 0 .. queuing - 1

(* Once all that the device has sent is handled, the buttons, the posted    *)
(* click and the cursor are what its packets amount to, however the packets *)
(* were cut into polls and whichever buttons they left unmentioned.         *)
ClicksFollowPackets ==
  packet = <<>> /\ used = <<>> /\ BottomHalfIdle =>
    /\ oldbtn = told
    /\ mouse = (IF told = {} THEN "up" ELSE "down")
    /\ cursor = toldPos

(* No scroll step moves a scroll bar twice, although interrupts add to      *)
(* pendingScroll while myTrackControl uses it up.  (A step that arrives     *)
(* between its reading and its reset moves none.)                           *)
ScrollsOnce == scrolled + pendingScroll <= toldWheel

(* Every event buffer is accounted for while initialize still queues some   *)
(* and the bottom half already returns others.                              *)
BuffersAccounted == TypeOK /\ BuffersKept
=============================================================================
