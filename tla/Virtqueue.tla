----------------------------- MODULE Virtqueue ------------------------------
(***************************************************************************)
(* One split virtqueue of the virtio drivers (src/virtio/virtqueue.c), the *)
(* two-stage interrupt path that the transports drive it with              *)
(* (transport-ndrv.c, transport-classic.c), a driver that uses it and the  *)
(* device at the other end of the rings.                                   *)
(*                                                                         *)
(* Who runs.  The device runs in parallel with everything.  The hardware   *)
(* interrupt (interruptTopHalf) stops all driver software but not the      *)
(* device.  The bottom half (QNotified) and the driver's own calls exclude *)
(* each other: drivers wrap the calls of their main line in ATOMIC.  What  *)
(* happens when they do not is shown in GpuDisplay.                        *)
(*                                                                         *)
(* Every driver of the repository initialises queue 0 only, so the loops   *)
(* "for (q=0; queues[q].size != 0; q++)" are one pass here.                *)
(***************************************************************************)
EXTENDS Integers, Sequences, FiniteSets

CONSTANTS
  QueueSize,    (* descriptors in the queue: QInit's result                *)
  IndexMod,     (* where a ring index wraps: 65536 for a uint16_t          *)
  Tags,         (* tags a driver passes to QSend                           *)
  ChainLengths, (* n_out+n_in of the messages the driver sends             *)
  MaxInterest,  (* how often the driver calls QInterest(+1) unmatched      *)
  NestsPolls,   (* TRUE if DNotified calls QPoll, as the display's does    *)
  CallbackSends,(* messages that one DNotified call may send               *)
  KeepsBudget,  (* TRUE if the driver never sends without the descriptors  *)
  BusyFlags     (* used.flags of a busy device: {0}, {1} or either         *)

(* The masking by size-1 needs a size that divides the index range, and    *)
(* QPoll tells a full used ring from an empty one only if it is smaller.   *)
(* A driver that polls from DNotified frees and reuses newer entries while *)
(* older ones are still unread in the used ring.  The ring is long enough  *)
(* for both only because each message takes two descriptors or more and a  *)
(* DNotified call sends two at most, one update of the screen.             *)
ASSUME QueueAssumption ==
  /\ QueueSize \in Nat \ {0}
  /\ IndexMod \in Nat /\ IndexMod % QueueSize = 0 /\ QueueSize < IndexMod
  /\ Tags # {}
  /\ ChainLengths \subseteq Nat \ {0}
  /\ MaxInterest \in Nat
  /\ NestsPolls \in BOOLEAN
  /\ CallbackSends \in Nat
  /\ NestsPolls => 1 \notin ChainLengths /\ CallbackSends <= 2
  /\ KeepsBudget \in BOOLEAN
  /\ BusyFlags \subseteq {0, 1}

Desc == 0 .. QueueSize - 1
Index == 0 .. IndexMod - 1
Free == QueueSize                 \* the 0xffff that marks a free descriptor

VARIABLES
  (* memory shared with the device *)
  next,        (* next[d]: descriptor after d in its chain, or Free        *)
  more,        (* more[d]: VIRTQ_DESC_F_NEXT of d                          *)
  availRing, availIdx,
  availFlags,  (* 1 asks the device not to interrupt                       *)
  usedRing, usedIdx,
  usedFlags,   (* 1 asks the driver not to kick                            *)
  (* struct virtq *)
  usedCtr, interest, tag,
  (* the transport *)
  isr,         (* bit 0 of the ISR status register                         *)
  suppress,    (* gSuppressNotification, qnotifying                        *)
  queued,      (* bottom halves queued and not yet begun                   *)
  topHalf,     (* where the hardware interrupt handler is                  *)
  bottomHalf,  (* where QNotified is                                       *)
  (* the driver *)
  polls,       (* QPoll activations, innermost last: used[from..to) to do; *)
               (* callback, sends: what its latest DNotified may still do  *)
  lastTag,     (* what DNotified was last called with                      *)
  mustNotify,  (* QSend done, QNotify to follow                            *)
  mustPoll,    (* QInterest done, QPoll to follow                          *)
  panicked,
  (* the device *)
  lastAvail,   (* next available entry to fetch                            *)
  owned,       (* heads fetched and not yet returned                       *)
  kicked,      (* VNotify not yet noticed                                  *)
  device,      (* "asleep", "busy", or at the "recheck" before sleep       *)
  signal       (* entries returned, interrupt not yet considered           *)

ringVars == <<next, more, availRing, availIdx, usedRing, usedIdx>>
deviceVars == <<lastAvail, owned, kicked, device, signal>>
transportVars == <<isr, suppress, queued, topHalf, bottomHalf>>
driverVars == <<polls, lastTag, mustNotify, mustPoll, panicked>>
vars == <<ringVars, availFlags, usedFlags, usedCtr, interest, tag,
          deviceVars, transportVars, driverVars>>

-----------------------------------------------------------------------------
(* The chains. *)

FreeDescs == {d \in Desc : next[d] = Free}

(* QSend scans down from the last descriptor: the k highest free ones. *)
Picked(k) ==
  {d \in FreeDescs : Cardinality({e \in FreeDescs : e > d}) < k}

(* The least of a set of descriptors. *)
Lowest(ds) == CHOOSE d \in ds : \A e \in ds : d <= e

Highest(ds) == CHOOSE d \in ds : \A e \in ds : e <= d

(* Slip: QSend files the tag under the last descriptor of the chain. *)
TagUnderLast(ds) == Highest(ds)

(* QSend files the tag under the head, where QPoll looks it up. *)
TaggedDesc(ds) == Lowest(ds)

(* What the walk of QPoll visits from h: next pointers while F_NEXT is set. *)
Chain(h) ==
  LET walk[n \in Desc] ==
        IF n = 0 THEN {h}
        ELSE walk[n - 1] \union ({next[d] : d \in {e \in walk[n - 1] : more[e]}} \ {Free})
  IN walk[QueueSize - 1]

(* Slip: QPoll frees the head and forgets the rest of the chain. *)
HeadOnly(h) == {h}

Freed(h) == Chain(h)

(* Slip: an index wider than its uint16_t. *)
WideSuccessor(i) == i + 1

Successor(i) == (i + 1) % IndexMod

(* The ring slots of the indices from a (included) to b (excluded), mod 2^16. *)
Window(a, b) == {(a + n) % QueueSize : n \in 0 .. ((b - a) % IndexMod) - 1}

-----------------------------------------------------------------------------
(* When driver code may run: no hardware interrupt being served, and either *)
(* the main line outside QNotified or a DNotified callback inside QPoll.  A *)
(* callback may "poll" once, or has "polled"; in the DNotified calls that   *)
(* this nested QPoll makes the driver does "none" of the queue operations   *)
(* (reentered in sendPixels).                                               *)

SoftwareRuns == topHalf = "idle" /\ ~panicked
Innermost == polls[Len(polls)]
DriverRuns ==
  /\ SoftwareRuns
  /\ IF polls = <<>> THEN bottomHalf = "idle" ELSE Innermost.callback # "none"

MayPoll ==
  \/ polls = <<>>
  \/ NestsPolls /\ polls # <<>> /\ Innermost.callback = "poll"

MaySend == polls # <<>> => Innermost.sends > 0

(* A message sent by a DNotified call counts against what it may send.      *)
Counted ==
  IF polls = <<>> THEN polls ELSE [polls EXCEPT ![Len(polls)].sends = @ - 1]

(* QInit leaves every descriptor free and the device asked to be quiet.     *)
(* lastTag starts as the tag of nothing in particular.                      *)
QInit ==
  /\ next = [d \in Desc |-> Free]
  /\ more = [d \in Desc |-> FALSE]
  /\ availRing = [s \in Desc |-> 0] /\ availIdx = 0 /\ availFlags = 1
  /\ usedRing = [s \in Desc |-> 0] /\ usedIdx = 0 /\ usedFlags = 0
  /\ usedCtr = 0 /\ interest = 0
  /\ \E t \in Tags : lastTag = t /\ tag = [d \in Desc |-> t]

(* QSend of a message of k buffers under tag t.  The driver's table of      *)
(* buffers is left out: only their number matters to the descriptors.       *)
QSend(k, t) ==
  /\ DriverRuns /\ ~mustPoll /\ MaySend
  /\ Cardinality(FreeDescs) >= k
  /\ LET ds == Picked(k)
         head == Lowest(ds)
     IN /\ next' = [d \in Desc |->
              IF d \notin ds THEN next[d]
              ELSE IF \E e \in ds : e > d THEN Lowest({e \in ds : e > d})
              ELSE 0]
        /\ more' = [d \in Desc |->
              IF d \in ds THEN \E e \in ds : e > d ELSE more[d]]
        /\ tag' = [tag EXCEPT ![TaggedDesc(ds)] = t]
        /\ availRing' = [availRing EXCEPT ![availIdx % QueueSize] = head]
  /\ availIdx' = Successor(availIdx)
  /\ mustNotify' = TRUE
  /\ polls' = Counted
  /\ UNCHANGED <<availFlags, usedRing, usedIdx, usedFlags, usedCtr, interest,
                 deviceVars, transportVars, lastTag, mustPoll, panicked>>

(* QSend with too few free descriptors panics; it takes what there is first, *)
(* which nothing can see after the panic.                                    *)
QSendPanic(k) ==
  /\ DriverRuns /\ ~mustPoll /\ MaySend /\ ~KeepsBudget
  /\ Cardinality(FreeDescs) < k
  /\ panicked' = TRUE
  /\ UNCHANGED <<ringVars, availFlags, usedFlags, usedCtr, interest, tag,
                 deviceVars, transportVars, polls, lastTag, mustNotify, mustPoll>>

(* Slip: used.flags read the wrong way round. *)
KickIfMuted == usedFlags = 1

WantsKick == usedFlags = 0

QNotify ==
  /\ DriverRuns /\ mustNotify
  /\ kicked' = (kicked \/ WantsKick)
  /\ mustNotify' = FALSE
  /\ UNCHANGED <<ringVars, availFlags, usedFlags, usedCtr, interest, tag,
                 lastAvail, owned, device, signal, transportVars,
                 polls, lastTag, mustPoll, panicked>>

(* QInterestAtomicPart.  A driver that turns interest on polls next, as     *)
(* sendPixels does, for what was returned while nobody was listening.       *)
QInterest(delta) ==
  /\ DriverRuns /\ ~mustPoll /\ ~mustNotify
  /\ interest + delta \in 0 .. MaxInterest
  /\ interest' = interest + delta
  /\ availFlags' = IF interest' = 0 THEN 1 ELSE 0
  /\ mustPoll' = (interest = 0)
  /\ mustPoll' => MayPoll
  /\ UNCHANGED <<ringVars, usedFlags, usedCtr, tag, deviceVars, transportVars,
                 polls, lastTag, mustNotify, panicked>>

-----------------------------------------------------------------------------
(* QPoll: everything new is claimed at once, then handled entry by entry.   *)

(* Slip: QPoll does not store its new position before the callbacks. *)
PositionKept == usedCtr

PositionClaimed == usedIdx

NewPoll == [from |-> usedCtr, to |-> usedIdx, callback |-> "none", sends |-> 0]

PollBegin ==
  /\ polls' = <<NewPoll>>
  /\ usedCtr' = PositionClaimed

(* The driver's own call, from its main line or from DNotified. *)
QPoll ==
  /\ DriverRuns /\ ~mustNotify /\ MayPoll
  /\ polls' = [n \in 1 .. Len(polls) |-> [polls[n] EXCEPT !.callback = "polled"]]
                \o <<NewPoll>>
  /\ usedCtr' = PositionClaimed
  /\ mustPoll' = FALSE
  /\ UNCHANGED <<ringVars, availFlags, usedFlags, interest, tag, deviceVars,
                 transportVars, lastTag, mustNotify, panicked>>

(* One turn of the loop: free the chain, then call DNotified, during which  *)
(* the driver's other actions are enabled.                                  *)
PollEntry ==
  /\ SoftwareRuns /\ polls # <<>> /\ ~mustNotify /\ ~mustPoll
  /\ Innermost.from # Innermost.to
  /\ LET first == usedRing[Innermost.from % QueueSize]
         chain == Freed(first)
     IN /\ next' = [d \in Desc |-> IF d \in chain THEN Free ELSE next[d]]
        /\ lastTag' = tag[first]
  /\ polls' = [polls EXCEPT ![Len(polls)] =
                 [Innermost EXCEPT
                    !.from = Successor(@),
                    !.callback = IF Len(polls) = 1 THEN "poll" ELSE "none",
                    !.sends = IF Len(polls) = 1 THEN CallbackSends ELSE 0]]
  /\ UNCHANGED <<more, availRing, availIdx, usedRing, usedIdx, availFlags,
                 usedFlags, usedCtr, interest, tag, deviceVars, transportVars,
                 mustNotify, mustPoll, panicked>>

PollReturn ==
  /\ SoftwareRuns /\ polls # <<>> /\ ~mustNotify /\ ~mustPoll
  /\ Innermost.from = Innermost.to
  /\ polls' = SubSeq(polls, 1, Len(polls) - 1)
  /\ UNCHANGED <<ringVars, availFlags, usedFlags, usedCtr, interest, tag,
                 deviceVars, transportVars, lastTag, mustNotify, mustPoll, panicked>>

-----------------------------------------------------------------------------
(* The interrupt path. *)

(* Slip: the top half does not look at gSuppressNotification. *)
NeverSuppressed == FALSE

Suppressed == suppress

(* Reading the ISR register also deasserts the interrupt. *)
TopHalfRead ==
  /\ topHalf = "idle" /\ isr /\ ~panicked
  /\ isr' = FALSE
  /\ topHalf' = IF Suppressed THEN "idle" ELSE "disarm"
  /\ UNCHANGED <<ringVars, availFlags, usedFlags, usedCtr, interest, tag,
                 deviceVars, suppress, queued, bottomHalf, driverVars>>

(* QDisarm, then the bottom half is queued. *)
TopHalfDisarm ==
  /\ topHalf = "disarm"
  /\ availFlags' = 1
  /\ suppress' = TRUE
  /\ queued' = queued + 1
  /\ topHalf' = "idle"
  /\ UNCHANGED <<ringVars, usedFlags, usedCtr, interest, tag, deviceVars,
                 isr, bottomHalf, driverVars>>

(* QNotified begins once the driver's own atomic section is over. *)
QNotified ==
  /\ SoftwareRuns /\ bottomHalf = "idle" /\ queued > 0
  /\ polls = <<>> /\ ~mustNotify /\ ~mustPoll
  /\ queued' = queued - 1
  /\ bottomHalf' = "poll1"
  /\ PollBegin
  /\ UNCHANGED <<ringVars, availFlags, usedFlags, interest, tag, deviceVars,
                 isr, suppress, topHalf, lastTag, mustNotify, mustPoll, panicked>>

VRearm ==
  /\ SoftwareRuns /\ bottomHalf = "poll1" /\ polls = <<>>
  /\ suppress' = FALSE
  /\ bottomHalf' = "rearmed"
  /\ UNCHANGED <<ringVars, availFlags, usedFlags, usedCtr, interest, tag,
                 deviceVars, isr, queued, topHalf, driverVars>>

(* Slip: QNotified leaves the flags as QDisarm set them. *)
FlagsLeft == availFlags

FlagsWanted == IF interest = 0 THEN 1 ELSE 0

(* The flags go back to what interest asks for. *)
QRestoreFlags ==
  /\ SoftwareRuns /\ bottomHalf = "rearmed"
  /\ availFlags' = FlagsWanted
  /\ bottomHalf' = "armed"
  /\ UNCHANGED <<ringVars, usedFlags, usedCtr, interest, tag, deviceVars,
                 isr, suppress, queued, topHalf, driverVars>>

(* Slip: QNotified polls only once, before it rearms. *)
QPollOnce ==
  /\ SoftwareRuns /\ bottomHalf = "armed"
  /\ bottomHalf' = "poll2"
  /\ UNCHANGED <<ringVars, availFlags, usedFlags, usedCtr, interest, tag,
                 deviceVars, isr, suppress, queued, topHalf, driverVars>>

(* The second poll, for what was returned before the flags were back. *)
QPollAgain ==
  /\ SoftwareRuns /\ bottomHalf = "armed"
  /\ bottomHalf' = "poll2"
  /\ PollBegin
  /\ UNCHANGED <<ringVars, availFlags, usedFlags, interest, tag, deviceVars,
                 isr, suppress, queued, topHalf, lastTag, mustNotify, mustPoll,
                 panicked>>

QNotifiedReturn ==
  /\ SoftwareRuns /\ bottomHalf = "poll2" /\ polls = <<>>
  /\ bottomHalf' = "idle"
  /\ UNCHANGED <<ringVars, availFlags, usedFlags, usedCtr, interest, tag,
                 deviceVars, isr, suppress, queued, topHalf, driverVars>>

-----------------------------------------------------------------------------
(* The device (not part of src/): fetches heads in order, returns them in   *)
(* any order, and honours both flags the way the driver relies on.          *)

DeviceWake ==
  /\ kicked /\ device = "asleep"
  /\ kicked' = FALSE
  /\ device' = "busy"
  /\ usedFlags' \in BusyFlags
  /\ UNCHANGED <<ringVars, availFlags, usedCtr, interest, tag, lastAvail, owned,
                 signal, transportVars, driverVars>>

DeviceFetch ==
  /\ device = "busy" /\ lastAvail # availIdx
  /\ owned' = owned \union {availRing[lastAvail % QueueSize]}
  /\ lastAvail' = Successor(lastAvail)
  /\ UNCHANGED <<ringVars, availFlags, usedFlags, usedCtr, interest, tag,
                 kicked, device, signal, transportVars, driverVars>>

(* Before it sleeps it asks for kicks again and looks once more. *)
DeviceDrowse ==
  /\ device = "busy" /\ lastAvail = availIdx
  /\ usedFlags' = 0
  /\ device' = "recheck"
  /\ UNCHANGED <<ringVars, availFlags, usedCtr, interest, tag, lastAvail, owned,
                 kicked, signal, transportVars, driverVars>>

DeviceRecheck ==
  /\ device = "recheck"
  /\ device' = IF lastAvail = availIdx THEN "asleep" ELSE "busy"
  /\ UNCHANGED <<ringVars, availFlags, usedFlags, usedCtr, interest, tag,
                 lastAvail, owned, kicked, signal, transportVars, driverVars>>

DeviceReturn(h) ==
  /\ h \in owned
  /\ owned' = owned \ {h}
  /\ usedRing' = [usedRing EXCEPT ![usedIdx % QueueSize] = h]
  /\ usedIdx' = Successor(usedIdx)
  /\ signal' = TRUE
  /\ UNCHANGED <<next, more, availRing, availIdx, availFlags, usedFlags, usedCtr,
                 interest, tag, lastAvail, kicked, device, transportVars, driverVars>>

DeviceSignal ==
  /\ signal
  /\ signal' = FALSE
  /\ isr' = (isr \/ availFlags = 0)
  /\ UNCHANGED <<ringVars, availFlags, usedFlags, usedCtr, interest, tag,
                 lastAvail, owned, kicked, device, suppress, queued, topHalf,
                 bottomHalf, driverVars>>

-----------------------------------------------------------------------------
Init ==
  /\ QInit
  /\ isr = FALSE /\ suppress = FALSE /\ queued = 0
  /\ topHalf = "idle" /\ bottomHalf = "idle"
  /\ polls = <<>> /\ mustNotify = FALSE /\ mustPoll = FALSE /\ panicked = FALSE
  /\ lastAvail = 0 /\ owned = {} /\ kicked = FALSE /\ device = "asleep"
  /\ signal = FALSE

Driver ==
  \/ \E k \in ChainLengths : QSendPanic(k) \/ \E t \in Tags : QSend(k, t)
  \/ QNotify \/ QPoll
  \/ QInterest(1) \/ QInterest(-1)

Software ==
  \/ PollEntry \/ PollReturn
  \/ QNotified \/ VRearm \/ QRestoreFlags \/ QPollAgain \/ QNotifiedReturn

Device ==
  \/ DeviceWake \/ DeviceFetch \/ DeviceDrowse \/ DeviceRecheck
  \/ DeviceSignal
  \/ \E h \in Desc : DeviceReturn(h)

Next == Driver \/ Software \/ TopHalfRead \/ TopHalfDisarm \/ Device

Spec == Init /\ [][Next]_vars

(* The processor runs what is pending, the device does not stop for ever,   *)
(* and a driver that must kick or poll does: those calls follow in straight *)
(* line code.  Nothing makes the driver send, poll or listen of its own.    *)
Fairness ==
  /\ WF_vars(Software) /\ WF_vars(TopHalfRead) /\ WF_vars(TopHalfDisarm)
  /\ WF_vars(QNotify) /\ WF_vars(mustPoll /\ QPoll)
  /\ WF_vars(DeviceWake \/ DeviceFetch \/ DeviceDrowse \/ DeviceRecheck)
  /\ WF_vars(DeviceSignal)
  /\ \A h \in Desc : WF_vars(DeviceReturn(h))

FairSpec == Spec /\ Fairness
-----------------------------------------------------------------------------
(* Where the chains are. *)

Waiting == {availRing[s] : s \in Window(lastAvail, availIdx)}
Claimed == UNION {{usedRing[s] : s \in Window(p.from, p.to)} : p \in
                    {polls[n] : n \in 1 .. Len(polls)}}
Unclaimed == {usedRing[s] : s \in Window(usedCtr, usedIdx)}

Lent == Waiting \union owned
Finished == Claimed \union Unclaimed

ClaimedEntries[n \in 0 .. 2] ==
  IF n = 0 THEN 0
  ELSE ClaimedEntries[n - 1] + ((polls[n].to - polls[n].from) % IndexMod)

(* Every entry of both rings and of the device, counted with repetitions. *)
Entries ==
  ((availIdx - lastAvail) % IndexMod) + Cardinality(owned)
    + ((usedIdx - usedCtr) % IndexMod) + ClaimedEntries[Len(polls)]

-----------------------------------------------------------------------------
(* Types: indices are 16 bits wide, descriptors and ring slots in range.    *)
TypeOK ==
  /\ next \in [Desc -> Desc \union {Free}]
  /\ more \in [Desc -> BOOLEAN]
  /\ availRing \in [Desc -> Desc] /\ usedRing \in [Desc -> Desc]
  /\ availIdx \in Index /\ usedIdx \in Index /\ usedCtr \in Index /\ lastAvail \in Index
  /\ availFlags \in {0, 1} /\ usedFlags \in {0, 1}
  /\ interest \in 0 .. MaxInterest
  /\ tag \in [Desc -> Tags] /\ lastTag \in Tags
  /\ polls \in Seq([from : Index, to : Index, callback : {"none", "poll", "polled"},
                    sends : Nat])
  /\ mustNotify \in BOOLEAN /\ mustPoll \in BOOLEAN /\ panicked \in BOOLEAN
  /\ isr \in BOOLEAN /\ suppress \in BOOLEAN /\ queued \in Nat
  /\ topHalf \in {"idle", "disarm"}
  /\ bottomHalf \in {"idle", "poll1", "rearmed", "armed", "poll2"}
  /\ owned \subseteq Desc
  /\ kicked \in BOOLEAN /\ signal \in BOOLEAN
  /\ device \in {"asleep", "busy", "recheck"}

(* Each descriptor is free or in the chain of exactly one head that the     *)
(* rings or the device hold, and no ring entry is overwritten or handled    *)
(* twice: QSend and QPoll between them neither leak, share nor double-free, *)
(* however sends, completions and nested polls interleave.                  *)
DescriptorsAccounted ==
  LET heads == Lent \union Finished
      chain == [h \in heads |-> Chain(h)]
  IN /\ Entries = Cardinality(heads)
     /\ \A h, g \in heads : h # g => chain[h] \intersect chain[g] = {}
     /\ Desc \ FreeDescs = UNION {chain[h] : h \in heads}

(* A buffer that came back while the driver is listening has a poll, a      *)
(* queued bottom half or an interrupt on the way, whatever the order of     *)
(* QDisarm, VRearm, the flag writes, QInterest and the device's own check.  *)
NoLostWakeup ==
  usedIdx # usedCtr /\ interest > 0 /\ ~mustPoll =>
    \/ isr
    \/ signal /\ availFlags = 0
    \/ topHalf = "disarm"
    \/ queued > 0
    \/ bottomHalf \in {"poll1", "rearmed", "armed"}

(* A message the driver has notified is not left lying in the available     *)
(* ring by a device that sleeps, although QNotify may skip the kick.        *)
NoLostKick ==
  lastAvail # availIdx /\ ~mustNotify => kicked \/ device # "asleep"

(* The bottom half is never queued while it is queued already: the classic  *)
(* transport queues one static DeferredTask record (dtq).                   *)
OneBottomHalf ==
  queued + (IF topHalf = "disarm" THEN 1 ELSE 0) <= 1

(* virtqueue.h: QSend "never blocks, just returns false if not enough       *)
(* descriptors available".                                                  *)
QSendOnlyReturns == ~panicked

Buffers ==
  LET lent == Lent
      finished == Finished
  IN [h \in Desc |-> IF h \in lent THEN "lent"
                     ELSE IF h \in finished THEN "finished" ELSE "idle"]

(* What the rings amount to: slot h is the buffer whose chain begins at h.  *)
Ledger == INSTANCE BufferLedger WITH
  Slots <- Desc,
  buffer <- Buffers,
  tagOf <- tag,
  last <- lastTag

(* The queue implements the ledger: each buffer lent comes back through     *)
(* DNotified once, after the device returned it, under its own tag.         *)
LedgerKept == Ledger!LedgerSpec

(* While the driver keeps listening, every buffer lent comes back and its   *)
(* descriptors are free again.                                              *)
EveryBufferComesBack ==
  <>[](interest > 0) => \A h \in Desc : h \in Lent ~> h \in FreeDescs
=============================================================================
