---------------------------- MODULE BufferLedger ----------------------------
(***************************************************************************)
(* What virtqueue.h and device.h promise a driver, with no rings in sight: *)
(* a buffer lent to the device with QSend comes back through DNotified     *)
(* once, after the device has finished with it, under the tag it was lent  *)
(* with.  Slots stand for the places a queue has for lent buffers; the     *)
(* driver never sees which one a buffer takes.                             *)
(***************************************************************************)

CONSTANTS
  Slots,   (* places for lent buffers                                      *)
  Tags     (* what a driver may pass QSend to recognise its buffer by      *)

VARIABLES
  buffer,    (* buffer[s]: "idle", "lent" to the device or "finished" by it *)
  tagOf,     (* the tag that slot s was last lent under                     *)
  last       (* the tag of the latest DNotified call                        *)

ledgerVars == <<buffer, tagOf, last>>

(* QSend of a one-tag message into any idle slot. *)
Lend(s, t) ==
  /\ buffer[s] = "idle"
  /\ buffer' = [buffer EXCEPT ![s] = "lent"]
  /\ tagOf' = [tagOf EXCEPT ![s] = t]
  /\ UNCHANGED last

(* The device is done with the buffer, in whatever order suits it. *)
Finish(s) ==
  /\ buffer[s] = "lent"
  /\ buffer' = [buffer EXCEPT ![s] = "finished"]
  /\ UNCHANGED <<tagOf, last>>

(* DNotified: the driver gets the tag back and the slot is idle again. *)
GiveBack(s) ==
  /\ buffer[s] = "finished"
  /\ buffer' = [buffer EXCEPT ![s] = "idle"]
  /\ last' = tagOf[s]
  /\ UNCHANGED tagOf

LedgerInit ==
  /\ buffer = [s \in Slots |-> "idle"]
  /\ tagOf \in [Slots -> Tags]
  /\ last \in Tags

LedgerNext ==
  \E s \in Slots : (\E t \in Tags : Lend(s, t)) \/ Finish(s) \/ GiveBack(s)

LedgerSpec == LedgerInit /\ [][LedgerNext]_ledgerVars
=============================================================================
