-------------------------- MODULE VirtqueueProofs ---------------------------
(***************************************************************************)
(* Theorems about Virtqueue for every queue size, index width, message     *)
(* length, set of tags and interest bound that QueueAssumption allows:     *)
(* types, the way of a wakeup and of a kick, the descriptors, and that the *)
(* rings implement BufferLedger.                                           *)
(***************************************************************************)
EXTENDS Virtqueue, FiniteSetTheorems, WellFoundedInduction, SequenceTheorems, TLAPS

-----------------------------------------------------------------------------
(* Types: ring indices keep their width, and what QSend writes into the     *)
(* rings are descriptors of the queue.                                      *)

Poll == [from : Index, to : Index, callback : {"none", "poll", "polled"}, sends : Nat]

-----------------------------------------------------------------------------
(* Indices and descriptors. *)

LEMMA SizesArePositive == QueueSize \in Nat /\ QueueSize > 0
                          /\ IndexMod \in Nat /\ IndexMod > 0
BY QueueAssumption DEF QueueAssumption

(* Masking an index by size-1 gives a slot of the ring. *)
LEMMA SlotInRing == \A i \in Int : i % QueueSize \in Desc
BY SizesArePositive DEF Desc

(* ++idx of a uint16_t stays a uint16_t. *)
LEMMA SuccessorInRange == \A i \in Index : Successor(i) \in Index
BY SizesArePositive DEF Index, Successor

Less == {pair \in Nat \X Nat : pair[1] < pair[2]}

LEMMA LessWellFounded == IsWellFoundedOn(Less, Nat)
BY NatLessThanWellFounded DEF OpToRel, Less

LEMMA LeastExists ==
  ASSUME NEW S \in SUBSET Nat, S # {}
  PROVE  \E x \in S : \A y \in S : x <= y
<1>1. PICK x \in S : \A y \in S : ~(<<y, x>> \in Less)
  BY WFMin, LessWellFounded, Zenon
<1>2. \A y \in S : ~(y < x)
  BY <1>1 DEF Less
<1> QED
  BY <1>2

LEMMA LowestInSet ==
  ASSUME NEW ds \in SUBSET Desc, ds # {}
  PROVE  Lowest(ds) \in ds
<1>1. \E d \in ds : \A e \in ds : d <= e
  BY LeastExists DEF Desc
<1> QED
  BY <1>1 DEF Lowest

LEMMA GreatestExists ==
  ASSUME NEW ds \in SUBSET Desc, ds # {}
  PROVE  \E d \in ds : \A e \in ds : e <= d
<1> DEFINE mirror == {QueueSize - d : d \in ds}
<1>1. mirror \in SUBSET Nat /\ mirror # {}
  <2>1. \A d \in ds : QueueSize - d \in Nat
    BY SizesArePositive DEF Desc
  <2>2. PICK d \in ds : TRUE
    OBVIOUS
  <2> QED
    BY <2>1, <2>2
<1>2. PICK m \in mirror : \A n \in mirror : m <= n
  BY <1>1, LeastExists
<1>3. PICK d \in ds : m = QueueSize - d
  BY <1>2
<1>4. \A e \in ds : QueueSize - d <= QueueSize - e
  BY <1>2, <1>3
<1>5. \A e \in ds : e <= d
  BY <1>4, SizesArePositive DEF Desc
<1> QED
  BY <1>3, <1>5

(* Whenever QSend finds enough free descriptors, it picks at least one.     *)
LEMMA PickedNonEmpty ==
  ASSUME NEW k \in ChainLengths, Cardinality(FreeDescs) >= k
  PROVE  Picked(k) # {} /\ Picked(k) \in SUBSET Desc
<1>1. k \in Nat /\ k > 0
  BY QueueAssumption DEF QueueAssumption
<1>2. FreeDescs # {}
  BY <1>1, FS_EmptySet
<1>3. PICK d \in FreeDescs : \A e \in FreeDescs : e <= d
  BY <1>2, GreatestExists DEF FreeDescs
<1>4. {e \in FreeDescs : e > d} = {}
  BY <1>3, SizesArePositive DEF FreeDescs, Desc
<1>5. Cardinality({e \in FreeDescs : e > d}) < k
  BY <1>1, <1>4, FS_EmptySet
<1> QED
  BY <1>3, <1>5 DEF Picked, FreeDescs

-----------------------------------------------------------------------------
LEMMA TypesInit == Init => TypeOK
<1> SUFFICES ASSUME Init PROVE TypeOK
  OBVIOUS
<1>1. /\ next = [d \in Desc |-> Free] /\ more = [d \in Desc |-> FALSE]
      /\ availRing = [s \in Desc |-> 0] /\ usedRing = [s \in Desc |-> 0]
      /\ availIdx = 0 /\ usedIdx = 0 /\ usedCtr = 0 /\ lastAvail = 0
      /\ availFlags = 1 /\ usedFlags = 0 /\ interest = 0
      /\ polls = <<>> /\ queued = 0 /\ topHalf = "idle" /\ bottomHalf = "idle"
      /\ owned = {} /\ device = "asleep"
  BY DEF Init, QInit
<1>2. /\ mustNotify \in BOOLEAN /\ mustPoll \in BOOLEAN /\ panicked \in BOOLEAN
      /\ isr \in BOOLEAN /\ suppress \in BOOLEAN
      /\ kicked \in BOOLEAN /\ signal \in BOOLEAN
  BY Zenon DEF Init
<1>3. PICK t \in Tags : lastTag = t /\ tag = [d \in Desc |-> t]
  BY Zenon DEF Init, QInit
<1>4. 0 \in Index /\ 0 \in Desc
  BY SizesArePositive DEF Index, Desc
<1>5. 0 \in 0 .. MaxInterest
  BY QueueAssumption DEF QueueAssumption
<1>6. polls \in Seq(Poll)
  BY <1>1
<1> QED
  BY <1>1, <1>2, <1>3, <1>4, <1>5, <1>6 DEF TypeOK, Poll

(* A DNotified call that may send has sends left to count down.             *)
LEMMA CountedTypes ==
  ASSUME TypeOK, MaySend
  PROVE  Counted \in Seq(Poll)
<1>1. polls \in Seq(Poll) /\ Len(polls) \in Nat
  BY DEF TypeOK, Poll
<1>2. CASE polls = <<>>
  BY <1>1, <1>2 DEF Counted
<1>3. CASE polls # <<>>
  <2> DEFINE sent == [Innermost EXCEPT !.sends = @ - 1]
  <2>1. Len(polls) \in 1 .. Len(polls) /\ Innermost \in Poll
    BY <1>1, <1>3 DEF Innermost
  <2>2. Innermost.sends \in Nat /\ Innermost.sends > 0
    BY <1>3, <2>1 DEF MaySend, Poll
  <2>3. sent \in Poll
    BY <2>1, <2>2 DEF Poll
  <2>4. Counted = [polls EXCEPT ![Len(polls)] = sent]
    BY <1>3 DEF Counted, Innermost
  <2> HIDE DEF sent
  <2> QED
    BY <1>1, <2>1, <2>3, <2>4
<1> QED
  BY <1>2, <1>3

(* What QSend writes into the tables and the available ring.                *)
LEMMA QSendTypes ==
  ASSUME TypeOK, NEW k \in ChainLengths, NEW t \in Tags, QSend(k, t)
  PROVE  TypeOK'
<1> DEFINE ds == Picked(k)
<1>1. Cardinality(FreeDescs) >= k
  BY DEF QSend
<1>2. ds # {} /\ ds \in SUBSET Desc
  BY <1>1, PickedNonEmpty
<1>3. Lowest(ds) \in Desc
  BY <1>2, LowestInSet
<1>4. next' \in [Desc -> Desc \union {Free}]
  <2>1. next' = [d \in Desc |->
              IF d \notin ds THEN next[d]
              ELSE IF \E e \in ds : e > d THEN Lowest({e \in ds : e > d})
              ELSE 0]
    BY DEF QSend
  <2>2. ASSUME NEW d \in Desc, \E e \in ds : e > d
        PROVE  Lowest({e \in ds : e > d}) \in Desc
    <3>1. {e \in ds : e > d} \in SUBSET Desc /\ {e \in ds : e > d} # {}
      BY <1>2, <2>2
    <3> QED
      BY <3>1, LowestInSet
  <2>3. \A d \in Desc : next[d] \in Desc \union {Free}
    BY DEF TypeOK
  <2>4. 0 \in Desc
    BY SizesArePositive DEF Desc
  <2> HIDE DEF ds
  <2> QED
    BY <2>1, <2>2, <2>3, <2>4
<1>5. more' \in [Desc -> BOOLEAN]
  <2>1. more' = [d \in Desc |->
              IF d \in ds THEN \E e \in ds : e > d ELSE more[d]]
    BY DEF QSend
  <2>2. \A d \in Desc : more[d] \in BOOLEAN
    BY DEF TypeOK
  <2> HIDE DEF ds
  <2> QED
    BY <2>1, <2>2, Zenon
<1>6. tag' \in [Desc -> Tags]
  BY DEF QSend, TypeOK
<1>7. availRing' \in [Desc -> Desc]
  BY <1>3 DEF QSend, TypeOK
<1>8. availIdx' \in Index
  BY SuccessorInRange DEF QSend, TypeOK
<1>9. mustNotify' \in BOOLEAN
  BY DEF QSend
<1>10. polls' \in Seq(Poll)
  <2>1. polls' = Counted
    BY DEF QSend
  <2> QED
    BY <2>1, CountedTypes DEF QSend
<1>11. UNCHANGED <<availFlags, usedRing, usedIdx, usedFlags, usedCtr, interest,
                   deviceVars, transportVars, lastTag, mustPoll, panicked>>
  BY DEF QSend
<1> QED
  BY <1>4, <1>5, <1>6, <1>7, <1>8, <1>9, <1>10, <1>11
  DEF TypeOK, Poll, deviceVars, transportVars

LEMMA QPollTypes ==
  ASSUME TypeOK, QPoll
  PROVE  TypeOK'
<1>1. NewPoll \in Poll
  BY DEF TypeOK, NewPoll, Poll
<1>2. polls \in Seq(Poll)
  BY DEF TypeOK, Poll
<1> DEFINE done == [n \in 1 .. Len(polls) |-> [polls[n] EXCEPT !.callback = "polled"]]
<1>3. done \in Seq(Poll)
  <2>1. Len(polls) \in Nat /\ \A n \in 1 .. Len(polls) : polls[n] \in Poll
    BY <1>2
  <2>2. \A n \in 1 .. Len(polls) : [polls[n] EXCEPT !.callback = "polled"] \in Poll
    BY <2>1 DEF Poll
  <2> QED
    BY <2>1, <2>2
<1>4. polls' = done \o <<NewPoll>>
  BY DEF QPoll
<1>5. <<NewPoll>> \in Seq(Poll)
  BY <1>1
<1>6. polls' \in Seq(Poll)
  BY <1>3, <1>4, <1>5, ConcatProperties
<1>7. usedCtr' \in Index /\ mustPoll' \in BOOLEAN
  BY DEF QPoll, PositionClaimed, TypeOK
<1>8. UNCHANGED <<ringVars, availFlags, usedFlags, interest, tag, deviceVars,
                  transportVars, lastTag, mustNotify, panicked>>
  BY DEF QPoll
<1> HIDE DEF done
<1> QED
  BY <1>6, <1>7, <1>8 DEF TypeOK, Poll, ringVars, deviceVars, transportVars

LEMMA PollEntryTypes ==
  ASSUME TypeOK, PollEntry
  PROVE  TypeOK'
<1> DEFINE first == usedRing[Innermost.from % QueueSize]
           chain == Freed(first)
           turned == [Innermost EXCEPT
                        !.from = Successor(@),
                        !.callback = IF Len(polls) = 1 THEN "poll" ELSE "none",
                        !.sends = IF Len(polls) = 1 THEN CallbackSends ELSE 0]
<1>1. polls \in Seq(Poll) /\ polls # <<>>
  BY DEF PollEntry, TypeOK, Poll
<1>2. Len(polls) \in 1 .. Len(polls) /\ Innermost \in Poll
  BY <1>1 DEF Innermost
<1>3. Successor(Innermost.from) \in Index
  BY <1>2, SuccessorInRange DEF Poll
<1>4. turned \in Poll
  BY <1>2, <1>3, QueueAssumption DEF Poll, QueueAssumption
<1>5. polls' = [polls EXCEPT ![Len(polls)] = turned]
  BY Zenon DEF PollEntry
<1>6. polls' \in Seq(Poll)
  <2> HIDE DEF turned
  <2> QED
    BY <1>1, <1>2, <1>4, <1>5
<1>7. first \in Desc
  <2>1. Innermost.from % QueueSize \in Desc
    BY <1>2, SlotInRing DEF Poll, Index
  <2> QED
    BY <2>1 DEF TypeOK
<1>8. next' \in [Desc -> Desc \union {Free}]
  <2>1. next' = [d \in Desc |-> IF d \in chain THEN Free ELSE next[d]]
    BY DEF PollEntry
  <2> HIDE DEF chain
  <2> QED
    BY <2>1 DEF TypeOK
<1>9. lastTag' \in Tags
  BY <1>7 DEF PollEntry, TypeOK
<1> QED
  BY <1>6, <1>8, <1>9
  DEF PollEntry, TypeOK, Poll, ringVars, deviceVars, transportVars

LEMMA PollReturnTypes ==
  ASSUME TypeOK, PollReturn
  PROVE  TypeOK'
<1>1. polls \in Seq(Poll) /\ Len(polls) \in Nat
  BY DEF TypeOK, Poll
<1>2. \A n \in 1 .. Len(polls) - 1 : polls[n] \in Poll
  BY <1>1
<1>3. SubSeq(polls, 1, Len(polls) - 1) \in Seq(Poll)
  BY <1>1, <1>2, SubSeqProperties
<1> QED
  BY <1>3 DEF PollReturn, TypeOK, Poll, ringVars, deviceVars, transportVars

(* The claim that QNotified makes for its own polls.                        *)
LEMMA PollBeginTypes ==
  ASSUME TypeOK, PollBegin
  PROVE  polls' \in Seq(Poll) /\ usedCtr' \in Index
<1>1. NewPoll \in Poll
  BY DEF TypeOK, NewPoll, Poll
<1> QED
  BY <1>1 DEF PollBegin, PositionClaimed, TypeOK

LEMMA DeviceTypes ==
  ASSUME TypeOK, Device
  PROVE  TypeOK'
<1> USE DEF TypeOK, ringVars, deviceVars, transportVars, driverVars
<1>1. CASE DeviceWake
  BY <1>1, QueueAssumption DEF DeviceWake, QueueAssumption
<1>2. CASE DeviceFetch
  <2>1. lastAvail % QueueSize \in Desc
    BY SlotInRing DEF Index
  <2>2. owned' \subseteq Desc /\ lastAvail' \in Index
    BY <1>2, <2>1, SuccessorInRange DEF DeviceFetch
  <2> QED
    BY <1>2, <2>2 DEF DeviceFetch
<1>3. CASE DeviceDrowse
  BY <1>3 DEF DeviceDrowse
<1>4. CASE DeviceRecheck
  BY <1>4 DEF DeviceRecheck
<1>5. CASE DeviceSignal
  <2>1. isr' \in BOOLEAN /\ signal' \in BOOLEAN
    BY <1>5, Zenon DEF DeviceSignal
  <2> QED
    BY <1>5, <2>1 DEF DeviceSignal
<1>6. ASSUME NEW h \in Desc, DeviceReturn(h) PROVE TypeOK'
  <2>1. usedIdx % QueueSize \in Desc
    BY SlotInRing DEF Index
  <2>2. usedRing' \in [Desc -> Desc] /\ usedIdx' \in Index
    BY <1>6, <2>1, SuccessorInRange DEF DeviceReturn
  <2> QED
    BY <1>6, <2>2 DEF DeviceReturn
<1> QED
  BY <1>1, <1>2, <1>3, <1>4, <1>5, <1>6 DEF Device

LEMMA TypesStep == TypeOK /\ [Next]_vars => TypeOK'
<1> SUFFICES ASSUME TypeOK, [Next]_vars PROVE TypeOK'
  OBVIOUS
<1> USE DEF ringVars, deviceVars, transportVars, driverVars
<1>1. ASSUME NEW k \in ChainLengths, QSendPanic(k) PROVE TypeOK'
  BY <1>1 DEF QSendPanic, TypeOK
<1>2. ASSUME NEW k \in ChainLengths, NEW t \in Tags, QSend(k, t) PROVE TypeOK'
  BY <1>2, QSendTypes
<1>3. CASE QNotify
  <2>1. mustNotify' \in BOOLEAN /\ kicked' \in BOOLEAN
    BY <1>3, Zenon DEF QNotify, TypeOK
  <2> QED
    BY <1>3, <2>1 DEF QNotify, TypeOK
<1>4. CASE QPoll
  BY <1>4, QPollTypes
<1>5. ASSUME NEW delta \in {1, -1}, QInterest(delta) PROVE TypeOK'
  <2>1. mustPoll' \in BOOLEAN
    BY <1>5, Zenon DEF QInterest
  <2>2. interest' \in 0 .. MaxInterest /\ availFlags' \in {0, 1}
    BY <1>5 DEF QInterest
  <2> QED
    BY <1>5, <2>1, <2>2 DEF QInterest, TypeOK
<1>6. CASE PollEntry
  BY <1>6, PollEntryTypes
<1>7. CASE PollReturn
  BY <1>7, PollReturnTypes
<1>8. CASE QNotified
  <2>1. polls' \in Seq(Poll) /\ usedCtr' \in Index
    BY <1>8, PollBeginTypes DEF QNotified
  <2>2. queued' \in Nat
    BY <1>8 DEF QNotified, TypeOK
  <2> QED
    BY <1>8, <2>1, <2>2 DEF QNotified, TypeOK, Poll
<1>9. CASE VRearm
  BY <1>9 DEF VRearm, TypeOK
<1>10. CASE QRestoreFlags
  BY <1>10 DEF QRestoreFlags, FlagsWanted, TypeOK
<1>11. CASE QPollAgain
  <2>1. polls' \in Seq(Poll) /\ usedCtr' \in Index
    BY <1>11, PollBeginTypes DEF QPollAgain
  <2> QED
    BY <1>11, <2>1 DEF QPollAgain, TypeOK, Poll
<1>12. CASE QNotifiedReturn
  BY <1>12 DEF QNotifiedReturn, TypeOK
<1>13. CASE TopHalfRead
  <2>1. isr' \in BOOLEAN
    BY <1>13, Zenon DEF TopHalfRead
  <2>2. topHalf' \in {"idle", "disarm"}
    BY <1>13 DEF TopHalfRead
  <2> QED
    BY <1>13, <2>1, <2>2 DEF TopHalfRead, TypeOK
<1>14. CASE TopHalfDisarm
  <2>1. suppress' \in BOOLEAN /\ topHalf' = "idle"
    BY <1>14, Zenon DEF TopHalfDisarm
  <2>2. availFlags' \in {0, 1} /\ queued' \in Nat
    BY <1>14 DEF TopHalfDisarm, TypeOK
  <2> QED
    BY <1>14, <2>1, <2>2 DEF TopHalfDisarm, TypeOK
<1>15. CASE Device
  BY <1>15, DeviceTypes
<1>16. CASE UNCHANGED vars
  BY <1>16 DEF vars, TypeOK
<1> QED
  BY <1>1, <1>2, <1>3, <1>4, <1>5, <1>6, <1>7, <1>8, <1>9, <1>10, <1>11, <1>12,
     <1>13, <1>14, <1>15, <1>16 DEF Next, Driver, Software

(* Every index keeps the width of its uint16_t, and every descriptor number *)
(* that QSend (virtqueue.c:73-109) leaves in a ring or a next field is one  *)
(* of the queue, for every queue size and mix of message lengths.           *)
THEOREM TypesKept == Spec => []TypeOK
<1> QED
  BY TypesInit, TypesStep, PTL DEF Spec

-----------------------------------------------------------------------------
(* Reading aid for the steps below: what the transport may assume of itself *)
(* and of the flags.  suppress is set exactly while a bottom half is queued *)
(* or in its first poll; flags are muted against the driver's interest only *)
(* on the way from QDisarm to the restoring write.                          *)
TransportTypes ==
  /\ isr \in BOOLEAN /\ suppress \in BOOLEAN /\ queued \in {0, 1}
  /\ topHalf \in {"idle", "disarm"}
  /\ bottomHalf \in {"idle", "poll1", "rearmed", "armed", "poll2"}
  /\ interest \in Nat /\ availFlags \in {0, 1} /\ signal \in BOOLEAN
  /\ mustPoll \in BOOLEAN

SuppressedWhileQueued ==
  /\ suppress <=> queued = 1 \/ bottomHalf = "poll1"
  /\ bottomHalf = "poll1" => queued = 0
  /\ topHalf = "disarm" => ~suppress

MutedOnlyInPassing ==
  interest > 0 /\ availFlags = 1 => queued = 1 \/ bottomHalf \in {"poll1", "rearmed"}

WakeupInv ==
  TransportTypes /\ SuppressedWhileQueued /\ MutedOnlyInPassing /\ NoLostWakeup

LEMMA WakeupInit == Init => WakeupInv
<1> SUFFICES ASSUME Init PROVE WakeupInv
  OBVIOUS
<1>1. /\ ~isr /\ ~suppress /\ queued = 0 /\ ~signal /\ ~mustPoll
      /\ isr \in BOOLEAN /\ suppress \in BOOLEAN
      /\ signal \in BOOLEAN /\ mustPoll \in BOOLEAN
      /\ topHalf = "idle" /\ bottomHalf = "idle"
      /\ interest = 0 /\ availFlags = 1 /\ usedIdx = usedCtr
  BY Zenon DEF Init, QInit
<1> QED
  BY <1>1 DEF WakeupInv, TransportTypes, SuppressedWhileQueued,
              MutedOnlyInPassing, NoLostWakeup

LEMMA WakeupStep == WakeupInv /\ [Next]_vars => WakeupInv'
<1> SUFFICES ASSUME WakeupInv, [Next]_vars PROVE WakeupInv'
  OBVIOUS
<1> USE DEF WakeupInv, TransportTypes, SuppressedWhileQueued, MutedOnlyInPassing,
            NoLostWakeup, ringVars, deviceVars, transportVars, driverVars,
            SoftwareRuns
<1>1. ASSUME NEW k \in ChainLengths, QSendPanic(k) PROVE WakeupInv'
  BY <1>1 DEF QSendPanic
<1>2. ASSUME NEW k \in ChainLengths, NEW t \in Tags, QSend(k, t) PROVE WakeupInv'
  BY <1>2 DEF QSend
<1>3. CASE QNotify
  BY <1>3 DEF QNotify
<1>4. CASE QPoll
  BY <1>4 DEF QPoll, PositionClaimed
<1>5. ASSUME NEW delta \in {1, -1}, QInterest(delta) PROVE WakeupInv'
  <2>1. /\ interest' = interest + delta /\ interest' \in 0 .. MaxInterest
        /\ availFlags' = (IF interest' = 0 THEN 1 ELSE 0)
        /\ UNCHANGED <<isr, suppress, queued, topHalf, bottomHalf, signal,
                       usedIdx, usedCtr>>
    BY <1>5 DEF QInterest
  <2>2. mustPoll' \in BOOLEAN /\ (mustPoll' <=> interest = 0)
    BY <1>5, Zenon DEF QInterest
  <2>3. interest' \in Nat /\ (interest' > 0 => availFlags' = 0)
        /\ availFlags' \in {0, 1}
    BY <2>1, QueueAssumption DEF QueueAssumption
  <2>4. CASE interest = 0
    <3>1. mustPoll'
      BY <2>2, <2>4
    <3> QED
      BY <2>1, <2>2, <2>3, <3>1
  <2>5. CASE interest # 0
    <3>1. ~mustPoll
      BY <1>5 DEF QInterest
    <3>2. interest > 0
      BY <2>5
    <3> QED
      BY <2>1, <2>2, <2>3, <3>1, <3>2
  <2> QED
    BY <2>4, <2>5
<1>6. CASE PollEntry
  BY <1>6 DEF PollEntry
<1>7. CASE PollReturn
  BY <1>7 DEF PollReturn
<1>8. CASE QNotified
  BY <1>8 DEF QNotified, PollBegin, PositionClaimed
<1>9. CASE VRearm
  <2>1. /\ ~suppress' /\ suppress' \in BOOLEAN
        /\ bottomHalf = "poll1" /\ bottomHalf' = "rearmed"
        /\ UNCHANGED <<isr, queued, topHalf, signal, usedIdx, usedCtr, mustPoll,
                       interest, availFlags>>
    BY <1>9, Zenon DEF VRearm
  <2>2. CASE suppress
    BY <2>1, <2>2
  <2>3. CASE ~suppress
    BY <2>1, <2>3
  <2> QED
    BY <2>2, <2>3
<1>10. CASE QRestoreFlags
  BY <1>10 DEF QRestoreFlags, FlagsWanted
<1>11. CASE QPollAgain
  BY <1>11 DEF QPollAgain, PollBegin, PositionClaimed
<1>12. CASE QNotifiedReturn
  BY <1>12 DEF QNotifiedReturn
<1>13. CASE TopHalfRead
  <2>1. /\ ~isr' /\ isr' \in BOOLEAN
        /\ topHalf' = IF suppress THEN "idle" ELSE "disarm"
        /\ UNCHANGED <<suppress, queued, bottomHalf, signal, usedIdx, usedCtr,
                       mustPoll, interest, availFlags>>
    BY <1>13, Zenon DEF TopHalfRead, Suppressed
  <2> QED
    BY <2>1
<1>14. CASE TopHalfDisarm
  BY <1>14 DEF TopHalfDisarm
<1>15. CASE DeviceWake
  BY <1>15 DEF DeviceWake
<1>16. CASE DeviceFetch
  BY <1>16 DEF DeviceFetch
<1>17. CASE DeviceDrowse
  BY <1>17 DEF DeviceDrowse
<1>18. CASE DeviceRecheck
  BY <1>18 DEF DeviceRecheck
<1>19. CASE DeviceSignal
  BY <1>19 DEF DeviceSignal
<1>20. ASSUME NEW h \in Desc, DeviceReturn(h) PROVE WakeupInv'
  BY <1>20 DEF DeviceReturn
<1>21. CASE UNCHANGED vars
  BY <1>21 DEF vars
<1> QED
  BY <1>1, <1>2, <1>3, <1>4, <1>5, <1>6, <1>7, <1>8, <1>9, <1>10, <1>11, <1>12,
     <1>13, <1>14, <1>15, <1>16, <1>17, <1>18, <1>19, <1>20, <1>21
  DEF Next, Driver, Software, Device

(* No interleaving of the device's check of the flags with QDisarm, VRearm, *)
(* the restoring of the flags and QInterest leaves a returned buffer with   *)
(* nobody on the way to collect it (virtqueue.c:115-147, interruptTopHalf). *)
THEOREM WakeupsKept == Spec => []NoLostWakeup
<1>1. Init => WakeupInv
  BY WakeupInit
<1>2. WakeupInv /\ [Next]_vars => WakeupInv'
  BY WakeupStep
<1>3. WakeupInv => NoLostWakeup
  BY DEF WakeupInv
<1> QED
  BY <1>1, <1>2, <1>3, PTL DEF Spec

(* gSuppressNotification (qnotifying) keeps the bottom half from being      *)
(* queued twice, from the first interrupt until VRearm has run in it.       *)
THEOREM BottomHalfQueuedOnce == Spec => []OneBottomHalf
<1>1. Init => WakeupInv
  BY WakeupInit
<1>2. WakeupInv /\ [Next]_vars => WakeupInv'
  BY WakeupStep
<1>3. WakeupInv => OneBottomHalf
  BY DEF WakeupInv, TransportTypes, SuppressedWhileQueued, OneBottomHalf
<1> QED
  BY <1>1, <1>2, <1>3, PTL DEF Spec

-----------------------------------------------------------------------------
(* Reading aid: a device that has asked not to be kicked is awake.          *)
KickTypes ==
  /\ usedFlags \in {0, 1}
  /\ mustNotify \in BOOLEAN /\ kicked \in BOOLEAN
  /\ device \in {"asleep", "busy", "recheck"}

MutedWhileAwake == usedFlags = 1 => device = "busy"

KickInv == KickTypes /\ MutedWhileAwake /\ NoLostKick

LEMMA KickInit == Init => KickInv
<1> SUFFICES ASSUME Init PROVE KickInv
  OBVIOUS
<1>1. /\ usedFlags = 0 /\ device = "asleep" /\ lastAvail = availIdx
      /\ mustNotify \in BOOLEAN /\ kicked \in BOOLEAN
  BY Zenon DEF Init, QInit
<1> QED
  BY <1>1 DEF KickInv, KickTypes, MutedWhileAwake, NoLostKick

LEMMA KickStep == KickInv /\ [Next]_vars => KickInv'
<1> SUFFICES ASSUME KickInv, [Next]_vars PROVE KickInv'
  OBVIOUS
<1> USE DEF KickInv, KickTypes, MutedWhileAwake, NoLostKick,
            ringVars, deviceVars, transportVars, driverVars
<1>1. ASSUME NEW k \in ChainLengths, QSendPanic(k) PROVE KickInv'
  BY <1>1 DEF QSendPanic
<1>2. ASSUME NEW k \in ChainLengths, NEW t \in Tags, QSend(k, t) PROVE KickInv'
  BY <1>2 DEF QSend
<1>3. CASE QNotify
  <2>1. /\ ~mustNotify' /\ mustNotify' \in BOOLEAN
        /\ kicked' \in BOOLEAN /\ (kicked' <=> kicked \/ usedFlags = 0)
        /\ UNCHANGED <<usedFlags, device, lastAvail, availIdx>>
    BY <1>3, Zenon DEF QNotify, WantsKick
  <2> QED
    BY <2>1
<1>4. CASE QPoll
  BY <1>4 DEF QPoll
<1>5. ASSUME NEW delta \in {1, -1}, QInterest(delta) PROVE KickInv'
  BY <1>5 DEF QInterest
<1>6. CASE Software
  BY <1>6 DEF Software, PollEntry, PollReturn, QNotified, VRearm, QRestoreFlags,
              QPollAgain, QNotifiedReturn
<1>7. CASE TopHalfRead \/ TopHalfDisarm
  BY <1>7 DEF TopHalfRead, TopHalfDisarm
<1>8. CASE DeviceWake
  BY <1>8, QueueAssumption DEF DeviceWake, QueueAssumption
<1>9. CASE DeviceFetch
  BY <1>9 DEF DeviceFetch
<1>10. CASE DeviceDrowse
  BY <1>10 DEF DeviceDrowse
<1>11. CASE DeviceRecheck
  BY <1>11 DEF DeviceRecheck
<1>12. CASE DeviceSignal
  BY <1>12 DEF DeviceSignal
<1>13. ASSUME NEW h \in Desc, DeviceReturn(h) PROVE KickInv'
  BY <1>13 DEF DeviceReturn
<1>14. CASE UNCHANGED vars
  BY <1>14 DEF vars
<1> QED
  BY <1>1, <1>2, <1>3, <1>4, <1>5, <1>6, <1>7, <1>8, <1>9, <1>10, <1>11, <1>12,
     <1>13, <1>14 DEF Next, Driver, Device

(* QNotify (virtqueue.c:111-113) may skip the kick when used.flags asks it  *)
(* to: a message is nevertheless never left behind in front of a device     *)
(* that sleeps, because the device clears the flag and looks once more      *)
(* before it does.                                                          *)
THEOREM KicksKept == Spec => []NoLostKick
<1>1. Init => KickInv
  BY KickInit
<1>2. KickInv /\ [Next]_vars => KickInv'
  BY KickStep
<1>3. KickInv => NoLostKick
  BY DEF KickInv
<1> QED
  BY <1>1, <1>2, <1>3, PTL DEF Spec

(* Rings.  How far b is ahead of a; the windows of a ring.                   *)
Gap(a, b) == (b - a) % IndexMod

LEMMA GapIs ==
  ASSUME NEW a \in Index, NEW b \in Index
  PROVE  Gap(a, b) = IF a <= b THEN b - a ELSE b - a + IndexMod
<1>1. a \in Int /\ b \in Int /\ IndexMod \in Int /\ IndexMod > 0
  BY SizesArePositive DEF Index
<1>2. 0 <= a /\ a < IndexMod /\ 0 <= b /\ b < IndexMod
  BY <1>1 DEF Index
<1> QED
  BY <1>1, <1>2 DEF Gap

LEMMA SuccessorIs ==
  ASSUME NEW a \in Index
  PROVE  Successor(a) = IF a + 1 = IndexMod THEN 0 ELSE a + 1
BY SizesArePositive DEF Index, Successor

LEMMA RingIs ==
  ASSUME NEW x \in Int
  PROVE  \E k \in Int : x = k * QueueSize + (x % QueueSize)
BY SizesArePositive

(* Indices that differ by less than the size of the ring have slots of      *)
(* their own.                                                               *)
LEMMA SlotsApart ==
  ASSUME NEW x \in Int, NEW y \in Int, x < y, y < x + QueueSize
  PROVE  x % QueueSize # y % QueueSize
<1> SUFFICES ASSUME x % QueueSize = y % QueueSize PROVE FALSE
  OBVIOUS
<1>1. PICK k \in Int : x = k * QueueSize + (x % QueueSize)
  BY RingIs
<1>2. PICK j \in Int : y = j * QueueSize + (y % QueueSize)
  BY RingIs
<1>3. y - x = (j - k) * QueueSize
  BY <1>1, <1>2, SizesArePositive, SlotInRing DEF Desc
<1> DEFINE d == j - k
<1>4. d \in Int /\ 0 < d * QueueSize /\ d * QueueSize < QueueSize
  BY <1>1, <1>2, <1>3, SizesArePositive
<1> HIDE DEF d
<1>5. CASE d <= 0
  BY <1>4, <1>5, SizesArePositive
<1>6. CASE d >= 1
  BY <1>4, <1>6, SizesArePositive
<1> QED
  BY <1>4, <1>5, <1>6

(* The masking by size-1 is not disturbed when an index wraps.              *)
LEMMA SlotWraps ==
  ASSUME NEW x \in Int
  PROVE  (x + IndexMod) % QueueSize = x % QueueSize
<1>1. PICK k \in Int : x = k * QueueSize + (x % QueueSize)
  BY RingIs
<1>2. PICK m \in Int : IndexMod = m * QueueSize
  <2>1. IndexMod % QueueSize = 0 /\ IndexMod \in Int
    BY QueueAssumption DEF QueueAssumption
  <2>2. PICK m \in Int : IndexMod = m * QueueSize + (IndexMod % QueueSize)
    BY <2>1, RingIs
  <2>3. IndexMod = m * QueueSize
    BY <2>1, <2>2, SizesArePositive
  <2> QED
    BY <2>3
<1>3. PICK j \in Int : x + IndexMod = j * QueueSize + ((x + IndexMod) % QueueSize)
  BY SizesArePositive, RingIs
<1> DEFINE r == x % QueueSize
           s == (x + IndexMod) % QueueSize
           d == j - k - m
<1>4. r \in 0 .. QueueSize - 1 /\ s \in 0 .. QueueSize - 1 /\ d \in Int
  BY SizesArePositive, SlotInRing DEF Desc
<1>5. d * QueueSize = r - s
  BY <1>1, <1>2, <1>3, SizesArePositive
<1> HIDE DEF d, r, s
<1>6. -QueueSize < d * QueueSize /\ d * QueueSize < QueueSize
  BY <1>4, <1>5, SizesArePositive
<1>7. d = 0
  <2>1. CASE d <= -1
    BY <1>4, <1>6, <2>1, SizesArePositive
  <2>2. CASE d >= 1
    BY <1>4, <1>6, <2>2, SizesArePositive
  <2> QED
    BY <1>4, <2>1, <2>2
<1>8. r = s
  BY <1>4, <1>5, <1>7, SizesArePositive
<1> QED
  BY <1>8 DEF r, s

-----------------------------------------------------------------------------
LEMMA WindowIs ==
  ASSUME NEW a \in Index, NEW b \in Index
  PROVE  Window(a, b) = {(a + n) % QueueSize : n \in 0 .. Gap(a, b) - 1}
BY DEF Window, Gap

LEMMA GapGrows ==
  ASSUME NEW a \in Index, NEW b \in Index, Gap(a, b) < IndexMod - 1
  PROVE  Gap(a, Successor(b)) = Gap(a, b) + 1
<1>1. Successor(b) \in Index
  BY SuccessorInRange
<1> QED
  BY <1>1, GapIs, SuccessorIs, SizesArePositive DEF Index

LEMMA GapShrinks ==
  ASSUME NEW a \in Index, NEW b \in Index, a # b
  PROVE  Gap(a, b) > 0 /\ Gap(Successor(a), b) = Gap(a, b) - 1
<1>1. Successor(a) \in Index
  BY SuccessorInRange
<1> QED
  BY <1>1, GapIs, SuccessorIs, SizesArePositive DEF Index

LEMMA GapRange ==
  ASSUME NEW a \in Index, NEW b \in Index
  PROVE  Gap(a, b) \in 0 .. IndexMod - 1 /\ (Gap(a, b) = 0 <=> a = b)
BY GapIs, SizesArePositive DEF Index

(* Three indices in order.                                                  *)
LEMMA GapSplits ==
  ASSUME NEW a \in Index, NEW b \in Index, NEW c \in Index, Gap(a, b) <= Gap(a, c)
  PROVE  Gap(a, c) = Gap(a, b) + Gap(b, c)
BY GapIs, SizesArePositive DEF Index

LEMMA GapJoins ==
  ASSUME NEW a \in Index, NEW b \in Index, NEW c \in Index,
         Gap(a, b) + Gap(b, c) < IndexMod
  PROVE  Gap(a, c) = Gap(a, b) + Gap(b, c)
BY GapIs, SizesArePositive DEF Index

(* The slot of b is the one just after the window from a to b.              *)
LEMMA SlotAhead ==
  ASSUME NEW a \in Index, NEW b \in Index
  PROVE  (a + Gap(a, b)) % QueueSize = b % QueueSize
<1>1. a \in Int /\ b \in Int /\ IndexMod \in Int
  BY SizesArePositive DEF Index
<1>2. CASE a <= b
  <2>1. a + Gap(a, b) = b
    BY <1>1, <1>2, GapIs
  <2> QED
    BY <2>1
<1>3. CASE ~(a <= b)
  <2>1. a + Gap(a, b) = b + IndexMod
    BY <1>1, <1>3, GapIs
  <2> QED
    BY <1>1, <2>1, SlotWraps
<1> QED
  BY <1>2, <1>3

LEMMA WindowGrows ==
  ASSUME NEW a \in Index, NEW b \in Index, Gap(a, b) < IndexMod - 1
  PROVE  Window(a, Successor(b)) = Window(a, b) \union {b % QueueSize}
<1>1. Gap(a, b) \in Nat
  BY GapRange
<1>2. Gap(a, Successor(b)) = Gap(a, b) + 1 /\ Successor(b) \in Index
  BY GapGrows, SuccessorInRange
<1>3. 0 .. Gap(a, Successor(b)) - 1 = (0 .. Gap(a, b) - 1) \union {Gap(a, b)}
  BY <1>1, <1>2
<1>4. (a + Gap(a, b)) % QueueSize = b % QueueSize
  BY SlotAhead
<1>5. Window(a, Successor(b))
        = {(a + n) % QueueSize : n \in 0 .. Gap(a, Successor(b)) - 1}
  BY <1>2, WindowIs
<1>6. Window(a, b) = {(a + n) % QueueSize : n \in 0 .. Gap(a, b) - 1}
  BY WindowIs
<1> QED
  BY <1>3, <1>4, <1>5, <1>6

LEMMA WindowShrinks ==
  ASSUME NEW a \in Index, NEW b \in Index, a # b, Gap(a, b) <= QueueSize
  PROVE  /\ a % QueueSize \in Window(a, b)
         /\ Window(Successor(a), b) = Window(a, b) \ {a % QueueSize}
<1> DEFINE g == Gap(a, b)
           c == Successor(a)
<1>1. g \in Nat /\ g > 0 /\ Gap(c, b) = g - 1 /\ c \in Index
  BY GapRange, GapShrinks, SuccessorInRange
<1>2. a \in Int /\ IndexMod \in Int /\ QueueSize \in Int
  BY SizesArePositive DEF Index
<1>3. ASSUME NEW n \in Int PROVE (c + n) % QueueSize = (a + n + 1) % QueueSize
  <2>1. CASE a + 1 = IndexMod
    <3>1. a + n + 1 = (c + n) + IndexMod
      BY <1>2, <2>1, SuccessorIs
    <3>2. c + n \in Int
      BY <1>1 DEF Index
    <3> QED
      BY <3>1, <3>2, SlotWraps
  <2>2. CASE a + 1 # IndexMod
    <3>1. a + n + 1 = c + n
      BY <1>2, <2>2, SuccessorIs
    <3> QED
      BY <3>1
  <2> QED
    BY <2>1, <2>2
<1>4. Window(c, b) = {(c + n) % QueueSize : n \in 0 .. g - 1 - 1}
  BY <1>1, WindowIs
<1>5. Window(a, b) = {(a + n) % QueueSize : n \in 0 .. g - 1}
  BY WindowIs
<1>6. g <= QueueSize
  OBVIOUS
<1> HIDE DEF g, c
<1>7. a % QueueSize = (a + 0) % QueueSize
  BY <1>2
<1>8. a % QueueSize \in Window(a, b)
  BY <1>1, <1>5, <1>7
<1>9. ASSUME NEW n \in 1 .. g - 1 PROVE (a + n) % QueueSize # a % QueueSize
  <2>1. n \in Int /\ 0 < n /\ n < QueueSize
    BY <1>1, <1>2, <1>6
  <2>2. a + n \in Int /\ a < a + n /\ a + n < a + QueueSize
    BY <1>2, <2>1
  <2> QED
    BY <1>2, <2>2, SlotsApart
<1>10. ASSUME NEW s \in Window(c, b) PROVE s \in Window(a, b) \ {a % QueueSize}
  <2>1. PICK n \in 0 .. g - 1 - 1 : s = (c + n) % QueueSize
    BY <1>4
  <2>2. n + 1 \in 1 .. g - 1 /\ s = (a + (n + 1)) % QueueSize
    BY <1>1, <1>2, <1>3, <2>1
  <2> QED
    BY <1>5, <1>9, <2>2
<1>11. ASSUME NEW s \in Window(a, b) \ {a % QueueSize} PROVE s \in Window(c, b)
  <2>1. PICK n \in 0 .. g - 1 : s = (a + n) % QueueSize
    BY <1>5
  <2>2. n # 0
    <3> SUFFICES ASSUME n = 0 PROVE FALSE
      OBVIOUS
    <3>1. s = (a + 0) % QueueSize
      BY <2>1
    <3> QED
      BY <1>7, <3>1
  <2>3. n - 1 \in 0 .. g - 1 - 1
    BY <1>1, <2>2
  <2>4. a + (n - 1) + 1 = a + n
    BY <1>2
  <2>5. s = (c + (n - 1)) % QueueSize
    BY <1>3, <2>1, <2>3, <2>4
  <2> QED
    BY <1>4, <2>3, <2>5
<1> QED
  BY <1>8, <1>10, <1>11 DEF c

(* What is written at b spares every window that does not reach b.          *)
LEMMA WindowSpared ==
  ASSUME NEW a \in Index, NEW b \in Index, NEW c \in Index,
         Gap(a, c) <= Gap(a, b), Gap(a, b) < QueueSize
  PROVE  b % QueueSize \notin Window(a, c)
<1> SUFFICES ASSUME b % QueueSize \in Window(a, c) PROVE FALSE
  OBVIOUS
<1>1. PICK n \in 0 .. Gap(a, c) - 1 : b % QueueSize = (a + n) % QueueSize
  BY WindowIs
<1>2. (a + Gap(a, b)) % QueueSize = b % QueueSize
  BY SlotAhead
<1>3. Gap(a, b) \in Nat /\ Gap(a, c) \in Nat /\ a \in Int
  BY GapRange DEF Index
<1>4. a + n < a + Gap(a, b) /\ a + Gap(a, b) < a + n + QueueSize
  BY <1>3, SizesArePositive
<1> QED
  BY <1>1, <1>2, <1>3, <1>4, SlotsApart

(* Distinct indices of a window no longer than the ring have distinct slots.*)
LEMMA WindowSize ==
  ASSUME NEW a \in Index, NEW b \in Index, Gap(a, b) <= QueueSize
  PROVE  IsFiniteSet(Window(a, b)) /\ Cardinality(Window(a, b)) = Gap(a, b)
<1> DEFINE g == Gap(a, b)
           f == [n \in 0 .. g - 1 |-> (a + n) % QueueSize]
<1>1. g \in Nat /\ a \in Int
  BY GapRange DEF Index
<1>2. Window(a, b) = {f[n] : n \in 0 .. g - 1}
  BY WindowIs
<1>3. ASSUME NEW n \in 0 .. g - 1, NEW m \in 0 .. g - 1, n < m
      PROVE  f[n] # f[m]
  <2>1. g <= QueueSize
    OBVIOUS
  <2> HIDE DEF g
  <2>2. n \in Int /\ m \in Int /\ m < n + QueueSize
    BY <1>1, <1>3, <2>1, SizesArePositive
  <2>3. a + n \in Int /\ a + m \in Int /\ a + n < a + m /\ a + m < a + n + QueueSize
    BY <1>1, <1>3, <2>2, SizesArePositive
  <2> QED
    BY <2>3, SlotsApart
<1>4. f \in Bijection(0 .. g - 1, Window(a, b))
  <2>1. f \in [0 .. g - 1 -> Window(a, b)]
    BY <1>2
  <2>2. \A n, m \in 0 .. g - 1 : f[n] = f[m] => n = m
    BY <1>1, <1>3
  <2>3. \A s \in Window(a, b) : \E n \in 0 .. g - 1 : f[n] = s
    BY <1>2
  <2> HIDE DEF f, g
  <2> QED
    BY <2>1, <2>2, <2>3 DEF Bijection, Injection, Surjection, IsInjective
<1> HIDE DEF f, g
<1>5. IsFiniteSet(0 .. g - 1) /\ Cardinality(0 .. g - 1) = g
  <2>1. 0 \in Int /\ g - 1 \in Int
    BY <1>1
  <2> QED
    BY <1>1, <2>1, FS_Interval
<1>6. ExistsBijection(0 .. g - 1, Window(a, b))
  BY <1>4 DEF ExistsBijection
<1>7. IsFiniteSet(Window(a, b)) /\ Cardinality(Window(a, b)) = g
  <2>1. IsFiniteSet(Window(a, b))
          /\ Cardinality(Window(a, b)) = Cardinality(0 .. g - 1)
    BY <1>5, <1>6, FS_Bijection
  <2> QED
    BY <1>5, <2>1
<1> QED
  BY <1>7 DEF g

-----------------------------------------------------------------------------
(* Chains.  The descriptors of a message, h first: next leads up from each  *)
(* but the last to another, and every one but h is led to.                  *)
Strand(nx, mr, h, ds) ==
  /\ ds \in SUBSET Desc /\ h \in ds
  /\ \A d \in ds : mr[d] => nx[d] \in ds
  /\ \A d \in ds \ {h} : \E e \in ds : e < d /\ mr[e] /\ nx[e] = d

Stride(nx, mr, ds) == {nx[d] : d \in {e \in ds : mr[e]}} \ {Free}

(* The first k steps of the walk that Chain makes.                          *)
Walk(walk, nx, mr, h, k) ==
  walk = [n \in 0 .. k |-> IF n = 0 THEN {h}
                           ELSE walk[n - 1] \union Stride(nx, mr, walk[n - 1])]

ChainOf(nx, mr, h) == (CHOOSE walk : Walk(walk, nx, mr, h, QueueSize - 1))[QueueSize - 1]

LEMMA ChainIs == \A h : Chain(h) = ChainOf(next, more, h)
BY DEF Chain, ChainOf, Walk, Stride, Desc

LEMMA WalksExist ==
  ASSUME NEW nx, NEW mr, NEW h, NEW k \in Nat
  PROVE  \E walk : Walk(walk, nx, mr, h, k)
<1> DEFINE bad == {j \in Nat : ~\E walk : Walk(walk, nx, mr, h, j)}
<1>1. SUFFICES ASSUME bad # {} PROVE FALSE
  OBVIOUS
<1>2. PICK j \in bad : \A i \in bad : j <= i
  BY <1>1, LeastExists
<1>3. CASE j = 0
  <2>1. Walk([n \in 0 .. 0 |-> {h}], nx, mr, h, 0)
    BY DEF Walk
  <2> QED
    BY <2>1, <1>2, <1>3
<1>4. CASE j > 0
  <2>1. j - 1 \in Nat /\ j - 1 \notin bad
    <3>1. j \in Nat
      BY <1>2
    <3> HIDE DEF bad
    <3> QED
      BY <1>2, <1>4, <3>1
  <2>2. PICK walk : Walk(walk, nx, mr, h, j - 1)
    BY <2>1
  <2> DEFINE longer == [n \in 0 .. j |->
                 IF n = j THEN walk[j - 1] \union Stride(nx, mr, walk[j - 1])
                 ELSE walk[n]]
  <2>3. ASSUME NEW n \in 0 .. j
        PROVE  longer[n] = IF n = 0 THEN {h}
                           ELSE longer[n - 1] \union Stride(nx, mr, longer[n - 1])
    <3>1. CASE n = j
      BY <3>1, <1>4
    <3>2. CASE n # j
      <4>1. n \in 0 .. j - 1 /\ longer[n] = walk[n]
              /\ (n # 0 => longer[n - 1] = walk[n - 1])
        BY <3>2
      <4>2. walk[n] = IF n = 0 THEN {h}
                      ELSE walk[n - 1] \union Stride(nx, mr, walk[n - 1])
        BY <2>2, <4>1 DEF Walk
      <4> QED
        BY <4>1, <4>2
    <3> QED
      BY <3>1, <3>2
  <2> HIDE DEF longer
  <2>4. longer = [n \in 0 .. j |-> longer[n]]
    BY DEF longer
  <2>5. Walk(longer, nx, mr, h, j)
    BY <2>3, <2>4 DEF Walk
  <2> QED
    BY <2>5, <1>2
<1> QED
  BY <1>2, <1>3, <1>4

(* The walk keeps to the message and, as next leads up, is through with it  *)
(* before it ends.                                                          *)
LEMMA StrandIsChain ==
  ASSUME NEW nx, NEW mr, NEW h, NEW ds, Strand(nx, mr, h, ds)
  PROVE  ChainOf(nx, mr, h) = ds
<1> DEFINE K == QueueSize - 1
           walk == CHOOSE w : Walk(w, nx, mr, h, K)
<1>1. K \in Nat
  BY SizesArePositive
<1>2. Walk(walk, nx, mr, h, K)
  BY <1>1, WalksExist
<1>3. ChainOf(nx, mr, h) = walk[K]
  BY DEF ChainOf
<1>4. ds \in SUBSET (0 .. K) /\ Free \notin ds
  BY SizesArePositive DEF Strand, Desc, Free
<1> HIDE DEF walk, K
<1>5. walk[0] = {h}
  BY <1>1, <1>2 DEF Walk
<1>6. ASSUME NEW n \in 1 .. K
      PROVE  walk[n] = walk[n - 1] \union Stride(nx, mr, walk[n - 1])
  <2>1. n \in 0 .. K /\ n # 0
    BY <1>1
  <2>2. walk[n] = IF n = 0 THEN {h} ELSE walk[n - 1] \union Stride(nx, mr, walk[n - 1])
    BY <1>2, <2>1 DEF Walk
  <2> QED
    BY <2>1, <2>2
<1>7. \A n \in 0 .. K : walk[n] \subseteq ds
  <2> DEFINE bad == {n \in 0 .. K : ~(walk[n] \subseteq ds)}
  <2>1. SUFFICES ASSUME bad # {} PROVE FALSE
    OBVIOUS
  <2>2. bad \in SUBSET Nat
    OBVIOUS
  <2>3. PICK n \in bad : \A i \in bad : n <= i
    BY <2>1, <2>2, LeastExists
  <2>4. n # 0
    BY <1>5, <2>3 DEF Strand
  <2>5. n \in 1 .. K /\ n - 1 \in 0 .. K /\ n - 1 \notin bad
    <3>1. n \in 0 .. K
      BY <2>3
    <3> HIDE DEF bad
    <3> QED
      BY <1>1, <2>3, <2>4, <3>1
  <2>6. walk[n - 1] \subseteq ds
    BY <2>5
  <2>7. Stride(nx, mr, walk[n - 1]) \subseteq ds
    BY <2>6 DEF Stride, Strand
  <2> QED
    BY <1>6, <2>3, <2>5, <2>6, <2>7
<1>8. ASSUME NEW d \in ds PROVE d \in walk[K]
  <2> DEFINE early(e) == \A n \in 0 .. K : e <= n => e \in walk[n]
             bad == {e \in ds : ~early(e)}
  <2>1. ASSUME bad # {} PROVE FALSE
    <3>1. bad \in SUBSET Nat
      <4>1. bad \subseteq ds
        OBVIOUS
      <4> HIDE DEF bad
      <4> QED
        BY <1>1, <1>4, <4>1
    <3>2. PICK e \in bad : \A i \in bad : e <= i
      BY <2>1, <3>1, LeastExists
    <3>3. PICK n \in 0 .. K : e <= n /\ e \notin walk[n]
      BY <3>2
    <3>4. e \in ds /\ e \in 0 .. K
      BY <1>4, <3>2
    <3>5. CASE e = h
      <4> DEFINE lost == {m \in 0 .. K : h \notin walk[m]}
      <4>1. lost # {} /\ lost \in SUBSET Nat
        BY <3>3, <3>5
      <4>2. PICK m \in lost : \A i \in lost : m <= i
        BY <4>1, LeastExists
      <4>3. m \in 0 .. K /\ m # 0
        BY <1>5, <4>2
      <4>4. m \in 1 .. K /\ m - 1 \in 0 .. K /\ m - 1 \notin lost
        <5> HIDE DEF lost
        <5> QED
          BY <1>1, <4>2, <4>3
      <4> QED
        BY <1>6, <4>2, <4>4
    <3>6. CASE e # h
      <4>1. PICK p \in ds : p < e /\ mr[p] /\ nx[p] = e
        BY <3>4, <3>6 DEF Strand
      <4>2. p \in 0 .. K /\ p \notin bad
        <5> HIDE DEF bad
        <5>1. p \in 0 .. K
          BY <1>4
        <5> QED
          BY <3>2, <3>4, <4>1, <5>1
      <4>3. n \in 1 .. K /\ n - 1 \in 0 .. K /\ p <= n - 1
        BY <1>1, <3>3, <3>4, <4>1, <4>2
      <4>4. p \in walk[n - 1]
        BY <4>2, <4>3
      <4>5. e \in Stride(nx, mr, walk[n - 1])
        BY <1>4, <3>4, <4>1, <4>4 DEF Stride
      <4> QED
        BY <1>6, <3>3, <4>3, <4>5
    <3> QED
      BY <3>5, <3>6
  <2>2. early(d)
    BY <2>1
  <2>3. K \in 0 .. K /\ d <= K
    BY <1>1, <1>4
  <2> QED
    BY <2>2, <2>3
<1>9. walk[K] = ds
  BY <1>1, <1>7, <1>8
<1> QED
  BY <1>3, <1>9

(* Writing to other descriptors leaves a message as it was.                 *)
LEMMA StrandKept ==
  ASSUME NEW nx, NEW mr, NEW h, NEW ds, Strand(nx, mr, h, ds),
         NEW nx2, NEW mr2, \A d \in ds : nx2[d] = nx[d] /\ mr2[d] = mr[d]
  PROVE  Strand(nx2, mr2, h, ds)
BY DEF Strand

(* What QSend writes is a message.                                          *)
LEMMA StrandMade ==
  ASSUME NEW ds \in SUBSET Desc, ds # {}, NEW nx, NEW mr,
         \A d \in ds : nx[d] = IF \E e \in ds : e > d
                               THEN Lowest({e \in ds : e > d}) ELSE 0,
         \A d \in ds : mr[d] = \E e \in ds : e > d
  PROVE  Strand(nx, mr, Lowest(ds), ds)
<1>1. \A d \in ds : d \in Nat
  BY SizesArePositive DEF Desc
<1>2. Lowest(ds) \in ds /\ \A e \in ds : Lowest(ds) <= e
  <2>1. \E d \in ds : \A e \in ds : d <= e
    BY LeastExists, <1>1
  <2> QED
    BY <2>1 DEF Lowest
<1>3. ASSUME NEW d \in ds, mr[d] PROVE nx[d] \in ds
  <2>1. \E e \in ds : e > d
    BY <1>3
  <2>2. {e \in ds : e > d} # {} /\ {e \in ds : e > d} \in SUBSET Desc
    BY <2>1
  <2>3. Lowest({e \in ds : e > d}) \in {e \in ds : e > d}
    BY <2>2, LowestInSet
  <2> QED
    BY <2>1, <2>3
<1>4. ASSUME NEW d \in ds \ {Lowest(ds)}
      PROVE  \E e \in ds : e < d /\ mr[e] /\ nx[e] = d
  <2> DEFINE below == {e \in ds : e < d}
  <2>1. Lowest(ds) < d
    BY <1>1, <1>2
  <2>2. below # {} /\ below \in SUBSET Desc
    BY <1>2, <2>1
  <2>3. PICK e \in below : \A x \in below : x <= e
    BY <2>2, GreatestExists
  <2>4. e \in ds /\ e < d /\ \A x \in ds : x < d => x <= e
    BY <2>3
  <2> DEFINE above == {x \in ds : x > e}
  <2>5. d \in above /\ \A x \in above : d <= x
    BY <1>1, <2>4
  <2>6. ASSUME NEW y \in above, \A x \in above : y <= x PROVE y = d
    BY <1>1, <2>5, <2>6
  <2>7. Lowest(above) = d
    <3> HIDE DEF above
    <3> QED
      BY <2>5, <2>6 DEF Lowest
  <2>8. nx[e] = Lowest(above) /\ mr[e]
    BY <2>4, <1>1
  <2> QED
    BY <2>4, <2>7, <2>8
<1> QED
  BY <1>2, <1>3, <1>4 DEF Strand

-----------------------------------------------------------------------------
(* The heads in a window of a ring, and that none is in it twice.           *)
Held(ring, a, b) == {ring[s] : s \in Window(a, b)}

Once(ring, a, b) ==
  /\ Gap(a, b) <= QueueSize
  /\ \A i, j \in Window(a, b) : ring[i] = ring[j] => i = j

LEMMA WindowInRing ==
  ASSUME NEW a \in Index, NEW b \in Index
  PROVE  Window(a, b) \subseteq Desc
<1> SUFFICES ASSUME NEW s \in Window(a, b) PROVE s \in Desc
  OBVIOUS
<1>1. PICK n \in 0 .. Gap(a, b) - 1 : s = (a + n) % QueueSize
  BY WindowIs
<1>2. a + n \in Int
  BY GapRange DEF Index
<1> QED
  BY <1>1, <1>2, SlotInRing

LEMMA HeldNone ==
  ASSUME NEW ring, NEW a \in Index
  PROVE  Held(ring, a, a) = {} /\ Once(ring, a, a)
<1>1. Gap(a, a) = 0
  BY GapRange
<1>2. 0 .. Gap(a, a) - 1 = {}
  BY <1>1
<1>3. Window(a, a) = {}
  BY <1>2, WindowIs
<1> QED
  BY <1>1, <1>3, SizesArePositive DEF Held, Once

LEMMA HeldSize ==
  ASSUME NEW ring, NEW a \in Index, NEW b \in Index, Once(ring, a, b)
  PROVE  IsFiniteSet(Held(ring, a, b)) /\ Cardinality(Held(ring, a, b)) = Gap(a, b)
<1> DEFINE W == Window(a, b)
           f == [s \in W |-> ring[s]]
<1>1. IsFiniteSet(W) /\ Cardinality(W) = Gap(a, b)
  BY WindowSize DEF Once
<1>2. f \in Bijection(W, Held(ring, a, b))
  <2>1. f \in [W -> Held(ring, a, b)]
    BY DEF Held
  <2>2. \A i, j \in W : f[i] = f[j] => i = j
    BY DEF Once
  <2>3. \A h \in Held(ring, a, b) : \E s \in W : f[s] = h
    BY DEF Held
  <2> HIDE DEF f, W
  <2> QED
    BY <2>1, <2>2, <2>3 DEF Bijection, Injection, Surjection, IsInjective
<1>3. ExistsBijection(W, Held(ring, a, b))
  BY <1>2 DEF ExistsBijection
<1> QED
  BY <1>1, <1>3, FS_Bijection

LEMMA HeldGrows ==
  ASSUME NEW ring \in [Desc -> Desc], NEW a \in Index, NEW b \in Index,
         Once(ring, a, b), Gap(a, b) < QueueSize,
         NEW h \in Desc, h \notin Held(ring, a, b)
  PROVE  LET new == [ring EXCEPT ![b % QueueSize] = h]
         IN  /\ Held(new, a, Successor(b)) = Held(ring, a, b) \union {h}
             /\ Once(new, a, Successor(b))
<1> DEFINE new == [ring EXCEPT ![b % QueueSize] = h]
           c == Successor(b)
<1>1. b % QueueSize \in Desc
  BY SlotInRing DEF Index
<1>2. Gap(a, b) \in Nat /\ Gap(a, b) < IndexMod - 1
  BY GapRange, QueueAssumption DEF QueueAssumption
<1>3. b % QueueSize \notin Window(a, b)
  BY <1>2, WindowSpared
<1>4. Window(a, c) = Window(a, b) \union {b % QueueSize}
  BY <1>2, WindowGrows
<1>5. \A s \in Window(a, b) : s \in Desc /\ new[s] = ring[s]
  BY <1>3, WindowInRing
<1>6. new[b % QueueSize] = h
  BY <1>1
<1>7. Gap(a, c) <= QueueSize
  BY <1>2, GapGrows, SizesArePositive
<1> HIDE DEF new, c
<1>8. Held(new, a, c) = Held(ring, a, b) \union {h}
  BY <1>4, <1>5, <1>6 DEF Held
<1>9. Once(new, a, c)
  BY <1>4, <1>5, <1>6, <1>7 DEF Held, Once
<1> QED
  BY <1>8, <1>9 DEF new, c

LEMMA HeldSpared ==
  ASSUME NEW ring, NEW a \in Index, NEW b \in Index, NEW c \in Index,
         Gap(a, c) <= Gap(a, b), Gap(a, b) < QueueSize,
         NEW new, \A s \in Desc : s # b % QueueSize => new[s] = ring[s]
  PROVE  /\ Held(new, a, c) = Held(ring, a, c)
         /\ Once(ring, a, c) => Once(new, a, c)
<1>1. b % QueueSize \notin Window(a, c)
  BY WindowSpared
<1>2. \A s \in Window(a, c) : new[s] = ring[s]
  BY <1>1, WindowInRing
<1> QED
  BY <1>2 DEF Held, Once

LEMMA HeldShrinks ==
  ASSUME NEW ring, NEW a \in Index, NEW b \in Index, a # b, Once(ring, a, b)
  PROVE  /\ ring[a % QueueSize] \in Held(ring, a, b)
         /\ Held(ring, Successor(a), b) = Held(ring, a, b) \ {ring[a % QueueSize]}
         /\ Once(ring, Successor(a), b)
<1>1. a % QueueSize \in Window(a, b)
      /\ Window(Successor(a), b) = Window(a, b) \ {a % QueueSize}
  BY WindowShrinks DEF Once
<1>2. Gap(Successor(a), b) <= QueueSize
  BY GapShrinks, GapRange, SizesArePositive DEF Once
<1> QED
  BY <1>1, <1>2 DEF Held, Once

-----------------------------------------------------------------------------
(* The messages whose heads are H share no descriptor and leave none over;  *)
(* where DNotified polls each has two descriptors or more.                  *)
Strands(nx, mr, H) ==
  /\ \A h \in H : /\ Strand(nx, mr, h, ChainOf(nx, mr, h))
                  /\ NestsPolls => ChainOf(nx, mr, h) # {h}
  /\ \A h, g \in H : h # g => ChainOf(nx, mr, h) \intersect ChainOf(nx, mr, g) = {}
  /\ \A d \in Desc : nx[d] # Free <=> \E h \in H : d \in ChainOf(nx, mr, h)

(* What QSend writes into the chains when it takes the descriptors ds.      *)
Linked(nx, mr, ds, nx2, mr2) ==
  /\ \A d \in Desc : nx2[d] = IF d \notin ds THEN nx[d]
                               ELSE IF \E e \in ds : e > d
                                    THEN Lowest({e \in ds : e > d}) ELSE 0
  /\ \A d \in Desc : mr2[d] = IF d \in ds THEN \E e \in ds : e > d ELSE mr[d]

LEMMA StrandsSent ==
  ASSUME NEW nx, NEW mr, NEW H, Strands(nx, mr, H),
         NEW ds \in SUBSET Desc, ds # {}, \A d \in ds : nx[d] = Free,
         NestsPolls => ds # {Lowest(ds)},
         NEW nx2, NEW mr2, Linked(nx, mr, ds, nx2, mr2)
  PROVE  Lowest(ds) \notin H /\ Strands(nx2, mr2, H \union {Lowest(ds)})
<1> DEFINE l == Lowest(ds)
<1>a. \A d \in Desc : nx2[d] = IF d \notin ds THEN nx[d]
                               ELSE IF \E e \in ds : e > d
                                    THEN Lowest({e \in ds : e > d}) ELSE 0
  BY Zenon DEF Linked
<1>b. \A d \in Desc : mr2[d] = IF d \in ds THEN \E e \in ds : e > d ELSE mr[d]
  BY Zenon DEF Linked
<1> USE <1>a, <1>b
<1>1. l \in ds
  BY LowestInSet
<1>2. \A h \in H : ChainOf(nx, mr, h) \in SUBSET Desc /\ h \in ChainOf(nx, mr, h)
  BY DEF Strands, Strand
<1>3. \A h \in H : ChainOf(nx, mr, h) \intersect ds = {}
  BY <1>2 DEF Strands
<1>4. l \notin H
  BY <1>1, <1>2, <1>3
<1>5. ASSUME NEW h \in H
      PROVE  /\ Strand(nx2, mr2, h, ChainOf(nx, mr, h))
             /\ ChainOf(nx2, mr2, h) = ChainOf(nx, mr, h)
  <2>1. \A d \in ChainOf(nx, mr, h) : nx2[d] = nx[d] /\ mr2[d] = mr[d]
    BY <1>2, <1>3
  <2>2. Strand(nx2, mr2, h, ChainOf(nx, mr, h))
    BY <2>1, StrandKept DEF Strands
  <2> QED
    BY <2>2, StrandIsChain
<1>6. Strand(nx2, mr2, l, ds) /\ ChainOf(nx2, mr2, l) = ds
  <2>1. \A d \in ds : nx2[d] = IF \E e \in ds : e > d
                               THEN Lowest({e \in ds : e > d}) ELSE 0
    OBVIOUS
  <2>2. \A d \in ds : mr2[d] = \E e \in ds : e > d
    BY Zenon
  <2>3. Strand(nx2, mr2, l, ds)
    BY <2>1, <2>2, StrandMade
  <2> QED
    BY <2>3, StrandIsChain
<1>7. \A d \in ds : nx2[d] # Free
  <2> SUFFICES ASSUME NEW d \in ds PROVE nx2[d] \in Desc
    BY SizesArePositive DEF Desc, Free
  <2>1. CASE \E e \in ds : e > d
    <3>1. {e \in ds : e > d} # {} /\ {e \in ds : e > d} \in SUBSET Desc
      BY <2>1
    <3>2. Lowest({e \in ds : e > d}) \in Desc
      BY <3>1, LowestInSet
    <3> QED
      BY <2>1, <3>2
  <2>2. CASE ~\E e \in ds : e > d
    <3>1. nx2[d] = 0
      BY <2>2
    <3> QED
      BY <3>1, SizesArePositive DEF Desc
  <2> QED
    BY <2>1, <2>2
<1>8. \A d \in Desc \ ds : nx2[d] = nx[d]
  OBVIOUS
<1> DEFINE G == H \union {l}
<1> HIDE DEF l
<1>9. \A h \in G : /\ Strand(nx2, mr2, h, ChainOf(nx2, mr2, h))
                   /\ (NestsPolls => ChainOf(nx2, mr2, h) # {h})
  <2>1. NestsPolls => ds # {l}
    BY DEF l
  <2> QED
    BY <1>5, <1>6, <2>1 DEF Strands
<1>10. \A h, g \in G :
         h # g => ChainOf(nx2, mr2, h) \intersect ChainOf(nx2, mr2, g) = {}
  BY <1>3, <1>5, <1>6 DEF Strands
<1>11. \A d \in Desc : nx2[d] # Free
                       <=> \E h \in G : d \in ChainOf(nx2, mr2, h)
  <2> TAKE d \in Desc
  <2>1. CASE d \in ds
    BY <1>6, <1>7, <2>1
  <2>2. CASE d \notin ds
    <3>1. nx2[d] = nx[d]
      BY <1>8, <2>2
    <3>2. nx[d] # Free <=> \E h \in H : d \in ChainOf(nx, mr, h)
      BY DEF Strands
    <3> QED
      BY <1>5, <1>6, <2>2, <3>1, <3>2
  <2> QED
    BY <2>1, <2>2
<1>12. Strands(nx2, mr2, G)
  <2> HIDE DEF G
  <2> QED
    BY <1>9, <1>10, <1>11 DEF Strands
<1> QED
  BY <1>4, <1>12 DEF l

LEMMA StrandsFreed ==
  ASSUME NEW nx, NEW mr, NEW H, Strands(nx, mr, H), NEW h \in H, NEW nx2,
         \A d \in Desc : nx2[d] = IF d \in ChainOf(nx, mr, h) THEN Free ELSE nx[d]
  PROVE  Strands(nx2, mr, H \ {h})
<1> DEFINE C(g) == ChainOf(nx, mr, g)
<1>1. \A g \in H : C(g) \in SUBSET Desc
  BY DEF Strands, Strand
<1>2. \A g \in H \ {h} : C(g) \intersect C(h) = {}
  BY DEF Strands
<1>3. ASSUME NEW g \in H \ {h}
      PROVE  Strand(nx2, mr, g, C(g)) /\ ChainOf(nx2, mr, g) = C(g)
  <2>1. \A d \in C(g) : nx2[d] = nx[d] /\ mr[d] = mr[d]
    BY <1>1, <1>2
  <2>2. Strand(nx, mr, g, C(g))
    BY DEF Strands
  <2>3. Strand(nx2, mr, g, C(g))
    BY <2>1, <2>2, StrandKept
  <2> QED
    BY <2>3, StrandIsChain
<1>4. \A d \in Desc : nx2[d] # Free <=> nx[d] # Free /\ d \notin C(h)
  OBVIOUS
<1>5. \A d \in Desc : nx2[d] # Free <=> \E g \in H \ {h} : d \in C(g)
  BY <1>2, <1>4 DEF Strands
<1> HIDE DEF C
<1>6. \A g \in H \ {h} : Strand(nx2, mr, g, ChainOf(nx2, mr, g))
                         /\ (NestsPolls => ChainOf(nx2, mr, g) # {g})
  <2>1. \A g \in H : NestsPolls => C(g) # {g}
    BY DEF Strands, C
  <2> QED
    BY <1>3, <2>1
<1>7. \A f, g \in H \ {h} :
        f # g => ChainOf(nx2, mr, f) \intersect ChainOf(nx2, mr, g) = {}
  <2>1. \A f, g \in H : f # g => C(f) \intersect C(g) = {}
    BY DEF Strands, C
  <2> QED
    BY <1>3, <2>1
<1>8. \A d \in Desc : nx2[d] # Free <=> \E g \in H \ {h} : d \in ChainOf(nx2, mr, g)
  BY <1>3, <1>5
<1> QED
  BY <1>6, <1>7, <1>8 DEF Strands

LEMMA DescsFinite == IsFiniteSet(Desc) /\ Cardinality(Desc) = QueueSize
<1>1. 0 \in Int /\ QueueSize - 1 \in Int /\ ~(0 > QueueSize - 1)
  BY SizesArePositive
<1> QED
  BY <1>1, FS_Interval, SizesArePositive DEF Desc

(* There are no more messages than descriptors, half as many where each has *)
(* two, and fewer while a descriptor is free.                               *)
LEMMA StrandsFew ==
  ASSUME NEW nx, NEW mr, NEW H, Strands(nx, mr, H)
  PROVE  /\ H \in SUBSET Desc /\ IsFiniteSet(H) /\ Cardinality(H) <= QueueSize
         /\ NestsPolls => 2 * Cardinality(H) <= QueueSize
         /\ (\E d \in Desc : nx[d] = Free) => Cardinality(H) < QueueSize
<1> DEFINE C(h) == ChainOf(nx, mr, h)
<1>1. \A h \in H : h \in C(h) /\ C(h) \in SUBSET Desc
  BY DEF Strands, Strand
<1>2. \A h, g \in H : h # g => C(h) \intersect C(g) = {}
  BY DEF Strands
<1>3. \A d \in Desc : nx[d] # Free <=> \E h \in H : d \in C(h)
  BY DEF Strands
<1>4. NestsPolls => \A h \in H : C(h) # {h}
  BY DEF Strands
<1> HIDE DEF C
<1>5. H \in SUBSET Desc
  BY <1>1
<1>6. IsFiniteSet(H) /\ Cardinality(H) <= QueueSize /\ Cardinality(H) \in Nat
  BY <1>5, DescsFinite, FS_Subset, FS_CardinalityType
<1>7. ASSUME NestsPolls PROVE 2 * Cardinality(H) <= QueueSize
  <2> DEFINE f == [h \in H |-> CHOOSE d \in C(h) : d # h]
             S == {f[h] : h \in H}
  <2>1. \A h \in H : f[h] \in C(h) /\ f[h] # h
    BY <1>1, <1>4, <1>7
  <2>2. \A h, g \in H : f[h] = f[g] => h = g
    BY <1>2, <2>1
  <2>3. S \intersect H = {} /\ S \in SUBSET Desc
    BY <1>1, <1>2, <2>1
  <2>4. f \in Bijection(H, S)
    <3>1. f \in [H -> S] /\ \A s \in S : \E h \in H : f[h] = s
      OBVIOUS
    <3> HIDE DEF f, S
    <3> QED
      BY <2>2, <3>1 DEF Bijection, Injection, Surjection, IsInjective
  <2>5. ExistsBijection(H, S)
    BY <2>4 DEF ExistsBijection
  <2> HIDE DEF f, S
  <2>6. IsFiniteSet(S) /\ Cardinality(S) = Cardinality(H)
    BY <1>6, <2>5, FS_Bijection
  <2>7. Cardinality(H \union S)
          = Cardinality(H) + Cardinality(S) - Cardinality(H \intersect S)
    BY <1>6, <2>6, FS_Union
  <2>8. H \intersect S = {} /\ H \union S \in SUBSET Desc
    BY <1>5, <2>3
  <2>9. Cardinality(H \intersect S) = 0
    BY <2>8, FS_EmptySet
  <2>10. Cardinality(H \union S) <= QueueSize
    BY <2>8, DescsFinite, FS_Subset
  <2> QED
    BY <1>6, <2>6, <2>7, <2>9, <2>10, SizesArePositive
<1>8. ASSUME NEW d \in Desc, nx[d] = Free PROVE Cardinality(H) < QueueSize
  <2>1. d \notin H
    BY <1>1, <1>3, <1>8
  <2>2. H \in SUBSET (Desc \ {d})
    BY <1>5, <2>1
  <2>3. IsFiniteSet(Desc \ {d}) /\ Cardinality(Desc \ {d}) = QueueSize - 1
    BY DescsFinite, FS_RemoveElement
  <2>4. Cardinality(H) <= QueueSize - 1
    BY <2>2, <2>3, FS_Subset
  <2> QED
    BY <1>6, <2>4, SizesArePositive
<1> QED
  BY <1>5, <1>6, <1>7, <1>8

-----------------------------------------------------------------------------
(* The five places of a head: the available ring, the device, the used ring *)
(* and the entries that each of two activations of QPoll has claimed.       *)
Claim(ring, ps, n) == IF n <= Len(ps) THEN Held(ring, ps[n].from, ps[n].to) ELSE {}

Apart(W, O, U, C, D) ==
  /\ W \intersect O = {} /\ W \intersect U = {} /\ W \intersect C = {}
  /\ W \intersect D = {} /\ O \intersect U = {} /\ O \intersect C = {}
  /\ O \intersect D = {} /\ U \intersect C = {} /\ U \intersect D = {}
  /\ C \intersect D = {}

WaitingHeads == Held(availRing, lastAvail, availIdx)
UnclaimedHeads == Held(usedRing, usedCtr, usedIdx)
Outer == Claim(usedRing, polls, 1)
Inner == Claim(usedRing, polls, 2)

Heads == WaitingHeads \union owned \union UnclaimedHeads \union Outer \union Inner

(* How QPoll nests.                                                         *)
Nesting ==
  /\ Len(polls) <= 2
  /\ Len(polls) = 2 => /\ NestsPolls
                       /\ polls[2].callback = "none" /\ polls[2].to = usedCtr
  /\ Len(polls) = 1 /\ ~NestsPolls => polls[1].to = usedCtr
  /\ bottomHalf \in {"rearmed", "armed"} => polls = <<>>

(* What the used ring must still hold before the entries of the outer       *)
(* activation are read fits in it.  A nested poll lets the driver use       *)
(* descriptors again, two messages for each entry that is read.             *)
Room ==
  /\ \A n \in 1 .. Len(polls) :
       Gap(polls[n].from, polls[n].to) <= Gap(polls[n].from, usedIdx)
  /\ NestsPolls /\ polls # <<>> =>
       Gap(polls[1].from, usedIdx) + Cardinality(owned) + Gap(lastAvail, availIdx)
         + Gap(polls[1].from, polls[1].to) + polls[1].sends <= QueueSize

HeadsOnce ==
  /\ Once(availRing, lastAvail, availIdx) /\ Once(usedRing, usedCtr, usedIdx)
  /\ \A n \in 1 .. Len(polls) : Once(usedRing, polls[n].from, polls[n].to)

HeadsApart == Apart(WaitingHeads, owned, UnclaimedHeads, Outer, Inner)

AccountInv ==
  TypeOK /\ Nesting /\ Room /\ HeadsOnce /\ HeadsApart /\ Strands(next, more, Heads)

(* What the state invariant takes from the types.                           *)
LEMMA TypesOfRings ==
  ASSUME TypeOK
  PROVE  /\ availRing \in [Desc -> Desc] /\ usedRing \in [Desc -> Desc]
         /\ availIdx \in Index /\ usedIdx \in Index
         /\ usedCtr \in Index /\ lastAvail \in Index
         /\ owned \in SUBSET Desc /\ IsFiniteSet(owned)
         /\ Cardinality(owned) \in Nat
         /\ polls \in Seq(Poll) /\ Len(polls) \in Nat
         /\ \A n \in 1 .. Len(polls) :
              /\ polls[n].from \in Index /\ polls[n].to \in Index
              /\ polls[n].sends \in Nat
<1>1. owned \in SUBSET Desc /\ polls \in Seq(Poll)
  BY DEF TypeOK, Poll
<1>2. IsFiniteSet(owned) /\ Cardinality(owned) \in Nat
  BY <1>1, DescsFinite, FS_Subset, FS_CardinalityType
<1>3. \A n \in 1 .. Len(polls) : polls[n] \in Poll
  BY <1>1
<1>4. Len(polls) \in Nat
  BY <1>1
<1> QED
  BY <1>1, <1>2, <1>3, <1>4 DEF TypeOK, Poll

LEMMA FewPolls == ASSUME TypeOK, Nesting PROVE Len(polls) \in 0 .. 2
<1> DEFINE k == Len(polls)
<1>1. k \in Nat
  BY TypesOfRings
<1>2. k <= 2
  BY DEF Nesting
<1> HIDE DEF k
<1>3. k \in 0 .. 2
  BY <1>1, <1>2
<1> QED
  BY <1>3 DEF k

LEMMA FewTurns ==
  ASSUME TypeOK, Nesting, NEW n \in 1 .. Len(polls)
  PROVE  n \in {1, 2} /\ n <= Len(polls)
<1> DEFINE k == Len(polls)
<1>1. k \in 0 .. 2
  BY FewPolls
<1>2. n \in 1 .. k
  OBVIOUS
<1> HIDE DEF k
<1>3. n \in {1, 2} /\ n <= k
  BY <1>1, <1>2
<1> QED
  BY <1>3 DEF k

Turns(ps, n) == IF n <= Len(ps) THEN Gap(ps[n].from, ps[n].to) ELSE 0

LEMMA TurnsTypes ==
  ASSUME TypeOK
  PROVE  Turns(polls, 1) \in Nat /\ Turns(polls, 2) \in Nat
<1>1. ASSUME NEW n \in {1, 2} PROVE Turns(polls, n) \in Nat
  <2>1. CASE n <= Len(polls)
    <3>1. polls[n].from \in Index /\ polls[n].to \in Index
      BY <2>1, TypesOfRings
    <3> QED
      BY <2>1, <3>1, GapRange DEF Turns
  <2>2. CASE ~(n <= Len(polls))
    BY <2>2 DEF Turns
  <2> QED
    BY <2>1, <2>2
<1> QED
  BY <1>1

LEMMA UnionSize ==
  ASSUME NEW A, NEW B, IsFiniteSet(A), IsFiniteSet(B), A \intersect B = {}
  PROVE  /\ IsFiniteSet(A \union B)
         /\ Cardinality(A \union B) = Cardinality(A) + Cardinality(B)
<1>1. Cardinality(A \intersect B) = 0
  BY FS_EmptySet
<1>2. Cardinality(A) \in Nat /\ Cardinality(B) \in Nat
  BY FS_CardinalityType
<1>3. /\ IsFiniteSet(A \union B)
      /\ Cardinality(A \union B)
           = Cardinality(A) + Cardinality(B) - Cardinality(A \intersect B)
  BY FS_Union
<1> QED
  BY <1>1, <1>2, <1>3

(* No head is in two places or in one twice, so that they can be counted.   *)
LEMMA HeadsCounted ==
  ASSUME TypeOK, HeadsOnce, HeadsApart
  PROVE  /\ IsFiniteSet(Heads)
         /\ Cardinality(Heads)
              = Gap(lastAvail, availIdx) + Cardinality(owned) + Gap(usedCtr, usedIdx)
                  + Turns(polls, 1) + Turns(polls, 2)
<1>1. /\ IsFiniteSet(WaitingHeads)
      /\ Cardinality(WaitingHeads) = Gap(lastAvail, availIdx)
  BY TypesOfRings, HeldSize DEF WaitingHeads, HeadsOnce
<1>2. /\ IsFiniteSet(UnclaimedHeads)
      /\ Cardinality(UnclaimedHeads) = Gap(usedCtr, usedIdx)
  BY TypesOfRings, HeldSize DEF UnclaimedHeads, HeadsOnce
<1>3. ASSUME NEW n \in {1, 2}
      PROVE  /\ IsFiniteSet(Claim(usedRing, polls, n))
             /\ Cardinality(Claim(usedRing, polls, n)) = Turns(polls, n)
  <2>1. CASE n <= Len(polls)
    <3>1. n \in 1 .. Len(polls)
      BY <2>1, TypesOfRings
    <3>2. /\ IsFiniteSet(Held(usedRing, polls[n].from, polls[n].to))
          /\ Cardinality(Held(usedRing, polls[n].from, polls[n].to))
               = Gap(polls[n].from, polls[n].to)
      BY <3>1, TypesOfRings, HeldSize DEF HeadsOnce
    <3> QED
      BY <2>1, <3>2 DEF Claim, Turns
  <2>2. CASE ~(n <= Len(polls))
    BY <2>2, FS_EmptySet DEF Claim, Turns
  <2> QED
    BY <2>1, <2>2
<1>4. IsFiniteSet(Outer) /\ Cardinality(Outer) = Turns(polls, 1)
      /\ IsFiniteSet(Inner) /\ Cardinality(Inner) = Turns(polls, 2)
  BY <1>3 DEF Outer, Inner
<1> DEFINE A == WaitingHeads \union owned
           B == A \union UnclaimedHeads
           C == B \union Outer
<1>5. /\ WaitingHeads \intersect owned = {} /\ A \intersect UnclaimedHeads = {}
      /\ B \intersect Outer = {} /\ C \intersect Inner = {}
  BY DEF HeadsApart, Apart
<1>6. IsFiniteSet(owned)
  BY TypesOfRings
<1>7. IsFiniteSet(A) /\ Cardinality(A) = Cardinality(WaitingHeads) + Cardinality(owned)
  BY <1>1, <1>5, <1>6, UnionSize
<1> HIDE DEF A
<1>8. IsFiniteSet(B) /\ Cardinality(B) = Cardinality(A) + Cardinality(UnclaimedHeads)
  BY <1>2, <1>5, <1>7, UnionSize
<1> HIDE DEF B
<1>9. IsFiniteSet(C) /\ Cardinality(C) = Cardinality(B) + Cardinality(Outer)
  BY <1>4, <1>5, <1>8, UnionSize
<1> HIDE DEF C
<1>10. IsFiniteSet(C \union Inner)
       /\ Cardinality(C \union Inner) = Cardinality(C) + Cardinality(Inner)
  BY <1>4, <1>5, <1>9, UnionSize
<1>11. Heads = C \union Inner
  BY DEF Heads, A, B, C
<1> QED
  BY <1>1, <1>2, <1>4, <1>7, <1>8, <1>9, <1>10, <1>11

(* DescriptorsAccounted in these terms.                                     *)
LEMMA HeadsAre ==
  ASSUME TypeOK, Nesting
  PROVE  Lent = WaitingHeads \union owned /\ Finished = UnclaimedHeads \union Outer \union Inner
<1>1. Len(polls) \in {0, 1, 2}
  BY FewPolls
<1>2. Claimed = Outer \union Inner
  <2>1. CASE Len(polls) = 0
    BY <2>1 DEF Claimed, Outer, Inner, Claim
  <2>2. CASE Len(polls) = 1
    <3>1. {polls[n] : n \in 1 .. Len(polls)} = {polls[1]}
      BY <2>2
    <3> QED
      BY <2>2, <3>1 DEF Claimed, Outer, Inner, Claim, Held
  <2>3. CASE Len(polls) = 2
    <3>1. {polls[n] : n \in 1 .. Len(polls)} = {polls[1], polls[2]}
      BY <2>3
    <3> QED
      BY <2>3, <3>1 DEF Claimed, Outer, Inner, Claim, Held
  <2> QED
    BY <1>1, <2>1, <2>2, <2>3
<1> QED
  BY <1>2 DEF Lent, Finished, Waiting, Unclaimed, WaitingHeads, UnclaimedHeads, Held

LEMMA EntriesClaimed ==
  ASSUME TypeOK, Nesting
  PROVE  ClaimedEntries[Len(polls)] = Turns(polls, 1) + Turns(polls, 2)
<1> DEFINE size(n) == (polls[n].to - polls[n].from) % IndexMod
           f == [n \in 0 .. 2 |-> IF n = 0 THEN 0 ELSE
                                  IF n = 1 THEN 0 + size(1) ELSE 0 + size(1) + size(2)]
           is(g) == g = [n \in 0 .. 2 |-> IF n = 0 THEN 0 ELSE g[n - 1] + size(n)]
<1>1. is(f)
  <2>1. ASSUME NEW n \in 0 .. 2
        PROVE  f[n] = IF n = 0 THEN 0 ELSE f[n - 1] + size(n)
    <3>1. n = 0 \/ n = 1 \/ n = 2
      OBVIOUS
    <3> HIDE DEF size
    <3> QED
      BY <3>1
  <2>2. f = [n \in 0 .. 2 |-> f[n]]
    OBVIOUS
  <2> HIDE DEF f, size
  <2> QED
    BY <2>1, <2>2
<1>2. ClaimedEntries = CHOOSE g : is(g)
  BY DEF ClaimedEntries
<1>3. is(ClaimedEntries)
  <2> HIDE DEF is, f
  <2> QED
    BY <1>1, <1>2
<1>4. /\ ClaimedEntries[0] = 0 /\ ClaimedEntries[1] = ClaimedEntries[0] + size(1)
      /\ ClaimedEntries[2] = ClaimedEntries[1] + size(2)
  <2>1. ASSUME NEW n \in 0 .. 2
        PROVE  ClaimedEntries[n] = IF n = 0 THEN 0 ELSE ClaimedEntries[n - 1] + size(n)
    <3> HIDE DEF size
    <3> QED
      BY <1>3
  <2> HIDE DEF size
  <2> QED
    BY <2>1
<1>5. Len(polls) \in {0, 1, 2}
  BY FewPolls
<1>6. \A n \in 1 .. Len(polls) : size(n) = Turns(polls, n) /\ size(n) \in Nat
  <2> TAKE n \in 1 .. Len(polls)
  <2>1. polls[n].from \in Index /\ polls[n].to \in Index /\ n <= Len(polls)
    BY TypesOfRings
  <2>2. Gap(polls[n].from, polls[n].to) \in Nat
    BY <2>1, GapRange
  <2> QED
    BY <2>1, <2>2 DEF Turns, Gap
<1> HIDE DEF size, is
<1>7. CASE Len(polls) = 0
  BY <1>4, <1>7 DEF Turns
<1>8. CASE Len(polls) = 1
  BY <1>4, <1>6, <1>8 DEF Turns
<1>9. CASE Len(polls) = 2
  BY <1>4, <1>6, <1>9 DEF Turns
<1> QED
  BY <1>5, <1>7, <1>8, <1>9

LEMMA AccountGiven == AccountInv => DescriptorsAccounted
<1> SUFFICES ASSUME AccountInv PROVE DescriptorsAccounted
  OBVIOUS
<1>1. TypeOK /\ Nesting /\ HeadsOnce /\ HeadsApart /\ Strands(next, more, Heads)
  BY DEF AccountInv
<1>2. Lent \union Finished = Heads
  BY <1>1, HeadsAre DEF Heads
<1>3. Entries = Cardinality(Heads)
  <2>1. Cardinality(Heads)
              = Gap(lastAvail, availIdx) + Cardinality(owned) + Gap(usedCtr, usedIdx)
                  + Turns(polls, 1) + Turns(polls, 2)
    BY <1>1, HeadsCounted
  <2>2. Entries = Gap(lastAvail, availIdx) + Cardinality(owned)
                    + Gap(usedCtr, usedIdx) + (Turns(polls, 1) + Turns(polls, 2))
    BY <1>1, EntriesClaimed DEF Entries, Gap
  <2>3. Gap(lastAvail, availIdx) \in Nat /\ Gap(usedCtr, usedIdx) \in Nat
    BY <1>1, TypesOfRings, GapRange
  <2>4. Turns(polls, 1) \in Nat /\ Turns(polls, 2) \in Nat /\ Cardinality(owned) \in Nat
    BY <1>1, TurnsTypes, TypesOfRings
  <2> QED
    BY <2>1, <2>2, <2>3, <2>4
<1> DEFINE chain == [h \in Heads |-> Chain(h)]
<1>4. \A h \in Heads : chain[h] = ChainOf(next, more, h)
  BY ChainIs
<1>5. \A h, g \in Heads : h # g => chain[h] \intersect chain[g] = {}
  <2> HIDE DEF chain
  <2> QED
    BY <1>1, <1>4 DEF Strands
<1>6. \A h \in Heads : chain[h] \in SUBSET Desc
  <2> HIDE DEF chain
  <2> QED
    BY <1>1, <1>4 DEF Strands, Strand
<1>7. \A d \in Desc : next[d] # Free <=> \E h \in Heads : d \in chain[h]
  <2> HIDE DEF chain
  <2> QED
    BY <1>1, <1>4 DEF Strands
<1>8. Desc \ FreeDescs = UNION {chain[h] : h \in Heads}
  <2> HIDE DEF chain
  <2> QED
    BY <1>6, <1>7 DEF FreeDescs
<1> QED
  BY <1>2, <1>3, <1>5, <1>8 DEF DescriptorsAccounted

LEMMA AccountStutters ==
  ASSUME AccountInv, TypeOK',
         UNCHANGED <<next, more, availRing, availIdx, usedRing, usedIdx, usedCtr,
                     lastAvail, owned, polls>>,
         bottomHalf' \in {"rearmed", "armed"} => polls = <<>>
  PROVE  AccountInv' /\ UNCHANGED <<Heads, WaitingHeads, UnclaimedHeads, Outer, Inner>>
<1>1. UNCHANGED <<Heads, WaitingHeads, UnclaimedHeads, Outer, Inner>>
  BY DEF Heads, WaitingHeads, UnclaimedHeads, Outer, Inner
<1>2. Nesting'
  BY DEF AccountInv, Nesting
<1>3. Room'
  BY DEF AccountInv, Room
<1>4. HeadsOnce'
  BY DEF AccountInv, HeadsOnce
<1>5. HeadsApart'
  BY <1>1 DEF AccountInv, HeadsApart
<1>6. Strands(next, more, Heads)'
  BY <1>1 DEF AccountInv
<1> QED
  BY <1>1, <1>2, <1>3, <1>4, <1>5, <1>6 DEF AccountInv

LEMMA FetchAccount ==
  ASSUME AccountInv, TypeOK', DeviceFetch
  PROVE  AccountInv' /\ WaitingHeads' \union owned' = WaitingHeads \union owned
         /\ UNCHANGED <<Heads, UnclaimedHeads, Outer, Inner>>
<1> DEFINE h == availRing[lastAvail % QueueSize]
<1>1. /\ lastAvail # availIdx /\ lastAvail' = Successor(lastAvail)
      /\ owned' = owned \union {h}
      /\ UNCHANGED <<next, more, availRing, availIdx, usedRing, usedIdx, usedCtr,
                     polls, bottomHalf>>
  BY DEF DeviceFetch, ringVars, transportVars, driverVars
<1>2. TypeOK /\ Nesting /\ Room /\ HeadsOnce /\ HeadsApart
      /\ Strands(next, more, Heads)
  BY DEF AccountInv
<1>3. /\ h \in WaitingHeads /\ WaitingHeads' = WaitingHeads \ {h}
      /\ Once(availRing, lastAvail', availIdx)
  BY <1>1, <1>2, TypesOfRings, HeldShrinks DEF WaitingHeads, HeadsOnce
<1>4. UNCHANGED <<UnclaimedHeads, Outer, Inner>>
  BY <1>1 DEF UnclaimedHeads, Outer, Inner
<1>5. h \notin owned
  BY <1>2, <1>3 DEF HeadsApart, Apart
<1>6. WaitingHeads' \union owned' = WaitingHeads \union owned
  BY <1>1, <1>3
<1>7. Heads' = Heads
  BY <1>4, <1>6 DEF Heads
<1>8. HeadsApart'
  BY <1>1, <1>2, <1>3, <1>4 DEF HeadsApart, Apart
<1>9. HeadsOnce'
  BY <1>1, <1>2, <1>3 DEF HeadsOnce
<1>10. Nesting'
  BY <1>1, <1>2 DEF Nesting
<1>11. Room'
  <2>1. Cardinality(owned') = Cardinality(owned) + 1
    BY <1>1, <1>2, <1>5, TypesOfRings, FS_AddElement
  <2>2. Gap(lastAvail', availIdx) = Gap(lastAvail, availIdx) - 1
    BY <1>1, <1>2, TypesOfRings, GapShrinks
  <2>3. Cardinality(owned) \in Nat /\ Gap(lastAvail, availIdx) \in Nat
    BY <1>2, TypesOfRings, GapRange
  <2>4. Cardinality(owned') + Gap(lastAvail', availIdx)
          = Cardinality(owned) + Gap(lastAvail, availIdx)
    BY <2>1, <2>2, <2>3
  <2>5. ASSUME NestsPolls, polls # <<>>
        PROVE  Gap(polls[1].from, usedIdx) + Cardinality(owned') + Gap(lastAvail', availIdx)
                 + Gap(polls[1].from, polls[1].to) + polls[1].sends <= QueueSize
    <3>1. 1 \in 1 .. Len(polls)
      BY <1>2, <2>5, TypesOfRings
    <3>2. /\ polls[1].from \in Index /\ polls[1].to \in Index
          /\ polls[1].sends \in Nat /\ usedIdx \in Index
      BY <1>2, <3>1, TypesOfRings
    <3>3. Gap(polls[1].from, usedIdx) \in Nat /\ Gap(polls[1].from, polls[1].to) \in Nat
      BY <3>2, GapRange
    <3>4. Gap(polls[1].from, usedIdx) + Cardinality(owned) + Gap(lastAvail, availIdx)
            + Gap(polls[1].from, polls[1].to) + polls[1].sends <= QueueSize
      BY <1>2, <2>5 DEF Room
    <3> QED
      BY <2>1, <2>2, <2>3, <3>2, <3>3, <3>4
  <2>6. \A n \in 1 .. Len(polls) :
          Gap(polls[n].from, polls[n].to) <= Gap(polls[n].from, usedIdx)
    BY <1>2 DEF Room
  <2> QED
    BY <1>1, <2>5, <2>6 DEF Room
<1>12. Strands(next, more, Heads)'
  BY <1>1, <1>2, <1>7
<1> QED
  BY <1>4, <1>6, <1>7, <1>8, <1>9, <1>10, <1>11, <1>12 DEF AccountInv

LEMMA OuterTypes ==
  ASSUME TypeOK, polls # <<>>
  PROVE  /\ 1 \in 1 .. Len(polls)
         /\ polls[1].from \in Index /\ polls[1].to \in Index /\ polls[1].sends \in Nat
         /\ Gap(polls[1].from, polls[1].to) \in Nat
         /\ Gap(polls[1].from, usedIdx) \in Nat
<1>1. 1 \in 1 .. Len(polls)
  BY TypesOfRings
<1>2. /\ polls[1].from \in Index /\ polls[1].to \in Index /\ polls[1].sends \in Nat
      /\ usedIdx \in Index
  BY <1>1, TypesOfRings
<1> QED
  BY <1>1, <1>2, GapRange

(* While the device has a head, the used ring has a slot for it that no     *)
(* entry still to be read lies in.                                          *)
LEMMA RoomForReturn ==
  ASSUME AccountInv, owned # {}
  PROVE  /\ Gap(usedCtr, usedIdx) < QueueSize
         /\ \A n \in 1 .. Len(polls) : Gap(polls[n].from, usedIdx) < QueueSize
<1>1. TypeOK /\ Nesting /\ Room /\ HeadsOnce /\ HeadsApart
      /\ Strands(next, more, Heads)
  BY DEF AccountInv
<1> DEFINE W == Gap(lastAvail, availIdx)
           O == Cardinality(owned)
           U == Gap(usedCtr, usedIdx)
<1>2. O \in Nat /\ O > 0
  BY <1>1, TypesOfRings, FS_EmptySet
<1>3. W \in Nat /\ U \in Nat
  BY <1>1, TypesOfRings, GapRange
<1>4. Turns(polls, 1) \in Nat /\ Turns(polls, 2) \in Nat
  BY <1>1, TurnsTypes
<1>5. W + O + U + Turns(polls, 1) + Turns(polls, 2) <= QueueSize
  BY <1>1, HeadsCounted, StrandsFew
<1>6. U < QueueSize
  <2> HIDE DEF W, O, U
  <2> QED
    BY <1>2, <1>3, <1>4, <1>5, SizesArePositive
<1>7. ASSUME NEW n \in 1 .. Len(polls) PROVE Gap(polls[n].from, usedIdx) < QueueSize
  <2>1. /\ polls[n].from \in Index /\ polls[n].to \in Index
        /\ usedIdx \in Index /\ usedCtr \in Index
    BY <1>1, TypesOfRings
  <2>2. n \in {1, 2}
    BY <1>1, FewTurns
  <2>3. CASE polls[n].to = usedCtr
    <3>1. Gap(polls[n].from, usedIdx) = Gap(polls[n].from, polls[n].to) + U
      BY <1>1, <2>1, <2>3, GapSplits DEF Room
    <3>2. Gap(polls[n].from, polls[n].to) = Turns(polls, n)
      BY <1>1, TypesOfRings DEF Turns
    <3>3. Turns(polls, n) + U < QueueSize
      <4> HIDE DEF W, O, U
      <4> QED
        BY <1>2, <1>3, <1>4, <1>5, <2>2, SizesArePositive
    <3> QED
      BY <3>1, <3>2, <3>3
  <2>4. CASE polls[n].to # usedCtr
    <3>1. Len(polls) \in 0 .. 2
      BY <1>1, FewPolls
    <3>2. n = 1 /\ NestsPolls
      BY <1>1, <2>2, <2>4, <3>1 DEF Nesting
    <3>3. polls # <<>>
      BY <3>2
    <3>4. Gap(polls[1].from, usedIdx) + O + W
            + Gap(polls[1].from, polls[1].to) + polls[1].sends <= QueueSize
      BY <1>1, <3>2, <3>3 DEF Room
    <3>5. /\ polls[1].sends \in Nat /\ Gap(polls[1].from, polls[1].to) \in Nat
          /\ Gap(polls[1].from, usedIdx) \in Nat
      BY <1>1, <3>3, OuterTypes
    <3> HIDE DEF W, O, U
    <3> QED
      BY <1>2, <1>3, <3>2, <3>4, <3>5, SizesArePositive
  <2> QED
    BY <2>3, <2>4
<1> QED
  BY <1>6, <1>7

LEMMA ReturnAccount ==
  ASSUME AccountInv, TypeOK', NEW h \in Desc, DeviceReturn(h)
  PROVE  /\ AccountInv'
         /\ h \in owned /\ owned' = owned \ {h}
         /\ UnclaimedHeads' = UnclaimedHeads \union {h}
         /\ UNCHANGED <<Heads, WaitingHeads, Outer, Inner>>
<1> DEFINE new == [usedRing EXCEPT ![usedIdx % QueueSize] = h]
           top == Successor(usedIdx)
<1>1. /\ h \in owned /\ owned' = owned \ {h}
      /\ usedRing' = new /\ usedIdx' = top
      /\ UNCHANGED <<next, more, availRing, availIdx, usedCtr, lastAvail,
                     polls, bottomHalf>>
  BY DEF DeviceReturn, transportVars, driverVars
<1>2. TypeOK /\ Nesting /\ Room /\ HeadsOnce /\ HeadsApart
      /\ Strands(next, more, Heads)
  BY DEF AccountInv
<1>3. /\ Gap(usedCtr, usedIdx) < QueueSize
      /\ \A n \in 1 .. Len(polls) : Gap(polls[n].from, usedIdx) < QueueSize
  BY <1>1, RoomForReturn
<1>4. /\ usedRing \in [Desc -> Desc] /\ usedIdx \in Index /\ usedCtr \in Index
      /\ top \in Index
  BY <1>2, TypesOfRings, SuccessorInRange
<1>5. /\ h \notin WaitingHeads /\ h \notin UnclaimedHeads
      /\ h \notin Outer /\ h \notin Inner
  BY <1>1, <1>2 DEF HeadsApart, Apart
<1>6. /\ Held(new, usedCtr, top) = UnclaimedHeads \union {h}
      /\ Once(new, usedCtr, top)
  BY <1>2, <1>3, <1>4, <1>5, HeldGrows DEF UnclaimedHeads, HeadsOnce
<1>7. ASSUME NEW n \in 1 .. Len(polls)
      PROVE  /\ Held(new, polls[n].from, polls[n].to)
                  = Held(usedRing, polls[n].from, polls[n].to)
             /\ Once(new, polls[n].from, polls[n].to)
             /\ Gap(polls[n].from, top) = Gap(polls[n].from, usedIdx) + 1
             /\ Gap(polls[n].from, polls[n].to) <= Gap(polls[n].from, top)
  <2>1. /\ polls[n].from \in Index /\ polls[n].to \in Index
        /\ Gap(polls[n].from, usedIdx) < QueueSize
        /\ Gap(polls[n].from, polls[n].to) <= Gap(polls[n].from, usedIdx)
        /\ Once(usedRing, polls[n].from, polls[n].to)
    BY <1>2, <1>3, TypesOfRings DEF Room, HeadsOnce
  <2>2. Gap(polls[n].from, usedIdx) \in Nat /\ Gap(polls[n].from, polls[n].to) \in Nat
    BY <1>4, <2>1, GapRange
  <2>3. Gap(polls[n].from, usedIdx) < IndexMod - 1
    BY <2>1, <2>2, QueueAssumption DEF QueueAssumption
  <2>4. Gap(polls[n].from, top) = Gap(polls[n].from, usedIdx) + 1
    BY <1>4, <2>1, <2>3, GapGrows
  <2>5. /\ Held(new, polls[n].from, polls[n].to)
             = Held(usedRing, polls[n].from, polls[n].to)
        /\ Once(new, polls[n].from, polls[n].to)
    <3>1. \A s \in Desc : s # usedIdx % QueueSize => new[s] = usedRing[s]
      BY <1>4
    <3> HIDE DEF new
    <3> QED
      BY <1>4, <2>1, <3>1, HeldSpared
  <2>6. Gap(polls[n].from, polls[n].to) <= Gap(polls[n].from, top)
    <3> HIDE DEF top
    <3> QED
      BY <2>1, <2>2, <2>4
  <2> HIDE DEF new, top
  <2> QED
    BY <2>4, <2>5, <2>6
<1>8. WaitingHeads' = WaitingHeads
  BY <1>1 DEF WaitingHeads
<1>9. Outer' = Outer /\ Inner' = Inner
  <2>1. Len(polls) \in Nat
    BY <1>2, TypesOfRings
  <2>2. ASSUME NEW n \in {1, 2} PROVE Claim(new, polls, n) = Claim(usedRing, polls, n)
    <3>1. CASE n <= Len(polls)
      <4>1. n \in 1 .. Len(polls)
        BY <2>1, <3>1
      <4> HIDE DEF new
      <4> QED
        BY <1>7, <3>1, <4>1 DEF Claim
    <3>2. CASE ~(n <= Len(polls))
      BY <3>2 DEF Claim
    <3> QED
      BY <3>1, <3>2
  <2> HIDE DEF new
  <2> QED
    BY <1>1, <2>2 DEF Outer, Inner
<1> HIDE DEF new, top
<1>10. UnclaimedHeads' = UnclaimedHeads \union {h}
  BY <1>1, <1>6 DEF UnclaimedHeads
<1>11. Heads' = Heads
  BY <1>1, <1>8, <1>9, <1>10 DEF Heads
<1>12. HeadsApart'
  BY <1>1, <1>2, <1>5, <1>8, <1>9, <1>10 DEF HeadsApart, Apart
<1>13. HeadsOnce'
  BY <1>1, <1>2, <1>6, <1>7 DEF HeadsOnce
<1>14. Nesting'
  BY <1>1, <1>2 DEF Nesting
<1>15. Room'
  <2>1. Cardinality(owned') = Cardinality(owned) - 1
    BY <1>1, <1>2, TypesOfRings, FS_RemoveElement
  <2>2. ASSUME NestsPolls, polls # <<>>
        PROVE  Gap(polls[1].from, usedIdx') + Cardinality(owned') + Gap(lastAvail, availIdx)
                 + Gap(polls[1].from, polls[1].to) + polls[1].sends <= QueueSize
    <3>1. /\ 1 \in 1 .. Len(polls) /\ polls[1].sends \in Nat
          /\ Gap(polls[1].from, usedIdx) \in Nat /\ Gap(polls[1].from, polls[1].to) \in Nat
      BY <1>2, <2>2, OuterTypes
    <3>2. Gap(polls[1].from, usedIdx') = Gap(polls[1].from, usedIdx) + 1
      BY <1>1, <1>7, <3>1
    <3>3. Cardinality(owned) \in Nat /\ Gap(lastAvail, availIdx) \in Nat
      BY <1>2, TypesOfRings, GapRange
    <3>4. Gap(polls[1].from, usedIdx) + Cardinality(owned) + Gap(lastAvail, availIdx)
            + Gap(polls[1].from, polls[1].to) + polls[1].sends <= QueueSize
      BY <1>2, <2>2 DEF Room
    <3> QED
      BY <2>1, <3>1, <3>2, <3>3, <3>4
  <2>3. \A n \in 1 .. Len(polls) :
          Gap(polls[n].from, polls[n].to) <= Gap(polls[n].from, usedIdx')
    BY <1>1, <1>7
  <2> QED
    BY <1>1, <2>2, <2>3 DEF Room
<1>16. Strands(next, more, Heads)'
  BY <1>1, <1>2, <1>11
<1> QED
  BY <1>1, <1>8, <1>9, <1>10, <1>11, <1>12, <1>13, <1>14, <1>15, <1>16 DEF AccountInv

(* QPoll claims all that is unclaimed, as the only activation...            *)
LEMMA ClaimAccount ==
  ASSUME AccountInv, TypeOK', polls = <<>>, polls' = <<NewPoll>>, usedCtr' = usedIdx,
         UNCHANGED <<next, more, availRing, availIdx, usedRing, usedIdx, lastAvail, owned>>,
         bottomHalf' \notin {"rearmed", "armed"}
  PROVE  /\ AccountInv' /\ UNCHANGED <<Heads, WaitingHeads, owned>>
         /\ (UnclaimedHeads \union Outer \union Inner)'
              = UnclaimedHeads \union Outer \union Inner
<1>1. TypeOK /\ Nesting /\ Room /\ HeadsOnce /\ HeadsApart
      /\ Strands(next, more, Heads)
  BY DEF AccountInv
<1>2. usedCtr \in Index /\ usedIdx \in Index
  BY <1>1, TypesOfRings
<1>3. /\ Len(polls) = 0 /\ Len(polls') = 1
      /\ polls'[1].from = usedCtr /\ polls'[1].to = usedIdx /\ polls'[1].sends = 0
  BY DEF NewPoll
<1>4. Outer = {} /\ Inner = {} /\ Outer' = UnclaimedHeads /\ Inner' = {}
  BY <1>3 DEF Outer, Inner, Claim, UnclaimedHeads
<1>5. UnclaimedHeads' = {} /\ Once(usedRing, usedIdx, usedIdx)
  BY <1>2, HeldNone DEF UnclaimedHeads
<1>6. WaitingHeads' = WaitingHeads
  BY DEF WaitingHeads
<1>7. (UnclaimedHeads \union Outer \union Inner)'
        = UnclaimedHeads \union Outer \union Inner
  BY <1>4, <1>5
<1>8. Heads' = Heads
  BY <1>4, <1>5, <1>6 DEF Heads
<1>9. HeadsApart'
  BY <1>1, <1>4, <1>5, <1>6 DEF HeadsApart, Apart
<1>10. HeadsOnce'
  <2>1. ASSUME NEW n \in 1 .. Len(polls')
        PROVE  Once(usedRing, polls'[n].from, polls'[n].to)
    <3>1. n = 1
      BY <1>3
    <3> QED
      BY <1>1, <1>3, <3>1 DEF HeadsOnce
  <2> QED
    BY <1>1, <1>5, <2>1 DEF HeadsOnce
<1>11. Nesting'
  BY <1>3 DEF Nesting
<1>12. Room'
  <2>1. ASSUME NEW n \in 1 .. Len(polls')
        PROVE  Gap(polls'[n].from, polls'[n].to) <= Gap(polls'[n].from, usedIdx)
    <3>1. n = 1
      BY <1>3
    <3>2. Gap(usedCtr, usedIdx) \in Nat
      BY <1>2, GapRange
    <3> QED
      BY <1>3, <3>1, <3>2
  <2>2. ASSUME NestsPolls
        PROVE  Gap(usedCtr, usedIdx) + Cardinality(owned) + Gap(lastAvail, availIdx)
                 + Gap(usedCtr, usedIdx) + 0 <= QueueSize
    <3>1. Cardinality(Heads)
            = Gap(lastAvail, availIdx) + Cardinality(owned) + Gap(usedCtr, usedIdx)
                + Turns(polls, 1) + Turns(polls, 2)
      BY <1>1, HeadsCounted
    <3>2. Turns(polls, 1) = 0 /\ Turns(polls, 2) = 0
      BY <1>3 DEF Turns
    <3>3. 2 * Cardinality(Heads) <= QueueSize
      BY <1>1, <2>2, StrandsFew
    <3>4. /\ Cardinality(owned) \in Nat /\ Gap(lastAvail, availIdx) \in Nat
          /\ Gap(usedCtr, usedIdx) \in Nat
      BY <1>1, TypesOfRings, GapRange
    <3> QED
      BY <3>1, <3>2, <3>3, <3>4, SizesArePositive
  <2> QED
    BY <1>3, <2>1, <2>2 DEF Room
<1>13. Strands(next, more, Heads)'
  BY <1>1, <1>8
<1> QED
  BY <1>6, <1>7, <1>8, <1>9, <1>10, <1>11, <1>12, <1>13 DEF AccountInv

(* ... or from the DNotified call of another.                               *)
LEMMA NestedClaimAccount ==
  ASSUME AccountInv, TypeOK', NestsPolls, Len(polls) = 1, Len(polls') = 2,
         polls'[1] = [polls[1] EXCEPT !.callback = "polled"], polls'[2] = NewPoll,
         usedCtr' = usedIdx,
         UNCHANGED <<next, more, availRing, availIdx, usedRing, usedIdx, lastAvail,
                     owned, bottomHalf>>
  PROVE  /\ AccountInv' /\ UNCHANGED <<Heads, WaitingHeads, owned>>
         /\ (UnclaimedHeads \union Outer \union Inner)'
              = UnclaimedHeads \union Outer \union Inner
<1>1. TypeOK /\ Nesting /\ Room /\ HeadsOnce /\ HeadsApart
      /\ Strands(next, more, Heads)
  BY DEF AccountInv
<1>2. usedCtr \in Index /\ usedIdx \in Index
  BY <1>1, TypesOfRings
<1>3. /\ polls'[1].from = polls[1].from /\ polls'[1].to = polls[1].to
      /\ polls'[1].sends = polls[1].sends
      /\ polls'[2].from = usedCtr /\ polls'[2].to = usedIdx
      /\ polls'[2].callback = "none"
  <2>1. polls \in Seq(Poll) /\ 1 \in 1 .. Len(polls)
    BY <1>1, TypesOfRings
  <2>2. polls[1] \in Poll
    BY <2>1
  <2> QED
    BY <2>2 DEF NewPoll, Poll
<1>4. Outer' = Outer /\ Inner = {} /\ Inner' = UnclaimedHeads
  BY <1>3 DEF Outer, Inner, Claim, UnclaimedHeads
<1>5. UnclaimedHeads' = {} /\ Once(usedRing, usedIdx, usedIdx)
  BY <1>2, HeldNone DEF UnclaimedHeads
<1>6. WaitingHeads' = WaitingHeads
  BY DEF WaitingHeads
<1>7. (UnclaimedHeads \union Outer \union Inner)'
        = UnclaimedHeads \union Outer \union Inner
  BY <1>4, <1>5
<1>8. Heads' = Heads
  BY <1>4, <1>5, <1>6 DEF Heads
<1>9. HeadsApart'
  BY <1>1, <1>4, <1>5, <1>6 DEF HeadsApart, Apart
<1>10. 1 \in 1 .. Len(polls) /\ polls # <<>> /\ polls' # <<>>
  <2>1. Len(polls) # 0 /\ Len(polls') # 0
    OBVIOUS
  <2>2. polls # <<>> /\ polls' # <<>>
    BY <2>1
  <2> QED
    BY <2>2
<1>11. HeadsOnce'
  <2>1. ASSUME NEW n \in 1 .. Len(polls')
        PROVE  Once(usedRing, polls'[n].from, polls'[n].to)
    <3>1. n = 1 \/ n = 2
      OBVIOUS
    <3>2. /\ Once(usedRing, polls[1].from, polls[1].to)
          /\ Once(usedRing, usedCtr, usedIdx)
      BY <1>1, <1>10 DEF HeadsOnce
    <3> QED
      BY <1>3, <3>1, <3>2
  <2> QED
    BY <1>1, <1>5, <2>1 DEF HeadsOnce
<1>12. Nesting'
  <2>1. bottomHalf \notin {"rearmed", "armed"}
    BY <1>1, <1>10 DEF Nesting
  <2> QED
    BY <1>3, <2>1 DEF Nesting
<1>13. Room'
  <2>1. ASSUME NEW n \in 1 .. Len(polls')
        PROVE  Gap(polls'[n].from, polls'[n].to) <= Gap(polls'[n].from, usedIdx)
    <3>1. n = 1 \/ n = 2
      OBVIOUS
    <3>2. Gap(usedCtr, usedIdx) \in Nat
      BY <1>2, GapRange
    <3>3. Gap(polls[1].from, polls[1].to) <= Gap(polls[1].from, usedIdx)
      BY <1>1, <1>10 DEF Room
    <3>4. Gap(usedCtr, usedIdx) <= Gap(usedCtr, usedIdx)
      BY <3>2
    <3>5. CASE n = 1
      BY <1>3, <3>3, <3>5
    <3>6. CASE n = 2
      BY <1>3, <3>4, <3>6
    <3> QED
      BY <3>1, <3>5, <3>6
  <2>2. Gap(polls[1].from, usedIdx) + Cardinality(owned) + Gap(lastAvail, availIdx)
          + Gap(polls[1].from, polls[1].to) + polls[1].sends <= QueueSize
    BY <1>1, <1>10 DEF Room
  <2> QED
    BY <1>3, <2>1, <2>2 DEF Room
<1>14. Strands(next, more, Heads)'
  BY <1>1, <1>8
<1> QED
  BY <1>6, <1>7, <1>8, <1>9, <1>11, <1>12, <1>13, <1>14 DEF AccountInv

(* An activation that is through holds no entries.                          *)
LEMMA PollReturnAccount ==
  ASSUME AccountInv, TypeOK', PollReturn
  PROVE  AccountInv' /\ UNCHANGED <<Heads, WaitingHeads, owned, UnclaimedHeads, Outer, Inner>>
<1>1. TypeOK /\ Nesting /\ Room /\ HeadsOnce /\ HeadsApart
      /\ Strands(next, more, Heads)
  BY DEF AccountInv
<1>2. /\ polls # <<>> /\ polls[Len(polls)].from = polls[Len(polls)].to
      /\ polls' = SubSeq(polls, 1, Len(polls) - 1)
      /\ UNCHANGED <<next, more, availRing, availIdx, usedRing, usedIdx, usedCtr,
                     lastAvail, owned, bottomHalf>>
  BY DEF PollReturn, Innermost, ringVars, deviceVars, transportVars
<1>3. Len(polls) = 1 \/ Len(polls) = 2
  <2>1. Len(polls) \in Nat /\ Len(polls) # 0
    BY <1>1, <1>2, TypesOfRings
  <2> DEFINE k == Len(polls)
  <2>2. k \in Nat /\ k # 0 /\ k \in 0 .. 2
    BY <1>1, <2>1, FewPolls
  <2> HIDE DEF k
  <2>3. k = 1 \/ k = 2
    BY <2>2
  <2> QED
    BY <2>3 DEF k
<1>4. /\ Len(polls') = Len(polls) - 1
      /\ \A n \in 1 .. Len(polls') : polls'[n] = polls[n]
  <2>1. polls \in Seq(Poll)
    BY <1>1, TypesOfRings
  <2>2. CASE Len(polls) = 1
    <3>1. polls' = SubSeq(polls, 1, 0)
      BY <1>2, <2>2
    <3>2. polls' = <<>>
      BY <2>1, <3>1
    <3> QED
      BY <2>2, <3>2
  <2>3. CASE Len(polls) = 2
    <3>1. polls' = SubSeq(polls, 1, 1)
      BY <1>2, <2>3
    <3>2. Len(polls') = 1 /\ polls'[1] = polls[1]
      BY <2>1, <2>3, <3>1
    <3> QED
      BY <2>3, <3>2
  <2> QED
    BY <1>3, <2>2, <2>3
<1>5. Held(usedRing, polls[Len(polls)].from, polls[Len(polls)].to) = {}
  <2>1. polls[Len(polls)].from \in Index
    <3>1. Len(polls) \in 1 .. Len(polls)
      BY <1>3
    <3> QED
      BY <1>1, <3>1, TypesOfRings
  <2> QED
    BY <1>2, <2>1, HeldNone
<1>6. Outer' = Outer /\ Inner' = Inner
  <2>1. CASE Len(polls) = 1
    BY <1>2, <1>4, <1>5, <2>1 DEF Outer, Inner, Claim
  <2>2. CASE Len(polls) = 2
    BY <1>2, <1>4, <1>5, <2>2 DEF Outer, Inner, Claim
  <2> QED
    BY <1>3, <2>1, <2>2
<1>7. WaitingHeads' = WaitingHeads /\ UnclaimedHeads' = UnclaimedHeads
  BY <1>2 DEF WaitingHeads, UnclaimedHeads
<1>8. Heads' = Heads
  BY <1>2, <1>6, <1>7 DEF Heads
<1>9. HeadsApart'
  BY <1>1, <1>2, <1>6, <1>7 DEF HeadsApart
<1>10. \A n \in 1 .. Len(polls') : n \in 1 .. Len(polls) /\ polls'[n] = polls[n]
  BY <1>3, <1>4
<1>11. HeadsOnce'
  BY <1>1, <1>2, <1>10 DEF HeadsOnce
<1>12. Nesting'
  <2>1. CASE Len(polls) = 1
    <3>1. Len(polls') = 0 /\ polls' = <<>>
      BY <1>2, <1>4, <2>1
    <3> QED
      BY <3>1 DEF Nesting
  <2>2. CASE Len(polls) = 2
    BY <1>1, <1>2, <1>4, <2>2 DEF Nesting
  <2> QED
    BY <1>3, <2>1, <2>2
<1>13. Room'
  <2>1. \A n \in 1 .. Len(polls') :
          Gap(polls'[n].from, polls'[n].to) <= Gap(polls'[n].from, usedIdx)
    BY <1>1, <1>10 DEF Room
  <2>2. CASE Len(polls) = 1
    <3>1. polls' = <<>>
      BY <1>2, <2>2
    <3> QED
      BY <1>2, <2>1, <3>1 DEF Room
  <2>3. CASE Len(polls) = 2
    <3>1. polls'[1] = polls[1]
      BY <1>4, <2>3
    <3> QED
      BY <1>1, <1>2, <2>1, <3>1 DEF Room
  <2> QED
    BY <1>3, <2>2, <2>3
<1>14. Strands(next, more, Heads)'
  BY <1>1, <1>2, <1>8
<1> QED
  BY <1>2, <1>6, <1>7, <1>8, <1>9, <1>11, <1>12, <1>13, <1>14 DEF AccountInv

LEMMA TurnedIs ==
  ASSUME NEW p \in Poll, NEW f, NEW c, NEW s
  PROVE  LET turned == [p EXCEPT !.from = f, !.callback = c, !.sends = s]
         IN  /\ turned.from = f /\ turned.to = p.to
             /\ turned.callback = c /\ turned.sends = s
BY DEF Poll

(* The head whose entry is read is in the rings no more, and what its chain *)
(* held is free.  The outer activation gains room for what its DNotified    *)
(* may send.                                                                *)
LEMMA PollEntryAccount ==
  ASSUME AccountInv, TypeOK', PollEntry
  PROVE  /\ AccountInv' /\ UNCHANGED <<WaitingHeads, owned>>
         /\ \E first \in Desc :
              /\ first \in UnclaimedHeads \union Outer \union Inner
              /\ lastTag' = tag[first] /\ tag' = tag
              /\ (UnclaimedHeads \union Outer \union Inner)'
                   = (UnclaimedHeads \union Outer \union Inner) \ {first}
<1> DEFINE k == Len(polls)
           first == usedRing[polls[k].from % QueueSize]
           a == polls[k].from
           b == polls[k].to
           sent == IF k = 1 THEN CallbackSends ELSE 0
           turned == [polls[k] EXCEPT !.from = Successor(@),
                                      !.callback = IF k = 1 THEN "poll" ELSE "none",
                                      !.sends = sent]
<1>1. TypeOK /\ Nesting /\ Room /\ HeadsOnce /\ HeadsApart
      /\ Strands(next, more, Heads)
  BY DEF AccountInv
<1>2. /\ polls # <<>> /\ a # b
      /\ polls' = [polls EXCEPT ![k] = turned]
      /\ next' = [d \in Desc |-> IF d \in Freed(first) THEN Free ELSE next[d]]
      /\ lastTag' = tag[first]
      /\ UNCHANGED <<more, availRing, availIdx, usedRing, usedIdx, usedCtr,
                     lastAvail, owned, bottomHalf, tag>>
  BY DEF PollEntry, Innermost, deviceVars, transportVars
<1>3. polls \in Seq(Poll) /\ (k = 1 \/ k = 2)
  <2>1. polls \in Seq(Poll) /\ k \in 0 .. 2 /\ k # 0
    BY <1>1, <1>2, TypesOfRings, FewPolls
  <2> HIDE DEF k
  <2> QED
    BY <2>1
<1>4. k \in 1 .. k /\ polls[k] \in Poll
  <2>1. k \in 1 .. k
    <3> HIDE DEF k
    <3> QED
      BY <1>3
  <2> QED
    BY <1>3, <2>1
<1>5. a \in Index /\ b \in Index /\ Successor(a) \in Index /\ usedIdx \in Index
  BY <1>1, <1>4, SuccessorInRange, TypesOfRings DEF Poll
<1>6. /\ turned.from = Successor(a) /\ turned.to = b /\ turned.sends = sent
      /\ k = 2 => turned.callback = "none"
  <2>1. turned = [polls[k] EXCEPT !.from = Successor(polls[k].from),
                                  !.callback = IF k = 1 THEN "poll" ELSE "none",
                                  !.sends = sent]
    BY <1>4 DEF Poll
  <2>2. /\ turned.from = Successor(polls[k].from) /\ turned.to = polls[k].to
        /\ turned.callback = (IF k = 1 THEN "poll" ELSE "none")
        /\ turned.sends = sent
    <3> HIDE DEF turned, sent, k
    <3> QED
      BY <1>4, <2>1, TurnedIs
  <2>3. k = 2 => (IF k = 1 THEN "poll" ELSE "none") = "none"
    <3> HIDE DEF k
    <3> QED
      OBVIOUS
  <2>4. a = polls[k].from /\ b = polls[k].to
    OBVIOUS
  <2> HIDE DEF turned, sent, k, a, b
  <2> QED
    BY <2>2, <2>3, <2>4
<1>7. /\ Len(polls') = k /\ polls'[k] = turned
      /\ \A n \in 1 .. k : n # k => polls'[n] = polls[n]
  <2> HIDE DEF turned
  <2> QED
    BY <1>2, <1>3, <1>4
<1>8. /\ first \in Held(usedRing, a, b)
      /\ Held(usedRing, Successor(a), b) = Held(usedRing, a, b) \ {first}
      /\ Once(usedRing, Successor(a), b)
  <2>1. Once(usedRing, a, b)
    BY <1>1, <1>4 DEF HeadsOnce
  <2> QED
    BY <1>2, <1>5, <2>1, HeldShrinks
<1>9. /\ k = 1 => /\ Outer = Held(usedRing, a, b) /\ Outer' = Outer \ {first}
                  /\ Inner = {} /\ Inner' = {}
      /\ k = 2 => /\ Inner = Held(usedRing, a, b) /\ Inner' = Inner \ {first}
                  /\ Outer' = Outer
  <2>1. CASE k = 1
    <3>1. Outer = Held(usedRing, a, b) /\ Inner = {}
      BY <2>1 DEF Outer, Inner, Claim
    <3>2. Outer' = Held(usedRing, Successor(a), b) /\ Inner' = {}
      <4>1. /\ polls'[1].from = Successor(a) /\ polls'[1].to = b /\ Len(polls') = 1
            /\ usedRing' = usedRing
        <5> HIDE DEF turned, a, b
        <5> QED
          BY <1>2, <1>6, <1>7, <2>1
      <4> HIDE DEF turned, a, b
      <4> QED
        BY <4>1 DEF Outer, Inner, Claim
    <3> QED
      BY <1>8, <2>1, <3>1, <3>2
  <2>2. CASE k = 2
    <3>1. Inner = Held(usedRing, a, b)
      BY <2>2 DEF Inner, Claim
    <3>2. Inner' = Held(usedRing, Successor(a), b)
      <4>1. /\ polls'[2].from = Successor(a) /\ polls'[2].to = b /\ Len(polls') = 2
            /\ usedRing' = usedRing
        <5> HIDE DEF turned, a, b
        <5> QED
          BY <1>2, <1>6, <1>7, <2>2
      <4> HIDE DEF turned, a, b
      <4> QED
        BY <4>1 DEF Inner, Claim
    <3>3. Outer' = Outer
      <4>1. polls'[1] = polls[1] /\ Len(polls') = 2 /\ Len(polls) = 2
        BY <1>7, <2>2
      <4> QED
        BY <1>2, <4>1 DEF Outer, Claim
    <3> QED
      BY <1>8, <2>2, <3>1, <3>2, <3>3
  <2> QED
    BY <1>3, <2>1, <2>2
<1>10. WaitingHeads' = WaitingHeads /\ UnclaimedHeads' = UnclaimedHeads
  BY <1>2 DEF WaitingHeads, UnclaimedHeads
<1>11. /\ first \in Outer \union Inner
       /\ Outer' \subseteq Outer /\ Inner' \subseteq Inner
       /\ (Outer \union Inner)' = (Outer \union Inner) \ {first}
  <2> HIDE DEF first, k
  <2> QED
    BY <1>1, <1>3, <1>8, <1>9 DEF HeadsApart, Apart
<1>12. first \notin WaitingHeads /\ first \notin owned /\ first \notin UnclaimedHeads
  <2> HIDE DEF first
  <2> QED
    BY <1>1, <1>11 DEF HeadsApart, Apart
<1>13. first \in Heads /\ Heads' = Heads \ {first}
  <2> HIDE DEF first
  <2> QED
    BY <1>2, <1>10, <1>11, <1>12 DEF Heads
<1>14. first \in Desc
  BY <1>1, <1>13, StrandsFew
<1>15. Strands(next', more, Heads \ {first})
  <2>1. \A d \in Desc : next'[d] = IF d \in ChainOf(next, more, first) THEN Free
                                   ELSE next[d]
    BY <1>2, ChainIs DEF Freed
  <2> HIDE DEF first
  <2> QED
    BY <1>1, <1>13, <2>1, StrandsFreed
<1>16. HeadsApart'
  <2> HIDE DEF first
  <2> QED
    BY <1>1, <1>2, <1>10, <1>11 DEF HeadsApart, Apart
<1> HIDE DEF first
<1>17. HeadsOnce'
  <2>1. ASSUME NEW n \in 1 .. Len(polls')
        PROVE  Once(usedRing, polls'[n].from, polls'[n].to)
    <3>1. CASE n = k
      <4> HIDE DEF turned, a, b
      <4> QED
        BY <1>6, <1>7, <1>8, <3>1
    <3>2. CASE n # k
      <4>1. n \in 1 .. Len(polls) /\ polls'[n] = polls[n]
        BY <1>7, <3>2
      <4> QED
        BY <1>1, <4>1 DEF HeadsOnce
    <3> QED
      BY <3>1, <3>2
  <2> QED
    BY <1>1, <1>2, <2>1 DEF HeadsOnce
<1>18. Nesting'
  <2>1. bottomHalf \notin {"rearmed", "armed"}
    BY <1>1, <1>2 DEF Nesting
  <2>2. CASE k = 1
    <3>1. Len(polls') = 1 /\ polls'[1].to = polls[1].to /\ Len(polls) = 1
      <4>1. b = polls[1].to /\ Len(polls) = 1
        BY <2>2
      <4>2. polls'[1] = turned /\ Len(polls') = 1
        BY <1>7, <2>2
      <4> HIDE DEF turned
      <4> QED
        BY <1>6, <4>1, <4>2
    <3>2. ~NestsPolls => polls'[1].to = usedCtr'
      BY <1>1, <1>2, <3>1 DEF Nesting
    <3>3. Len(polls') <= 2 /\ Len(polls') # 2
      BY <3>1
    <3>4. bottomHalf' \notin {"rearmed", "armed"}
      BY <1>2, <2>1
    <3> QED
      BY <3>2, <3>3, <3>4 DEF Nesting
  <2>3. CASE k = 2
    <3>1. /\ Len(polls') = 2 /\ polls'[2].to = polls[2].to /\ Len(polls) = 2
          /\ polls'[2].callback = "none"
      <4>1. b = polls[2].to /\ Len(polls) = 2
        BY <2>3
      <4>2. polls'[2] = turned /\ Len(polls') = 2
        BY <1>7, <2>3
      <4> HIDE DEF turned
      <4> QED
        BY <1>6, <2>3, <4>1, <4>2
    <3> QED
      BY <1>1, <1>2, <2>1, <3>1 DEF Nesting
  <2> QED
    BY <1>3, <2>2, <2>3
<1>19. /\ Gap(a, b) \in Nat /\ Gap(a, usedIdx) \in Nat /\ Gap(a, b) <= Gap(a, usedIdx)
       /\ Gap(a, b) > 0
       /\ Gap(Successor(a), b) = Gap(a, b) - 1
       /\ Gap(Successor(a), usedIdx) = Gap(a, usedIdx) - 1
  <2>1. Gap(a, b) \in Nat /\ Gap(a, usedIdx) \in Nat
    BY <1>5, GapRange
  <2>2. Gap(a, b) <= Gap(a, usedIdx)
    BY <1>1, <1>4 DEF Room
  <2>3. Gap(a, b) > 0 /\ Gap(Successor(a), b) = Gap(a, b) - 1
    <3> HIDE DEF a, b
    <3> QED
      BY <1>2, <1>5, GapShrinks
  <2>4. a # usedIdx
    <3> HIDE DEF a, b
    <3>1. Gap(a, usedIdx) # 0
      BY <2>1, <2>2, <2>3
    <3> QED
      BY <1>5, <3>1, GapRange
  <2>5. Gap(Successor(a), usedIdx) = Gap(a, usedIdx) - 1
    <3> HIDE DEF a, b
    <3> QED
      BY <1>5, <2>4, GapShrinks
  <2> QED
    BY <2>1, <2>2, <2>3, <2>5
<1>20. Room'
  <2>1. ASSUME NEW n \in 1 .. Len(polls')
        PROVE  Gap(polls'[n].from, polls'[n].to) <= Gap(polls'[n].from, usedIdx)
    <3>1. CASE n = k
      <4>1. polls'[n].from = Successor(a) /\ polls'[n].to = b
        <5> HIDE DEF turned, a, b
        <5> QED
          BY <1>6, <1>7, <3>1
      <4> HIDE DEF a, b
      <4> QED
        BY <1>19, <4>1
    <3>2. CASE n # k
      <4>1. n \in 1 .. Len(polls) /\ polls'[n] = polls[n]
        BY <1>7, <3>2
      <4> QED
        BY <1>1, <4>1 DEF Room
    <3> QED
      BY <3>1, <3>2
  <2>2. ASSUME NestsPolls
        PROVE  Gap(polls'[1].from, usedIdx) + Cardinality(owned) + Gap(lastAvail, availIdx)
                 + Gap(polls'[1].from, polls'[1].to) + polls'[1].sends <= QueueSize
    <3>1. Gap(polls[1].from, usedIdx) + Cardinality(owned) + Gap(lastAvail, availIdx)
            + Gap(polls[1].from, polls[1].to) + polls[1].sends <= QueueSize
      BY <1>1, <1>2, <2>2 DEF Room
    <3>2. CASE k = 1
      <4>1. /\ polls'[1].from = Successor(a) /\ polls'[1].to = b
            /\ polls'[1].sends = CallbackSends
        <5>1. sent = CallbackSends
          BY <3>2
        <5> HIDE DEF turned, a, b, sent
        <5> QED
          BY <1>6, <1>7, <3>2, <5>1
      <4>2. Gap(a, usedIdx) + Cardinality(owned) + Gap(lastAvail, availIdx)
            + Gap(a, b) + polls[1].sends <= QueueSize
        BY <3>1, <3>2
      <4>3. polls[1].sends \in Nat
        BY <1>1, <1>2, OuterTypes
      <4>4. CallbackSends \in Nat /\ CallbackSends <= 2
        BY <2>2, QueueAssumption DEF QueueAssumption
      <4>5. Cardinality(owned) \in Nat /\ Gap(lastAvail, availIdx) \in Nat
        BY <1>1, TypesOfRings, GapRange
      <4> HIDE DEF a, b
      <4>6. Gap(Successor(a), usedIdx) + Cardinality(owned) + Gap(lastAvail, availIdx)
              + Gap(Successor(a), b) + CallbackSends <= QueueSize
        BY <1>19, <4>2, <4>3, <4>4, <4>5, SizesArePositive
      <4> QED
        BY <4>1, <4>6
    <3>3. CASE k = 2
      <4>1. polls'[1] = polls[1]
        BY <1>7, <3>3
      <4> QED
        BY <3>1, <4>1
    <3> QED
      BY <1>3, <3>2, <3>3
  <2> QED
    BY <1>2, <2>1, <2>2 DEF Room
<1>21. Strands(next, more, Heads)'
  BY <1>2, <1>13, <1>15
<1>22. (UnclaimedHeads \union Outer \union Inner)'
         = (UnclaimedHeads \union Outer \union Inner) \ {first}
  BY <1>10, <1>11, <1>12
<1>23. AccountInv'
  BY <1>16, <1>17, <1>18, <1>20, <1>21 DEF AccountInv
<1> QED
  BY <1>2, <1>10, <1>11, <1>14, <1>22, <1>23

LEMMA FreeDescsFinite ==
  /\ FreeDescs \in SUBSET Desc /\ IsFiniteSet(FreeDescs)
  /\ Cardinality(FreeDescs) \in Nat
<1>1. FreeDescs \in SUBSET Desc
  BY DEF FreeDescs
<1> QED
  BY <1>1, DescsFinite, FS_Subset, FS_CardinalityType

(* A message of two buffers or more takes more than its head.               *)
LEMMA PickedTwo ==
  ASSUME NEW k \in ChainLengths, k # 1, Cardinality(FreeDescs) >= k
  PROVE  Picked(k) # {Lowest(Picked(k))}
<1>1. k \in Nat /\ k >= 2
  BY QueueAssumption DEF QueueAssumption
<1>2. PICK d \in FreeDescs : \A e \in FreeDescs : e <= d
  <2>1. FreeDescs # {}
    BY <1>1, FS_EmptySet
  <2> QED
    BY <2>1, FreeDescsFinite, GreatestExists
<1>3. IsFiniteSet(FreeDescs \ {d}) /\ Cardinality(FreeDescs \ {d}) = Cardinality(FreeDescs) - 1
  BY <1>2, FreeDescsFinite, FS_RemoveElement
<1>4. FreeDescs \ {d} # {} /\ FreeDescs \ {d} \in SUBSET Desc
  <2>1. Cardinality(FreeDescs \ {d}) # 0
    BY <1>1, <1>3, FreeDescsFinite
  <2> QED
    BY <2>1, FreeDescsFinite, FS_EmptySet
<1>5. PICK c \in FreeDescs \ {d} : \A e \in FreeDescs \ {d} : e <= c
  BY <1>4, GreatestExists
<1> DEFINE F == FreeDescs
<1>0. \A e \in F : e \in Int
  BY FreeDescsFinite, SizesArePositive DEF Desc
<1>6. {e \in F : e > d} = {}
  <2> HIDE DEF F
  <2>1. d \in F /\ \A e \in F : e <= d
    BY <1>2 DEF F
  <2>2. ASSUME NEW e \in F PROVE ~(e > d)
    BY <1>0, <2>1
  <2> QED
    BY <2>2
<1>7. {e \in F : e > c} \in SUBSET {d}
  <2> HIDE DEF F
  <2>1. c \in F /\ \A e \in F \ {d} : e <= c
    BY <1>5 DEF F
  <2>2. ASSUME NEW e \in F, e > c PROVE e = d
    BY <1>0, <2>1, <2>2
  <2> QED
    BY <2>2
<1>8. Cardinality({e \in FreeDescs : e > d}) < k
  BY <1>1, <1>6, FS_EmptySet
<1>9. Cardinality({e \in FreeDescs : e > c}) < k
  <2>1. IsFiniteSet({d}) /\ Cardinality({d}) = 1
    BY FS_Singleton
  <2>2. /\ Cardinality({e \in FreeDescs : e > c}) <= 1
        /\ Cardinality({e \in FreeDescs : e > c}) \in Nat
    BY <1>7, <2>1, FS_Subset, FS_CardinalityType
  <2> QED
    BY <1>1, <2>2
<1>10. c \in Picked(k) /\ d \in Picked(k) /\ c # d
  BY <1>2, <1>5, <1>8, <1>9 DEF Picked
<1> QED
  BY <1>10

(* The polls that a send leaves are those of before, but for the sends left.*)
LEMMA CountedIs ==
  ASSUME TypeOK, DriverRuns, MaySend, Nesting, polls' = Counted
  PROVE  \/ polls = <<>> /\ polls' = polls
         \/ /\ Len(polls) = 1 /\ Len(polls') = 1 /\ polls # <<>> /\ polls' # <<>>
            /\ polls'[1].from = polls[1].from /\ polls'[1].to = polls[1].to
            /\ polls'[1].sends = polls[1].sends - 1
<1>1. CASE polls = <<>>
  BY <1>1 DEF Counted
<1>2. CASE polls # <<>>
  <2> DEFINE k == Len(polls)
  <2>1. polls \in Seq(Poll) /\ k \in 0 .. 2 /\ k # 0
    BY <1>2, TypesOfRings, FewPolls
  <2>2. k # 2
    BY <1>2 DEF DriverRuns, Innermost, Nesting
  <2>3. k = 1
    <3> HIDE DEF k
    <3> QED
      BY <2>1, <2>2
  <2> DEFINE sent == [polls[1] EXCEPT !.sends = @ - 1]
  <2>4. polls' = [polls EXCEPT ![1] = sent]
    BY <1>2, <2>3 DEF Counted
  <2>5. polls[1] \in Poll /\ 1 \in 1 .. Len(polls)
    BY <2>1, <2>3
  <2>6. sent.from = polls[1].from /\ sent.to = polls[1].to /\ sent.sends = polls[1].sends - 1
    BY <2>5 DEF Poll
  <2> HIDE DEF sent
  <2>7. Len(polls') = Len(polls) /\ polls'[1] = sent
    BY <2>1, <2>4, <2>5
  <2>8. Len(polls) = 1
    BY <2>3
  <2>9. polls' # <<>>
    BY <2>7, <2>8
  <2> QED
    BY <1>2, <2>6, <2>7, <2>8, <2>9
<1> QED
  BY <1>1, <1>2

LEMMA SendAccount ==
  ASSUME AccountInv, TypeOK', NEW k \in ChainLengths, NEW t \in Tags, QSend(k, t)
  PROVE  /\ AccountInv' /\ UNCHANGED <<owned, UnclaimedHeads, Outer, Inner, lastTag>>
         /\ \E head \in Desc :
              /\ head \notin Heads /\ tag' = [tag EXCEPT ![head] = t]
              /\ WaitingHeads' = WaitingHeads \union {head}
<1> DEFINE ds == Picked(k)
           head == Lowest(ds)
<1>1. TypeOK /\ Nesting /\ Room /\ HeadsOnce /\ HeadsApart
      /\ Strands(next, more, Heads)
  BY DEF AccountInv
<1>2. /\ DriverRuns /\ MaySend /\ Cardinality(FreeDescs) >= k
      /\ next' = [d \in Desc |->
              IF d \notin ds THEN next[d]
              ELSE IF \E e \in ds : e > d THEN Lowest({e \in ds : e > d})
              ELSE 0]
      /\ more' = [d \in Desc |-> IF d \in ds THEN \E e \in ds : e > d ELSE more[d]]
      /\ tag' = [tag EXCEPT ![head] = t]
      /\ availRing' = [availRing EXCEPT ![availIdx % QueueSize] = head]
      /\ availIdx' = Successor(availIdx)
      /\ polls' = Counted
      /\ UNCHANGED <<usedRing, usedIdx, usedCtr, lastAvail, owned, bottomHalf, lastTag>>
  BY DEF QSend, TaggedDesc, deviceVars, transportVars
<1>3. ds # {} /\ ds \in SUBSET Desc /\ \A d \in ds : next[d] = Free
  BY <1>2, PickedNonEmpty DEF Picked, FreeDescs
<1>4. NestsPolls => ds # {head}
  <2>1. NestsPolls => k # 1
    BY QueueAssumption DEF QueueAssumption
  <2> QED
    BY <1>2, <2>1, PickedTwo
<1>5. head \in Desc /\ head \in ds
  BY <1>3, LowestInSet
<1>6. head \notin Heads /\ Strands(next', more', Heads \union {head})
  <2>1. \A d \in Desc : next'[d] = IF d \notin ds THEN next[d]
                                   ELSE IF \E e \in ds : e > d
                                        THEN Lowest({e \in ds : e > d}) ELSE 0
    BY <1>2
  <2>2. \A d \in Desc : more'[d] = IF d \in ds THEN \E e \in ds : e > d ELSE more[d]
    BY <1>2, Zenon
  <2>3. Linked(next, more, ds, next', more')
    BY <2>1, <2>2, Zenon DEF Linked
  <2> HIDE DEF ds
  <2> QED
    BY <1>1, <1>3, <1>4, <2>3, StrandsSent
<1> HIDE DEF ds, head
<1>7. /\ Gap(lastAvail, availIdx) \in Nat /\ Gap(lastAvail, availIdx) < QueueSize
      /\ Cardinality(owned) \in Nat
  <2>1. \E d \in Desc : next[d] = Free
    BY <1>3
  <2>2. Cardinality(Heads) < QueueSize
    BY <1>1, <2>1, StrandsFew
  <2>3. Cardinality(Heads)
          = Gap(lastAvail, availIdx) + Cardinality(owned) + Gap(usedCtr, usedIdx)
              + Turns(polls, 1) + Turns(polls, 2)
    BY <1>1, HeadsCounted
  <2>4. /\ Gap(lastAvail, availIdx) \in Nat /\ Gap(usedCtr, usedIdx) \in Nat
        /\ Cardinality(owned) \in Nat
    BY <1>1, TypesOfRings, GapRange
  <2>5. Turns(polls, 1) \in Nat /\ Turns(polls, 2) \in Nat
    BY <1>1, TurnsTypes
  <2> QED
    BY <2>2, <2>3, <2>4, <2>5, SizesArePositive
<1>8. /\ Held(availRing', lastAvail, availIdx') = WaitingHeads \union {head}
      /\ Once(availRing', lastAvail, availIdx')
  <2>1. Once(availRing, lastAvail, availIdx) /\ head \notin Held(availRing, lastAvail, availIdx)
    BY <1>1, <1>6 DEF HeadsOnce, Heads, WaitingHeads
  <2>2. /\ availRing \in [Desc -> Desc] /\ lastAvail \in Index /\ availIdx \in Index
    BY <1>1, TypesOfRings
  <2>3. /\ Held([availRing EXCEPT ![availIdx % QueueSize] = head], lastAvail, Successor(availIdx))
             = Held(availRing, lastAvail, availIdx) \union {head}
        /\ Once([availRing EXCEPT ![availIdx % QueueSize] = head], lastAvail, Successor(availIdx))
    BY <1>5, <1>7, <2>1, <2>2, HeldGrows
  <2> QED
    BY <1>2, <2>3 DEF WaitingHeads
<1>9. WaitingHeads' = WaitingHeads \union {head}
  BY <1>2, <1>8 DEF WaitingHeads
<1>10. UnclaimedHeads' = UnclaimedHeads
  BY <1>2 DEF UnclaimedHeads
<1>11. \/ polls = <<>> /\ polls' = polls
       \/ /\ Len(polls) = 1 /\ Len(polls') = 1 /\ polls # <<>> /\ polls' # <<>>
          /\ polls'[1].from = polls[1].from /\ polls'[1].to = polls[1].to
          /\ polls'[1].sends = polls[1].sends - 1
  BY <1>1, <1>2, CountedIs
<1>12. Outer' = Outer /\ Inner' = Inner
  <2>1. CASE polls = <<>> /\ polls' = polls
    BY <1>2, <2>1 DEF Outer, Inner
  <2>2. CASE /\ Len(polls) = 1 /\ Len(polls') = 1
             /\ polls'[1].from = polls[1].from /\ polls'[1].to = polls[1].to
    BY <1>2, <2>2 DEF Outer, Inner, Claim
  <2> QED
    BY <1>11, <2>1, <2>2
<1>13. Heads' = Heads \union {head}
  BY <1>2, <1>9, <1>10, <1>12 DEF Heads
<1>14. HeadsApart'
  BY <1>1, <1>2, <1>6, <1>9, <1>10, <1>12 DEF HeadsApart, Apart, Heads
<1>15. HeadsOnce'
  <2>1. ASSUME NEW n \in 1 .. Len(polls')
        PROVE  Once(usedRing, polls'[n].from, polls'[n].to)
    <3>1. CASE polls = <<>> /\ polls' = polls
      BY <3>1
    <3>2. CASE /\ Len(polls) = 1 /\ Len(polls') = 1
               /\ polls'[1].from = polls[1].from /\ polls'[1].to = polls[1].to
      <4>1. n = 1 /\ 1 \in 1 .. Len(polls)
        BY <3>2
      <4> QED
        BY <1>1, <3>2, <4>1 DEF HeadsOnce
    <3> QED
      BY <1>11, <3>1, <3>2
  <2> QED
    BY <1>1, <1>2, <1>8, <2>1 DEF HeadsOnce
<1>16. Nesting'
  <2>1. CASE polls = <<>> /\ polls' = polls
    <3>1. Len(polls') = 0
      BY <2>1
    <3> QED
      BY <1>2, <2>1, <3>1 DEF Nesting
  <2>2. CASE /\ Len(polls) = 1 /\ Len(polls') = 1 /\ polls # <<>>
             /\ polls'[1].from = polls[1].from /\ polls'[1].to = polls[1].to
    <3>1. bottomHalf' \notin {"rearmed", "armed"}
      BY <1>1, <1>2, <2>2 DEF Nesting
    <3>2. ~NestsPolls => polls'[1].to = usedCtr'
      BY <1>1, <1>2, <2>2 DEF Nesting
    <3>3. Len(polls') <= 2 /\ Len(polls') # 2
      BY <2>2
    <3> QED
      BY <3>1, <3>2, <3>3 DEF Nesting
  <2> QED
    BY <1>11, <2>1, <2>2
<1>17. Room'
  <2>1. CASE polls = <<>> /\ polls' = polls
    BY <2>1 DEF Room
  <2>2. CASE /\ Len(polls) = 1 /\ Len(polls') = 1 /\ polls # <<>> /\ polls' # <<>>
             /\ polls'[1].from = polls[1].from /\ polls'[1].to = polls[1].to
             /\ polls'[1].sends = polls[1].sends - 1
    <3>1. ASSUME NEW n \in 1 .. Len(polls')
          PROVE  Gap(polls'[n].from, polls'[n].to) <= Gap(polls'[n].from, usedIdx)
      <4>1. n = 1 /\ 1 \in 1 .. Len(polls)
        BY <2>2
      <4> QED
        BY <1>1, <2>2, <4>1 DEF Room
    <3>2. ASSUME NestsPolls
          PROVE  Gap(polls'[1].from, usedIdx) + Cardinality(owned) + Gap(lastAvail, availIdx')
                   + Gap(polls'[1].from, polls'[1].to) + polls'[1].sends <= QueueSize
      <4>1. Gap(polls[1].from, usedIdx) + Cardinality(owned) + Gap(lastAvail, availIdx)
              + Gap(polls[1].from, polls[1].to) + polls[1].sends <= QueueSize
        BY <1>1, <2>2, <3>2 DEF Room
      <4>2. /\ Gap(polls[1].from, usedIdx) \in Nat /\ Gap(polls[1].from, polls[1].to) \in Nat
            /\ polls[1].sends \in Nat
        BY <1>1, <2>2, OuterTypes
      <4>3. Gap(lastAvail, availIdx') = Gap(lastAvail, availIdx) + 1
        <5>1. lastAvail \in Index /\ availIdx \in Index
          BY <1>1, TypesOfRings
        <5>2. Gap(lastAvail, availIdx) < IndexMod - 1
          BY <1>7, QueueAssumption DEF QueueAssumption
        <5> QED
          BY <1>2, <5>1, <5>2, GapGrows
      <4>4. Gap(polls[1].from, usedIdx) + Cardinality(owned) + Gap(lastAvail, availIdx')
              + Gap(polls[1].from, polls[1].to) + (polls[1].sends - 1) <= QueueSize
        BY <1>7, <4>1, <4>2, <4>3, SizesArePositive
      <4> QED
        BY <2>2, <4>4
    <3> QED
      BY <1>2, <3>1, <3>2 DEF Room
  <2> QED
    BY <1>11, <2>1, <2>2
<1>18. Strands(next, more, Heads)'
  BY <1>6, <1>13
<1>19. AccountInv'
  BY <1>14, <1>15, <1>16, <1>17, <1>18 DEF AccountInv
<1> QED
  BY <1>2, <1>5, <1>6, <1>9, <1>10, <1>12, <1>19

LEMMA AccountInit == Init => AccountInv /\ Heads = {}
<1> SUFFICES ASSUME Init PROVE AccountInv /\ Heads = {}
  OBVIOUS
<1>1. TypeOK
  BY TypesInit
<1>2. /\ next = [d \in Desc |-> Free] /\ polls = <<>> /\ owned = {}
      /\ availIdx = 0 /\ lastAvail = 0 /\ usedIdx = 0 /\ usedCtr = 0
      /\ bottomHalf = "idle"
  BY DEF Init, QInit
<1>3. 0 \in Index /\ Len(polls) = 0
  BY <1>1, <1>2, TypesOfRings
<1>4. /\ WaitingHeads = {} /\ UnclaimedHeads = {}
      /\ Once(availRing, lastAvail, availIdx) /\ Once(usedRing, usedCtr, usedIdx)
  BY <1>2, <1>3, HeldNone DEF WaitingHeads, UnclaimedHeads
<1>5. Outer = {} /\ Inner = {}
  BY <1>3 DEF Outer, Inner, Claim
<1>6. Heads = {}
  BY <1>2, <1>4, <1>5 DEF Heads
<1>7. HeadsApart
  BY <1>2, <1>4, <1>5 DEF HeadsApart, Apart
<1>8. HeadsOnce
  BY <1>3, <1>4 DEF HeadsOnce
<1>9. Nesting
  BY <1>2, <1>3 DEF Nesting
<1>10. Room
  BY <1>2, <1>3 DEF Room
<1>11. Strands(next, more, Heads)
  <2>1. \A d \in Desc : next[d] = Free
    BY <1>2
  <2> QED
    BY <1>6, <2>1 DEF Strands
<1> QED
  BY <1>1, <1>6, <1>7, <1>8, <1>9, <1>10, <1>11 DEF AccountInv

(* Where the driver may poll: its main line, or the one DNotified call of   *)
(* an outer activation.                                                     *)
LEMMA PollAccount ==
  ASSUME AccountInv, TypeOK', QPoll
  PROVE  /\ AccountInv' /\ UNCHANGED <<Heads, WaitingHeads, owned, tag, lastTag>>
         /\ (UnclaimedHeads \union Outer \union Inner)'
              = UnclaimedHeads \union Outer \union Inner
<1>1. TypeOK /\ Nesting
  BY DEF AccountInv
<1> DEFINE polled == [n \in 1 .. Len(polls) |-> [polls[n] EXCEPT !.callback = "polled"]]
<1>2. /\ DriverRuns /\ MayPoll /\ usedCtr' = usedIdx
      /\ polls' = polled \o <<NewPoll>>
      /\ UNCHANGED <<next, more, availRing, availIdx, usedRing, usedIdx, lastAvail,
                     owned, bottomHalf, tag, lastTag>>
  BY DEF QPoll, PositionClaimed, ringVars, deviceVars, transportVars
<1>3. CASE polls = <<>>
  <2>1. polled = <<>>
    BY <1>3
  <2>2. polls' = <<NewPoll>>
    <3> HIDE DEF polled
    <3> QED
      BY <1>2, <2>1
  <2>3. bottomHalf' \notin {"rearmed", "armed"}
    BY <1>2, <1>3 DEF DriverRuns
  <2> HIDE DEF polled
  <2> QED
    BY <1>2, <1>3, <2>2, <2>3, ClaimAccount
<1>4. CASE polls # <<>>
  <2>1. NestsPolls /\ polls[Len(polls)].callback = "poll"
    BY <1>2, <1>4 DEF MayPoll, Innermost
  <2>2. Len(polls) = 1
    <3> DEFINE k == Len(polls)
    <3>1. k \in 0 .. 2 /\ k # 0
      BY <1>1, <1>4, TypesOfRings, FewPolls
    <3>2. k # 2
      BY <1>1, <2>1 DEF Nesting
    <3> HIDE DEF k
    <3>3. k = 1
      BY <3>1, <3>2
    <3> QED
      BY <3>3 DEF k
  <2>3. polled = <<[polls[1] EXCEPT !.callback = "polled"]>>
    BY <2>2
  <2>4. Len(polls') = 2 /\ polls'[1] = [polls[1] EXCEPT !.callback = "polled"]
        /\ polls'[2] = NewPoll
    <3> DEFINE p == [polls[1] EXCEPT !.callback = "polled"]
    <3>1. polls' = <<p>> \o <<NewPoll>>
      BY <1>2, <2>3
    <3> HIDE DEF p, polled
    <3>2. Len(polls') = 2 /\ polls'[1] = p /\ polls'[2] = NewPoll
      BY <3>1
    <3> QED
      BY <3>2 DEF p
  <2> HIDE DEF polled
  <2> QED
    BY <1>2, <2>1, <2>2, <2>4, NestedClaimAccount
<1> QED
  BY <1>3, <1>4

(* A poll of QNotified begins with none under way.                          *)
LEMMA BeginAccount ==
  ASSUME AccountInv, TypeOK', QNotified \/ QPollAgain
  PROVE  /\ AccountInv' /\ UNCHANGED <<Heads, WaitingHeads, owned, tag, lastTag>>
         /\ (UnclaimedHeads \union Outer \union Inner)'
              = UnclaimedHeads \union Outer \union Inner
<1>1. polls = <<>>
  BY DEF AccountInv, Nesting, QNotified, QPollAgain
<1>2. /\ polls' = <<NewPoll>> /\ usedCtr' = usedIdx
      /\ UNCHANGED <<next, more, availRing, availIdx, usedRing, usedIdx, lastAvail,
                     owned, tag, lastTag>>
      /\ bottomHalf' \notin {"rearmed", "armed"}
  BY DEF QNotified, QPollAgain, PollBegin, PositionClaimed, ringVars, deviceVars
<1> QED
  BY <1>1, <1>2, ClaimAccount

(* The steps that move no head.                                             *)
StillStep ==
  \/ \E k \in ChainLengths : QSendPanic(k)
  \/ QNotify \/ QInterest(1) \/ QInterest(-1)
  \/ VRearm \/ QRestoreFlags \/ QNotifiedReturn
  \/ TopHalfRead \/ TopHalfDisarm
  \/ DeviceWake \/ DeviceDrowse \/ DeviceRecheck \/ DeviceSignal
  \/ UNCHANGED vars

LEMMA StillAccount ==
  ASSUME AccountInv, TypeOK', StillStep
  PROVE  /\ AccountInv' /\ UNCHANGED <<Heads, WaitingHeads, UnclaimedHeads, Outer, Inner>>
         /\ UNCHANGED <<owned, tag, lastTag>>
<1>1. /\ UNCHANGED <<next, more, availRing, availIdx, usedRing, usedIdx, usedCtr,
                     lastAvail, owned, polls>>
      /\ UNCHANGED <<tag, lastTag>>
  BY DEF StillStep, QSendPanic, QNotify, QInterest, VRearm, QRestoreFlags,
         QNotifiedReturn, TopHalfRead, TopHalfDisarm, DeviceWake, DeviceDrowse,
         DeviceRecheck, DeviceSignal, vars, ringVars, deviceVars, transportVars,
         driverVars
<1>2. bottomHalf' \in {"rearmed", "armed"} =>
        bottomHalf \in {"rearmed", "armed"} \/ polls = <<>>
  BY DEF StillStep, QSendPanic, QNotify, QInterest, VRearm, QRestoreFlags,
         QNotifiedReturn, TopHalfRead, TopHalfDisarm, DeviceWake, DeviceDrowse,
         DeviceRecheck, DeviceSignal, vars, ringVars, deviceVars, transportVars,
         driverVars
<1>3. bottomHalf' \in {"rearmed", "armed"} => polls = <<>>
  BY <1>2 DEF AccountInv, Nesting
<1> QED
  BY <1>1, <1>3, AccountStutters

LEMMA StepSplit ==
  [Next]_vars =>
    \/ \E k \in ChainLengths, t \in Tags : QSend(k, t)
    \/ QPoll \/ QNotified \/ QPollAgain
    \/ PollEntry \/ PollReturn \/ DeviceFetch
    \/ \E h \in Desc : DeviceReturn(h)
    \/ StillStep
BY Zenon DEF Next, Driver, Software, Device, StillStep

LEMMA AccountStep == AccountInv /\ [Next]_vars => AccountInv'
<1> SUFFICES ASSUME AccountInv, [Next]_vars PROVE AccountInv'
  OBVIOUS
<1>1. TypeOK'
  BY TypesStep DEF AccountInv
<1>2. ASSUME NEW k \in ChainLengths, NEW t \in Tags, QSend(k, t) PROVE AccountInv'
  BY <1>1, <1>2, SendAccount
<1>3. CASE QPoll
  BY <1>1, <1>3, PollAccount
<1>4. CASE QNotified \/ QPollAgain
  BY <1>1, <1>4, BeginAccount
<1>5. CASE PollEntry
  BY <1>1, <1>5, PollEntryAccount
<1>6. CASE PollReturn
  BY <1>1, <1>6, PollReturnAccount
<1>7. CASE DeviceFetch
  BY <1>1, <1>7, FetchAccount
<1>8. ASSUME NEW h \in Desc, DeviceReturn(h) PROVE AccountInv'
  BY <1>1, <1>8, ReturnAccount
<1>9. CASE StillStep
  BY <1>1, <1>9, StillAccount
<1> QED
  BY <1>2, <1>3, <1>4, <1>5, <1>6, <1>7, <1>8, <1>9, StepSplit, Zenon

(* The account of the queue.  Every descriptor is free or in the chain of   *)
(* one head that the rings, the device or a poll hold, and every entry of a *)
(* ring is there once: QSend, QPoll and QNotified of virtqueue.c neither    *)
(* leak, share nor free twice, and no used entry is overwritten unread.     *)
THEOREM DescriptorsKept == Spec => []DescriptorsAccounted
<1>1. AccountInv => DescriptorsAccounted
  BY AccountGiven
<1>2. Init => AccountInv
  BY AccountInit
<1>3. AccountInv /\ [Next]_vars => AccountInv'
  BY AccountStep
<1> QED
  BY <1>1, <1>2, <1>3, PTL DEF Spec

-----------------------------------------------------------------------------
(* The rings implement the ledger of buffers.                               *)
OutHeads == WaitingHeads \union owned
BackHeads == UnclaimedHeads \union Outer \union Inner

Marked(out, back) ==
  [h \in Desc |-> IF h \in out THEN "lent" ELSE IF h \in back THEN "finished" ELSE "idle"]

BuffersMarked == Buffers = Marked(OutHeads, BackHeads)

LEMMA BuffersAre == AccountInv => BuffersMarked
<1> SUFFICES ASSUME AccountInv PROVE BuffersMarked
  OBVIOUS
<1>1. Lent = OutHeads /\ Finished = BackHeads
  BY HeadsAre DEF AccountInv, OutHeads, BackHeads
<1> QED
  BY <1>1 DEF Buffers, BuffersMarked, Marked

LEMMA MarkedLent ==
  ASSUME NEW out, NEW back, NEW h \in Desc, h \notin out, h \notin back
  PROVE  /\ Marked(out, back)[h] = "idle"
         /\ Marked(out \union {h}, back) = [Marked(out, back) EXCEPT ![h] = "lent"]
BY DEF Marked

LEMMA MarkedFinished ==
  ASSUME NEW out, NEW back, NEW h \in Desc, h \in out
  PROVE  /\ Marked(out, back)[h] = "lent"
         /\ Marked(out \ {h}, back \union {h})
              = [Marked(out, back) EXCEPT ![h] = "finished"]
BY DEF Marked

LEMMA MarkedGiven ==
  ASSUME NEW out, NEW back, NEW h \in Desc, h \notin out, h \in back
  PROVE  /\ Marked(out, back)[h] = "finished"
         /\ Marked(out, back \ {h}) = [Marked(out, back) EXCEPT ![h] = "idle"]
BY DEF Marked

LEMMA LedgerStep ==
  ASSUME AccountInv, TypeOK', BuffersMarked, BuffersMarked', [Next]_vars
  PROVE  [Ledger!LedgerNext]_(Ledger!ledgerVars)
<1>1. /\ Buffers = Marked(OutHeads, BackHeads)
      /\ Buffers' = Marked(OutHeads', BackHeads')
  BY DEF BuffersMarked
<1>2. OutHeads \intersect BackHeads = {} /\ Heads = OutHeads \union BackHeads
  BY DEF AccountInv, HeadsApart, Apart, OutHeads, BackHeads, Heads
<1>3. ASSUME OutHeads' = OutHeads, BackHeads' = BackHeads, tag' = tag, lastTag' = lastTag
      PROVE  UNCHANGED Ledger!ledgerVars
  BY <1>1, <1>3 DEF Ledger!ledgerVars
<1>4. ASSUME NEW k \in ChainLengths, NEW t \in Tags, QSend(k, t)
      PROVE  Ledger!LedgerNext
  <2>1. PICK head \in Desc :
          /\ head \notin Heads /\ tag' = [tag EXCEPT ![head] = t]
          /\ WaitingHeads' = WaitingHeads \union {head}
    BY <1>4, SendAccount
  <2>2. UNCHANGED <<owned, UnclaimedHeads, Outer, Inner, lastTag>>
    BY <1>4, SendAccount
  <2>3. OutHeads' = OutHeads \union {head} /\ BackHeads' = BackHeads
    BY <2>1, <2>2 DEF OutHeads, BackHeads
  <2>4. /\ Buffers[head] = "idle"
        /\ Buffers' = [Buffers EXCEPT ![head] = "lent"]
    <3>1. head \notin OutHeads /\ head \notin BackHeads
      BY <1>2, <2>1
    <3>2. /\ Marked(OutHeads, BackHeads)[head] = "idle"
          /\ Marked(OutHeads \union {head}, BackHeads)
               = [Marked(OutHeads, BackHeads) EXCEPT ![head] = "lent"]
      BY <3>1, MarkedLent
    <3>3. Buffers' = Marked(OutHeads \union {head}, BackHeads)
      BY <1>1, <2>3
    <3> QED
      BY <1>1, <3>2, <3>3
  <2>5. Ledger!Lend(head, t)
    BY <2>1, <2>2, <2>4 DEF Ledger!Lend
  <2> QED
    BY <2>5 DEF Ledger!LedgerNext
<1>5. ASSUME NEW h \in Desc, DeviceReturn(h) PROVE Ledger!LedgerNext
  <2>1. /\ h \in owned /\ owned' = owned \ {h}
        /\ UnclaimedHeads' = UnclaimedHeads \union {h}
        /\ UNCHANGED <<Heads, WaitingHeads, Outer, Inner>>
    BY <1>5, ReturnAccount
  <2>2. h \notin WaitingHeads
    BY <2>1 DEF AccountInv, HeadsApart, Apart
  <2>3. OutHeads' = OutHeads \ {h} /\ BackHeads' = BackHeads \union {h} /\ h \in OutHeads
    BY <2>1, <2>2 DEF OutHeads, BackHeads
  <2>4. /\ Buffers[h] = "lent"
        /\ Buffers' = [Buffers EXCEPT ![h] = "finished"]
    <3>1. /\ Marked(OutHeads, BackHeads)[h] = "lent"
          /\ Marked(OutHeads \ {h}, BackHeads \union {h})
               = [Marked(OutHeads, BackHeads) EXCEPT ![h] = "finished"]
      BY <2>3, MarkedFinished
    <3>2. Buffers' = Marked(OutHeads \ {h}, BackHeads \union {h})
      BY <1>1, <2>3
    <3> QED
      BY <1>1, <3>1, <3>2
  <2>5. tag' = tag /\ lastTag' = lastTag
    BY <1>5 DEF DeviceReturn, driverVars
  <2>6. Ledger!Finish(h)
    BY <2>4, <2>5 DEF Ledger!Finish
  <2> QED
    BY <2>6 DEF Ledger!LedgerNext
<1>6. ASSUME PollEntry PROVE Ledger!LedgerNext
  <2>1. PICK first \in Desc :
          /\ first \in BackHeads
          /\ lastTag' = tag[first] /\ tag' = tag
          /\ BackHeads' = BackHeads \ {first}
    BY <1>6, PollEntryAccount DEF BackHeads
  <2>2. OutHeads' = OutHeads
    BY <1>6, PollEntryAccount DEF OutHeads
  <2>3. first \notin OutHeads
    BY <1>2, <2>1
  <2>4. /\ Buffers[first] = "finished"
        /\ Buffers' = [Buffers EXCEPT ![first] = "idle"]
    BY <1>1, <2>1, <2>2, <2>3, MarkedGiven
  <2>5. Ledger!GiveBack(first)
    BY <2>1, <2>4 DEF Ledger!GiveBack
  <2> QED
    BY <2>5 DEF Ledger!LedgerNext
<1>7. ASSUME QPoll \/ QNotified \/ QPollAgain PROVE UNCHANGED Ledger!ledgerVars
  <2>1. /\ UNCHANGED <<Heads, WaitingHeads, owned, tag, lastTag>>
        /\ (UnclaimedHeads \union Outer \union Inner)'
              = UnclaimedHeads \union Outer \union Inner
    BY <1>7, PollAccount, BeginAccount
  <2>2. OutHeads' = OutHeads /\ BackHeads' = BackHeads
    BY <2>1 DEF OutHeads, BackHeads
  <2> QED
    BY <1>3, <2>1, <2>2
<1>8. ASSUME PollReturn PROVE UNCHANGED Ledger!ledgerVars
  <2>1. UNCHANGED <<Heads, WaitingHeads, owned, UnclaimedHeads, Outer, Inner>>
    BY <1>8, PollReturnAccount
  <2>2. UNCHANGED <<tag, lastTag>>
    BY <1>8 DEF PollReturn
  <2>3. OutHeads' = OutHeads /\ BackHeads' = BackHeads
    BY <2>1 DEF OutHeads, BackHeads
  <2> QED
    BY <1>3, <2>2, <2>3
<1>9. ASSUME DeviceFetch PROVE UNCHANGED Ledger!ledgerVars
  <2>1. /\ WaitingHeads' \union owned' = WaitingHeads \union owned
        /\ UNCHANGED <<Heads, UnclaimedHeads, Outer, Inner>>
    BY <1>9, FetchAccount
  <2>2. UNCHANGED <<tag, lastTag>>
    BY <1>9 DEF DeviceFetch, driverVars
  <2>3. OutHeads' = OutHeads /\ BackHeads' = BackHeads
    BY <2>1 DEF OutHeads, BackHeads
  <2> QED
    BY <1>3, <2>2, <2>3
<1>10. ASSUME StillStep PROVE UNCHANGED Ledger!ledgerVars
  <2>1. /\ UNCHANGED <<Heads, WaitingHeads, UnclaimedHeads, Outer, Inner>>
        /\ UNCHANGED <<owned, tag, lastTag>>
    BY <1>10, StillAccount
  <2>2. OutHeads' = OutHeads /\ BackHeads' = BackHeads
    BY <2>1 DEF OutHeads, BackHeads
  <2> QED
    BY <1>3, <2>1, <2>2
<1> QED
  BY <1>4, <1>5, <1>6, <1>7, <1>8, <1>9, <1>10, StepSplit, Zenon

LEMMA LedgerInitial == Init => Ledger!LedgerInit
<1> SUFFICES ASSUME Init PROVE Ledger!LedgerInit
  OBVIOUS
<1>1. AccountInv /\ Heads = {}
  BY AccountInit
<1>2. BuffersMarked /\ OutHeads = {} /\ BackHeads = {}
  BY <1>1, BuffersAre DEF Heads, OutHeads, BackHeads
<1>3. Buffers = [s \in Desc |-> "idle"]
  BY <1>2 DEF BuffersMarked, Marked
<1>4. tag \in [Desc -> Tags] /\ lastTag \in Tags
  BY <1>1 DEF AccountInv, TypeOK
<1> QED
  BY <1>3, <1>4 DEF Ledger!LedgerInit

(* What device.h promises a driver: a buffer that QSend lends comes back    *)
(* through DNotified once, after the device returned it, under its own tag, *)
(* however sends, returns, nested polls and interrupts interleave.          *)
THEOREM LedgerImplemented == Spec => LedgerKept
<1>1. Init => AccountInv
  BY AccountInit
<1>2. AccountInv /\ [Next]_vars => AccountInv'
  BY AccountStep
<1>3. AccountInv => TypeOK /\ BuffersMarked
  BY BuffersAre DEF AccountInv
<1>4. Init => Ledger!LedgerInit
  BY LedgerInitial
<1>5. AccountInv /\ TypeOK' /\ BuffersMarked /\ BuffersMarked' /\ [Next]_vars
        => [Ledger!LedgerNext]_(Ledger!ledgerVars)
  BY LedgerStep
<1> QED
  BY <1>1, <1>2, <1>3, <1>4, <1>5, PTL DEF Spec, LedgerKept, Ledger!LedgerSpec
=============================================================================
