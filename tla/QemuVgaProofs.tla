---------------------------- MODULE QemuVgaProofs ---------------------------
(***************************************************************************)
(* Theorems about QemuVga for every EDID, size of the adapter's memory,    *)
(* mode left by the firmware and bound on timers and openings.             *)
(***************************************************************************)
EXTENDS QemuVga, SequenceTheorems, WellFoundedInduction, TLAPS

(* Reading aid: where a Device Manager call may be, and the two facts that  *)
(* closing rests on.  From the flag's clearing to the end of closing        *)
(* interrupts are off; the reference outlives the service only in "forget". *)
CallTypes ==
  /\ isOpen \in BOOLEAN /\ qdInterruptsEnable \in BOOLEAN /\ hasTimer \in BOOLEAN
  /\ timerWorks \in BOOLEAN /\ misused \in BOOLEAN
  /\ service \in [ref : BOOLEAN, live : BOOLEAN]
  /\ task \in {"idle", "service", "cancel", "dispose", "forget", "gone"}

QuietWhileClosing == task \in {"cancel", "dispose", "forget"} => ~qdInterruptsEnable

LiveUntilForgotten == service.ref /\ task # "forget" => service.live

ChainWhileEnabled == qdInterruptsEnable /\ hasTimer => timers # {}

VblInv ==
  CallTypes /\ QuietWhileClosing /\ LiveUntilForgotten /\ ChainWhileEnabled /\ ServiceLive

LEMMA VblInit == Init => VblInv
<1> SUFFICES ASSUME Init PROVE VblInv
  OBVIOUS
<1>1. /\ isOpen = FALSE /\ qdInterruptsEnable = FALSE /\ hasTimer = FALSE
      /\ timerWorks \in BOOLEAN /\ misused = FALSE /\ task = "idle"
      /\ service = [ref |-> FALSE, live |-> FALSE]
  BY Zenon DEF Init, DriverInitializeCmd
<1> QED
  BY <1>1 DEF VblInv, CallTypes, QuietWhileClosing, LiveUntilForgotten,
              ChainWhileEnabled, ServiceLive

LEMMA VblStep == VblInv /\ [Next]_vars => VblInv'
<1> SUFFICES ASSUME VblInv, [Next]_vars PROVE VblInv'
  OBVIOUS
<1> USE DEF VblInv, CallTypes, QuietWhileClosing, LiveUntilForgotten, ChainWhileEnabled,
            ServiceLive, openVars, timerVars
<1>1. CASE SetMode \/ SwitchMode \/ SetSync
  BY <1>1 DEF SetMode, SwitchMode, SetSync
<1>2. CASE VBLTimerProc
  BY <1>2 DEF VBLTimerProc, ScheduleVBLTimer
<1>3. CASE DriverOpenCmd
  BY <1>3 DEF DriverOpenCmd, QemuVga_Open, TimerEnabled, ScheduleVBLTimer
<1>4. CASE NewInterruptService
  BY <1>4 DEF NewInterruptService
<1>5. CASE EnableInterrupts
  BY <1>5 DEF EnableInterrupts, TimerEnabled, ScheduleVBLTimer, Called
<1>6. CASE DisableInterrupts
  BY <1>6 DEF DisableInterrupts, Disabling, Called
<1>7. CASE DriverCloseCmd
  BY <1>7 DEF DriverCloseCmd, QemuVga_Close, Disabling
<1>8. CASE DriverSupersededCmd
  BY <1>8 DEF DriverSupersededCmd, QemuVga_Close, Disabling
<1>9. CASE CancelTimer
  BY <1>9 DEF CancelTimer, Returned
<1>10. CASE DisposeInterruptService
  BY <1>10 DEF DisposeInterruptService
<1>11. CASE ForgetInterruptService
  BY <1>11 DEF ForgetInterruptService, Returned
<1>12. CASE UNCHANGED vars
  BY <1>12 DEF vars
<1> QED
  BY <1>1, <1>2, <1>3, <1>4, <1>5, <1>6, <1>7, <1>8, <1>9, <1>10, <1>11, <1>12 DEF Next

(* Wherever in closing the timer expires, and whichever chain of timers     *)
(* outlives the closing, the service is not called after its disposal       *)
(* (QemuVga_Close clears the flag first), and while interrupts are on one   *)
(* timer is pending (QemuVga_EnableInterrupts, VBLTimerProc).               *)
THEOREM VblAlwaysServed == Spec => []VblServed
<1>1. Init => VblInv
  BY VblInit
<1>2. VblInv /\ [Next]_vars => VblInv'
  BY VblStep
<1>3. VblInv => VblServed
  BY DEF VblInv, ChainWhileEnabled, VblServed, VblGoesOn
<1> QED
  BY <1>1, <1>2, <1>3, PTL DEF Spec

-----------------------------------------------------------------------------
(* Blanking *)

Attribute == [index : BOOLEAN, on : BOOLEAN, selected : BOOLEAN, written : BOOLEAN]

(* Two writes of the index leave the flip-flop where it was.                *)
LEMMA WrittenTwice ==
  ASSUME NEW a \in Attribute, NEW on \in BOOLEAN
  PROVE  LET b == WriteIndex(WriteIndex(a, on), on)
         IN  /\ b \in Attribute /\ b.on = on /\ b.index = a.index
             /\ a.index => b.written = a.written
<1>1. CASE a.index
  <2>1. WriteIndex(a, on) = [index |-> FALSE, on |-> on, selected |-> FALSE, written |-> a.written]
    BY <1>1 DEF WriteIndex, Attribute
  <2>2. WriteIndex(WriteIndex(a, on), on) =
          [index |-> TRUE, on |-> on, selected |-> FALSE, written |-> a.written]
    BY <2>1 DEF WriteIndex, Attribute
  <2> QED
    BY <1>1, <2>2 DEF Attribute
<1>2. CASE ~a.index
  <2>0. a.index = FALSE /\ a.written \in BOOLEAN /\ a.selected \in BOOLEAN
    BY <1>2 DEF Attribute
  <2>1. WriteIndex(a, on) = [index |-> TRUE, on |-> a.on, selected |-> a.selected,
                             written |-> a.written \/ a.selected]
    BY <1>2 DEF WriteIndex, Attribute
  <2>2. WriteIndex(WriteIndex(a, on), on) =
          [index |-> FALSE, on |-> on, selected |-> FALSE, written |-> a.written \/ a.selected]
    BY <2>1 DEF WriteIndex, Attribute
  <2>3. (a.written \/ a.selected) \in BOOLEAN
    BY Zenon
  <2>4. WriteIndex(WriteIndex(a, on), on) \in Attribute
    BY <2>2, <2>3, FALSE \in BOOLEAN, SMT DEF Attribute
  <2>5. /\ WriteIndex(WriteIndex(a, on), on).on = on
        /\ WriteIndex(WriteIndex(a, on), on).index = FALSE
    BY <2>2
  <2> QED
    BY <2>0, <2>4, <2>5
<1> QED
  BY <1>1, <1>2

AttributeOK == attribute \in Attribute

LEMMA AttributeInit == Init => AttributeOK
<1> SUFFICES ASSUME Init PROVE attribute \in Attribute
  BY DEF AttributeOK
<1>1. attribute \in [index : BOOLEAN, on : {TRUE}, selected : {TRUE}, written : {FALSE}]
  BY Zenon DEF Init
<1> QED
  BY <1>1 DEF Attribute

LEMMA AttributeStep == AttributeOK /\ [Next]_vars => AttributeOK'
<1> SUFFICES ASSUME attribute \in Attribute, [Next]_vars PROVE attribute' \in Attribute
  BY DEF AttributeOK
<1>1. ASSUME SetSync PROVE attribute' \in Attribute
  <2>1. PICK blank \in BOOLEAN : QemuVga_Blank(blank)
    BY <1>1 DEF SetSync
  <2>2. attribute' = WriteIndex(WriteIndex(attribute, ~blank), ~blank)
    BY <2>1 DEF QemuVga_Blank
  <2> QED
    BY <2>2, WrittenTwice
<1>2. ASSUME UNCHANGED blankVars PROVE attribute' \in Attribute
  BY <1>2 DEF blankVars
<1>3. Next /\ ~SetSync => UNCHANGED blankVars
  BY DEF Next, SetMode, SwitchMode, VBLTimerProc, DriverOpenCmd, NewInterruptService,
         EnableInterrupts, DisableInterrupts, DriverCloseCmd, DriverSupersededCmd,
         CancelTimer, DisposeInterruptService, ForgetInterruptService
<1> QED
  BY <1>1, <1>2, <1>3 DEF vars

(* GraphicsCoreSetSync does what it says, and its two writes to 0x3c0       *)
(* (QemuVga_Blank) leave the flip-flop as it was and no register changed,   *)
(* whichever way round the firmware left the attribute controller.          *)
THEOREM BlankingIsTrue == Spec => BlankTrue
<1> DEFINE Effect == SetSync => /\ attribute'.on = (GetSync' = "enabled")
                                /\ attribute'.index = attribute.index
                                /\ attribute.index => attribute'.written = attribute.written
<1>1. attribute \in Attribute => Effect
  <2> SUFFICES ASSUME attribute \in Attribute, SetSync PROVE Effect
    OBVIOUS
  <2>1. PICK blank \in BOOLEAN : QemuVga_Blank(blank)
    BY DEF SetSync
  <2>2. /\ attribute' = WriteIndex(WriteIndex(attribute, ~blank), ~blank)
        /\ blanked' = blank
    BY <2>1 DEF QemuVga_Blank
  <2>3. /\ attribute'.on = ~blank /\ attribute'.index = attribute.index
        /\ attribute.index => attribute'.written = attribute.written
    BY <2>2, WrittenTwice
  <2>4. (GetSync' = "enabled") = ~blank
    <3>1. CASE blank
      BY <2>2, <3>1 DEF GetSync
    <3>2. CASE ~blank
      BY <2>2, <3>2 DEF GetSync
    <3> QED
      BY <3>1, <3>2
  <2> QED
    BY <2>3, <2>4
<1>2. Init => AttributeOK
  BY AttributeInit
<1>3. AttributeOK /\ [Next]_vars => AttributeOK'
  BY AttributeStep
<1>4. AttributeOK /\ [Next]_vars => [Effect]_vars
  BY <1>1 DEF AttributeOK
<1> QED
  BY <1>2, <1>3, <1>4, PTL DEF Spec, BlankTrue

-----------------------------------------------------------------------------
(* The list of modes *)

Less == {pair \in Nat \X Nat : pair[1] < pair[2]}

(* What is shown of a recursion holds of the least number for which it did  *)
(* not, if there were one.                                                  *)
LEMMA LeastExists ==
  ASSUME NEW S \in SUBSET Nat, S # {}
  PROVE  \E x \in S : \A y \in S : x <= y
<1>1. IsWellFoundedOn(Less, Nat)
  BY NatLessThanWellFounded DEF OpToRel, Less
<1>2. PICK x \in S : \A y \in S : ~(<<y, x>> \in Less)
  BY <1>1, WFMin, Zenon
<1>3. \A y \in S : ~(y < x)
  BY <1>2 DEF Less
<1> QED
  BY <1>3

LEMMA BeforeIsAnOrder ==
  ASSUME NEW a \in Resolution, NEW b \in Resolution, NEW c \in Resolution
  PROVE  /\ ~Before(a, a)
         /\ Before(a, b) \/ Before(b, a) \/ a = b
         /\ Before(a, b) /\ Before(b, c) => Before(a, c)
BY DEF Before, Resolution

LEMMA Inserted ==
  ASSUME NEW list \in Seq(Resolution), NEW m \in Resolution, NEW at \in 1 .. Len(list) + 1
  PROVE  LET new == InsertAt(list, at, m)
         IN  /\ new \in Seq(Resolution) /\ Len(new) = Len(list) + 1
             /\ \A i \in 1 .. Len(list) + 1 :
                  new[i] = IF i < at THEN list[i] ELSE IF i = at THEN m ELSE list[i - 1]
<1> DEFINE front == SubSeq(list, 1, at - 1)
           back == SubSeq(list, at, Len(list))
<1>1. /\ front \in Seq(Resolution) /\ Len(front) = at - 1
      /\ \A i \in 1 .. at - 1 : front[i] = list[i]
  <2>1. \A i \in 1 .. at - 1 : list[i] \in Resolution
    OBVIOUS
  <2> QED
    BY <2>1, SubSeqProperties, Z3
<1>2. /\ back \in Seq(Resolution) /\ Len(back) = Len(list) + 1 - at
      /\ \A i \in 1 .. Len(list) + 1 - at : back[i] = list[at + i - 1]
  BY SubSeqProperties
<1>3. <<m>> \in Seq(Resolution) /\ Len(<<m>>) = 1 /\ <<m>>[1] = m
  OBVIOUS
<1> DEFINE upto == front \o <<m>>
<1> HIDE DEF front, back
<1>4. /\ upto \in Seq(Resolution) /\ Len(upto) = at
      /\ \A i \in 1 .. at : upto[i] = IF i < at THEN list[i] ELSE m
  BY <1>1, <1>3, ConcatProperties
<1> HIDE DEF upto
<1>5. /\ upto \o back \in Seq(Resolution) /\ Len(upto \o back) = Len(list) + 1
      /\ \A i \in 1 .. Len(list) + 1 :
           (upto \o back)[i] = IF i <= at THEN upto[i] ELSE back[i - at]
  <2>1. /\ upto \o back \in Seq(Resolution) /\ Len(upto \o back) = Len(upto) + Len(back)
        /\ \A i \in 1 .. Len(upto) + Len(back) :
             (upto \o back)[i] = IF i <= Len(upto) THEN upto[i] ELSE back[i - Len(upto)]
    BY <1>2, <1>4, ConcatProperties, Zenon
  <2>2. Len(upto) = at /\ Len(upto) + Len(back) = Len(list) + 1
    BY <1>2, <1>4
  <2> QED
    BY <2>1, <2>2, Zenon
<1>6. InsertAt(list, at, m) = upto \o back
  BY DEF InsertAt, upto, front, back
<1>7. \A i \in 1 .. Len(list) + 1 : i > at => back[i - at] = list[i - 1]
  BY <1>2
<1> QED
  BY <1>4, <1>5, <1>6, <1>7

Sorted(list) == \A i, j \in 1 .. Len(list) : i < j => Before(list[i], list[j])

Taken(list, m) == list = <<>> \/ ~TooLarge(m)

(* addVModeToList keeps the order and adds what is not too large.           *)
LEMMA AddedInOrder ==
  ASSUME NEW list \in Seq(Resolution), Sorted(list), NEW m \in Resolution
  PROVE  LET new == AddVModeToList(list, m)
         IN  /\ new \in Seq(Resolution) /\ Sorted(new) /\ new # <<>>
             /\ ToSet(new) = ToSet(list) \union (IF Taken(list, m) THEN {m} ELSE {})
<1> DEFINE places == {i \in 1 .. Len(list) + 1 : i > Len(list) \/ Before(m, list[i])}
           at == Min(places)
           new == InsertAt(list, at, m)
<1>1. CASE ~Taken(list, m) \/ m \in ToSet(list)
  <2>1. AddVModeToList(list, m) = list /\ list # <<>>
    BY <1>1 DEF AddVModeToList, Taken, ToSet
  <2> QED
    BY <1>1, <2>1
<1>2. CASE Taken(list, m) /\ m \notin ToSet(list)
  <2>1. AddVModeToList(list, m) = new
    BY <1>2 DEF AddVModeToList, Taken
  <2>2. at \in places /\ \A i \in places : at <= i
    <3>1. places \in SUBSET Nat /\ Len(list) + 1 \in places
      OBVIOUS
    <3>2. \E x \in places : \A y \in places : x <= y
      BY <3>1, LeastExists
    <3> QED
      BY <3>2 DEF Min
  <2> HIDE DEF at
  <2>3. at \in 1 .. Len(list) + 1
    BY <2>2
  <2>4. \A i \in 1 .. Len(list) : i < at => Before(list[i], m)
    <3> TAKE i \in 1 .. Len(list)
    <3>1. HAVE i < at
    <3>2. ~Before(m, list[i]) /\ list[i] # m /\ list[i] \in Resolution
      BY <3>1, <1>2, <2>2, <2>3 DEF ToSet
    <3> QED
      BY <3>2, BeforeIsAnOrder
  <2>5. \A i \in 1 .. Len(list) : i >= at => Before(m, list[i])
    <3> TAKE i \in 1 .. Len(list)
    <3>1. HAVE i >= at
    <3>2. at \in 1 .. Len(list) /\ Before(m, list[at]) /\ (i > at => Before(list[at], list[i]))
      BY <3>1, <2>2, <2>3 DEF Sorted
    <3> QED
      BY <3>1, <3>2, <2>3, BeforeIsAnOrder, i = at \/ i > at, list[at] \in Resolution,
         list[i] \in Resolution
  <2>6. /\ new \in Seq(Resolution) /\ Len(new) = Len(list) + 1
        /\ \A i \in 1 .. Len(list) + 1 :
             new[i] = IF i < at THEN list[i] ELSE IF i = at THEN m ELSE list[i - 1]
    BY <2>3, Inserted
  <2> HIDE DEF new
  <2>7. Sorted(new)
    <3> SUFFICES ASSUME NEW i \in 1 .. Len(list) + 1, NEW j \in 1 .. Len(list) + 1, i < j
                 PROVE  Before(new[i], new[j])
      BY <2>6 DEF Sorted
    <3>1. CASE j < at
      <4>1. /\ new[i] = list[i] /\ new[j] = list[j]
            /\ i \in 1 .. Len(list) /\ j \in 1 .. Len(list)
        BY <3>1, <2>3, <2>6
      <4> QED
        BY <4>1 DEF Sorted
    <3>2. CASE j = at
      BY <3>2, <2>3, <2>4, <2>6
    <3>3. CASE j > at /\ i = at
      BY <3>3, <2>3, <2>5, <2>6
    <3>4. CASE j > at /\ i < at
      <4>1. new[i] = list[i] /\ new[j] = list[j - 1] /\ j - 1 \in 1 .. Len(list) /\ i < j - 1
            /\ i \in 1 .. Len(list)
        BY <3>4, <2>3, <2>6
      <4> QED
        BY <4>1 DEF Sorted
    <3>5. CASE i > at
      <4>1. /\ new[i] = list[i - 1] /\ new[j] = list[j - 1] /\ i - 1 < j - 1
            /\ i - 1 \in 1 .. Len(list) /\ j - 1 \in 1 .. Len(list)
        BY <3>5, <2>3, <2>6
      <4> QED
        BY <4>1 DEF Sorted
    <3> QED
      BY <3>1, <3>2, <3>3, <3>4, <3>5, <2>3
  <2>8. ToSet(new) = ToSet(list) \union {m}
    <3>1. ToSet(new) \subseteq ToSet(list) \union {m}
      BY <2>3, <2>6 DEF ToSet
    <3>2. m \in ToSet(new)
      BY <2>3, <2>6 DEF ToSet
    <3>3. ASSUME NEW i \in 1 .. Len(list) PROVE list[i] \in ToSet(new)
      <4>1. CASE i < at
        BY <4>1, <2>3, <2>6 DEF ToSet
      <4>2. CASE i >= at
        <5>1. i + 1 \in 1 .. Len(new) /\ new[i + 1] = list[i]
          BY <4>2, <2>3, <2>6
        <5> QED
          BY <5>1, <2>6 DEF ToSet
      <4> QED
        BY <4>1, <4>2, <2>3
    <3>4. ToSet(list) \subseteq ToSet(new)
      BY <3>3 DEF ToSet
    <3> QED
      BY <3>1, <3>2, <3>4
  <2> QED
    BY <1>2, <2>1, <2>6, <2>7, <2>8, Len(new) > 0
<1> QED
  BY <1>1, <1>2

(* The recursion of ReadEdidModes defines a function: given one as far as   *)
(* k - 1, its next value makes one as far as k.                             *)
LEMMA ListsExist ==
  ASSUME NEW modes, NEW k \in Nat
  PROVE  \E list : list = [n \in 0 .. k |->
                             IF n = 0 THEN <<>> ELSE AddVModeToList(list[n - 1], modes[n])]
<1> DEFINE Steps(list, j) ==
             list = [n \in 0 .. j |->
                       IF n = 0 THEN <<>> ELSE AddVModeToList(list[n - 1], modes[n])]
           bad == {j \in Nat : ~\E list : Steps(list, j)}
<1>1. SUFFICES ASSUME bad # {} PROVE FALSE
  OBVIOUS
<1>2. PICK j \in bad : \A i \in bad : j <= i
  BY <1>1, LeastExists
<1>3. CASE j = 0
  <2>1. Steps([n \in 0 .. 0 |-> <<>>], 0)
    OBVIOUS
  <2> QED
    BY <2>1, <1>2, <1>3
<1>4. CASE j > 0
  <2>1. j - 1 \in Nat /\ j - 1 \notin bad
    BY <1>2, <1>4
  <2>2. PICK list : Steps(list, j - 1)
    BY <2>1
  <2> DEFINE longer == [n \in 0 .. j |->
                          IF n = j THEN AddVModeToList(list[j - 1], modes[j]) ELSE list[n]]
  <2>3. ASSUME NEW n \in 0 .. j
        PROVE  longer[n] = IF n = 0 THEN <<>> ELSE AddVModeToList(longer[n - 1], modes[n])
    <3>1. CASE n = j
      BY <3>1, <1>4
    <3>2. CASE n # j
      <4>1. n \in 0 .. j - 1 /\ longer[n] = list[n] /\ (n # 0 => longer[n - 1] = list[n - 1])
        BY <3>2
      <4>2. list[n] = IF n = 0 THEN <<>> ELSE AddVModeToList(list[n - 1], modes[n])
        BY <2>2, <4>1
      <4> QED
        BY <4>1, <4>2
    <3> QED
      BY <3>1, <3>2
  <2> HIDE DEF longer
  <2>4. longer = [n \in 0 .. j |-> longer[n]]
    BY DEF longer
  <2>5. Steps(longer, j)
    BY <2>3, <2>4
  <2> QED
    BY <2>5, <1>2
<1> QED
  BY <1>2, <1>3, <1>4

(* What the list has when n modes of the EDID have been added.              *)
Right(list, modes, n) ==
  /\ list \in Seq(Resolution) /\ Sorted(list) /\ (list = <<>> <=> n = 0)
  /\ ToSet(list) \ {modes[1]} = {modes[i] : i \in {j \in 1 .. n : ~TooLarge(modes[j])}} \ {modes[1]}

LEMMA ListsRight ==
  ASSUME NEW modes \in Seq(Resolution), NEW list,
         list = [n \in 0 .. Len(modes) |->
                   IF n = 0 THEN <<>> ELSE AddVModeToList(list[n - 1], modes[n])]
  PROVE  \A n \in 0 .. Len(modes) : Right(list[n], modes, n)
<1> DEFINE bad == {n \in 0 .. Len(modes) : ~Right(list[n], modes, n)}
<1>1. SUFFICES ASSUME bad # {} PROVE FALSE
  OBVIOUS
<1>2. PICK n \in bad : \A i \in bad : n <= i
  <2>1. bad \in SUBSET Nat
    OBVIOUS
  <2> QED
    BY <1>1, <2>1, LeastExists
<1>3. CASE n = 0
  <2>1. list[0] = <<>>
    OBVIOUS
  <2>2. ToSet(<<>>) = {} /\ {j \in 1 .. 0 : ~TooLarge(modes[j])} = {}
    BY DEF ToSet
  <2>3. Right(<<>>, modes, 0)
    BY <2>2 DEF Right, Sorted
  <2> QED
    BY <2>1, <2>3, <1>2, <1>3
<1>4. CASE n > 0
  <2>1. /\ n - 1 \in 0 .. Len(modes) /\ Right(list[n - 1], modes, n - 1)
        /\ list[n] = AddVModeToList(list[n - 1], modes[n]) /\ modes[n] \in Resolution
    BY <1>2, <1>4
  <2>2. /\ list[n] \in Seq(Resolution) /\ Sorted(list[n]) /\ list[n] # <<>>
        /\ ToSet(list[n]) = ToSet(list[n - 1]) \union
                              (IF Taken(list[n - 1], modes[n]) THEN {modes[n]} ELSE {})
    <3>1. list[n - 1] \in Seq(Resolution) /\ Sorted(list[n - 1])
      BY <2>1 DEF Right
    <3> QED
      BY <2>1, <3>1, AddedInOrder, Zenon
  <2>3. Taken(list[n - 1], modes[n]) <=> n = 1 \/ ~TooLarge(modes[n])
    <3>1. list[n - 1] = <<>> <=> n = 1
      BY <2>1, <1>4 DEF Right
    <3> QED
      BY <3>1 DEF Taken
  <2> DEFINE fits(k) == {modes[i] : i \in {j \in 1 .. k : ~TooLarge(modes[j])}}
  <2>4. fits(n) = fits(n - 1) \union (IF TooLarge(modes[n]) THEN {} ELSE {modes[n]})
    <3>1. 1 .. n = (1 .. n - 1) \union {n}
      BY <1>4
    <3> QED
      BY <3>1
  <2>5. ToSet(list[n]) \ {modes[1]} = fits(n) \ {modes[1]}
    <3>1. ToSet(list[n - 1]) \ {modes[1]} = fits(n - 1) \ {modes[1]}
      BY <2>1 DEF Right
    <3> HIDE DEF fits
    <3>2. CASE n = 1
      BY <2>2, <2>3, <2>4, <3>1, <3>2
    <3>3. CASE n # 1
      BY <2>2, <2>3, <2>4, <3>1, <3>3
    <3> QED
      BY <3>2, <3>3
  <2>6. Right(list[n], modes, n)
    BY <2>2, <2>5, <1>4 DEF Right
  <2> QED
    BY <2>6, <1>2
<1> QED
  BY <1>2, <1>3, <1>4

LEMMA ModesRead ==
  ASSUME NEW edid \in Edids
  PROVE  /\ Right(ReadEdidModes(edid), Offered(edid), Len(Offered(edid)))
         /\ ReadEdidModes(edid) # <<>>
<1> DEFINE modes == Offered(edid)
           list == CHOOSE l : l = [n \in 0 .. Len(modes) |->
                              IF n = 0 THEN <<>> ELSE AddVModeToList(l[n - 1], modes[n])]
<1>1. modes \in Seq(Resolution) /\ modes # <<>> /\ Len(modes) \in Nat \ {0}
  BY EdidsAssumption, EmptySeq
<1>2. ReadEdidModes(edid) = list[Len(modes)]
  BY DEF ReadEdidModes
<1> HIDE DEF modes
<1>3. list = [n \in 0 .. Len(modes) |->
                IF n = 0 THEN <<>> ELSE AddVModeToList(list[n - 1], modes[n])]
  BY <1>1, ListsExist
<1> HIDE DEF list
<1>4. Right(list[Len(modes)], modes, Len(modes))
  BY <1>1, <1>3, ListsRight
<1> QED
  BY <1>1, <1>2, <1>4 DEF Right, modes

-----------------------------------------------------------------------------
(* Modes and pages.  Reading aid: the list is some monitor's, the mode one  *)
(* of the list, the page one of the mode's, and the adapter's registers and *)
(* the base address are those of mode, depth and page.                      *)
ListInv ==
  /\ vModes # <<>>
  /\ \E edid \in Edids : Right(vModes, Offered(edid), Len(Offered(edid)))

CurrentInv ==
  /\ curMode \in 0 .. Len(vModes) - 1 /\ depth \in {8, 15, 16, 32}
  /\ curPage \in 0 .. Pages(vModes[curMode + 1], depth) - 1
  /\ dispi = Registers(vModes[curMode + 1], depth, curPage)
  /\ curBaseAddress = curPage * PageSize(vModes[curMode + 1], depth)

ModeInv == ListInv /\ CurrentInv

LEMMA SizesAreNumbers ==
  ASSUME NEW m \in Resolution, NEW d \in {8, 15, 16, 32}
  PROVE  /\ BytesPerPixel(d) \in {1, 2, 4} /\ PageSize(m, d) \in Nat
         /\ Pages(m, d) \in {1, 2}
<1>1. BytesPerPixel(d) \in {1, 2, 4}
  BY DEF BytesPerPixel
<1>2. m.w \in Nat /\ m.h \in Nat
  BY DEF Resolution
<1>3. m.w * BytesPerPixel(d) \in Nat
  BY <1>1, <1>2
<1>4. PageSize(m, d) \in Nat
  BY <1>2, <1>3 DEF PageSize
<1> QED
  BY <1>1, <1>4 DEF Pages

LEMMA ModeInit == Init => ModeInv
<1> SUFFICES ASSUME Init PROVE ModeInv
  OBVIOUS
<1>1. PICK edid \in Edids, s \in BootSizes :
        vModes = ReadEdidModes(edid) /\ curMode = BootMode(vModes, s)
  BY DEF Init, DriverInitializeCmd, QemuVga_Init
<1>2. /\ depth \in {8, 15, 16, 32} /\ curPage = 0 /\ curBaseAddress = 0
      /\ dispi = Registers(vModes[curMode + 1], depth, 0)
  BY AdapterAssumption DEF Init, DriverInitializeCmd, QemuVga_Init, AdapterAssumption
<1>3. vModes # <<>> /\ Right(vModes, Offered(edid), Len(Offered(edid)))
  BY <1>1, ModesRead
<1>4. vModes \in Seq(Resolution) /\ Len(vModes) \in Nat \ {0}
  BY <1>3, EmptySeq DEF Right
<1>5. curMode \in 0 .. Len(vModes) - 1
  <2> DEFINE found == {i \in 0 .. Len(vModes) - 1 : vModes[i + 1] = s}
  <2>1. curMode = IF found = {} THEN 0 ELSE Min(found)
    BY <1>1 DEF BootMode
  <2>2. ASSUME found # {} PROVE Min(found) \in found
    <3>1. found \in SUBSET Nat
      OBVIOUS
    <3>2. \E x \in found : \A y \in found : x <= y
      BY <2>2, <3>1, LeastExists
    <3> QED
      BY <3>2 DEF Min
  <2> HIDE DEF found
  <2>3. found \subseteq 0 .. Len(vModes) - 1
    BY DEF found
  <2> QED
    BY <2>1, <2>2, <2>3, <1>4
<1>6. vModes[curMode + 1] \in Resolution
  BY <1>4, <1>5
<1>7. /\ Pages(vModes[curMode + 1], depth) \in {1, 2}
      /\ PageSize(vModes[curMode + 1], depth) \in Nat
  BY <1>2, <1>6, SizesAreNumbers
<1> QED
  BY <1>2, <1>3, <1>5, <1>7 DEF ModeInv, ListInv, CurrentInv

LEMMA ModeStep == ModeInv /\ [Next]_vars => ModeInv'
<1> SUFFICES ASSUME ModeInv, [Next]_vars PROVE ModeInv'
  OBVIOUS
<1>1. ASSUME vModes' = vModes, NEW i \in 0 .. Len(vModes) - 1, NEW n \in 1 .. 3, NEW page \in 0 .. 1,
             page < Pages(vModes[i + 1], DepthModeToDepth(n)),
             Shown(vModes, i, DepthModeToDepth(n), page)
      PROVE  ModeInv'
  <2>1. DepthModeToDepth(n) \in {8, 15, 32}
    BY DEF DepthModeToDepth
  <2>2. vModes \in Seq(Resolution) /\ vModes[i + 1] \in Resolution
    BY DEF ModeInv, ListInv, Right
  <2>3. Pages(vModes[i + 1], DepthModeToDepth(n)) \in {1, 2}
    BY <2>1, <2>2, SizesAreNumbers
  <2>4. CurrentInv'
    BY <1>1, <2>1, <2>3 DEF CurrentInv, Shown
  <2> QED
    BY <1>1, <2>4 DEF ModeInv, ListInv
<1>2. ASSUME UNCHANGED modeVars PROVE ModeInv'
  BY <1>2 DEF ModeInv, ListInv, CurrentInv, modeVars
<1>3. CASE SetMode
  <2>1. PICK n \in 1 .. 3, page \in 0 .. 1 :
          /\ page < Pages(vModes[curMode + 1], DepthModeToDepth(n))
          /\ Shown(vModes, curMode, DepthModeToDepth(n), page)
    BY <1>3 DEF SetMode
  <2> QED
    BY <2>1, <1>1, <1>3 DEF SetMode, ModeInv, CurrentInv
<1>4. CASE SwitchMode
  <2>1. PICK i \in 0 .. Len(vModes) - 1, n \in 1 .. 3, page \in 0 .. 1 :
          /\ page < Pages(vModes[i + 1], DepthModeToDepth(n))
          /\ Shown(vModes, i, DepthModeToDepth(n), page)
    BY <1>4 DEF SwitchMode
  <2> QED
    BY <2>1, <1>1, <1>4 DEF SwitchMode
<1>5. Next => SetMode \/ SwitchMode \/ UNCHANGED modeVars
  BY DEF Next, SetSync, VBLTimerProc, DriverOpenCmd, NewInterruptService,
         EnableInterrupts, DisableInterrupts, DriverCloseCmd, DriverSupersededCmd,
         CancelTimer, DisposeInterruptService, ForgetInterruptService
<1> QED
  BY <1>2, <1>3, <1>4, <1>5 DEF vars

(* The list has every size once, smallest first, and all that the monitor   *)
(* offers and the adapter has memory for (addVModeToList), and the control  *)
(* calls lead a program through it.                                         *)
THEOREM ListIsTrue == Spec => []ModesListed
<1>1. ListInv => ModesListed
  <2> SUFFICES ASSUME ListInv PROVE ModesListed
    OBVIOUS
  <2>1. vModes \in Seq(Resolution) /\ Sorted(vModes)
    BY DEF ListInv, Right
  <2>2. ASSUME NEW i \in 1 .. Len(vModes)
        PROVE  LET m == GetNextResolution(IF i = 1 THEN FindFirst ELSE i - 1)
                   n == GetNextResolution(m.id)
               IN  /\ m = [id |-> i, size |-> vModes[i]] /\ GetModeTiming(m.id)
                   /\ (n.id = NoMore \/ Before(m.size, n.size))
    <3>1. /\ GetNextResolution(IF i = 1 THEN FindFirst ELSE i - 1) = [id |-> i, size |-> vModes[i]]
      BY <2>1 DEF GetNextResolution, FindFirst, Current, GetModeInfo
    <3>2. GetNextResolution(i) = IF i + 1 = Len(vModes) + 1 THEN [id |-> NoMore, size |-> Size(0, 0)]
                                 ELSE [id |-> i + 1, size |-> vModes[i + 1]]
      BY <2>1 DEF GetNextResolution, FindFirst, Current, GetModeInfo
    <3>3. GetModeTiming(i)
      BY <2>1 DEF GetModeTiming
    <3>4. i + 1 # Len(vModes) + 1 => Before(vModes[i], vModes[i + 1])
      BY <2>1 DEF Sorted
    <3> QED
      BY <3>1, <3>2, <3>3, <3>4
  <2>3. \E edid \in Edids :
          ToSet(vModes) \ {Offered(edid)[1]} =
            {m \in ToSet(Offered(edid)) : ~TooLarge(m)} \ {Offered(edid)[1]}
    <3>1. PICK edid \in Edids : Right(vModes, Offered(edid), Len(Offered(edid)))
      BY DEF ListInv
    <3> DEFINE modes == Offered(edid)
    <3>2. {modes[i] : i \in {j \in 1 .. Len(modes) : ~TooLarge(modes[j])}} =
            {m \in ToSet(modes) : ~TooLarge(m)}
      BY EdidsAssumption DEF ToSet
    <3> QED
      BY <3>1, <3>2 DEF Right
  <2> QED
    BY <2>1, <2>2, <2>3 DEF ModesListed
<1>2. Init => ModeInv
  BY ModeInit
<1>3. ModeInv /\ [Next]_vars => ModeInv'
  BY ModeStep
<1>4. ModeInv => ModesListed
  BY <1>1 DEF ModeInv
<1> QED
  BY <1>2, <1>3, <1>4, PTL DEF Spec

(* Depths 15 and 16 go by the same depth mode, and by the same bytes.       *)
LEMMA DepthsAgree ==
  ASSUME NEW d \in {8, 15, 16, 32}
  PROVE  BytesPerPixel(DepthModeToDepth(DepthToDepthMode(d))) = BytesPerPixel(d)
<1>1. DepthToDepthMode(d) = IF d \in {15, 16} THEN 2 ELSE IF d = 32 THEN 3 ELSE 1
  BY DEF DepthToDepthMode
<1>2. DepthModeToDepth(DepthToDepthMode(d)) = IF d \in {15, 16} THEN 15 ELSE d
  BY <1>1 DEF DepthModeToDepth
<1>3. BytesPerPixel(15) = BytesPerPixel(16)
  BY DEF BytesPerPixel
<1> QED
  BY <1>2, <1>3

(* All pages of a mode that is not too large are within the memory.         *)
LEMMA PagesFit ==
  ASSUME NEW m \in Resolution, NEW d \in {8, 15, 16, 32}, ~TooLarge(m)
  PROVE  m.w * BytesPerPixel(d) * (m.h * Pages(m, d)) <= boardFBMappedSize
<1> DEFINE b == BytesPerPixel(d)
           row == m.w * b
<1>1. m.w \in Nat /\ m.h \in Nat /\ b \in {1, 2, 4} /\ boardFBMappedSize \in Nat
  BY SizesAreNumbers, AdapterAssumption DEF Resolution, AdapterAssumption
<1>2. m.w * m.h * 4 <= boardFBMappedSize /\ m.w * m.h \in Nat
  BY <1>1 DEF TooLarge
<1>3. row * m.h = m.w * m.h * b /\ row \in Nat
  BY <1>1
<1>4. m.w * m.h * b <= m.w * m.h * 4
  BY <1>1, <1>2
<1>5. PageSize(m, d) = row * m.h
  BY DEF PageSize
<1> HIDE DEF row
<1>6. CASE Pages(m, d) = 1
  <2>1. m.h * Pages(m, d) = m.h
    BY <1>1, <1>6
  <2> QED
    BY <2>1, <1>1, <1>2, <1>3, <1>4 DEF row
<1>7. CASE Pages(m, d) = 2
  <2>1. row * m.h <= boardFBMappedSize \div 2
    BY <1>5, <1>7 DEF Pages
  <2>2. row * (m.h * 2) = (row * m.h) * 2 /\ row * m.h \in Nat
    BY <1>1, <1>3
  <2>3. (row * m.h) * 2 <= boardFBMappedSize
    BY <2>1, <2>2, <1>1
  <2> QED
    BY <2>2, <2>3, <1>7 DEF row
<1> QED
  BY <1>6, <1>7, SizesAreNumbers

(* QuickDraw draws in the picture that the adapter shows: what the status   *)
(* calls answer of size, bytes of a row, pages and base address is what     *)
(* QemuVga_SetMode has written into the adapter's registers.                *)
THEOREM ShownAlwaysSaid == Spec => []ShownIsSaid
<1>1. ModeInv => ShownIsSaid
  <2> SUFFICES ASSUME ModeInv PROVE ShownIsSaid
    OBVIOUS
  <2> DEFINE m == vModes[curMode + 1]
             d == DepthModeToDepth(DepthToDepthMode(depth))
             said == GetVideoParams(curMode + 1, DepthToDepthMode(depth))
             row == dispi.virtWidth * BytesPerPixel(dispi.bpp)
  <2>1. /\ curMode \in 0 .. Len(vModes) - 1 /\ depth \in {8, 15, 16, 32}
        /\ curPage \in 0 .. Pages(m, depth) - 1
        /\ dispi = Registers(m, depth, curPage)
        /\ curBaseAddress = curPage * PageSize(m, depth)
        /\ m \in Resolution
    BY DEF ModeInv, ListInv, CurrentInv, Right
  <2>2. m.w \in Nat /\ m.h \in Nat /\ Size(m.w, m.h) = m
    BY <2>1 DEF Resolution, Size
  <2>3. BytesPerPixel(d) = BytesPerPixel(depth) /\ BytesPerPixel(depth) \in {1, 2, 4}
        /\ Pages(m, depth) \in {1, 2}
    BY <2>1, DepthsAgree, SizesAreNumbers
  <2>4. Pages(m, d) = Pages(m, depth) /\ PageSize(m, d) = PageSize(m, depth)
    BY <2>3 DEF Pages, PageSize
  <2>5. said = [size |-> m, rowBytes |-> m.w * BytesPerPixel(depth), pageCount |-> Pages(m, depth)]
    BY <2>3, <2>4 DEF GetVideoParams, GetModeInfo
  <2>6. /\ dispi.xres = m.w /\ dispi.yres = m.h /\ dispi.virtWidth = m.w /\ dispi.bpp = depth
        /\ dispi.virtHeight = m.h * Pages(m, depth) /\ dispi.yOffset = m.h * curPage
    BY <2>1 DEF Registers
  <2>7. GetNextResolution(Current) = [id |-> curMode + 1, size |-> m]
    BY <2>1 DEF GetNextResolution, FindFirst, Current, GetModeInfo
  <2>8. GetPages(DepthToDepthMode(depth)) = Pages(m, depth) /\ GrayPage(curPage)
    BY <2>1, <2>3, <2>4 DEF GetPages, GrayPage
  <2>9. GetBaseAddress(curPage) = curBaseAddress
    BY <2>1 DEF GetBaseAddress
  <2>10. curBaseAddress = row * dispi.yOffset
    <3>1. PageSize(m, depth) = m.w * BytesPerPixel(depth) * m.h
      BY DEF PageSize
    <3>2. curPage \in {0, 1}
      BY <2>1, <2>3
    <3>3. CASE curPage = 0
      BY <3>3, <2>1, <2>2, <2>3, <2>6, <3>1
    <3>4. CASE curPage = 1
      <4>1. curBaseAddress = m.w * BytesPerPixel(depth) * m.h
        BY <3>1, <3>4, <2>1, <2>2, <2>3
      <4>2. dispi.yOffset = m.h
        BY <3>4, <2>2, <2>6
      <4> QED
        BY <4>1, <4>2, <2>6
    <3> QED
      BY <3>2, <3>3, <3>4
  <2>11. ~TooLarge(m) => row * dispi.virtHeight <= boardFBMappedSize
    BY <2>1, <2>6, PagesFit
  <2>12. GetCurrentMode = [id |-> curMode + 1, depthMode |-> DepthToDepthMode(depth),
                           page |-> curPage, base |-> curBaseAddress]
    BY DEF GetCurrentMode
  <2>13. curPage < Pages(m, depth)
    BY <2>1, <2>3
  <2> QED
    BY <2>2, <2>5, <2>6, <2>7, <2>8, <2>9, <2>10, <2>11, <2>12, <2>13 DEF ShownIsSaid
<1>2. Init => ModeInv
  BY ModeInit
<1>3. ModeInv /\ [Next]_vars => ModeInv'
  BY ModeStep
<1> QED
  BY <1>1, <1>2, <1>3, PTL DEF Spec

=============================================================================
