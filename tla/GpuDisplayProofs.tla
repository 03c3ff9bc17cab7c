-------------------------- MODULE GpuDisplayProofs --------------------------
(***************************************************************************)
(* Theorems about GpuDisplay for every number of update buffers and every  *)
(* screen, as long as no interrupt falls into the main line's own QPoll.   *)
(*                                                                         *)
(* The argument follows the tags on their way around: those of avail, of   *)
(* used and of inner are one sequence that is taken from at the front and  *)
(* added to at the end; outer is taken from the front of it, but may be    *)
(* worked off after inner.                                                 *)
(***************************************************************************)
EXTENDS GpuDisplay, FiniteSetTheorems, SequenceTheorems, WellFoundedInduction, TLAPS

-----------------------------------------------------------------------------
(* The tags that are left behind outer, in the order they will be taken:    *)
(* those claimed, those returned and those of the messages with the device. *)
LeftOf(claimed, returned, given) ==
  [n \in 1 .. Len(claimed) + Len(returned) + Len(given) |->
     IF n <= Len(claimed) THEN claimed[n]
     ELSE IF n <= Len(claimed) + Len(returned) THEN returned[n - Len(claimed)]
     ELSE given[n - Len(claimed) - Len(returned)].tag]

Left == LeftOf(inner, used, avail)

(* Updates are pairs, a transfer and then the message that names the        *)
(* buffer; what is left begins anywhere and ends with a complete pair.      *)
OfUpdates(s) == \A n \in 1 .. Len(s) : s[n] \in Bufs \union {Tfer}

Alternates(s) == \A n \in 1 .. Len(s) - 1 : s[n] = Tfer <=> s[n + 1] # Tfer

EndsPaired(s) == Len(s) > 0 => s[Len(s)] # Tfer

Once(s) == \A m, n \in 1 .. Len(s) : s[m] = s[n] /\ s[m] # Tfer => m = n

Lent(s, free) == \A n \in 1 .. Len(s) : s[n] \notin free

Apart(s, t) == \A m \in 1 .. Len(s), n \in 1 .. Len(t) : s[m] = t[n] => s[m] = Tfer

Pairs(first, left, free) ==
  /\ OfUpdates(first) /\ OfUpdates(left)
  /\ Alternates(first) /\ Alternates(left) /\ EndsPaired(left)
  /\ Once(first) /\ Once(left) /\ Apart(first, left)
  /\ Lent(first, free) /\ Lent(left, free)

(* How many tags are left follows from how many buffers are lent.           *)
BeginsWithin(s) == IF Len(s) > 0 /\ s[1] # Tfer THEN 1 ELSE 0

EndsWithin(s) == IF Len(s) > 0 /\ s[Len(s)] = Tfer THEN 1 ELSE 0

Counted(first, left, free) ==
  Len(first) + Len(left)
    = 2 * (MaxInFlight - Cardinality(free))
      + EndsWithin(first) - BeginsWithin(first) - BeginsWithin(left)

(* A transfer at the end of outer has its buffer's tag at the front of what *)
(* is left, or that tag has been worked off before it; then two buffers are *)
(* free while sendPixels has not taken one.                                 *)
Linked(first, left, free, spare) ==
  EndsWithin(first) = 1 => BeginsWithin(left) = 1 \/ Cardinality(free) >= spare

FlowOf(first, left, free, spare) ==
  Pairs(first, left, free) /\ Counted(first, left, free) /\ Linked(first, left, free, spare)

Spare == IF sending = "idle" THEN 1 ELSE 2

Flow == FlowOf(outer, Left, freebufs, Spare)

(* A control command is the only message, wherever it is. *)
Quiet == freebufs = Bufs /\ sending = "idle" /\ inner = <<>> /\ pending = {}

Order == [tag |-> Done, cmd |-> cmd, res |-> Target(cmd)]

Commanded ==
  /\ Quiet
  /\ \/ avail = <<Order>> /\ used = <<>> /\ outer = <<>> /\ lastTag = Wait
     \/ avail = <<>> /\ used = <<Done>> /\ outer = <<>> /\ lastTag = Wait
     \/ avail = <<>> /\ used = <<>> /\ outer = <<Done>> /\ lastTag = Wait
     \/ avail = <<>> /\ used = <<>> /\ outer = <<>> /\ lastTag = Done

BetweenCommands == Quiet /\ avail = <<>> /\ used = <<>> /\ outer = <<>>

Tagged ==
  /\ task = "spin" => Commanded
  /\ task = "wait" /\ cmd # "create" => BetweenCommands
  /\ task # "spin" => Flow

(* Who may run. *)
Control ==
  /\ sending # "drain" => inner = <<>>
  /\ sending # "idle" => listening = TRUE
  /\ sending # "idle" /\ outer # <<>> => freebufs # {}
  /\ interest = IF listening = TRUE THEN 1 ELSE 0
  /\ task \in {"wait", "spin"} => changeInProgress = TRUE
  /\ torn.active = TRUE =>
       /\ inner = <<>> /\ outer = <<>> /\ sending = "idle" /\ bottomHalf = "idle"
       /\ used = torn.read \o torn.since /\ torn.read # <<>>
       /\ task \in {"debug", "perf", "wait", "spin"}

(* What waits for a buffer hears of one. *)
Heard ==
  /\ sending = "idle" /\ pending # {} => freebufs = {} /\ listening = TRUE
  /\ listening = TRUE /\ sending # "poll" /\ used # <<>> =>
       notified = TRUE \/ bottomHalf = "poll1"

(* What the messages in the queue say: both of a pair the same buffer, and  *)
(* the resource of the screen.                                              *)
Told ==
  task # "spin" =>
    \A n \in 1 .. Len(avail) :
      /\ avail[n].res = screenResource /\ avail[n].buf \in Bufs
      /\ avail[n].tag \in Bufs => avail[n].buf = avail[n].tag
      /\ avail[n].tag = Tfer => n < Len(avail) /\ avail[n + 1].tag = avail[n].buf

(* How far the host is with the change of mode. *)
Shows(r) == r \in created /\ r \in backed /\ scanout = r

HostFollows ==
  /\ screenResource \in Resources
  /\ task \notin {"wait", "spin"} => cmd = "create"
  /\ cmd = "create" => Shows(screenResource)
  /\ cmd # "create" => NewResource \in created
  /\ cmd \in {"scanout", "unref"} => NewResource \in backed
  /\ cmd = "unref" => scanout = NewResource
  /\ task = "spin" /\ avail = <<>> =>
       /\ cmd = "create" /\ reply = "ok" => NewResource \in created
       /\ cmd = "attach" => NewResource \in backed
       /\ cmd = "scanout" => scanout = NewResource

IInv == Tagged /\ Control /\ Heard /\ Told /\ HostFollows
-----------------------------------------------------------------------------
(* What a step does to the flow, whatever the tags are. *)

LEMMA TagsDiffer == Tfer \notin Bufs /\ Done \notin Bufs /\ Wait \notin Bufs /\ Tfer # Done /\ Wait # Done
BY DisplayAssumption DEF Bufs, Tfer, Done, Wait

LEMMA FreeCounts ==
  ASSUME NEW free \in SUBSET Bufs
  PROVE  /\ IsFiniteSet(free) /\ Cardinality(free) \in 0 .. MaxInFlight
         /\ \A i \in Bufs \ free : Cardinality(free \union {i}) = Cardinality(free) + 1
         /\ \A i \in free : Cardinality(free \ {i}) = Cardinality(free) - 1
         /\ free = {} <=> Cardinality(free) = 0
         /\ Cardinality(free) = MaxInFlight => free = Bufs
         /\ Cardinality(Bufs) = MaxInFlight
<1>1. IsFiniteSet(Bufs) /\ Cardinality(Bufs) = MaxInFlight
  BY DisplayAssumption, FS_Interval DEF Bufs
<1>2. /\ IsFiniteSet(free) /\ Cardinality(free) \in Nat /\ Cardinality(free) <= MaxInFlight
      /\ Cardinality(free) = MaxInFlight => free = Bufs
  BY <1>1, FS_Subset, FS_CardinalityType
<1>3. \A i \in Bufs \ free : Cardinality(free \union {i}) = Cardinality(free) + 1
  BY <1>2, FS_AddElement
<1>4. \A i \in free : Cardinality(free \ {i}) = Cardinality(free) - 1
  BY <1>2, FS_RemoveElement
<1>5. free = {} <=> Cardinality(free) = 0
  BY <1>2, FS_EmptySet
<1> QED
  BY <1>1, <1>2, <1>3, <1>4, <1>5, DisplayAssumption

LEMMA AllFree1 ==
  ASSUME NEW left \in Seq(Tag), NEW spare, Pairs(<<>>, left, Bufs)
  PROVE  left = <<>>
<1>1. Len(left) \in Nat /\ (Len(left) > 0 => left[Len(left)] \in Bufs)
  BY DEF Pairs, OfUpdates, EndsPaired
<1>2. Len(left) = 0
  BY <1>1 DEF Pairs, Lent
<1> QED
  BY <1>2, EmptySeq

LEMMA FlowBegins == ASSUME NEW spare PROVE FlowOf(<<>>, <<>>, Bufs, spare)
<1>1. Len(<<>>) = 0
  OBVIOUS
<1>2. Pairs(<<>>, <<>>, Bufs)
  BY <1>1 DEF Pairs, OfUpdates, Alternates, EndsPaired, Once, Lent, Apart
<1>3. Cardinality(Bufs) = MaxInFlight /\ MaxInFlight \in Nat
  BY FreeCounts, DisplayAssumption
<1>4. EndsWithin(<<>>) = 0 /\ BeginsWithin(<<>>) = 0
  BY <1>1 DEF EndsWithin, BeginsWithin
<1> QED
  BY <1>1, <1>2, <1>3, <1>4 DEF FlowOf, Counted, Linked

(* QPoll claims the front of what is left. *)
LEMMA FlowSplit ==
  ASSUME NEW left \in Seq(Tag), NEW first \in Seq(Tag), NEW rest \in Seq(Tag),
         NEW free \in SUBSET Bufs, NEW spare, NEW spare1, FlowOf(<<>>, left, free, spare),
         Len(left) = Len(first) + Len(rest),
         \A n \in 1 .. Len(first) : first[n] = left[n],
         \A n \in 1 .. Len(rest) : rest[n] = left[Len(first) + n]
  PROVE  FlowOf(first, rest, free, spare1)
<1>1. Len(left) \in Nat /\ Len(first) \in Nat /\ Len(rest) \in Nat /\ Len(<<>>) = 0
  OBVIOUS
<1>2. /\ OfUpdates(left) /\ Alternates(left) /\ EndsPaired(left) /\ Once(left) /\ Lent(left, free)
  BY DEF FlowOf, Pairs
<1>3. OfUpdates(first) /\ OfUpdates(rest) /\ Lent(first, free) /\ Lent(rest, free)
  BY <1>1, <1>2 DEF OfUpdates, Lent
<1>4. Alternates(first) /\ Alternates(rest)
  <2>1. ASSUME NEW n \in 1 .. Len(first) - 1 PROVE first[n] = Tfer <=> first[n + 1] # Tfer
    <3>0. n \in 1 .. Len(first) /\ n + 1 \in 1 .. Len(first) /\ n \in 1 .. Len(left) - 1
      BY <1>1
    <3>1. n \in 1 .. Len(left) - 1 /\ first[n] = left[n] /\ first[n + 1] = left[n + 1]
      BY <3>0
    <3> QED
      BY <1>2, <3>1 DEF Alternates
  <2>2. ASSUME NEW n \in 1 .. Len(rest) - 1 PROVE rest[n] = Tfer <=> rest[n + 1] # Tfer
    <3> DEFINE m == Len(first) + n
    <3>1. m \in 1 .. Len(left) - 1 /\ rest[n] = left[m] /\ rest[n + 1] = left[m + 1]
      BY <1>1
    <3> HIDE DEF m
    <3> QED
      BY <1>2, <3>1 DEF Alternates
  <2> QED
    BY <2>1, <2>2 DEF Alternates
<1>5. EndsPaired(rest)
  BY <1>1, <1>2 DEF EndsPaired
<1>6. Once(first) /\ Once(rest) /\ Apart(first, rest)
  <2>1. Once(first)
    BY <1>1, <1>2 DEF Once
  <2>2. ASSUME NEW m \in 1 .. Len(rest), NEW n \in 1 .. Len(rest), rest[m] = rest[n], rest[m] # Tfer
        PROVE  m = n
    <3>1. /\ Len(first) + m \in 1 .. Len(left) /\ Len(first) + n \in 1 .. Len(left)
          /\ left[Len(first) + m] = left[Len(first) + n] /\ left[Len(first) + m] # Tfer
      BY <1>1, <2>2
    <3>2. Len(first) + m = Len(first) + n
      BY <1>2, <3>1 DEF Once
    <3> QED
      BY <1>1, <3>2
  <2>3. ASSUME NEW m \in 1 .. Len(first), NEW n \in 1 .. Len(rest), first[m] = rest[n],
               first[m] # Tfer
        PROVE  FALSE
    <3>1. /\ m \in 1 .. Len(left) /\ Len(first) + n \in 1 .. Len(left)
          /\ left[m] = left[Len(first) + n] /\ left[m] # Tfer
      BY <1>1, <2>3
    <3>2. m = Len(first) + n
      BY <1>2, <3>1 DEF Once
    <3> QED
      BY <1>1, <3>2
  <2> QED
    BY <2>1, <2>2, <2>3 DEF Once, Apart
<1>7. Len(first) > 0 => BeginsWithin(first) = BeginsWithin(left) /\ EndsWithin(first) = BeginsWithin(rest)
  <2> SUFFICES ASSUME Len(first) > 0 
               PROVE  BeginsWithin(first) = BeginsWithin(left) /\ EndsWithin(first) = BeginsWithin(rest)
    OBVIOUS
  <2>1. BeginsWithin(first) = BeginsWithin(left)
    BY <1>1 DEF BeginsWithin
  <2>2. CASE Len(rest) = 0
    BY <1>1, <1>2, <2>2 DEF EndsWithin, BeginsWithin, EndsPaired
  <2>3. CASE Len(rest) > 0
    BY <1>1, <1>2, <2>3 DEF EndsWithin, BeginsWithin, Alternates
  <2> QED
    BY <1>1, <2>1, <2>2, <2>3
<1>8. Len(first) = 0 => BeginsWithin(first) = 0 /\ EndsWithin(first) = 0 /\ BeginsWithin(rest) = BeginsWithin(left)
  BY <1>1 DEF EndsWithin, BeginsWithin
<1>9. Counted(first, rest, free) /\ Linked(first, rest, free, spare1)
  <2>1. Len(left) = 2 * (MaxInFlight - Cardinality(free)) - BeginsWithin(left)
    BY <1>1, FreeCounts, DisplayAssumption DEF FlowOf, Counted, EndsWithin, BeginsWithin
  <2>2. BeginsWithin(left) \in {0, 1} /\ BeginsWithin(rest) \in {0, 1}
    BY DEF BeginsWithin
  <2>3. /\ EndsWithin(first) - BeginsWithin(first) - BeginsWithin(rest) = 0 - BeginsWithin(left)
        /\ EndsWithin(first) = 1 => BeginsWithin(rest) = 1
    <3>1. CASE Len(first) > 0
      BY <1>7, <2>2, <3>1
    <3>2. CASE Len(first) = 0
      BY <1>8, <2>2, <3>2
    <3> QED
      BY <1>1, <3>1, <3>2
  <2>4. Cardinality(free) \in Int /\ MaxInFlight \in Int
    BY FreeCounts, DisplayAssumption
  <2>5. EndsWithin(first) \in Int /\ BeginsWithin(first) \in Int
    BY DEF BeginsWithin, EndsWithin
  <2>6. Counted(first, rest, free)
    <3> DEFINE lent == 2 * (MaxInFlight - Cardinality(free))
    <3>1. lent \in Int
      BY <2>4
    <3>2. Len(left) = lent - BeginsWithin(left)
      BY <2>1
    <3> DEFINE e == EndsWithin(first)
               b == BeginsWithin(first)
               c == BeginsWithin(rest)
               d == BeginsWithin(left)
    <3> HIDE DEF lent
    <3>3. e \in Int /\ b \in Int /\ c \in Int /\ d \in Int /\ e - b - c = 0 - d
      BY <2>2, <2>3, <2>5
    <3>4. Len(first) + Len(rest) = lent - d
      BY <3>2
    <3> HIDE DEF e, b, c, d
    <3>5. Len(first) + Len(rest) = lent + e - b - c
      BY <1>1, <3>1, <3>3, <3>4
    <3> QED
      BY <3>5 DEF lent, e, b, c, Counted
  <2> QED
    BY <2>3, <2>6 DEF Linked
<1> QED
  BY <1>3, <1>4, <1>5, <1>6, <1>9 DEF FlowOf, Pairs

(* One tag is worked off: what a sequence keeps, and what another keeps     *)
(* that shares no buffer with it.                                           *)
IsTail(rest, s) ==
  /\ s \in Seq(Tag) /\ rest \in Seq(Tag) /\ Len(s) > 0 /\ Len(rest) = Len(s) - 1
  /\ \A n \in 1 .. Len(rest) : rest[n] = s[n + 1]

Freed(free, tag) == free \union ({tag} \intersect Bufs)

LEMMA TailKeeps ==
  ASSUME NEW s, NEW rest, IsTail(rest, s), NEW free \in SUBSET Bufs,
         OfUpdates(s), Alternates(s), Once(s), Lent(s, free)
  PROVE  /\ OfUpdates(rest) /\ Alternates(rest) /\ Once(rest) /\ Lent(rest, Freed(free, s[1]))
         /\ EndsPaired(s) => EndsPaired(rest)
         /\ BeginsWithin(rest) = IF Len(rest) > 0 /\ s[1] = Tfer THEN 1 ELSE 0
         /\ EndsWithin(rest) = IF Len(rest) > 0 THEN EndsWithin(s) ELSE 0
<1>1. /\ Len(s) \in Nat /\ Len(rest) \in Nat /\ Len(s) > 0 /\ Len(rest) = Len(s) - 1
      /\ \A n \in 1 .. Len(rest) : n + 1 \in 1 .. Len(s) /\ rest[n] = s[n + 1]
  BY DEF IsTail
<1>2. OfUpdates(rest)
  BY <1>1 DEF OfUpdates
<1>3. Alternates(rest)
  <2> SUFFICES ASSUME NEW n \in 1 .. Len(rest) - 1 PROVE rest[n] = Tfer <=> rest[n + 1] # Tfer
    BY DEF Alternates
  <2> DEFINE m == n + 1
  <2>1. m \in 1 .. Len(s) - 1 /\ rest[n] = s[m] /\ rest[n + 1] = s[m + 1]
    BY <1>1
  <2> HIDE DEF m
  <2> QED
    BY <2>1 DEF Alternates
<1>4. Once(rest)
  <2> SUFFICES ASSUME NEW m \in 1 .. Len(rest), NEW n \in 1 .. Len(rest), rest[m] = rest[n],
                      rest[m] # Tfer
               PROVE  m = n
    BY DEF Once
  <2>1. m + 1 \in 1 .. Len(s) /\ n + 1 \in 1 .. Len(s) /\ s[m + 1] = s[n + 1] /\ s[m + 1] # Tfer
    BY <1>1
  <2>2. m + 1 = n + 1
    BY <2>1 DEF Once
  <2> QED
    BY <2>2
<1>5. Lent(rest, Freed(free, s[1]))
  <2> SUFFICES ASSUME NEW n \in 1 .. Len(rest) PROVE rest[n] \notin Freed(free, s[1])
    BY DEF Lent
  <2>1. n + 1 \in 1 .. Len(s) /\ rest[n] = s[n + 1] /\ 1 \in 1 .. Len(s) /\ n + 1 # 1
    BY <1>1
  <2>2. s[n + 1] \notin free
    BY <2>1 DEF Lent
  <2>3. s[n + 1] # s[1] \/ s[1] = Tfer
    BY <2>1 DEF Once
  <2> QED
    BY <2>1, <2>2, <2>3, TagsDiffer DEF Freed
<1>6. EndsPaired(s) => EndsPaired(rest)
  BY <1>1 DEF EndsPaired
<1>7. BeginsWithin(rest) = IF Len(rest) > 0 /\ s[1] = Tfer THEN 1 ELSE 0
  <2>1. CASE Len(rest) > 0
    <3>1. 1 \in 1 .. Len(rest) /\ 1 \in 1 .. Len(s) - 1
      BY <1>1, <2>1
    <3>2. rest[1] = s[1 + 1] /\ (s[1] = Tfer <=> s[1 + 1] # Tfer)
      BY <1>1, <3>1 DEF Alternates
    <3> QED
      BY <2>1, <3>2 DEF BeginsWithin
  <2> QED
    BY <2>1 DEF BeginsWithin
<1>8. EndsWithin(rest) = IF Len(rest) > 0 THEN EndsWithin(s) ELSE 0
  <2>1. CASE Len(rest) > 0
    <3>1. Len(rest) \in 1 .. Len(rest) /\ rest[Len(rest)] = s[Len(s)]
      BY <1>1, <2>1
    <3> QED
      BY <1>1, <2>1, <3>1 DEF EndsWithin
  <2> QED
    BY <2>1 DEF EndsWithin
<1> QED
  BY <1>2, <1>3, <1>4, <1>5, <1>6, <1>7, <1>8

LEMMA OtherKeeps ==
  ASSUME NEW s, NEW rest, IsTail(rest, s), NEW free \in SUBSET Bufs, NEW other \in Seq(Tag),
         Lent(other, free)
  PROVE  /\ Apart(s, other) => Apart(rest, other) /\ Lent(other, Freed(free, s[1]))
         /\ Apart(other, s) => Apart(other, rest) /\ Lent(other, Freed(free, s[1]))
<1>1. /\ Len(s) \in Nat /\ Len(rest) \in Nat /\ 1 \in 1 .. Len(s)
      /\ \A n \in 1 .. Len(rest) : n + 1 \in 1 .. Len(s) /\ rest[n] = s[n + 1]
  BY DEF IsTail
<1>2. ASSUME Apart(s, other) PROVE Apart(rest, other) /\ Lent(other, Freed(free, s[1]))
  <2>1. Apart(rest, other)
    BY <1>1, <1>2 DEF Apart
  <2>2. \A n \in 1 .. Len(other) : s[1] = other[n] => s[1] = Tfer
    BY <1>1, <1>2 DEF Apart
  <2> QED
    BY <2>1, <2>2, TagsDiffer DEF Lent, Freed
<1>3. ASSUME Apart(other, s) PROVE Apart(other, rest) /\ Lent(other, Freed(free, s[1]))
  <2>1. Apart(other, rest)
    BY <1>1, <1>3 DEF Apart
  <2>2. \A n \in 1 .. Len(other) : other[n] = s[1] => other[n] = Tfer
    BY <1>1, <1>3 DEF Apart
  <2> QED
    BY <2>1, <2>2, TagsDiffer DEF Lent, Freed
<1> QED
  BY <1>2, <1>3

LEMMA FreedCounts ==
  ASSUME NEW free \in SUBSET Bufs, NEW tag \in Bufs \union {Tfer}, tag \notin free
  PROVE  /\ Freed(free, tag) \in SUBSET Bufs
         /\ Cardinality(Freed(free, tag)) = IF tag = Tfer THEN Cardinality(free)
                                            ELSE Cardinality(free) + 1
<1>1. CASE tag = Tfer
  <2>1. Freed(free, tag) = free
    BY <1>1, TagsDiffer DEF Freed
  <2> QED
    BY <1>1, <2>1
<1>2. CASE tag \in Bufs
  <2>1. Freed(free, tag) = free \union {tag}
    BY <1>2 DEF Freed
  <2> QED
    BY <1>2, <2>1, FreeCounts, TagsDiffer
<1> QED
  BY <1>1, <1>2

(* PollEntry: a buffer that comes back is a second spare one. *)
LEMMA FlowPolled ==
  ASSUME NEW first, NEW rest, IsTail(rest, first), NEW left \in Seq(Tag), NEW free \in SUBSET Bufs,
         FlowOf(first, left, free, 1)
  PROVE  FlowOf(rest, left, Freed(free, first[1]), IF first[1] = Tfer THEN 1 ELSE 2)
<1>1. /\ OfUpdates(first) /\ OfUpdates(left) /\ Alternates(first) /\ Alternates(left)
      /\ EndsPaired(left) /\ Once(first) /\ Once(left) /\ Apart(first, left)
      /\ Lent(first, free) /\ Lent(left, free)
  BY DEF FlowOf, Pairs
<1>2. Pairs(rest, left, Freed(free, first[1]))
  BY <1>1, TailKeeps, OtherKeeps DEF Pairs
<1> DEFINE tag == first[1]
           e == EndsWithin(first)
           c == BeginsWithin(left)
           k == Cardinality(free)
           k1 == Cardinality(Freed(free, tag))
           size == Len(first)
           other == Len(left)
<1>3. /\ tag \in Bufs \union {Tfer} /\ tag \notin free /\ size \in Nat \ {0} /\ other \in Nat
      /\ Len(rest) = size - 1
  BY <1>1 DEF IsTail, OfUpdates, Lent
<1>4. /\ k \in Int /\ MaxInFlight \in Int /\ k1 = IF tag = Tfer THEN k ELSE k + 1
      /\ e \in {0, 1} /\ c \in {0, 1}
  BY <1>3, FreeCounts, FreedCounts, DisplayAssumption DEF EndsWithin, BeginsWithin
<1>5. /\ BeginsWithin(first) = IF tag # Tfer THEN 1 ELSE 0
      /\ BeginsWithin(rest) = IF size > 1 /\ tag = Tfer THEN 1 ELSE 0
      /\ EndsWithin(rest) = IF size > 1 THEN e ELSE 0
      /\ size = 1 => e = IF tag = Tfer THEN 1 ELSE 0
  <2>1. BeginsWithin(first) = IF tag # Tfer THEN 1 ELSE 0
    BY <1>3 DEF BeginsWithin
  <2>2. Len(rest) > 0 <=> size > 1
    BY <1>3
  <2>3. size = 1 => e = IF tag = Tfer THEN 1 ELSE 0
    BY DEF EndsWithin
  <2> QED
    BY <1>1, <2>1, <2>2, <2>3, TailKeeps
<1>6. /\ size + other = 2 * (MaxInFlight - k) + e - BeginsWithin(first) - c
      /\ e = 1 => c = 1 \/ k >= 1
  BY DEF FlowOf, Counted, Linked
<1> HIDE DEF tag, e, c, k, k1, size, other
<1>7. (size - 1) + other = 2 * (MaxInFlight - k1) + EndsWithin(rest) - BeginsWithin(rest) - c
  <2>1. CASE tag = Tfer
    <3>1. CASE size = 1
      BY <1>3, <1>4, <1>5, <1>6, <2>1, <3>1
    <3>2. CASE size > 1
      BY <1>3, <1>4, <1>5, <1>6, <2>1, <3>2
    <3> QED
      BY <1>3, <3>1, <3>2
  <2>2. CASE tag # Tfer
    <3>1. CASE size = 1
      BY <1>3, <1>4, <1>5, <1>6, <2>2, <3>1
    <3>2. CASE size > 1
      BY <1>3, <1>4, <1>5, <1>6, <2>2, <3>2
    <3> QED
      BY <1>3, <3>1, <3>2
  <2> QED
    BY <2>1, <2>2
<1>8. EndsWithin(rest) = 1 => c = 1 \/ k1 >= IF tag = Tfer THEN 1 ELSE 2
  <2>1. EndsWithin(rest) = 1 => e = 1
    BY <1>5
  <2> QED
    BY <1>4, <1>6, <2>1
<1> QED
  BY <1>2, <1>3, <1>7, <1>8 DEF FlowOf, Counted, Linked, tag, c, k1, other

(* SendPixelsDrain: what is drained before outer leaves a spare buffer. *)
LEMMA FlowDrained ==
  ASSUME NEW left, NEW rest, IsTail(rest, left), NEW first \in Seq(Tag), NEW free \in SUBSET Bufs,
         FlowOf(first, left, free, 2), first # <<>> => free # {}
  PROVE  FlowOf(first, rest, Freed(free, left[1]), 2)
<1>1. /\ OfUpdates(first) /\ OfUpdates(left) /\ Alternates(first) /\ Alternates(left)
      /\ EndsPaired(left) /\ Once(first) /\ Once(left) /\ Apart(first, left)
      /\ Lent(first, free) /\ Lent(left, free)
  BY DEF FlowOf, Pairs
<1>2. Pairs(first, rest, Freed(free, left[1]))
  BY <1>1, TailKeeps, OtherKeeps DEF Pairs
<1> DEFINE tag == left[1]
           e == EndsWithin(first)
           b == BeginsWithin(first)
           k == Cardinality(free)
           k1 == Cardinality(Freed(free, tag))
           size == Len(first)
           other == Len(left)
<1>3. /\ tag \in Bufs \union {Tfer} /\ tag \notin free /\ size \in Nat /\ other \in Nat \ {0}
      /\ Len(rest) = other - 1
  BY <1>1 DEF IsTail, OfUpdates, Lent
<1>4. /\ k \in Nat /\ MaxInFlight \in Int /\ k1 = IF tag = Tfer THEN k ELSE k + 1
      /\ e \in {0, 1} /\ b \in {0, 1} /\ (e = 1 => k > 0)
  <2>1. e = 1 => first # <<>>
    BY DEF EndsWithin
  <2>2. k \in Nat /\ (free # {} => k > 0)
    BY FreeCounts
  <2>3. k1 = IF tag = Tfer THEN k ELSE k + 1
    BY <1>3, FreedCounts
  <2>4. e \in {0, 1} /\ b \in {0, 1} /\ MaxInFlight \in Int
    BY DisplayAssumption DEF EndsWithin, BeginsWithin
  <2> QED
    BY <2>1, <2>2, <2>3, <2>4
<1>5. /\ BeginsWithin(left) = IF tag # Tfer THEN 1 ELSE 0
      /\ BeginsWithin(rest) = IF tag = Tfer THEN 1 ELSE 0
  <2>1. BeginsWithin(left) = IF tag # Tfer THEN 1 ELSE 0
    BY <1>3 DEF BeginsWithin
  <2>2. tag = Tfer => Len(rest) > 0
    BY <1>1, <1>3 DEF EndsPaired
  <2> QED
    BY <1>1, <2>1, <2>2, TailKeeps
<1>6. /\ size + other = 2 * (MaxInFlight - k) + e - b - BeginsWithin(left)
      /\ e = 1 => BeginsWithin(left) = 1 \/ k >= 2
  BY DEF FlowOf, Counted, Linked
<1> HIDE DEF tag, e, b, k, k1, size, other
<1>7. size + (other - 1) = 2 * (MaxInFlight - k1) + e - b - BeginsWithin(rest)
  <2>1. CASE tag = Tfer
    BY <1>3, <1>4, <1>5, <1>6, <2>1
  <2>2. CASE tag # Tfer
    BY <1>3, <1>4, <1>5, <1>6, <2>2
  <2> QED
    BY <2>1, <2>2
<1>8. e = 1 => k1 >= 2
  BY <1>4, <1>5, <1>6
<1> QED
  BY <1>2, <1>3, <1>7, <1>8 DEF FlowOf, Counted, Linked, tag, e, b, k1, size

(* SendPixelsSend: a pair for a buffer that was free. *)
LEMMA FlowSent ==
  ASSUME NEW first \in Seq(Tag), NEW left \in Seq(Tag), NEW longer \in Seq(Tag),
         NEW free \in SUBSET Bufs, NEW i \in free, FlowOf(first, left, free, 2),
         Len(longer) = Len(left) + 2, \A n \in 1 .. Len(left) : longer[n] = left[n],
         longer[Len(left) + 1] = Tfer, longer[Len(left) + 2] = i
  PROVE  FlowOf(first, longer, free \ {i}, 1)
<1>1. /\ OfUpdates(first) /\ OfUpdates(left) /\ Alternates(first) /\ Alternates(left)
      /\ EndsPaired(left) /\ Once(first) /\ Once(left) /\ Apart(first, left)
      /\ Lent(first, free) /\ Lent(left, free)
  BY DEF FlowOf, Pairs
<1> DEFINE size == Len(left)
<1>2. /\ size \in Nat /\ Len(longer) = size + 2 /\ i \in Bufs /\ i # Tfer /\ i \in Int
      /\ \A n \in 1 .. size : longer[n] = left[n]
      /\ longer[size + 1] = Tfer /\ longer[size + 2] = i
      /\ \A n \in 1 .. Len(longer) : n \in 1 .. size \/ n = size + 1 \/ n = size + 2
      /\ \A n \in 1 .. size : left[n] # i
      /\ \A n \in 1 .. Len(first) : first[n] # i
  BY <1>1, TagsDiffer DEF Lent, Bufs
<1>3. OfUpdates(longer)
  BY <1>1, <1>2 DEF OfUpdates
<1>4. Alternates(longer)
  <2> SUFFICES ASSUME NEW n \in 1 .. Len(longer) - 1 PROVE longer[n] = Tfer <=> longer[n + 1] # Tfer
    BY DEF Alternates
  <2>1. CASE n \in 1 .. size - 1
    <3>1. n \in 1 .. size /\ n + 1 \in 1 .. size
      BY <1>2, <2>1
    <3> QED
      BY <1>1, <1>2, <2>1, <3>1 DEF Alternates
  <2>2. CASE n = size
    BY <1>1, <1>2, <2>2 DEF EndsPaired
  <2>3. CASE n = size + 1
    BY <1>2, <2>3
  <2> QED
    BY <1>2, <2>1, <2>2, <2>3
<1>5. EndsPaired(longer)
  BY <1>2 DEF EndsPaired
<1>6. Once(longer)
  BY <1>1, <1>2 DEF Once
<1>7. Apart(first, longer)
  BY <1>1, <1>2 DEF Apart
<1>8. Lent(first, free \ {i}) /\ Lent(longer, free \ {i})
  <2>1. Tfer \notin free
    BY TagsDiffer
  <2> QED
    BY <1>1, <1>2, <2>1 DEF Lent
<1>9. BeginsWithin(longer) = BeginsWithin(left)
  BY <1>2 DEF BeginsWithin
<1>10. /\ Cardinality(free) \in Nat /\ Cardinality(free \ {i}) = Cardinality(free) - 1
       /\ MaxInFlight \in Int /\ Len(first) \in Nat
  BY FreeCounts, DisplayAssumption
<1>11. Counted(first, longer, free \ {i})
  <2> DEFINE e == EndsWithin(first)
             b == BeginsWithin(first)
             c == BeginsWithin(left)
             k == Cardinality(free)
  <2>1. e \in Int /\ b \in Int /\ c \in Int /\ k \in Int
    BY <1>10 DEF EndsWithin, BeginsWithin
  <2>2. Len(first) + size = 2 * (MaxInFlight - k) + e - b - c
    BY DEF FlowOf, Counted
  <2> HIDE DEF e, b, c, k, size
  <2>3. Len(first) + (size + 2) = 2 * (MaxInFlight - (k - 1)) + e - b - c
    BY <1>2, <1>10, <2>1, <2>2
  <2> QED
    BY <1>2, <1>9, <1>10, <2>3 DEF Counted, e, b, c, k
<1>12. Linked(first, longer, free \ {i}, 1)
  BY <1>9, <1>10 DEF FlowOf, Linked
<1> QED
  BY <1>1, <1>3, <1>4, <1>5, <1>6, <1>7, <1>8, <1>11, <1>12 DEF FlowOf, Pairs

LEMMA FlowRests ==
  ASSUME NEW first \in Seq(Tag), NEW left \in Seq(Tag), NEW free \in SUBSET Bufs, NEW spare,
         FlowOf(first, left, free, spare), spare = 2 \/ first = <<>>
  PROVE  FlowOf(first, left, free, 1) /\ (first = <<>> => FlowOf(first, left, free, 2))
<1>1. Cardinality(free) \in Nat
  BY FreeCounts
<1>2. first = <<>> => EndsWithin(first) = 0
  BY DEF EndsWithin
<1> QED
  BY <1>1, <1>2 DEF FlowOf, Linked

(* QSend never finds too few descriptors. *)
LEMMA FlowBudget ==
  ASSUME NEW first \in Seq(Tag), NEW left \in Seq(Tag), NEW free \in SUBSET Bufs,
         FlowOf(first, left, free, 1)
  PROVE  Len(first) + Len(left) <= 2 * MaxInFlight
<1> DEFINE e == EndsWithin(first)
           b == BeginsWithin(first)
           c == BeginsWithin(left)
           k == Cardinality(free)
<1>1. /\ e \in {0, 1} /\ b \in {0, 1} /\ c \in {0, 1} /\ k \in Nat /\ MaxInFlight \in Nat
      /\ Len(first) \in Nat /\ Len(left) \in Nat
  BY FreeCounts, DisplayAssumption DEF EndsWithin, BeginsWithin
<1>2. /\ Len(first) + Len(left) = 2 * (MaxInFlight - k) + e - b - c
      /\ e = 1 => c = 1 \/ k >= 1
  BY DEF FlowOf, Counted, Linked
<1> HIDE DEF e, b, c, k
<1> QED
  BY <1>1, <1>2

-----------------------------------------------------------------------------
(* What the operations on the queues do to what is left. *)

LEMMA LeftShape ==
  ASSUME NEW c \in Seq(Tag), NEW r \in Seq(Tag), NEW g \in Seq(Message)
  PROVE  /\ LeftOf(c, r, g) \in Seq(Tag)
         /\ Len(LeftOf(c, r, g)) = Len(c) + Len(r) + Len(g)
         /\ \A n \in 1 .. Len(c) : LeftOf(c, r, g)[n] = c[n]
         /\ \A n \in 1 .. Len(r) : LeftOf(c, r, g)[Len(c) + n] = r[n]
         /\ \A n \in 1 .. Len(g) : LeftOf(c, r, g)[Len(c) + Len(r) + n] = g[n].tag
<1>1. Len(c) \in Nat /\ Len(r) \in Nat /\ Len(g) \in Nat
  OBVIOUS
<1>2. \A m \in Message : m.tag \in Tag
  BY DEF Message, Update, Command, Tag
<1>3. ASSUME NEW n \in 1 .. Len(c) + Len(r) + Len(g) PROVE LeftOf(c, r, g)[n] \in Tag
  <2>1. CASE n <= Len(c)
    BY <1>1, <2>1 DEF LeftOf
  <2>2. CASE ~(n <= Len(c)) /\ n <= Len(c) + Len(r)
    <3>1. n - Len(c) \in 1 .. Len(r)
      BY <1>1, <2>2
    <3> QED
      BY <2>2, <3>1 DEF LeftOf
  <2>3. CASE ~(n <= Len(c)) /\ ~(n <= Len(c) + Len(r))
    <3>1. n - Len(c) - Len(r) \in 1 .. Len(g)
      BY <1>1, <2>3
    <3>2. g[n - Len(c) - Len(r)] \in Message
      BY <3>1
    <3> QED
      BY <1>2, <2>3, <3>2 DEF LeftOf
  <2> QED
    BY <2>1, <2>2, <2>3
<1>4. LeftOf(c, r, g) \in [1 .. Len(c) + Len(r) + Len(g) -> Tag]
  BY <1>3 DEF LeftOf
<1>5. LeftOf(c, r, g) \in Seq(Tag) /\ Len(LeftOf(c, r, g)) = Len(c) + Len(r) + Len(g)
  <2> DEFINE k == Len(c) + Len(r) + Len(g)
             s == LeftOf(c, r, g)
  <2>1. k \in Nat /\ s \in [1 .. k -> Tag]
    BY <1>1, <1>4
  <2> HIDE DEF k, s
  <2>2. s \in Seq(Tag) /\ Len(s) = k
    BY <2>1
  <2> QED
    BY <2>2 DEF s, k
<1>6. \A n \in 1 .. Len(c) : LeftOf(c, r, g)[n] = c[n]
  BY <1>1 DEF LeftOf
<1>7. \A n \in 1 .. Len(r) : LeftOf(c, r, g)[Len(c) + n] = r[n]
  <2> SUFFICES ASSUME NEW n \in 1 .. Len(r) PROVE LeftOf(c, r, g)[Len(c) + n] = r[n]
    OBVIOUS
  <2>1. Len(c) + n \in 1 .. Len(c) + Len(r) + Len(g) /\ ~(Len(c) + n <= Len(c))
        /\ Len(c) + n <= Len(c) + Len(r) /\ (Len(c) + n) - Len(c) = n
    BY <1>1
  <2> QED
    BY <2>1 DEF LeftOf
<1>8. \A n \in 1 .. Len(g) : LeftOf(c, r, g)[Len(c) + Len(r) + n] = g[n].tag
  <2> SUFFICES ASSUME NEW n \in 1 .. Len(g) PROVE LeftOf(c, r, g)[Len(c) + Len(r) + n] = g[n].tag
    OBVIOUS
  <2> DEFINE m == Len(c) + Len(r) + n
  <2>1. m \in 1 .. Len(c) + Len(r) + Len(g) /\ ~(m <= Len(c))
        /\ ~(m <= Len(c) + Len(r)) /\ m - Len(c) - Len(r) = n
    BY <1>1
  <2> HIDE DEF m
  <2>2. LeftOf(c, r, g)[m] = g[n].tag
    BY <2>1 DEF LeftOf
  <2> QED
    BY <2>2 DEF m
<1> QED
  BY <1>5, <1>6, <1>7, <1>8

LEMMA SameLeft ==
  ASSUME NEW s \in Seq(Tag), NEW t \in Seq(Tag), Len(s) = Len(t),
         \A n \in 1 .. Len(s) : s[n] = t[n]
  PROVE  s = t
OBVIOUS

LEMMA LeftReturned ==
  ASSUME NEW c \in Seq(Tag), NEW r \in Seq(Tag), NEW g \in Seq(Message), g # <<>>
  PROVE  LeftOf(c, Append(r, Head(g).tag), Tail(g)) = LeftOf(c, r, g)
<1> DEFINE r1 == Append(r, Head(g).tag)
           g1 == Tail(g)
           cs == Len(c)
           rs == Len(r)
           gs == Len(g)
<1>1. Head(g) \in Message /\ g1 \in Seq(Message) /\ Len(g1) = gs - 1 /\ gs \in Nat \ {0}
      /\ cs \in Nat /\ rs \in Nat
  OBVIOUS
<1>2. Head(g).tag \in Tag /\ Head(g) = g[1]
  BY <1>1 DEF Message, Update, Command, Tag
<1>3. r1 \in Seq(Tag) /\ Len(r1) = rs + 1 /\ r1[rs + 1] = g[1].tag
      /\ \A n \in 1 .. rs : r1[n] = r[n]
  BY <1>2
<1>4. \A n \in 1 .. gs - 1 : g1[n] = g[n + 1]
  BY <1>1
<1>5. /\ Len(LeftOf(c, r1, g1)) = cs + (rs + 1) + (gs - 1)
      /\ \A n \in 1 .. cs : LeftOf(c, r1, g1)[n] = c[n]
      /\ \A n \in 1 .. rs + 1 : LeftOf(c, r1, g1)[cs + n] = r1[n]
      /\ \A n \in 1 .. gs - 1 : LeftOf(c, r1, g1)[cs + (rs + 1) + n] = g1[n].tag
      /\ LeftOf(c, r1, g1) \in Seq(Tag)
  <2> HIDE DEF r1, g1
  <2>1. /\ Len(LeftOf(c, r1, g1)) = Len(c) + Len(r1) + Len(g1)
        /\ \A n \in 1 .. Len(c) : LeftOf(c, r1, g1)[n] = c[n]
        /\ \A n \in 1 .. Len(r1) : LeftOf(c, r1, g1)[Len(c) + n] = r1[n]
        /\ \A n \in 1 .. Len(g1) : LeftOf(c, r1, g1)[Len(c) + Len(r1) + n] = g1[n].tag
        /\ LeftOf(c, r1, g1) \in Seq(Tag)
    <3>1. c \in Seq(Tag) /\ r1 \in Seq(Tag) /\ g1 \in Seq(Message)
      BY <1>1, <1>3
    <3> QED
      BY <3>1, LeftShape, Zenon
  <2>2. Len(r1) = rs + 1 /\ Len(g1) = gs - 1
    BY <1>1, <1>3
  <2> QED
    BY <2>1, <2>2, Zenon
<1>6. /\ Len(LeftOf(c, r, g)) = cs + rs + gs
      /\ \A n \in 1 .. cs : LeftOf(c, r, g)[n] = c[n]
      /\ \A n \in 1 .. rs : LeftOf(c, r, g)[cs + n] = r[n]
      /\ \A n \in 1 .. gs : LeftOf(c, r, g)[cs + rs + n] = g[n].tag
      /\ LeftOf(c, r, g) \in Seq(Tag)
  BY LeftShape
<1> DEFINE s == LeftOf(c, r1, g1)
           t == LeftOf(c, r, g)
<1> HIDE DEF s, t, r1, g1, cs, rs, gs
<1>7. ASSUME NEW n \in 1 .. cs + rs + gs PROVE s[n] = t[n]
  <2>1. CASE n <= cs
    BY <1>1, <1>5, <1>6, <2>1 DEF s, t
  <2>2. CASE ~(n <= cs) /\ n <= cs + rs
    <3>1. PICK k \in 1 .. rs : n = cs + k
      <4>1. n - cs \in 1 .. rs /\ n = cs + (n - cs)
        BY <1>1, <2>2
      <4> QED
        BY <4>1
    <3>2. k \in 1 .. rs + 1
      BY <1>1
    <3> QED
      BY <1>3, <1>5, <1>6, <3>1, <3>2 DEF s, t
  <2>3. CASE n = cs + rs + 1
    <3>1. rs + 1 \in 1 .. rs + 1 /\ 1 \in 1 .. gs /\ n = cs + (rs + 1)
      BY <1>1, <2>3
    <3>2. s[n] = r1[rs + 1] /\ t[n] = g[1].tag
      BY <1>5, <1>6, <2>3, <3>1 DEF s, t
    <3> QED
      BY <1>3, <3>2
  <2>4. CASE ~(n <= cs + rs + 1)
    <3>1. PICK k \in 1 .. gs - 1 : n = cs + (rs + 1) + k
      <4>1. n - (cs + rs + 1) \in 1 .. gs - 1 /\ n = cs + (rs + 1) + (n - (cs + rs + 1))
        BY <1>1, <2>4
      <4> QED
        BY <4>1
    <3>2. k + 1 \in 1 .. gs /\ n = cs + rs + (k + 1)
      BY <1>1, <3>1
    <3>3. s[n] = g1[k].tag /\ t[n] = g[k + 1].tag
      BY <1>5, <1>6, <3>1, <3>2 DEF s, t
    <3> QED
      BY <1>4, <3>3
  <2> QED
    BY <1>1, <2>1, <2>2, <2>3, <2>4
<1>8. s \in Seq(Tag) /\ t \in Seq(Tag) /\ Len(s) = cs + rs + gs /\ Len(t) = cs + rs + gs
  BY <1>1, <1>5, <1>6 DEF s, t
<1>9. s = t
  BY <1>7, <1>8, SameLeft
<1> QED
  BY <1>9 DEF s, t, r1, g1

LEMMA LeftClaimed ==
  ASSUME NEW r \in Seq(Tag), NEW g \in Seq(Message)
  PROVE  LeftOf(r, <<>>, g) = LeftOf(<<>>, r, g)
BY DEF LeftOf

LEMMA LeftDrained ==
  ASSUME NEW c \in Seq(Tag), NEW r \in Seq(Tag), NEW g \in Seq(Message), c # <<>>
  PROVE  IsTail(LeftOf(Tail(c), r, g), LeftOf(c, r, g)) /\ LeftOf(c, r, g)[1] = Head(c)
<1> DEFINE c1 == Tail(c)
           cs == Len(c)
           rs == Len(r)
           gs == Len(g)
           s == LeftOf(c1, r, g)
           t == LeftOf(c, r, g)
<1>1. c1 \in Seq(Tag) /\ cs \in Nat \ {0} /\ rs \in Nat /\ gs \in Nat /\ Len(c1) = cs - 1
      /\ Head(c) = c[1] /\ \A n \in 1 .. cs - 1 : c1[n] = c[n + 1]
  OBVIOUS
<1>2. /\ Len(s) = (cs - 1) + rs + gs
      /\ \A n \in 1 .. cs - 1 : s[n] = c1[n]
      /\ \A n \in 1 .. rs : s[(cs - 1) + n] = r[n]
      /\ \A n \in 1 .. gs : s[(cs - 1) + rs + n] = g[n].tag
      /\ s \in Seq(Tag)
  <2> HIDE DEF c1
  <2>1. /\ Len(s) = Len(c1) + Len(r) + Len(g)
        /\ \A n \in 1 .. Len(c1) : s[n] = c1[n]
        /\ \A n \in 1 .. Len(r) : s[Len(c1) + n] = r[n]
        /\ \A n \in 1 .. Len(g) : s[Len(c1) + Len(r) + n] = g[n].tag
        /\ s \in Seq(Tag)
    BY <1>1, LeftShape
  <2>2. Len(c1) = cs - 1
    BY <1>1
  <2> QED
    BY <2>1, <2>2, Zenon
<1>3. /\ Len(t) = cs + rs + gs
      /\ \A n \in 1 .. cs : t[n] = c[n]
      /\ \A n \in 1 .. rs : t[cs + n] = r[n]
      /\ \A n \in 1 .. gs : t[cs + rs + n] = g[n].tag
      /\ t \in Seq(Tag)
  BY LeftShape
<1> HIDE DEF s, t, c1, cs, rs, gs
<1>4. ASSUME NEW n \in 1 .. (cs - 1) + rs + gs PROVE s[n] = t[n + 1]
  <2>1. CASE n <= cs - 1
    <3>1. n \in 1 .. cs - 1 /\ n + 1 \in 1 .. cs
      BY <1>1, <2>1
    <3> QED
      BY <1>1, <1>2, <1>3, <3>1
  <2>2. CASE ~(n <= cs - 1) /\ n <= (cs - 1) + rs
    <3>1. n - (cs - 1) \in 1 .. rs /\ n = (cs - 1) + (n - (cs - 1)) /\ n + 1 = cs + (n - (cs - 1))
      BY <1>1, <2>2
    <3>2. PICK k \in 1 .. rs : n = (cs - 1) + k /\ n + 1 = cs + k
      BY <3>1
    <3> QED
      BY <1>2, <1>3, <3>2
  <2>3. CASE ~(n <= (cs - 1) + rs)
    <3> DEFINE m == n - ((cs - 1) + rs)
    <3>1. m \in 1 .. gs /\ n = (cs - 1) + rs + m /\ n + 1 = cs + rs + m
      BY <1>1, <2>3
    <3> HIDE DEF m
    <3> QED
      BY <1>2, <1>3, <3>1
  <2> QED
    BY <1>1, <2>1, <2>2, <2>3
<1>5. 1 \in 1 .. cs
  BY <1>1
<1>6. t[1] = Head(c)
  BY <1>1, <1>3, <1>5
<1>7. Len(t) > 0 /\ Len(s) = Len(t) - 1
  BY <1>1, <1>2, <1>3
<1>8. IsTail(s, t)
  BY <1>2, <1>3, <1>4, <1>7 DEF IsTail
<1> QED
  BY <1>6, <1>8 DEF s, t, c1

LEMMA LeftUnclaimed ==
  ASSUME NEW r \in Seq(Tag), NEW g \in Seq(Message)
  PROVE  /\ LeftOf(<<>>, r, g) \in Seq(Tag)
         /\ Len(LeftOf(<<>>, r, g)) = Len(r) + Len(g)
         /\ \A n \in 1 .. Len(r) : LeftOf(<<>>, r, g)[n] = r[n]
         /\ \A n \in 1 .. Len(g) : LeftOf(<<>>, r, g)[Len(r) + n] = g[n].tag
<1>1. PICK c \in Seq(Tag) : c = <<>>
  <2>1. <<>> \in Seq(Tag)
    OBVIOUS
  <2> QED
    BY <2>1, Zenon
<1> DEFINE s == LeftOf(c, r, g)
<1>2. /\ s \in Seq(Tag)
      /\ Len(s) = Len(c) + Len(r) + Len(g)
      /\ \A n \in 1 .. Len(r) : s[Len(c) + n] = r[n]
      /\ \A n \in 1 .. Len(g) : s[Len(c) + Len(r) + n] = g[n].tag
  BY LeftShape
<1>3. Len(c) = 0 /\ Len(r) \in Nat /\ Len(g) \in Nat
  BY <1>1
<1>4. s = LeftOf(<<>>, r, g)
  BY <1>1
<1> HIDE DEF s
<1>5. /\ Len(s) = Len(r) + Len(g)
      /\ \A n \in 1 .. Len(r) : s[n] = r[n]
      /\ \A n \in 1 .. Len(g) : s[Len(r) + n] = g[n].tag
  BY <1>2, <1>3
<1> QED
  BY <1>2, <1>4, <1>5, Zenon

LEMMA FlowClaimed ==
  ASSUME NEW r \in Seq(Tag), NEW later \in Seq(Tag), NEW g \in Seq(Message),
         NEW free \in SUBSET Bufs, NEW spare, NEW spare1,
         FlowOf(<<>>, LeftOf(<<>>, r \o later, g), free, spare)
  PROVE  FlowOf(r, LeftOf(<<>>, later, g), free, spare1)
<1> DEFINE u == r \o later
           s == LeftOf(<<>>, u, g)
           t == LeftOf(<<>>, later, g)
           rs == Len(r)
           ls == Len(later)
           gs == Len(g)
<1>1. /\ u \in Seq(Tag) /\ Len(u) = rs + ls /\ \A n \in 1 .. rs : u[n] = r[n]
      /\ rs \in Nat /\ ls \in Nat /\ gs \in Nat
  OBVIOUS
<1>2. \A n \in 1 .. ls : u[rs + n] = later[n]
  OBVIOUS
<1>3. /\ s \in Seq(Tag) /\ Len(s) = (rs + ls) + gs
      /\ \A n \in 1 .. rs + ls : s[n] = u[n]
      /\ \A n \in 1 .. gs : s[(rs + ls) + n] = g[n].tag
  <2> HIDE DEF u
  <2>1. /\ s \in Seq(Tag) /\ Len(s) = Len(u) + Len(g)
        /\ \A n \in 1 .. Len(u) : s[n] = u[n]
        /\ \A n \in 1 .. Len(g) : s[Len(u) + n] = g[n].tag
    BY <1>1, LeftUnclaimed, Zenon
  <2> HIDE DEF s
  <2> QED
    BY <1>1, <2>1, Zenon
<1>4. /\ t \in Seq(Tag) /\ Len(t) = ls + gs
      /\ \A n \in 1 .. ls : t[n] = later[n]
      /\ \A n \in 1 .. gs : t[ls + n] = g[n].tag
  <2>1. /\ t \in Seq(Tag) /\ Len(t) = Len(later) + Len(g)
        /\ \A n \in 1 .. Len(later) : t[n] = later[n]
        /\ \A n \in 1 .. Len(g) : t[Len(later) + n] = g[n].tag
    BY <1>1, LeftUnclaimed, Zenon
  <2> HIDE DEF t
  <2> QED
    BY <1>1, <2>1, Zenon
<1>5. FlowOf(<<>>, s, free, spare)
  OBVIOUS
<1> HIDE DEF s, t, u, rs, ls, gs
<1>6. Len(s) = rs + Len(t)
  BY <1>1, <1>3, <1>4
<1>7. \A n \in 1 .. rs : r[n] = s[n]
  <2> SUFFICES ASSUME NEW n \in 1 .. rs PROVE r[n] = s[n]
    OBVIOUS
  <2>1. n \in 1 .. rs + ls
    BY <1>1
  <2> QED
    BY <1>1, <1>3, <2>1
<1>8. \A n \in 1 .. Len(t) : t[n] = s[rs + n]
  <2> SUFFICES ASSUME NEW n \in 1 .. Len(t) PROVE t[n] = s[rs + n]
    OBVIOUS
  <2>1. CASE n <= ls
    <3>1. n \in 1 .. ls /\ rs + n \in 1 .. rs + ls
      BY <1>1, <1>4, <2>1
    <3>2. t[n] = later[n] /\ s[rs + n] = u[rs + n]
      BY <1>3, <1>4, <3>1
    <3> QED
      BY <1>2, <3>1, <3>2
  <2>2. CASE ~(n <= ls)
    <3> DEFINE m == n - ls
    <3>1. m \in 1 .. gs /\ ls + m = n /\ (rs + ls) + m = rs + n
      BY <1>1, <1>4, <2>2
    <3> HIDE DEF m
    <3> QED
      BY <1>3, <1>4, <3>1
  <2> QED
    BY <2>1, <2>2
<1>9. r \in Seq(Tag) /\ Len(s) = Len(r) + Len(t) /\ (\A n \in 1 .. Len(r) : r[n] = s[n])
      /\ \A n \in 1 .. Len(t) : t[n] = s[Len(r) + n]
  BY <1>6, <1>7, <1>8 DEF rs
<1>10. FlowOf(r, t, free, spare1)
  BY <1>3, <1>4, <1>5, <1>9, FlowSplit
<1> QED
  BY <1>10 DEF t

LEMMA FlowSentOn ==
  ASSUME NEW first \in Seq(Tag), NEW r \in Seq(Tag), NEW g \in Seq(Message),
         NEW free \in SUBSET Bufs, NEW i \in free, NEW m1 \in Message, NEW m2 \in Message,
         m1.tag = Tfer, m2.tag = i, FlowOf(first, LeftOf(<<>>, r, g), free, 2)
  PROVE  FlowOf(first, LeftOf(<<>>, r, g \o <<m1, m2>>), free \ {i}, 1)
<1> DEFINE h == g \o <<m1, m2>>
           s == LeftOf(<<>>, r, g)
           t == LeftOf(<<>>, r, h)
           rs == Len(r)
           gs == Len(g)
<1>1. /\ h \in Seq(Message) /\ Len(h) = gs + 2 /\ (\A n \in 1 .. gs : h[n] = g[n])
      /\ h[gs + 1] = m1 /\ h[gs + 2] = m2
      /\ rs \in Nat /\ gs \in Nat
  OBVIOUS
<1>2. /\ s \in Seq(Tag) /\ Len(s) = rs + gs
      /\ \A n \in 1 .. rs : s[n] = r[n]
      /\ \A n \in 1 .. gs : s[rs + n] = g[n].tag
  <2>1. /\ s \in Seq(Tag) /\ Len(s) = Len(r) + Len(g)
        /\ \A n \in 1 .. Len(r) : s[n] = r[n]
        /\ \A n \in 1 .. Len(g) : s[Len(r) + n] = g[n].tag
    BY <1>1, LeftUnclaimed, Zenon
  <2> HIDE DEF s
  <2> QED
    BY <1>1, <2>1, Zenon
<1>3. /\ t \in Seq(Tag) /\ Len(t) = rs + (gs + 2)
      /\ \A n \in 1 .. rs : t[n] = r[n]
      /\ \A n \in 1 .. gs + 2 : t[rs + n] = h[n].tag
  <2> HIDE DEF h
  <2>1. /\ t \in Seq(Tag) /\ Len(t) = Len(r) + Len(h)
        /\ \A n \in 1 .. Len(r) : t[n] = r[n]
        /\ \A n \in 1 .. Len(h) : t[Len(r) + n] = h[n].tag
    BY <1>1, LeftUnclaimed, Zenon
  <2> HIDE DEF t
  <2> QED
    BY <1>1, <2>1, Zenon
<1>4. FlowOf(first, s, free, 2)
  OBVIOUS
<1> HIDE DEF s, t, h, rs, gs
<1>5. Len(t) = Len(s) + 2 /\ Len(s) = rs + gs
  BY <1>1, <1>2, <1>3
<1>6. \A n \in 1 .. Len(s) : t[n] = s[n]
  <2> SUFFICES ASSUME NEW n \in 1 .. Len(s) PROVE t[n] = s[n]
    OBVIOUS
  <2>1. CASE n <= rs
    <3>1. n \in 1 .. rs
      BY <1>1, <1>5, <2>1
    <3> QED
      BY <1>2, <1>3, <3>1
  <2>2. CASE ~(n <= rs)
    <3> DEFINE m == n - rs
    <3>1. m \in 1 .. gs /\ m \in 1 .. gs + 2 /\ rs + m = n
      BY <1>1, <1>5, <2>2
    <3> HIDE DEF m
    <3>2. s[n] = g[m].tag /\ t[n] = h[m].tag
      BY <1>2, <1>3, <3>1
    <3> QED
      BY <1>1, <3>1, <3>2
  <2> QED
    BY <2>1, <2>2
<1>7. t[Len(s) + 1] = Tfer /\ t[Len(s) + 2] = i
  <2>1. /\ gs + 1 \in 1 .. gs + 2 /\ rs + (gs + 1) = Len(s) + 1
        /\ gs + 2 \in 1 .. gs + 2 /\ rs + (gs + 2) = Len(s) + 2
    BY <1>1, <1>5
  <2>2. t[rs + (gs + 1)] = h[gs + 1].tag /\ t[rs + (gs + 2)] = h[gs + 2].tag
    BY <1>3, <2>1
  <2> QED
    BY <1>1, <2>1, <2>2
<1>8. FlowOf(first, t, free \ {i}, 1)
  BY <1>2, <1>3, <1>4, <1>5, <1>6, <1>7, FlowSent
<1> QED
  BY <1>8 DEF t, h

LEMMA LeftEmpty ==
  ASSUME NEW c \in Seq(Tag), NEW r \in Seq(Tag), NEW g \in Seq(Message)
  PROVE  /\ LeftOf(c, r, g) = <<>> => c = <<>> /\ r = <<>> /\ g = <<>>
         /\ LeftOf(<<>>, <<>>, <<>>) = <<>>
<1>1. Len(LeftOf(c, r, g)) = Len(c) + Len(r) + Len(g)
  BY LeftShape
<1>2. LeftOf(c, r, g) = <<>> => Len(c) = 0 /\ Len(r) = 0 /\ Len(g) = 0
  BY <1>1
<1>3. <<>> \in Seq(Tag) /\ <<>> \in Seq(Message) /\ Len(<<>>) = 0
  OBVIOUS
<1>4. LeftOf(<<>>, <<>>, <<>>) \in Seq(Tag) /\ Len(LeftOf(<<>>, <<>>, <<>>)) = 0 + 0 + 0
  <2>1. /\ LeftOf(<<>>, <<>>, <<>>) \in Seq(Tag)
        /\ Len(LeftOf(<<>>, <<>>, <<>>)) = Len(<<>>) + Len(<<>>) + Len(<<>>)
    BY <1>3, LeftShape, Zenon
  <2> QED
    BY <1>3, <2>1, Zenon
<1>5. LeftOf(<<>>, <<>>, <<>>) = <<>>
  BY <1>4
<1> QED
  BY <1>2, <1>5

LEMMA LeastExists ==
  ASSUME NEW S \in SUBSET Nat, S # {}
  PROVE  \E x \in S : \A y \in S : x <= y
<1> DEFINE Less == {p \in Nat \X Nat : p[1] < p[2]}
<1>1. IsWellFoundedOn(Less, Nat)
  BY NatLessThanWellFounded DEF OpToRel
<1>2. PICK x \in S : \A y \in S : ~(<<y, x>> \in Less)
  <2> HIDE DEF Less
  <2> QED
    BY <1>1, WFMin, Zenon
<1>3. \A y \in S : ~(y < x)
  BY <1>2
<1> QED
  BY <1>3

(* The buffer that sendPixels takes is a free one. *)
LEMMA MinIsFree == ASSUME freebufs \subseteq Bufs, freebufs # {} PROVE Min(freebufs) \in freebufs
<1>1. freebufs \in SUBSET Nat
  BY DisplayAssumption DEF Bufs
<1>2. \E x \in freebufs : \A y \in freebufs : x <= y
  BY <1>1, LeastExists
<1> QED
  BY <1>2 DEF Min

-----------------------------------------------------------------------------
(* The type invariant, with the shape of torn. *)
Queues ==
  /\ inner \in Seq(Tag) /\ outer \in Seq(Tag) /\ used \in Seq(Tag) /\ avail \in Seq(Message)
  /\ torn \in [active : BOOLEAN, read : Seq(Tag), since : Seq(Tag)]

Typed == TypeOK /\ Queues

LEMMA HullWithin == ASSUME NEW s PROVE Hull(s) \subseteq Tiles
BY DEF Hull

LEMMA QueuesStep == ASSUME TypeOK, Queues, Next PROVE Queues'
<1> USE DEF Queues
<1>1. /\ freebufs \subseteq Bufs /\ rect \subseteq Tiles /\ cmd \in Commands
      /\ screenResource \in Resources
  BY DEF TypeOK
<1>2. Target(cmd) \in Resources
  BY <1>1 DEF Target, NewResource, Resources
<1>3. /\ SendPixelsSend => avail' \in Seq(Message)
      /\ TransactSend => avail' \in Seq(Message)
  <2>1. ASSUME SendPixelsSend PROVE avail' \in Seq(Message)
    <3> DEFINE i == Min(freebufs)
    <3>1. i \in Bufs
      BY <1>1, <2>1, MinIsFree DEF SendPixelsSend
    <3> HIDE DEF i
    <3>2. UpdateMessage(Tfer, i) \in Message /\ UpdateMessage(i, i) \in Message
      BY <1>1, <3>1 DEF UpdateMessage, Message, Update
    <3>3. UpdateMessages(i) \in Seq(Message)
      BY <3>2 DEF UpdateMessages
    <3>4. avail' = avail \o UpdateMessages(i)
      BY <2>1 DEF SendPixelsSend, i
    <3> QED
      BY <3>3, <3>4
  <2>2. ASSUME TransactSend PROVE avail' \in Seq(Message)
    <3>1. [tag |-> Done, cmd |-> cmd, res |-> Target(cmd)] \in Message
      BY <1>1, <1>2 DEF Message, Command
    <3> QED
      BY <2>2, <3>1 DEF TransactSend
  <2> QED
    BY <2>1, <2>2
<1>4. ASSUME NEW tag \in Tag, Return(tag), avail # <<>> PROVE Queues'
  <2>1. torn' \in [active : BOOLEAN, read : Seq(Tag), since : Seq(Tag)]
    <3> DEFINE since1 == Append(torn.since, tag)
    <3>1. since1 \in Seq(Tag)
      <4>1. torn.since \in Seq(Tag)
        OBVIOUS
      <4> QED
        BY <4>1
    <3>2. torn' = torn \/ torn' = [torn EXCEPT !.since = since1]
      BY <1>4, Zenon DEF Return
    <3> HIDE DEF since1
    <3>3. [torn EXCEPT !.since = since1] \in [active : BOOLEAN, read : Seq(Tag), since : Seq(Tag)]
      BY <3>1, Zenon
    <3> QED
      BY <3>2, <3>3, Zenon
  <2> QED
    BY <1>4, <2>1 DEF Return, sendVars
<1>5. \A m \in Message : m.tag \in Tag
  BY DEF Message, Update, Command, Tag
<1>6. ASSUME Device PROVE Queues'
  <2>1. CASE DeviceTransfer
    BY <1>4, <2>1 DEF DeviceTransfer, Tag
  <2>2. CASE DeviceFlush
    BY <1>4, <2>2 DEF DeviceFlush, Tag
  <2>3. CASE DeviceCommand
    BY <1>4, <2>3 DEF DeviceCommand, Tag
  <2> QED
    BY <1>6, <2>1, <2>2, <2>3 DEF Device
<1>7. QPollRead \/ QPollStore => Queues'
  <2>1. /\ <<>> \in Seq(Tag) /\ torn.read \in Seq(Tag) /\ torn.since \in Seq(Tag)
    OBVIOUS
  <2>2. QPollRead => torn' = [active |-> TRUE, read |-> used, since |-> <<>>]
    BY DEF QPollRead
  <2>3. QPollStore => torn' = [active |-> FALSE, read |-> <<>>, since |-> <<>>]
    BY DEF QPollStore, NotTorn
  <2>7. QPollRead => torn' \in [active : BOOLEAN, read : Seq(Tag), since : Seq(Tag)]
    <3>1. [active |-> TRUE, read |-> used, since |-> <<>>]
             \in [active : BOOLEAN, read : Seq(Tag), since : Seq(Tag)]
      BY <2>1, Zenon
    <3> QED
      BY <2>2, <3>1, Zenon
  <2>4. QPollStore => torn' \in [active : BOOLEAN, read : Seq(Tag), since : Seq(Tag)]
    <3>1. [active |-> FALSE, read |-> <<>>, since |-> <<>>]
             \in [active : BOOLEAN, read : Seq(Tag), since : Seq(Tag)]
      BY <2>1, Zenon
    <3> QED
      BY <2>3, <3>1, Zenon
  <2>5. QPollRead \/ QPollStore =>
          /\ inner' = inner /\ avail' = avail
          /\ outer' \in {outer, torn.read} /\ used' \in {used, torn.since}
    BY Zenon DEF QPollRead, QPollStore
  <2> HIDE DEF Queues
  <2>6. inner \in Seq(Tag) /\ outer \in Seq(Tag) /\ used \in Seq(Tag) /\ avail \in Seq(Message)
    BY DEF Queues
  <2> QED
    BY <2>1, <2>7, <2>4, <2>5, <2>6, Zenon DEF Queues
<1> HIDE DEF Queues
<1>8. \/ Device \/ QPollRead \/ QPollStore
      \/ /\ torn' = torn
         /\ avail' = avail \/ SendPixelsSend \/ TransactSend
         /\ inner' \in {inner, used} \/ (inner # <<>> /\ inner' = Tail(inner))
         /\ outer' \in {outer, used} \/ (outer # <<>> /\ outer' = Tail(outer))
         /\ used' \in {used, <<>>}
  BY DEF Next, Secondary, Sending, MainGoesOn, pollVars, SendPixelsPoll, SendPixelsDrain,
         SendPixelsWait, SendPixelsSend, PollEntry, QNotified, QNotifiedAgain, QNotifiedReturn,
         VBL, UpdateScreenBlit, UpdateScreenSend, DebugPollUpdate, PerfTestUpdate, PerfTestEnd,
         TransactSend, TransactDone, ModeFails, ModeDone, DebugPoll, SetMode, Draw
<1> QED
  <2>1. ASSUME NEW s \in Seq(Tag), s # <<>> PROVE Tail(s) \in Seq(Tag)
    BY <2>1
  <2>2. inner \in Seq(Tag) /\ outer \in Seq(Tag) /\ used \in Seq(Tag) /\ avail \in Seq(Message)
        /\ <<>> \in Seq(Tag) /\ torn \in [active : BOOLEAN, read : Seq(Tag), since : Seq(Tag)]
    BY DEF Queues
  <2>3. /\ inner # <<>> => Tail(inner) \in Seq(Tag)
        /\ outer # <<>> => Tail(outer) \in Seq(Tag)
    BY <2>1, <2>2, Zenon
  <2> QED
    BY <1>3, <1>6, <1>7, <1>8, <2>2, <2>3, Zenon DEF Queues

LEMMA TypeStep == ASSUME TypeOK, Queues, Control, Next PROVE TypeOK'
<1>1. Queues'
  BY QueuesStep
<1>2. stage' \in [Tiles -> Stages]
  <2>1. stage \in [Tiles -> Stages]
    BY DEF TypeOK
  <2>2. \/ stage' = stage
        \/ \E a : stage' = Blitted(a)
        \/ \E a : stage' = [t \in Tiles |-> IF t \in a THEN "back" ELSE stage[t]]
        \/ stage' = [t \in Tiles |-> "back"]
        \/ \E a : Advance(a, "front", "host") \/ Advance(a, "host", "shown")
    BY DEF Next, Secondary, Sending, MainGoesOn, Device, screenVars, SendPixelsPoll, SendPixelsDrain,
         SendPixelsWait, SendPixelsSend, PollEntry, QNotified, QNotifiedAgain, QNotifiedReturn,
         VBL, UpdateScreenBlit, UpdateScreenSend, DebugPollUpdate, PerfTestUpdate, PerfTestEnd,
         TransactSend, TransactDone, ModeFails, ModeDone, DebugPoll, SetMode, Draw, QPollRead,
         QPollStore, DeviceTransfer, DeviceFlush, DeviceCommand
  <2> QED
    BY <2>1, <2>2 DEF Blitted, Advance, Stages
<1>3. freebufs' \subseteq Bufs /\ lastTag' \in Tag \union {Wait}
  <2>1. /\ freebufs \subseteq Bufs /\ lastTag \in Tag \union {Wait}
        /\ inner \in Seq(Tag) /\ outer \in Seq(Tag)
    BY DEF TypeOK, Queues
  <2>2. \/ freebufs' = freebufs /\ lastTag' \in {lastTag, Wait}
        \/ inner # <<>> /\ Notify(Head(inner))
        \/ outer # <<>> /\ Notify(Head(outer))
        \/ lastTag' = lastTag /\ \E i : freebufs' = freebufs \ {i}
    BY DEF Next, Secondary, Sending, MainGoesOn, Device, sendVars, SendPixelsPoll, SendPixelsDrain,
         SendPixelsWait, SendPixelsSend, PollEntry, QNotified, QNotifiedAgain, QNotifiedReturn,
         VBL, UpdateScreenBlit, UpdateScreenSend, DebugPollUpdate, PerfTestUpdate, PerfTestEnd,
         TransactSend, TransactDone, ModeFails, ModeDone, DebugPoll, SetMode, Draw, QPollRead,
         QPollStore, DeviceTransfer, DeviceFlush, DeviceCommand, Return
  <2> QED
    BY <2>1, <2>2 DEF Notify
<1>4. pending' \subseteq Tiles /\ rect' \subseteq Tiles /\ area' \subseteq Tiles
  <2>1. pending \subseteq Tiles /\ rect \subseteq Tiles /\ area \subseteq Tiles
    BY DEF TypeOK
  <2>2. /\ pending' \in {pending, rect, {}}
        /\ rect' \in {rect, {}} \/ \E r : SendPixels(r)
        /\ area' \in {area, {}, Tiles} \/ \E s : area' = Hull(s)
    BY DEF Next, Secondary, Sending, MainGoesOn, Device, sendVars, taskVars, SendPixelsPoll,
         SendPixelsDrain, SendPixelsWait, SendPixelsSend, PollEntry, QNotified, QNotifiedAgain,
         QNotifiedReturn, VBL, UpdateScreenBlit, UpdateScreenSend, DebugPollUpdate, PerfTestUpdate,
         PerfTestEnd, TransactSend, TransactDone, ModeFails, ModeDone, DebugPoll, SetMode, Draw,
         QPollRead, QPollStore, DeviceTransfer, DeviceFlush, DeviceCommand, Return
  <2> QED
    BY <2>1, <2>2, HullWithin DEF SendPixels, Merged
<1>5. /\ sending' \in {"idle", "poll", "drain"}
      /\ task' \in {"idle", "blit", "send", "debug", "perf", "wait", "spin"}
      /\ after' \in {"idle", "perf"}
      /\ bottomHalf' \in {"idle", "poll1", "poll2"}
  <2>1. /\ sending \in {"idle", "poll", "drain"}
        /\ task \in {"idle", "blit", "send", "debug", "perf", "wait", "spin"}
        /\ after \in {"idle", "perf"}
        /\ bottomHalf \in {"idle", "poll1", "poll2"}
    BY DEF TypeOK
  <2> QED
    BY <2>1 DEF Next, Secondary, Sending, MainGoesOn, Device, sendVars, taskVars, irqVars,
         SendPixels, SendPixelsPoll,
         SendPixelsDrain, SendPixelsWait, SendPixelsSend, PollEntry, QNotified, QNotifiedAgain,
         QNotifiedReturn, VBL, UpdateScreenBlit, UpdateScreenSend, DebugPollUpdate, PerfTestUpdate,
         PerfTestEnd, TransactSend, TransactDone, ModeFails, ModeDone, DebugPoll, SetMode, Draw,
         QPollRead, QPollStore, DeviceTransfer, DeviceFlush, DeviceCommand, Return
<1>6. cmd' \in Commands /\ reply' \in {"ok", "error"}
  <2>1. cmd \in Commands /\ reply \in {"ok", "error"}
    BY DEF TypeOK
  <2>2. cmd \in Commands \ {"unref"} => Following(cmd) \in Commands
    BY DEF Following, Commands
  <2>3. /\ cmd' \in {cmd, "create"} \/ (cmd # "unref" /\ cmd' = Following(cmd))
        /\ reply' \in {reply, "ok", "error"}
    BY DEF Next, Secondary, Sending, MainGoesOn, Device, taskVars,
         SendPixelsPoll,
         SendPixelsDrain, SendPixelsWait, SendPixelsSend, PollEntry, QNotified, QNotifiedAgain,
         QNotifiedReturn, VBL, UpdateScreenBlit, UpdateScreenSend, DebugPollUpdate, PerfTestUpdate,
         PerfTestEnd, TransactSend, TransactDone, ModeFails, ModeDone, DebugPoll, SetMode, Draw,
         QPollRead, QPollStore, DeviceTransfer, DeviceFlush, DeviceCommand, Return
  <2> QED
    BY <2>1, <2>2, <2>3 DEF Commands
<1>7. /\ screenResource' \in Resources /\ created' \subseteq Resources
      /\ backed' \subseteq Resources /\ scanout' \in Resources
  <2>1. /\ screenResource \in Resources /\ created \subseteq Resources
        /\ backed \subseteq Resources /\ scanout \in Resources /\ avail \in Seq(Message)
    BY DEF TypeOK, Queues
  <2>2. NewResource \in Resources
    BY <2>1 DEF NewResource, Resources
  <2>3. \/ Device
        \/ UNCHANGED hostVars /\ screenResource' \in {screenResource, NewResource}
    BY DEF Next, Secondary, Sending, MainGoesOn, screenVars,
         SendPixelsPoll,
         SendPixelsDrain, SendPixelsWait, SendPixelsSend, PollEntry, QNotified, QNotifiedAgain,
         QNotifiedReturn, VBL, UpdateScreenBlit, UpdateScreenSend, DebugPollUpdate, PerfTestUpdate,
         PerfTestEnd, TransactSend, TransactDone, ModeFails, ModeDone, DebugPoll, SetMode, Draw,
         QPollRead, QPollStore
  <2>4. Device => screenResource' = screenResource
    BY DEF Device, DeviceTransfer, DeviceFlush, DeviceCommand, Return
  <2>5. DeviceTransfer \/ DeviceFlush => UNCHANGED hostVars
    BY DEF DeviceTransfer, DeviceFlush
  <2>6. ASSUME DeviceCommand
        PROVE  created' \subseteq Resources /\ backed' \subseteq Resources /\ scanout' \in Resources
    <3>1. Head(avail) \in Message
      BY <2>1, <2>6 DEF DeviceCommand
    <3>2. Head(avail).res \in Resources
      BY <3>1 DEF Message, Update, Command
    <3> QED
      BY <2>1, <2>6, <3>2 DEF DeviceCommand
  <2> QED
    BY <2>1, <2>2, <2>3, <2>4, <2>5, <2>6 DEF hostVars, Device
<1>8. interest' \in {0, 1}
  <2>1. interest \in {0, 1} /\ interest = IF listening = TRUE THEN 1 ELSE 0
    BY DEF TypeOK, Control
  <2>2. \/ interest' = interest \/ interest' = AskOnce
        \/ sending = "drain" /\ interest' = interest - 1
    BY DEF Next, Secondary, Sending, MainGoesOn, Device, sendVars,
         SendPixels, SendPixelsPoll,
         SendPixelsDrain, SendPixelsWait, SendPixelsSend, PollEntry, QNotified, QNotifiedAgain,
         QNotifiedReturn, VBL, UpdateScreenBlit, UpdateScreenSend, DebugPollUpdate, PerfTestUpdate,
         PerfTestEnd, TransactSend, TransactDone, ModeFails, ModeDone, DebugPoll, SetMode, Draw,
         QPollRead, QPollStore, DeviceTransfer, DeviceFlush, DeviceCommand, Return
  <2>3. sending = "drain" => listening = TRUE
    BY DEF Control
  <2>4. listening \in BOOLEAN
    BY DEF TypeOK
  <2>5. AskOnce = 1
    BY <2>1, <2>4 DEF AskOnce
  <2> QED
    BY <2>1, <2>2, <2>3, <2>5
<1>9. changeInProgress' \in BOOLEAN
  <2>1. changeInProgress \in BOOLEAN
    BY DEF TypeOK
  <2>2. changeInProgress' = changeInProgress \/ changeInProgress' = TRUE \/ changeInProgress' = FALSE
    BY DEF Next, Secondary, Sending, MainGoesOn, Device, screenVars, LockedOut,
         SendPixelsPoll,
         SendPixelsDrain, SendPixelsWait, SendPixelsSend, PollEntry, QNotified, QNotifiedAgain,
         QNotifiedReturn, VBL, UpdateScreenBlit, UpdateScreenSend, DebugPollUpdate, PerfTestUpdate,
         PerfTestEnd, TransactSend, TransactDone, ModeFails, ModeDone, DebugPoll, SetMode, Draw,
         QPollRead, QPollStore, DeviceTransfer, DeviceFlush, DeviceCommand, Return
  <2> QED
    BY <2>1, <2>2, Zenon
<1>10. listening' \in BOOLEAN
  <2>1. listening \in BOOLEAN
    BY DEF TypeOK
  <2>2. listening' = listening \/ listening' = TRUE \/ listening' = FALSE
    BY DEF Next, Secondary, Sending, MainGoesOn, Device, sendVars,
         SendPixels, SendPixelsPoll,
         SendPixelsDrain, SendPixelsWait, SendPixelsSend, PollEntry, QNotified, QNotifiedAgain,
         QNotifiedReturn, VBL, UpdateScreenBlit, UpdateScreenSend, DebugPollUpdate, PerfTestUpdate,
         PerfTestEnd, TransactSend, TransactDone, ModeFails, ModeDone, DebugPoll, SetMode, Draw,
         QPollRead, QPollStore, DeviceTransfer, DeviceFlush, DeviceCommand, Return
  <2> QED
    BY <2>1, <2>2, Zenon
<1>11. notified' \in BOOLEAN
  <2>1. notified \in BOOLEAN
    BY DEF TypeOK
  <2>2. ASSUME Device PROVE notified' \in BOOLEAN
    <3>1. \E tag : Return(tag)
      BY <2>2, Zenon DEF Device, DeviceTransfer, DeviceFlush, DeviceCommand
    <3>2. notified' = (notified \/ (interest > 0 /\ bottomHalf # "poll1"))
      BY <3>1, Zenon DEF Return
    <3> QED
      BY <3>2, Zenon
  <2>3. Device \/ notified' = notified \/ notified' = FALSE
    BY DEF Next, Secondary, Sending, MainGoesOn, irqVars,
         SendPixelsPoll,
         SendPixelsDrain, SendPixelsWait, SendPixelsSend, PollEntry, QNotified, QNotifiedAgain,
         QNotifiedReturn, VBL, UpdateScreenBlit, UpdateScreenSend, DebugPollUpdate, PerfTestUpdate,
         PerfTestEnd, TransactSend, TransactDone, ModeFails, ModeDone, DebugPoll, SetMode, Draw,
         QPollRead, QPollStore
  <2> QED
    BY <2>1, <2>2, <2>3, Zenon
<1>12. /\ \A s \in {inner', outer', used', torn'.read, torn'.since} : s \in Seq(Tag)
       /\ torn'.active \in BOOLEAN /\ avail' \in Seq(Message)
  <2>1. torn' \in [active : BOOLEAN, read : Seq(Tag), since : Seq(Tag)]
    BY <1>1 DEF Queues
  <2>2. torn'.active \in BOOLEAN /\ torn'.read \in Seq(Tag) /\ torn'.since \in Seq(Tag)
    BY <2>1, Zenon
  <2> QED
    BY <1>1, <2>2, Zenon DEF Queues
<1> QED
  BY <1>2, <1>3, <1>4, <1>5, <1>6, <1>7, <1>8, <1>9, <1>10, <1>11, <1>12, Zenon DEF TypeOK

-----------------------------------------------------------------------------
(* Who may run, step by step. *)

LEMMA TornStep ==
  ASSUME TypeOK, Queues, Control, Next, PollsTorn = FALSE
  PROVE  torn'.active = TRUE =>
           /\ inner' = <<>> /\ outer' = <<>> /\ sending' = "idle" /\ bottomHalf' = "idle"
           /\ used' = torn'.read \o torn'.since /\ torn'.read # <<>>
           /\ task' \in {"debug", "perf", "wait", "spin"}
<1>1. ASSUME torn.active = TRUE, Next PROVE Device \/ QPollStore
  <2>1. inner = <<>> /\ outer = <<>> /\ sending = "idle" /\ bottomHalf = "idle"
    BY <1>1 DEF Control
  <2>2. ~MainLine /\ ~MayInterrupt
    BY <1>1 DEF MainLine, MayInterrupt
  <2>3. ~Secondary
    BY <2>1, <2>2 DEF Secondary, Sending, SendPixelsPoll, SendPixelsDrain, SendPixelsWait,
         SendPixelsSend, PollEntry, QNotified, QNotifiedAgain, QNotifiedReturn
  <2>4. ~VBL /\ ~DebugPoll /\ ~SetMode /\ ~(\E a \in {Hull(s) : s \in SUBSET Tiles \ {{}}} : Draw(a))
    BY <2>2 DEF VBL, DebugPoll, SetMode, Draw
  <2>5. MainGoesOn => QPollStore
    BY <2>2 DEF MainGoesOn, UpdateScreenBlit, UpdateScreenSend, DebugPollUpdate, PerfTestUpdate,
         PerfTestEnd, QPollRead, TransactSend, TransactDone, ModeFails, ModeDone
  <2> QED
    BY <1>1, <2>3, <2>4, <2>5, Zenon DEF Next
<1>2. ASSUME torn.active = TRUE, Device
      PROVE  /\ inner' = <<>> /\ outer' = <<>> /\ sending' = "idle" /\ bottomHalf' = "idle"
             /\ used' = torn'.read \o torn'.since /\ torn'.read # <<>>
             /\ task' \in {"debug", "perf", "wait", "spin"}
  <2>0. \A m \in Message : m.tag \in Tag
    BY DEF Message, Update, Command, Tag
  <2>1. PICK tag \in Tag : Return(tag)
    <3>1. CASE DeviceTransfer
      BY <3>1 DEF DeviceTransfer, Tag
    <3>2. CASE DeviceFlush
      BY <3>2 DEF DeviceFlush, Tag
    <3>3. CASE DeviceCommand
      BY <3>3 DEF DeviceCommand, Tag
    <3> QED
      BY <1>2, <3>1, <3>2, <3>3 DEF Device
  <2>2. /\ inner = <<>> /\ outer = <<>> /\ sending = "idle" /\ bottomHalf = "idle"
        /\ used = torn.read \o torn.since /\ torn.read # <<>>
        /\ task \in {"debug", "perf", "wait", "spin"}
    BY <1>2 DEF Control
  <2>3. torn.read \in Seq(Tag) /\ torn.since \in Seq(Tag)
    BY DEF Queues
  <2>4. torn' = [torn EXCEPT !.since = Append(@, tag)] /\ used' = Append(used, tag)
    BY <1>2, <2>1, Zenon DEF Return
  <2>5. torn'.read = torn.read /\ torn'.since = Append(torn.since, tag)
    BY <2>4 DEF Queues
  <2>6. used' = torn.read \o Append(torn.since, tag)
    <3>1. used \in Seq(Tag) /\ <<tag>> \in Seq(Tag)
      BY DEF Queues
    <3>2. used' = used \o <<tag>> /\ Append(torn.since, tag) = torn.since \o <<tag>>
      <4>1. Append(used, tag) = used \o <<tag>>
        BY <3>1, AppendIsConcat, Zenon
      <4>2. Append(torn.since, tag) = torn.since \o <<tag>>
        BY <2>3, AppendIsConcat, Zenon
      <4> QED
        BY <2>4, <4>1, <4>2
    <3>3. (torn.read \o torn.since) \o <<tag>> = torn.read \o (torn.since \o <<tag>>)
      <4>1. \A r, s, t \in Seq(Tag) : (r \o s) \o t = r \o (s \o t)
        BY ConcatAssociative
      <4> QED
        BY <2>3, <3>1, <4>1, Zenon
    <3> QED
      BY <2>2, <3>2, <3>3, Zenon
  <2>7. UNCHANGED <<inner, outer, sending, bottomHalf, task>>
    BY <2>1 DEF Return, sendVars
  <2> QED
    BY <2>2, <2>5, <2>6, <2>7
<1>3. QPollStore => torn'.active = FALSE
  BY DEF QPollStore, NotTorn
<1>4. ASSUME torn.active = FALSE PROVE QPollRead \/ torn'.active = FALSE
  <2>1. QPollRead \/ QPollStore \/ torn' = torn \/ \E tag : Return(tag)
    BY DEF Next, Secondary, Sending, MainGoesOn, Device, pollVars,
         SendPixelsPoll, SendPixelsDrain, SendPixelsWait, SendPixelsSend, PollEntry, QNotified,
         QNotifiedAgain, QNotifiedReturn, VBL, UpdateScreenBlit, UpdateScreenSend,
         DebugPollUpdate, PerfTestUpdate, PerfTestEnd, TransactSend, TransactDone, ModeFails,
         ModeDone, DebugPoll, SetMode, Draw, DeviceTransfer, DeviceFlush, DeviceCommand
  <2>2. (\E tag : Return(tag)) => torn' = torn
    BY <1>4 DEF Return
  <2> QED
    BY <1>3, <1>4, <2>1, <2>2
<1>5. ASSUME QPollRead
      PROVE  /\ inner' = <<>> /\ outer' = <<>> /\ sending' = "idle" /\ bottomHalf' = "idle"
             /\ used' = torn'.read \o torn'.since /\ torn'.read # <<>>
             /\ task' \in {"debug", "perf", "wait", "spin"}
  <2>1. /\ torn'.read = used /\ torn'.since = <<>> /\ used # <<>>
        /\ UNCHANGED <<inner, outer, used, sending, bottomHalf, task>>
    BY <1>5 DEF QPollRead, sendVars, taskVars, irqVars
  <2>2. /\ inner = <<>> /\ outer = <<>> /\ sending = "idle" /\ bottomHalf = "idle"
        /\ task \in {"debug", "perf", "wait", "spin"}
    BY <1>5 DEF QPollRead, MainLine, SecondaryIdle, Waits
  <2>3. used = used \o <<>>
    BY DEF Queues
  <2> QED
    BY <2>1, <2>2, <2>3
<1>6. torn.active = TRUE \/ torn.active = FALSE
  BY Zenon DEF TypeOK
<1> HIDE DEF Next
<1> QED
  BY <1>1, <1>2, <1>3, <1>4, <1>5, <1>6, Zenon

LEMMA ControlStep ==
  ASSUME TypeOK, Queues, Control, Next, PollsTorn = FALSE
  PROVE  Control'
<1> USE DEF Next, Secondary, Sending, MainGoesOn, Device, sendVars, pollVars, taskVars, irqVars,
            screenVars, SendPixels, Return
<1>1. sending' # "drain" => inner' = <<>>
  <2>1. sending # "drain" => inner = <<>>
    BY DEF Control
  <2> QED
    BY <2>1 DEF
         SendPixelsPoll, SendPixelsDrain, SendPixelsWait, SendPixelsSend, PollEntry, QNotified,
         QNotifiedAgain, QNotifiedReturn, VBL, UpdateScreenBlit, UpdateScreenSend,
         DebugPollUpdate, PerfTestUpdate, PerfTestEnd, TransactSend, TransactDone, ModeFails,
         ModeDone, DebugPoll, SetMode, Draw, DeviceTransfer, DeviceFlush, DeviceCommand,
         QPollRead, QPollStore, MainLine, SecondaryIdle, MayInterrupt
<1>2. sending' # "idle" => listening' = TRUE
  <2>1. sending # "idle" => listening = TRUE
    BY DEF Control
  <2> QED
    BY <2>1 DEF
         SendPixelsPoll, SendPixelsDrain, SendPixelsWait, SendPixelsSend, PollEntry, QNotified,
         QNotifiedAgain, QNotifiedReturn, VBL, UpdateScreenBlit, UpdateScreenSend,
         DebugPollUpdate, PerfTestUpdate, PerfTestEnd, TransactSend, TransactDone, ModeFails,
         ModeDone, DebugPoll, SetMode, Draw, DeviceTransfer, DeviceFlush, DeviceCommand,
         QPollRead, QPollStore, MainLine, SecondaryIdle, MayInterrupt
<1>3. sending' # "idle" /\ outer' # <<>> => freebufs' # {}
  <2>1. sending # "idle" /\ outer # <<>> => freebufs # {}
    BY DEF Control
  <2> QED
    BY <2>1 DEF Notify,
         SendPixelsPoll, SendPixelsDrain, SendPixelsWait, SendPixelsSend, PollEntry, QNotified,
         QNotifiedAgain, QNotifiedReturn, VBL, UpdateScreenBlit, UpdateScreenSend,
         DebugPollUpdate, PerfTestUpdate, PerfTestEnd, TransactSend, TransactDone, ModeFails,
         ModeDone, DebugPoll, SetMode, Draw, DeviceTransfer, DeviceFlush, DeviceCommand,
         QPollRead, QPollStore, MainLine, SecondaryIdle, MayInterrupt
<1>4. interest' = IF listening' = TRUE THEN 1 ELSE 0
  <2>1. interest = IF listening = TRUE THEN 1 ELSE 0
    BY DEF Control
  <2>2. sending = "drain" => listening = TRUE
    BY DEF Control
  <2>3. AskOnce = 1
    BY <2>1 DEF AskOnce, TypeOK
  <2>4. \/ interest' = interest /\ listening' = listening
        \/ interest' = AskOnce /\ listening' = TRUE
        \/ sending = "drain" /\ interest' = interest - 1 /\ listening' = FALSE
    BY DEF
         SendPixelsPoll, SendPixelsDrain, SendPixelsWait, SendPixelsSend, PollEntry, QNotified,
         QNotifiedAgain, QNotifiedReturn, VBL, UpdateScreenBlit, UpdateScreenSend,
         DebugPollUpdate, PerfTestUpdate, PerfTestEnd, TransactSend, TransactDone, ModeFails,
         ModeDone, DebugPoll, SetMode, Draw, DeviceTransfer, DeviceFlush, DeviceCommand,
         QPollRead, QPollStore
  <2>5. CASE interest' = interest /\ listening' = listening
    BY <2>1, <2>5, Zenon
  <2>6. CASE interest' = AskOnce /\ listening' = TRUE
    BY <2>3, <2>6
  <2>7. CASE sending = "drain" /\ interest' = interest - 1 /\ listening' = FALSE
    BY <2>1, <2>2, <2>7
  <2> QED
    BY <2>4, <2>5, <2>6, <2>7
<1>5. task' \in {"wait", "spin"} => changeInProgress' = TRUE
  <2>1. task \in {"wait", "spin"} => changeInProgress = TRUE
    BY DEF Control
  <2>2. \/ task' = task /\ changeInProgress' = changeInProgress
        \/ task \in {"wait", "spin"} /\ changeInProgress' = changeInProgress
        \/ changeInProgress' = TRUE
        \/ task' \in {"blit", "send", "debug", "perf", "idle", after}
    BY DEF LockedOut,
         SendPixelsPoll, SendPixelsDrain, SendPixelsWait, SendPixelsSend, PollEntry, QNotified,
         QNotifiedAgain, QNotifiedReturn, VBL, UpdateScreenBlit, UpdateScreenSend,
         DebugPollUpdate, PerfTestUpdate, PerfTestEnd, TransactSend, TransactDone, ModeFails,
         ModeDone, DebugPoll, SetMode, Draw, DeviceTransfer, DeviceFlush, DeviceCommand,
         QPollRead, QPollStore
  <2>3. after \in {"idle", "perf"}
    BY DEF TypeOK
  <2> QED
    BY <2>1, <2>2, <2>3
<1> QED
  BY <1>1, <1>2, <1>3, <1>4, <1>5, TornStep DEF Control

-----------------------------------------------------------------------------
(* The tags, step by step: first while a command is on its way... *)

LEMMA FlowSame ==
  ASSUME UNCHANGED <<freebufs, sending, inner, outer, used, avail>>
  PROVE  /\ Flow => Flow'
         /\ pending' = pending /\ cmd' = cmd /\ lastTag' = lastTag /\ screenResource' = screenResource
              => (Commanded => Commanded')
         /\ pending' = pending /\ BetweenCommands => BetweenCommands'
<1>1. Flow => Flow'
  BY DEF Flow, Left, Spare
<1>2. ASSUME pending' = pending, cmd' = cmd, lastTag' = lastTag, screenResource' = screenResource,
             Commanded
      PROVE  Commanded'
  BY <1>2 DEF Commanded, Quiet, Order, Target, NewResource
<1>3. pending' = pending /\ BetweenCommands => BetweenCommands'
  BY DEF BetweenCommands, Quiet
<1> QED
  BY <1>1, <1>2, <1>3

LEMMA FlowQuiet == ASSUME BetweenCommands' PROVE Flow'
<1>1. freebufs' = Bufs /\ inner' = <<>> /\ outer' = <<>> /\ used' = <<>> /\ avail' = <<>>
  BY DEF BetweenCommands, Quiet
<1>2. Left' = <<>>
  <2>1. LeftOf(<<>>, <<>>, <<>>) = <<>>
    <3>1. <<>> \in Seq(Tag) /\ <<>> \in Seq(Message)
      OBVIOUS
    <3> QED
      BY <3>1, LeftEmpty, Zenon
  <2> QED
    BY <1>1, <2>1 DEF Left
<1> QED
  BY <1>1, <1>2, FlowBegins DEF Flow

LEMMA SpinStep ==
  ASSUME TypeOK, Queues, Control, Next, PollsTorn = FALSE, task = "spin", Commanded
  PROVE  Tagged'
<1>1. /\ freebufs = Bufs /\ sending = "idle" /\ inner = <<>> /\ pending = {}
      /\ changeInProgress = TRUE
  BY DEF Commanded, Quiet, Control
<1>2. \/ avail = <<Order>> /\ used = <<>> /\ outer = <<>> /\ lastTag = Wait
      \/ avail = <<>> /\ used = <<Done>> /\ outer = <<>> /\ lastTag = Wait
      \/ avail = <<>> /\ used = <<>> /\ outer = <<Done>> /\ lastTag = Wait
      \/ avail = <<>> /\ used = <<>> /\ outer = <<>> /\ lastTag = Done
  BY DEF Commanded
<1>3. ASSUME Device PROVE Commanded' /\ task' = "spin"
  <2>1. avail = <<Order>> /\ used = <<>> /\ outer = <<>> /\ lastTag = Wait
    BY <1>2, <1>3 DEF Device, DeviceTransfer, DeviceFlush, DeviceCommand
  <2>2. Head(avail).tag = Done
    BY <2>1 DEF Order
  <2>3. DeviceCommand
    BY <1>3, <2>2, TagsDiffer DEF Device, DeviceTransfer, DeviceFlush
  <2>4. Return(Done)
    BY <2>3, Zenon DEF DeviceCommand
  <2>5. /\ avail' = <<>> /\ used' = <<Done>>
        /\ UNCHANGED <<freebufs, lastTag, pending, sending, inner, outer, task>>
    BY <2>1, <2>4 DEF Return, sendVars
  <2> QED
    BY <1>1, <2>1, <2>5 DEF Commanded, Quiet
<1>4. ASSUME PollEntry PROVE Commanded' /\ task' = "spin"
  <2>1. avail = <<>> /\ used = <<>> /\ outer = <<Done>> /\ lastTag = Wait
    BY <1>2, <1>4 DEF PollEntry
  <2>2. Head(outer) = Done /\ Tail(outer) = <<>> /\ Done \notin Bufs
    BY <2>1, TagsDiffer
  <2>3. /\ lastTag' = Done /\ freebufs' = freebufs /\ outer' = <<>>
        /\ UNCHANGED <<avail, used, pending, sending, inner, task>>
    BY <1>4, <2>2 DEF PollEntry, Notify, taskVars
  <2> QED
    BY <1>1, <2>1, <2>3 DEF Commanded, Quiet
<1>5. ASSUME QNotified \/ QNotifiedAgain PROVE Commanded' /\ task' = "spin"
  <2>1. /\ outer = <<>> /\ outer' = used /\ used' = <<>>
        /\ UNCHANGED <<avail, freebufs, lastTag, pending, sending, inner, task, cmd, screenResource>>
    BY <1>5 DEF QNotified, QNotifiedAgain, MayInterrupt, SecondaryIdle, sendVars, taskVars, screenVars
  <2>2. Order' = Order
    BY <2>1 DEF Order, Target, NewResource
  <2> QED
    BY <1>1, <1>2, <2>1, <2>2 DEF Commanded, Quiet
<1>6. ASSUME QPollStore PROVE Commanded' /\ task' = "spin"
  <2>1. used = torn.read \o torn.since /\ torn.read # <<>> /\ outer = <<>>
    BY <1>6 DEF QPollStore, Control
  <2> DEFINE r == torn.read
             s == torn.since
  <2>2. r \in Seq(Tag) /\ s \in Seq(Tag) /\ used = r \o s /\ r # <<>>
    BY <2>1 DEF Queues
  <2>3. outer' = r /\ used' = s
    BY <1>6 DEF QPollStore
  <2> HIDE DEF r, s
  <2>4. used # <<>>
    BY <2>2
  <2>5. used = <<Done>> /\ avail = <<>> /\ lastTag = Wait
    BY <1>2, <2>4
  <2>6. s = <<>> /\ r = <<Done>>
    <3>1. Len(r) + Len(s) = 1 /\ Len(r) \in Nat \ {0} /\ Len(s) \in Nat
      <4>1. Len(r \o s) = Len(r) + Len(s) /\ Len(r) \in Nat \ {0} /\ Len(s) \in Nat
        BY <2>2
      <4>2. Len(used) = 1
        BY <2>5
      <4> QED
        BY <2>2, <4>1, <4>2, Zenon
    <3>2. s = <<>>
      BY <2>2, <3>1
    <3>3. r = used
      BY <2>2, <3>2
    <3> QED
      BY <2>5, <3>2, <3>3
  <2>7. /\ outer' = <<Done>> /\ used' = <<>>
        /\ UNCHANGED <<avail, freebufs, lastTag, pending, sending, inner, task>>
    BY <1>6, <2>3, <2>6 DEF QPollStore, sendVars, taskVars
  <2> QED
    BY <1>1, <2>5, <2>7 DEF Commanded, Quiet
<1>7. ASSUME TransactDone \/ ModeFails \/ ModeDone
      PROVE  BetweenCommands' /\ task' # "spin"
  <2>1. lastTag = Done
    BY <1>7 DEF TransactDone, ModeFails, ModeDone
  <2>2. avail = <<>> /\ used = <<>> /\ outer = <<>>
    BY <1>2, <2>1, TagsDiffer
  <2>3. /\ UNCHANGED <<avail, freebufs, pending, sending, inner, used, outer>>
        /\ task' # "spin"
    BY <1>7 DEF TransactDone, ModeFails, ModeDone, sendVars, pollVars
  <2> QED
    BY <1>1, <2>2, <2>3 DEF BetweenCommands, Quiet
<1>8. ASSUME QPollRead \/ QNotifiedReturn PROVE Commanded' /\ task' = "spin"
  <2>1. UNCHANGED <<freebufs, sending, inner, outer, used, avail, pending, cmd, lastTag,
                    screenResource, task>>
    BY <1>8 DEF QPollRead, QNotifiedReturn, sendVars, pollVars, taskVars, screenVars
  <2> QED
    BY <2>1, FlowSame
<1>9. \/ Device \/ PollEntry \/ QNotified \/ QNotifiedAgain \/ QPollStore
      \/ TransactDone \/ ModeFails \/ ModeDone \/ QPollRead \/ QNotifiedReturn
  <2>1. ~Sending /\ ~VBL
    <3>1. ~VBL
      BY <1>1, Zenon DEF VBL
    <3> QED
      BY <1>1, <3>1 DEF Sending, SendPixelsPoll, SendPixelsDrain, SendPixelsWait, SendPixelsSend
  <2>2. ~DebugPoll /\ ~SetMode /\ ~(\E a \in {Hull(s) : s \in SUBSET Tiles \ {{}}} : Draw(a))
    BY DEF DebugPoll, SetMode, Draw
  <2>3. MainGoesOn => QPollStore \/ TransactDone \/ ModeFails \/ ModeDone \/ QPollRead
    BY DEF MainGoesOn, UpdateScreenBlit, UpdateScreenSend, DebugPollUpdate, PerfTestUpdate,
         PerfTestEnd, TransactSend
  <2> QED
    BY <2>1, <2>2, <2>3, Zenon DEF Next, Secondary
<1> HIDE DEF Next
<1>10. Commanded' /\ task' = "spin" => Tagged'
  BY DEF Tagged
<1>11. BetweenCommands' /\ task' # "spin" => Tagged'
  BY FlowQuiet DEF Tagged
<1> QED
  BY <1>3, <1>4, <1>5, <1>6, <1>7, <1>8, <1>9, <1>10, <1>11, Zenon

(* ... and while there is none. *)

LEMMA DeviceReturns ==
  ASSUME Device
  PROVE  /\ avail # <<>> /\ Return(Head(avail).tag)
BY DEF Device, DeviceTransfer, DeviceFlush, DeviceCommand

LEMMA FlowStep ==
  ASSUME TypeOK, Queues, Control, Next, task # "spin", Flow, ~TransactSend
  PROVE  Flow'
<1>1. /\ inner \in Seq(Tag) /\ outer \in Seq(Tag) /\ used \in Seq(Tag) /\ avail \in Seq(Message)
      /\ freebufs \in SUBSET Bufs
  BY DEF Queues, TypeOK
<1>2. Left \in Seq(Tag)
  BY <1>1, LeftShape DEF Left
<1>3. ASSUME SendPixelsPoll PROVE Flow'
  <2>1. inner = <<>> /\ sending = "poll"
    BY <1>3 DEF SendPixelsPoll, Control
  <2>2. Left' = Left
    BY <1>1, <1>3, <2>1, LeftClaimed DEF SendPixelsPoll, Left
  <2>3. UNCHANGED <<freebufs, outer>> /\ sending' = "drain"
    BY <1>3 DEF SendPixelsPoll
  <2> QED
    BY <2>1, <2>2, <2>3 DEF Flow, Spare
<1>4. ASSUME SendPixelsDrain PROVE Flow'
  <2>1. sending = "drain" /\ inner # <<>> /\ UNCHANGED <<outer, used, avail, sending>>
        /\ inner' = Tail(inner)
    BY <1>4 DEF SendPixelsDrain
  <2>2. IsTail(Left', Left) /\ Left[1] = Head(inner)
    BY <1>1, <2>1, LeftDrained DEF Left
  <2>3. freebufs' = Freed(freebufs, Left[1])
    BY <1>4, <2>2 DEF SendPixelsDrain, Notify, Freed
  <2>4. FlowOf(outer, Left, freebufs, 2) /\ (outer # <<>> => freebufs # {})
    BY <2>1 DEF Flow, Spare, Control
  <2>5. FlowOf(outer, Left', Freed(freebufs, Left[1]), 2)
    <3> DEFINE s == Left
               t == Left'
    <3>1. IsTail(t, s) /\ FlowOf(outer, s, freebufs, 2)
      BY <2>2, <2>4
    <3> HIDE DEF s, t
    <3>2. FlowOf(outer, t, Freed(freebufs, s[1]), 2)
      BY <1>1, <2>4, <3>1, FlowDrained
    <3> QED
      BY <3>2 DEF s, t
  <2> QED
    BY <2>1, <2>3, <2>5 DEF Flow, Spare
<1>5. ASSUME SendPixelsWait PROVE Flow'
  <2>1. sending = "drain" /\ sending' = "idle" /\ UNCHANGED <<freebufs, inner, outer, used, avail>>
    BY <1>5 DEF SendPixelsWait, pollVars
  <2>2. FlowOf(outer, Left, freebufs, 1)
    BY <1>1, <1>2, <2>1, FlowRests DEF Flow, Spare
  <2> QED
    BY <2>1, <2>2 DEF Flow, Spare, Left
<1>6. ASSUME SendPixelsSend PROVE Flow'
  <2> DEFINE i == Min(freebufs)
             m1 == UpdateMessage(Tfer, i)
             m2 == UpdateMessage(i, i)
  <2>1. /\ sending = "drain" /\ sending' = "idle" /\ inner = <<>> /\ freebufs # {}
        /\ UNCHANGED <<inner, outer, used>> /\ freebufs' = freebufs \ {i}
        /\ avail' = avail \o <<m1, m2>>
    BY <1>6 DEF SendPixelsSend, pollVars, UpdateMessages
  <2>2. i \in freebufs
    BY <1>1, <2>1, MinIsFree
  <2>3. m1 \in Message /\ m2 \in Message /\ m1.tag = Tfer /\ m2.tag = i
    BY <1>1, <2>2 DEF UpdateMessage, Message, Update, TypeOK
  <2>4. FlowOf(outer, LeftOf(<<>>, used, avail), freebufs, 2)
    BY <2>1 DEF Flow, Spare, Left
  <2> HIDE DEF i, m1, m2
  <2>5. FlowOf(outer, LeftOf(<<>>, used, avail \o <<m1, m2>>), freebufs \ {i}, 1)
    BY <1>1, <2>2, <2>3, <2>4, FlowSentOn
  <2>6. Left' = LeftOf(<<>>, used, avail \o <<m1, m2>>)
    BY <2>1 DEF Left
  <2> QED
    BY <2>1, <2>5, <2>6 DEF Flow, Spare
<1>7. ASSUME PollEntry PROVE Flow'
  <2>1. /\ sending = "idle" /\ outer # <<>> /\ outer' = Tail(outer)
        /\ UNCHANGED <<inner, used, avail>>
    BY <1>7 DEF PollEntry
  <2>2. IsTail(outer', outer) /\ Head(outer) = outer[1]
    BY <1>1, <2>1 DEF IsTail
  <2>3. freebufs' = Freed(freebufs, outer[1])
    BY <1>7, <2>2 DEF PollEntry, Notify, Freed
  <2>4. FlowOf(outer, Left, freebufs, 1)
    BY <2>1 DEF Flow, Spare
  <2>5. FlowOf(outer', Left, Freed(freebufs, outer[1]), IF outer[1] = Tfer THEN 1 ELSE 2)
    <3> DEFINE rest == outer'
               s == Left
    <3>1. IsTail(rest, outer) /\ s \in Seq(Tag) /\ FlowOf(outer, s, freebufs, 1)
      BY <1>2, <2>2, <2>4
    <3> HIDE DEF rest, s
    <3>2. FlowOf(rest, s, Freed(freebufs, outer[1]), IF outer[1] = Tfer THEN 1 ELSE 2)
      BY <1>1, <3>1, FlowPolled
    <3> QED
      BY <3>2 DEF rest, s
  <2>6. Left' = Left
    BY <2>1 DEF Left
  <2>7. sending' # "idle" => outer[1] # Tfer
    BY <1>7, <2>1, <2>2, TagsDiffer DEF PollEntry
  <2>8. Freed(freebufs, outer[1]) \in SUBSET Bufs /\ outer' \in Seq(Tag)
    BY <1>1, <2>2 DEF Freed, IsTail
  <2>9. outer[1] # Tfer => FlowOf(outer', Left, freebufs', 1) /\ FlowOf(outer', Left, freebufs', 2)
    <3> DEFINE rest == outer'
               s == Left
               f == Freed(freebufs, outer[1])
    <3>1. outer[1] # Tfer => FlowOf(rest, s, f, 2)
      BY <2>5
    <3>2. rest \in Seq(Tag) /\ s \in Seq(Tag) /\ f \in SUBSET Bufs /\ f = freebufs'
      BY <1>2, <2>3, <2>8
    <3> HIDE DEF rest, s, f
    <3>3. outer[1] # Tfer => FlowOf(rest, s, f, 1)
      BY <3>1, <3>2, FlowRests
    <3> QED
      BY <3>1, <3>2, <3>3 DEF rest, s
  <2> QED
    BY <2>3, <2>5, <2>6, <2>7, <2>9 DEF Flow, Spare
<1>8. ASSUME QNotified \/ QNotifiedAgain PROVE Flow'
  <2>1. /\ outer = <<>> /\ sending = "idle" /\ inner = <<>> /\ outer' = used /\ used' = <<>>
        /\ UNCHANGED <<avail, freebufs, sending, inner>>
    BY <1>8 DEF QNotified, QNotifiedAgain, MayInterrupt, SecondaryIdle, sendVars, Control
  <2>2. used = used \o <<>> /\ <<>> \in Seq(Tag)
    BY <1>1
  <2>3. FlowOf(<<>>, LeftOf(<<>>, used \o <<>>, avail), freebufs, 1)
    BY <2>1, <2>2 DEF Flow, Spare, Left
  <2>4. FlowOf(used, LeftOf(<<>>, <<>>, avail), freebufs, 1)
    BY <1>1, <2>2, <2>3, FlowClaimed, Zenon
  <2> QED
    BY <2>1, <2>4 DEF Flow, Spare, Left
<1>9. ASSUME QPollStore PROVE Flow'
  <2> DEFINE r == torn.read
             s == torn.since
  <2>1. /\ outer = <<>> /\ sending = "idle" /\ inner = <<>> /\ outer' = r /\ used' = s
        /\ UNCHANGED <<avail, freebufs, sending, inner>>
    BY <1>9 DEF QPollStore, SecondaryIdle, sendVars
  <2>2. used = r \o s /\ r \in Seq(Tag) /\ s \in Seq(Tag)
    BY <1>9 DEF QPollStore, Control, Queues
  <2> HIDE DEF r, s
  <2>3. FlowOf(<<>>, LeftOf(<<>>, r \o s, avail), freebufs, 1)
    BY <2>1, <2>2 DEF Flow, Spare, Left
  <2>4. FlowOf(r, LeftOf(<<>>, s, avail), freebufs, 1)
    BY <1>1, <2>2, <2>3, FlowClaimed, Zenon
  <2> QED
    BY <2>1, <2>4 DEF Flow, Spare, Left
<1>10. ASSUME VBL \/ UpdateScreenSend PROVE Flow'
  <2>1. outer = <<>> /\ sending = "idle" /\ UNCHANGED <<freebufs, inner, outer, used, avail>>
    BY <1>10 DEF VBL, UpdateScreenSend, MayInterrupt, MainLine, SecondaryIdle, pollVars
  <2>2. FlowOf(outer, Left, freebufs, 1) /\ FlowOf(outer, Left, freebufs, 2)
    BY <1>1, <1>2, <2>1, FlowRests DEF Flow, Spare
  <2> QED
    BY <2>1, <2>2 DEF Flow, Spare, Left
<1>11. ASSUME Device PROVE Flow'
  <2>1. /\ avail # <<>> /\ avail' = Tail(avail) /\ used' = Append(used, Head(avail).tag)
        /\ UNCHANGED <<freebufs, sending, inner, outer>>
    BY <1>11, DeviceReturns DEF Return, sendVars
  <2>2. Left' = Left
    BY <1>1, <2>1, LeftReturned DEF Left
  <2> QED
    BY <2>1, <2>2 DEF Flow, Spare
<1>12. ASSUME UNCHANGED <<freebufs, sending, inner, outer, used, avail>> PROVE Flow'
  BY <1>12, FlowSame
<1>13. \/ SendPixelsPoll \/ SendPixelsDrain \/ SendPixelsWait \/ SendPixelsSend \/ PollEntry
       \/ QNotified \/ QNotifiedAgain \/ QPollStore \/ VBL \/ UpdateScreenSend \/ Device
       \/ UNCHANGED <<freebufs, sending, inner, outer, used, avail>>
  BY DEF Next, Secondary, Sending, MainGoesOn, sendVars, pollVars, QNotifiedReturn,
         UpdateScreenBlit, DebugPollUpdate, PerfTestUpdate, PerfTestEnd, QPollRead,
         TransactDone, ModeFails, ModeDone, DebugPoll, SetMode, Draw
<1> HIDE DEF Next
<1> QED
  BY <1>3, <1>4, <1>5, <1>6, <1>7, <1>8, <1>9, <1>10, <1>11, <1>12, <1>13, Zenon

LEMMA SendStep ==
  ASSUME TypeOK, Queues, Control, Heard, Tagged, TransactSend
  PROVE  Commanded' /\ task' = "spin"
<1>1. /\ freebufs = Bufs /\ sending = "idle" /\ inner = <<>> /\ outer = <<>> /\ task = "wait"
      /\ UNCHANGED <<freebufs, sending, pending, inner, outer, used, cmd, screenResource>>
      /\ lastTag' = Wait /\ task' = "spin" /\ avail' = Append(avail, Order)
  BY DEF TransactSend, MainLine, SecondaryIdle, PageFree, AllFree, pollVars, Order, screenVars
<1>2. used \in Seq(Tag) /\ avail \in Seq(Message)
  BY DEF Queues
<1>3. used = <<>> /\ avail = <<>>
  <2> DEFINE s == LeftOf(<<>>, used, avail)
  <2>1. s \in Seq(Tag)
    BY <1>2, LeftUnclaimed
  <2>2. FlowOf(<<>>, s, Bufs, 1)
    BY <1>1 DEF Tagged, Flow, Left, Spare
  <2> HIDE DEF s
  <2>3. s = <<>>
    BY <2>1, <2>2, AllFree1 DEF FlowOf
  <2>4. <<>> \in Seq(Tag)
    OBVIOUS
  <2> QED
    BY <1>2, <2>3, <2>4, LeftEmpty, Zenon DEF s
<1>4. pending = {}
  <2>1. Bufs # {}
    BY DisplayAssumption DEF Bufs
  <2> QED
    BY <1>1, <2>1 DEF Heard
<1>5. Order' = Order
  BY <1>1 DEF Order, Target, NewResource
<1>6. avail' = <<Order>>
  BY <1>1, <1>3
<1> QED
  BY <1>1, <1>3, <1>4, <1>5, <1>6 DEF Commanded, Quiet

LEMMA WaitStep ==
  ASSUME TypeOK, Queues, Control, Next, PollsTorn = FALSE, task = "wait", cmd # "create",
         BetweenCommands, ~TransactSend
  PROVE  BetweenCommands'
<1>1. /\ freebufs = Bufs /\ sending = "idle" /\ inner = <<>> /\ pending = {}
      /\ outer = <<>> /\ used = <<>> /\ avail = <<>> /\ changeInProgress = TRUE
  BY DEF BetweenCommands, Quiet, Control
<1>2. ~Device
  BY <1>1, DeviceReturns
<1>3. torn.active # TRUE
  <2>1. torn.active = TRUE => used = torn.read \o torn.since /\ torn.read # <<>>
    BY DEF Control
  <2> DEFINE r == torn.read
             s == torn.since
  <2>2. r \in Seq(Tag) /\ s \in Seq(Tag)
    BY DEF Queues
  <2> HIDE DEF r, s
  <2>3. r # <<>> => r \o s # <<>>
    BY <2>2
  <2> QED
    BY <1>1, <2>1, <2>3 DEF r, s
<1>4. ~VBL
  BY <1>1, Zenon DEF VBL
<1>5. ~QPollStore
  BY <1>3, Zenon DEF QPollStore, TypeOK
<1>6. \/ QNotified \/ QNotifiedAgain \/ QNotifiedReturn
  <2>1. ~Sending /\ ~PollEntry
    BY <1>1 DEF Sending, SendPixelsPoll, SendPixelsDrain, SendPixelsWait, SendPixelsSend, PollEntry
  <2>2. ~DebugPoll /\ ~SetMode /\ ~(\E a \in {Hull(s) : s \in SUBSET Tiles \ {{}}} : Draw(a))
    BY DEF DebugPoll, SetMode, Draw
  <2>3. ~MainGoesOn
    BY <1>1, <1>5 DEF MainGoesOn, UpdateScreenBlit, UpdateScreenSend, DebugPollUpdate,
         PerfTestUpdate, PerfTestEnd, QPollRead, TransactDone, ModeFails, ModeDone
  <2> QED
    BY <1>2, <1>4, <2>1, <2>2, <2>3, Zenon DEF Next, Secondary
<1>7. /\ outer' \in {outer, used} /\ used' \in {used, <<>>}
      /\ UNCHANGED <<avail, freebufs, sending, inner, pending>>
  BY <1>6 DEF QNotified, QNotifiedAgain, QNotifiedReturn, sendVars, pollVars
<1> QED
  BY <1>1, <1>7 DEF BetweenCommands, Quiet

LEMMA TaggedStep ==
  ASSUME TypeOK, Queues, Control, Heard, Tagged, Next, PollsTorn = FALSE
  PROVE  Tagged'
<1>1. CASE task = "spin"
  BY <1>1, SpinStep DEF Tagged
<1>2. CASE task # "spin" /\ TransactSend
  BY <1>2, SendStep DEF Tagged
<1>3. CASE task # "spin" /\ ~TransactSend
  <2>1. Flow'
    BY <1>3, FlowStep DEF Tagged
  <2>2. /\ task' # "spin"
        /\ task' = "wait" /\ cmd' # "create" => task = "wait" /\ cmd' = cmd
    <3>1. after \in {"idle", "perf"}
      BY DEF TypeOK
    <3> QED
      BY <1>3, <3>1 DEF Next, Secondary, Sending, MainGoesOn, Device, taskVars,
         SendPixelsPoll, SendPixelsDrain, SendPixelsWait, SendPixelsSend, PollEntry, QNotified,
         QNotifiedAgain, QNotifiedReturn, VBL, UpdateScreenBlit, UpdateScreenSend,
         DebugPollUpdate, PerfTestUpdate, PerfTestEnd, TransactDone, ModeFails,
         ModeDone, DebugPoll, SetMode, Draw, DeviceTransfer, DeviceFlush, DeviceCommand,
         QPollRead, QPollStore, Return
  <2>3. task' = "wait" /\ cmd' # "create" => BetweenCommands'
    BY <1>3, <2>2, WaitStep DEF Tagged
  <2> QED
    BY <2>1, <2>2, <2>3 DEF Tagged
<1> QED
  BY <1>1, <1>2, <1>3

-----------------------------------------------------------------------------
(* What waits is heard of, what is sent is true of the host. *)

LEMMA HeardStep ==
  ASSUME TypeOK, Queues, Control, Heard, Next
  PROVE  Heard'
<1>1. ASSUME sending' = "idle", pending' # {} PROVE freebufs' = {} /\ listening' = TRUE
  <2>1. CASE sending = "idle" /\ pending = {}
    BY <1>1, <2>1 DEF Next, Secondary, Sending, MainGoesOn, Device, sendVars,
         SendPixelsPoll, SendPixelsDrain, SendPixelsWait, SendPixelsSend, PollEntry, QNotified,
         QNotifiedAgain, QNotifiedReturn, VBL, UpdateScreenBlit, UpdateScreenSend,
         DebugPollUpdate, PerfTestUpdate, PerfTestEnd, TransactSend, TransactDone, ModeFails,
         ModeDone, DebugPoll, SetMode, Draw, DeviceTransfer, DeviceFlush, DeviceCommand,
         QPollRead, QPollStore, Return
  <2>2. CASE sending = "idle" /\ pending # {}
    <3>1. freebufs = {} /\ listening = TRUE
      BY <2>2 DEF Heard
    <3>2. pending \subseteq Tiles
      BY DEF TypeOK
    <3>3. \A r : Merged(r) # {}
      <4> SUFFICES ASSUME NEW r PROVE Merged(r) # {}
        OBVIOUS
      <4>1. PICK t \in pending : t \in Tiles
        BY <2>2, <3>2
      <4>2. t \in Nat
        BY <4>1, DisplayAssumption
      <4>3. t <= t
        BY <4>2
      <4> QED
        BY <4>1, <4>3 DEF Merged, Hull
    <3>4. PollEntry => freebufs' = {} /\ listening' = TRUE
      BY <1>1, <3>1, <3>3 DEF PollEntry, Notify, SendPixels
    <3>5. VBL \/ UpdateScreenSend => FALSE
      BY <1>1, <3>3 DEF VBL, UpdateScreenSend, SendPixels
    <3>6. PollEntry \/ VBL \/ UpdateScreenSend \/ UNCHANGED <<freebufs, listening>>
      BY <2>2 DEF Next, Secondary, Sending, MainGoesOn, Device, sendVars,
         SendPixelsPoll, SendPixelsDrain, SendPixelsWait, SendPixelsSend, QNotified,
         QNotifiedAgain, QNotifiedReturn, UpdateScreenBlit,
         DebugPollUpdate, PerfTestUpdate, PerfTestEnd, TransactSend, TransactDone, ModeFails,
         ModeDone, DebugPoll, SetMode, Draw, DeviceTransfer, DeviceFlush, DeviceCommand,
         QPollRead, QPollStore, Return
    <3> QED
      BY <3>1, <3>4, <3>5, <3>6
  <2>3. CASE sending # "idle"
    <3>1. SendPixelsWait \/ SendPixelsSend
      BY <1>1, <2>3 DEF Next, Secondary, Sending, MainGoesOn, Device, sendVars,
         SendPixelsPoll, SendPixelsDrain, PollEntry, QNotified,
         QNotifiedAgain, QNotifiedReturn, VBL, UpdateScreenBlit, UpdateScreenSend,
         DebugPollUpdate, PerfTestUpdate, PerfTestEnd, TransactSend, TransactDone, ModeFails,
         ModeDone, DebugPoll, SetMode, Draw, DeviceTransfer, DeviceFlush, DeviceCommand,
         QPollRead, QPollStore, Return, MainLine, MayInterrupt, SecondaryIdle
    <3> QED
      BY <1>1, <2>3, <3>1 DEF SendPixelsWait, SendPixelsSend, Control
  <2> QED
    BY <2>1, <2>2, <2>3
<1>2. ASSUME listening' = TRUE, sending' # "poll", used' # <<>>
      PROVE  notified' = TRUE \/ bottomHalf' = "poll1"
  <2>1. ASSUME Device PROVE notified' = TRUE \/ bottomHalf' = "poll1"
    <3>1. PICK tag : Return(tag)
      BY <2>1, DeviceReturns
    <3>2. listening = TRUE
      BY <1>2, <3>1 DEF Return, sendVars
    <3>3. interest > 0
      BY <3>2 DEF Control
    <3>4. bottomHalf' = bottomHalf /\ notified' = (notified \/ (interest > 0 /\ bottomHalf # "poll1"))
      BY <3>1, Zenon DEF Return
    <3> QED
      BY <3>3, <3>4, Zenon
  <2>2. CASE ~Device
    <3>1. \/ /\ used' = used /\ notified' = notified /\ (bottomHalf = "poll1" => bottomHalf' = "poll1")
             /\ listening = TRUE /\ sending # "poll"
          \/ QPollStore
          \/ bottomHalf' = "poll1"
      BY <1>2, <2>2 DEF Next, Secondary, Sending, MainGoesOn, sendVars, pollVars, irqVars, SendPixels,
         SendPixelsPoll, SendPixelsDrain, SendPixelsWait, SendPixelsSend, PollEntry, QNotified,
         QNotifiedAgain, QNotifiedReturn, VBL, UpdateScreenBlit, UpdateScreenSend,
         DebugPollUpdate, PerfTestUpdate, PerfTestEnd, TransactSend, TransactDone, ModeFails,
         ModeDone, DebugPoll, SetMode, Draw, QPollRead
    <3>2. QPollStore => UNCHANGED <<notified, bottomHalf>> /\ used # <<>> /\ listening = TRUE /\ sending # "poll"
      <4> DEFINE r == torn.read
                 s == torn.since
      <4>1. ASSUME QPollStore PROVE used = r \o s /\ r # <<>> /\ r \in Seq(Tag) /\ s \in Seq(Tag)
        BY <4>1 DEF QPollStore, Control, Queues
      <4>2. QPollStore => UNCHANGED <<notified, bottomHalf, listening, sending>>
        BY DEF QPollStore, irqVars, sendVars
      <4> HIDE DEF r, s
      <4>3. QPollStore => used # <<>>
        BY <4>1
      <4> QED
        BY <1>2, <4>2, <4>3
    <3>3. CASE bottomHalf' = "poll1"
      BY <3>3
    <3>4. CASE /\ notified' = notified /\ (bottomHalf = "poll1" => bottomHalf' = "poll1")
               /\ used # <<>> /\ listening = TRUE /\ sending # "poll"
      BY <3>4, Zenon DEF Heard
    <3> QED
      BY <1>2, <3>1, <3>2, <3>3, <3>4, Zenon
  <2> QED
    BY <2>1, <2>2, Zenon
<1> HIDE DEF Next
<1> QED
  BY <1>1, <1>2, Zenon DEF Heard

LEMMA NoCommand ==
  ASSUME TypeOK, Queues, Flow
  PROVE  \A n \in 1 .. Len(avail) : avail[n].tag \in Bufs \union {Tfer}
<1>1. inner \in Seq(Tag) /\ used \in Seq(Tag) /\ avail \in Seq(Message)
  BY DEF Queues
<1>2. OfUpdates(Left)
  BY DEF Flow, FlowOf, Pairs
<1> DEFINE k == Len(inner) + Len(used)
<1>3. k \in Nat /\ Len(Left) = k + Len(avail) /\ \A n \in 1 .. Len(avail) : Left[k + n] = avail[n].tag
  <2>1. k \in Nat
    BY <1>1
  <2>2. /\ Len(LeftOf(inner, used, avail)) = Len(inner) + Len(used) + Len(avail)
        /\ \A n \in 1 .. Len(avail) :
             LeftOf(inner, used, avail)[Len(inner) + Len(used) + n] = avail[n].tag
    BY <1>1, LeftShape
  <2> QED
    BY <2>1, <2>2, Zenon DEF Left
<1> SUFFICES ASSUME NEW n \in 1 .. Len(avail) PROVE avail[n].tag \in Bufs \union {Tfer}
  OBVIOUS
<1> HIDE DEF k
<1>4. k + n \in 1 .. Len(Left)
  BY <1>1, <1>3
<1>5. Left[k + n] \in Bufs \union {Tfer}
  BY <1>2, <1>4 DEF OfUpdates
<1> QED
  BY <1>3, <1>5

LEMMA WhatIsCarriedOut ==
  ASSUME TypeOK, Queues, Tagged, Device
  PROVE  \/ task = "spin" /\ DeviceCommand /\ avail = <<Order>> /\ avail' = <<>>
         \/ task # "spin" /\ UNCHANGED hostVars
<1>1. avail # <<>> /\ avail' = Tail(avail) /\ avail \in Seq(Message)
  BY DeviceReturns DEF Return, Queues
<1>2. CASE task = "spin"
  <2>1. avail = <<Order>>
    BY <1>1, <1>2 DEF Tagged, Commanded
  <2>2. Head(avail).tag = Done /\ avail' = <<>>
    BY <1>1, <2>1 DEF Order
  <2> QED
    BY <1>2, <2>1, <2>2, TagsDiffer DEF Device, DeviceTransfer, DeviceFlush
<1>3. CASE task # "spin"
  <2>1. \A n \in 1 .. Len(avail) : avail[n].tag \in Bufs \union {Tfer}
    BY <1>3, NoCommand DEF Tagged
  <2>2. Head(avail) = avail[1] /\ 1 \in 1 .. Len(avail)
    BY <1>1
  <2>3. Head(avail).tag # Done
    BY <2>1, <2>2, TagsDiffer
  <2> QED
    BY <1>3, <2>3 DEF Device, DeviceTransfer, DeviceFlush, DeviceCommand
<1> QED
  BY <1>2, <1>3

LEMMA CommandEnds ==
  ASSUME Tagged, TransactDone \/ ModeFails \/ ModeDone
  PROVE  task = "spin" /\ avail = <<>> /\ avail' = <<>>
<1>1. task = "spin" /\ lastTag = Done /\ avail' = avail
  BY DEF TransactDone, ModeFails, ModeDone
<1>2. avail = <<>>
  BY <1>1, TagsDiffer DEF Tagged, Commanded
<1> QED
  BY <1>1, <1>2

LEMMA ToldStep ==
  ASSUME TypeOK, Queues, Tagged, Told, Next
  PROVE  Told'
<1>1. avail \in Seq(Message) /\ freebufs \in SUBSET Bufs
  BY DEF Queues, TypeOK
<1>2. ASSUME SendPixelsSend PROVE Told'
  <2>1. CASE task = "spin"
    BY <1>2, <2>1 DEF Told, SendPixelsSend, taskVars
  <2>2. CASE task # "spin"
    <3> DEFINE i == Min(freebufs)
               m1 == UpdateMessage(Tfer, i)
               m2 == UpdateMessage(i, i)
               k == Len(avail)
    <3>1. avail' = avail \o <<m1, m2>> /\ screenResource' = screenResource /\ freebufs # {}
      BY <1>2 DEF SendPixelsSend, UpdateMessages, screenVars
    <3>2. i \in Bufs
      BY <1>1, <3>1, MinIsFree
    <3>3. /\ m1.tag = Tfer /\ m1.buf = i /\ m1.res = screenResource
          /\ m2.tag = i /\ m2.buf = i /\ m2.res = screenResource
      BY DEF UpdateMessage
    <3>a. m1 \in Message /\ m2 \in Message
      BY <3>2 DEF UpdateMessage, Message, Update, TypeOK
    <3> HIDE DEF i, m1, m2
    <3>4. /\ k \in Nat /\ Len(avail') = k + 2 /\ \A n \in 1 .. k : avail'[n] = avail[n]
          /\ avail'[k + 1] = m1 /\ avail'[k + 2] = m2
      BY <1>1, <3>1, <3>a
    <3>5. \A n \in 1 .. k :
            /\ avail[n].res = screenResource /\ avail[n].buf \in Bufs
            /\ avail[n].tag \in Bufs => avail[n].buf = avail[n].tag
            /\ avail[n].tag = Tfer => n < k /\ avail[n + 1].tag = avail[n].buf
      BY <2>2 DEF Told
    <3> HIDE DEF k
    <3> SUFFICES ASSUME NEW n \in 1 .. k + 2
                 PROVE  /\ avail'[n].res = screenResource /\ avail'[n].buf \in Bufs
                        /\ avail'[n].tag \in Bufs => avail'[n].buf = avail'[n].tag
                        /\ avail'[n].tag = Tfer => n < k + 2 /\ avail'[n + 1].tag = avail'[n].buf
      BY <3>1, <3>4, Zenon DEF Told
    <3>6. CASE n \in 1 .. k
      <4>1. n < k => n + 1 \in 1 .. k
        BY <3>4
      <4>2. n < k => n < k + 2
        BY <3>4
      <4> QED
        BY <3>4, <3>5, <3>6, <4>1, <4>2
    <3>7. CASE n = k + 1
      <4>1. n < k + 2 /\ n + 1 = k + 2
        BY <3>4, <3>7
      <4> QED
        BY <3>2, <3>3, <3>4, <3>7, <4>1, TagsDiffer
    <3>8. CASE n = k + 2
      BY <3>2, <3>3, <3>4, <3>8, TagsDiffer
    <3> QED
      BY <3>4, <3>6, <3>7, <3>8
  <2> QED
    BY <2>1, <2>2
<1>3. ASSUME Device PROVE Told'
  <2>1. avail # <<>> /\ avail' = Tail(avail) /\ screenResource' = screenResource /\ task' = task
    BY <1>3, DeviceReturns DEF Return
  <2> DEFINE k == Len(avail)
  <2>2. /\ k \in Nat \ {0} /\ Len(avail') = k - 1 /\ \A n \in 1 .. k - 1 : avail'[n] = avail[n + 1]
    BY <1>1, <2>1
  <2>3. task # "spin" => \A n \in 1 .. k :
          /\ avail[n].res = screenResource /\ avail[n].buf \in Bufs
          /\ avail[n].tag \in Bufs => avail[n].buf = avail[n].tag
          /\ avail[n].tag = Tfer => n < k /\ avail[n + 1].tag = avail[n].buf
    BY DEF Told
  <2> HIDE DEF k
  <2> SUFFICES ASSUME task # "spin", NEW n \in 1 .. k - 1
               PROVE  /\ avail'[n].res = screenResource /\ avail'[n].buf \in Bufs
                      /\ avail'[n].tag \in Bufs => avail'[n].buf = avail'[n].tag
                      /\ avail'[n].tag = Tfer => n < k - 1 /\ avail'[n + 1].tag = avail'[n].buf
    BY <2>1, <2>2, Zenon DEF Told
  <2> DEFINE m == n + 1
  <2>4. m \in 1 .. k /\ avail'[n] = avail[m] /\ (m < k => n < k - 1 /\ avail'[n + 1] = avail[m + 1])
    <3>1. m \in 1 .. k /\ avail'[n] = avail[m]
      BY <2>2
    <3>2. ASSUME m < k PROVE n < k - 1 /\ avail'[n + 1] = avail[m + 1]
      <4>1. m \in 1 .. k - 1 /\ n < k - 1
        BY <2>2, <3>2
      <4> QED
        BY <2>2, <4>1
    <3> QED
      BY <3>1, <3>2
  <2> HIDE DEF m
  <2> QED
    BY <2>3, <2>4
<1>4. ASSUME TransactDone \/ ModeFails \/ ModeDone PROVE Told'
  BY <1>4, CommandEnds DEF Told
<1>5. TransactSend => Told'
  BY DEF TransactSend, Told
<1>6. \/ SendPixelsSend \/ Device \/ TransactDone \/ ModeFails \/ ModeDone \/ TransactSend
      \/ UNCHANGED <<avail, screenResource>> /\ (task' # "spin" => task # "spin")
  BY DEF Next, Secondary, Sending, MainGoesOn, taskVars, screenVars,
         SendPixelsPoll, SendPixelsDrain, SendPixelsWait, PollEntry, QNotified,
         QNotifiedAgain, QNotifiedReturn, VBL, UpdateScreenBlit, UpdateScreenSend,
         DebugPollUpdate, PerfTestUpdate, PerfTestEnd, DebugPoll, SetMode, Draw, QPollRead, QPollStore
<1>7. ASSUME UNCHANGED <<avail, screenResource>>, task' # "spin" => task # "spin" PROVE Told'
  BY <1>7 DEF Told
<1> HIDE DEF Next
<1> QED
  BY <1>2, <1>3, <1>4, <1>5, <1>6, <1>7, Zenon

LEMMA HostStep ==
  ASSUME TypeOK, Queues, Control, Tagged, HostFollows, Next
  PROVE  HostFollows'
<1>0. /\ screenResource \in Resources /\ cmd \in Commands
      /\ NewResource \in Resources /\ NewResource # screenResource
  <2>1. screenResource \in Resources /\ cmd \in Commands
    BY DEF TypeOK
  <2>2. \E r \in Resources : r # screenResource
    <3>1. 100 \in Resources /\ 101 \in Resources /\ 100 # 101
      BY DEF Resources
    <3> QED
      BY <3>1
  <2> QED
    BY <2>1, <2>2 DEF NewResource
<1>1. ASSUME Device, task = "spin" PROVE HostFollows'
  <2>1. DeviceCommand /\ avail = <<Order>>
    BY <1>1, WhatIsCarriedOut
  <2>2. Head(avail).cmd = cmd /\ Head(avail).res = Target(cmd)
    BY <2>1 DEF Order
  <2>3. UNCHANGED <<screenResource, cmd, task>>
    BY <2>1 DEF DeviceCommand, Return
  <2>4. NewResource' = NewResource
    BY <2>3 DEF NewResource
  <2>5. CASE cmd = "create"
    <3>1. created \subseteq created' /\ backed' = backed /\ scanout' = scanout
          /\ (reply' = "ok" => NewResource \in created')
      BY <2>1, <2>2, <2>5 DEF DeviceCommand, Target
    <3> QED
      BY <1>1, <2>3, <2>4, <2>5, <3>1 DEF HostFollows, Shows
  <2>6. CASE cmd # "create"
    <3>1. /\ created' = IF cmd = "unref" THEN created \ {Target(cmd)} ELSE created
          /\ backed' = CASE cmd = "attach" -> backed \union {Target(cmd)}
                         [] cmd = "detach" -> backed \ {Target(cmd)}
                         [] OTHER -> backed
          /\ scanout' = IF cmd = "scanout" THEN Target(cmd) ELSE scanout
      BY <2>1, <2>2, <2>6, Zenon DEF DeviceCommand
    <3>2. CASE cmd = "detach"
      BY <1>0, <1>1, <2>3, <2>4, <3>1, <3>2 DEF HostFollows, Target
    <3>3. CASE cmd = "attach"
      BY <1>0, <1>1, <2>3, <2>4, <3>1, <3>3 DEF HostFollows, Target
    <3>4. CASE cmd = "scanout"
      BY <1>0, <1>1, <2>3, <2>4, <3>1, <3>4 DEF HostFollows, Target
    <3>5. CASE cmd = "unref"
      BY <1>0, <1>1, <2>3, <2>4, <3>1, <3>5 DEF HostFollows, Target
    <3> QED
      BY <1>0, <2>6, <3>2, <3>3, <3>4, <3>5 DEF Commands
  <2> QED
    BY <2>5, <2>6
<1>2. ASSUME Device, task # "spin" PROVE HostFollows'
  <2>1. UNCHANGED <<created, backed, scanout>>
    BY <1>2, WhatIsCarriedOut DEF hostVars
  <2>2. UNCHANGED <<screenResource, cmd, task>>
    BY <1>2, DeviceReturns DEF Return
  <2>3. NewResource' = NewResource
    BY <2>2 DEF NewResource
  <2> QED
    BY <1>2, <2>1, <2>2, <2>3 DEF HostFollows, Shows
<1>3. ASSUME TransactDone PROVE HostFollows'
  <2>1. task = "spin" /\ avail = <<>> /\ cmd # "unref" /\ (cmd = "create" => reply = "ok")
        /\ cmd' = Following(cmd) /\ task' = "wait"
        /\ UNCHANGED <<created, backed, scanout, screenResource>>
    BY <1>3, CommandEnds DEF TransactDone, screenVars, hostVars
  <2>2. NewResource' = NewResource
    BY <2>1 DEF NewResource
  <2>3. \/ cmd = "create" /\ cmd' = "detach"
        \/ cmd = "detach" /\ cmd' = "attach"
        \/ cmd = "attach" /\ cmd' = "scanout"
        \/ cmd = "scanout" /\ cmd' = "unref"
    <3>1. cmd \in {"create", "detach", "attach", "scanout"}
      BY <1>0, <2>1 DEF Commands
    <3> QED
      BY <2>1, <3>1 DEF Following
  <2> QED
    BY <1>0, <2>1, <2>2, <2>3 DEF HostFollows
<1>4. ASSUME ModeFails PROVE HostFollows'
  <2>1. cmd = "create" /\ task' = "idle" /\ UNCHANGED <<created, backed, scanout, screenResource, cmd>>
    BY <1>4 DEF ModeFails, hostVars
  <2> QED
    BY <1>0, <2>1 DEF HostFollows, Shows
<1>5. ASSUME ModeDone PROVE HostFollows'
  <2>1. cmd = "unref" /\ cmd' = "create" /\ task' \in {"blit", "perf"}
        /\ screenResource' = NewResource /\ UNCHANGED <<created, backed, scanout>>
    BY <1>5 DEF ModeDone, hostVars
  <2> QED
    BY <1>0, <2>1 DEF HostFollows, Shows
<1>6. \/ Device \/ TransactDone \/ ModeFails \/ ModeDone
      \/ /\ UNCHANGED <<created, backed, scanout, screenResource>>
         /\ \/ cmd' = cmd /\ task' = task /\ UNCHANGED <<avail, reply>>
            \/ cmd' = cmd /\ task' = task /\ (task # "spin" \/ avail' # <<>>)
            \/ cmd' = cmd /\ task \notin {"wait", "spin"} /\ task' # "spin"
            \/ cmd' = "create" /\ task \notin {"wait", "spin"} /\ task' # "spin"
            \/ cmd' = cmd /\ task = "wait" /\ task' = "spin" /\ avail' # <<>>
  <2>1. TransactSend => avail' # <<>>
    BY DEF TransactSend, Queues
  <2>2. SendPixelsSend => avail' # <<>>
    BY DEF SendPixelsSend, UpdateMessages, Queues
  <2>3. after \in {"idle", "perf"}
    BY DEF TypeOK
  <2> QED
    BY <2>1, <2>2, <2>3 DEF Next, Secondary, Sending, MainGoesOn, taskVars, screenVars, hostVars,
         SendPixelsPoll, SendPixelsDrain, SendPixelsWait, SendPixelsSend, PollEntry, QNotified,
         QNotifiedAgain, QNotifiedReturn, VBL, UpdateScreenBlit, UpdateScreenSend, TransactSend,
         DebugPollUpdate, PerfTestUpdate, PerfTestEnd, DebugPoll, SetMode, Draw, QPollRead, QPollStore
<1>7. ASSUME UNCHANGED <<created, backed, scanout, screenResource>>,
             \/ cmd' = cmd /\ task' = task /\ UNCHANGED <<avail, reply>>
             \/ cmd' = cmd /\ task' = task /\ (task # "spin" \/ avail' # <<>>)
             \/ cmd' = cmd /\ task \notin {"wait", "spin"} /\ task' # "spin"
             \/ cmd' = "create" /\ task \notin {"wait", "spin"} /\ task' # "spin"
             \/ cmd' = cmd /\ task = "wait" /\ task' = "spin" /\ avail' # <<>>
      PROVE  HostFollows'
  <2>1. NewResource' = NewResource
    BY <1>7 DEF NewResource
  <2>2. CASE cmd' = cmd /\ task' = task /\ UNCHANGED <<avail, reply>>
    BY <1>7, <2>1, <2>2 DEF HostFollows, Shows
  <2>3. CASE cmd' = cmd /\ task' = task /\ (task # "spin" \/ avail' # <<>>)
    BY <1>7, <2>1, <2>3 DEF HostFollows, Shows
  <2>4. CASE cmd' \in {cmd, "create"} /\ task \notin {"wait", "spin"} /\ task' # "spin"
    <3>1. cmd = "create" /\ cmd' = "create"
      BY <2>4 DEF HostFollows
    <3> QED
      BY <1>7, <2>1, <2>4, <3>1 DEF HostFollows, Shows
  <2>5. CASE cmd' = cmd /\ task = "wait" /\ task' \in {"wait", "spin"} /\ avail' # <<>>
    BY <1>7, <2>1, <2>5 DEF HostFollows, Shows
  <2> QED
    BY <1>7, <2>2, <2>3, <2>4, <2>5
<1> HIDE DEF Next
<1> QED
  BY <1>1, <1>2, <1>3, <1>4, <1>5, <1>6, <1>7

-----------------------------------------------------------------------------
(* The inductive invariant. *)
Invariant == TypeOK /\ Queues /\ IInv

LEMMA Begins == Init => Invariant
<1> SUFFICES ASSUME Init PROVE Invariant
  OBVIOUS
<1>1. freebufs = Bufs /\ sending = "idle" /\ inner = <<>> /\ outer = <<>> /\ used = <<>>
      /\ avail = <<>> /\ pending = {} /\ task = "idle" /\ torn = NotTorn /\ listening = FALSE
      /\ interest = 0 /\ bottomHalf = "idle" /\ cmd = "create"
  BY DEF Init
<1>2. Queues
  <2>1. <<>> \in Seq(Tag) /\ <<>> \in Seq(Message)
    OBVIOUS
  <2>2. torn = [active |-> FALSE, read |-> <<>>, since |-> <<>>]
    BY <1>1 DEF NotTorn
  <2>3. torn \in [active : BOOLEAN, read : Seq(Tag), since : Seq(Tag)]
    BY <2>1, <2>2, Zenon
  <2> QED
    BY <1>1, <2>1, <2>3, Zenon DEF Queues
<1>3. TypeOK
  <2>1. changeInProgress \in BOOLEAN /\ listening \in BOOLEAN /\ notified \in BOOLEAN
    BY Zenon DEF Init
  <2>2. torn.active \in BOOLEAN /\ torn.read \in Seq(Tag) /\ torn.since \in Seq(Tag)
    BY <1>2, Zenon DEF Queues
  <2>3. \A s \in {inner, outer, used, torn.read, torn.since} : s \in Seq(Tag)
    BY <1>2, <2>2, Zenon DEF Queues
  <2>4. /\ stage \in [Tiles -> Stages]
        /\ freebufs \subseteq Bufs /\ lastTag \in Tag \union {Wait}
        /\ screenResource \in Resources
        /\ pending \subseteq Tiles /\ rect \subseteq Tiles /\ area \subseteq Tiles
        /\ interest \in {0, 1}
        /\ sending \in {"idle", "poll", "drain"}
        /\ task \in {"idle", "blit", "send", "debug", "perf", "wait", "spin"}
        /\ after \in {"idle", "perf"}
        /\ cmd \in Commands /\ reply \in {"ok", "error"}
        /\ bottomHalf \in {"idle", "poll1", "poll2"}
        /\ created \subseteq Resources /\ backed \subseteq Resources /\ scanout \in Resources
    BY DEF Init, Stages, Tag, Resources, Commands
  <2>5. avail \in Seq(Message)
    BY <1>2 DEF Queues
  <2> QED
    BY <2>1, <2>2, <2>3, <2>4, <2>5, Zenon DEF TypeOK
<1>4. Flow
  <2>1. LeftOf(<<>>, <<>>, <<>>) = <<>>
    <3>1. <<>> \in Seq(Tag) /\ <<>> \in Seq(Message)
      OBVIOUS
    <3> QED
      BY <3>1, LeftEmpty, Zenon
  <2>2. Left = <<>>
    BY <1>1, <2>1 DEF Left
  <2> QED
    BY <1>1, <2>2, FlowBegins DEF Flow
<1>5. Tagged
  BY <1>1, <1>4 DEF Tagged
<1>6. Control
  BY <1>1 DEF Control, NotTorn
<1>7. Heard /\ Told
  BY <1>1 DEF Heard, Told
<1>8. HostFollows
  BY DEF Init, HostFollows, Shows, Resources
<1> QED
  BY <1>2, <1>3, <1>5, <1>6, <1>7, <1>8 DEF Invariant, IInv

LEMMA Rests ==
  ASSUME Invariant, UNCHANGED vars
  PROVE  Invariant'
<1> USE DEF vars, screenVars, hostVars, sendVars, pollVars, taskVars, irqVars
<1>1. TypeOK'
  <2>1. TypeOK
    BY DEF Invariant
  <2>2. \A s \in {inner', outer', used', torn'.read, torn'.since} : s \in Seq(Tag)
    <3>1. \A s \in {inner, outer, used, torn.read, torn.since} : s \in Seq(Tag)
      BY <2>1, Zenon DEF TypeOK
    <3>2. UNCHANGED <<inner, outer, used, torn>>
      OBVIOUS
    <3> QED
      BY <3>1, <3>2
  <2>3. changeInProgress' \in BOOLEAN /\ listening' \in BOOLEAN /\ notified' \in BOOLEAN
        /\ torn'.active \in BOOLEAN
    BY <2>1, Zenon DEF TypeOK
  <2>4. /\ stage' \in [Tiles -> Stages]
        /\ freebufs' \subseteq Bufs /\ lastTag' \in Tag \union {Wait}
        /\ screenResource' \in Resources
        /\ pending' \subseteq Tiles /\ rect' \subseteq Tiles /\ area' \subseteq Tiles
        /\ interest' \in {0, 1}
        /\ sending' \in {"idle", "poll", "drain"}
        /\ avail' \in Seq(Message)
    BY <2>1 DEF TypeOK
  <2>5. /\ task' \in {"idle", "blit", "send", "debug", "perf", "wait", "spin"}
        /\ after' \in {"idle", "perf"}
        /\ cmd' \in Commands /\ reply' \in {"ok", "error"}
        /\ bottomHalf' \in {"idle", "poll1", "poll2"}
        /\ created' \subseteq Resources /\ backed' \subseteq Resources /\ scanout' \in Resources
    BY <2>1 DEF TypeOK
  <2> QED
    BY <2>2, <2>3, <2>4, <2>5, Zenon DEF TypeOK
<1>2. Queues'
  BY Zenon DEF Invariant, Queues
<1>3. UNCHANGED <<freebufs, sending, inner, outer, used, avail, pending, cmd, lastTag, screenResource,
                  task>>
  OBVIOUS
<1>4. Tagged'
  BY <1>3, FlowSame DEF Invariant, IInv, Tagged
<1>5. Control' /\ Heard'
  BY Zenon DEF Invariant, IInv, Control, Heard
<1>6. Told'
  BY <1>3 DEF Invariant, IInv, Told
<1>7. HostFollows'
  <2>1. NewResource' = NewResource
    BY <1>3 DEF NewResource
  <2>2. UNCHANGED <<created, backed, scanout, reply>>
    OBVIOUS
  <2> QED
    BY <1>3, <2>1, <2>2 DEF Invariant, IInv, HostFollows, Shows
<1> QED
  BY <1>1, <1>2, <1>4, <1>5, <1>6, <1>7 DEF Invariant, IInv

LEMMA Kept ==
  ASSUME PollsTorn = FALSE, Invariant, [Next]_vars
  PROVE  Invariant'
<1>1. CASE Next
  <2>1. TypeOK /\ Queues /\ Tagged /\ Control /\ Heard /\ Told /\ HostFollows
    BY DEF Invariant, IInv
  <2> QED
    BY <1>1, <2>1, TypeStep, QueuesStep, TaggedStep, ControlStep, HeardStep, ToldStep, HostStep
       DEF Invariant, IInv
<1>2. CASE UNCHANGED vars
  BY <1>2, Rests
<1> QED
  BY <1>1, <1>2

LEMMA Invariance == ASSUME PollsTorn = FALSE PROVE Spec => []Invariant
BY Begins, Kept, PTL DEF Spec

-----------------------------------------------------------------------------
(* What follows from it. *)

(* While a command is on its way nothing else is; otherwise nothing that    *)
(* travels is a command.                                                    *)
LEMMA NoneOrOne ==
  ASSUME Invariant, NEW n \in 1 .. Len(avail), avail[n].tag = Done
  PROVE  task = "spin" /\ Commanded /\ avail = <<Order>> /\ used = <<>>
<1>1. task = "spin"
  BY NoCommand, TagsDiffer DEF Invariant, IInv, Tagged
<1>2. Commanded
  BY <1>1 DEF Invariant, IInv, Tagged
<1>3. avail # <<>>
  OBVIOUS
<1> QED
  BY <1>1, <1>2, <1>3 DEF Commanded

LEMMA Alone1 == Invariant => CommandAlone
<1> SUFFICES ASSUME Invariant, NEW n \in DOMAIN avail, avail[n].tag = Done
             PROVE  Len(avail) = 1 /\ used = <<>> /\ inner = <<>> /\ freebufs = Bufs
  BY DEF CommandAlone
<1>1. n \in 1 .. Len(avail)
  BY DEF Invariant, Queues
<1>2. Commanded /\ avail = <<Order>> /\ used = <<>>
  BY <1>1, NoneOrOne
<1> QED
  BY <1>2 DEF Commanded, Quiet

LEMMA Fresh1 == Invariant => NoStaleResource
<1> SUFFICES ASSUME Invariant, NEW n \in DOMAIN avail, avail[n].tag # Done
             PROVE  avail[n].res \in created \intersect backed /\ avail[n].res = scanout
  BY DEF NoStaleResource
<1>1. n \in 1 .. Len(avail) /\ avail # <<>>
  BY DEF Invariant, Queues
<1>2. task # "spin"
  <2> SUFFICES ASSUME task = "spin" PROVE FALSE
    OBVIOUS
  <2>1. avail = <<Order>>
    BY <1>1 DEF Invariant, IInv, Tagged, Commanded
  <2> QED
    BY <1>1, <2>1 DEF Order
<1>3. cmd = "create"
  BY <1>1, <1>2 DEF Invariant, IInv, Tagged, BetweenCommands, HostFollows
<1>4. Shows(screenResource)
  BY <1>3 DEF Invariant, IInv, HostFollows
<1>5. avail[n].res = screenResource
  BY <1>1, <1>2 DEF Invariant, IInv, Told
<1> QED
  BY <1>4, <1>5 DEF Shows

LEMMA Finished1 == Invariant => FreeWhenFinished
<1> SUFFICES ASSUME Invariant, NEW n \in DOMAIN avail, avail[n].tag # Done
             PROVE  avail[n].buf \notin freebufs
  BY DEF FreeWhenFinished
<1>1. n \in 1 .. Len(avail) /\ avail # <<>>
  BY DEF Invariant, Queues
<1>2. task # "spin"
  <2> SUFFICES ASSUME task = "spin" PROVE FALSE
    OBVIOUS
  <2>1. avail = <<Order>>
    BY <1>1 DEF Invariant, IInv, Tagged, Commanded
  <2> QED
    BY <1>1, <2>1 DEF Order
<1>3. \A m \in 1 .. Len(avail) : avail[m].tag \in Bufs \union {Tfer} /\ avail[m].tag \notin freebufs
  <2>1. inner \in Seq(Tag) /\ used \in Seq(Tag) /\ avail \in Seq(Message)
    BY DEF Invariant, Queues
  <2>2. OfUpdates(Left) /\ Lent(Left, freebufs)
    BY <1>2 DEF Invariant, IInv, Tagged, Flow, FlowOf, Pairs
  <2> DEFINE k == Len(inner) + Len(used)
  <2>3. k \in Nat /\ Len(Left) = k + Len(avail) /\ \A m \in 1 .. Len(avail) : Left[k + m] = avail[m].tag
    <3>1. k \in Nat
      BY <2>1
    <3>2. /\ Len(LeftOf(inner, used, avail)) = Len(inner) + Len(used) + Len(avail)
          /\ \A m \in 1 .. Len(avail) :
               LeftOf(inner, used, avail)[Len(inner) + Len(used) + m] = avail[m].tag
      BY <2>1, LeftShape
    <3> QED
      BY <3>1, <3>2, Zenon DEF Left
  <2> HIDE DEF k
  <2> SUFFICES ASSUME NEW m \in 1 .. Len(avail)
               PROVE  avail[m].tag \in Bufs \union {Tfer} /\ avail[m].tag \notin freebufs
    OBVIOUS
  <2>4. k + m \in 1 .. Len(Left)
    BY <2>1, <2>3
  <2> QED
    BY <2>2, <2>3, <2>4 DEF OfUpdates, Lent
<1>4. /\ avail[n].buf \in Bufs
      /\ avail[n].tag \in Bufs => avail[n].buf = avail[n].tag
      /\ avail[n].tag = Tfer => n < Len(avail) /\ avail[n + 1].tag = avail[n].buf
  BY <1>1, <1>2 DEF Invariant, IInv, Told
<1>5. CASE avail[n].tag \in Bufs
  BY <1>1, <1>3, <1>4, <1>5
<1>6. CASE avail[n].tag = Tfer
  <2>1. n + 1 \in 1 .. Len(avail)
    BY <1>1, <1>4, <1>6 DEF Invariant, Queues
  <2> QED
    BY <1>3, <1>4, <1>6, <2>1
<1> QED
  BY <1>1, <1>3, <1>5, <1>6

LEMMA Budget1 == Invariant => DescriptorBudget
<1> SUFFICES ASSUME Invariant PROVE DescriptorBudget
  OBVIOUS
<1>1. /\ inner \in Seq(Tag) /\ outer \in Seq(Tag) /\ used \in Seq(Tag) /\ avail \in Seq(Message)
      /\ freebufs \in SUBSET Bufs
  BY DEF Invariant, Queues, TypeOK
<1>2. Left \in Seq(Tag) /\ Len(Left) = Len(inner) + Len(used) + Len(avail)
  BY <1>1, LeftShape DEF Left
<1>3. /\ Len(inner) \in Nat /\ Len(outer) \in Nat /\ Len(used) \in Nat /\ Len(avail) \in Nat
      /\ MaxInFlight \in Nat \ {0}
  BY <1>1, DisplayAssumption
<1>4. CASE task # "spin"
  <2>1. FlowOf(outer, Left, freebufs, Spare)
    BY <1>4 DEF Invariant, IInv, Tagged, Flow
  <2>2. Spare = 2 \/ Spare = 1
    BY DEF Spare
  <2>3. FlowOf(outer, Left, freebufs, 1)
    BY <1>1, <1>2, <2>1, <2>2, FlowRests
  <2> DEFINE l == Left
  <2>4. Len(outer) + Len(l) <= 2 * MaxInFlight
    <3>1. l \in Seq(Tag) /\ FlowOf(outer, l, freebufs, 1)
      BY <1>2, <2>3
    <3> HIDE DEF l
    <3> QED
      BY <1>1, <3>1, FlowBudget
  <2> QED
    BY <1>2, <1>3, <2>4 DEF DescriptorBudget
<1>5. CASE task = "spin"
  <2>1. Commanded
    BY <1>5 DEF Invariant, IInv, Tagged
  <2>2. Len(<<>>) = 0 /\ Len(<<Done>>) = 1 /\ Len(<<Order>>) = 1
    OBVIOUS
  <2>3. Len(avail) + Len(used) + Len(inner) + Len(outer) <= 1
    BY <1>3, <2>1, <2>2 DEF Commanded, Quiet
  <2> QED
    BY <1>3, <2>3 DEF DescriptorBudget
<1> QED
  BY <1>4, <1>5

LEMMA Awaits1 == Invariant => AwaitsCompletion
<1> SUFFICES ASSUME Invariant, pending # {}, MainLine
             PROVE  /\ freebufs = {} /\ interest > 0
                    /\ \/ \E n \in DOMAIN avail : avail[n].tag \in Bufs
                       \/ notified /\ \E n \in DOMAIN used : used[n] \in Bufs
  BY Zenon DEF AwaitsCompletion
<1>1. sending = "idle" /\ inner = <<>> /\ outer = <<>> /\ bottomHalf = "idle"
  BY DEF MainLine, SecondaryIdle
<1>2. freebufs = {} /\ listening = TRUE
  BY <1>1 DEF Invariant, IInv, Heard
<1>3. interest > 0
  BY <1>2 DEF Invariant, IInv, Control
<1>4. task # "spin"
  BY DEF Invariant, IInv, Tagged, Commanded, Quiet
<1> DEFINE l == Left
<1>5. FlowOf(<<>>, l, {}, 1)
  BY <1>1, <1>2, <1>4 DEF Invariant, IInv, Tagged, Flow, Spare
<1>6. used \in Seq(Tag) /\ avail \in Seq(Message)
  BY DEF Invariant, Queues
<1>7. /\ l \in Seq(Tag) /\ Len(l) = Len(used) + Len(avail)
      /\ \A n \in 1 .. Len(used) : l[n] = used[n]
      /\ \A n \in 1 .. Len(avail) : l[Len(used) + n] = avail[n].tag
  BY <1>1, <1>6, LeftUnclaimed, Zenon DEF Left
<1> HIDE DEF l
<1>8. Len(l) > 0 /\ l[Len(l)] \in Bufs
  <2>1. Len(<<>>) = 0
    OBVIOUS
  <2>2. Cardinality({}) = 0
    BY FS_EmptySet
  <2>3. EndsWithin(<<>>) = 0 /\ BeginsWithin(<<>>) = 0 /\ BeginsWithin(l) \in {0, 1}
    BY <2>1 DEF EndsWithin, BeginsWithin
  <2>4. Len(<<>>) + Len(l) = 2 * (MaxInFlight - Cardinality({}))
                              + EndsWithin(<<>>) - BeginsWithin(<<>>) - BeginsWithin(l)
    BY <1>5, Zenon DEF FlowOf, Counted
  <2>5. Len(l) \in Nat
    BY <1>7
  <2>6. Len(l) > 0
    BY <2>1, <2>2, <2>3, <2>4, <2>5, DisplayAssumption
  <2> QED
    BY <1>5, <2>5, <2>6 DEF FlowOf, Pairs, OfUpdates, EndsPaired
<1>9. CASE avail # <<>>
  <2>1. Len(avail) \in 1 .. Len(avail) /\ Len(l) = Len(used) + Len(avail)
    BY <1>6, <1>7, <1>9
  <2>2. avail[Len(avail)].tag \in Bufs
    BY <1>7, <1>8, <2>1
  <2>3. Len(avail) \in DOMAIN avail
    BY <1>6, <2>1
  <2> QED
    BY <1>2, <1>3, <2>2, <2>3
<1>10. CASE avail = <<>>
  <2>1. Len(l) = Len(used)
    BY <1>6, <1>7, <1>10
  <2>2. Len(used) \in 1 .. Len(used) /\ used[Len(used)] \in Bufs
    BY <1>6, <1>7, <1>8, <2>1
  <2>3. Len(used) \in DOMAIN used /\ used # <<>>
    BY <1>6, <2>2
  <2>4. notified = TRUE
    BY <1>1, <1>2, <2>3, Zenon DEF Invariant, IInv, Heard
  <2> QED
    BY <1>2, <1>3, <2>2, <2>3, <2>4
<1> QED
  BY <1>9, <1>10

-----------------------------------------------------------------------------
(* The free buffers, the pending rectangle and the queue agree, whatever    *)
(* interrupts whatever: no rectangle that waits for a buffer is stranded,   *)
(* no buffer is filled again while one of its two messages is with the      *)
(* device, and QSend never panics for want of descriptors (sendPixels,      *)
(* DNotified).                                                              *)
THEOREM NoUpdateLost == ASSUME PollsTorn = FALSE PROVE Spec => []UpdatesAccounted
<1>1. Invariant => UpdatesAccounted
  BY Awaits1, Finished1, Budget1 DEF UpdatesAccounted, Invariant
<1> QED
  BY <1>1, Invariance, PTL

(* transact overwrites the page and recognises its reply by the last tag    *)
(* seen: its command is always alone, though interrupts go on throughout.   *)
THEOREM CommandIsAlone == ASSUME PollsTorn = FALSE PROVE Spec => []CommandAlone
BY Alone1, Invariance, PTL

(* Updates name the resource that the host shows, through every change of   *)
(* mode and every refusal of one (setVirtioScanout, updateScreen).          *)
THEOREM ResourcesAreFresh == ASSUME PollsTorn = FALSE PROVE Spec => []NoStaleResource
BY Fresh1, Invariance, PTL
=============================================================================
