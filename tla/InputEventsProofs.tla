-------------------------- MODULE InputEventsProofs -------------------------
(***************************************************************************)
(* Theorems about InputEvents for every number of buffers, buttons and     *)
(* positions.                                                              *)
(*                                                                         *)
(* The buffers are in two queues, those lent to the device and those that  *)
(* it has given back, whichever variables hold the latter.  The events     *)
(* that are still to be handled, those in returned buffers and the rest of *)
(* the packet being written, are a third queue; what it promises together  *)
(* with what has been handled is what the device has told.                 *)
(***************************************************************************)
EXTENDS InputEvents, FiniteSetTheorems, FunctionTheorems, SequenceTheorems, TLAPS

-----------------------------------------------------------------------------
(* The buffers: each is lent or returned, and once.                         *)
Held == IF step = "idle" THEN <<>> ELSE <<tag>>

Back == (Held \o claimed) \o used

Injective(s) == \A m, n \in 1 .. Len(s) : s[m] = s[n] => m = n

Whole(lent, back, k) ==
  /\ Len(lent) + Len(back) = k
  /\ Injective(lent) /\ Injective(back)
  /\ \A m \in 1 .. Len(lent), n \in 1 .. Len(back) : lent[m] # back[n]
  /\ \A n \in 1 .. Len(lent) : lent[n] \in 0 .. k - 1
  /\ \A n \in 1 .. Len(back) : back[n] \in 0 .. k - 1
  /\ \A b \in 0 .. k - 1 : \/ \E n \in 1 .. Len(lent) : lent[n] = b
                           \/ \E n \in 1 .. Len(back) : back[n] = b

Buffers ==
  /\ Whole(avail, Back, queuing)
  /\ Len(packet) <= Len(avail)

(* The events to come.  The first of the returned buffers may have been     *)
(* handled already.                                                         *)
ComingOf(pages, back, past, rest) ==
  [n \in 1 .. (Len(back) - past) + Len(rest) |->
     IF n <= Len(back) - past THEN pages[back[n + past]] ELSE rest[n - (Len(back) - past)]]

Past == IF step = "requeue" THEN 1 ELSE 0

Coming == ComingOf(lpage, Back, Past, packet)

Mentions(e, b) == e.type = "key" /\ e.button = b

Places(s) == \A n \in 1 .. Len(s) : s[n] \in Event

(* Packets end with a Syn and mention a button at most once, and so does    *)
(* what is left of a packet together with what has been handled of it.      *)
EndsPacket(s) == Len(s) > 0 => s[Len(s)].type = "syn"

MentionsOnce(s, known) ==
  /\ \A b \in Buttons, m, n \in 1 .. Len(s) :
       m < n /\ Mentions(s[m], b) /\ Mentions(s[n], b) =>
         \E k \in 1 .. Len(s) : m < k /\ k < n /\ s[k].type = "syn"
  /\ \A b \in known, n \in 1 .. Len(s) :
       Mentions(s[n], b) => \E k \in 1 .. Len(s) : k < n /\ s[k].type = "syn"

(* A button is as the last event says that is to come and mentions it, or   *)
(* else as the packet says of which some events have been handled, or else  *)
(* as it was.                                                               *)
Says(s, known, new, old, all) ==
  \A b \in Buttons :
    /\ (\A n \in 1 .. Len(s) : ~Mentions(s[n], b)) =>
         (b \in all <=> IF b \in known THEN b \in new ELSE b \in old)
    /\ \A n \in 1 .. Len(s) :
         Mentions(s[n], b) /\ (\A m \in 1 .. Len(s) : m > n => ~Mentions(s[m], b)) =>
           (b \in all <=> s[n].down = TRUE)

Points(s, here, pos) ==
  /\ (\A n \in 1 .. Len(s) : s[n].type # "abs") => pos = here
  /\ \A n \in 1 .. Len(s) :
       s[n].type = "abs" /\ (\A m \in 1 .. Len(s) : m > n => s[m].type # "abs") =>
         pos = s[n].pos

Wheels(s) == {n \in 1 .. Len(s) : s[n].type = "wheel"}

Here == IF knowpos = TRUE THEN x ELSE cursor

Told ==
  /\ EndsPacket(Coming)
  /\ knowmask # {} \/ knowpos = TRUE => Len(Coming) > 0
  /\ newbtn \subseteq knowmask
  /\ MentionsOnce(Coming, knowmask)
  /\ Says(Coming, knowmask, newbtn, oldbtn, told)
  /\ Points(Coming, Here, toldPos)
  /\ mouse = IF oldbtn = {} THEN "up" ELSE "down"

Scrolled ==
  /\ scrolled + pendingScroll + Cardinality(Wheels(Coming)) <= toldWheel
  /\ posted + Cardinality(Wheels(Coming)) <= toldWheel
  /\ tracking.at = "read" => tracking.steps <= pendingScroll

-----------------------------------------------------------------------------
(* What moving a buffer does, whatever the buffers are. *)

LEMMA WholeBothWays ==
  ASSUME NEW lent \in Seq(Nat), NEW back \in Seq(Nat), NEW k \in Nat, Whole(lent, back, k)
  PROVE  Whole(back, lent, k)
BY DEF Whole

LEMMA WholeBegins == Whole(<<>>, <<>>, 0)
BY DEF Whole, Injective

LEMMA WholeAdded ==
  ASSUME NEW lent \in Seq(Nat), NEW back \in Seq(Nat), NEW k \in Nat, Whole(lent, back, k)
  PROVE  Whole(Append(lent, k), back, k + 1)
<1> DEFINE l == Len(lent)
           more == Append(lent, k)
<1>1. /\ l \in Nat /\ Len(back) \in Nat /\ Len(more) = l + 1 /\ more[l + 1] = k
      /\ \A n \in 1 .. l : more[n] = lent[n]
      /\ \A n \in 1 .. Len(more) : n \in 1 .. l \/ n = l + 1
      /\ l + 1 \in 1 .. Len(more) /\ \A n \in 1 .. l : n \in 1 .. Len(more)
  OBVIOUS
<1>2. /\ l + Len(back) = k
      /\ \A m, n \in 1 .. l : lent[m] = lent[n] => m = n
      /\ \A m, n \in 1 .. Len(back) : back[m] = back[n] => m = n
      /\ \A m \in 1 .. l, n \in 1 .. Len(back) : lent[m] # back[n]
      /\ \A n \in 1 .. l : lent[n] \in 0 .. k - 1 /\ lent[n] # k
      /\ \A n \in 1 .. Len(back) : back[n] \in 0 .. k - 1 /\ back[n] # k
      /\ \A b \in 0 .. k - 1 : \/ \E n \in 1 .. l : lent[n] = b
                               \/ \E n \in 1 .. Len(back) : back[n] = b
  BY DEF Whole, Injective
<1>3. \A b \in 0 .. k : b \in 0 .. k - 1 \/ b = k
  OBVIOUS
<1>4. \A b \in 0 .. k - 1 : b \in 0 .. k
  OBVIOUS
<1>5. k \in 0 .. k /\ (k + 1) - 1 = k
  OBVIOUS
<1> HIDE DEF more, l
<1>6. Len(more) + Len(back) = k + 1
  BY <1>1, <1>2
<1>7. \A m, n \in 1 .. Len(more) : more[m] = more[n] => m = n
  BY <1>1, <1>2
<1>8. \A m \in 1 .. Len(more), n \in 1 .. Len(back) : more[m] # back[n]
  BY <1>1, <1>2
<1>9. \A n \in 1 .. Len(more) : more[n] \in 0 .. k
  BY <1>1, <1>2, <1>4, <1>5
<1>10. \A b \in 0 .. k : (\E n \in 1 .. Len(more) : more[n] = b) \/ (\E n \in 1 .. Len(back) : back[n] = b)
  <2> SUFFICES ASSUME NEW b \in 0 .. k
               PROVE (\E n \in 1 .. Len(more) : more[n] = b) \/ (\E n \in 1 .. Len(back) : back[n] = b)
    OBVIOUS
  <2>1. CASE b = k
    BY <1>1, <2>1
  <2>2. CASE b \in 0 .. k - 1
    BY <1>1, <1>2, <2>2
  <2> QED
    BY <1>3, <2>1, <2>2
<1>11. Whole(more, back, k + 1)
  BY <1>2, <1>4, <1>5, <1>6, <1>7, <1>8, <1>9, <1>10 DEF Whole, Injective
<1> QED
  BY <1>11 DEF more

LEMMA WholeMoved ==
  ASSUME NEW lent \in Seq(Nat), NEW back \in Seq(Nat), NEW k \in Nat, Whole(lent, back, k),
         back # <<>>
  PROVE  Whole(Append(lent, Head(back)), Tail(back), k)
<1> DEFINE l == Len(lent)
           r == Len(back)
           more == Append(lent, Head(back))
           less == Tail(back)
<1>1. /\ l \in Nat /\ r \in Nat \ {0} /\ Len(more) = l + 1 /\ Len(less) = r - 1
      /\ more[l + 1] = back[1]
      /\ \A n \in 1 .. l : more[n] = lent[n]
      /\ \A n \in 1 .. Len(more) : n \in 1 .. l \/ n = l + 1
      /\ \A n \in 1 .. Len(less) : n + 1 \in 1 .. r /\ n + 1 # 1 /\ less[n] = back[n + 1]
      /\ 1 \in 1 .. r /\ \A n \in 1 .. r : n = 1 \/ n - 1 \in 1 .. Len(less)
      /\ l + 1 \in 1 .. Len(more) /\ \A n \in 1 .. l : n \in 1 .. Len(more)
  OBVIOUS
<1>2. /\ l + r = k
      /\ \A m, n \in 1 .. l : lent[m] = lent[n] => m = n
      /\ \A m, n \in 1 .. r : back[m] = back[n] => m = n
      /\ \A m \in 1 .. l, n \in 1 .. r : lent[m] # back[n]
      /\ \A n \in 1 .. l : lent[n] \in 0 .. k - 1
      /\ \A n \in 1 .. r : back[n] \in 0 .. k - 1
      /\ \A b \in 0 .. k - 1 : (\E n \in 1 .. l : lent[n] = b) \/ (\E n \in 1 .. r : back[n] = b)
  BY DEF Whole, Injective
<1> HIDE DEF more, less, l, r
<1>3. Len(more) + Len(less) = k
  BY <1>1, <1>2
<1>4. \A m, n \in 1 .. Len(more) : more[m] = more[n] => m = n
  <2>1. \A n \in 1 .. l : more[n] # more[l + 1]
    BY <1>1, <1>2
  <2> QED
    BY <1>1, <1>2, <2>1
<1>5. \A m, n \in 1 .. Len(less) : less[m] = less[n] => m = n
  <2> SUFFICES ASSUME NEW m \in 1 .. Len(less), NEW n \in 1 .. Len(less), less[m] = less[n]
               PROVE  m = n
    OBVIOUS
  <2>1. m + 1 \in 1 .. r /\ n + 1 \in 1 .. r /\ back[m + 1] = back[n + 1]
    BY <1>1
  <2>2. m + 1 = n + 1
    BY <1>2, <2>1
  <2> QED
    BY <1>1, <2>2
<1>6. ASSUME NEW m \in 1 .. Len(more), NEW n \in 1 .. Len(less) PROVE more[m] # less[n]
  <2>1. n + 1 \in 1 .. r /\ n + 1 # 1 /\ less[n] = back[n + 1]
    BY <1>1
  <2>2. CASE m \in 1 .. l
    <3>1. lent[m] # back[n + 1] /\ more[m] = lent[m]
      BY <1>1, <1>2, <2>1, <2>2
    <3> QED
      BY <2>1, <3>1
  <2>3. CASE m = l + 1
    <3>1. back[1] # back[n + 1] /\ more[m] = back[1]
      BY <1>1, <1>2, <2>1, <2>3
    <3> QED
      BY <2>1, <3>1
  <2> QED
    BY <1>1, <2>2, <2>3
<1>7. /\ \A n \in 1 .. Len(more) : more[n] \in 0 .. k - 1
      /\ \A n \in 1 .. Len(less) : less[n] \in 0 .. k - 1
  <2>1. \A n \in 1 .. Len(more) : more[n] \in 0 .. k - 1
    BY <1>1, <1>2
  <2>2. ASSUME NEW n \in 1 .. Len(less) PROVE less[n] \in 0 .. k - 1
    <3>1. n + 1 \in 1 .. r /\ less[n] = back[n + 1]
      BY <1>1
    <3>2. back[n + 1] \in 0 .. k - 1
      BY <1>2, <3>1
    <3> QED
      BY <3>1, <3>2
  <2> QED
    BY <2>1, <2>2
<1>8. ASSUME NEW b \in 0 .. k - 1
      PROVE  (\E n \in 1 .. Len(more) : more[n] = b) \/ (\E n \in 1 .. Len(less) : less[n] = b)
  <2>1. CASE \E n \in 1 .. l : lent[n] = b
    BY <1>1, <2>1
  <2>2. ASSUME NEW n \in 1 .. r, back[n] = b
        PROVE  (\E m \in 1 .. Len(more) : more[m] = b) \/ (\E m \in 1 .. Len(less) : less[m] = b)
    <3>1. CASE n = 1
      BY <1>1, <2>2, <3>1
    <3>2. CASE n # 1
      <4>1. n - 1 \in 1 .. Len(less) /\ (n - 1) + 1 = n
        BY <1>1, <3>2
      <4>2. less[n - 1] = b
        BY <1>1, <2>2, <4>1
      <4> QED
        BY <4>1, <4>2
    <3> QED
      BY <3>1, <3>2
  <2> QED
    BY <1>2, <2>1, <2>2
<1>9. Whole(more, less, k)
  BY <1>3, <1>4, <1>5, <1>6, <1>7, <1>8 DEF Whole, Injective
<1> QED
  BY <1>9 DEF more, less

-----------------------------------------------------------------------------
(* What moving a buffer does to the events to come. *)
LEMMA ComingShape ==
  ASSUME NEW pages \in [Bufs -> Event], NEW back \in Seq(Bufs), NEW past \in {0, 1},
         past <= Len(back), NEW rest \in Seq(Event)
  PROVE  LET s == ComingOf(pages, back, past, rest)
             l == Len(back) - past
         IN  /\ s \in Seq(Event) /\ Len(s) = l + Len(rest)
             /\ \A n \in 1 .. l : s[n] = pages[back[n + past]]
             /\ \A n \in 1 .. Len(rest) : s[l + n] = rest[n]
<1> DEFINE s == ComingOf(pages, back, past, rest)
           l == Len(back) - past
           k == l + Len(rest)
<1>1. l \in Nat /\ Len(rest) \in Nat /\ k \in Nat
  OBVIOUS
<1>2. ASSUME NEW n \in 1 .. k
      PROVE  (IF n <= l THEN pages[back[n + past]] ELSE rest[n - l]) \in Event
  <2>1. CASE n <= l
    <3>1. n + past \in 1 .. Len(back)
      BY <1>1, <2>1
    <3>2. back[n + past] \in Bufs
      BY <3>1
    <3> QED
      BY <2>1, <3>2
  <2>2. CASE ~(n <= l)
    <3>1. n - l \in 1 .. Len(rest)
      BY <1>1, <2>2
    <3>2. rest[n - l] \in Event
      BY <3>1
    <3> QED
      BY <2>2, <3>2
  <2> QED
    BY <2>1, <2>2
<1>3. s = [n \in 1 .. k |-> IF n <= l THEN pages[back[n + past]] ELSE rest[n - l]]
  BY DEF ComingOf
<1>4. \A n \in 1 .. l : s[n] = pages[back[n + past]]
  <2> HIDE DEF s
  <2> SUFFICES ASSUME NEW n \in 1 .. l PROVE s[n] = pages[back[n + past]]
    OBVIOUS
  <2>1. n \in 1 .. k /\ n <= l
    BY <1>1
  <2> QED
    BY <1>3, <2>1
<1>5. \A n \in 1 .. Len(rest) : s[l + n] = rest[n]
  <2> HIDE DEF s
  <2> SUFFICES ASSUME NEW n \in 1 .. Len(rest) PROVE s[l + n] = rest[n]
    OBVIOUS
  <2> DEFINE m == l + n
  <2>1. m \in 1 .. k /\ ~(m <= l) /\ m - l = n
    BY <1>1
  <2> HIDE DEF m
  <2>2. s[m] = rest[n]
    BY <1>3, <2>1
  <2> QED
    BY <2>2 DEF m
<1>6. s \in [1 .. k -> Event]
  <2> HIDE DEF s, l, k
  <2> QED
    BY <1>2, <1>3
<1> HIDE DEF s, k
<1>7. s \in Seq(Event) /\ Len(s) = k
  BY <1>1, <1>6
<1> QED
  BY <1>4, <1>5, <1>7 DEF s, k

Shaped(s, pages, back, past, rest) ==
  /\ s \in Seq(Event) /\ Len(s) = (Len(back) - past) + Len(rest)
  /\ \A n \in 1 .. Len(back) - past : s[n] = pages[back[n + past]]
  /\ \A n \in 1 .. Len(rest) : s[(Len(back) - past) + n] = rest[n]

LEMMA ComingIsShaped ==
  ASSUME NEW pages \in [Bufs -> Event], NEW back \in Seq(Bufs), NEW past \in {0, 1},
         past <= Len(back), NEW rest \in Seq(Event)
  PROVE  Shaped(ComingOf(pages, back, past, rest), pages, back, past, rest)
<1>1. LET s == ComingOf(pages, back, past, rest)
          l == Len(back) - past
      IN  /\ s \in Seq(Event) /\ Len(s) = l + Len(rest)
          /\ \A n \in 1 .. l : s[n] = pages[back[n + past]]
          /\ \A n \in 1 .. Len(rest) : s[l + n] = rest[n]
  BY ComingShape, Zenon
<1> QED
  BY <1>1, Zenon DEF Shaped

SameSeq(s, t) == Len(s) = Len(t) /\ \A n \in 1 .. Len(s) : s[n] = t[n]

IsRest(rest, s) ==
  /\ rest \in Seq(Event) /\ s \in Seq(Event) /\ Len(s) > 0 /\ Len(rest) = Len(s) - 1
  /\ \A n \in 1 .. Len(rest) : rest[n] = s[n + 1]

LEMMA Equal == ASSUME NEW s \in Seq(Event), NEW t \in Seq(Event), SameSeq(s, t) PROVE s = t
BY DEF SameSeq

(* HandleEvent *)
LEMMA ComingHandled ==
  ASSUME NEW pages \in [Bufs -> Event], NEW back \in Seq(Bufs), back # <<>>, NEW rest \in Seq(Event)
  PROVE  /\ IsRest(ComingOf(pages, back, 1, rest), ComingOf(pages, back, 0, rest))
         /\ ComingOf(pages, back, 0, rest)[1] = pages[Head(back)]
<1> DEFINE s == ComingOf(pages, back, 0, rest)
           t == ComingOf(pages, back, 1, rest)
           l == Len(back)
           r == Len(rest)
<1>1. l \in Nat \ {0} /\ r \in Nat /\ Head(back) = back[1]
  OBVIOUS
<1>2. /\ s \in Seq(Event) /\ Len(s) = (l - 0) + r
      /\ \A n \in 1 .. l - 0 : s[n] = pages[back[n + 0]]
      /\ \A n \in 1 .. r : s[(l - 0) + n] = rest[n]
  <2>1. 0 <= Len(back) /\ 0 \in {0, 1}
    BY <1>1
  <2> QED
    BY <2>1, ComingShape, Zenon
<1>3. /\ t \in Seq(Event) /\ Len(t) = (l - 1) + r
      /\ \A n \in 1 .. l - 1 : t[n] = pages[back[n + 1]]
      /\ \A n \in 1 .. r : t[(l - 1) + n] = rest[n]
  <2>1. 1 <= Len(back) /\ 1 \in {0, 1}
    BY <1>1
  <2> QED
    BY <2>1, ComingShape, Zenon
<1> HIDE DEF s, t, l, r
<1>4. ASSUME NEW n \in 1 .. Len(t) PROVE t[n] = s[n + 1]
  <2>1. CASE n <= l - 1
    <3>1. n \in 1 .. l - 1 /\ n + 1 \in 1 .. l - 0 /\ (n + 1) + 0 = n + 1
      BY <1>1, <2>1
    <3> QED
      BY <1>2, <1>3, <3>1
  <2>2. CASE ~(n <= l - 1)
    <3> DEFINE m == n - (l - 1)
    <3>1. m \in 1 .. r /\ n = (l - 1) + m /\ n + 1 = (l - 0) + m
      BY <1>1, <1>3, <2>2
    <3> HIDE DEF m
    <3> QED
      BY <1>2, <1>3, <3>1
  <2> QED
    BY <2>1, <2>2
<1>5. s[1] = pages[Head(back)]
  <2>1. 1 \in 1 .. l - 0 /\ 1 + 0 = 1
    BY <1>1
  <2> QED
    BY <1>1, <1>2, <2>1
<1>6. IsRest(t, s)
  BY <1>1, <1>2, <1>3, <1>4 DEF IsRest
<1> QED
  BY <1>5, <1>6 DEF s, t

(* ReQueue *)
LEMMA ComingRequeued ==
  ASSUME NEW pages \in [Bufs -> Event], NEW back \in Seq(Bufs), back # <<>>, NEW rest \in Seq(Event)
  PROVE  ComingOf(pages, Tail(back), 0, rest) = ComingOf(pages, back, 1, rest)
<1> DEFINE tl == Tail(back)
           s == ComingOf(pages, tl, 0, rest)
           t == ComingOf(pages, back, 1, rest)
           l == Len(back)
           r == Len(rest)
<1>1. /\ l \in Nat \ {0} /\ r \in Nat /\ tl \in Seq(Bufs) /\ Len(tl) = l - 1
      /\ \A n \in 1 .. l - 1 : tl[n] = back[n + 1]
  OBVIOUS
<1>2. /\ s \in Seq(Event) /\ Len(s) = (l - 1) + r
      /\ \A n \in 1 .. l - 1 : s[n] = pages[tl[n]]
      /\ \A n \in 1 .. r : s[(l - 1) + n] = rest[n]
  <2> HIDE DEF tl
  <2>1. 0 <= Len(tl) /\ Len(tl) - 0 = l - 1 /\ 0 \in {0, 1}
    BY <1>1
  <2>2. /\ s \in Seq(Event) /\ Len(s) = (Len(tl) - 0) + Len(rest)
        /\ \A n \in 1 .. Len(tl) - 0 : s[n] = pages[tl[n + 0]]
        /\ \A n \in 1 .. Len(rest) : s[(Len(tl) - 0) + n] = rest[n]
    BY <1>1, <2>1, ComingShape, Zenon
  <2> HIDE DEF s
  <2>3. \A n \in 1 .. l - 1 : n + 0 = n
    BY <1>1
  <2> QED
    BY <2>1, <2>2, <2>3, Zenon
<1>3. /\ t \in Seq(Event) /\ Len(t) = (l - 1) + r
      /\ \A n \in 1 .. l - 1 : t[n] = pages[back[n + 1]]
      /\ \A n \in 1 .. r : t[(l - 1) + n] = rest[n]
  <2>1. 1 <= Len(back) /\ 1 \in {0, 1}
    BY <1>1
  <2> QED
    BY <2>1, ComingShape, Zenon
<1> HIDE DEF s, t, l, r, tl
<1>4. ASSUME NEW n \in 1 .. Len(s) PROVE s[n] = t[n]
  <2>1. CASE n <= l - 1
    <3>1. n \in 1 .. l - 1
      BY <1>1, <1>2, <2>1
    <3>2. s[n] = pages[tl[n]] /\ tl[n] = back[n + 1] /\ t[n] = pages[back[n + 1]]
      BY <1>1, <1>2, <1>3, <3>1
    <3> QED
      BY <3>2
  <2>2. CASE ~(n <= l - 1)
    <3> DEFINE m == n - (l - 1)
    <3>1. m \in 1 .. r /\ n = (l - 1) + m
      BY <1>1, <1>2, <2>2
    <3> HIDE DEF m
    <3> QED
      BY <1>2, <1>3, <3>1
  <2> QED
    BY <2>1, <2>2
<1>5. s = t
  <2>1. Len(s) = Len(t)
    BY <1>2, <1>3
  <2> QED
    BY <1>2, <1>3, <1>4, <2>1, Equal DEF SameSeq
<1> QED
  BY <1>5 DEF s, t, tl

(* DeviceWrite *)
Carried(pages, pages1, back, back1, past, rest, rest1, a) ==
  /\ pages \in [Bufs -> Event] /\ back \in Seq(Bufs) /\ rest \in Seq(Event)
  /\ pages1 \in [Bufs -> Event] /\ back1 \in Seq(Bufs) /\ rest1 \in Seq(Event)
  /\ past \in {0, 1} /\ past <= Len(back) /\ past <= Len(back1) /\ a \in Bufs
  /\ rest # <<>> /\ Len(rest1) = Len(rest) - 1
  /\ \A n \in 1 .. Len(rest1) : rest1[n] = rest[n + 1]
  /\ \A n \in 1 .. Len(back) : back[n] # a /\ back1[n] = back[n]
  /\ Len(back1) = Len(back) + 1 /\ back1[Len(back) + 1] = a
  /\ pages1[a] = rest[1] /\ \A b \in Bufs : b # a => pages1[b] = pages[b]

LEMMA ComingCarried ==
  ASSUME NEW pages, NEW pages1, NEW back, NEW back1, NEW past, NEW rest, NEW rest1, NEW a,
         Carried(pages, pages1, back, back1, past, rest, rest1, a)
  PROVE  ComingOf(pages1, back1, past, rest1) = ComingOf(pages, back, past, rest)
<1> DEFINE s == ComingOf(pages1, back1, past, rest1)
           t == ComingOf(pages, back, past, rest)
           l == Len(back) - past
           r == Len(rest)
<1>0. /\ pages \in [Bufs -> Event] /\ back \in Seq(Bufs) /\ rest \in Seq(Event)
      /\ pages1 \in [Bufs -> Event] /\ back1 \in Seq(Bufs) /\ rest1 \in Seq(Event)
      /\ past \in {0, 1} /\ past <= Len(back) /\ past <= Len(back1) /\ a \in Bufs
  BY DEF Carried
<1>1. /\ l \in Nat /\ r \in Nat \ {0} /\ Len(back) = l + past
      /\ Len(rest1) = r - 1 /\ Len(back1) - past = l + 1
      /\ \A n \in 1 .. r - 1 : rest1[n] = rest[n + 1]
  BY <1>0 DEF Carried
<1>2. /\ Len(back1) = Len(back) + 1 /\ back1[Len(back) + 1] = a
      /\ \A n \in 1 .. Len(back) : back1[n] = back[n] /\ back[n] # a
  BY DEF Carried
<1>3. /\ pages1[a] = rest[1] /\ \A b \in Bufs : b # a => pages1[b] = pages[b]
  BY DEF Carried
<1>4. /\ s \in Seq(Event) /\ Len(s) = (l + 1) + (r - 1)
      /\ \A n \in 1 .. l + 1 : s[n] = pages1[back1[n + past]]
      /\ \A n \in 1 .. r - 1 : s[(l + 1) + n] = rest1[n]
  <2>1. Shaped(s, pages1, back1, past, rest1)
    BY <1>0, ComingIsShaped
  <2> HIDE DEF s, l, r
  <2> QED
    BY <1>1, <2>1 DEF Shaped
<1>5. /\ t \in Seq(Event) /\ Len(t) = l + r
      /\ \A n \in 1 .. l : t[n] = pages[back[n + past]]
      /\ \A n \in 1 .. r : t[l + n] = rest[n]
  <2>1. Shaped(t, pages, back, past, rest)
    BY <1>0, ComingIsShaped
  <2> HIDE DEF s, t
  <2> QED
    BY <2>1 DEF Shaped
<1> HIDE DEF s, t, l, r
<1>6. ASSUME NEW n \in 1 .. Len(s) PROVE s[n] = t[n]
  <2>1. CASE n <= l
    <3>1. n \in 1 .. l /\ n \in 1 .. l + 1 /\ n + past \in 1 .. Len(back)
      BY <1>0, <1>1, <2>1
    <3>2. back1[n + past] = back[n + past] /\ back[n + past] \in Bufs /\ back[n + past] # a
      BY <1>0, <1>2, <3>1
    <3> QED
      BY <1>0, <1>3, <1>4, <1>5, <3>1, <3>2
  <2>2. CASE n = l + 1
    <3>1. l + 1 \in 1 .. l + 1 /\ (l + 1) + past = Len(back) + 1 /\ 1 \in 1 .. r
      BY <1>0, <1>1
    <3>2. s[l + 1] = pages1[back1[(l + 1) + past]] /\ t[l + 1] = rest[1]
      BY <1>0, <1>4, <1>5, <3>1
    <3> QED
      BY <1>0, <1>2, <1>3, <2>2, <3>1, <3>2
  <2>3. CASE ~(n <= l + 1)
    <3> DEFINE m == n - (l + 1)
    <3>1. m \in 1 .. r - 1 /\ m + 1 \in 1 .. r /\ n = (l + 1) + m /\ n = l + (m + 1)
      BY <1>0, <1>1, <1>4, <2>3
    <3> HIDE DEF m
    <3>2. s[n] = rest1[m] /\ t[n] = rest[m + 1]
      BY <1>0, <1>4, <1>5, <3>1
    <3> QED
      BY <1>0, <1>1, <3>1, <3>2
  <2> QED
    BY <1>0, <1>1, <1>4, <2>1, <2>2, <2>3
<1>7. Len(s) = Len(t)
  BY <1>0, <1>1, <1>4, <1>5
<1>8. s = t
  BY <1>0, <1>4, <1>5, <1>6, <1>7, Equal DEF SameSeq
<1> QED
  BY <1>8 DEF s, t

LEMMA ComingWritten ==
  ASSUME NEW pages \in [Bufs -> Event], NEW back \in Seq(Bufs), NEW past \in {0, 1},
         past <= Len(back), NEW rest \in Seq(Event), rest # <<>>, NEW a \in Bufs,
         \A n \in 1 .. Len(back) : back[n] # a
  PROVE  ComingOf([pages EXCEPT ![a] = Head(rest)], Append(back, a), past, Tail(rest))
           = ComingOf(pages, back, past, rest)
<1> DEFINE pages1 == [pages EXCEPT ![a] = Head(rest)]
           back1 == Append(back, a)
           rest1 == Tail(rest)
<1>1. /\ rest1 \in Seq(Event) /\ Len(rest1) = Len(rest) - 1
      /\ \A n \in 1 .. Len(rest1) : rest1[n] = rest[n + 1]
  OBVIOUS
<1>2. /\ back1 \in Seq(Bufs) /\ Len(back1) = Len(back) + 1 /\ back1[Len(back) + 1] = a
      /\ \A n \in 1 .. Len(back) : back1[n] = back[n]
      /\ past <= Len(back1)
  OBVIOUS
<1>3. /\ pages1 \in [Bufs -> Event] /\ pages1[a] = rest[1]
      /\ \A b \in Bufs : b # a => pages1[b] = pages[b]
  <2>1. Head(rest) = rest[1] /\ Head(rest) \in Event
    OBVIOUS
  <2> QED
    BY <2>1
<1> HIDE DEF pages1, back1, rest1
<1>4. Carried(pages, pages1, back, back1, past, rest, rest1, a)
  BY <1>1, <1>2, <1>3 DEF Carried
<1>5. ComingOf(pages1, back1, past, rest1) = ComingOf(pages, back, past, rest)
  BY <1>4, ComingCarried
<1> QED
  BY <1>5 DEF pages1, back1, rest1

(* DevicePacket *)
LEMMA ComingAnnounced ==
  ASSUME NEW pages \in [Bufs -> Event], NEW back \in Seq(Bufs), NEW past \in {0, 1},
         past <= Len(back), NEW rest \in Seq(Event)
  PROVE  LET s == ComingOf(pages, back, past, <<>>)
             t == ComingOf(pages, back, past, rest)
         IN  /\ s \in Seq(Event) /\ t \in Seq(Event) /\ Len(t) = Len(s) + Len(rest)
             /\ \A n \in 1 .. Len(s) : t[n] = s[n]
             /\ \A n \in 1 .. Len(rest) : t[Len(s) + n] = rest[n]
<1> DEFINE s == ComingOf(pages, back, past, <<>>)
           t == ComingOf(pages, back, past, rest)
           l == Len(back) - past
           r == Len(rest)
<1>1. l \in Nat /\ r \in Nat /\ <<>> \in Seq(Event) /\ Len(<<>>) = 0
  OBVIOUS
<1>2. /\ s \in Seq(Event) /\ Len(s) = l + 0
      /\ \A n \in 1 .. l : s[n] = pages[back[n + past]]
  <2> PICK e \in Seq(Event) : e = <<>>
    BY <1>1
  <2> DEFINE u == ComingOf(pages, back, past, e)
  <2>1. /\ u \in Seq(Event) /\ Len(u) = l + Len(e)
        /\ \A n \in 1 .. l : u[n] = pages[back[n + past]]
    BY ComingShape, Zenon
  <2> HIDE DEF u, l
  <2>2. u = s
    BY DEF u
  <2>3. Len(e) = 0
    OBVIOUS
  <2> HIDE DEF s
  <2> QED
    BY <2>1, <2>2, <2>3, Zenon
<1>3. /\ t \in Seq(Event) /\ Len(t) = l + r
      /\ \A n \in 1 .. l : t[n] = pages[back[n + past]]
      /\ \A n \in 1 .. r : t[l + n] = rest[n]
  BY ComingShape, Zenon
<1> HIDE DEF s, t, l, r
<1>4. Len(s) = l
  BY <1>1, <1>2
<1>5. /\ s \in Seq(Event) /\ t \in Seq(Event) /\ Len(t) = Len(s) + r
      /\ \A n \in 1 .. Len(s) : t[n] = s[n]
      /\ \A n \in 1 .. r : t[Len(s) + n] = rest[n]
  BY <1>2, <1>3, <1>4
<1> QED
  BY <1>5 DEF s, t, r

-----------------------------------------------------------------------------
(* What a packet is. *)
LEMMA SetToSeqLists ==
  ASSUME NEW S, IsFiniteSet(S)
  PROVE  /\ SetToSeq(S) \in Seq(S)
         /\ Injective(SetToSeq(S))
         /\ \A e \in S : \E n \in 1 .. Len(SetToSeq(S)) : SetToSeq(S)[n] = e
<1> DEFINE c == Cardinality(S)
           f == SetToSeq(S)
<1>1. c \in Nat /\ ExistsBijection(1 .. c, S)
  BY FS_CardinalityType
<1>2. PICK g : g \in Bijection(1 .. c, S)
  BY <1>1 DEF ExistsBijection
<1>3. g \in [1 .. c -> S] /\ IsInjective(g)
  BY <1>2 DEF Bijection, Injection, IsInjective
<1>4. f \in [1 .. c -> S] /\ IsInjective(f)
  BY <1>3, Zenon DEF SetToSeq
<1>5. f \in Injection(1 .. c, S)
  BY <1>4 DEF Injection
<1>6. IsFiniteSet(1 .. c) /\ Cardinality(1 .. c) = c
  BY <1>1, FS_Interval
<1> HIDE DEF f
<1>7. f \in Surjection(1 .. c, S)
  BY <1>5, <1>6, FS_Injection
<1>8. \A e \in S : \E n \in 1 .. c : f[n] = e
  BY <1>7 DEF Surjection
<1>9. f \in Seq(S) /\ Len(f) = c
  BY <1>1, <1>4
<1>10. Injective(f)
  BY <1>4, <1>9 DEF Injective, IsInjective
<1> QED
  BY <1>8, <1>9, <1>10 DEF f

(* The events of the buttons that changed. *)
KeysOf(keys, changed, down) ==
  /\ keys \in Seq(Event)
  /\ \A n \in 1 .. Len(keys) :
       /\ keys[n].type = "key" /\ keys[n].button \in changed
       /\ keys[n].down = TRUE <=> keys[n].button \in down
  /\ \A m, n \in 1 .. Len(keys) : keys[m].button = keys[n].button => m = n
  /\ \A b \in changed : \E n \in 1 .. Len(keys) : keys[n].button = b

LEMMA KeysListed ==
  ASSUME NEW changed \in SUBSET Buttons, NEW down \in SUBSET Buttons
  PROVE  KeysOf(SetToSeq(KeyEvents(changed, down)), changed, down)
<1> DEFINE key(b) == [type |-> "key", button |-> b, down |-> b \in down]
           S == KeyEvents(changed, down)
           f == [b \in changed |-> key(b)]
           keys == SetToSeq(S)
<1>1. S = {key(b) : b \in changed}
  BY DEF KeyEvents
<1>2. \A b \in changed : /\ key(b).type = "key" /\ key(b).button = b
                         /\ key(b).down = TRUE <=> b \in down
  <2>1. \A b \in changed : key(b).type = "key" /\ key(b).button = b
    OBVIOUS
  <2>2. \A b \in changed : key(b).down = TRUE <=> b \in down
    <3> SUFFICES ASSUME NEW b \in changed PROVE key(b).down = TRUE <=> b \in down
      OBVIOUS
    <3>1. key(b).down = (b \in down)
      BY Zenon
    <3>2. (b \in down) = TRUE <=> b \in down
      OBVIOUS
    <3> QED
      BY <3>1, <3>2, Zenon
  <2> QED
    BY <2>1, <2>2, Zenon
<1>3. \A b \in changed : key(b) \in Event
  <2> SUFFICES ASSUME NEW b \in changed PROVE key(b) \in Event
    OBVIOUS
  <2>1. b \in Buttons
    OBVIOUS
  <2>2. key(b) \in [type : {"key"}, button : Buttons, down : BOOLEAN]
    BY <2>1
  <2> HIDE DEF key
  <2> QED
    BY <2>2, Zenon DEF Event
<1> HIDE DEF key
<1>4. S \subseteq Event
  BY <1>1, <1>3
<1>5. f \in Surjection(changed, S)
  <2>1. f \in [changed -> S]
    BY <1>1
  <2>2. \A e \in S : \E b \in changed : f[b] = e
    BY <1>1
  <2> HIDE DEF f, S
  <2> QED
    BY <2>1, <2>2, Zenon DEF Surjection
<1>6. IsFiniteSet(changed)
  BY InputAssumption, FS_Subset
<1> HIDE DEF f, S
<1>7. IsFiniteSet(S)
  BY <1>5, <1>6, FS_Surjection
<1>8. /\ keys \in Seq(S) /\ Injective(keys)
      /\ \A e \in S : \E n \in 1 .. Len(keys) : keys[n] = e
  BY <1>7, SetToSeqLists
<1> HIDE DEF keys
<1>9. \A n \in 1 .. Len(keys) : \E b \in changed : keys[n] = key(b)
  <2>1. \A n \in 1 .. Len(keys) : keys[n] \in S
    BY <1>8
  <2> QED
    BY <1>1, <2>1
<1>10. \A n \in 1 .. Len(keys) :
         /\ keys[n].type = "key" /\ keys[n].button \in changed
         /\ keys[n].down = TRUE <=> keys[n].button \in down
         /\ keys[n] = key(keys[n].button)
  <2> SUFFICES ASSUME NEW n \in 1 .. Len(keys)
               PROVE  /\ keys[n].type = "key" /\ keys[n].button \in changed
                      /\ keys[n].down = TRUE <=> keys[n].button \in down
                      /\ keys[n] = key(keys[n].button)
    OBVIOUS
  <2> PICK b \in changed : keys[n] = key(b)
    BY <1>9
  <2> QED
    BY <1>2
<1>11. ASSUME NEW m \in 1 .. Len(keys), NEW n \in 1 .. Len(keys), keys[m].button = keys[n].button
       PROVE  m = n
  <2>1. keys[m] = keys[n]
    BY <1>10, <1>11
  <2> QED
    BY <1>8, <2>1 DEF Injective
<1>12. ASSUME NEW b \in changed PROVE \E n \in 1 .. Len(keys) : keys[n].button = b
  <2> PICK n \in 1 .. Len(keys) : keys[n] = key(b)
    BY <1>1, <1>8
  <2> QED
    BY <1>2
<1>13. keys \in Seq(Event)
  BY <1>4, <1>8
<1> QED
  BY <1>10, <1>11, <1>12, <1>13, Zenon DEF KeysOf, keys, S

(* A packet has the keys, then what moves, then the wheel, then a Syn. *)
PacketOf(s, keys, moves, pos, wheel) ==
  LET k == Len(keys)
      a == IF moves THEN 1 ELSE 0
      w == IF wheel THEN 1 ELSE 0
  IN  /\ s \in Seq(Event) /\ Len(s) = ((k + a) + w) + 1
      /\ \A n \in 1 .. k : s[n] = keys[n]
      /\ moves => s[k + 1] = [type |-> "abs", pos |-> pos]
      /\ wheel => s[(k + a) + 1] = Wheel
      /\ s[((k + a) + w) + 1] = Syn

LEMMA PacketShape ==
  ASSUME NEW keys \in Seq(Event), NEW moves \in BOOLEAN, NEW wheel \in BOOLEAN, NEW pos \in Positions
  PROVE  PacketOf(Append(keys \o (IF moves THEN <<[type |-> "abs", pos |-> pos]>> ELSE <<>>)
                              \o (IF wheel THEN <<Wheel>> ELSE <<>>), Syn), keys, moves, pos, wheel)
<1> DEFINE abs == [type |-> "abs", pos |-> pos]
           s1 == keys \o (IF moves THEN <<abs>> ELSE <<>>)
           s2 == s1 \o (IF wheel THEN <<Wheel>> ELSE <<>>)
           s3 == Append(s2, Syn)
           k == Len(keys)
           a == IF moves THEN 1 ELSE 0
           w == IF wheel THEN 1 ELSE 0
<1>1. abs \in Event /\ Wheel \in Event /\ Syn \in Event
  BY DEF Event, Wheel, Syn
<1> HIDE DEF abs
<1>2. k \in Nat /\ a \in 0 .. 1 /\ w \in 0 .. 1
  OBVIOUS
<1>3. /\ s1 \in Seq(Event) /\ Len(s1) = k + a
      /\ \A n \in 1 .. k : s1[n] = keys[n]
      /\ moves => s1[k + 1] = abs
  <2>1. CASE moves
    <3>1. s1 = Append(keys, abs)
      BY <1>1, <2>1
    <3> HIDE DEF s1
    <3> QED
      BY <1>1, <2>1, <3>1
  <2>2. CASE ~moves
    <3>1. s1 = keys
      BY <2>2
    <3> HIDE DEF s1
    <3> QED
      BY <2>2, <3>1
  <2> QED
    BY <2>1, <2>2
<1> HIDE DEF s1, k, a
<1>4. /\ s2 \in Seq(Event) /\ Len(s2) = (k + a) + w
      /\ \A n \in 1 .. k + a : s2[n] = s1[n]
      /\ wheel => s2[(k + a) + 1] = Wheel
  <2>1. CASE wheel
    <3>1. s2 = Append(s1, Wheel)
      BY <1>1, <1>3, <2>1
    <3> HIDE DEF s2
    <3> QED
      BY <1>1, <1>2, <1>3, <2>1, <3>1
  <2>2. CASE ~wheel
    <3>1. s2 = s1
      BY <1>3, <2>2
    <3> HIDE DEF s2
    <3> QED
      BY <1>2, <1>3, <2>2, <3>1
  <2> QED
    BY <2>1, <2>2
<1> HIDE DEF s2
<1>5. /\ s3 \in Seq(Event) /\ Len(s3) = Len(s2) + 1 /\ s3[Len(s2) + 1] = Syn
      /\ \A n \in 1 .. Len(s2) : s3[n] = s2[n]
  BY <1>1, <1>4
<1> HIDE DEF s3, w
<1>6. \A n \in 1 .. k : s3[n] = keys[n]
  <2>1. \A n \in 1 .. k : n \in 1 .. k + a /\ n \in 1 .. (k + a) + w
    BY <1>2
  <2> QED
    BY <1>3, <1>4, <1>5, <2>1
<1>7. moves => s3[k + 1] = abs
  <2>1. moves => k + 1 \in 1 .. k + a /\ k + 1 \in 1 .. (k + a) + w
    BY <1>2 DEF a
  <2> QED
    BY <1>3, <1>4, <1>5, <2>1
<1>8. wheel => s3[(k + a) + 1] = Wheel
  <2>1. wheel => (k + a) + 1 \in 1 .. (k + a) + w
    BY <1>2 DEF w
  <2> QED
    BY <1>4, <1>5, <2>1
<1>9. Len(s3) = ((k + a) + w) + 1 /\ s3[((k + a) + w) + 1] = Syn
  BY <1>4, <1>5, Zenon
<1>10. PacketOf(s3, keys, moves, pos, wheel)
  BY <1>5, <1>6, <1>7, <1>8, <1>9, Zenon DEF PacketOf, k, a, w, abs
<1> QED
  BY <1>10, Zenon DEF s1, s2, s3, abs

Packet(s, changed, down, moves, pos, wheel) ==
  /\ s \in Seq(Event) /\ Len(s) > 0 /\ s[Len(s)].type = "syn"
  /\ \A b \in Buttons, n \in 1 .. Len(s) :
       Mentions(s[n], b) => b \in changed /\ (s[n].down = TRUE <=> b \in down)
  /\ \A b \in Buttons, m, n \in 1 .. Len(s) : Mentions(s[m], b) /\ Mentions(s[n], b) => m = n
  /\ \A b \in changed : \E n \in 1 .. Len(s) : Mentions(s[n], b)
  /\ \A n \in 1 .. Len(s) : s[n].type = "abs" => moves /\ s[n].pos = pos
  /\ moves => \E n \in 1 .. Len(s) : s[n].type = "abs"
  /\ wheel => \E w \in 1 .. Len(s) : Wheels(s) = {w}
  /\ ~wheel => Wheels(s) = {}

LEMMA PacketsAre ==
  ASSUME NEW s, NEW keys, NEW changed \in SUBSET Buttons, NEW down, NEW moves \in BOOLEAN,
         NEW wheel \in BOOLEAN, NEW pos, KeysOf(keys, changed, down), PacketOf(s, keys, moves, pos, wheel)
  PROVE  Packet(s, changed, down, moves, pos, wheel)
<1> DEFINE k == Len(keys)
           a == IF moves THEN 1 ELSE 0
           w == IF wheel THEN 1 ELSE 0
           l == Len(s)
<1>1. /\ s \in Seq(Event) /\ l = ((k + a) + w) + 1
      /\ \A n \in 1 .. k : s[n] = keys[n]
      /\ moves => s[k + 1] = [type |-> "abs", pos |-> pos]
      /\ wheel => s[(k + a) + 1] = Wheel
      /\ s[((k + a) + w) + 1] = Syn
  BY Zenon DEF PacketOf
<1>2. /\ k \in Nat
      /\ \A n \in 1 .. k :
           /\ keys[n].type = "key" /\ keys[n].button \in changed
           /\ keys[n].down = TRUE <=> keys[n].button \in down
      /\ \A m, n \in 1 .. k : keys[m].button = keys[n].button => m = n
      /\ \A b \in changed : \E n \in 1 .. k : keys[n].button = b
  BY DEF KeysOf
<1>3. /\ moves => a = 1 /\ s[k + 1].type = "abs" /\ s[k + 1].pos = pos
      /\ ~moves => a = 0
      /\ wheel => w = 1 /\ s[(k + a) + 1].type = "wheel"
      /\ ~wheel => w = 0
      /\ s[((k + a) + w) + 1].type = "syn"
  <2>1. (moves => a = 1) /\ (~moves => a = 0) /\ (wheel => w = 1) /\ (~wheel => w = 0)
    BY DEF a, w
  <2> HIDE DEF k, a, w, l
  <2>2. moves => s[k + 1].type = "abs" /\ s[k + 1].pos = pos
    BY <1>1
  <2>3. wheel => s[(k + a) + 1].type = "wheel"
    BY <1>1 DEF Wheel
  <2>4. s[((k + a) + w) + 1].type = "syn"
    BY <1>1 DEF Syn
  <2> QED
    BY <2>1, <2>2, <2>3, <2>4, Zenon
<1> HIDE DEF k, a, w, l
<1>4. /\ a \in 0 .. 1 /\ w \in 0 .. 1
      /\ l \in Nat /\ 1 .. k \subseteq 1 .. l
      /\ moves => k + 1 \in 1 .. l
      /\ wheel => (k + a) + 1 \in 1 .. l
      /\ \A n \in 1 .. l : \/ n \in 1 .. k
                           \/ moves /\ n = k + 1
                           \/ wheel /\ n = (k + a) + 1
                           \/ n = ((k + a) + w) + 1
  BY <1>1, <1>2, <1>3
<1>5. \A n \in 1 .. l : s[n].type = "key" => n \in 1 .. k
  BY <1>3, <1>4
<1>6. \A n \in 1 .. k : s[n].type = "key"
  BY <1>1, <1>2
<1>7. \A n \in 1 .. l : s[n].type = "abs" => moves /\ n = k + 1
  BY <1>3, <1>4, <1>6
<1>8. \A n \in 1 .. l : s[n].type = "wheel" <=> wheel /\ n = (k + a) + 1
  BY <1>3, <1>4, <1>6
<1>9. l > 0 /\ s[l].type = "syn"
  BY <1>1, <1>2, <1>3, <1>4
<1>10. \A b \in Buttons, n \in 1 .. l :
         Mentions(s[n], b) => b \in changed /\ (s[n].down = TRUE <=> b \in down)
  BY <1>1, <1>2, <1>5 DEF Mentions
<1>11. \A b \in Buttons, m, n \in 1 .. l : Mentions(s[m], b) /\ Mentions(s[n], b) => m = n
  BY <1>1, <1>2, <1>5 DEF Mentions
<1>12. ASSUME NEW b \in changed PROVE \E n \in 1 .. l : Mentions(s[n], b)
  <2> PICK n \in 1 .. k : keys[n].button = b
    BY <1>2
  <2> QED
    BY <1>1, <1>2, <1>4 DEF Mentions
<1>13. Wheels(s) = {n \in 1 .. l : s[n].type = "wheel"}
  BY DEF Wheels, l
<1>14. /\ wheel => \E n \in 1 .. l : Wheels(s) = {n}
       /\ ~wheel => Wheels(s) = {}
  <2>1. CASE wheel
    <3>1. (k + a) + 1 \in 1 .. l
      BY <1>4, <2>1
    <3>2. Wheels(s) = {(k + a) + 1}
      BY <1>8, <1>13, <2>1, <3>1
    <3> QED
      BY <2>1, <3>1, <3>2
  <2>2. CASE ~wheel
    BY <1>8, <1>13, <2>2
  <2> QED
    BY <2>1, <2>2
<1>15. /\ \A n \in 1 .. l : s[n].type = "abs" => moves /\ s[n].pos = pos
       /\ moves => \E n \in 1 .. l : s[n].type = "abs"
  BY <1>3, <1>4, <1>7
<1> QED
  BY <1>1, <1>9, <1>10, <1>11, <1>12, <1>14, <1>15, Zenon DEF Packet, l

-----------------------------------------------------------------------------
(* What is still to come keeps its promise when its first event is handled. *)
Shifted(rest, s) ==
  /\ rest \in Seq(Event) /\ s \in Seq(Event)
  /\ Len(s) = Len(rest) + 1 /\ Len(rest) \in Nat /\ 1 \in 1 .. Len(s)
  /\ \A n \in 1 .. Len(rest) : n + 1 \in 1 .. Len(s) /\ s[n + 1] = rest[n]
  /\ \A n \in 1 .. Len(s) : n = 1 \/ (n - 1 \in 1 .. Len(rest) /\ s[n] = rest[n - 1])

LEMMA RestIndex ==
  ASSUME NEW rest, NEW s, IsRest(rest, s)
  PROVE  Shifted(rest, s)
<1> DEFINE l == Len(rest)
<1>1. /\ rest \in Seq(Event) /\ s \in Seq(Event) /\ l \in Nat /\ Len(s) = l + 1
      /\ \A n \in 1 .. l : rest[n] = s[n + 1]
  BY DEF IsRest
<1> HIDE DEF l
<1>2. ASSUME NEW n \in 1 .. Len(s), n # 1 PROVE n - 1 \in 1 .. l /\ s[n] = rest[n - 1]
  <2>1. n - 1 \in 1 .. l /\ (n - 1) + 1 = n
    BY <1>1, <1>2
  <2> QED
    BY <1>1, <2>1
<1>3. 1 \in 1 .. Len(s) /\ \A n \in 1 .. l : n + 1 \in 1 .. Len(s) /\ s[n + 1] = rest[n]
  BY <1>1
<1> QED
  BY <1>1, <1>2, <1>3, Zenon DEF l, Shifted

LEMMA RestEnds ==
  ASSUME NEW rest, NEW s, IsRest(rest, s), EndsPacket(s)
  PROVE  /\ EndsPacket(rest)
         /\ s[1].type # "syn" => Len(rest) > 0
<1>1. Len(rest) > 0 => rest[Len(rest)] = s[Len(s)]
  <2>1. Len(rest) > 0 => Len(rest) \in 1 .. Len(rest)
    BY RestIndex DEF Shifted
  <2> QED
    BY <2>1, RestIndex DEF Shifted
<1>2. Len(rest) = 0 => Len(s) = 1
  BY RestIndex DEF Shifted
<1>3. Len(s) > 0 /\ Len(rest) \in Nat
  BY RestIndex DEF Shifted
<1> QED
  BY <1>1, <1>2, <1>3 DEF EndsPacket

(* The mentions of the rest, with a first event that is handled. *)
LEMMA RestMentions ==
  ASSUME NEW rest, NEW s, IsRest(rest, s), NEW known \in SUBSET Buttons, NEW more \in SUBSET Buttons,
         MentionsOnce(s, known),
         IF s[1].type = "syn" THEN more = {} ELSE more = known \union {b \in Buttons : Mentions(s[1], b)}
  PROVE  MentionsOnce(rest, more)
<1> DEFINE l == Len(rest)
<1>1. /\ l \in Nat /\ Len(s) = l + 1 /\ 1 \in 1 .. Len(s)
      /\ \A n \in 1 .. l : n + 1 \in 1 .. Len(s) /\ s[n + 1] = rest[n]
      /\ \A n \in 1 .. Len(s) : n = 1 \/ (n - 1 \in 1 .. l /\ s[n] = rest[n - 1])
  <2>1. Shifted(rest, s)
    BY RestIndex
  <2> QED
    BY <2>1, Zenon DEF Shifted
<1> HIDE DEF l
<1>2. /\ \A b \in Buttons, m, n \in 1 .. Len(s) :
           m < n /\ Mentions(s[m], b) /\ Mentions(s[n], b) =>
             \E k \in 1 .. Len(s) : m < k /\ k < n /\ s[k].type = "syn"
      /\ \A b \in known, n \in 1 .. Len(s) :
           Mentions(s[n], b) => \E k \in 1 .. Len(s) : k < n /\ s[k].type = "syn"
  BY DEF MentionsOnce
<1>3. ASSUME NEW b \in Buttons, NEW m \in 1 .. l, NEW n \in 1 .. l, m < n,
             Mentions(rest[m], b), Mentions(rest[n], b)
      PROVE  \E k \in 1 .. l : m < k /\ k < n /\ rest[k].type = "syn"
  <2>1. /\ m + 1 \in 1 .. Len(s) /\ n + 1 \in 1 .. Len(s) /\ m + 1 < n + 1
        /\ Mentions(s[m + 1], b) /\ Mentions(s[n + 1], b)
    BY <1>1, <1>3
  <2> PICK k \in 1 .. Len(s) : m + 1 < k /\ k < n + 1 /\ s[k].type = "syn"
    BY <1>2, <2>1
  <2>2. k # 1
    BY <1>1
  <2>3. k - 1 \in 1 .. l /\ s[k] = rest[k - 1] /\ m < k - 1 /\ k - 1 < n
    BY <1>1, <2>2
  <2> QED
    BY <2>3
<1>4. ASSUME NEW b \in more, NEW n \in 1 .. l, Mentions(rest[n], b)
      PROVE  \E k \in 1 .. l : k < n /\ rest[k].type = "syn"
  <2>1. n + 1 \in 1 .. Len(s) /\ Mentions(s[n + 1], b) /\ 1 < n + 1 /\ s[1].type # "syn" /\ b \in Buttons
    BY <1>1, <1>4
  <2>2. \E k \in 1 .. Len(s) : k < n + 1 /\ s[k].type = "syn"
    <3>1. CASE b \in known
      BY <1>2, <2>1, <3>1
    <3>2. CASE Mentions(s[1], b)
      BY <1>1, <1>2, <2>1, <3>2
    <3> QED
      BY <2>1, <3>1, <3>2
  <2> PICK k \in 1 .. Len(s) : k < n + 1 /\ s[k].type = "syn"
    BY <2>2
  <2>3. k # 1
    BY <2>1
  <2>4. k - 1 \in 1 .. l /\ s[k] = rest[k - 1] /\ k - 1 < n
    BY <1>1, <2>3
  <2> QED
    BY <2>4
<1> QED
  BY <1>3, <1>4 DEF MentionsOnce, l

Leaves(e, known, new, old, more, new1, old1) ==
  \A b \in Buttons :
    IF Mentions(e, b) THEN b \in more /\ (b \in new1 <=> e.down = TRUE)
    ELSE (IF b \in more THEN b \in new1 ELSE b \in old1)
           <=> (IF b \in known THEN b \in new ELSE b \in old)

LEMMA RestSays ==
  ASSUME NEW rest, NEW s, IsRest(rest, s), NEW all,
         NEW known, NEW new, NEW old, NEW more, NEW new1, NEW old1,
         Says(s, known, new, old, all),
         Leaves(s[1], known, new, old, more, new1, old1)
  PROVE  Says(rest, more, new1, old1, all)
<1> DEFINE l == Len(rest)
<1>1. /\ l \in Nat /\ Len(s) = l + 1 /\ 1 \in 1 .. Len(s)
      /\ \A n \in 1 .. l : n + 1 \in 1 .. Len(s) /\ s[n + 1] = rest[n]
      /\ \A n \in 1 .. Len(s) : n = 1 \/ (n - 1 \in 1 .. l /\ s[n] = rest[n - 1])
  <2>1. Shifted(rest, s)
    BY RestIndex
  <2> QED
    BY <2>1, Zenon DEF Shifted
<1> HIDE DEF l
<1> SUFFICES ASSUME NEW b \in Buttons
             PROVE  /\ (\A n \in 1 .. l : ~Mentions(rest[n], b)) =>
                         (b \in all <=> IF b \in more THEN b \in new1 ELSE b \in old1)
                    /\ \A n \in 1 .. l :
                         Mentions(rest[n], b) /\ (\A m \in 1 .. l : m > n => ~Mentions(rest[m], b)) =>
                           (b \in all <=> rest[n].down = TRUE)
  BY DEF Says, l
<1>2. /\ (\A n \in 1 .. Len(s) : ~Mentions(s[n], b)) =>
           (b \in all <=> IF b \in known THEN b \in new ELSE b \in old)
      /\ \A n \in 1 .. Len(s) :
           Mentions(s[n], b) /\ (\A m \in 1 .. Len(s) : m > n => ~Mentions(s[m], b)) =>
             (b \in all <=> s[n].down = TRUE)
  BY DEF Says
<1>3. IF Mentions(s[1], b) THEN b \in more /\ (b \in new1 <=> s[1].down = TRUE)
      ELSE (IF b \in more THEN b \in new1 ELSE b \in old1)
             <=> (IF b \in known THEN b \in new ELSE b \in old)
  BY DEF Leaves
<1>4. ASSUME NEW n \in 1 .. l, Mentions(rest[n], b), \A m \in 1 .. l : m > n => ~Mentions(rest[m], b)
      PROVE  b \in all <=> rest[n].down = TRUE
  <2>1. n + 1 \in 1 .. Len(s) /\ s[n + 1] = rest[n]
    BY <1>1
  <2>2. ASSUME NEW m \in 1 .. Len(s), m > n + 1 PROVE ~Mentions(s[m], b)
    <3>1. m - 1 \in 1 .. l /\ s[m] = rest[m - 1] /\ m - 1 > n
      BY <1>1, <2>2
    <3> QED
      BY <1>4, <3>1
  <2> QED
    BY <1>2, <1>4, <2>1, <2>2
<1>5. ASSUME \A n \in 1 .. l : ~Mentions(rest[n], b)
      PROVE  b \in all <=> IF b \in more THEN b \in new1 ELSE b \in old1
  <2>1. \A n \in 1 .. Len(s) : n # 1 => ~Mentions(s[n], b)
    BY <1>1, <1>5
  <2>2. CASE Mentions(s[1], b)
    <3>1. \A m \in 1 .. Len(s) : m > 1 => ~Mentions(s[m], b)
      BY <2>1
    <3>2. b \in all <=> s[1].down = TRUE
      BY <1>1, <1>2, <2>2, <3>1
    <3> QED
      BY <1>3, <2>2, <3>2
  <2>3. CASE ~Mentions(s[1], b)
    <3>1. \A n \in 1 .. Len(s) : ~Mentions(s[n], b)
      BY <2>1, <2>3
    <3> QED
      BY <1>2, <1>3, <2>3, <3>1
  <2> QED
    BY <2>2, <2>3
<1> QED
  BY <1>4, <1>5

LEMMA RestPoints ==
  ASSUME NEW rest, NEW s, IsRest(rest, s), NEW here, NEW here1, NEW pos, Points(s, here, pos),
         here1 = IF s[1].type = "abs" THEN s[1].pos ELSE here
  PROVE  Points(rest, here1, pos)
<1> DEFINE l == Len(rest)
<1>1. /\ l \in Nat /\ Len(s) = l + 1 /\ 1 \in 1 .. Len(s)
      /\ \A n \in 1 .. l : n + 1 \in 1 .. Len(s) /\ s[n + 1] = rest[n]
      /\ \A n \in 1 .. Len(s) : n = 1 \/ (n - 1 \in 1 .. l /\ s[n] = rest[n - 1])
  <2>1. Shifted(rest, s)
    BY RestIndex
  <2> QED
    BY <2>1, Zenon DEF Shifted
<1> HIDE DEF l
<1>2. /\ (\A n \in 1 .. Len(s) : s[n].type # "abs") => pos = here
      /\ \A n \in 1 .. Len(s) :
           s[n].type = "abs" /\ (\A m \in 1 .. Len(s) : m > n => s[m].type # "abs") =>
             pos = s[n].pos
  BY DEF Points
<1>4. ASSUME NEW n \in 1 .. l, rest[n].type = "abs", \A m \in 1 .. l : m > n => rest[m].type # "abs"
      PROVE  pos = rest[n].pos
  <2>1. n + 1 \in 1 .. Len(s) /\ s[n + 1] = rest[n]
    BY <1>1
  <2>2. ASSUME NEW m \in 1 .. Len(s), m > n + 1 PROVE s[m].type # "abs"
    <3>1. m - 1 \in 1 .. l /\ s[m] = rest[m - 1] /\ m - 1 > n
      BY <1>1, <2>2
    <3> QED
      BY <1>4, <3>1
  <2> QED
    BY <1>2, <1>4, <2>1, <2>2
<1>5. ASSUME \A n \in 1 .. l : rest[n].type # "abs"
      PROVE  pos = here1
  <2>1. \A n \in 1 .. Len(s) : n # 1 => s[n].type # "abs"
    BY <1>1, <1>5
  <2>2. CASE s[1].type = "abs"
    <3>1. \A m \in 1 .. Len(s) : m > 1 => s[m].type # "abs"
      BY <2>1
    <3>2. pos = s[1].pos
      BY <1>1, <1>2, <2>2, <3>1
    <3> QED
      BY <2>2, <3>2
  <2>3. CASE s[1].type # "abs"
    <3>1. \A n \in 1 .. Len(s) : s[n].type # "abs"
      BY <2>1, <2>3
    <3> QED
      BY <1>2, <2>3, <3>1
  <2> QED
    BY <2>2, <2>3
<1> QED
  BY <1>4, <1>5 DEF Points, l

LEMMA WheelsFinite ==
  ASSUME NEW s \in Seq(Event)
  PROVE  IsFiniteSet(Wheels(s)) /\ Cardinality(Wheels(s)) \in Nat
<1>1. Wheels(s) \in SUBSET (1 .. Len(s)) /\ Len(s) \in Int
  BY DEF Wheels
<1>2. IsFiniteSet(1 .. Len(s))
  BY <1>1, FS_Interval
<1> QED
  BY <1>1, <1>2, FS_Subset, FS_CardinalityType

LEMMA RestWheels ==
  ASSUME NEW rest, NEW s, IsRest(rest, s)
  PROVE  Cardinality(Wheels(s))
           = Cardinality(Wheels(rest)) + (IF s[1].type = "wheel" THEN 1 ELSE 0)
<1> DEFINE l == Len(rest)
           W == Wheels(s)
           V == Wheels(rest)
           f == [n \in V |-> n + 1]
<1>1. /\ l \in Nat /\ Len(s) = l + 1 /\ 1 \in 1 .. Len(s)
      /\ \A n \in 1 .. l : n + 1 \in 1 .. Len(s) /\ s[n + 1] = rest[n]
      /\ \A n \in 1 .. Len(s) : n = 1 \/ (n - 1 \in 1 .. l /\ s[n] = rest[n - 1])
  <2>1. Shifted(rest, s)
    BY RestIndex
  <2> QED
    BY <2>1, Zenon DEF Shifted
<1>2. rest \in Seq(Event) /\ s \in Seq(Event)
  BY DEF IsRest
<1>3. /\ \A n \in V : n \in 1 .. l /\ rest[n].type = "wheel"
      /\ \A n \in 1 .. l : rest[n].type = "wheel" => n \in V
      /\ \A n \in W : n \in 1 .. Len(s) /\ s[n].type = "wheel"
      /\ \A n \in 1 .. Len(s) : s[n].type = "wheel" => n \in W
  BY DEF Wheels
<1>4. /\ IsFiniteSet(V) /\ Cardinality(V) \in Nat
      /\ IsFiniteSet(W) /\ Cardinality(W) \in Nat
  BY <1>2, WheelsFinite
<1>5. 1 \in W <=> s[1].type = "wheel"
  BY <1>1, <1>3
<1> HIDE DEF l, W, V
<1>6. f \in Bijection(V, W \ {1})
  <2>1. \A n \in V : n + 1 \in W \ {1} /\ f[n] = n + 1 /\ n \in Nat
    BY <1>1, <1>3
  <2>2. f \in [V -> W \ {1}]
    BY <2>1
  <2>3. ASSUME NEW m \in W \ {1} PROVE \E n \in V : f[n] = m
    <3>1. m \in 1 .. Len(s) /\ m # 1 /\ s[m].type = "wheel"
      BY <1>3
    <3>2. m - 1 \in 1 .. l /\ rest[m - 1].type = "wheel" /\ (m - 1) + 1 = m
      BY <1>1, <3>1
    <3>3. m - 1 \in V
      BY <1>3, <3>2
    <3> QED
      BY <2>1, <3>2, <3>3
  <2>4. \A m, n \in V : f[m] = f[n] => m = n
    BY <2>1
  <2> HIDE DEF f
  <2> QED
    BY <2>2, <2>3, <2>4, Fun_IsBij
<1>7. ExistsBijection(V, W \ {1})
  BY <1>6 DEF ExistsBijection
<1>8. Cardinality(W \ {1}) = Cardinality(V)
  BY <1>4, <1>7, FS_Bijection
<1>9. Cardinality(W \ {1}) = IF 1 \in W THEN Cardinality(W) - 1 ELSE Cardinality(W)
  BY <1>4, FS_RemoveElement
<1>10. Cardinality(W) = Cardinality(V) + (IF 1 \in W THEN 1 ELSE 0)
  BY <1>4, <1>8, <1>9
<1> QED
  BY <1>5, <1>10 DEF V, W

-----------------------------------------------------------------------------
(* What is still to come keeps its promise when a packet joins it. *)
Followed(t, s, p) ==
  /\ s \in Seq(Event) /\ t \in Seq(Event) /\ Len(t) = Len(s) + Len(p)
  /\ \A n \in 1 .. Len(s) : t[n] = s[n]
  /\ \A n \in 1 .. Len(p) : t[Len(s) + n] = p[n]

LEMMA FollowedIndex ==
  ASSUME NEW t, NEW s, NEW p \in Seq(Event), Followed(t, s, p)
  PROVE  /\ Len(s) \in Nat /\ Len(p) \in Nat /\ Len(t) = Len(s) + Len(p)
         /\ \A n \in 1 .. Len(s) : n \in 1 .. Len(t) /\ t[n] = s[n]
         /\ \A n \in 1 .. Len(p) : Len(s) + n \in 1 .. Len(t) /\ t[Len(s) + n] = p[n]
         /\ \A n \in 1 .. Len(t) : \/ n \in 1 .. Len(s) /\ t[n] = s[n]
                                   \/ /\ n > Len(s) /\ n - Len(s) \in 1 .. Len(p)
                                      /\ t[n] = p[n - Len(s)]
<1> DEFINE k == Len(s)
           l == Len(p)
<1>1. /\ k \in Nat /\ l \in Nat /\ Len(t) = k + l
      /\ \A n \in 1 .. k : t[n] = s[n]
      /\ \A n \in 1 .. l : t[k + n] = p[n]
  BY DEF Followed
<1> HIDE DEF k, l
<1>2. ASSUME NEW n \in 1 .. Len(t), n \notin 1 .. k
      PROVE  n > k /\ n - k \in 1 .. l /\ t[n] = p[n - k]
  <2>1. n > k /\ n - k \in 1 .. l /\ k + (n - k) = n
    BY <1>1, <1>2
  <2> QED
    BY <1>1, <2>1
<1>3. /\ \A n \in 1 .. k : n \in 1 .. Len(t)
      /\ \A n \in 1 .. l : k + n \in 1 .. Len(t)
  BY <1>1
<1> QED
  BY <1>1, <1>2, <1>3 DEF k, l

LEMMA JoinedMentions ==
  ASSUME NEW t, NEW s, NEW p, Followed(t, s, p), NEW changed, NEW down, NEW moves, NEW pos, NEW wheel,
         Packet(p, changed, down, moves, pos, wheel),
         NEW known \in SUBSET Buttons, MentionsOnce(s, known), EndsPacket(s),
         known # {} => Len(s) > 0
  PROVE  EndsPacket(t) /\ MentionsOnce(t, known) /\ Len(t) > 0
<1> DEFINE k == Len(s)
           l == Len(p)
<1>1. p \in Seq(Event) /\ l > 0 /\ p[l].type = "syn"
  BY DEF Packet
<1>2. /\ k \in Nat /\ l \in Nat /\ Len(t) = k + l
      /\ \A n \in 1 .. k : n \in 1 .. Len(t) /\ t[n] = s[n]
      /\ \A n \in 1 .. l : k + n \in 1 .. Len(t) /\ t[k + n] = p[n]
      /\ \A n \in 1 .. Len(t) : \/ n \in 1 .. k /\ t[n] = s[n]
                                \/ n > k /\ n - k \in 1 .. l /\ t[n] = p[n - k]
  BY <1>1, FollowedIndex
<1>3. \A b \in Buttons, m, n \in 1 .. l : Mentions(p[m], b) /\ Mentions(p[n], b) => m = n
  BY Zenon DEF Packet
<1>4. /\ \A b \in Buttons, m, n \in 1 .. k :
           m < n /\ Mentions(s[m], b) /\ Mentions(s[n], b) =>
             \E i \in 1 .. k : m < i /\ i < n /\ s[i].type = "syn"
      /\ \A b \in known, n \in 1 .. k :
           Mentions(s[n], b) => \E i \in 1 .. k : i < n /\ s[i].type = "syn"
  BY DEF MentionsOnce
<1>5. k > 0 => k \in 1 .. k /\ s[k].type = "syn"
  BY <1>2 DEF EndsPacket
<1> HIDE DEF k, l
<1>6. EndsPacket(t) /\ Len(t) > 0
  <2>1. l \in 1 .. l
    BY <1>1, <1>2
  <2>2. t[Len(t)].type = "syn"
    BY <1>1, <1>2, <2>1
  <2> QED
    BY <1>1, <1>2, <2>2 DEF EndsPacket
<1>7. ASSUME NEW b \in Buttons, NEW m \in 1 .. Len(t), NEW n \in 1 .. Len(t), m < n,
             Mentions(t[m], b), Mentions(t[n], b)
      PROVE  \E i \in 1 .. Len(t) : m < i /\ i < n /\ t[i].type = "syn"
  <2>1. CASE n \in 1 .. k
    <3>1. m \in 1 .. k /\ Mentions(s[m], b) /\ Mentions(s[n], b)
      BY <1>2, <1>7, <2>1
    <3> PICK i \in 1 .. k : m < i /\ i < n /\ s[i].type = "syn"
      BY <1>4, <1>7, <2>1, <3>1
    <3> QED
      BY <1>2
  <2>2. CASE n \notin 1 .. k /\ m \in 1 .. k
    <3>1. k > 0 /\ k \in 1 .. k /\ s[k].type = "syn"
      BY <1>2, <1>5, <2>2
    <3>2. k \in 1 .. Len(t) /\ t[k].type = "syn"
      BY <1>2, <3>1
    <3>3. m # k
      BY <1>7, <3>2 DEF Mentions
    <3> QED
      BY <1>2, <2>2, <3>2, <3>3
  <2>3. CASE n \notin 1 .. k /\ m \notin 1 .. k
    <3>1. /\ m - k \in 1 .. l /\ n - k \in 1 .. l /\ t[m] = p[m - k] /\ t[n] = p[n - k]
      BY <1>2, <2>3
    <3>2. m - k = n - k
      BY <1>3, <1>7, <3>1
    <3> QED
      BY <1>2, <1>7, <3>2
  <2> QED
    BY <2>1, <2>2, <2>3
<1>8. ASSUME NEW b \in known, NEW n \in 1 .. Len(t), Mentions(t[n], b)
      PROVE  \E i \in 1 .. Len(t) : i < n /\ t[i].type = "syn"
  <2>1. CASE n \in 1 .. k
    <3>1. Mentions(s[n], b)
      BY <1>2, <1>8, <2>1
    <3> PICK i \in 1 .. k : i < n /\ s[i].type = "syn"
      BY <1>4, <2>1, <3>1
    <3> QED
      BY <1>2
  <2>2. CASE n \notin 1 .. k
    <3>1. k > 0
      BY DEF k
    <3>2. k \in 1 .. k /\ s[k].type = "syn"
      BY <1>5, <3>1
    <3> QED
      BY <1>2, <2>2, <3>2
  <2> QED
    BY <2>1, <2>2
<1>9. MentionsOnce(t, known)
  BY <1>7, <1>8 DEF MentionsOnce
<1> QED
  BY <1>6, <1>9

LEMMA JoinedSays ==
  ASSUME NEW t, NEW s, NEW p, Followed(t, s, p), NEW changed, NEW down, NEW moves, NEW pos, NEW wheel,
         Packet(p, changed, down, moves, pos, wheel),
         NEW known, NEW new, NEW old, NEW all, Says(s, known, new, old, all)
  PROVE  Says(t, known, new, old, (all \ changed) \union (changed \intersect down))
<1> DEFINE k == Len(s)
           l == Len(p)
           all1 == (all \ changed) \union (changed \intersect down)
<1>1. p \in Seq(Event)
  BY DEF Packet
<1>2. /\ k \in Nat /\ l \in Nat /\ Len(t) = k + l
      /\ \A n \in 1 .. k : n \in 1 .. Len(t) /\ t[n] = s[n]
      /\ \A n \in 1 .. l : k + n \in 1 .. Len(t) /\ t[k + n] = p[n]
      /\ \A n \in 1 .. Len(t) : \/ n \in 1 .. k /\ t[n] = s[n]
                                \/ n > k /\ n - k \in 1 .. l /\ t[n] = p[n - k]
  BY <1>1, FollowedIndex
<1>3. /\ \A b \in Buttons, n \in 1 .. l :
           Mentions(p[n], b) => b \in changed /\ (p[n].down = TRUE <=> b \in down)
      /\ \A b \in changed : \E n \in 1 .. l : Mentions(p[n], b)
  BY Zenon DEF Packet
<1> HIDE DEF k, l
<1> SUFFICES ASSUME NEW b \in Buttons
             PROVE  /\ (\A n \in 1 .. Len(t) : ~Mentions(t[n], b)) =>
                         (b \in all1 <=> IF b \in known THEN b \in new ELSE b \in old)
                    /\ \A n \in 1 .. Len(t) :
                         Mentions(t[n], b) /\ (\A m \in 1 .. Len(t) : m > n => ~Mentions(t[m], b)) =>
                           (b \in all1 <=> t[n].down = TRUE)
  BY DEF Says
<1>4. /\ (\A n \in 1 .. k : ~Mentions(s[n], b)) =>
           (b \in all <=> IF b \in known THEN b \in new ELSE b \in old)
      /\ \A n \in 1 .. k :
           Mentions(s[n], b) /\ (\A m \in 1 .. k : m > n => ~Mentions(s[m], b)) =>
             (b \in all <=> s[n].down = TRUE)
  BY DEF Says, k
<1>5. CASE b \in changed
  <2> PICK i \in 1 .. l : Mentions(p[i], b)
    BY <1>3, <1>5
  <2>1. k + i \in 1 .. Len(t) /\ Mentions(t[k + i], b)
    BY <1>2
  <2>2. ASSUME NEW n \in 1 .. Len(t), Mentions(t[n], b), \A m \in 1 .. Len(t) : m > n => ~Mentions(t[m], b)
        PROVE  b \in all1 <=> t[n].down = TRUE
    <3>1. ~(k + i > n)
      BY <2>1, <2>2
    <3>2. n \notin 1 .. k
      BY <1>2, <3>1
    <3>3. n - k \in 1 .. l /\ t[n] = p[n - k]
      BY <1>2, <3>2
    <3>4. p[n - k].down = TRUE <=> b \in down
      BY <1>3, <2>2, <3>3
    <3> QED
      BY <1>5, <3>3, <3>4
  <2> QED
    BY <2>1, <2>2
<1>6. CASE b \notin changed
  <2>1. b \in all1 <=> b \in all
    BY <1>6
  <2>2. \A n \in 1 .. l : ~Mentions(p[n], b)
    BY <1>3, <1>6
  <2>3. \A n \in 1 .. Len(t) : Mentions(t[n], b) => n \in 1 .. k /\ t[n] = s[n]
    BY <1>2, <2>2
  <2>4. ASSUME \A n \in 1 .. Len(t) : ~Mentions(t[n], b)
        PROVE  \A n \in 1 .. k : ~Mentions(s[n], b)
    BY <1>2, <2>4
  <2>5. ASSUME NEW n \in 1 .. Len(t), Mentions(t[n], b), \A m \in 1 .. Len(t) : m > n => ~Mentions(t[m], b)
        PROVE  b \in all1 <=> t[n].down = TRUE
    <3>1. n \in 1 .. k /\ t[n] = s[n] /\ Mentions(s[n], b)
      BY <2>3, <2>5
    <3>2. \A m \in 1 .. k : m > n => ~Mentions(s[m], b)
      BY <1>2, <2>5
    <3>3. b \in all <=> s[n].down = TRUE
      BY <1>4, <3>1, <3>2
    <3> QED
      BY <2>1, <3>1, <3>3
  <2> HIDE DEF all1
  <2> QED
    BY <1>4, <2>1, <2>4, <2>5
<1> QED
  BY <1>5, <1>6

LEMMA JoinedPoints ==
  ASSUME NEW t, NEW s, NEW p, Followed(t, s, p), NEW changed, NEW down, NEW moves \in BOOLEAN,
         NEW pos, NEW wheel, Packet(p, changed, down, moves, pos, wheel),
         NEW here, NEW old, Points(s, here, old)
  PROVE  Points(t, here, IF moves THEN pos ELSE old)
<1> DEFINE k == Len(s)
           l == Len(p)
           new == IF moves THEN pos ELSE old
<1>1. p \in Seq(Event)
  BY DEF Packet
<1>2. /\ k \in Nat /\ l \in Nat /\ Len(t) = k + l
      /\ \A n \in 1 .. k : n \in 1 .. Len(t) /\ t[n] = s[n]
      /\ \A n \in 1 .. l : k + n \in 1 .. Len(t) /\ t[k + n] = p[n]
      /\ \A n \in 1 .. Len(t) : \/ n \in 1 .. k /\ t[n] = s[n]
                                \/ n > k /\ n - k \in 1 .. l /\ t[n] = p[n - k]
  BY <1>1, FollowedIndex
<1>3. /\ \A n \in 1 .. l : p[n].type = "abs" => moves /\ p[n].pos = pos
      /\ moves => \E n \in 1 .. l : p[n].type = "abs"
  BY Zenon DEF Packet
<1>4. /\ (\A n \in 1 .. k : s[n].type # "abs") => old = here
      /\ \A n \in 1 .. k :
           s[n].type = "abs" /\ (\A m \in 1 .. k : m > n => s[m].type # "abs") =>
             old = s[n].pos
  BY DEF Points, k
<1> HIDE DEF k, l
<1>5. CASE moves
  <2> PICK i \in 1 .. l : p[i].type = "abs"
    BY <1>3, <1>5
  <2>1. k + i \in 1 .. Len(t) /\ t[k + i].type = "abs"
    BY <1>2
  <2>2. ASSUME NEW n \in 1 .. Len(t), t[n].type = "abs", \A m \in 1 .. Len(t) : m > n => t[m].type # "abs"
        PROVE  new = t[n].pos
    <3>1. ~(k + i > n)
      BY <2>1, <2>2
    <3>2. n \notin 1 .. k
      BY <1>2, <3>1
    <3>3. n - k \in 1 .. l /\ t[n] = p[n - k]
      BY <1>2, <3>2
    <3> QED
      BY <1>3, <1>5, <2>2, <3>3
  <2> QED
    BY <2>1, <2>2 DEF Points
<1>6. CASE ~moves
  <2>1. new = old
    BY <1>6
  <2>3. \A n \in 1 .. Len(t) : t[n].type = "abs" => n \in 1 .. k /\ t[n] = s[n]
    BY <1>2, <1>3, <1>6
  <2>4. ASSUME \A n \in 1 .. Len(t) : t[n].type # "abs"
        PROVE  \A n \in 1 .. k : s[n].type # "abs"
    BY <1>2, <2>4
  <2>5. ASSUME NEW n \in 1 .. Len(t), t[n].type = "abs", \A m \in 1 .. Len(t) : m > n => t[m].type # "abs"
        PROVE  old = t[n].pos
    <3>1. n \in 1 .. k /\ t[n] = s[n]
      BY <2>3, <2>5
    <3>2. \A m \in 1 .. k : m > n => s[m].type # "abs"
      BY <1>2, <2>5
    <3> QED
      BY <1>4, <2>5, <3>1, <3>2
  <2>6. Points(t, here, old)
    BY <1>4, <2>4, <2>5 DEF Points
  <2> QED
    BY <2>1, <2>6
<1> QED
  BY <1>5, <1>6

LEMMA JoinedWheels ==
  ASSUME NEW t, NEW s, NEW p, Followed(t, s, p), NEW changed, NEW down, NEW moves,
         NEW pos, NEW wheel \in BOOLEAN, Packet(p, changed, down, moves, pos, wheel)
  PROVE  Cardinality(Wheels(t)) = Cardinality(Wheels(s)) + (IF wheel THEN 1 ELSE 0)
<1> DEFINE k == Len(s)
           l == Len(p)
           V == Wheels(s)
           W == Wheels(t)
<1>1. p \in Seq(Event)
  BY DEF Packet
<1>2. /\ k \in Nat /\ l \in Nat /\ Len(t) = k + l
      /\ \A n \in 1 .. k : n \in 1 .. Len(t) /\ t[n] = s[n]
      /\ \A n \in 1 .. l : k + n \in 1 .. Len(t) /\ t[k + n] = p[n]
      /\ \A n \in 1 .. Len(t) : \/ n \in 1 .. k /\ t[n] = s[n]
                                \/ n > k /\ n - k \in 1 .. l /\ t[n] = p[n - k]
  BY <1>1, FollowedIndex
<1>3. /\ \A n \in V : n \in 1 .. k /\ s[n].type = "wheel"
      /\ \A n \in 1 .. k : s[n].type = "wheel" => n \in V
      /\ \A n \in W : n \in 1 .. Len(t) /\ t[n].type = "wheel"
      /\ \A n \in 1 .. Len(t) : t[n].type = "wheel" => n \in W
      /\ \A n \in Wheels(p) : n \in 1 .. l /\ p[n].type = "wheel"
      /\ \A n \in 1 .. l : p[n].type = "wheel" => n \in Wheels(p)
  BY DEF Wheels
<1>4. /\ wheel => \E w \in 1 .. l : Wheels(p) = {w}
      /\ ~wheel => Wheels(p) = {}
  BY Zenon DEF Packet
<1>5. IsFiniteSet(V) /\ Cardinality(V) \in Nat
  BY WheelsFinite DEF Followed
<1> HIDE DEF k, l, V, W
<1>6. CASE wheel
  <2> PICK w \in 1 .. l : Wheels(p) = {w}
    BY <1>4, <1>6
  <2>1. k + w \notin V
    BY <1>2, <1>3
  <2>2. ASSUME NEW n \in W PROVE n \in V \union {k + w}
    <3>1. CASE n \in 1 .. k
      BY <1>2, <1>3, <3>1
    <3>2. CASE n \notin 1 .. k
      <4>1. n - k \in 1 .. l /\ p[n - k].type = "wheel" /\ n \in Nat
        BY <1>2, <1>3, <3>2
      <4>2. n - k = w
        BY <1>3, <4>1
      <4> QED
        BY <1>2, <4>1, <4>2
    <3> QED
      BY <3>1, <3>2
  <2>3. ASSUME NEW n \in V \union {k + w} PROVE n \in W
    <3>1. CASE n \in V
      BY <1>2, <1>3, <3>1
    <3>2. CASE n = k + w
      BY <1>2, <1>3, <3>2
    <3> QED
      BY <3>1, <3>2
  <2>4. W = V \union {k + w}
    BY <2>2, <2>3
  <2>5. Cardinality(V \union {k + w}) = Cardinality(V) + 1
    BY <1>5, <2>1, FS_AddElement
  <2> QED
    BY <1>6, <2>4, <2>5 DEF V, W
<1>7. CASE ~wheel
  <2>1. \A n \in 1 .. l : p[n].type # "wheel"
    BY <1>3, <1>4, <1>7
  <2>2. \A n : n \in W <=> n \in V
    BY <1>2, <1>3, <2>1
  <2>3. W = V
    BY <2>2
  <2> QED
    BY <1>5, <1>7, <2>3 DEF V, W
<1> QED
  BY <1>6, <1>7

-----------------------------------------------------------------------------
(* The inductive invariant: TypeOK, and that every buffer is in one of the *)
(* two queues, that the events to come lead to what the device has told,   *)
(* and that no scroll step counts more than once.                          *)
IInv == Buffers /\ Told /\ Scrolled

Invariant == TypeOK /\ IInv

LEMMA Numbers ==
  ASSUME NEW s \in Seq(Bufs) PROVE s \in Seq(Nat)
<1>1. Bufs \subseteq Nat
  BY InputAssumption DEF Bufs
<1>2. \A n \in 1 .. Len(s) : s[n] \in Nat
  <2>1. \A n \in 1 .. Len(s) : s[n] \in Bufs
    OBVIOUS
  <2> QED
    BY <1>1, <2>1
<1>3. s = [n \in 1 .. Len(s) |-> s[n]] /\ Len(s) \in Nat
  OBVIOUS
<1>4. s \in [1 .. Len(s) -> Nat]
  BY <1>2, <1>3, Zenon
<1> QED
  BY <1>3, <1>4

LEMMA Concatenated ==
  ASSUME NEW r \in Seq(Bufs), NEW s \in Seq(Bufs)
  PROVE  /\ r \o s \in Seq(Bufs) /\ Len(r \o s) = Len(r) + Len(s)
         /\ \A n \in 1 .. Len(r) : (r \o s)[n] = r[n]
OBVIOUS

LEMMA Types ==
  ASSUME TypeOK
  PROVE  /\ Held \in Seq(Bufs) /\ Back \in Seq(Bufs) /\ Back \in Seq(Nat)
         /\ avail \in Seq(Bufs) /\ avail \in Seq(Nat) /\ claimed \in Seq(Bufs) /\ used \in Seq(Bufs)
         /\ Len(Back) = (Len(Held) + Len(claimed)) + Len(used)
         /\ step # "idle" => Back # <<>> /\ Head(Back) = tag
         /\ Past \in {0, 1} /\ Past <= Len(Back) /\ (step # "requeue" => Past = 0)
         /\ Coming \in Seq(Event) /\ Len(Coming) = (Len(Back) - Past) + Len(packet)
         /\ queuing \in Nat /\ packet \in Seq(Event) /\ lpage \in [Bufs -> Event]
<1>1. /\ avail \in Seq(Bufs) /\ claimed \in Seq(Bufs) /\ used \in Seq(Bufs) /\ tag \in Bufs
      /\ packet \in Seq(Event) /\ lpage \in [Bufs -> Event] /\ queuing \in Nat
  BY InputAssumption DEF TypeOK
<1>2. Held \in Seq(Bufs) /\ (step # "idle" => Len(Held) = 1 /\ Held[1] = tag)
  BY <1>1 DEF Held
<1>3. /\ Back \in Seq(Bufs) /\ Len(Back) = (Len(Held) + Len(claimed)) + Len(used)
      /\ step # "idle" => Back # <<>> /\ Head(Back) = tag
  <2> DEFINE hc == Held \o claimed
  <2>1. /\ hc \in Seq(Bufs) /\ Len(hc) = Len(Held) + Len(claimed)
        /\ \A n \in 1 .. Len(Held) : hc[n] = Held[n]
    BY <1>1, <1>2
  <2>2. Back = hc \o used
    BY DEF Back
  <2> HIDE DEF hc
  <2>3. /\ Back \in Seq(Bufs) /\ Len(Back) = Len(hc) + Len(used)
        /\ \A n \in 1 .. Len(hc) : Back[n] = hc[n]
    BY <1>1, <2>1, <2>2, Concatenated
  <2>4. ASSUME step # "idle" PROVE Back # <<>> /\ Head(Back) = tag
    <3>1. Len(Held) = 1 /\ Held[1] = tag
      BY <1>2, <2>4
    <3>2. Len(claimed) \in Nat /\ Len(used) \in Nat
      BY <1>1
    <3>3. 1 \in 1 .. Len(Held) /\ 1 \in 1 .. Len(hc) /\ Len(Back) > 0
      BY <2>1, <2>3, <3>1, <3>2
    <3>4. Back[1] = tag
      BY <2>1, <2>3, <3>1, <3>3
    <3> QED
      BY <2>3, <3>3, <3>4
  <2> QED
    BY <2>1, <2>3, <2>4
<1>4. Past \in {0, 1} /\ Past <= Len(Back) /\ (step # "requeue" => Past = 0)
  <2>1. step = "requeue" => Len(Back) > 0
    BY <1>3
  <2> QED
    BY <1>3, <2>1 DEF Past
<1>5. Shaped(Coming, lpage, Back, Past, packet)
  BY <1>1, <1>3, <1>4, ComingIsShaped DEF Coming
<1>6. Coming \in Seq(Event) /\ Len(Coming) = (Len(Back) - Past) + Len(packet)
  BY <1>5 DEF Shaped
<1>7. Back \in Seq(Nat) /\ avail \in Seq(Nat)
  BY <1>1, <1>3, Numbers
<1> QED
  BY <1>1, <1>2, <1>3, <1>4, <1>6, <1>7

LEMMA InitInvariant == Init => Invariant
<1> SUFFICES ASSUME Init PROVE Invariant
  OBVIOUS
<1>1. TypeOK
  <2>1. lpage \in [Bufs -> Event] /\ queuing \in 0 .. NBuf
    BY InputAssumption DEF Init, Event, Syn
  <2>2. knowpos \in BOOLEAN /\ curScroller \in BOOLEAN
    BY Zenon DEF Init
  <2>3. x \in Positions /\ cursor \in Positions /\ toldPos \in Positions
    BY DEF Init
  <2>4. \A s \in {knowmask, newbtn, oldbtn, told} : s \subseteq Buttons
    BY DEF Init
  <2>5. tag \in Bufs /\ step \in {"idle", "handle", "requeue"}
    BY InputAssumption DEF Init, Bufs
  <2>6. \A s \in {claimed, avail, used} : s \in Seq(Bufs) /\ Len(s) <= NBuf
    <3>1. claimed = <<>> /\ avail = <<>> /\ used = <<>>
      BY DEF Init
    <3>2. \A s : s = <<>> => s \in Seq(Bufs) /\ Len(s) <= NBuf
      BY InputAssumption
    <3> QED
      BY <3>1, <3>2, Zenon
  <2>7. /\ pendingScroll \in 0 .. MaxWheel /\ posted \in 0 .. MaxWheel /\ scrolled \in 0 .. MaxWheel
        /\ toldWheel \in 0 .. MaxWheel /\ packet \in Seq(Event) /\ mouse \in {"up", "down"}
    BY InputAssumption DEF Init
  <2>8. tracking \in [at : {"idle", "read"}, steps : 0 .. MaxWheel]
    BY InputAssumption DEF Init
  <2> QED
    BY <2>1, <2>2, <2>3, <2>4, <2>5, <2>6, <2>7, <2>8, Zenon DEF TypeOK
<1>2. Back = <<>> /\ avail = <<>> /\ packet = <<>> /\ queuing = 0
  BY DEF Init, Back, Held
<1>3. Buffers
  BY <1>2, WholeBegins DEF Buffers
<1>4. Len(Coming) = 0 /\ Coming \in Seq(Event)
  <2>1. Past = 0
    BY DEF Init, Past
  <2> QED
    BY <1>1, <1>2, <2>1, Types
<1>5. Told
  <2>1. EndsPacket(Coming) /\ MentionsOnce(Coming, {})
    BY <1>4 DEF EndsPacket, MentionsOnce
  <2>2. Says(Coming, {}, {}, {}, {})
    BY <1>4 DEF Says
  <2>3. Points(Coming, cursor, toldPos)
    BY <1>4 DEF Points, Init
  <2>4. Here = cursor
    BY DEF Here, Init
  <2> QED
    BY <2>1, <2>2, <2>3, <2>4 DEF Told, Init
<1>6. Scrolled
  <2>1. Wheels(Coming) = {}
    BY <1>4 DEF Wheels
  <2>2. Cardinality(Wheels(Coming)) = 0
    BY <2>1, FS_EmptySet
  <2> QED
    BY <2>2 DEF Scrolled, Init
<1> QED
  BY <1>1, <1>3, <1>5, <1>6 DEF Invariant, IInv

LEMMA ToldKept ==
  ASSUME Told, Coming' = Coming, UNCHANGED <<told, toldPos, buttonVars>>
  PROVE  Told'
BY DEF Told, Here, buttonVars

(* A step that leaves the queues, the pages and what is handled alone. *)
LEMMA ComingKept ==
  ASSUME Told, Back' = Back, UNCHANGED <<lpage, step, packet, told, toldPos, buttonVars>>
  PROVE  Told' /\ Coming' = Coming
<1>1. Coming' = Coming
  BY DEF Coming, Past
<1>2. Here' = Here
  BY DEF Here, buttonVars
<1> QED
  BY <1>1, <1>2 DEF Told, buttonVars

-----------------------------------------------------------------------------
(* The buffers move; where all of them are follows from where one goes. *)
LEMMA QueueMoves ==
  ASSUME Invariant, Queue
  PROVE  Back' = Back /\ Buffers'
<1>1. TypeOK /\ Whole(avail, Back, queuing) /\ Len(packet) <= Len(avail)
  BY DEF Invariant, IInv, Buffers
<1>2. avail' = Append(avail, queuing) /\ queuing' = queuing + 1 /\ packet' = packet
  BY DEF Queue, deviceVars
<1>3. Back' = Back
  BY DEF Queue, Back, Held
<1>4. avail \in Seq(Nat) /\ Back \in Seq(Nat) /\ queuing \in Nat
  BY <1>1, Types
<1>5. Whole(Append(avail, queuing), Back, queuing + 1)
  BY <1>1, <1>4, WholeAdded
<1>6. Len(avail') = Len(avail) + 1
  BY <1>2, <1>4
<1>7. Len(packet') <= Len(avail')
  BY <1>1, <1>2, <1>4, <1>6, Types
<1> QED
  BY <1>2, <1>3, <1>5, <1>7, Zenon DEF Buffers

LEMMA QPollMoves ==
  ASSUME Invariant, QPoll
  PROVE  Back' = Back /\ Buffers'
<1>1. TypeOK /\ Whole(avail, Back, queuing) /\ Len(packet) <= Len(avail)
  BY DEF Invariant, IInv, Buffers
<1>2. avail' = avail /\ queuing' = queuing /\ packet' = packet
  BY DEF QPoll, deviceVars
<1>3. /\ Held = <<>> /\ claimed = <<>>
      /\ Held' = <<>> /\ claimed' = used /\ used' = <<>>
  BY DEF QPoll, Held
<1>4. used \in Seq(Bufs)
  BY <1>1, Types
<1>5. (<<>> \o <<>>) \o used = used /\ (<<>> \o used) \o <<>> = used
  BY <1>4
<1>6. Back = used /\ Back' = used
  BY <1>3, <1>5, Zenon DEF Back
<1>7. Back' = Back
  BY <1>6
<1> QED
  BY <1>1, <1>2, <1>7, Zenon DEF Buffers

LEMMA DNotifiedMoves ==
  ASSUME Invariant, DNotified
  PROVE  Back' = Back /\ Buffers'
<1>1. TypeOK /\ Whole(avail, Back, queuing) /\ Len(packet) <= Len(avail)
  BY DEF Invariant, IInv, Buffers
<1>2. avail' = avail /\ queuing' = queuing /\ packet' = packet
  BY DEF DNotified, LentLater, deviceVars
<1>3. /\ Held = <<>> /\ claimed # <<>>
      /\ Held' = <<Head(claimed)>> /\ claimed' = Tail(claimed) /\ used' = used
  BY DEF DNotified, Held
<1>4. claimed \in Seq(Bufs)
  BY <1>1, Types
<1>5. <<Head(claimed)>> \o Tail(claimed) = <<>> \o claimed
  <2>1. ASSUME NEW s \in Seq(Bufs), s # <<>>
        PROVE <<Head(s)>> \o Tail(s) = <<>> \o s
    <3>1. <<Head(s)>> \o Tail(s) = s /\ <<>> \o s = s
      BY <2>1, HeadTailAppend
    <3> QED
      BY <3>1
  <2> QED
    BY <1>3, <1>4, <2>1
<1>6. Back' = Back
  BY <1>3, <1>5, Zenon DEF Back
<1> QED
  BY <1>1, <1>2, <1>6, Zenon DEF Buffers

LEMMA HandleEventMoves ==
  ASSUME Invariant, HandleEvent
  PROVE  /\ Back' = Back /\ Buffers'
         /\ IsRest(Coming', Coming) /\ Coming[1] = lpage[tag]
<1>1. TypeOK /\ Whole(avail, Back, queuing) /\ Len(packet) <= Len(avail)
  BY DEF Invariant, IInv, Buffers
<1>2. /\ step = "handle" /\ step' = "requeue"
      /\ UNCHANGED <<lpage, queuing, tag, claimed, avail, used, packet>>
  BY DEF HandleEvent, deviceVars
<1>3. Back' = Back
  <2>1. Held' = <<tag>> /\ Held = <<tag>>
    BY <1>2 DEF Held
  <2> QED
    BY <1>2, <2>1 DEF Back
<1>4. Past = 0 /\ Past' = 1
  BY <1>2 DEF Past
<1>5. Back \in Seq(Bufs) /\ Back # <<>> /\ Head(Back) = tag /\ packet \in Seq(Event)
      /\ lpage \in [Bufs -> Event]
  BY <1>1, <1>2, Types
<1>6. Coming = ComingOf(lpage, Back, 0, packet) /\ Coming' = ComingOf(lpage, Back, 1, packet)
  BY <1>2, <1>3, <1>4, Zenon DEF Coming
<1>7. IsRest(Coming', Coming) /\ Coming[1] = lpage[tag]
  BY <1>5, <1>6, ComingHandled
<1>8. Buffers'
  BY <1>1, <1>2, <1>3, Zenon DEF Buffers
<1> QED
  BY <1>3, <1>7, <1>8

LEMMA ReQueueMoves ==
  ASSUME Invariant, ReQueue
  PROVE  Buffers' /\ Coming' = Coming
<1>1. TypeOK /\ Whole(avail, Back, queuing) /\ Len(packet) <= Len(avail)
  BY DEF Invariant, IInv, Buffers
<1>2. /\ step = "requeue" /\ step' = "idle" /\ avail' = Append(avail, tag)
      /\ UNCHANGED <<lpage, queuing, claimed, used, packet>>
  BY DEF ReQueue, deviceVars
<1>3. /\ Back \in Seq(Bufs) /\ Back \in Seq(Nat) /\ Back # <<>> /\ Head(Back) = tag
      /\ packet \in Seq(Event) /\ lpage \in [Bufs -> Event] /\ avail \in Seq(Nat) /\ queuing \in Nat
      /\ claimed \in Seq(Bufs) /\ used \in Seq(Bufs)
  BY <1>1, <1>2, Types
<1>4. tag \in Bufs
  BY <1>1 DEF TypeOK
<1>5. Back' = Tail(Back)
  <2>1. Held = <<tag>> /\ Held' = <<>>
    BY <1>2 DEF Held
  <2>2. ASSUME NEW c \in Seq(Bufs), NEW u \in Seq(Bufs), NEW t \in Bufs
        PROVE  Tail((<<t>> \o c) \o u) = (<<>> \o c) \o u
    <3>1. (<<t>> \o c) \o u = <<t>> \o (c \o u)
      BY ConcatAssociative
    <3>2. c \o u \in Seq(Bufs) /\ <<>> \o c = c
      OBVIOUS
    <3>3. \A s \in Seq(Bufs) : Tail(<<t>> \o s) = s
      OBVIOUS
    <3> QED
      BY <3>1, <3>2, <3>3, Zenon
  <2>3. Tail((<<tag>> \o claimed) \o used) = (<<>> \o claimed) \o used
    BY <1>3, <1>4, <2>2, Zenon
  <2> QED
    BY <1>2, <2>1, <2>3, Zenon DEF Back
<1>6. Past = 1 /\ Past' = 0
  BY <1>2 DEF Past
<1>7. Coming = ComingOf(lpage, Back, 1, packet) /\ Coming' = ComingOf(lpage, Tail(Back), 0, packet)
  BY <1>2, <1>5, <1>6, Zenon DEF Coming
<1>8. Coming' = Coming
  BY <1>3, <1>7, ComingRequeued
<1>9. Whole(Append(avail, Head(Back)), Tail(Back), queuing)
  BY <1>1, <1>3, WholeMoved
<1>10. Len(avail') = Len(avail) + 1
  BY <1>2, <1>3
<1>11. Len(packet') <= Len(avail')
  BY <1>1, <1>2, <1>3, <1>10
<1>12. Buffers'
  BY <1>2, <1>3, <1>5, <1>9, <1>11, Zenon DEF Buffers
<1> QED
  BY <1>8, <1>12

LEMMA DeviceWriteMoves ==
  ASSUME Invariant, DeviceWrite
  PROVE  Buffers' /\ Coming' = Coming
<1>1. TypeOK /\ Whole(avail, Back, queuing) /\ Len(packet) <= Len(avail)
  BY DEF Invariant, IInv, Buffers
<1>2. /\ packet # <<>> /\ lpage' = [lpage EXCEPT ![Head(avail)] = Head(packet)]
      /\ packet' = Tail(packet) /\ avail' = Tail(avail) /\ used' = Append(used, Head(avail))
      /\ UNCHANGED <<queuing, claimed, step, tag>>
  BY DEF DeviceWrite, loopVars
<1>3. /\ Back \in Seq(Bufs) /\ Back \in Seq(Nat) /\ avail \in Seq(Bufs) /\ avail \in Seq(Nat)
      /\ packet \in Seq(Event) /\ lpage \in [Bufs -> Event] /\ queuing \in Nat
      /\ used \in Seq(Bufs) /\ Past \in {0, 1} /\ Past <= Len(Back)
      /\ Held \in Seq(Bufs) /\ claimed \in Seq(Bufs)
  BY <1>1, Types
<1>4. Len(packet) > 0 /\ Len(avail) > 0 /\ avail # <<>>
  <2>1. packet # <<>> /\ packet \in Seq(Event)
    BY <1>2, <1>3
  <2>2. Len(packet) \in Nat /\ Len(packet) > 0
    BY <2>1, EmptySeq
  <2>3. Len(avail) \in Nat
    BY <1>3
  <2>4. Len(avail) > 0
    BY <1>1, <2>2, <2>3
  <2> QED
    BY <1>3, <2>2, <2>4
<1> DEFINE a == Head(avail)
<1>5. a \in Bufs /\ a = avail[1] /\ 1 \in 1 .. Len(avail)
  BY <1>3, <1>4
<1>6. \A n \in 1 .. Len(Back) : Back[n] # a
  BY <1>1, <1>5 DEF Whole
<1> HIDE DEF a
<1>7. Back' = Append(Back, a)
  <2>1. Held' = Held
    BY <1>2 DEF Held
  <2>2. ASSUME NEW s \in Seq(Bufs), NEW u \in Seq(Bufs), NEW t \in Bufs
        PROVE  s \o Append(u, t) = Append(s \o u, t)
    OBVIOUS
  <2>3. (Held \o claimed) \in Seq(Bufs)
    BY <1>3, Concatenated
  <2>4. (Held \o claimed) \o Append(used, a) = Append((Held \o claimed) \o used, a)
    BY <1>3, <1>5, <2>2, <2>3, Zenon
  <2> QED
    BY <1>2, <2>1, <2>4, Zenon DEF Back, a
<1>8. Past' = Past
  BY <1>2 DEF Past
<1>9. Coming' = ComingOf([lpage EXCEPT ![a] = Head(packet)], Append(Back, a), Past, Tail(packet))
  BY <1>2, <1>7, <1>8, Zenon DEF Coming, a
<1>10. Coming' = Coming
  <2>1. ComingOf([lpage EXCEPT ![a] = Head(packet)], Append(Back, a), Past, Tail(packet))
          = ComingOf(lpage, Back, Past, packet)
    <3>1. /\ lpage \in [Bufs -> Event] /\ Back \in Seq(Bufs) /\ packet \in Seq(Event)
          /\ Past \in {0, 1} /\ Past <= Len(Back) /\ packet # <<>>
      BY <1>2, <1>3
    <3>2. a \in Bufs
      BY <1>5
    <3> QED
      BY <1>6, <3>1, <3>2, ComingWritten, Zenon
  <2> QED
    BY <1>9, <2>1, Zenon DEF Coming
<1>11. Whole(Tail(avail), Append(Back, a), queuing)
  <2>1. Whole(Back, avail, queuing)
    BY <1>1, <1>3, WholeBothWays
  <2>2. Whole(Append(Back, a), Tail(avail), queuing)
    BY <1>3, <1>4, <2>1, WholeMoved DEF a
  <2>3. Append(Back, a) \in Seq(Nat) /\ Tail(avail) \in Seq(Nat)
    <3>1. a \in Nat
      BY <1>3, <1>4 DEF a
    <3> QED
      BY <1>3, <1>4, <3>1
  <2> QED
    BY <1>3, <2>2, <2>3, WholeBothWays
<1>12. Len(packet') <= Len(avail')
  BY <1>1, <1>2, <1>3, <1>4
<1>13. Buffers'
  BY <1>2, <1>7, <1>11, <1>12, Zenon DEF Buffers
<1> QED
  BY <1>10, <1>13

LEMMA DevicePacketJoins ==
  ASSUME Invariant, NEW changed \in SUBSET Buttons, NEW down \in SUBSET Buttons,
         NEW moves \in BOOLEAN, NEW wheel \in BOOLEAN, NEW pos \in Positions,
         DevicePacket(changed, down, moves, pos, wheel)
  PROVE  /\ Back' = Back /\ Buffers' /\ packet' \in Seq(Event)
         /\ Packet(packet', changed, down, moves, pos, wheel)
         /\ Followed(Coming', Coming, packet')
<1> DEFINE keys == SetToSeq(KeyEvents(changed, down))
           events == keys \o (IF moves THEN <<[type |-> "abs", pos |-> pos]>> ELSE <<>>)
                          \o (IF wheel THEN <<Wheel>> ELSE <<>>)
<1>1. TypeOK /\ Whole(avail, Back, queuing) /\ Len(packet) <= Len(avail)
  BY DEF Invariant, IInv, Buffers
<1>2. /\ packet = <<>> /\ Len(avail) > Len(events) /\ packet' = Append(events, Syn)
      /\ UNCHANGED <<lpage, loopVars, avail, used>>
  BY Zenon DEF DevicePacket
<1>3. KeysOf(keys, changed, down)
  BY KeysListed
<1> HIDE DEF keys
<1>4. keys \in Seq(Event)
  BY <1>3 DEF KeysOf
<1>5. PacketOf(Append(events, Syn), keys, moves, pos, wheel)
  BY <1>4, PacketShape, Zenon
<1> HIDE DEF events
<1>6. PacketOf(packet', keys, moves, pos, wheel)
  BY <1>2, <1>5
<1>7. Packet(packet', changed, down, moves, pos, wheel)
  BY <1>3, <1>6, PacketsAre
<1>8. packet' \in Seq(Event)
  BY <1>7 DEF Packet
<1>9. Back' = Back /\ Past' = Past /\ lpage' = lpage /\ avail' = avail /\ queuing' = queuing
  BY <1>2 DEF loopVars, Back, Held, Past
<1>10. Coming = ComingOf(lpage, Back, Past, <<>>) /\ Coming' = ComingOf(lpage, Back, Past, packet')
  BY <1>2, <1>9, Zenon DEF Coming
<1>11. /\ lpage \in [Bufs -> Event] /\ Back \in Seq(Bufs) /\ Past \in {0, 1} /\ Past <= Len(Back)
       /\ avail \in Seq(Bufs)
  BY <1>1, Types
<1>12. Followed(Coming', Coming, packet')
  <2>1. ASSUME NEW rest \in Seq(Event)
        PROVE  Followed(ComingOf(lpage, Back, Past, rest), ComingOf(lpage, Back, Past, <<>>), rest)
    BY <1>11, ComingAnnounced, Zenon DEF Followed
  <2> QED
    BY <1>8, <1>10, <2>1, Zenon
<1>13. Len(packet') <= Len(avail')
  <2>1. ASSUME NEW n \in Nat, Len(packet') = n + 1, Len(avail) > n PROVE Len(packet') <= Len(avail)
    BY <1>11, <2>1
  <2>2. Len(events) \in Nat /\ Len(packet') = Len(events) + 1
    <3>1. \A s \in Seq(Event) : s \o <<>> \in Seq(Event)
      OBVIOUS
    <3>2. events \in Seq(Event)
      <4>1. [type |-> "abs", pos |-> pos] \in Event /\ Wheel \in Event
        BY DEF Event, Wheel
      <4> QED
        BY <1>4, <4>1 DEF events
    <3> QED
      BY <1>2, <3>2
  <2> QED
    BY <1>2, <1>9, <2>1, <2>2
<1>14. Buffers'
  BY <1>1, <1>9, <1>13, Zenon DEF Buffers
<1> QED
  BY <1>7, <1>8, <1>9, <1>12, <1>14

-----------------------------------------------------------------------------
(* What the events to come promise, and the scroll steps among them. *)
LEMMA ToldHandled ==
  ASSUME Invariant, HandleEvent
  PROVE  Told'
<1> DEFINE s == Coming
           rest == Coming'
           e == lpage[tag]
<1>1. IsRest(rest, s) /\ s[1] = e
  BY HandleEventMoves
<1>2. TypeOK /\ Told
  BY DEF Invariant, IInv
<1>3. /\ EndsPacket(s) /\ newbtn \subseteq knowmask
      /\ MentionsOnce(s, knowmask)
      /\ Says(s, knowmask, newbtn, oldbtn, told) /\ Points(s, Here, toldPos)
      /\ mouse = IF oldbtn = {} THEN "up" ELSE "down"
  BY <1>2 DEF Told
<1>4. UNCHANGED <<told, toldPos>>
  BY DEF HandleEvent, deviceVars
<1>5. knowmask \in SUBSET Buttons /\ e \in Event
  BY <1>2 DEF TypeOK
<1> HIDE DEF s, rest, e
<1>6. EndsPacket(rest) /\ (e.type # "syn" => Len(rest) > 0)
  BY <1>1, <1>3, RestEnds
<1>7. knowmask' \in SUBSET Buttons /\ newbtn' \subseteq knowmask'
      /\ IF e.type = "syn" THEN knowmask' = {}
         ELSE knowmask' = knowmask \union {b \in Buttons : Mentions(e, b)}
  <2>1. CASE HandleAbs(e) \/ HandleWheel(e)
    BY <1>3, <1>5, <2>1 DEF HandleAbs, HandleWheel, Mentions, buttonVars
  <2>2. CASE HandleKey(e)
    <3>1. e.button \in Buttons
      BY <1>5, <2>2 DEF HandleKey, Event
    <3>2. {b \in Buttons : Mentions(e, b)} = {e.button}
      BY <2>2, <3>1 DEF HandleKey, Mentions
    <3> QED
      BY <1>3, <1>5, <2>2, <3>1, <3>2 DEF HandleKey
  <2>3. CASE HandleSyn(e)
    BY <2>3 DEF HandleSyn, MaskCleared
  <2> QED
    BY <2>1, <2>2, <2>3 DEF HandleEvent, e
<1>8. MentionsOnce(rest, knowmask')
  BY <1>1, <1>3, <1>5, <1>7, RestMentions
<1>9. \A b \in Buttons :
        IF Mentions(e, b) THEN b \in knowmask' /\ (b \in newbtn' <=> e.down = TRUE)
        ELSE (IF b \in knowmask' THEN b \in newbtn' ELSE b \in oldbtn')
               <=> (IF b \in knowmask THEN b \in newbtn ELSE b \in oldbtn)
  <2>1. CASE HandleAbs(e) \/ HandleWheel(e)
    BY <2>1 DEF HandleAbs, HandleWheel, Mentions, buttonVars
  <2>2. CASE HandleKey(e)
    <3>1. e.button \in Buttons /\ e.down \in BOOLEAN
      BY <1>5, <2>2 DEF HandleKey, Event
    <3>2. e.button \notin knowmask
      <4>1. e.button \in knowmask => \E k \in 1 .. Len(s) : k < 1 /\ s[k].type = "syn"
        <5>1. 1 \in 1 .. Len(s)
          BY <1>1 DEF IsRest
        <5>2. Mentions(s[1], e.button)
          BY <1>1, <2>2 DEF HandleKey, Mentions
        <5> QED
          BY <1>3, <5>1, <5>2 DEF MentionsOnce
      <4> QED
        BY <4>1
    <3>3. e.button \notin newbtn
      BY <1>3, <3>2
    <3>4. \A b \in Buttons : Mentions(e, b) <=> b = e.button
      BY <2>2 DEF HandleKey, Mentions
    <3>5. /\ knowmask' = knowmask \union {e.button} /\ oldbtn' = oldbtn
          /\ e.down = TRUE => newbtn' = newbtn \union {e.button}
          /\ e.down # TRUE => newbtn' = newbtn
      BY <2>2, <3>1 DEF HandleKey
    <3> QED
      BY <3>3, <3>4, <3>5
  <2>3. CASE HandleSyn(e)
    <3>1. /\ \A b \in Buttons : ~Mentions(e, b)
          /\ knowmask' = {} /\ oldbtn' = (newbtn \intersect knowmask) \union (oldbtn \ knowmask)
      BY <2>3 DEF HandleSyn, MaskCleared, MergedButtons, Mentions
    <3> QED
      BY <3>1
  <2> QED
    BY <2>1, <2>2, <2>3 DEF HandleEvent, e
<1>10. Says(rest, knowmask', newbtn', oldbtn', told')
  <2> DEFINE known1 == knowmask'
             new1 == newbtn'
             old1 == oldbtn'
  <2>1. Leaves(s[1], knowmask, newbtn, oldbtn, known1, new1, old1)
    BY <1>1, <1>9 DEF Leaves
  <2>2. IsRest(rest, s) /\ Says(s, knowmask, newbtn, oldbtn, told)
    BY <1>1, <1>3
  <2> HIDE DEF known1, new1, old1
  <2>3. Says(rest, known1, new1, old1, told)
    BY <2>1, <2>2, RestSays
  <2> QED
    BY <1>4, <2>3 DEF known1, new1, old1
<1>11. Here' = IF e.type = "abs" THEN e.pos ELSE Here
  <2>1. CASE HandleAbs(e)
    BY <2>1 DEF HandleAbs, Here
  <2>2. CASE HandleKey(e) \/ HandleWheel(e)
    BY <2>2 DEF HandleKey, HandleWheel, Here, buttonVars
  <2>3. CASE HandleSyn(e)
    <3>1. /\ e.type # "abs" /\ knowpos' = FALSE
          /\ cursor' = IF knowpos THEN x ELSE cursor
      BY <2>3 DEF HandleSyn
    <3>2. knowpos \in BOOLEAN
      BY <1>2 DEF TypeOK
    <3>3. cursor' = IF knowpos = TRUE THEN x ELSE cursor
      BY <3>1, <3>2, Zenon
    <3> QED
      BY <3>1, <3>3, Zenon DEF Here
  <2> QED
    BY <2>1, <2>2, <2>3 DEF HandleEvent, e
<1>12. Points(rest, Here', toldPos')
  BY <1>1, <1>3, <1>4, <1>11, RestPoints
<1>13. (knowmask' # {} \/ knowpos' = TRUE) => Len(rest) > 0
  <2>1. e.type = "syn" => knowmask' = {} /\ knowpos' = FALSE
    BY Zenon DEF HandleEvent, HandleAbs, HandleKey, HandleWheel, HandleSyn, MaskCleared, e
  <2> QED
    BY <1>6, <2>1
<1>14. mouse' = IF oldbtn' = {} THEN "up" ELSE "down"
  <2>1. CASE HandleAbs(e) \/ HandleKey(e) \/ HandleWheel(e)
    BY <1>3, <2>1 DEF HandleAbs, HandleKey, HandleWheel, buttonVars
  <2>2. CASE HandleSyn(e)
    <3>1. /\ oldbtn' = MergedButtons
          /\ mouse' = IF (oldbtn # {}) = (MergedButtons # {}) THEN mouse
                      ELSE IF MergedButtons # {} THEN "down" ELSE "up"
      BY <2>2 DEF HandleSyn
    <3> QED
      BY <1>3, <3>1
  <2> QED
    BY <2>1, <2>2 DEF HandleEvent, e
<1> QED
  BY <1>6, <1>7, <1>8, <1>10, <1>12, <1>13, <1>14, Zenon DEF Told, rest

LEMMA ToldJoined ==
  ASSUME Invariant, NEW changed \in SUBSET Buttons, NEW down \in SUBSET Buttons,
         NEW moves \in BOOLEAN, NEW wheel \in BOOLEAN, NEW pos \in Positions,
         DevicePacket(changed, down, moves, pos, wheel)
  PROVE  Told' /\ Scrolled'
<1> DEFINE s == Coming
           t == Coming'
           p == packet'
<1>1. Packet(p, changed, down, moves, pos, wheel) /\ Followed(t, s, p)
  BY DevicePacketJoins
<1>2. TypeOK /\ Told /\ Scrolled
  BY DEF Invariant, IInv
<1>3. /\ EndsPacket(s) /\ newbtn \subseteq knowmask
      /\ MentionsOnce(s, knowmask)
      /\ Says(s, knowmask, newbtn, oldbtn, told) /\ Points(s, Here, toldPos)
      /\ mouse = IF oldbtn = {} THEN "up" ELSE "down"
      /\ knowmask # {} => Len(s) > 0
  BY <1>2 DEF Told
<1>4. /\ told' = (told \ changed) \union (changed \intersect down)
      /\ toldPos' = IF moves THEN pos ELSE toldPos
      /\ toldWheel' = IF wheel THEN toldWheel + 1 ELSE toldWheel
      /\ UNCHANGED <<knowpos, x, knowmask, newbtn, oldbtn, mouse, cursor>>
      /\ UNCHANGED <<pendingScroll, tracking, posted, scrolled>>
  BY Zenon DEF DevicePacket, buttonVars, scrollVars
<1>5. knowmask \in SUBSET Buttons
  BY <1>2 DEF TypeOK
<1>6. Here' = Here
  BY <1>4 DEF Here
<1> HIDE DEF s, t, p
<1>7. EndsPacket(t) /\ MentionsOnce(t, knowmask) /\ Len(t) > 0
  BY <1>1, <1>3, <1>5, JoinedMentions
<1>8. Says(t, knowmask, newbtn, oldbtn, told')
  BY <1>1, <1>3, <1>4, JoinedSays
<1>9. Points(t, Here, toldPos')
  BY <1>1, <1>3, <1>4, JoinedPoints
<1>10. Told'
  BY <1>3, <1>4, <1>6, <1>7, <1>8, <1>9, Zenon DEF Told, t
<1>11. Cardinality(Wheels(t)) = Cardinality(Wheels(s)) + (IF wheel THEN 1 ELSE 0)
  BY <1>1, JoinedWheels
<1>12. Cardinality(Wheels(s)) \in Nat
  BY <1>1, WheelsFinite DEF Followed
<1>13. /\ pendingScroll \in Nat /\ posted \in Nat /\ scrolled \in Nat /\ toldWheel \in Nat
  BY <1>2, InputAssumption DEF TypeOK
<1>14. /\ scrolled + pendingScroll + Cardinality(Wheels(s)) <= toldWheel
       /\ posted + Cardinality(Wheels(s)) <= toldWheel
       /\ tracking.at = "read" => tracking.steps <= pendingScroll
  BY <1>2 DEF Scrolled, s
<1> DEFINE c == Cardinality(Wheels(s))
           d == Cardinality(Wheels(t))
<1>15. /\ c \in Nat /\ d = c + (IF wheel THEN 1 ELSE 0)
       /\ scrolled + pendingScroll + c <= toldWheel /\ posted + c <= toldWheel
  BY <1>11, <1>12, <1>14
<1> HIDE DEF c, d
<1>16. scrolled + pendingScroll + d <= toldWheel' /\ posted + d <= toldWheel'
  BY <1>4, <1>13, <1>15
<1>17. Scrolled'
  BY <1>4, <1>14, <1>16, Zenon DEF Scrolled, d, t
<1> QED
  BY <1>10, <1>17

LEMMA ScrolledHandled ==
  ASSUME Invariant, HandleEvent
  PROVE  Scrolled'
<1> DEFINE s == Coming
           rest == Coming'
           e == lpage[tag]
           c == Cardinality(Wheels(s))
           d == Cardinality(Wheels(rest))
<1>1. IsRest(rest, s) /\ s[1] = e
  BY HandleEventMoves
<1>2. TypeOK /\ Scrolled
  BY DEF Invariant, IInv
<1>3. /\ scrolled + pendingScroll + c <= toldWheel /\ posted + c <= toldWheel
      /\ tracking.at = "read" => tracking.steps <= pendingScroll
  BY <1>2 DEF Scrolled
<1>4. /\ pendingScroll \in Nat /\ posted \in Nat /\ scrolled \in Nat /\ toldWheel \in Nat
      /\ tracking.steps \in Nat
  BY <1>2, InputAssumption DEF TypeOK
<1>5. c = d + (IF s[1].type = "wheel" THEN 1 ELSE 0)
  BY <1>1, RestWheels
<1>6. d \in Nat
  BY <1>1, WheelsFinite DEF IsRest
<1> HIDE DEF s, rest, c, d, e
<1>7. c = d + (IF e.type = "wheel" THEN 1 ELSE 0)
  BY <1>1, <1>5
<1>8. /\ e.type = "wheel" => pendingScroll' = pendingScroll + 1 /\ posted' = posted + 1
      /\ e.type # "wheel" => pendingScroll' = pendingScroll /\ posted' = posted
      /\ tracking' = tracking /\ scrolled' = scrolled /\ toldWheel' = toldWheel
  BY DEF HandleEvent, HandleAbs, HandleKey, HandleWheel, HandleSyn, scrollVars, deviceVars, e
<1>9. scrolled' + pendingScroll' + d <= toldWheel' /\ posted' + d <= toldWheel'
  BY <1>3, <1>4, <1>6, <1>7, <1>8
<1>10. tracking'.at = "read" => tracking'.steps <= pendingScroll'
  BY <1>3, <1>4, <1>8
<1> QED
  BY <1>9, <1>10, Zenon DEF Scrolled, d, rest

(* The main line uses up what the interrupts add. *)
LEMMA ScrolledKept ==
  ASSUME Invariant, Coming' = Coming, toldWheel' = toldWheel,
         UNCHANGED scrollVars \/ GNEFilter \/ TrackControl \/ TrackControlMove
  PROVE  Scrolled'
<1> DEFINE c == Cardinality(Wheels(Coming))
<1>1. TypeOK /\ Scrolled
  BY DEF Invariant, IInv
<1>2. /\ scrolled + pendingScroll + c <= toldWheel /\ posted + c <= toldWheel
      /\ tracking.at = "read" => tracking.steps <= pendingScroll
  BY <1>1 DEF Scrolled
<1>3. /\ pendingScroll \in Nat /\ posted \in Nat /\ scrolled \in Nat /\ toldWheel \in Nat
      /\ tracking.steps \in Nat
  BY <1>1, InputAssumption DEF TypeOK
<1>4. c \in Nat
  <2>1. Coming \in Seq(Event)
    BY <1>1, Types
  <2> QED
    BY <2>1, WheelsFinite
<1> HIDE DEF c
<1>5. /\ scrolled' + pendingScroll' + c <= toldWheel /\ posted' + c <= toldWheel
      /\ tracking'.at = "read" => tracking'.steps <= pendingScroll'
  <2>1. CASE UNCHANGED scrollVars
    BY <1>2, <2>1 DEF scrollVars
  <2>2. CASE GNEFilter
    BY <1>2, <1>3, <1>4, <2>2 DEF GNEFilter
  <2>3. CASE TrackControl
    BY <1>2, <1>3, <2>3 DEF TrackControl
  <2>4. CASE TrackControlMove
    BY <1>2, <1>3, <1>4, <2>4 DEF TrackControlMove, ScrollTaken
  <2> QED
    BY <2>1, <2>2, <2>3, <2>4
<1>6. Cardinality(Wheels(Coming')) = c
  BY DEF c
<1> QED
  BY <1>5, <1>6, Zenon DEF Scrolled

-----------------------------------------------------------------------------
(* Every action keeps the invariant. *)
LEMMA PartsMove ==
  ASSUME Invariant, Next
  PROVE  IInv'
<1>1. Buffers /\ Told /\ Scrolled
  BY DEF Invariant, IInv
<1>2. CASE Queue
  <2>1. Back' = Back /\ Buffers'
    BY <1>2, QueueMoves
  <2>2. UNCHANGED <<lpage, step, packet, told, toldPos, toldWheel, buttonVars, scrollVars>>
    BY <1>2 DEF Queue, deviceVars
  <2>3. Told' /\ Coming' = Coming
    BY <1>1, <2>1, <2>2, ComingKept
  <2>4. Scrolled'
    BY <2>2, <2>3, ScrolledKept
  <2> QED
    BY <2>1, <2>3, <2>4 DEF IInv
<1>3. CASE QPoll
  <2>1. Back' = Back /\ Buffers'
    BY <1>3, QPollMoves
  <2>2. UNCHANGED <<lpage, step, packet, told, toldPos, toldWheel, buttonVars, scrollVars>>
    BY <1>3 DEF QPoll, deviceVars
  <2>3. Told' /\ Coming' = Coming
    BY <1>1, <2>1, <2>2, ComingKept
  <2>4. Scrolled'
    BY <2>2, <2>3, ScrolledKept
  <2> QED
    BY <2>1, <2>3, <2>4 DEF IInv
<1>4. CASE DNotified
  <2>1. Back' = Back /\ Buffers'
    BY <1>4, DNotifiedMoves
  <2>2. /\ UNCHANGED <<lpage, packet, told, toldPos, toldWheel, buttonVars, scrollVars>>
        /\ Past' = Past
    BY <1>4 DEF DNotified, deviceVars, Past
  <2>3. Coming' = Coming
    BY <2>1, <2>2, Zenon DEF Coming
  <2>4. Told'
    BY <1>1, <2>2, <2>3, ToldKept
  <2>5. Scrolled'
    BY <2>2, <2>3, ScrolledKept
  <2> QED
    BY <2>1, <2>4, <2>5 DEF IInv
<1>5. CASE HandleEvent
  BY <1>5, HandleEventMoves, ToldHandled, ScrolledHandled DEF IInv
<1>6. CASE ReQueue
  <2>1. Coming' = Coming /\ Buffers'
    BY <1>6, ReQueueMoves
  <2>2. UNCHANGED <<told, toldPos, toldWheel, buttonVars, scrollVars>>
    BY <1>6 DEF ReQueue, deviceVars
  <2>3. Told'
    BY <1>1, <2>1, <2>2, ToldKept
  <2>4. Scrolled'
    BY <2>1, <2>2, ScrolledKept
  <2> QED
    BY <2>1, <2>3, <2>4 DEF IInv
<1>7. CASE GNEFilter \/ TrackControl \/ TrackControlMove
  <2>1. UNCHANGED <<lpage, loopVars, packet, told, toldPos, toldWheel, buttonVars, avail, used>>
    BY <1>7 DEF GNEFilter, TrackControl, TrackControlMove, deviceVars
  <2>2. Back' = Back /\ Buffers' /\ step' = step
    BY <1>1, <2>1 DEF Back, Held, Buffers, loopVars
  <2>3. Told' /\ Coming' = Coming
    BY <1>1, <2>1, <2>2, ComingKept
  <2>4. Scrolled'
    BY <1>7, <2>1, <2>3, ScrolledKept
  <2> QED
    BY <2>2, <2>3, <2>4 DEF IInv
<1>8. CASE DeviceWrite
  <2>1. Coming' = Coming /\ Buffers'
    BY <1>8, DeviceWriteMoves
  <2>2. UNCHANGED <<told, toldPos, toldWheel, buttonVars, scrollVars>>
    BY <1>8 DEF DeviceWrite
  <2>3. Told'
    BY <1>1, <2>1, <2>2, ToldKept
  <2>4. Scrolled'
    BY <2>1, <2>2, ScrolledKept
  <2> QED
    BY <2>1, <2>3, <2>4 DEF IInv
<1>9. ASSUME NEW changed \in SUBSET Buttons, NEW down \in SUBSET Buttons,
             NEW moves \in BOOLEAN, NEW wheel \in BOOLEAN, NEW pos \in Positions,
             DevicePacket(changed, down, moves, pos, wheel)
      PROVE  IInv'
  BY <1>9, DevicePacketJoins, ToldJoined DEF IInv
<1> QED
  BY <1>2, <1>3, <1>4, <1>5, <1>6, <1>7, <1>8, <1>9, Zenon DEF Next, BottomHalf, MainLine, Device

LEMMA Bounded ==
  ASSUME NEW a \in Seq(Bufs), NEW h \in Seq(Bufs), NEW c \in Seq(Bufs), NEW u \in Seq(Bufs),
         NEW k \in 0 .. NBuf, Whole(a, (h \o c) \o u, k)
  PROVE  Len(a) <= NBuf /\ Len(c) <= NBuf /\ Len(u) <= NBuf
<1>1. /\ (h \o c) \in Seq(Bufs) /\ Len(h \o c) = Len(h) + Len(c)
      /\ Len((h \o c) \o u) = Len(h \o c) + Len(u)
  BY Concatenated
<1>2. Len(a) + Len((h \o c) \o u) = k
  BY DEF Whole
<1>3. Len(a) \in Nat /\ Len(h) \in Nat /\ Len(c) \in Nat /\ Len(u) \in Nat /\ NBuf \in Nat
  BY InputAssumption
<1> QED
  BY <1>1, <1>2, <1>3

LEMMA TypesKept ==
  ASSUME Invariant, Next, IInv'
  PROVE  TypeOK'
<1> USE InputAssumption
<1>1. /\ lpage \in [Bufs -> Event] /\ queuing \in 0 .. NBuf
      /\ x \in Positions /\ cursor \in Positions /\ toldPos \in Positions
      /\ knowmask \subseteq Buttons /\ newbtn \subseteq Buttons /\ oldbtn \subseteq Buttons
      /\ told \subseteq Buttons
      /\ tag \in Bufs /\ step \in {"idle", "handle", "requeue"}
      /\ claimed \in Seq(Bufs) /\ avail \in Seq(Bufs) /\ used \in Seq(Bufs)
      /\ pendingScroll \in 0 .. MaxWheel /\ posted \in 0 .. MaxWheel /\ scrolled \in 0 .. MaxWheel
      /\ tracking \in [at : {"idle", "read"}, steps : 0 .. MaxWheel]
      /\ mouse \in {"up", "down"} /\ packet \in Seq(Event) /\ toldWheel \in 0 .. MaxWheel
  BY DEF Invariant, TypeOK
<1>2. knowpos \in BOOLEAN /\ curScroller \in BOOLEAN
  BY Zenon DEF Invariant, TypeOK
<1>3. NBuf \in Nat \ {0} /\ MaxWheel \in Nat /\ Bufs \subseteq Nat /\ \A k \in 0 .. NBuf - 1 : k \in Bufs
  BY DEF Bufs
<1>4. Len(packet) <= Len(avail)
  BY DEF Invariant, IInv, Buffers
<1> HIDE InputAssumption
<1>5. /\ avail' \in Seq(Bufs) /\ claimed' \in Seq(Bufs) /\ used' \in Seq(Bufs) /\ packet' \in Seq(Event)
      /\ tag' \in Bufs /\ step' \in {"idle", "handle", "requeue"} /\ queuing' \in 0 .. NBuf
      /\ lpage' \in [Bufs -> Event]
  <2>1. CASE Queue
    <3>1. queuing \in Bufs /\ queuing + 1 \in 0 .. NBuf
      BY <1>1, <1>3, <2>1 DEF Queue
    <3> QED
      BY <1>1, <2>1, <3>1 DEF Queue, deviceVars
  <2>2. CASE QPoll
    BY <1>1, <2>2 DEF QPoll, deviceVars
  <2>3. CASE DNotified
    BY <1>1, <2>3 DEF DNotified, LentLater, deviceVars
  <2>4. CASE HandleEvent
    BY <1>1, <2>4 DEF HandleEvent, deviceVars
  <2>5. CASE ReQueue
    <3>1. 0 \in Bufs
      BY <1>3
    <3> QED
      BY <1>1, <2>5, <3>1 DEF ReQueue, deviceVars
  <2>6. CASE GNEFilter \/ TrackControl \/ TrackControlMove
    BY <1>1, <2>6 DEF GNEFilter, TrackControl, TrackControlMove, loopVars, deviceVars
  <2>7. CASE DeviceWrite
    <3>1. packet # <<>> /\ packet \in Seq(Event)
      BY <1>1, <2>7 DEF DeviceWrite
    <3>2. Len(packet) \in Nat /\ Len(packet) > 0 /\ Head(packet) \in Event /\ Tail(packet) \in Seq(Event)
      BY <3>1, EmptySeq
    <3>3. Len(avail) \in Nat
      BY <1>1
    <3>4. Len(avail) > 0
      BY <1>4, <3>2, <3>3
    <3>5. Head(avail) \in Bufs /\ Tail(avail) \in Seq(Bufs)
      BY <1>1, <3>4
    <3> QED
      BY <1>1, <2>7, <3>2, <3>5 DEF DeviceWrite, loopVars
  <2>8. ASSUME NEW changed \in SUBSET Buttons, NEW down \in SUBSET Buttons,
               NEW moves \in BOOLEAN, NEW wheel \in BOOLEAN, NEW pos \in Positions,
               DevicePacket(changed, down, moves, pos, wheel)
        PROVE  /\ UNCHANGED <<lpage, loopVars, avail, used>> /\ packet' \in Seq(Event)
    <3>1. packet' \in Seq(Event)
      BY <2>8, DevicePacketJoins
    <3> QED
      BY <2>8, <3>1, Zenon DEF DevicePacket
  <2>9. CASE Device /\ ~DeviceWrite
    <3>1. UNCHANGED <<lpage, loopVars, avail, used>> /\ packet' \in Seq(Event)
      BY <2>8, <2>9, Zenon DEF Device
    <3> QED
      BY <1>1, <3>1 DEF loopVars
  <2> QED
    BY <2>1, <2>2, <2>3, <2>4, <2>5, <2>6, <2>7, <2>9, Zenon DEF Next, BottomHalf, MainLine, Device
<1>6. Len(avail') <= NBuf /\ Len(claimed') <= NBuf /\ Len(used') <= NBuf
  <2> DEFINE h == Held'
  <2>1. h \in Seq(Bufs)
    BY <1>5 DEF Held
  <2>2. Whole(avail', (h \o claimed') \o used', queuing')
    BY Zenon DEF IInv, Buffers, Back
  <2> HIDE DEF h
  <2> QED
    BY <1>5, <2>1, <2>2, Bounded
<1>7. /\ x' \in Positions /\ cursor' \in Positions /\ toldPos' \in Positions
      /\ knowmask' \subseteq Buttons /\ newbtn' \subseteq Buttons /\ oldbtn' \subseteq Buttons
      /\ told' \subseteq Buttons /\ mouse' \in {"up", "down"} /\ toldWheel' \in 0 .. MaxWheel
      /\ knowpos' \in BOOLEAN
  <2>1. CASE HandleEvent
    <3> DEFINE e == lpage[tag]
    <3>1. e \in Event
      BY <1>1
    <3>2. UNCHANGED <<told, toldPos, toldWheel>>
      BY <2>1 DEF HandleEvent, deviceVars
    <3> HIDE DEF e
    <3>3. CASE HandleAbs(e)
      <4>1. e.pos \in Positions
        BY <3>1, <3>3 DEF HandleAbs, Event
      <4> QED
        BY <1>1, <3>2, <3>3, <4>1 DEF HandleAbs
    <3>4. CASE HandleKey(e)
      <4>1. e.button \in Buttons
        BY <3>1, <3>4 DEF HandleKey, Event
      <4>2. knowpos' \in BOOLEAN
        BY <1>2, <3>4, Zenon DEF HandleKey
      <4> QED
        BY <1>1, <3>2, <3>4, <4>1, <4>2 DEF HandleKey
    <3>5. CASE HandleWheel(e)
      <4>1. knowpos' \in BOOLEAN
        BY <1>2, <3>5, Zenon DEF HandleWheel, buttonVars
      <4> QED
        BY <1>1, <3>2, <3>5, <4>1 DEF HandleWheel, buttonVars
    <3>6. CASE HandleSyn(e)
      <4>1. MergedButtons \subseteq Buttons
        BY <1>1 DEF MergedButtons
      <4>2. /\ cursor' = IF knowpos THEN x ELSE cursor
            /\ mouse' = IF (oldbtn # {}) = (MergedButtons # {}) THEN mouse
                        ELSE IF MergedButtons # {} THEN "down" ELSE "up"
            /\ oldbtn' = MergedButtons /\ knowmask' = {} /\ newbtn' = {} /\ x' = x /\ knowpos' = FALSE
        BY <3>6 DEF HandleSyn, MaskCleared
      <4>3. cursor' \in Positions /\ mouse' \in {"up", "down"}
        BY <1>1, <4>2
      <4> QED
        BY <1>1, <3>2, <4>1, <4>2, <4>3
    <3> QED
      BY <2>1, <3>3, <3>4, <3>5, <3>6 DEF HandleEvent, e
  <2>2. CASE UNCHANGED <<buttonVars, told, toldPos, toldWheel>>
    <3>1. knowpos' \in BOOLEAN
      BY <1>2, <2>2, Zenon DEF buttonVars
    <3> QED
      BY <1>1, <2>2, <3>1 DEF buttonVars
  <2>3. CASE QPoll \/ DNotified \/ ReQueue \/ MainLine \/ DeviceWrite
    <3>1. UNCHANGED <<buttonVars, told, toldPos, toldWheel>>
      BY <2>3 DEF QPoll, DNotified, ReQueue, MainLine, Queue, GNEFilter, TrackControl,
                  TrackControlMove, DeviceWrite, deviceVars
    <3> QED
      BY <2>2, <3>1
  <2>4. ASSUME NEW changed \in SUBSET Buttons, NEW down \in SUBSET Buttons,
               NEW moves \in BOOLEAN, NEW wheel \in BOOLEAN, NEW pos \in Positions,
               DevicePacket(changed, down, moves, pos, wheel)
        PROVE  /\ x' \in Positions /\ cursor' \in Positions /\ toldPos' \in Positions
               /\ knowmask' \subseteq Buttons /\ newbtn' \subseteq Buttons /\ oldbtn' \subseteq Buttons
               /\ told' \subseteq Buttons /\ mouse' \in {"up", "down"} /\ toldWheel' \in 0 .. MaxWheel
               /\ knowpos' \in BOOLEAN
    <3>1. /\ told' = (told \ changed) \union (changed \intersect down)
          /\ toldPos' = IF moves THEN pos ELSE toldPos
          /\ toldWheel' = IF wheel THEN toldWheel + 1 ELSE toldWheel
          /\ toldWheel' <= MaxWheel /\ UNCHANGED buttonVars
      BY <2>4, Zenon DEF DevicePacket
    <3>2. knowpos' \in BOOLEAN
      BY <1>2, <3>1, Zenon DEF buttonVars
    <3>3. toldWheel' \in 0 .. MaxWheel
      BY <1>1, <1>3, <3>1
    <3> QED
      BY <1>1, <3>1, <3>2, <3>3 DEF buttonVars
  <2> QED
    BY <2>1, <2>3, <2>4, Zenon DEF Next, BottomHalf, Device
<1>8. /\ pendingScroll' \in Nat /\ posted' \in Nat /\ scrolled' \in Nat
      /\ tracking' \in [at : {"idle", "read"}, steps : 0 .. MaxWheel]
      /\ curScroller' \in BOOLEAN
  <2>1. CASE HandleEvent
    <3>1. curScroller' \in BOOLEAN
      BY <1>2, <2>1, Zenon DEF HandleEvent, HandleAbs, HandleKey, HandleWheel, HandleSyn, scrollVars
    <3> QED
      BY <1>1, <1>3, <2>1, <3>1 DEF HandleEvent, HandleAbs, HandleKey, HandleWheel, HandleSyn, scrollVars
  <2>2. CASE QPoll \/ DNotified \/ ReQueue \/ Queue \/ Device
    <3>1. UNCHANGED scrollVars
      <4>1. ASSUME NEW changed, NEW down, NEW moves, NEW pos, NEW wheel,
                   DevicePacket(changed, down, moves, pos, wheel)
            PROVE  UNCHANGED scrollVars
        BY <4>1, Zenon DEF DevicePacket
      <4>2. CASE Device
        BY <4>1, <4>2, Zenon DEF Device, DeviceWrite
      <4> QED
        BY <2>2, <4>2, Zenon DEF QPoll, DNotified, ReQueue, Queue
    <3>2. curScroller' \in BOOLEAN
      BY <1>2, <3>1, Zenon DEF scrollVars
    <3> QED
      BY <1>1, <3>1, <3>2 DEF scrollVars
  <2>3. CASE GNEFilter
    <3>1. curScroller' \in BOOLEAN
      BY <2>3, Zenon DEF GNEFilter
    <3> QED
      BY <1>1, <2>3, <3>1 DEF GNEFilter
  <2>4. CASE TrackControl
    <3>1. curScroller' \in BOOLEAN
      BY <1>2, <2>4, Zenon DEF TrackControl
    <3> QED
      BY <1>1, <2>4, <3>1 DEF TrackControl
  <2>5. CASE TrackControlMove
    <3>1. curScroller' \in BOOLEAN
      BY <2>5, Zenon DEF TrackControlMove
    <3>2. 0 \in 0 .. MaxWheel /\ tracking.steps \in Nat
      BY <1>1, <1>3
    <3> QED
      BY <1>1, <2>5, <3>1, <3>2 DEF TrackControlMove, ScrollTaken
  <2> QED
    BY <2>1, <2>2, <2>3, <2>4, <2>5, Zenon DEF Next, BottomHalf, MainLine
<1>9. pendingScroll' \in 0 .. MaxWheel /\ posted' \in 0 .. MaxWheel /\ scrolled' \in 0 .. MaxWheel
  <2> DEFINE c == Cardinality(Wheels(Coming'))
             new == Coming'
  <2>1. scrolled' + pendingScroll' + c <= toldWheel' /\ posted' + c <= toldWheel'
    BY Zenon DEF IInv, Scrolled
  <2>2. new \in Seq(Event)
    <3>1. CASE HandleEvent
      BY <3>1, HandleEventMoves DEF IsRest
    <3>2. CASE ReQueue \/ DeviceWrite
      <4>1. new = Coming
        BY <3>2, ReQueueMoves, DeviceWriteMoves
      <4>2. Coming \in Seq(Event)
        BY Types DEF Invariant
      <4> QED
        BY <4>1, <4>2
    <3>3. ASSUME NEW changed \in SUBSET Buttons, NEW down \in SUBSET Buttons,
                 NEW moves \in BOOLEAN, NEW wheel \in BOOLEAN, NEW pos \in Positions,
                 DevicePacket(changed, down, moves, pos, wheel)
          PROVE  new \in Seq(Event)
      BY <3>3, DevicePacketJoins DEF Followed
    <3>4. CASE QPoll \/ DNotified \/ MainLine
      <4>1. Back' = Back
        <5>1. CASE GNEFilter \/ TrackControl \/ TrackControlMove
          BY <5>1 DEF GNEFilter, TrackControl, TrackControlMove, loopVars, Back, Held
        <5> QED
          BY <3>4, <5>1, QPollMoves, DNotifiedMoves, QueueMoves DEF MainLine
      <4>2. /\ lpage' = lpage /\ packet' = packet /\ Past' = Past
        BY <3>4 DEF QPoll, DNotified, MainLine, Queue, GNEFilter, TrackControl, TrackControlMove,
                    loopVars, deviceVars, Past
      <4>3. new = Coming
        BY <4>1, <4>2, Zenon DEF Coming
      <4>4. Coming \in Seq(Event)
        BY Types DEF Invariant
      <4> QED
        BY <4>3, <4>4
    <3> QED
      BY <3>1, <3>2, <3>3, <3>4, Zenon DEF Next, BottomHalf, Device
  <2>3. c \in Nat
    BY <2>2, WheelsFinite
  <2> HIDE DEF c
  <2>4. /\ MaxWheel \in Nat /\ toldWheel' \in 0 .. MaxWheel
        /\ pendingScroll' \in Nat /\ posted' \in Nat /\ scrolled' \in Nat
    BY <1>3, <1>7, <1>8
  <2>5. ASSUME NEW a \in Nat, NEW b \in Nat, NEW d \in Nat, NEW w \in 0 .. MaxWheel, NEW n \in Nat,
               (a + b) + n <= w, d + n <= w
        PROVE  a \in 0 .. MaxWheel /\ b \in 0 .. MaxWheel /\ d \in 0 .. MaxWheel
    BY <1>3, <2>5
  <2> QED
    BY <2>1, <2>3, <2>4, <2>5
<1>10. /\ \A s \in {claimed', avail', used'} : s \in Seq(Bufs) /\ Len(s) <= NBuf
       /\ \A s \in {knowmask', newbtn', oldbtn', told'} : s \subseteq Buttons
  BY <1>5, <1>6, <1>7
<1> QED
  BY <1>5, <1>7, <1>8, <1>9, <1>10, Zenon DEF TypeOK

LEMMA StepInvariant == Invariant /\ [Next]_vars => Invariant'
<1> SUFFICES ASSUME Invariant, [Next]_vars PROVE Invariant'
  OBVIOUS
<1>1. CASE Next
  BY <1>1, PartsMove, TypesKept DEF Invariant
<1>2. CASE UNCHANGED vars
  <2>1. TypeOK' /\ Buffers' /\ Told' /\ Scrolled'
    <3>1. /\ Back' = Back /\ Coming' = Coming /\ Here' = Here
      BY <1>2 DEF vars, loopVars, buttonVars, deviceVars, Back, Held, Coming, Past, Here
    <3>2. TypeOK'
      BY <1>2, Zenon DEF Invariant, TypeOK, vars, loopVars, buttonVars, deviceVars, scrollVars
    <3> QED
      BY <1>2, <3>1, <3>2 DEF Invariant, IInv, Buffers, Told, Scrolled,
                              vars, loopVars, buttonVars, deviceVars, scrollVars
  <2> QED
    BY <2>1 DEF Invariant, IInv
<1> QED
  BY <1>1, <1>2

-----------------------------------------------------------------------------
LEMMA ToSetJoined ==
  ASSUME NEW r \in Seq(Bufs), NEW s \in Seq(Bufs)
  PROVE  ToSet(r \o s) = ToSet(r) \union ToSet(s)
<1> DEFINE t == r \o s
           k == Len(r)
           l == Len(s)
<1>1. /\ k \in Nat /\ l \in Nat /\ Len(t) = k + l /\ t \in Seq(Bufs)
      /\ \A n \in 1 .. k : t[n] = r[n]
      /\ \A n \in 1 .. l : t[k + n] = s[n]
  OBVIOUS
<1>2. DOMAIN t = 1 .. k + l /\ DOMAIN r = 1 .. k /\ DOMAIN s = 1 .. l
  BY <1>1
<1> HIDE DEF t, k, l
<1>3. ASSUME NEW n \in 1 .. k + l PROVE t[n] \in ToSet(r) \union ToSet(s)
  <2>1. CASE n \in 1 .. k
    BY <1>1, <1>2, <2>1 DEF ToSet
  <2>2. CASE n \notin 1 .. k
    <3>1. n - k \in 1 .. l /\ k + (n - k) = n
      BY <1>1, <2>2
    <3>2. t[n] = s[n - k]
      BY <1>1, <3>1
    <3> QED
      BY <1>2, <3>1, <3>2 DEF ToSet
  <2> QED
    BY <2>1, <2>2
<1>4. ASSUME NEW n \in 1 .. k PROVE r[n] \in ToSet(t)
  <2>1. n \in 1 .. k + l
    BY <1>1
  <2> QED
    BY <1>1, <1>2, <2>1 DEF ToSet
<1>5. ASSUME NEW n \in 1 .. l PROVE s[n] \in ToSet(t)
  <2>1. k + n \in 1 .. k + l
    BY <1>1
  <2> QED
    BY <1>1, <1>2, <2>1 DEF ToSet
<1>6. ToSet(t) \subseteq ToSet(r) \union ToSet(s)
  BY <1>2, <1>3 DEF ToSet
<1>7. ToSet(r) \subseteq ToSet(t) /\ ToSet(s) \subseteq ToSet(t)
  BY <1>2, <1>4, <1>5 DEF ToSet
<1>8. ToSet(t) = ToSet(r) \union ToSet(s)
  BY <1>6, <1>7
<1> QED
  BY <1>8 DEF t

LEMMA AllKept ==
  ASSUME NEW a \in Seq(Bufs), NEW h \in Seq(Bufs), NEW c \in Seq(Bufs), NEW u \in Seq(Bufs),
         NEW k \in 0 .. NBuf, Whole(a, (h \o c) \o u, k)
  PROVE  /\ Len(((a \o u) \o c) \o h) = k
         /\ ToSet(((a \o u) \o c) \o h) = 0 .. k - 1
<1> DEFINE back == (h \o c) \o u
           all == ((a \o u) \o c) \o h
<1>1. /\ (h \o c) \in Seq(Bufs) /\ Len(h \o c) = Len(h) + Len(c)
      /\ back \in Seq(Bufs) /\ Len(back) = Len(h \o c) + Len(u)
      /\ (a \o u) \in Seq(Bufs) /\ Len(a \o u) = Len(a) + Len(u)
      /\ ((a \o u) \o c) \in Seq(Bufs) /\ Len((a \o u) \o c) = Len(a \o u) + Len(c)
      /\ all \in Seq(Bufs) /\ Len(all) = Len((a \o u) \o c) + Len(h)
  BY Concatenated
<1>2. /\ Len(a) + Len(back) = k
      /\ \A n \in 1 .. Len(a) : a[n] \in 0 .. k - 1
      /\ \A n \in 1 .. Len(back) : back[n] \in 0 .. k - 1
      /\ \A b \in 0 .. k - 1 : \/ \E n \in 1 .. Len(a) : a[n] = b
                               \/ \E n \in 1 .. Len(back) : back[n] = b
  BY DEF Whole
<1>3. Len(a) \in Nat /\ Len(h) \in Nat /\ Len(c) \in Nat /\ Len(u) \in Nat
  OBVIOUS
<1>4. Len(all) = k
  BY <1>1, <1>2, <1>3
<1>5. /\ ToSet(h \o c) = ToSet(h) \union ToSet(c)
      /\ ToSet(back) = ToSet(h \o c) \union ToSet(u)
      /\ ToSet(a \o u) = ToSet(a) \union ToSet(u)
      /\ ToSet((a \o u) \o c) = ToSet(a \o u) \union ToSet(c)
      /\ ToSet(all) = ToSet((a \o u) \o c) \union ToSet(h)
  BY <1>1, ToSetJoined
<1>6. DOMAIN a = 1 .. Len(a) /\ DOMAIN back = 1 .. Len(back)
  BY <1>1
<1> HIDE DEF back, all
<1>7. ToSet(a) \union ToSet(back) = 0 .. k - 1
  <2>1. \A b \in ToSet(a) \union ToSet(back) : b \in 0 .. k - 1
    BY <1>2, <1>6 DEF ToSet
  <2>2. \A b \in 0 .. k - 1 : b \in ToSet(a) \union ToSet(back)
    BY <1>2, <1>6 DEF ToSet
  <2> QED
    BY <2>1, <2>2
<1>8. ToSet(all) = ToSet(a) \union ToSet(back)
  BY <1>5
<1> QED
  BY <1>4, <1>7, <1>8 DEF all

LEMMA InvariantImplies == Invariant => BuffersAccounted /\ ClicksFollowPackets /\ ScrollsOnce
<1> SUFFICES ASSUME Invariant PROVE BuffersAccounted /\ ClicksFollowPackets /\ ScrollsOnce
  OBVIOUS
<1>1. TypeOK /\ Buffers /\ Told /\ Scrolled
  BY DEF Invariant, IInv
<1>2. /\ Held \in Seq(Bufs) /\ Back \in Seq(Bufs) /\ avail \in Seq(Bufs)
      /\ claimed \in Seq(Bufs) /\ used \in Seq(Bufs)
      /\ Past \in {0, 1} /\ (step # "requeue" => Past = 0) /\ Coming \in Seq(Event)
      /\ Len(Coming) = (Len(Back) - Past) + Len(packet)
  BY <1>1, Types
<1>3. BuffersKept
  <2>1. queuing \in 0 .. NBuf
    BY <1>1 DEF TypeOK
  <2>2. Whole(avail, (Held \o claimed) \o used, queuing)
    BY <1>1 DEF Buffers, Back
  <2>3. /\ Len(((avail \o used) \o claimed) \o Held) = queuing
        /\ ToSet(((avail \o used) \o claimed) \o Held) = 0 .. queuing - 1
    BY <1>2, <2>1, <2>2, AllKept
  <2> QED
    BY <2>3, Zenon DEF BuffersKept, Held
<1>4. ClicksFollowPackets
  <2> SUFFICES ASSUME packet = <<>>, used = <<>>, step = "idle", claimed = <<>>
               PROVE  oldbtn = told /\ mouse = (IF told = {} THEN "up" ELSE "down") /\ cursor = toldPos
    BY DEF ClicksFollowPackets, BottomHalfIdle
  <2>1. Back = <<>>
    BY DEF Back, Held
  <2>2. Len(Coming) = 0
    BY <1>2, <2>1
  <2>3. knowmask = {} /\ knowpos # TRUE
    <3>1. ~(Len(Coming) > 0)
      BY <2>2
    <3> QED
      BY <1>1, <3>1, Zenon DEF Told
  <2>4. Says(Coming, knowmask, newbtn, oldbtn, told) /\ Points(Coming, Here, toldPos)
    BY <1>1 DEF Told
  <2>5. \A b \in Buttons : b \in told <=> b \in oldbtn
    BY <2>2, <2>3, <2>4 DEF Says
  <2>6. oldbtn \subseteq Buttons /\ told \subseteq Buttons
    BY <1>1 DEF TypeOK
  <2>7. oldbtn = told
    BY <2>5, <2>6
  <2>8. toldPos = Here
    BY <2>2, <2>4 DEF Points
  <2>9. Here = cursor
    BY <2>3, Zenon DEF Here
  <2> QED
    BY <1>1, <2>7, <2>8, <2>9 DEF Told
<1>5. ScrollsOnce
  <2>1. Cardinality(Wheels(Coming)) \in Nat
    BY <1>2, WheelsFinite
  <2>2. scrolled \in Nat /\ pendingScroll \in Nat /\ toldWheel \in Nat
    BY <1>1, InputAssumption DEF TypeOK
  <2>3. scrolled + pendingScroll + Cardinality(Wheels(Coming)) <= toldWheel
    BY <1>1 DEF Scrolled
  <2> QED
    BY <2>1, <2>2, <2>3 DEF ScrollsOnce
<1> QED
  BY <1>1, <1>3, <1>4, <1>5 DEF BuffersAccounted

LEMMA InvariantAlways == Spec => []Invariant
BY InitInvariant, StepInvariant, PTL DEF Spec

(* Every event buffer is in one place, as often as the bottom half          *)
(* interrupts initialize's loop: with the device, returned, claimed, or in  *)
(* DNotified's hands.                                                       *)
THEOREM BuffersAlwaysAccounted == Spec => []BuffersAccounted
<1>1. Invariant => BuffersAccounted
  BY InvariantImplies
<1> QED
  BY <1>1, InvariantAlways, PTL

(* When all that the device sent is handled, handleEvent has come to the    *)
(* buttons, the click and the position that the packets amount to.          *)
THEOREM ClicksAlwaysFollow == Spec => []ClicksFollowPackets
<1>1. Invariant => ClicksFollowPackets
  BY InvariantImplies
<1> QED
  BY <1>1, InvariantAlways, PTL

(* The steps by which scroll bars have moved and those still pending are    *)
(* never more than the device has sent.                                     *)
THEOREM ScrollsNeverTwice == Spec => []ScrollsOnce
<1>1. Invariant => ScrollsOnce
  BY InvariantImplies
<1> QED
  BY <1>1, InvariantAlways, PTL
=============================================================================
