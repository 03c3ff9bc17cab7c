--------------------------- MODULE GpuModesProofs ---------------------------
(***************************************************************************)
(* Theorems about GpuModes for every set of window sizes, of programs, of  *)
(* gamma tables, colours, colour table entries and cursors.                *)
(***************************************************************************)
EXTENDS GpuModes, SequenceTheorems, WellFoundedInduction, TLAPS

-----------------------------------------------------------------------------
(* The notification: the flag says what is queued, and nothing is queued    *)
(* between the two halves of lateBootHook's DConfigChange.                  *)
NoteInv ==
  /\ hook \in {"to come", "installing", "done"}
  /\ pending \in BOOLEAN
  /\ installed = IF pending = TRUE THEN 1 ELSE 0
  /\ hook = "installing" => pending = FALSE

LEMMA NoteInit == Init => NoteInv
<1> SUFFICES ASSUME Init PROVE NoteInv
  OBVIOUS
<1>1. installed = 0 /\ pending = FALSE /\ hook = "to come"
  BY Zenon DEF Init
<1> QED
  BY <1>1 DEF NoteInv

LEMMA NoteStep == ASSUME HookTorn = FALSE PROVE NoteInv /\ [Next]_vars => NoteInv'
<1> SUFFICES ASSUME NoteInv, [Next]_vars PROVE NoteInv'
  OBVIOUS
<1> DEFINE kept == UNCHANGED <<installed, pending, hook>>
<1>1. CASE DConfigChange
  <2>1. hook # "installing" /\ hook' = hook /\ pending' = TRUE
    BY <1>1, Zenon DEF DConfigChange, Post
  <2>2. installed' = IF pending THEN installed ELSE installed + 1
    BY <1>1, Zenon DEF DConfigChange, Post
  <2>3. 0 + 1 = 1
    OBVIOUS
  <2>4. installed' = 1
    BY <2>2, <2>3, Zenon DEF NoteInv
  <2> QED
    BY <2>1, <2>4, Zenon DEF NoteInv
<1>2. CASE LateBootHook
  <2>1. pending' = pending /\ installed' = installed
    BY <1>2, Zenon DEF LateBootHook
  <2>2. hook' = IF pending THEN "done" ELSE "installing"
    BY <1>2, Zenon DEF LateBootHook
  <2>3. CASE pending = TRUE
    BY <2>1, <2>2, <2>3, Zenon DEF NoteInv
  <2>4. CASE pending = FALSE
    BY <2>1, <2>2, <2>4, Zenon DEF NoteInv
  <2> QED
    BY <2>3, <2>4, Zenon DEF NoteInv
<1>3. CASE LateBootInstalls
  <2>1. hook = "installing" /\ hook' = "done" /\ pending' = TRUE /\ installed' = installed + 1
    BY <1>3, Zenon DEF LateBootInstalls
  <2> QED
    BY <2>1 DEF NoteInv
<1>4. CASE NotificationAtomic
  <2>1. installed > 0 /\ installed' = installed - 1 /\ pending' = FALSE /\ hook' = hook
    BY <1>4, Zenon DEF NotificationAtomic
  <2>2. installed = 1 \/ installed = 0
    BY Zenon DEF NoteInv
  <2>3. installed' = 0
    BY <2>1, <2>2, SMT
  <2> QED
    BY <2>1, <2>3, Zenon DEF NoteInv
<1>5. CASE kept
  BY <1>5 DEF NoteInv
<1>6. Next => DConfigChange \/ LateBootHook \/ LateBootInstalls \/ NotificationAtomic \/ kept
  BY DEF Next, HostResizes, ConfigTopHalf, GetBestSize, DMSetDisplayMode, SetMode, SwitchMode,
         SetEntries, SetGamma, GrayPage, SetHardwareCursor, DrawHardwareCursor,
         DrawHardwareCursorMoves, DirtyRectCallback, VBL, noteVars
<1>7. UNCHANGED vars => kept
  BY DEF vars, noteVars
<1> QED
  BY <1>1, <1>2, <1>3, <1>4, <1>5, <1>6, <1>7

LEMMA NotedOnce == NoteInv => PostedOnce
<1> SUFFICES ASSUME NoteInv PROVE PostedOnce
  OBVIOUS
<1>1. installed = 1 \/ installed = 0
  BY Zenon DEF NoteInv
<1>2. installed <= 1 /\ 0 # 1
  BY <1>1, SMT
<1>3. installed = 1 => pending
  BY <1>2, Zenon DEF NoteInv
<1>4. pending => installed = 1
  BY Zenon DEF NoteInv
<1> QED
  BY <1>2, <1>3, <1>4, Zenon DEF PostedOnce

(* Unless an interrupt falls into the DConfigChange that lateBootHook calls *)
(* itself, the one notification record is never queued twice, and           *)
(* pending_notification says whether it is queued.                          *)
THEOREM RecordPostedOnce == ASSUME HookTorn = FALSE PROVE Spec => []PostedOnce
<1>1. Init => NoteInv
  BY NoteInit
<1>2. NoteInv /\ [Next]_vars => NoteInv'
  BY NoteStep
<1>3. NoteInv => PostedOnce
  BY NotedOnce
<1> QED
  BY <1>1, <1>2, <1>3, PTL DEF Spec

-----------------------------------------------------------------------------
(* Recursion and induction by least counterexample.                         *)
Less == {pair \in Nat \X Nat : pair[1] < pair[2]}

LEMMA LeastExists ==
  ASSUME NEW S \in SUBSET Nat, S # {}
  PROVE  \E x \in S : \A y \in S : x <= y
<1>1. IsWellFoundedOn(Less, Nat)
  BY NatLessThanWellFounded DEF OpToRel, Less
<1>2. PICK x \in S : \A y \in S : ~(<<y, x>> \in Less)
  BY <1>1, WFMin, Zenon
<1>3. \A y \in S : ~(y < x)
  BY <1>2 DEF Less
<1> QED
  BY <1>3

LEMMA LeastIs ==
  ASSUME NEW S \in SUBSET Nat, S # {}
  PROVE  Min(S) \in S /\ \A y \in S : Min(S) <= y
<1>1. \E x \in S : \A y \in S : x <= y
  BY LeastExists
<1> QED
  BY <1>1 DEF Min

(* f starts with a and goes on by the steps, up to k. *)
Follows(f, S, a, step, k) ==
  /\ f \in [0 .. k -> S] /\ f[0] = a
  /\ \A n \in 1 .. k : f[n] = step[n][f[n - 1]]

LEMMA RecursionExists ==
  ASSUME NEW N \in Nat, NEW S, NEW a \in S, NEW step \in [1 .. N -> [S -> S]]
  PROVE  \E f : Follows(f, S, a, step, N)
<1> DEFINE bad == {k \in 0 .. N : ~\E f : Follows(f, S, a, step, k)}
<1> SUFFICES ASSUME bad # {} PROVE FALSE
  OBVIOUS
<1>1. PICK k \in bad : \A m \in bad : k <= m
  <2>1. bad \in SUBSET Nat
    OBVIOUS
  <2> HIDE DEF bad
  <2> QED
    BY <2>1, LeastExists
<1>2. k \in 0 .. N /\ ~\E f : Follows(f, S, a, step, k)
  OBVIOUS
<1>3. CASE k = 0
  <2>1. Follows([n \in 0 .. 0 |-> a], S, a, step, 0)
    BY DEF Follows
  <2> QED
    BY <1>2, <1>3, <2>1
<1>4. CASE k # 0
  <2>1. k - 1 \in 0 .. N /\ k - 1 \notin bad
    BY <1>1, <1>2, <1>4
  <2>2. PICK f : Follows(f, S, a, step, k - 1)
    BY <2>1
  <2> DEFINE g == [n \in 0 .. k |-> IF n = k THEN step[k][f[k - 1]] ELSE f[n]]
  <2>3. \A n \in 0 .. k - 1 : f[n] \in S
    BY <2>2 DEF Follows
  <2>4. step[k][f[k - 1]] \in S
    <3>1. k \in 1 .. N /\ k - 1 \in 0 .. k - 1
      BY <1>2, <1>4
    <3>2. f[k - 1] \in S
      BY <2>3, <3>1
    <3> QED
      BY <3>1, <3>2
  <2>5. g \in [0 .. k -> S]
    BY <1>2, <2>3, <2>4
  <2>6. g[0] = a
    BY <1>2, <1>4, <2>2 DEF Follows
  <2>7. \A n \in 1 .. k : g[n] = step[n][g[n - 1]]
    <3> TAKE n \in 1 .. k
    <3>1. g[n - 1] = f[n - 1]
      BY <1>2
    <3>2. CASE n = k
      BY <1>2, <1>4, <3>1, <3>2
    <3>3. CASE n # k
      BY <1>2, <2>2, <3>1, <3>3 DEF Follows
    <3> QED
      BY <3>2, <3>3
  <2> HIDE DEF g
  <2>8. Follows(g, S, a, step, k)
    BY <2>5, <2>6, <2>7 DEF Follows
  <2> QED
    BY <1>2, <2>8
<1> QED
  BY <1>3, <1>4

LEMMA StaysIn ==
  ASSUME NEW N \in Nat, NEW S, NEW f, f[0] \in S,
         \A n \in 1 .. N : f[n - 1] \in S => f[n] \in S
  PROVE  \A n \in 0 .. N : f[n] \in S
<1> DEFINE bad == {n \in 0 .. N : f[n] \notin S}
<1> SUFFICES ASSUME bad # {} PROVE FALSE
  OBVIOUS
<1>1. PICK n \in bad : \A m \in bad : n <= m
  <2>1. bad \in SUBSET Nat
    OBVIOUS
  <2> HIDE DEF bad
  <2> QED
    BY <2>1, LeastExists
<1>2. n \in 0 .. N /\ f[n] \notin S /\ n # 0
  OBVIOUS
<1>3. n - 1 \in 0 .. N /\ n - 1 \notin bad /\ n \in 1 .. N
  BY <1>1, <1>2
<1> QED
  BY <1>2, <1>3

-----------------------------------------------------------------------------
(* The buffers: of 64 MB, or halved some times.                             *)
Halves == {8192, 16384, 32768, 65536, 131072, 262144, 524288, 1048576, 2097152, 4194304,
           8388608, 16777216, 33554432, 67108864}

Halved(x) == IF Ram # 0 /\ x > (Ram + 65536) \div 8 THEN x \div 2 ELSE x

LEMMA HalvedStays == ASSUME NEW x \in Halves PROVE Halved(x) \in Halves
<1> DEFINE q == (Ram + 65536) \div 8
<1>1. q \in Int /\ q >= 8192
  BY ModesAssumption DEF ModesAssumption
<1>2. CASE x = 8192
  <2> HIDE DEF q
  <2>1. ~(8192 > q)
    BY <1>1
  <2>2. ~(x > q)
    BY <1>2, <2>1
  <2> QED
    BY <2>2 DEF Halved, q
<1>3. CASE x # 8192
  <2>1. x \div 2 \in Halves
    BY <1>3 DEF Halves
  <2> QED
    BY <2>1 DEF Halved
<1> QED
  BY <1>2, <1>3

LEMMA BufferIs ==
  bufsize \in {2097152, 4194304, 8388608, 16777216, 33554432, 67108864}
<1> DEFINE step == [n \in 1 .. 13 |-> [x \in Halves |-> Halved(x)]]
           is(f) == f = [n \in 0 .. 13 |->
                           IF n = 0 THEN MAXBUF
                           ELSE IF Ram # 0 /\ f[n - 1] > (Ram + 65536) \div 8
                           THEN f[n - 1] \div 2 ELSE f[n - 1]]
           half == CHOOSE g : is(g)
<1>1. step \in [1 .. 13 -> [Halves -> Halves]]
  BY HalvedStays
<1>2. MAXBUF \in Halves
  BY DEF MAXBUF, Halves
<1>3. PICK f : Follows(f, Halves, MAXBUF, step, 13)
  <2>1. 13 \in Nat
    OBVIOUS
  <2> HIDE DEF step
  <2> QED
    BY <1>1, <1>2, <2>1, RecursionExists
<1>4. is(f)
  <2>1. ASSUME NEW n \in 0 .. 13
        PROVE  f[n] = IF n = 0 THEN MAXBUF
                      ELSE IF Ram # 0 /\ f[n - 1] > (Ram + 65536) \div 8
                      THEN f[n - 1] \div 2 ELSE f[n - 1]
    <3>1. CASE n = 0
      BY <1>3, <3>1 DEF Follows
    <3>2. CASE n # 0
      <4>1. n \in 1 .. 13 /\ n - 1 \in 0 .. 13
        BY <3>2
      <4>2. f[n - 1] \in Halves /\ f[n] = step[n][f[n - 1]]
        BY <1>3, <4>1 DEF Follows
      <4>3. f[n] = Halved(f[n - 1])
        BY <4>1, <4>2
      <4> QED
        BY <3>2, <4>3 DEF Halved
    <3> QED
      BY <3>1, <3>2
  <2>2. f = [n \in 0 .. 13 |-> f[n]]
    BY <1>3 DEF Follows
  <2> QED
    BY <2>1, <2>2
<1>5. is(half)
  <2> HIDE DEF is
  <2> QED
    BY <1>4
<1> HIDE DEF half
<1>6. half[0] = MAXBUF /\ \A n \in 1 .. 13 : half[n] = Halved(half[n - 1])
  BY <1>5 DEF Halved
<1>7. \A n \in 0 .. 13 : half[n] \in Halves
  <2>1. \A n \in 1 .. 13 : half[n - 1] \in Halves => half[n] \in Halves
    BY <1>6, HalvedStays
  <2> HIDE DEF is, step
  <2> QED
    BY <1>2, <1>6, <2>1, StaysIn
<1>8. bufsize = half[13]
  BY DEF bufsize, half
<1>9. bufsize \in Halves /\ bufsize >= 2097152
  BY <1>7, <1>8, EnoughRam DEF EnoughRam, MINBUF
<1> QED
  BY <1>9 DEF Halves

-----------------------------------------------------------------------------
(* The aspect ratio: whatever Cancelled takes out, it takes out of both.    *)
Sizes == [w : 1 .. 4096, h : 1 .. 4096]

Multiple(s, r, g) == s.w = g * r.w /\ s.h = g * r.h
Ratios(s) == {r \in Sizes : \E g \in Nat : Multiple(s, r, g)}

LEMMA SizesAre ==
  ASSUME NEW s \in Sizes
  PROVE  s.w \in 1 .. 4096 /\ s.h \in 1 .. 4096
BY DEF Sizes

LEMMA SizesNatural ==
  ASSUME NEW s \in Sizes
  PROVE  s.w \in Nat /\ s.h \in Nat
<1> DEFINE x == s.w
           y == s.h
<1>1. x \in 1 .. 4096 /\ y \in 1 .. 4096
  BY SizesAre
<1> HIDE DEF x, y
<1>2. x \in Nat /\ y \in Nat
  BY <1>1
<1> QED
  BY <1>2 DEF x, y

LEMMA DivisorIs ==
  ASSUME NEW x \in Nat, NEW i \in Nat, i > 0, x % i = 0
  PROVE  x \div i \in Nat /\ x = i * (x \div i)
OBVIOUS

IsTerm(x, i) == x \in 1 .. 4096 /\ x % i = 0
IsQuotient(x, i, q) == q \in 1 .. 4096 /\ x = i * q

LEMMA QuotientIs ==
  ASSUME NEW x, NEW i \in Nat \ {0}, IsTerm(x, i)
  PROVE  IsQuotient(x, i, x \div i)
<1> DEFINE q == x \div i
<1>1. x \in 1 .. 4096 /\ x % i = 0 /\ i \in Nat /\ i > 0
  BY DEF IsTerm
<1>2. q \in Nat /\ x = i * q
  BY <1>1, DivisorIs
<1> HIDE DEF q
<1>3. q >= 1
  <2>1. CASE q = 0
    BY <1>1, <1>2, <2>1
  <2> QED
    BY <1>2, <2>1
<1>4. q <= x
  BY <1>1, <1>2, <1>3
<1>5. q \in 1 .. 4096
  BY <1>1, <1>2, <1>3, <1>4
<1> QED
  BY <1>2, <1>5 DEF q, IsQuotient

LEMMA Associates ==
  ASSUME NEW g \in Nat, NEW k \in Nat, NEW x \in Nat
  PROVE  g * (k * x) = (g * k) * x /\ g * k \in Nat
OBVIOUS

LEMMA DividedStays ==
  ASSUME NEW s, NEW r \in Ratios(s), NEW i \in Nat, i > 0
  PROVE  Divided(r, i) \in Ratios(s)
<1>1. PICK g \in Nat : Multiple(s, r, g)
  BY DEF Ratios
<1>2. r \in Sizes
  BY DEF Ratios
<1>3. CASE r.w % i = 0 /\ r.h % i = 0
  <2> DEFINE x == r.w
             y == r.h
             a == x \div i
             b == y \div i
  <2>1. x \in 1 .. 4096 /\ y \in 1 .. 4096 /\ x % i = 0 /\ y % i = 0
    BY <1>2, <1>3, SizesAre
  <2>2. Divided(r, i) = [w |-> a, h |-> b]
    BY <1>3 DEF Divided, Size
  <2>3. s.w = g * x /\ s.h = g * y
    BY <1>1 DEF Multiple
  <2> HIDE DEF x, y
  <2>4. IsTerm(x, i) /\ IsTerm(y, i) /\ i \in Nat \ {0}
    BY <2>1 DEF IsTerm
  <2>5. a \in 1 .. 4096 /\ x = i * a /\ b \in 1 .. 4096 /\ y = i * b
    <3>1. IsQuotient(x, i, a) /\ IsQuotient(y, i, b)
      BY <2>4, QuotientIs
    <3> QED
      BY <3>1 DEF IsQuotient
  <2> HIDE DEF a, b
  <2>6. s.w = (g * i) * a /\ s.h = (g * i) * b /\ g * i \in Nat
    BY <2>3, <2>5, Associates
  <2>7. [w |-> a, h |-> b] \in Sizes /\ Multiple(s, [w |-> a, h |-> b], g * i)
    BY <2>5, <2>6 DEF Sizes, Multiple
  <2> QED
    BY <2>2, <2>6, <2>7 DEF Ratios
<1>4. CASE ~(r.w % i = 0 /\ r.h % i = 0)
  BY <1>4 DEF Divided
<1> QED
  BY <1>3, <1>4

LEMMA RatiosCompose ==
  ASSUME NEW s, NEW r \in Ratios(s), NEW p \in Ratios(r)
  PROVE  p \in Ratios(s)
<1>1. PICK g \in Nat : Multiple(s, r, g)
  BY DEF Ratios
<1>2. PICK k \in Nat : Multiple(r, p, k)
  BY DEF Ratios
<1>3. p.w \in Nat /\ p.h \in Nat /\ p \in Sizes
  BY SizesNatural DEF Ratios
<1>4. s.w = g * (k * p.w) /\ s.h = g * (k * p.h)
  BY <1>1, <1>2 DEF Multiple
<1>5. s.w = (g * k) * p.w /\ s.h = (g * k) * p.h /\ g * k \in Nat
  <2> DEFINE x == p.w
             y == p.h
  <2>1. x \in Nat /\ y \in Nat /\ s.w = g * (k * x) /\ s.h = g * (k * y)
    BY <1>3, <1>4
  <2> HIDE DEF x, y
  <2>2. s.w = (g * k) * x /\ s.h = (g * k) * y /\ g * k \in Nat
    BY <2>1, Associates
  <2> QED
    BY <2>2 DEF x, y
<1> QED
  BY <1>3, <1>5 DEF Ratios, Multiple

LEMMA OwnRatio == ASSUME NEW s \in Sizes PROVE s \in Ratios(s)
<1> DEFINE x == s.w
           y == s.h
<1>1. x \in Nat /\ y \in Nat
  BY SizesNatural
<1> HIDE DEF x, y
<1>2. x = 1 * x /\ y = 1 * y
  BY <1>1
<1>3. Multiple(s, s, 1)
  BY <1>2 DEF Multiple, x, y
<1> QED
  BY <1>3 DEF Ratios

LEMMA WithoutStays ==
  ASSUME NEW r \in Sizes, NEW i \in Nat, i > 0
  PROVE  Without(r, i) \in Ratios(r)
<1> DEFINE S == Ratios(r)
           step == [n \in 1 .. 12 |-> [x \in S |-> Divided(x, i)]]
           is(f) == f = [n \in 0 .. 12 |-> IF n = 0 THEN r ELSE Divided(f[n - 1], i)]
           out == CHOOSE g : is(g)
<1>1. step \in [1 .. 12 -> [S -> S]] /\ r \in S
  BY DividedStays, OwnRatio
<1>2. PICK f : Follows(f, S, r, step, 12)
  <2>1. 12 \in Nat
    OBVIOUS
  <2> HIDE DEF step, S
  <2> QED
    BY <1>1, <2>1, RecursionExists
<1>3. is(f)
  <2>1. ASSUME NEW n \in 0 .. 12
        PROVE  f[n] = IF n = 0 THEN r ELSE Divided(f[n - 1], i)
    <3>1. CASE n = 0
      BY <1>2, <3>1 DEF Follows
    <3>2. CASE n # 0
      <4>1. n \in 1 .. 12 /\ n - 1 \in 0 .. 12
        BY <3>2
      <4> HIDE DEF S
      <4>2. f[n - 1] \in S /\ f[n] = step[n][f[n - 1]]
        BY <1>2, <4>1 DEF Follows
      <4> QED
        BY <3>2, <4>1, <4>2
    <3> QED
      BY <3>1, <3>2
  <2>2. f = [n \in 0 .. 12 |-> f[n]]
    BY <1>2 DEF Follows
  <2> QED
    BY <2>1, <2>2
<1>4. is(out)
  <2> HIDE DEF is
  <2> QED
    BY <1>3
<1> HIDE DEF out, S
<1>5. out[0] = r /\ \A n \in 1 .. 12 : out[n] = Divided(out[n - 1], i)
  BY <1>4
<1>6. \A n \in 0 .. 12 : out[n] \in S
  <2>1. \A n \in 1 .. 12 : out[n - 1] \in S => out[n] \in S
    BY <1>5, DividedStays DEF S
  <2> HIDE DEF is, step
  <2> QED
    BY <1>1, <1>5, <2>1, StaysIn
<1>7. Without(r, i) = out[12]
  BY DEF Without, out
<1> QED
  BY <1>6, <1>7 DEF S

Common(r) == {i \in 2 .. Least(r.w, r.h) - 1 : r.w % i = 0 /\ r.h % i = 0}
CancelledOnce(r) == IF Common(r) = {} THEN r ELSE Without(r, Min(Common(r)))

LEMMA CancelledOnceStays ==
  ASSUME NEW s, NEW r \in Ratios(s)
  PROVE  CancelledOnce(r) \in Ratios(s)
<1>1. CASE Common(r) = {}
  BY <1>1 DEF CancelledOnce
<1>2. CASE Common(r) # {}
  <2>1. Common(r) \in SUBSET Nat /\ \A i \in Common(r) : i > 0
    BY DEF Common
  <2>2. Min(Common(r)) \in Nat /\ Min(Common(r)) > 0
    BY <1>2, <2>1, LeastIs
  <2>3. r \in Sizes
    BY DEF Ratios
  <2>4. Without(r, Min(Common(r))) \in Ratios(r)
    BY <2>2, <2>3, WithoutStays
  <2> QED
    BY <1>2, <2>4, RatiosCompose DEF CancelledOnce
<1> QED
  BY <1>1, <1>2

LEMMA CancelledIsRatio ==
  ASSUME NEW s \in Sizes
  PROVE  Cancelled(s) \in Ratios(s)
<1> DEFINE S == Ratios(s)
           step == [n \in 1 .. 12 |-> [x \in S |-> CancelledOnce(x)]]
           common(r) == {i \in 2 .. Least(r.w, r.h) - 1 : r.w % i = 0 /\ r.h % i = 0}
           is(f) == f = [n \in 0 .. 12 |->
                           IF n = 0 THEN s
                           ELSE IF common(f[n - 1]) = {} THEN f[n - 1]
                           ELSE Without(f[n - 1], Min(common(f[n - 1])))]
           out == CHOOSE g : is(g)
<1>1. step \in [1 .. 12 -> [S -> S]] /\ s \in S
  BY CancelledOnceStays, OwnRatio
<1>2. PICK f : Follows(f, S, s, step, 12)
  <2>1. 12 \in Nat
    OBVIOUS
  <2> HIDE DEF step, S
  <2> QED
    BY <1>1, <2>1, RecursionExists
<1>3. is(f)
  <2>1. ASSUME NEW n \in 0 .. 12
        PROVE  f[n] = IF n = 0 THEN s
                      ELSE IF common(f[n - 1]) = {} THEN f[n - 1]
                      ELSE Without(f[n - 1], Min(common(f[n - 1])))
    <3>1. CASE n = 0
      BY <1>2, <3>1 DEF Follows
    <3>2. CASE n # 0
      <4>1. n \in 1 .. 12 /\ n - 1 \in 0 .. 12
        BY <3>2
      <4> HIDE DEF S
      <4>2. f[n - 1] \in S /\ f[n] = step[n][f[n - 1]]
        BY <1>2, <4>1 DEF Follows
      <4>3. f[n] = CancelledOnce(f[n - 1])
        BY <4>1, <4>2
      <4> QED
        BY <3>2, <4>3 DEF CancelledOnce, Common
    <3> QED
      BY <3>1, <3>2
  <2>2. f = [n \in 0 .. 12 |-> f[n]]
    BY <1>2 DEF Follows
  <2> HIDE DEF common
  <2> QED
    BY <2>1, <2>2
<1>4. is(out)
  <2> HIDE DEF is
  <2> QED
    BY <1>3
<1> HIDE DEF out, S
<1>5. out[0] = s /\ \A n \in 1 .. 12 : out[n] = CancelledOnce(out[n - 1])
  <2>1. out[0] = s /\ \A n \in 1 .. 12 : out[n] = IF common(out[n - 1]) = {} THEN out[n - 1]
                                  ELSE Without(out[n - 1], Min(common(out[n - 1])))
    <3> HIDE DEF common
    <3> QED
      BY <1>4
  <2>2. \A x : common(x) = Common(x)
    BY DEF Common
  <2> HIDE DEF common
  <2> QED
    BY <2>1, <2>2 DEF CancelledOnce
<1>6. \A n \in 0 .. 12 : out[n] \in S
  <2>1. \A n \in 1 .. 12 : out[n - 1] \in S => out[n] \in S
    BY <1>5, CancelledOnceStays DEF S
  <2> HIDE DEF is, step
  <2> QED
    BY <1>1, <1>5, <2>1, StaysIn
<1>7. Cancelled(s) = out[12]
  BY DEF Cancelled, out
<1> QED
  BY <1>6, <1>7 DEF S

-----------------------------------------------------------------------------
(* Some arithmetic *)
LEMMA Grows ==
  ASSUME NEW a \in Nat, NEW b \in Nat, NEW c \in Nat, a <= b
  PROVE  a * c <= b * c
OBVIOUS

LEMMA Distributes ==
  ASSUME NEW a \in Int, NEW b \in Int, NEW c \in Int
  PROVE  /\ a * c \in Int /\ b * c \in Int
         /\ (a + b) * c = a * c + b * c /\ (a - b) * c = a * c - b * c
         /\ c * a = a * c
OBVIOUS

LEMMA Divides ==
  ASSUME NEW n \in Nat, NEW b \in Nat, b > 0
  PROVE  /\ n \div b \in Nat
         /\ (n \div b) * b <= n
         /\ n < (n \div b) * b + b
OBVIOUS

LEMMA HalfIs ==
  ASSUME NEW n \in Nat, n > 0
  PROVE  n \div 2 \in Nat /\ n \div 2 < n /\ n \div 2 <= n
OBVIOUS

-----------------------------------------------------------------------------
(* How many bytes: four for every pixel.                                    *)
LEMMA FourBytes ==
  ASSUME NEW w \in Nat
  PROVE  RowbytesForBack(k32bit, w) = 4 * w
BY DEF RowbytesForBack, Bits, BlitterAlign, k1bit, k32bit

LEMMA BufferIsEnough == bufsize \in Nat /\ bufsize >= 524288 * 4
BY BufferIs, SMT

LEMMA UnfitIsLarge ==
  ASSUME NEW p \in Sizes, ~Fits(p)
  PROVE  p.w >= 129 /\ p.h >= 129 /\ ~(p.w <= 256 /\ p.h <= 256)
<1> DEFINE x == p.w
           y == p.h
           z == x * y
<1>1. x \in Nat /\ y \in Nat /\ x <= 4096 /\ y <= 4096
  <2>1. x \in 1 .. 4096 /\ y \in 1 .. 4096
    BY SizesAre
  <2> HIDE DEF x, y
  <2> QED
    BY <2>1
<1>2. Bytes(k32bit, p) = y * RowbytesForBack(k32bit, x)
  BY DEF Bytes
<1> HIDE DEF x, y
<1>3. Bytes(k32bit, p) = y * (4 * x)
  BY <1>1, <1>2, FourBytes
<1>4. y * (4 * x) = 4 * z /\ z \in Nat
  BY <1>1
<1> HIDE DEF z
<1>5. z > 524288
  BY <1>3, <1>4, BufferIsEnough, SMT DEF Fits
<1>6. x > 128
  <2>1. SUFFICES ASSUME x <= 128 PROVE FALSE
    BY <1>1
  <2>2. z <= 128 * y
    BY <1>1, <2>1, Grows DEF z
  <2> QED
    BY <1>1, <1>4, <1>5, <2>2, SMT
<1>7. y > 128
  <2>1. SUFFICES ASSUME y <= 128 PROVE FALSE
    BY <1>1
  <2>2. y * x <= 128 * x
    BY <1>1, <2>1, Grows
  <2>3. y * x = z
    BY <1>1 DEF z
  <2> QED
    BY <1>1, <1>4, <1>5, <2>2, <2>3, SMT
<1>8. ~(x <= 256 /\ y <= 256)
  <2>1. SUFFICES ASSUME x <= 256, y <= 256 PROVE FALSE
    OBVIOUS
  <2>2. z <= 256 * y
    BY <1>1, <2>1, Grows DEF z
  <2> QED
    BY <1>1, <1>4, <1>5, <2>1, <2>2, SMT
<1> QED
  BY <1>1, <1>6, <1>7, <1>8 DEF x, y

-----------------------------------------------------------------------------
(* One size down.  The longer of the two follows from the shorter one by    *)
(* the ratio, a to b, rounded.                                              *)
Rounded(a, b, x, y) == y <= x /\ (y - 1) * a + b \div 2 < (x + 1) * b

Follower(a, b, y, z) == z = ((y - 1) * a + b \div 2) \div b

LEMMA RowDown ==
  ASSUME NEW a \in Nat, NEW b \in Nat, b > 0, b <= a,
         NEW x \in Nat, NEW y \in Nat, y >= 2, Rounded(a, b, x, y),
         NEW z, Follower(a, b, y, z)
  PROVE  z \in Nat /\ z > 0 /\ z <= x /\ Rounded(a, b, z, y - 1)
<1> DEFINE P == (y - 1) * a
           Q == (y - 1) * b
           X == (x + 1) * b
           h == b \div 2
<1>1. y - 1 \in Nat /\ y - 1 > 0 /\ x + 1 \in Nat
  OBVIOUS
<1>2. P \in Nat /\ Q \in Nat /\ X \in Nat /\ h \in Nat
  BY <1>1
<1>3. Q <= P
  <2>1. b * (y - 1) <= a * (y - 1)
    BY <1>1, Grows
  <2> QED
    BY <1>1, <2>1, Distributes
<1>4. P + h < X /\ z = (P + h) \div b
  BY DEF Rounded, Follower
<1>5. (y - 1 - 1) * a = P - a
  BY <1>1, Distributes
<1> DEFINE Z == z * b
<1> HIDE DEF P, h
<1>6. z \in Nat /\ Z <= P + h /\ P + h < Z + b
  <2>1. P + h \in Nat
    BY <1>2
  <2> QED
    BY <1>4, <2>1, Divides
<1>7. (z + 1) * b = Z + b /\ Z \in Nat
  BY <1>6, Distributes
<1>8. z <= x
  <2>1. SUFFICES ASSUME x + 1 <= z PROVE FALSE
    BY <1>6
  <2>2. X <= Z
    BY <1>1, <1>6, <2>1, Grows
  <2> HIDE DEF X, Z
  <2> QED
    BY <1>2, <1>4, <1>6, <1>7, <2>2
<1>9. z >= y - 1
  <2>1. SUFFICES ASSUME z + 1 <= y - 1 PROVE FALSE
    BY <1>1, <1>6
  <2>2. (z + 1) * b <= Q
    BY <1>1, <1>6, <2>1, Grows
  <2>3. Z + b <= Q
    BY <1>7, <2>2
  <2> HIDE DEF Q, Z
  <2> QED
    BY <1>2, <1>3, <1>6, <1>7, <2>3
<1>10. (P - a) + h < Z + b
  <2> HIDE DEF Z
  <2> QED
    BY <1>2, <1>6, <1>7
<1>11. (y - 1 - 1) * a + b \div 2 < (z + 1) * b
  <2> HIDE DEF Z
  <2> QED
    BY <1>5, <1>7, <1>10 DEF h
<1> HIDE DEF Z
<1> QED
  BY <1>1, <1>6, <1>8, <1>9, <1>11 DEF Rounded

(* Where both are the same and the ratio is not, the longer one makes way.  *)
LEMMA ColumnDown ==
  ASSUME NEW a \in Nat, NEW b \in Nat, b > 0, b < a,
         NEW x \in Nat, x > 128, Rounded(a, b, x, x),
         NEW z, Follower(b, a, x, z)
  PROVE  z \in Nat /\ z > 0 /\ z <= x - 1 /\ Rounded(a, b, x - 1, z)
<1> DEFINE P == (x - 1) * b
           Q == (x - 1) * a
           B == x * b
           A == x * a
           h == a \div 2
           g == b \div 2
           Z == z * a
<1>1. x - 1 \in Nat /\ x - 1 > 0 /\ x + 1 \in Nat
  OBVIOUS
<1>2. A \in Nat /\ B \in Nat /\ P \in Nat /\ Q \in Nat /\ P = B - b /\ Q = A - a /\ (x + 1) * b = B + b
  BY <1>1, Distributes
<1>3. h \in Nat /\ h < a /\ g \in Nat /\ g < b
  BY HalfIs
<1>4. (A - a) + g < B + b /\ z = (P + h) \div a
  BY <1>2 DEF Rounded, Follower
<1>5. P <= Q
  <2>1. b * (x - 1) <= a * (x - 1)
    BY <1>1, Grows
  <2> QED
    BY <1>1, <2>1, Distributes
<1>6. 128 * b <= B /\ 128 * a <= A
  BY Grows
<1> HIDE DEF A, B, P, Q, g, h
<1>7. a <= P
  BY <1>2, <1>3, <1>4, <1>6
<1>8. z \in Nat /\ Z <= P + h /\ P + h < Z + a
  <2>1. P + h \in Nat /\ a > 0
    BY <1>2, <1>3
  <2> QED
    BY <1>4, <2>1, Divides
<1>9. Z \in Nat /\ (z - 1) * a = Z - a
  BY <1>8, Distributes
<1>10. z > 0
  <2>1. SUFFICES ASSUME z = 0 PROVE FALSE
    BY <1>8
  <2>2. Z = 0
    BY <2>1
  <2> HIDE DEF Z
  <2> QED
    BY <1>2, <1>3, <1>7, <1>8, <2>2
<1>11. z <= x - 1
  <2>1. SUFFICES ASSUME x <= z PROVE FALSE
    BY <1>8
  <2>2. A <= Z
    BY <1>8, <2>1, Grows DEF A
  <2> HIDE DEF Z
  <2> QED
    BY <1>2, <1>3, <1>5, <1>8, <1>9, <2>2
<1>12. (z - 1) * a + b \div 2 < (x - 1 + 1) * b
  <2>1. x - 1 + 1 = x
    OBVIOUS
  <2> HIDE DEF Z
  <2>2. (Z - a) + g < B
    BY <1>2, <1>3, <1>8, <1>9
  <2> QED
    BY <1>9, <2>1, <2>2 DEF g, B
<1> HIDE DEF Z
<1> QED
  BY <1>1, <1>8, <1>10, <1>11, <1>12 DEF Rounded

-----------------------------------------------------------------------------
(* What holds of the sizes on the way down. *)
Little(r) == r.w <= 256 /\ r.h <= 256

Going(r, p) ==
  /\ p \in Sizes
  /\ Little(r) => \E j \in Nat : Multiple(p, r, j)
  /\ ~Little(r) /\ r.w > r.h => Rounded(r.w, r.h, p.w, p.h)
  /\ ~Little(r) /\ r.w <= r.h => Rounded(r.h, r.w, p.h, p.w)

LEMMA MultipleIsRounded ==
  ASSUME NEW a \in Nat, NEW b \in Nat, b > 0, b <= a, NEW g \in Nat,
         NEW x, x = g * a, NEW y, y = g * b
  PROVE  Rounded(a, b, x, y)
<1>1. x \in Nat /\ y \in Nat
  BY Distributes
<1>2. y <= x
  <2>1. b * g <= a * g
    BY Grows
  <2> QED
    BY <2>1, Distributes
<1>3. y * a = x * b
  OBVIOUS
<1>4. (y - 1) * a = y * a - a /\ (x + 1) * b = x * b + b /\ x * b \in Nat
  BY <1>1, Distributes
<1>5. (x * b - a) + b \div 2 < x * b + b
  <2> DEFINE n == x * b
             h == b \div 2
  <2>1. n \in Nat /\ h \in Nat /\ h < b
    BY <1>4, HalfIs
  <2> HIDE DEF n, h
  <2>2. (n - a) + h < n + b
    BY <2>1
  <2> QED
    BY <2>2 DEF n, h
<1> QED
  BY <1>2, <1>3, <1>4, <1>5 DEF Rounded

LEMMA GoingStarts ==
  ASSUME NEW s \in Sizes, NEW r \in Ratios(s)
  PROVE  Going(r, s)
<1> DEFINE a == r.w
           b == r.h
           x == s.w
           y == s.h
<1>1. PICK g \in Nat : Multiple(s, r, g)
  BY DEF Ratios
<1>2. r \in Sizes
  BY DEF Ratios
<1>3. a \in 1 .. 4096 /\ b \in 1 .. 4096
  BY <1>2, SizesAre
<1>4. x = g * a /\ y = g * b
  BY <1>1 DEF Multiple
<1>5. (a > b => Rounded(a, b, x, y)) /\ (a <= b => Rounded(b, a, y, x))
  <2> HIDE DEF a, b, x, y
  <2>1. a \in Nat /\ b \in Nat /\ a > 0 /\ b > 0
    BY <1>3
  <2>2. CASE a > b
    <3>1. b <= a /\ ~(a <= b)
      BY <2>1, <2>2
    <3> QED
      BY <1>4, <2>1, <3>1, MultipleIsRounded
  <2>3. CASE ~(a > b)
    <3>1. a <= b
      BY <2>1, <2>3
    <3> QED
      BY <1>4, <2>1, <2>3, <3>1, MultipleIsRounded
  <2> QED
    BY <2>2, <2>3
<1> QED
  BY <1>1, <1>5 DEF Going

(* Where the ratio itself is taken away. *)
LEMMA LittleSmaller ==
  ASSUME NEW r \in Sizes, NEW p \in Sizes, Little(r), ~Fits(p),
         NEW j \in Nat, Multiple(p, r, j)
  PROVE  /\ Smaller(p, r) \in Sizes
         /\ Multiple(Smaller(p, r), r, j - 1) /\ j - 1 \in Nat
         /\ Smaller(p, r).w + Smaller(p, r).h < p.w + p.h
<1> DEFINE a == r.w
           b == r.h
           x == p.w
           y == p.h
<1>1. a \in 1 .. 4096 /\ b \in 1 .. 4096 /\ x \in 1 .. 4096 /\ y \in 1 .. 4096
  <2>1. a \in 1 .. 4096 /\ b \in 1 .. 4096
    BY SizesAre
  <2>2. x \in 1 .. 4096 /\ y \in 1 .. 4096
    BY SizesAre
  <2> HIDE DEF a, b, x, y
  <2> QED
    BY <2>1, <2>2
<1>2. x = j * a /\ y = j * b
  BY DEF Multiple
<1>3. a <= 256 /\ b <= 256
  BY DEF Little
<1>4. ~(x <= 256 /\ y <= 256)
  BY UnfitIsLarge
<1>5. Smaller(p, r) = Size(x - a, y - b)
  BY DEF Smaller, Little
<1> HIDE DEF a, b, x, y
<1>6. a \in Nat /\ b \in Nat /\ x \in Nat /\ y \in Nat /\ a > 0 /\ b > 0
      /\ x > 0 /\ y > 0 /\ x <= 4096 /\ y <= 4096
  BY <1>1
<1>7. j >= 2
  <2>1. CASE j = 0
    <3>1. x = 0
      BY <1>2, <1>6, <2>1
    <3> QED
      BY <1>6, <3>1
  <2>2. CASE j = 1
    <3>1. x = a /\ y = b
      BY <1>2, <1>6, <2>2
    <3> QED
      BY <1>3, <1>4, <3>1
  <2> QED
    BY <2>1, <2>2
<1>8. x - a = (j - 1) * a /\ y - b = (j - 1) * b /\ j - 1 \in Nat
  BY <1>2, <1>6, <1>7, Distributes
<1>9. 2 * a <= x /\ 2 * b <= y
  BY <1>2, <1>6, <1>7, Grows
<1>10. x - a \in 1 .. 4096 /\ y - b \in 1 .. 4096 /\ (x - a) + (y - b) < x + y
  BY <1>6, <1>9
<1>11. Smaller(p, r) \in Sizes /\ Smaller(p, r).w = x - a /\ Smaller(p, r).h = y - b
  <2> DEFINE u == x - a
             v == y - b
  <2>1. Smaller(p, r) = Size(u, v) /\ u \in 1 .. 4096 /\ v \in 1 .. 4096
    BY <1>5, <1>10
  <2> HIDE DEF u, v
  <2>2. Smaller(p, r) \in Sizes /\ Smaller(p, r).w = u /\ Smaller(p, r).h = v
    BY <2>1 DEF Size, Sizes
  <2> QED
    BY <2>2 DEF u, v
<1>12. Smaller(p, r).w + Smaller(p, r).h < x + y
  BY <1>10, <1>11
<1>13. Multiple(Smaller(p, r), r, j - 1)
  BY <1>8, <1>11 DEF Multiple, a, b
<1> QED
  BY <1>8, <1>11, <1>12, <1>13 DEF x, y

LEMMA WideSmaller ==
  ASSUME NEW r \in Sizes, NEW p \in Sizes, ~Little(r), r.w > r.h, ~Fits(p),
         Rounded(r.w, r.h, p.w, p.h)
  PROVE  /\ Smaller(p, r) \in Sizes
         /\ Rounded(r.w, r.h, Smaller(p, r).w, Smaller(p, r).h)
         /\ Smaller(p, r).w + Smaller(p, r).h < p.w + p.h
<1> DEFINE a == r.w
           b == r.h
           x == p.w
           y == p.h
           v == ((y - 1) * a + b \div 2) \div b
           z == ((x - 1) * b + a \div 2) \div a
<1>1. a \in 1 .. 4096 /\ b \in 1 .. 4096 /\ x \in 1 .. 4096 /\ y \in 1 .. 4096
  <2>1. a \in 1 .. 4096 /\ b \in 1 .. 4096
    BY SizesAre
  <2>2. x \in 1 .. 4096 /\ y \in 1 .. 4096
    BY SizesAre
  <2> HIDE DEF a, b, x, y
  <2> QED
    BY <2>1, <2>2
<1>2. a > b /\ Rounded(a, b, x, y) /\ x >= 129 /\ y >= 129
  BY UnfitIsLarge
<1>3. x > y => Smaller(p, r) = Size(v, y - 1)
  BY DEF Smaller, Little
<1>4. ~(x > y) => Smaller(p, r) = Size(x - 1, z)
  BY DEF Smaller, Little
<1> HIDE DEF a, b, x, y
<1>5. a \in Nat /\ b \in Nat /\ x \in Nat /\ y \in Nat /\ b > 0 /\ b < a /\ b <= a
      /\ x > 128 /\ y > 128 /\ y >= 2 /\ x <= 4096 /\ y <= 4096
  BY <1>1, <1>2
<1>6. CASE x > y
  <2>1. v \in Nat /\ v > 0 /\ v <= x /\ Rounded(a, b, v, y - 1)
    <3>1. Follower(a, b, y, v)
      BY DEF Follower
    <3> HIDE DEF v
    <3> QED
      BY <1>2, <1>5, <3>1, RowDown
  <2> HIDE DEF v
  <2>2. v \in 1 .. 4096 /\ y - 1 \in 1 .. 4096 /\ v + (y - 1) < x + y
    BY <1>5, <2>1
  <2>3. Smaller(p, r) \in Sizes /\ Smaller(p, r).w = v /\ Smaller(p, r).h = y - 1
    <3> DEFINE u == y - 1
    <3>1. Smaller(p, r) = Size(v, u) /\ u \in 1 .. 4096 /\ v \in 1 .. 4096
      BY <1>3, <1>6, <2>2
    <3> HIDE DEF u
    <3>2. Smaller(p, r) \in Sizes /\ Smaller(p, r).w = v /\ Smaller(p, r).h = u
      BY <3>1 DEF Size, Sizes
    <3> QED
      BY <3>2 DEF u
  <2>4. Rounded(a, b, Smaller(p, r).w, Smaller(p, r).h) /\ Smaller(p, r).w + Smaller(p, r).h < x + y
    BY <2>1, <2>2, <2>3
  <2> QED
    BY <2>3, <2>4 DEF a, b, x, y
<1>7. CASE ~(x > y)
  <2>1. y = x
    BY <1>2, <1>5, <1>7 DEF Rounded
  <2>2. Rounded(a, b, x, x)
    BY <1>2, <2>1
  <2>3. z \in Nat /\ z > 0 /\ z <= x - 1 /\ Rounded(a, b, x - 1, z)
    <3>1. Follower(b, a, x, z)
      BY DEF Follower
    <3> HIDE DEF z
    <3> QED
      BY <1>5, <2>2, <3>1, ColumnDown
  <2> HIDE DEF z
  <2>4. z \in 1 .. 4096 /\ x - 1 \in 1 .. 4096 /\ (x - 1) + z < x + y
    BY <1>5, <2>1, <2>3
  <2>5. Smaller(p, r) \in Sizes /\ Smaller(p, r).w = x - 1 /\ Smaller(p, r).h = z
    <3> DEFINE u == x - 1
    <3>1. Smaller(p, r) = Size(u, z) /\ u \in 1 .. 4096 /\ z \in 1 .. 4096
      BY <1>4, <1>7, <2>4
    <3> HIDE DEF u
    <3>2. Smaller(p, r) \in Sizes /\ Smaller(p, r).w = u /\ Smaller(p, r).h = z
      BY <3>1 DEF Size, Sizes
    <3> QED
      BY <3>2 DEF u
  <2>6. Rounded(a, b, Smaller(p, r).w, Smaller(p, r).h) /\ Smaller(p, r).w + Smaller(p, r).h < x + y
    BY <2>3, <2>4, <2>5
  <2> QED
    BY <2>5, <2>6 DEF a, b, x, y
<1> QED
  BY <1>6, <1>7

LEMMA TallSmaller ==
  ASSUME NEW r \in Sizes, NEW p \in Sizes, ~Little(r), r.w <= r.h, ~Fits(p),
         Rounded(r.h, r.w, p.h, p.w)
  PROVE  /\ Smaller(p, r) \in Sizes
         /\ Rounded(r.h, r.w, Smaller(p, r).h, Smaller(p, r).w)
         /\ Smaller(p, r).w + Smaller(p, r).h < p.w + p.h
<1> DEFINE a == r.h
           b == r.w
           x == p.h
           y == p.w
           v == ((y - 1) * a + b \div 2) \div b
<1>1. a \in 1 .. 4096 /\ b \in 1 .. 4096 /\ x \in 1 .. 4096 /\ y \in 1 .. 4096
  <2>1. a \in 1 .. 4096 /\ b \in 1 .. 4096
    BY SizesAre
  <2>2. x \in 1 .. 4096 /\ y \in 1 .. 4096
    BY SizesAre
  <2> HIDE DEF a, b, x, y
  <2> QED
    BY <2>1, <2>2
<1>2. b <= a /\ Rounded(a, b, x, y) /\ y >= 129
  BY UnfitIsLarge
<1>3. ~(y > x) => Smaller(p, r) = Size(y - 1, v)
  BY DEF Smaller, Little
<1> HIDE DEF a, b, x, y
<1>4. a \in Nat /\ b \in Nat /\ x \in Nat /\ y \in Nat /\ b > 0 /\ b <= a
      /\ y > 128 /\ y >= 2 /\ x <= 4096 /\ y <= 4096
  BY <1>1, <1>2
<1>5. v \in Nat /\ v > 0 /\ v <= x /\ Rounded(a, b, v, y - 1)
  <2>1. Follower(a, b, y, v)
    BY DEF Follower
  <2> HIDE DEF v
  <2> QED
    BY <1>2, <1>4, <2>1, RowDown
<1> HIDE DEF v
<1>6. ~(y > x)
  BY <1>2, <1>4 DEF Rounded
<1>7. v \in 1 .. 4096 /\ y - 1 \in 1 .. 4096 /\ (y - 1) + v < y + x
  BY <1>4, <1>5
<1>8. Smaller(p, r) \in Sizes /\ Smaller(p, r).h = v /\ Smaller(p, r).w = y - 1
  <2> DEFINE u == y - 1
  <2>1. Smaller(p, r) = Size(u, v) /\ u \in 1 .. 4096 /\ v \in 1 .. 4096
    BY <1>3, <1>6, <1>7
  <2> HIDE DEF u
  <2>2. Smaller(p, r) \in Sizes /\ Smaller(p, r).w = u /\ Smaller(p, r).h = v
    BY <2>1 DEF Size, Sizes
  <2> QED
    BY <2>2 DEF u
<1>9. Rounded(a, b, Smaller(p, r).h, Smaller(p, r).w) /\ Smaller(p, r).w + Smaller(p, r).h < y + x
  BY <1>5, <1>7, <1>8
<1> QED
  BY <1>8, <1>9 DEF a, b, x, y

LEMMA GoesOn ==
  ASSUME NEW r \in Sizes, NEW p, Going(r, p), ~Fits(p)
  PROVE  Going(r, Smaller(p, r)) /\ Smaller(p, r).w + Smaller(p, r).h < p.w + p.h
<1>1. p \in Sizes
  BY DEF Going
<1>2. CASE Little(r)
  <2>1. PICK j \in Nat : Multiple(p, r, j)
    BY <1>2 DEF Going
  <2>2. /\ Smaller(p, r) \in Sizes
        /\ Multiple(Smaller(p, r), r, j - 1) /\ j - 1 \in Nat
        /\ Smaller(p, r).w + Smaller(p, r).h < p.w + p.h
    BY <1>1, <1>2, <2>1, LittleSmaller
  <2> QED
    BY <1>2, <2>2 DEF Going
<1>3. CASE ~Little(r) /\ r.w > r.h
  <2>1. ~(r.w <= r.h)
    <3> DEFINE a == r.w
               b == r.h
    <3>1. a \in Nat /\ b \in Nat /\ a > b
      BY <1>3, SizesNatural
    <3> HIDE DEF a, b
    <3>2. ~(a <= b)
      BY <3>1
    <3> QED
      BY <3>2 DEF a, b
  <2>2. Rounded(r.w, r.h, p.w, p.h)
    BY <1>3 DEF Going
  <2> QED
    BY <1>1, <1>3, <2>1, <2>2, WideSmaller DEF Going
<1>4. CASE ~Little(r) /\ ~(r.w > r.h)
  <2>1. r.w <= r.h
    <3> DEFINE a == r.w
               b == r.h
    <3>1. a \in Nat /\ b \in Nat /\ ~(a > b)
      BY <1>4, SizesNatural
    <3> HIDE DEF a, b
    <3>2. a <= b
      BY <3>1
    <3> QED
      BY <3>2 DEF a, b
  <2>2. Rounded(r.h, r.w, p.h, p.w)
    BY <1>4, <2>1 DEF Going
  <2> QED
    BY <1>1, <1>4, <2>1, <2>2, TallSmaller DEF Going
<1> QED
  BY <1>2, <1>3, <1>4

-----------------------------------------------------------------------------
(* getBestSize: some size on the way down fits.                             *)
Down(f, s, r) == f[0] = s /\ \A n \in 1 .. MaxSteps : f[n] = Smaller(f[n - 1], r)

Reached(s, r, p, n) == Going(r, p) /\ p.w + p.h <= s.w + s.h - n

LEMMA DownGoes ==
  ASSUME NEW s \in Sizes, NEW r \in Ratios(s), NEW f, Down(f, s, r),
         NEW c \in 0 .. MaxSteps, \A m \in 0 .. c - 1 : ~Fits(f[m])
  PROVE  Reached(s, r, f[c], c)
<1> DEFINE g == [n \in 0 .. c |-> IF Reached(s, r, f[n], n) THEN 1 ELSE 0]
<1>1. c \in Nat /\ c <= MaxSteps
  BY DEF MaxSteps
<1>2. Reached(s, r, f[0], 0)
  <2>1. Going(r, s)
    BY GoingStarts
  <2> DEFINE x == s.w
             y == s.h
  <2>2. x \in Nat /\ y \in Nat
    BY SizesNatural
  <2>3. x + y <= x + y - 0
    <3> HIDE DEF x, y
    <3> QED
      BY <2>2
  <2> QED
    BY <2>1, <2>3 DEF Reached, Down
<1>3. ASSUME NEW n \in 1 .. c, Reached(s, r, f[n - 1], n - 1)
      PROVE  Reached(s, r, f[n], n)
  <2>1. n \in 1 .. MaxSteps /\ n - 1 \in 0 .. c - 1 /\ n \in Nat
    BY <1>1 DEF MaxSteps
  <2>2. f[n] = Smaller(f[n - 1], r) /\ ~Fits(f[n - 1])
    BY <2>1 DEF Down
  <2>3. r \in Sizes
    BY DEF Ratios
  <2> DEFINE p == f[n - 1]
             q == f[n]
  <2>4. Going(r, p) /\ p.w + p.h <= s.w + s.h - (n - 1)
    BY <1>3 DEF Reached
  <2>5. Going(r, q) /\ q.w + q.h < p.w + p.h
    <3>1. ~Fits(p) /\ q = Smaller(p, r)
      BY <2>2
    <3> HIDE DEF p, q
    <3> QED
      BY <2>3, <2>4, <3>1, GoesOn
  <2> HIDE DEF p, q
  <2>6. p \in Sizes /\ q \in Sizes
    BY <2>4, <2>5 DEF Going
  <2> DEFINE a == p.w
             b == p.h
             u == q.w
             v == q.h
             x == s.w
             y == s.h
  <2>7. a \in Nat /\ b \in Nat
    BY <2>6, SizesNatural
  <2>8. u \in Nat /\ v \in Nat
    BY <2>6, SizesNatural
  <2>9. x \in Nat /\ y \in Nat
    BY SizesNatural
  <2>10. a + b <= x + y - (n - 1) /\ u + v < a + b
    BY <2>4, <2>5
  <2> HIDE DEF a, b, u, v, x, y
  <2>11. u + v <= x + y - n
    BY <2>1, <2>7, <2>8, <2>9, <2>10
  <2> QED
    BY <2>5, <2>11 DEF Reached, u, v, x, y, q
<1>4. \A n \in 0 .. c : g[n] \in {1}
  <2> DEFINE T == {1}
  <2>1. g[0] \in T
    BY <1>1, <1>2
  <2>2. \A n \in 1 .. c : g[n - 1] \in T => g[n] \in T
    <3> TAKE n \in 1 .. c
    <3> HAVE g[n - 1] \in T
    <3>1. n - 1 \in 0 .. c /\ n \in 0 .. c
      BY <1>1
    <3>2. Reached(s, r, f[n - 1], n - 1)
      BY <3>1
    <3> QED
      BY <1>3, <3>1, <3>2
  <2> HIDE DEF g, T
  <2>3. \A n \in 0 .. c : g[n] \in T
    BY <1>1, <2>1, <2>2, StaysIn
  <2> QED
    BY <2>3 DEF T
<1>5. c \in 0 .. c
  BY <1>1
<1> QED
  BY <1>4, <1>5

LEMMA SomeFits ==
  ASSUME NEW s \in Sizes, NEW r \in Ratios(s), NEW f, Down(f, s, r)
  PROVE  \E n \in 0 .. MaxSteps : Fits(f[n]) /\ \A m \in 0 .. n - 1 : ~Fits(f[m])
<1> DEFINE F == {n \in 0 .. MaxSteps : Fits(f[n])}
<1>1. F # {}
  <2>1. SUFFICES ASSUME F = {} PROVE FALSE
    OBVIOUS
  <2>2. MaxSteps \in 0 .. MaxSteps
    BY DEF MaxSteps
  <2>3. \A m \in 0 .. MaxSteps - 1 : ~Fits(f[m])
    <3> TAKE m \in 0 .. MaxSteps - 1
    <3>1. m \in 0 .. MaxSteps
      BY DEF MaxSteps
    <3> QED
      BY <2>1, <3>1
  <2> DEFINE p == f[MaxSteps]
  <2>4. Reached(s, r, p, MaxSteps)
    BY <2>2, <2>3, DownGoes
  <2> HIDE DEF p
  <2>5. p \in Sizes /\ p.w + p.h <= s.w + s.h - MaxSteps
    BY <2>4 DEF Reached, Going
  <2> DEFINE u == p.w
             v == p.h
             x == s.w
             y == s.h
  <2>6. u \in 1 .. 4096 /\ v \in 1 .. 4096
    BY <2>5, SizesAre
  <2>7. x \in 1 .. 4096 /\ y \in 1 .. 4096
    BY SizesAre
  <2>8. u + v <= x + y - MaxSteps
    BY <2>5
  <2> HIDE DEF u, v, x, y
  <2> QED
    <3>1. MaxSteps = 8192
      BY DEF MaxSteps
    <3>2. x \in Nat /\ y \in Nat /\ x <= 4096 /\ y <= 4096
      BY <2>7
    <3>3. u \in Nat /\ v \in Nat /\ u > 0 /\ v > 0
      BY <2>6
    <3> QED
      BY <2>8, <3>1, <3>2, <3>3, SMT
<1>2. F \in SUBSET Nat
  <2>1. MaxSteps \in Nat
    BY DEF MaxSteps
  <2> QED
    BY <2>1
<1> HIDE DEF F
<1>3. PICK n \in F : \A m \in F : n <= m
  BY <1>1, <1>2, LeastExists
<1>4. n \in 0 .. MaxSteps /\ Fits(f[n])
  BY DEF F
<1>5. \A m \in 0 .. n - 1 : ~Fits(f[m])
  <2> TAKE m \in 0 .. n - 1
  <2>1. m \in 0 .. MaxSteps /\ ~(n <= m)
    BY <1>4 DEF MaxSteps
  <2>2. m \notin F
    BY <1>3, <2>1
  <2> QED
    BY <2>1, <2>2 DEF F
<1> QED
  BY <1>4, <1>5

Plain == [w : Int, h : Int]

LEMMA SmallerPlain ==
  ASSUME NEW r \in Sizes, NEW p \in Plain
  PROVE  Smaller(p, r) \in Plain
<1> DEFINE a == r.w
           b == r.h
           x == p.w
           y == p.h
           v == ((y - 1) * a + b \div 2) \div b
           z == ((x - 1) * b + a \div 2) \div a
<1>1. a \in Nat /\ b \in Nat
  BY SizesNatural
<1>2. a \in 1 .. 4096 /\ b \in 1 .. 4096
  BY SizesAre
<1>3. x \in Int /\ y \in Int
  BY DEF Plain
<1>4. Smaller(p, r) \in {Size(x - a, y - b), Size(v, y - 1), Size(x - 1, z)}
  BY DEF Smaller
<1> HIDE DEF a, b, x, y
<1>5. v \in Int /\ z \in Int
  <2> DEFINE m == (y - 1) * a + b \div 2
             n == (x - 1) * b + a \div 2
  <2>1. a > 0 /\ b > 0
    BY <1>1, <1>2
  <2>2. m \in Int /\ n \in Int
    BY <1>1, <1>3
  <2> HIDE DEF m, n
  <2>3. m \div b \in Int /\ n \div a \in Int
    BY <1>1, <2>1, <2>2
  <2> QED
    BY <2>3 DEF m, n
<1>6. x - a \in Int /\ y - b \in Int /\ x - 1 \in Int /\ y - 1 \in Int
  BY <1>1, <1>3
<1> HIDE DEF v, z
<1>7. \A i, j \in Int : Size(i, j) \in Plain
  BY DEF Size, Plain
<1>8. Size(x - a, y - b) \in Plain /\ Size(v, y - 1) \in Plain /\ Size(x - 1, z) \in Plain
  BY <1>5, <1>6, <1>7
<1> QED
  BY <1>4, <1>8

LEMMA BestSizeFits ==
  ASSUME NEW s \in Sizes
  PROVE  BestSize(s) \in Sizes /\ Fits(BestSize(s))
<1> DEFINE r == Cancelled(s)
           step == [n \in 1 .. MaxSteps |-> [x \in Plain |-> Smaller(x, r)]]
           is(f) == f = [n \in 0 .. MaxSteps |-> IF n = 0 THEN s ELSE Smaller(f[n - 1], r)]
           down == CHOOSE g : is(g)
           first(n) == Fits(down[n]) /\ \A m \in 0 .. n - 1 : ~Fits(down[m])
           c == CHOOSE n \in 0 .. MaxSteps : first(n)
<1>1. r \in Ratios(s) /\ r \in Sizes
  BY CancelledIsRatio DEF Ratios
<1>2. s \in Plain
  <2>1. 1 .. 4096 \subseteq Int
    OBVIOUS
  <2> DEFINE T == 1 .. 4096
  <2>2. s \in [w : T, h : T] /\ T \subseteq Int
    BY <2>1 DEF Sizes
  <2> HIDE DEF T
  <2> QED
    BY <2>2 DEF Plain
<1>3. BestSize(s) = down[c]
  BY DEF BestSize, down
<1> HIDE DEF r
<1>4. step \in [1 .. MaxSteps -> [Plain -> Plain]]
  BY <1>1, SmallerPlain
<1>5. PICK f : Follows(f, Plain, s, step, MaxSteps)
  <2>1. MaxSteps \in Nat
    BY DEF MaxSteps
  <2> HIDE DEF step
  <2> QED
    BY <1>2, <1>4, <2>1, RecursionExists
<1>6. is(f)
  <2>1. ASSUME NEW n \in 0 .. MaxSteps
        PROVE  f[n] = IF n = 0 THEN s ELSE Smaller(f[n - 1], r)
    <3>1. CASE n = 0
      BY <1>5, <3>1 DEF Follows
    <3>2. CASE n # 0
      <4>1. n \in 1 .. MaxSteps /\ n - 1 \in 0 .. MaxSteps
        BY <3>2 DEF MaxSteps
      <4>2. f[n - 1] \in Plain /\ f[n] = step[n][f[n - 1]]
        BY <1>5, <4>1 DEF Follows
      <4> QED
        BY <3>2, <4>1, <4>2
    <3> QED
      BY <3>1, <3>2
  <2>2. f = [n \in 0 .. MaxSteps |-> f[n]]
    BY <1>5 DEF Follows
  <2> QED
    BY <2>1, <2>2
<1>7. is(down)
  <2> HIDE DEF is
  <2> QED
    BY <1>6
<1> HIDE DEF down
<1>8. Down(down, s, r)
  <2>1. down[0] = s
    <3>1. 0 \in 0 .. MaxSteps
      BY DEF MaxSteps
    <3> QED
      BY <1>7, <3>1
  <2>2. ASSUME NEW n \in 1 .. MaxSteps PROVE down[n] = Smaller(down[n - 1], r)
    <3>1. n \in 0 .. MaxSteps /\ n # 0
      BY DEF MaxSteps
    <3> QED
      BY <1>7, <3>1
  <2> QED
    BY <2>1, <2>2 DEF Down
<1> HIDE DEF is, step
<1>9. \E n \in 0 .. MaxSteps : first(n)
  BY <1>1, <1>8, SomeFits
<1>10. c \in 0 .. MaxSteps /\ first(c)
  <2> HIDE DEF first
  <2> QED
    BY <1>9
<1> HIDE DEF c
<1>11. Reached(s, r, down[c], c)
  BY <1>1, <1>8, <1>10, DownGoes
<1>12. down[c] \in Sizes
  BY <1>11 DEF Reached, Going
<1> QED
  BY <1>3, <1>10, <1>12

LEMMA BestIs ==
  ASSUME NEW s \in Wishes
  PROVE  Best[s] \in Sizes /\ Fits(Best[s])
<1>1. s \in Sizes
  BY ModesAssumption DEF ModesAssumption, Sizes
<1> QED
  BY <1>1, BestSizeFits DEF Best

-----------------------------------------------------------------------------
(* The buffers in every depth: a screen that fits in 32 bits fits in all.   *)
Upward(n, a) == ((n + a - 1) \div a) * a

LEMMA RowsIn ==
  ASSUME NEW x \in Nat
  PROVE  /\ RowbytesForBack(128, x) = ((((x * 1 + 7) \div 8) + 3) \div 4) * 4
         /\ RowbytesForBack(129, x) = ((((x * 2 + 7) \div 8) + 3) \div 4) * 4
         /\ RowbytesForBack(130, x) = ((((x * 4 + 7) \div 8) + 3) \div 4) * 4
         /\ RowbytesForBack(131, x) = x
         /\ RowbytesForBack(132, x) = 2 * x
         /\ RowbytesForBack(133, x) = 4 * x
<1>1. RowbytesForBack(128, x) = ((((x * 1 + 7) \div 8) + 3) \div 4) * 4
  BY DEF RowbytesForBack, Bits, BlitterAlign, k1bit
<1>2. RowbytesForBack(129, x) = ((((x * 2 + 7) \div 8) + 3) \div 4) * 4
  BY DEF RowbytesForBack, Bits, BlitterAlign, k1bit
<1>3. RowbytesForBack(130, x) = ((((x * 4 + 7) \div 8) + 3) \div 4) * 4
  BY DEF RowbytesForBack, Bits, BlitterAlign, k1bit
<1>4. RowbytesForBack(131, x) = x
  BY DEF RowbytesForBack, Bits, BlitterAlign, k1bit
<1>5. RowbytesForBack(132, x) = 2 * x
  BY DEF RowbytesForBack, Bits, BlitterAlign, k1bit
<1>6. RowbytesForBack(133, x) = 4 * x
  BY DEF RowbytesForBack, Bits, BlitterAlign, k1bit
<1> QED
  BY <1>1, <1>2, <1>3, <1>4, <1>5, <1>6

LEMMA ColumnsIn ==
  ASSUME NEW x \in Nat
  PROVE  /\ BlitColumns(128, x - 1, x).l = ((x - 1) \div 32) * 32
         /\ BlitColumns(128, x - 1, x).r = ((x + 31) \div 32) * 32
         /\ BlitColumns(129, x - 1, x).l = ((x - 1) \div 16) * 16
         /\ BlitColumns(129, x - 1, x).r = ((x + 15) \div 16) * 16
         /\ BlitColumns(130, x - 1, x).l = ((x - 1) \div 8) * 8
         /\ BlitColumns(130, x - 1, x).r = ((x + 7) \div 8) * 8
         /\ BlitColumns(131, x - 1, x).l = x - 1
         /\ BlitColumns(131, x - 1, x).r = x
         /\ BlitColumns(132, x - 1, x).l = x - 1
         /\ BlitColumns(132, x - 1, x).r = x
         /\ BlitColumns(133, x - 1, x).l = x - 1
         /\ BlitColumns(133, x - 1, x).r = x
<1>1. /\ BlitColumns(128, x - 1, x).l = ((x - 1) \div 32) * 32
      /\ BlitColumns(128, x - 1, x).r = ((x + 31) \div 32) * 32
  BY DEF BlitColumns, Bits, BlitterAlign, k1bit
<1>2. /\ BlitColumns(129, x - 1, x).l = ((x - 1) \div 16) * 16
      /\ BlitColumns(129, x - 1, x).r = ((x + 15) \div 16) * 16
  BY DEF BlitColumns, Bits, BlitterAlign, k1bit
<1>3. /\ BlitColumns(130, x - 1, x).l = ((x - 1) \div 8) * 8
      /\ BlitColumns(130, x - 1, x).r = ((x + 7) \div 8) * 8
  BY DEF BlitColumns, Bits, BlitterAlign, k1bit
<1>4. /\ BlitColumns(131, x - 1, x).l = x - 1
      /\ BlitColumns(131, x - 1, x).r = x
  BY DEF BlitColumns, Bits, BlitterAlign, k1bit
<1>5. /\ BlitColumns(132, x - 1, x).l = x - 1
      /\ BlitColumns(132, x - 1, x).r = x
  BY DEF BlitColumns, Bits, BlitterAlign, k1bit
<1>6. /\ BlitColumns(133, x - 1, x).l = x - 1
      /\ BlitColumns(133, x - 1, x).r = x
  BY DEF BlitColumns, Bits, BlitterAlign, k1bit
<1> QED
  BY <1>1, <1>2, <1>3, <1>4, <1>5, <1>6

BlitInside(d, x) ==
  LET blit == BlitColumns(d, x - 1, x)
  IN  /\ blit.l < x /\ blit.r * Bits(d) <= 8 * RowbytesForBack(d, x)
      /\ 4 * blit.r <= RowbytesForFront(d, x)

LEMMA BlitsInside ==
  ASSUME NEW x \in Nat, x > 0, NEW d \in k1bit .. k32bit
  PROVE  BlitInside(d, x)
<1> DEFINE l == BlitColumns(d, x - 1, x).l
           r == BlitColumns(d, x - 1, x).r
           row == RowbytesForBack(d, x)
<1>1. d \in 128 .. 133
  BY DEF k1bit, k32bit
<1>2. CASE d = 128
  <2>1. l = ((x - 1) \div 32) * 32 /\ r = ((x + 31) \div 32) * 32
    BY <1>2, ColumnsIn, Zenon
  <2>2. Bits(d) = 1 /\ RowbytesForFront(d, x) = row * 32
    BY <1>2, RowsIn DEF RowbytesForFront, Bits, k1bit, k32bit
  <2>3. row = ((((x * 1 + 7) \div 8) + 3) \div 4) * 4
    BY <1>2, RowsIn
  <2> HIDE DEF l, r, row
  <2>4. l < x /\ r * 1 <= 8 * row /\ 4 * r <= row * 32
    BY <2>1, <2>3
  <2> QED
    BY <2>2, <2>4 DEF BlitInside, l, r, row
<1>3. CASE d = 129
  <2>1. l = ((x - 1) \div 16) * 16 /\ r = ((x + 15) \div 16) * 16
    BY <1>3, ColumnsIn, Zenon
  <2>2. Bits(d) = 2 /\ RowbytesForFront(d, x) = row * 16
    BY <1>3, RowsIn DEF RowbytesForFront, Bits, k1bit, k32bit
  <2>3. row = ((((x * 2 + 7) \div 8) + 3) \div 4) * 4
    BY <1>3, RowsIn
  <2> HIDE DEF l, r, row
  <2>4. l < x /\ r * 2 <= 8 * row /\ 4 * r <= row * 16
    BY <2>1, <2>3
  <2> QED
    BY <2>2, <2>4 DEF BlitInside, l, r, row
<1>4. CASE d = 130
  <2>1. l = ((x - 1) \div 8) * 8 /\ r = ((x + 7) \div 8) * 8
    BY <1>4, ColumnsIn, Zenon
  <2>2. Bits(d) = 4 /\ RowbytesForFront(d, x) = row * 8
    BY <1>4, RowsIn DEF RowbytesForFront, Bits, k1bit, k32bit
  <2>3. row = ((((x * 4 + 7) \div 8) + 3) \div 4) * 4
    BY <1>4, RowsIn
  <2> HIDE DEF l, r, row
  <2>4. l < x /\ r * 4 <= 8 * row /\ 4 * r <= row * 8
    BY <2>1, <2>3
  <2> QED
    BY <2>2, <2>4 DEF BlitInside, l, r, row
<1>5. CASE d = 131
  <2>1. l = x - 1 /\ r = x /\ row = x
    <3>1. l = x - 1 /\ r = x
      BY <1>5, ColumnsIn, Zenon
    <3> QED
      BY <1>5, <3>1, RowsIn
  <2>2. Bits(d) = 8 /\ RowbytesForFront(d, x) = row * 4
    BY <1>5, RowsIn DEF RowbytesForFront, Bits, k1bit, k32bit
  <2> HIDE DEF l, r, row
  <2>3. l < x /\ r * 8 <= 8 * row /\ 4 * r <= row * 4
    BY <2>1
  <2> QED
    BY <2>2, <2>3 DEF BlitInside, l, r, row
<1>6. CASE d = 132
  <2>1. l = x - 1 /\ r = x /\ row = 2 * x
    <3>1. l = x - 1 /\ r = x
      BY <1>6, ColumnsIn, Zenon
    <3> QED
      BY <1>6, <3>1, RowsIn
  <2>2. Bits(d) = 16 /\ RowbytesForFront(d, x) = row * 2
    BY <1>6, RowsIn DEF RowbytesForFront, Bits, k1bit, k32bit
  <2> HIDE DEF l, r, row
  <2>3. l < x /\ r * 16 <= 8 * row /\ 4 * r <= row * 2
    BY <2>1
  <2> QED
    BY <2>2, <2>3 DEF BlitInside, l, r, row
<1>7. CASE d = 133
  <2>1. l = x - 1 /\ r = x /\ row = 4 * x
    <3>1. l = x - 1 /\ r = x
      BY <1>7, ColumnsIn, Zenon
    <3> QED
      BY <1>7, <3>1, RowsIn
  <2>2. Bits(d) = 32 /\ RowbytesForFront(d, x) = row * 1
    BY <1>7, RowsIn DEF RowbytesForFront, Bits, k1bit, k32bit
  <2> HIDE DEF l, r, row
  <2>3. l < x /\ r * 32 <= 8 * row /\ 4 * r <= row * 1
    BY <2>1
  <2> QED
    BY <2>2, <2>3 DEF BlitInside, l, r, row
<1> QED
  BY <1>1, <1>2, <1>3, <1>4, <1>5, <1>6, <1>7

LEMMA RowsAreNoLonger ==
  ASSUME NEW x \in Nat, x > 0, NEW d \in k1bit .. k32bit
  PROVE  /\ RowbytesForBack(d, x) \in Nat /\ RowbytesForBack(d, x) <= 4 * x
         /\ d # k32bit => /\ Upward(RowbytesForBack(d, x), 4) \in Nat
                          /\ Upward(RowbytesForBack(d, x), 4) <= 4 * x
<1> DEFINE row == RowbytesForBack(d, x)
<1>1. d \in 128 .. 133 /\ k32bit = 133
  BY DEF k1bit, k32bit
<1>2. \/ row = ((((x * 1 + 7) \div 8) + 3) \div 4) * 4
      \/ row = ((((x * 2 + 7) \div 8) + 3) \div 4) * 4
      \/ row = ((((x * 4 + 7) \div 8) + 3) \div 4) * 4
      \/ row = x
      \/ row = 2 * x
      \/ d = 133 /\ row = 4 * x
  <2>1. d = 128 => row = ((((x * 1 + 7) \div 8) + 3) \div 4) * 4
    BY RowsIn
  <2>2. d = 129 => row = ((((x * 2 + 7) \div 8) + 3) \div 4) * 4
    BY RowsIn
  <2>3. d = 130 => row = ((((x * 4 + 7) \div 8) + 3) \div 4) * 4
    BY RowsIn
  <2>4. d = 131 => row = x
    BY RowsIn
  <2>5. d = 132 => row = 2 * x
    BY RowsIn
  <2>6. d = 133 => row = 4 * x
    BY RowsIn
  <2> QED
    BY <1>1, <2>1, <2>2, <2>3, <2>4, <2>5, <2>6
<1> HIDE DEF row
<1>3. row \in Nat /\ row <= 4 * x
  BY <1>2
<1>4. Upward(row, 4) = ((row + 3) \div 4) * 4
  BY <1>3 DEF Upward
<1>5. d # 133 => Upward(row, 4) \in Nat /\ Upward(row, 4) <= 4 * x
  <2> SUFFICES ASSUME d # 133 PROVE Upward(row, 4) \in Nat /\ Upward(row, 4) <= 4 * x
    OBVIOUS
  <2>1. CASE row = ((((x * 1 + 7) \div 8) + 3) \div 4) * 4
    BY <1>3, <1>4, <2>1
  <2>2. CASE row = ((((x * 2 + 7) \div 8) + 3) \div 4) * 4
    BY <1>3, <1>4, <2>2
  <2>3. CASE row = ((((x * 4 + 7) \div 8) + 3) \div 4) * 4
    BY <1>3, <1>4, <2>3
  <2>4. CASE row = x
    BY <1>3, <1>4, <2>4
  <2>5. CASE row = 2 * x
    BY <1>3, <1>4, <2>5
  <2> QED
    BY <1>2, <2>1, <2>2, <2>3, <2>4, <2>5
<1> QED
  BY <1>1, <1>3, <1>5 DEF row

-----------------------------------------------------------------------------
(* No odd number of columns fills a buffer exactly: the rest of its size, a *)
(* power of two, would have to be in its rows, of which there are too few.  *)
PassesOn(x, k) == \A y, n \in Nat : x * y = k * n => \E z \in Nat : y = k * z

LEMMA PassesOnTwo ==
  ASSUME NEW x \in Nat, x % 2 = 1
  PROVE  PassesOn(x, 2)
<1> SUFFICES ASSUME NEW y \in Nat, NEW n \in Nat, x * y = 2 * n
             PROVE  \E z \in Nat : y = 2 * z
  BY DEF PassesOn
<1> DEFINE h == x \div 2
           g == y \div 2
<1>1. x = 2 * h + 1 /\ h \in Nat
  OBVIOUS
<1>2. g \in Nat /\ (y = 2 * g \/ y = 2 * g + 1)
  OBVIOUS
<1> HIDE DEF h, g
<1>3. CASE y = 2 * g
  BY <1>2, <1>3
<1>4. CASE y = 2 * g + 1
  <2> DEFINE m == h * y
  <2>1. m \in Nat /\ x * y = 2 * m + y
    BY <1>1
  <2> HIDE DEF m
  <2>2. 2 * m + (2 * g + 1) = 2 * n
    BY <1>4, <2>1
  <2> QED
    BY <1>2, <2>1, <2>2
<1> QED
  BY <1>2, <1>3, <1>4

LEMMA PassesOnBoth ==
  ASSUME NEW x \in Nat, NEW j \in Nat, j > 0, NEW k \in Nat, PassesOn(x, j), PassesOn(x, k)
  PROVE  PassesOn(x, j * k)
<1> SUFFICES ASSUME NEW y \in Nat, NEW n \in Nat, x * y = (j * k) * n
             PROVE  \E z \in Nat : y = (j * k) * z
  BY DEF PassesOn
<1>1. x * y = j * (k * n) /\ k * n \in Nat
  OBVIOUS
<1>2. PICK z \in Nat : y = j * z
  BY <1>1 DEF PassesOn
<1>3. x * z = k * n
  <2> DEFINE a == x * z
             b == k * n
  <2>1. a \in Nat /\ b \in Nat /\ j * a = j * b
    BY <1>1, <1>2
  <2> HIDE DEF a, b
  <2>2. a = b
    BY <2>1
  <2> QED
    BY <2>2 DEF a, b
<1>4. PICK u \in Nat : z = k * u
  BY <1>3 DEF PassesOn
<1>5. y = (j * k) * u
  BY <1>2, <1>4
<1> QED
  BY <1>5

FillsNone(z) == \A q \in Nat : z # 8192 * q

LEMMA OddFillsNone ==
  ASSUME NEW x \in Nat, x % 2 = 1, NEW y \in Nat, y > 0, y <= 4096
  PROVE  FillsNone(x * y)
<1>1. PassesOn(x, 2)
  BY PassesOnTwo
<1>2. PassesOn(x, 4)
  <2>1. PassesOn(x, 2 * 2)
    BY <1>1, PassesOnBoth
  <2> QED
    BY <2>1
<1>3. PassesOn(x, 16)
  <2>1. PassesOn(x, 4 * 4)
    BY <1>2, PassesOnBoth
  <2> QED
    BY <2>1
<1>4. PassesOn(x, 256)
  <2>1. PassesOn(x, 16 * 16)
    BY <1>3, PassesOnBoth
  <2> QED
    BY <2>1
<1>5. PassesOn(x, 4096)
  <2>1. PassesOn(x, 256 * 16)
    BY <1>3, <1>4, PassesOnBoth
  <2> QED
    BY <2>1
<1>6. PassesOn(x, 8192)
  <2>1. PassesOn(x, 4096 * 2)
    BY <1>1, <1>5, PassesOnBoth
  <2> QED
    BY <2>1
<1> SUFFICES ASSUME NEW q \in Nat, x * y = 8192 * q PROVE FALSE
  BY DEF FillsNone
<1>7. PICK z \in Nat : y = 8192 * z
  BY <1>6 DEF PassesOn
<1> QED
  BY <1>7, SMT

LEMMA BufferOf == \E q \in Nat : bufsize = 4 * (8192 * q)
<1>1. /\ 2097152 = 4 * (8192 * 64) /\ 4194304 = 4 * (8192 * 128)
      /\ 8388608 = 4 * (8192 * 256) /\ 16777216 = 4 * (8192 * 512)
      /\ 33554432 = 4 * (8192 * 1024) /\ 67108864 = 4 * (8192 * 2048)
  BY SMT
<1> QED
  BY <1>1, BufferIs, SMT

-----------------------------------------------------------------------------
(* A screen that fits the buffers in 32 bits fits them in every depth, with *)
(* what Blit and grayPattern add to it.                                     *)
ScreenFits(d, s) ==
  /\ s.h * RowbytesForBack(d, s.w) <= bufsize
  /\ GrayPattern(d, s) <= bufsize
  /\ BlitInside(d, s.w)

LEMMA AllFit ==
  ASSUME NEW s \in Sizes, Fits(s), NEW d \in k1bit .. k32bit
  PROVE  ScreenFits(d, s)
<1> DEFINE x == s.w
           y == s.h
           row == RowbytesForBack(d, x)
           z == x * y
           B == bufsize
<1>1. x \in 1 .. 4096 /\ y \in 1 .. 4096
  BY SizesAre
<1>2. y * RowbytesForBack(k32bit, x) <= bufsize
  BY DEF Fits, Bytes
<1>3. GrayPattern(d, s) = IF d = k32bit THEN (y - 1) * row + Upward(row, 8)
                          ELSE (y - 1) * row + Upward(row, 4)
  BY DEF GrayPattern, Upward
<1> HIDE DEF x, y
<1>4. x \in Nat /\ y \in Nat /\ x > 0 /\ y > 0 /\ y <= 4096
  BY <1>1
<1>5. BlitInside(d, x)
  BY <1>4, BlitsInside
<1>6. 4 * z <= B /\ z \in Nat /\ B \in Nat
  <2>1. y * (4 * x) = 4 * z
    BY <1>4
  <2> QED
    BY <1>2, <1>4, <2>1, FourBytes, BufferIsEnough
<1>7. row \in Nat /\ row <= 4 * x
  BY <1>4, RowsAreNoLonger
<1> HIDE DEF row
<1>8. y * row <= B
  <2>1. row * y <= (4 * x) * y
    BY <1>4, <1>7, Grows
  <2>2. row * y = y * row /\ (4 * x) * y = 4 * z /\ y * row \in Nat
    BY <1>4, <1>7
  <2> DEFINE p == y * row
  <2>3. p \in Nat /\ p <= 4 * z
    BY <2>1, <2>2
  <2> HIDE DEF p, z, B
  <2>4. p <= B
    BY <1>6, <2>3
  <2> QED
    BY <2>4 DEF p
<1>9. (y - 1) * row <= 4 * z - 4 * x /\ (y - 1) * row \in Nat
  <2>1. y - 1 \in Nat /\ 4 * x \in Nat
    BY <1>4
  <2>2. row * (y - 1) <= (4 * x) * (y - 1)
    BY <1>7, <2>1, Grows
  <2>3. (4 * x) * (y - 1) = 4 * z - 4 * x
    BY <1>4
  <2>4. row * (y - 1) = (y - 1) * row /\ (y - 1) * row \in Nat
    BY <1>7, <2>1
  <2> QED
    BY <2>2, <2>3, <2>4
<1> DEFINE P == (y - 1) * row
<1> HIDE DEF P
<1>10. P \in Nat /\ P <= 4 * z - 4 * x
  BY <1>9 DEF P
<1>11. ASSUME d # k32bit PROVE GrayPattern(d, s) <= B
  <2> DEFINE u == Upward(row, 4)
  <2>1. u \in Nat /\ u <= 4 * x
    BY <1>4, <1>11, RowsAreNoLonger DEF row
  <2>2. GrayPattern(d, s) = P + u
    BY <1>3, <1>11 DEF P
  <2> HIDE DEF u, z, B
  <2>3. P + u <= B
    BY <1>4, <1>6, <1>10, <2>1
  <2> QED
    BY <2>2, <2>3 DEF B
<1>12. ASSUME d = k32bit PROVE GrayPattern(d, s) <= B
  <2> DEFINE u == Upward(row, 8)
  <2>1. row = 4 * x
    BY <1>4, <1>12, FourBytes DEF row
  <2>2. GrayPattern(d, s) = P + u
    BY <1>3, <1>12 DEF P
  <2>3. u = ((4 * x + 7) \div 8) * 8
    BY <1>4, <2>1 DEF Upward
  <2>4. CASE x % 2 = 0
    <3>1. u = 4 * x
      BY <1>4, <2>3, <2>4
    <3> HIDE DEF u, z, B
    <3>2. P + u <= B
      BY <1>4, <1>6, <1>10, <3>1
    <3> QED
      BY <2>2, <3>2 DEF B
  <2>5. CASE x % 2 = 1
    <3>1. u = 4 * x + 4
      BY <1>4, <2>3, <2>5
    <3>2. PICK q \in Nat : B = 4 * (8192 * q)
      BY BufferOf
    <3>3. z # 8192 * q
      <4>1. FillsNone(z)
        BY <1>4, <2>5, OddFillsNone
      <4> HIDE DEF z
      <4> QED
        BY <4>1 DEF FillsNone
    <3> HIDE DEF u, z, B
    <3>4. 4 * z + 4 <= B
      BY <1>6, <3>2, <3>3, SMT
    <3>5. P + u <= B
      BY <1>4, <1>6, <1>10, <3>1, <3>4
    <3> QED
      BY <2>2, <3>5 DEF B
  <2>6. x % 2 = 0 \/ x % 2 = 1
    BY <1>4
  <2> QED
    BY <2>4, <2>5, <2>6
<1>13. GrayPattern(d, s) <= B
  BY <1>11, <1>12
<1> QED
  BY <1>5, <1>8, <1>13 DEF ScreenFits, B, x, y, row

-----------------------------------------------------------------------------
(* The list of resolutions: the built-in ones never change, the fifth entry *)
(* is none of them, and it is not empty while its size may be set.          *)
BuiltInSize(s) == \E i \in 1 .. 4 : BuiltIn[i] = s

ModesInv ==
  /\ client \in Clients /\ window \in Wishes
  /\ best.size \in Sizes /\ size \in Sizes /\ depth \in k1bit .. k32bit
  /\ DOMAIN rezzes = 1 .. 5 /\ \A i \in 1 .. 4 : rezzes[i] = BuiltIn[i]
  /\ rezzes[5] = NoSize \/ (rezzes[5] \in Sizes /\ ~BuiltInSize(rezzes[5]))
  /\ BuiltInSize(size) \/ rezzes[5] # NoSize
  /\ ~refused => BuiltInSize(size) \/ rezzes[5] = size

LEMMA BuiltInEntries ==
  /\ BuiltIn[1] = Size(512, 342) /\ BuiltIn[2] = Size(640, 480)
  /\ BuiltIn[3] = Size(800, 600) /\ BuiltIn[4] = Size(1024, 768) /\ BuiltIn[5] = NoSize
  /\ DOMAIN BuiltIn = 1 .. 5
BY DEF BuiltIn

LEMMA BuiltInSizes == \A i \in 1 .. 4 : BuiltIn[i] \in Sizes
BY BuiltInEntries DEF Size, Sizes

LEMMA SizesAreNotEmpty == \A s \in Sizes : s.w # 0
<1> SUFFICES ASSUME NEW s \in Sizes PROVE s.w # 0
  OBVIOUS
<1> DEFINE n == s.w
<1>1. n \in 1 .. 4096
  BY SizesAre
<1> HIDE DEF n
<1>2. n # 0
  BY <1>1
<1> QED
  BY <1>2 DEF n

LEMMA NoSizeIsNone == NoSize \notin Sizes /\ ~BuiltInSize(NoSize)
<1>1. NoSize.w = 0
  BY DEF Size, NoSize
<1>2. NoSize \notin Sizes
  BY <1>1, SizesAreNotEmpty
<1> QED
  BY <1>2, BuiltInSizes, Zenon DEF BuiltInSize

LEMMA BuiltInDistinct ==
  \A i, j \in 1 .. 4 : BuiltIn[i] = BuiltIn[j] => i = j
<1> SUFFICES ASSUME NEW i \in 1 .. 4, NEW j \in 1 .. 4, BuiltIn[i] = BuiltIn[j] PROVE i = j
  OBVIOUS
<1>1. BuiltIn[i].w = BuiltIn[j].w
  OBVIOUS
<1>2. \A k \in 1 .. 4 : BuiltIn[k].w = IF k = 1 THEN 512 ELSE IF k = 2 THEN 640
                                       ELSE IF k = 3 THEN 800 ELSE 1024
  BY BuiltInEntries DEF Size
<1> QED
  BY <1>1, <1>2

LEMMA IdOfBuiltIn ==
  ASSUME \A i \in 1 .. 4 : rezzes[i] = BuiltIn[i], NEW k \in 1 .. 4
  PROVE  IdForRes(BuiltIn[k]) = k
<1> DEFINE known == {i \in 1 .. 4 : rezzes[i] = BuiltIn[k]}
<1>1. known = {k}
  BY BuiltInDistinct
<1>2. Min({k}) = k
  BY DEF Min
<1> QED
  BY <1>1, <1>2 DEF IdForRes

LEMMA IdOfOther ==
  ASSUME \A i \in 1 .. 4 : rezzes[i] = BuiltIn[i], NEW s, ~BuiltInSize(s)
  PROVE  IdForRes(s) = 5
BY DEF IdForRes, BuiltInSize

LEMMA IdOfAny ==
  ASSUME \A i \in 1 .. 4 : rezzes[i] = BuiltIn[i], NEW s
  PROVE  \/ BuiltInSize(s) /\ IdForRes(s) \in 1 .. 4 /\ BuiltIn[IdForRes(s)] = s
         \/ ~BuiltInSize(s) /\ IdForRes(s) = 5
<1>1. CASE BuiltInSize(s)
  <2>1. PICK k \in 1 .. 4 : BuiltIn[k] = s
    BY <1>1 DEF BuiltInSize
  <2> QED
    BY <1>1, <2>1, IdOfBuiltIn
<1> QED
  BY <1>1, IdOfOther

(* What mode and DMSetDisplayMode may set is a size. *)
LEMMA IdsHaveSizes ==
  ASSUME ModesInv
  PROVE  /\ \A id \in 1 .. ResCount : rezzes[id] \in Sizes
         /\ rezzes[IdForRes(size)] \in Sizes
         /\ ResCount = IF rezzes[5] = NoSize THEN 4 ELSE 5
<1>1. rezzes[5] \in Sizes => rezzes[5].w # 0
  BY SizesAreNotEmpty, SMT
<1>2. NoSize.w = 0
  BY DEF NoSize, Size
<1>3. ResCount = IF rezzes[5] = NoSize THEN 4 ELSE 5
  BY <1>1, <1>2 DEF ResCount, ModesInv
<1>4. \A id \in 1 .. ResCount : rezzes[id] \in Sizes
  BY <1>3, BuiltInSizes DEF ModesInv
<1>5. rezzes[IdForRes(size)] \in Sizes
  BY IdOfAny, BuiltInSizes DEF ModesInv
<1> QED
  BY <1>3, <1>4, <1>5

LEMMA ModesInit == Init => ModesInv
<1> SUFFICES ASSUME Init PROVE ModesInv
  OBVIOUS
<1> DEFINE at == IF \E i \in 1 .. 4 : BuiltIn[i] = size
                 THEN CHOOSE i \in 1 .. 4 : BuiltIn[i] = size ELSE 5
<1>1. /\ client \in Clients /\ window \in Wishes /\ depth = k32bit
      /\ best = [window |-> window, size |-> Best[window]] /\ size = best.size
      /\ rezzes = [BuiltIn EXCEPT ![at] = size]
  BY Zenon DEF Init
<1>2. best.size \in Sizes
  <2>1. best.size = Best[window]
    BY <1>1
  <2>2. \A s \in Wishes : Best[s] \in Sizes
    BY BestIs
  <2> QED
    BY <1>1, <2>1, <2>2, Zenon
<1> HIDE DEF at
<1>3. depth \in k1bit .. k32bit
  BY <1>1 DEF k1bit, k32bit
<1>4. CASE BuiltInSize(size)
  <2>1. at \in 1 .. 4 /\ BuiltIn[at] = size
    BY <1>4 DEF at, BuiltInSize
  <2>2. DOMAIN rezzes = 1 .. 5 /\ \A i \in 1 .. 5 : rezzes[i] = BuiltIn[i]
    BY <1>1, <2>1, BuiltInEntries
  <2> QED
    BY <1>1, <1>2, <1>3, <1>4, <2>2, BuiltInEntries DEF ModesInv
<1>5. CASE ~BuiltInSize(size)
  <2>1. at = 5
    BY <1>5 DEF at, BuiltInSize
  <2>2. DOMAIN rezzes = 1 .. 5 /\ rezzes[5] = size /\ \A i \in 1 .. 4 : rezzes[i] = BuiltIn[i]
    BY <1>1, <2>1, BuiltInEntries
  <2> QED
    BY <1>1, <1>2, <1>3, <1>5, <2>2, NoSizeIsNone DEF ModesInv
<1> QED
  BY <1>4, <1>5

(* A mode that is set is one that was listed, or the one it was called with *)
LEMMA ModesKept ==
  ASSUME ModesInv, client' = client, window' \in Wishes, best'.size \in Sizes, rezzes' = rezzes,
         depth' \in k1bit .. k32bit,
         \/ size' = size /\ refused' = refused
         \/ size' \in Sizes /\ \E id \in 1 .. 5 : size' = rezzes[id]
  PROVE  ModesInv'
<1>1. CASE size' = size /\ refused' = refused
  <2>1. ModesInv /\ rezzes' = rezzes /\ (BuiltInSize(size') <=> BuiltInSize(size))
    BY <1>1
  <2> QED
    BY <1>1, <2>1 DEF ModesInv
<1>2. CASE size' \in Sizes /\ \E id \in 1 .. 5 : size' = rezzes[id]
  <2>1. BuiltInSize(size') \/ rezzes[5] = size'
    BY <1>2 DEF ModesInv, BuiltInSize
  <2>2. rezzes'[5] = rezzes[5]
    OBVIOUS
  <2> QED
    BY <1>2, <2>1, <2>2, NoSizeIsNone DEF ModesInv
<1> QED
  BY <1>1, <1>2

LEMMA ModesSet ==
  ASSUME ModesInv, SetMode \/ SwitchMode
  PROVE  ModesInv'
<1>1. client' = client /\ rezzes' = rezzes /\ window' = window /\ best' = best
  BY DEF SetMode, SwitchMode, hostVars, noteVars, Mode, Refused, listVars
<1>2. PICK d \in client.depths, id \in 1 .. 5 : (Mode(d, id) /\ rezzes[id] \in Sizes) \/ Refused
  BY IdsHaveSizes, IdOfAny DEF SetMode, SwitchMode, ModesInv
<1>3. window \in Wishes /\ best.size \in Sizes /\ depth \in k1bit .. k32bit
  BY DEF ModesInv
<1>4. d \in k1bit .. k32bit
  BY ModesAssumption DEF ModesInv
<1>5. CASE Mode(d, id) /\ rezzes[id] \in Sizes
  <2>1. depth' = d /\ size' = rezzes[id]
    BY <1>5, Zenon DEF Mode
  <2> QED
    BY <1>1, <1>3, <1>4, <1>5, <2>1, ModesKept
<1>6. CASE Refused
  <2>1. depth' = depth /\ size' = size /\ refused' = refused
    BY <1>6 DEF Refused, listVars
  <2> QED
    BY <1>1, <1>3, <2>1, ModesKept
<1> QED
  BY <1>2, <1>5, <1>6

(* The notification puts the size into the list before it is adopted. *)
LEMMA ModesForced ==
  ASSUME ModesInv, DMSetDisplayMode
  PROVE  ModesInv'
<1>1. /\ client' = client /\ window' = window /\ best' = best /\ depth' = depth
      /\ rezzes' = Forced(best.size)
  BY DEF DMSetDisplayMode, hostVars, noteVars
<1>2. /\ client \in Clients /\ window \in Wishes
      /\ best.size \in Sizes /\ size \in Sizes /\ depth \in k1bit .. k32bit
      /\ DOMAIN rezzes = 1 .. 5 /\ \A i \in 1 .. 4 : rezzes[i] = BuiltIn[i]
  BY DEF ModesInv
<1>3. /\ DOMAIN rezzes' = 1 .. 5 /\ \A i \in 1 .. 4 : rezzes'[i] = BuiltIn[i]
      /\ rezzes'[5] = IF BuiltInSize(best.size) THEN rezzes[5] ELSE best.size
  <2>1. CASE BuiltInSize(best.size)
    <3>1. IdForRes(best.size) \in 1 .. 4 /\ BuiltIn[IdForRes(best.size)] = best.size
      BY <1>2, <2>1, IdOfAny
    <3> QED
      BY <1>1, <1>2, <2>1, <3>1 DEF Forced
  <2>2. CASE ~BuiltInSize(best.size)
    BY <1>1, <1>2, <2>2, IdOfOther DEF Forced
  <2> QED
    BY <2>1, <2>2
<1>4. rezzes'[5] = NoSize \/ (rezzes'[5] \in Sizes /\ ~BuiltInSize(rezzes'[5]))
  BY <1>2, <1>3 DEF ModesInv
<1>5. BuiltInSize(size) \/ rezzes'[5] # NoSize
  BY <1>2, <1>3, NoSizeIsNone DEF ModesInv
<1>6. CASE size' = rezzes'[IdForRes(best.size)]
  <2>1. size' = best.size
    BY <1>2, <1>3, <1>6, IdOfAny
  <2>2. BuiltInSize(size') \/ rezzes'[5] = size'
    BY <1>3, <2>1
  <2> QED
    BY <1>1, <1>2, <1>3, <1>4, <2>1, <2>2, NoSizeIsNone DEF ModesInv
<1>7. CASE size' = size /\ refused' = TRUE
  BY <1>1, <1>2, <1>3, <1>4, <1>5, <1>7 DEF ModesInv
<1> QED
  BY <1>6, <1>7 DEF DMSetDisplayMode

LEMMA ModesStep == ModesInv /\ [Next]_vars => ModesInv'
<1> SUFFICES ASSUME ModesInv, [Next]_vars PROVE ModesInv'
  OBVIOUS
<1> DEFINE kept == client' = client /\ rezzes' = rezzes /\ size' = size /\ refused' = refused
                   /\ depth' = depth
<1>1. window \in Wishes /\ best.size \in Sizes /\ depth \in k1bit .. k32bit
  BY DEF ModesInv
<1>2. CASE HostResizes
  <2>1. kept /\ best' = best /\ window' \in Wishes
    BY <1>2 DEF HostResizes, listVars
  <2> QED
    BY <1>1, <2>1, ModesKept
<1>3. CASE GetBestSize
  <2>1. kept /\ window' = window /\ best' = [window |-> window, size |-> Best[window]]
    BY <1>3, Zenon DEF GetBestSize, listVars, hostVars, GetSuggestedSizes
  <2>2. \A s \in Wishes : Best[s] \in Sizes
    BY BestIs
  <2>3. best'.size = Best[window]
    BY <2>1
  <2>4. best'.size \in Sizes
    BY <1>1, <2>2, <2>3, Zenon
  <2> QED
    BY <1>1, <2>1, <2>4, ModesKept
<1>4. CASE SetMode \/ SwitchMode
  BY <1>4, ModesSet
<1>5. CASE DMSetDisplayMode
  BY <1>5, ModesForced
<1>6. CASE kept /\ window' = window /\ best' = best
  BY <1>1, <1>6, ModesKept
<1>7. Next => \/ HostResizes \/ GetBestSize \/ SetMode \/ SwitchMode \/ DMSetDisplayMode
              \/ (kept /\ window' = window /\ best' = best)
  BY DEF Next, ConfigTopHalf, DConfigChange, LateBootHook, LateBootInstalls, NotificationAtomic,
         SetEntries, SetGamma, GrayPage, SetHardwareCursor, DrawHardwareCursor,
         DrawHardwareCursorMoves, DirtyRectCallback, VBL, noteVars, hostVars, listVars
<1>8. UNCHANGED vars => kept /\ window' = window /\ best' = best
  BY DEF vars, noteVars, hostVars, listVars
<1> QED
  BY <1>2, <1>3, <1>4, <1>5, <1>6, <1>7, <1>8

LEMMA CurMode == ModesInv => CurModeTrue
<1> SUFFICES ASSUME ModesInv, ~refused PROVE CurModeTrue
  BY DEF CurModeTrue
<1> DEFINE id == IdForRes(size)
<1>1. \A i \in 1 .. 4 : rezzes[i] = BuiltIn[i]
  BY DEF ModesInv
<1>2. id \in 1 .. ResCount /\ rezzes[id] = size
  BY <1>1, IdOfAny, IdsHaveSizes, NoSizeIsNone DEF ModesInv
<1>3. ResCount \in 4 .. 5
  BY IdsHaveSizes
<1>4. \A i \in 1 .. ResCount : rezzes[i] = size => i = id
  <2> SUFFICES ASSUME NEW i \in 1 .. ResCount, rezzes[i] = size PROVE i = id
    OBVIOUS
  <2>1. CASE i \in 1 .. 4
    BY <1>1, <2>1, IdOfBuiltIn
  <2>2. CASE i = 5
    <3>1. rezzes[5] # NoSize
      BY <2>2, NoSizeIsNone DEF ModesInv
    <3> QED
      BY <1>1, <2>2, <3>1, IdOfOther DEF ModesInv
  <2> QED
    BY <1>3, <2>1, <2>2
<1> HIDE DEF id
<1>5. GetCurMode.id = id
  BY DEF GetCurMode, id
<1>6. [id |-> id, size |-> size] \in Resolutions
  BY <1>2 DEF Resolutions
<1>7. \A r \in Resolutions : GetModeTiming(r.id).default <=> r.id = id
  <2> SUFFICES ASSUME NEW i \in 1 .. ResCount, NEW r, r = [id |-> i, size |-> rezzes[i]]
               PROVE  GetModeTiming(r.id).default <=> r.id = id
    BY DEF Resolutions
  <2>1. r.id = i
    OBVIOUS
  <2>2. rezzes[i] = size <=> i = id
    BY <1>2, <1>4
  <2> QED
    BY <2>1, <2>2, Zenon DEF GetModeTiming
<1> DEFINE defaults == {m \in Resolutions : GetModeTiming(m.id).default}
           set == [id |-> id, size |-> size]
<1>8. {r.id : r \in defaults} = {id}
  <2>1. set \in defaults /\ set.id = id
    BY <1>6, <1>7
  <2>2. \A r \in defaults : r.id = id
    BY <1>7
  <2> HIDE DEF defaults, set
  <2> QED
    BY <2>1, <2>2
<1> QED
  BY <1>5, <1>6, <1>8 DEF CurModeTrue

(* Every variable keeps its type: the counters and the flags.               *)
CountersTyped == configTasks \in Nat /\ installed \in Nat

FlagsTyped ==
  /\ pending \in BOOLEAN /\ hook \in {"to come", "installing", "done"}
  /\ task \in {"idle", "asking", "setting"}

LEMMA CountersStep == CountersTyped /\ [Next]_vars => CountersTyped'
<1> SUFFICES ASSUME CountersTyped, [Next]_vars PROVE CountersTyped'
  OBVIOUS
<1> USE DEF CountersTyped
<1> DEFINE kept == UNCHANGED <<configTasks, installed>>
<1>1. CASE ConfigTopHalf
  BY <1>1 DEF ConfigTopHalf
<1>2. CASE DConfigChange
  <2>1. configTasks > 0 /\ configTasks' = configTasks - 1
    BY <1>2, Zenon DEF DConfigChange
  <2>2. installed' = installed \/ installed' = installed + 1
    BY <1>2, Zenon DEF DConfigChange, Post
  <2> QED
    BY <2>1, <2>2
<1>3. CASE LateBootInstalls
  BY <1>3 DEF LateBootInstalls
<1>4. CASE NotificationAtomic
  BY <1>4 DEF NotificationAtomic
<1>5. Next => ConfigTopHalf \/ DConfigChange \/ LateBootInstalls \/ NotificationAtomic \/ kept
  BY DEF Next, HostResizes, LateBootHook, GetBestSize, DMSetDisplayMode, SetMode, SwitchMode,
         SetEntries, SetGamma, GrayPage, SetHardwareCursor, DrawHardwareCursor,
         DrawHardwareCursorMoves, DirtyRectCallback, VBL, noteVars
<1>6. UNCHANGED vars => kept
  BY DEF vars, noteVars
<1> QED
  BY <1>1, <1>2, <1>3, <1>4, <1>5, <1>6

LEMMA FlagsStep == FlagsTyped /\ [Next]_vars => FlagsTyped'
<1> SUFFICES ASSUME FlagsTyped, [Next]_vars PROVE FlagsTyped'
  OBVIOUS
<1>1. pending' \in BOOLEAN
  <2>1. Next => pending' = pending \/ pending' = TRUE \/ pending' = FALSE
    BY DEF Next, HostResizes, ConfigTopHalf, DConfigChange, Post, LateBootHook, LateBootInstalls,
           NotificationAtomic, GetBestSize, DMSetDisplayMode, SetMode, SwitchMode, SetEntries,
           SetGamma, GrayPage, SetHardwareCursor, DrawHardwareCursor, DrawHardwareCursorMoves,
           DirtyRectCallback, VBL, noteVars
  <2>2. UNCHANGED vars => pending' = pending
    BY DEF vars, noteVars
  <2> QED
    BY <2>1, <2>2, Zenon DEF FlagsTyped
<1>2. hook' \in {"to come", "installing", "done"}
  <2>1. Next => hook' = hook \/ hook' = "installing" \/ hook' = "done"
    BY DEF Next, HostResizes, ConfigTopHalf, DConfigChange, LateBootHook, LateBootInstalls,
           NotificationAtomic, GetBestSize, DMSetDisplayMode, SetMode, SwitchMode, SetEntries,
           SetGamma, GrayPage, SetHardwareCursor, DrawHardwareCursor, DrawHardwareCursorMoves,
           DirtyRectCallback, VBL, noteVars
  <2>2. UNCHANGED vars => hook' = hook
    BY DEF vars, noteVars
  <2> QED
    BY <2>1, <2>2, Zenon DEF FlagsTyped
<1>3. task' \in {"idle", "asking", "setting"}
  <2>1. Next => task' = task \/ task' \in {"idle", "asking", "setting"}
    BY DEF Next, HostResizes, ConfigTopHalf, DConfigChange, LateBootHook, LateBootInstalls,
           NotificationAtomic, GetBestSize, DMSetDisplayMode, SetMode, SwitchMode, SetEntries,
           SetGamma, GrayPage, SetHardwareCursor, DrawHardwareCursor, DrawHardwareCursorMoves,
           DirtyRectCallback, VBL
  <2>2. UNCHANGED vars => task' = task
    BY DEF vars
  <2> QED
    BY <2>1, <2>2, Zenon DEF FlagsTyped
<1> QED
  BY <1>1, <1>2, <1>3, Zenon DEF FlagsTyped

LEMMA TypesHold == ModesInv /\ CountersTyped /\ FlagsTyped => TypeOK
<1> SUFFICES ASSUME ModesInv, CountersTyped, FlagsTyped PROVE TypeOK
  OBVIOUS
<1> DEFINE wide == [w : 0 .. 4096, h : 0 .. 4096]
<1>1. \A s \in Sizes : s \in wide
  BY DEF Sizes
<1>2. NoSize \in wide
  BY DEF NoSize, Size
<1> HIDE DEF wide
<1>3. \A i \in 1 .. 4 : rezzes[i] \in wide
  BY <1>1, BuiltInSizes DEF ModesInv
<1>4. rezzes[5] \in wide
  BY <1>1, <1>2, Zenon DEF ModesInv
<1>5. \A i \in 1 .. 5 : rezzes[i] \in wide
  BY <1>3, <1>4
<1>6. size \in Sizes /\ depth \in k1bit .. k32bit
  BY DEF ModesInv
<1>7. /\ configTasks \in Nat /\ installed \in Nat
      /\ pending \in BOOLEAN /\ hook \in {"to come", "installing", "done"}
      /\ task \in {"idle", "asking", "setting"}
  BY Zenon DEF CountersTyped, FlagsTyped
<1> DEFINE numbers == [w : 1 .. 4096, h : 1 .. 4096]
<1>9. size \in numbers
  <2>1. Sizes = numbers
    BY DEF Sizes
  <2> HIDE DEF numbers
  <2> QED
    BY <1>6, <2>1
<1> DEFINE typed ==
             /\ size \in numbers /\ depth \in k1bit .. k32bit
             /\ \A i \in 1 .. 5 : rezzes[i] \in wide
             /\ configTasks \in Nat /\ installed \in Nat
             /\ pending \in BOOLEAN /\ hook \in {"to come", "installing", "done"}
             /\ task \in {"idle", "asking", "setting"}
<1>10. typed = TypeOK
  BY Zenon DEF TypeOK, wide
<1> HIDE DEF numbers, typed
<1>11. typed
  BY <1>5, <1>6, <1>7, <1>9, Zenon DEF typed
<1> QED
  BY <1>10, <1>11, Zenon

(* The sizes and depths that are listed and set are numbers of the mode     *)
(* calls' range, and the queue counters never run below zero.               *)
THEOREM ModesTyped == Spec => []TypeOK
<1>1. Init => ModesInv
  BY ModesInit
<1>2. Init => CountersTyped
  <2>1. Init => configTasks = 0 /\ installed = 0
    BY Zenon DEF Init
  <2> QED
    BY <2>1 DEF CountersTyped
<1>3. Init => FlagsTyped
  BY Zenon DEF Init, FlagsTyped
<1>4. ModesInv /\ [Next]_vars => ModesInv'
  BY ModesStep
<1>5. CountersTyped /\ [Next]_vars => CountersTyped'
  BY CountersStep
<1>6. FlagsTyped /\ [Next]_vars => FlagsTyped'
  BY FlagsStep
<1>7. ModesInv /\ CountersTyped /\ FlagsTyped => TypeOK
  BY TypesHold
<1> QED
  BY <1>1, <1>2, <1>3, <1>4, <1>5, <1>6, <1>7, PTL DEF Spec

(* Unless the last mode was refused, the mode that GetCurMode reports is    *)
(* listed with the size that is set, and it is the one default mode: so     *)
(* SetMode, which names no resolution, changes the depth only.              *)
THEOREM CurModeListed == Spec => []CurModeTrue
<1>1. Init => ModesInv
  BY ModesInit
<1>2. ModesInv /\ [Next]_vars => ModesInv'
  BY ModesStep
<1>3. ModesInv => CurModeTrue
  BY CurMode
<1> QED
  BY <1>1, <1>2, <1>3, PTL DEF Spec

-----------------------------------------------------------------------------
(* Whatever is listed fits the back buffer.                                 *)
BuiltInFit == \A i \in 1 .. 4 : Fits(BuiltIn[i])

(* 4 MB are enough for the built-in resolutions; 2 MB, which is the least   *)
(* that the driver starts with, are not.                                    *)
LEMMA FourMegabytes == ASSUME bufsize >= 4194304 PROVE BuiltInFit
<1>1. bufsize \in Nat
  BY BufferIsEnough
<1>2. ASSUME NEW w \in Nat, NEW h \in Nat, w <= 1024, h <= 768
      PROVE  Fits(Size(w, h))
  <2> DEFINE z == h * (4 * w)
  <2>1. Bytes(k32bit, Size(w, h)) = z
    BY FourBytes DEF Bytes, Size
  <2>2. z <= 768 * (4 * w)
    BY <1>2, Grows
  <2>3. z \in Nat
    OBVIOUS
  <2> HIDE DEF z
  <2>4. z <= bufsize
    BY <1>1, <1>2, <2>2, <2>3, SMT
  <2> QED
    BY <2>1, <2>4 DEF Fits
<1>3. /\ Fits(BuiltIn[1]) /\ Fits(BuiltIn[2])
      /\ Fits(BuiltIn[3]) /\ Fits(BuiltIn[4])
  BY <1>2, BuiltInEntries, SMT
<1> QED
  BY <1>3 DEF BuiltInFit

FitInv == Fits(best.size) /\ (rezzes[5] = NoSize \/ Fits(rezzes[5]))

LEMMA FitInit == Init /\ ModesInv => FitInv
<1> SUFFICES ASSUME Init, ModesInv PROVE FitInv
  OBVIOUS
<1> DEFINE at == IF \E i \in 1 .. 4 : BuiltIn[i] = size
                 THEN CHOOSE i \in 1 .. 4 : BuiltIn[i] = size ELSE 5
<1>1. /\ window \in Wishes /\ best = [window |-> window, size |-> Best[window]]
      /\ size = best.size /\ rezzes = [BuiltIn EXCEPT ![at] = size]
  BY Zenon DEF Init
<1>2. Fits(best.size)
  BY <1>1, BestIs
<1>3. rezzes[5] = size \/ rezzes[5] = NoSize
  <2> HIDE DEF at
  <2> QED
    BY <1>1, BuiltInEntries
<1> QED
  BY <1>1, <1>2, <1>3 DEF FitInv

LEMMA FitStep == FitInv /\ ModesInv /\ [Next]_vars => FitInv'
<1> SUFFICES ASSUME FitInv, ModesInv, [Next]_vars PROVE FitInv'
  OBVIOUS
<1> DEFINE kept == rezzes' = rezzes /\ best' = best
<1>1. CASE GetBestSize
  <2>1. rezzes' = rezzes /\ best' = [window |-> window, size |-> Best[window]]
    BY <1>1, Zenon DEF GetBestSize, listVars, GetSuggestedSizes
  <2>2. window \in Wishes
    BY DEF ModesInv
  <2>3. Fits(best'.size)
    BY <2>1, <2>2, BestIs
  <2> QED
    BY <2>1, <2>3 DEF FitInv
<1>2. CASE DMSetDisplayMode
  <2>1. best' = best /\ rezzes' = Forced(best.size)
    BY <1>2 DEF DMSetDisplayMode, noteVars
  <2>2. DOMAIN rezzes = 1 .. 5
    BY DEF ModesInv
  <2>3. rezzes'[5] = rezzes[5] \/ rezzes'[5] = best.size
    BY <2>1, <2>2 DEF Forced
  <2> QED
    BY <2>1, <2>3 DEF FitInv
<1>3. CASE kept
  BY <1>3 DEF FitInv
<1>4. Next => GetBestSize \/ DMSetDisplayMode \/ kept
  BY DEF Next, HostResizes, ConfigTopHalf, DConfigChange, LateBootHook, LateBootInstalls,
         NotificationAtomic, SetMode, SwitchMode, Mode, Refused, SetEntries, SetGamma, GrayPage,
         SetHardwareCursor, DrawHardwareCursor, DrawHardwareCursorMoves, DirtyRectCallback, VBL,
         noteVars, listVars
<1>5. UNCHANGED vars => kept
  BY DEF vars, noteVars, listVars
<1> QED
  BY <1>1, <1>2, <1>3, <1>4, <1>5

LEMMA ListFits == BuiltInFit /\ ModesInv /\ FitInv => BackFits
<1> SUFFICES ASSUME BuiltInFit, ModesInv, FitInv,
                    NEW id \in 1 .. ResCount, NEW d \in k1bit .. k32bit
             PROVE  LET r == [id |-> id, size |-> rezzes[id]]
                        given == GetVideoParameters(r.id, d)
                        blit == BlitColumns(d, r.size.w - 1, r.size.w)
                    IN  /\ given.bounds = r.size /\ r.size.h * given.rowBytes <= bufsize
                        /\ GrayPattern(d, r.size) <= bufsize
                        /\ blit.l < r.size.w /\ blit.r * Bits(d) <= 8 * given.rowBytes
                        /\ 4 * blit.r <= RowbytesForFront(d, r.size.w)
  BY DEF BackFits, Resolutions
<1> DEFINE s == rezzes[id]
<1>1. s \in Sizes
  BY IdsHaveSizes
<1>2. Fits(s)
  <2>1. ResCount \in 4 .. 5 /\ (ResCount = 5 => rezzes[5] # NoSize)
    BY IdsHaveSizes
  <2>2. CASE id \in 1 .. 4
    BY <2>2 DEF BuiltInFit, ModesInv
  <2>3. CASE id = 5
    <3>1. rezzes[5] # NoSize
      BY <2>1, <2>3
    <3> QED
      BY <2>3, <3>1 DEF FitInv
  <2> QED
    BY <2>1, <2>2, <2>3
<1>3. ScreenFits(d, s)
  BY <1>1, <1>2, AllFit
<1>4. GetVideoParameters(id, d).bounds = s /\ GetVideoParameters(id, d).rowBytes = RowbytesForBack(d, s.w)
  BY DEF GetVideoParameters
<1> QED
  BY <1>3, <1>4, Zenon DEF ScreenFits, BlitInside

(* With buffers that the built-in resolutions fit, every resolution that is *)
(* listed fits the back buffer in every depth, with what Blit and           *)
(* grayPattern add to it, and the mode that is reported is a listed one:    *)
(* for every sequence of sizes that the host's window takes, getBestSize    *)
(* comes to one that fits, and nothing else gets into the list.             *)
THEOREM ModesAlwaysTrue == ASSUME BuiltInFit PROVE Spec => []ModesTrue
<1>1. Spec => []TypeOK
  BY ModesTyped
<1>2. Spec => []CurModeTrue
  BY CurModeListed
<1>3. Init => ModesInv
  BY ModesInit
<1>4. ModesInv /\ [Next]_vars => ModesInv'
  BY ModesStep
<1>5. Init /\ ModesInv => FitInv
  BY FitInit
<1>6. FitInv /\ ModesInv /\ [Next]_vars => FitInv'
  BY FitStep
<1>7. ModesInv /\ FitInv => BackFits
  BY ListFits
<1>8. TypeOK /\ CurModeTrue /\ BackFits => ModesTrue
  BY DEF ModesTrue
<1> QED
  BY <1>1, <1>2, <1>3, <1>4, <1>5, <1>6, <1>7, <1>8, PTL DEF Spec

-----------------------------------------------------------------------------
(* The cursor.  While DrawHardwareCursor is under way the cursor is still   *)
(* where it was, shown or hidden already, and the front buffer may show it  *)
(* there only.                                                              *)
Tables == Gammas \union {builtinGamma[1]}

Cursors == [set : BOOLEAN, visible : BOOLEAN, t : Int, b : Int, gamma : Tables]

Shown(c, s) == IF c.visible THEN OnScreen(c, s) ELSE {}

(* Drawing the cursor stays on the screen.                                  *)
LEMMA Unseen ==
  ASSUME NEW h \in Nat, NEW ct \in Int, NEW cb \in Int, ~(ct < h /\ 0 < cb)
  PROVE  Largest(0, ct) .. Least(cb, h) - 1 = {}
BY DEF Largest, Least

LEMMA SeenInside ==
  ASSUME NEW h \in Nat, NEW ct \in Int, NEW cb \in Int
  PROVE  Largest(0, ct) .. Least(cb, h) - 1 \subseteq 0 .. h - 1
BY DEF Largest, Least

LEMMA WholeRepainted ==
  ASSUME NEW c \in Cursors, NEW s, s.h \in Nat, NEW rows
  PROVE  Repainted(Blit(rows, 0, s.h), c, s, 0, s.h) \intersect 0 .. s.h - 1 = Shown(c, s)
<1> DEFINE h == s.h
           ct == c.t
           cb == c.b
           seen == Largest(0, ct) .. Least(cb, h) - 1
<1>1. h \in Nat /\ ct \in Int /\ cb \in Int
  BY DEF Cursors
<1>2. OnScreen(c, s) = seen
  BY DEF OnScreen
<1>3. Overlaps(c, 0, h) <=> c.visible /\ ct < h /\ 0 < cb
  BY DEF Overlaps
<1> HIDE DEF h, ct, cb, seen
<1>4. Blit(rows, 0, h) \intersect 0 .. h - 1 = {}
  BY <1>1 DEF Blit
<1>5. seen \subseteq 0 .. h - 1
  BY <1>1, SeenInside DEF seen
<1>6. ~(ct < h /\ 0 < cb) => seen = {}
  BY <1>1, Unseen DEF seen
<1> DEFINE frame == 0 .. h - 1
           left == Blit(rows, 0, h)
           all == Repainted(left, c, s, 0, h)
<1>7. left \intersect frame = {} /\ seen \subseteq frame
  BY <1>4, <1>5
<1>8. all = IF Overlaps(c, 0, h) THEN left \union seen ELSE left
  BY <1>2, Zenon DEF Repainted
<1>9. Shown(c, s) = IF c.visible THEN seen ELSE {}
  BY <1>2, Zenon DEF Shown
<1> HIDE DEF frame, left, all
<1>10. CASE Overlaps(c, 0, h)
  <2>1. Shown(c, s) = seen /\ all = left \union seen
    BY <1>3, <1>8, <1>9, <1>10, Zenon
  <2> QED
    BY <1>7, <2>1 DEF h, frame, left, all
<1>11. CASE ~Overlaps(c, 0, h)
  <2>1. Shown(c, s) = {} /\ all = left
    BY <1>3, <1>6, <1>8, <1>9, <1>11, Zenon
  <2> QED
    BY <1>7, <2>1 DEF h, frame, left, all
<1> QED
  BY <1>10, <1>11

LEMMA FrameRepainted ==
  ASSUME NEW c \in Cursors, NEW s, s.h \in Nat, NEW rows, rows \subseteq 0 .. s.h - 1
  PROVE  Repainted(Blit(rows, 0, s.h), c, s, 0, s.h) = Shown(c, s)
<1> DEFINE h == s.h
<1>1. Blit(rows, 0, s.h) = {}
  <2>1. h \in Nat /\ rows \subseteq 0 .. h - 1
    OBVIOUS
  <2> HIDE DEF h
  <2>2. \A r \in rows : r \in Int /\ 0 <= r /\ r < h
    BY <2>1
  <2>3. Blit(rows, 0, h) = {}
    BY <2>1, <2>2 DEF Blit
  <2> QED
    BY <2>3 DEF h
<1>2. OnScreen(c, s) \subseteq 0 .. s.h - 1
  BY SeenInside DEF OnScreen, Cursors
<1>3. Repainted(Blit(rows, 0, s.h), c, s, 0, s.h) \subseteq 0 .. s.h - 1
  BY <1>1, <1>2, Zenon DEF Repainted
<1>4. Repainted(Blit(rows, 0, s.h), c, s, 0, s.h) \intersect 0 .. s.h - 1 = Shown(c, s)
  BY WholeRepainted
<1> QED
  BY <1>3, <1>4

LEMMA PartRepainted ==
  ASSUME NEW c \in Cursors, NEW s, s.h \in Nat, NEW t \in Int, NEW b \in Int, t < b
  PROVE  Repainted(Blit(Shown(c, s), t, b), c, s, t, b) = Shown(c, s)
<1> DEFINE h == s.h
           ct == c.t
           cb == c.b
           seen == Largest(0, ct) .. Least(cb, h) - 1
<1>1. h \in Nat /\ ct \in Int /\ cb \in Int
  BY DEF Cursors
<1>2. OnScreen(c, s) = seen
  BY DEF OnScreen
<1>3. Overlaps(c, t, b) <=> c.visible /\ ct < b /\ t < cb
  BY DEF Overlaps
<1>4. seen = Largest(0, ct) .. Least(cb, h) - 1
  OBVIOUS
<1> HIDE DEF h, ct, cb, seen
<1>5. Blit({}, t, b) = {}
  BY DEF Blit
<1>6. CASE c.visible
  <2>1. Shown(c, s) = seen
    BY <1>2, <1>6, Zenon DEF Shown
  <2>2. Repainted(Blit(seen, t, b), c, s, t, b)
          = IF ct < b /\ t < cb THEN Blit(seen, t, b) \union seen ELSE Blit(seen, t, b)
    BY <1>2, <1>3, <1>6, Zenon DEF Repainted
  <2>3. IF ct < b /\ t < cb THEN Blit(seen, t, b) \union seen = seen ELSE Blit(seen, t, b) = seen
    <3>1. \A r \in seen : r \in Int /\ ct <= r /\ r < cb
      BY <1>1, <1>4 DEF Largest, Least
    <3>2. CASE ct < b /\ t < cb
      BY <3>2 DEF Blit
    <3>3. CASE ~(ct < b /\ t < cb)
      BY <1>1, <3>1, <3>3 DEF Blit
    <3> QED
      BY <3>2, <3>3
  <2> QED
    BY <2>1, <2>2, <2>3, Zenon
<1>7. CASE ~c.visible
  BY <1>3, <1>5, <1>7, Zenon DEF Repainted, Shown
<1> QED
  BY <1>6, <1>7

LEMMA MinMaxOfTwo ==
  ASSUME NEW x \in Int, NEW y \in Int
  PROVE  /\ Min({x, y}) \in Int /\ Min({x, y}) <= x /\ Min({x, y}) <= y
         /\ Max({x, y}) \in Int /\ Max({x, y}) >= x /\ Max({x, y}) >= y
<1>1. \E m \in {x, y} : \A z \in {x, y} : m <= z
  OBVIOUS
<1>2. \E m \in {x, y} : \A z \in {x, y} : m >= z
  OBVIOUS
<1> QED
  BY <1>1, <1>2 DEF Min, Max

(* The rows that DrawHardwareCursor updates are those of both cursors, as   *)
(* far as they are seen.                                                    *)
LEMMA UnionCovers ==
  ASSUME NEW a \in Cursors, NEW b \in Cursors, a.visible \/ b.visible
  PROVE  /\ Union(a, b) # <<>> /\ Union(a, b)[1] \in Int /\ Union(a, b)[2] \in Int
         /\ a.visible => Union(a, b)[1] <= a.t /\ a.b <= Union(a, b)[2]
         /\ b.visible => Union(a, b)[1] <= b.t /\ b.b <= Union(a, b)[2]
<1> DEFINE seen == {c \in {a, b} : c.visible}
           p == IF a.visible THEN a ELSE b
           q == IF b.visible THEN b ELSE a
           tops == {c.t : c \in seen}
           ends == {c.b : c \in seen}
<1>1. seen = {p, q} /\ seen # {}
  BY Zenon
<1>2. Union(a, b) = <<Min(tops), Largest(0, Max(ends))>>
  BY <1>1 DEF Union
<1>3. p.t \in Int /\ p.b \in Int /\ q.t \in Int /\ q.b \in Int
  BY DEF Cursors
<1>4. (a.visible => p = a) /\ (b.visible => q = b)
  BY Zenon
<1> HIDE DEF seen, p, q
<1>5. tops = {p.t, q.t} /\ ends = {p.b, q.b}
  BY <1>1
<1> HIDE DEF tops, ends
<1>6. /\ Min(tops) \in Int /\ Min(tops) <= p.t /\ Min(tops) <= q.t
      /\ Max(ends) \in Int /\ Max(ends) >= p.b /\ Max(ends) >= q.b
  BY <1>3, <1>5, MinMaxOfTwo
<1> DEFINE first == Min(tops)
           last == Largest(0, Max(ends))
<1>7. /\ first \in Int /\ first <= p.t /\ first <= q.t
      /\ last \in Int /\ p.b <= last /\ q.b <= last
  BY <1>3, <1>6 DEF Largest
<1>8. Union(a, b) = <<first, last>>
  BY <1>2
<1> HIDE DEF first, last
<1>9. Union(a, b) # <<>> /\ Union(a, b)[1] = first /\ Union(a, b)[2] = last
  BY <1>8
<1> QED
  BY <1>4, <1>7, <1>9, Zenon

LEMMA CursorRedrawn ==
  ASSUME NEW a \in Cursors, NEW b \in Cursors, size.h \in Nat
  PROVE  /\ traces \subseteq Shown(a, size) => Redrawn(a, b) = Shown(b, size)
         /\ traces \subseteq 0 .. size.h - 1 => Redrawn(a, b) \subseteq 0 .. size.h - 1
<1>1. CASE ~(a.visible \/ b.visible)
  <2>1. Union(a, b) = <<>>
    BY <1>1, Zenon DEF Union
  <2>2. Redrawn(a, b) = traces
    BY <2>1, Zenon DEF Redrawn
  <2>3. Shown(a, size) = {} /\ Shown(b, size) = {}
    BY <1>1, Zenon DEF Shown
  <2> QED
    BY <2>2, <2>3
<1>2. CASE a.visible \/ b.visible
  <2> DEFINE h == size.h
             t == Largest(Union(a, b)[1], 0)
             e == Least(Union(a, b)[2], h)
             ofa == Largest(0, a.t) .. Least(a.b, h) - 1
             ofb == Largest(0, b.t) .. Least(b.b, h) - 1
  <2>1. /\ h \in Nat /\ a.t \in Int /\ a.b \in Int /\ b.t \in Int /\ b.b \in Int
    BY DEF Cursors
  <2>2. /\ t \in Int /\ e \in Int
        /\ a.visible => \A r \in ofa : r \in Int /\ t <= r /\ r < e
        /\ b.visible => \A r \in ofb : r \in Int /\ t <= r /\ r < e /\ b.t <= r /\ r < b.b
        /\ ofb \subseteq 0 .. h - 1
    <3> DEFINE first == Union(a, b)[1]
               last == Union(a, b)[2]
    <3>1. /\ first \in Int /\ last \in Int
          /\ a.visible => first <= a.t /\ a.b <= last
          /\ b.visible => first <= b.t /\ b.b <= last
      BY <1>2, UnionCovers
    <3>0. t = Largest(first, 0) /\ e = Least(last, h)
      OBVIOUS
    <3> HIDE DEF first, last, h, t, e
    <3>2. t \in Int /\ e \in Int
      BY <2>1, <3>0, <3>1 DEF Largest, Least
    <3>3. ASSUME a.visible PROVE \A r \in ofa : r \in Int /\ t <= r /\ r < e
      BY <2>1, <3>0, <3>1, <3>3 DEF Largest, Least
    <3>4. ASSUME b.visible
          PROVE  \A r \in ofb : r \in Int /\ t <= r /\ r < e /\ b.t <= r /\ r < b.b
      BY <2>1, <3>0, <3>1, <3>4 DEF Largest, Least
    <3>5. ofb \subseteq 0 .. h - 1
      BY <2>1, SeenInside
    <3> HIDE DEF ofa, ofb
    <3> QED
      BY <3>2, <3>3, <3>4, <3>5
  <2>3. Redrawn(a, b) = Repainted(Blit(traces, t, e), b, size, t, e)
    BY <1>2, UnionCovers DEF Redrawn, Updated
  <2>4. /\ Shown(a, size) = (IF a.visible THEN ofa ELSE {})
        /\ Shown(b, size) = (IF b.visible THEN ofb ELSE {})
    BY DEF Shown, OnScreen
  <2>5. Overlaps(b, t, e) <=> b.visible /\ b.t < e /\ t < b.b
    BY DEF Overlaps
  <2>6. Redrawn(a, b) = IF Overlaps(b, t, e) THEN Blit(traces, t, e) \union ofb ELSE Blit(traces, t, e)
    BY <2>3 DEF Repainted, OnScreen
  <2> HIDE DEF h, t, e, ofa, ofb
  <2>7. Blit(traces, t, e) \subseteq traces
    BY DEF Blit
  <2>8. ASSUME traces \subseteq Shown(a, size) PROVE Blit(traces, t, e) = {}
    <3>1. \A r \in traces : r \in Int /\ t <= r /\ r < e
      BY <2>2, <2>4, <2>8
    <3> QED
      BY <3>1 DEF Blit
  <2>9. ~Overlaps(b, t, e) => Shown(b, size) = {}
    <3>1. CASE ~b.visible
      BY <2>4, <3>1, Zenon
    <3>2. CASE b.visible
      <4>1. ASSUME NEW r \in ofb PROVE b.t < e /\ t < b.b
        BY <2>1, <2>2, <3>2
      <4> QED
        BY <2>4, <2>5, <3>2, <4>1, Zenon
    <3> QED
      BY <3>1, <3>2
  <2>10. Overlaps(b, t, e) => Shown(b, size) = ofb
    BY <2>4, <2>5, Zenon
  <2>11. traces \subseteq Shown(a, size) => Redrawn(a, b) = Shown(b, size)
    BY <2>6, <2>8, <2>9, <2>10
  <2>12. traces \subseteq 0 .. h - 1 => Redrawn(a, b) \subseteq 0 .. h - 1
    BY <2>2, <2>6, <2>7
  <2> QED
    BY <2>11, <2>12 DEF h
<1> QED
  BY <1>1, <1>2

Typed ==
  /\ size.h \in Nat /\ cursor \in Cursors /\ gamma \in Tables /\ cursor.gamma = gamma
  /\ told \in [set : BOOLEAN, visible : BOOLEAN, t : Int] /\ told.set = cursor.set
  /\ traces \subseteq 0 .. size.h - 1

AtRest ==
  /\ told.visible = cursor.visible /\ told.t = cursor.t
  /\ smudged = FALSE => traces = Shown(cursor, size)

UnderWay ==
  /\ task = "idle" /\ moving = <<moving[1], moving[2]>>
  /\ moving[1] \in Cursors /\ moving[1].t = cursor.t /\ moving[1].b = cursor.b
  /\ moving[2] \in Cursors /\ moving[2].gamma = gamma /\ moving[2].set = cursor.set
  /\ told.visible = moving[2].visible /\ told.t = moving[2].t
  /\ smudged = FALSE => traces \subseteq Shown(moving[1], size)

CursorInv ==
  /\ Typed
  /\ moving = <<>> => AtRest
  /\ moving # <<>> => UnderWay

LEMMA CursorInit == Init /\ ModesInv => CursorInv
<1> SUFFICES ASSUME Init, ModesInv PROVE CursorInv
  OBVIOUS
<1>1. /\ gamma = builtinGamma[1] /\ traces = {} /\ smudged = FALSE /\ moving = <<>>
      /\ cursor = [set |-> FALSE, visible |-> FALSE, t |-> 0, b |-> 0, gamma |-> gamma]
      /\ told = [set |-> FALSE, visible |-> FALSE, t |-> 0]
  BY Zenon DEF Init
<1>2. size.h \in Nat
  BY SizesNatural DEF ModesInv
<1>3. gamma \in Tables
  BY <1>1 DEF Tables
<1>4. cursor \in Cursors /\ told \in [set : BOOLEAN, visible : BOOLEAN, t : Int]
  BY <1>1, <1>3 DEF Cursors
<1>5. /\ cursor.visible = FALSE /\ told.visible = FALSE /\ cursor.set = FALSE /\ told.set = FALSE
      /\ cursor.t = 0 /\ told.t = 0 /\ cursor.gamma = gamma
  BY <1>1
<1>6. Shown(cursor, size) = {}
  BY <1>5, Zenon DEF Shown
<1> QED
  BY <1>1, <1>2, <1>3, <1>4, <1>5, <1>6, Zenon DEF CursorInv, Typed, AtRest

(* What the steps have in common that draw the whole screen while the       *)
(* cursor is at rest, and those that do not draw it.                        *)
LEMMA CursorPainted ==
  ASSUME CursorInv, size'.h \in Nat, moving = <<>>, moving' = <<>>, told' = told,
         cursor' \in Cursors, cursor'.set = cursor.set, cursor'.visible = cursor.visible,
         cursor'.t = cursor.t, gamma' \in Tables, cursor'.gamma = gamma',
         UpdateAll(cursor', size')
  PROVE  CursorInv'
<1>1. traces' = Shown(cursor', size')
  BY WholeRepainted DEF UpdateAll, Updated
<1>2. traces' = Updated(cursor', size', 0, size'.h) \intersect 0 .. size'.h - 1
  BY Zenon DEF UpdateAll
<1>3. traces' \subseteq 0 .. size'.h - 1
  BY <1>2
<1>4. /\ told \in [set : BOOLEAN, visible : BOOLEAN, t : Int] /\ told.set = cursor.set
      /\ told.visible = cursor.visible /\ told.t = cursor.t
  BY Zenon DEF CursorInv, Typed, AtRest
<1>5. Shown(cursor, size)' = Shown(cursor', size')
  BY DEF Shown, OnScreen, Largest, Least
<1> QED
  BY <1>1, <1>3, <1>4, <1>5, Zenon DEF CursorInv, Typed, AtRest

LEMMA CursorLeft ==
  ASSUME CursorInv, UNCHANGED <<size, moving, told, cursor, gamma, traces, smudged>>,
         task' = task \/ moving = <<>>
  PROVE  CursorInv'
<1>1. Shown(cursor, size)' = Shown(cursor, size)
  BY DEF Shown, OnScreen, Largest, Least
<1>2. Shown(moving[1], size)' = Shown(moving[1], size)
  BY DEF Shown, OnScreen, Largest, Least
<1>3. Typed' /\ (AtRest => AtRest')
  BY <1>1, Zenon DEF CursorInv, Typed, AtRest
<1>4. moving # <<>> => UnderWay'
  BY <1>2, Zenon DEF CursorInv, UnderWay
<1> QED
  BY <1>3, <1>4, Zenon DEF CursorInv

LEMMA CursorReshaped == ASSUME CursorInv, SetHardwareCursor PROVE CursorInv'
<1>1. /\ moving = <<>> /\ moving' = <<>> /\ size' = size /\ gamma' = gamma /\ traces' = traces
  BY DEF SetHardwareCursor, Called, MainIdle, listVars, colourVars
<1>2. Typed /\ AtRest
  BY <1>1 DEF CursorInv
<1>3. CASE \E n \in Heights :
             /\ cursor' = [cursor EXCEPT !.set = TRUE, !.b = cursor.t + n, !.gamma = gamma]
             /\ smudged' = (smudged \/ (cursor.visible /\ cursor.b # cursor.t + n))
             /\ told' = [told EXCEPT !.set = TRUE]
  <2>1. PICK n \in Heights :
             /\ cursor' = [cursor EXCEPT !.set = TRUE, !.b = cursor.t + n, !.gamma = gamma]
             /\ smudged' = (smudged \/ (cursor.visible /\ cursor.b # cursor.t + n))
             /\ told' = [told EXCEPT !.set = TRUE]
    BY <1>3, Zenon
  <2>2. n \in Int
    BY ModesAssumption
  <2> DEFINE end == cursor.t + n
             reshaped == [cursor EXCEPT !.set = TRUE, !.b = end, !.gamma = gamma]
  <2>3. /\ cursor' \in Cursors /\ cursor'.set = TRUE /\ cursor'.b = cursor.t + n
        /\ cursor'.visible = cursor.visible /\ cursor'.t = cursor.t /\ cursor'.gamma = gamma
    <3>1. end \in Int /\ cursor \in Cursors /\ gamma \in Tables
      BY <1>2, <2>2 DEF Cursors, Typed
    <3> HIDE DEF end
    <3>2. /\ reshaped \in Cursors /\ reshaped.set = TRUE /\ reshaped.b = end
          /\ reshaped.visible = cursor.visible /\ reshaped.t = cursor.t /\ reshaped.gamma = gamma
      BY <3>1 DEF Cursors
    <3>3. cursor' = reshaped
      BY <2>1, Zenon DEF end
    <3> HIDE DEF reshaped
    <3> QED
      BY <3>2, <3>3 DEF end
  <2>4. /\ told' \in [set : BOOLEAN, visible : BOOLEAN, t : Int] /\ told'.set = TRUE
        /\ told'.visible = told.visible /\ told'.t = told.t
    BY <1>2, <2>1 DEF Typed
  <2>5. ASSUME smudged' = FALSE PROVE traces' = Shown(cursor', size')
    <3>1. ~smudged /\ (cursor.visible => cursor.b = cursor.t + n)
      BY <2>1, <2>5, Zenon
    <3>2. OnScreen(cursor', size') = OnScreen(cursor, size) \/ ~cursor.visible
      BY <1>1, <2>3, <3>1 DEF OnScreen
    <3>3. Shown(cursor', size') = Shown(cursor, size)
      BY <2>3, <3>2, Zenon DEF Shown
    <3>4. smudged = FALSE
      BY <3>1
    <3> QED
      BY <1>1, <1>2, <3>3, <3>4 DEF AtRest
  <2>6. Shown(cursor, size)' = Shown(cursor', size')
    BY DEF Shown, OnScreen, Largest, Least
  <2>7. Typed'
    BY <1>1, <1>2, <2>3, <2>4, Zenon DEF Typed
  <2>8. AtRest'
    BY <1>1, <1>2, <2>3, <2>4, <2>5, <2>6, Zenon DEF AtRest
  <2> QED
    BY <1>1, <2>7, <2>8, Zenon DEF CursorInv
<1>4. CASE /\ cursor' = [cursor EXCEPT !.set = FALSE]
           /\ told' = [told EXCEPT !.set = FALSE]
           /\ smudged' = smudged
  <2>1. /\ cursor' \in Cursors /\ cursor'.set = FALSE /\ cursor'.b = cursor.b
        /\ cursor'.visible = cursor.visible /\ cursor'.t = cursor.t /\ cursor'.gamma = gamma
    BY <1>2, <1>4 DEF Cursors, Typed
  <2>2. /\ told' \in [set : BOOLEAN, visible : BOOLEAN, t : Int] /\ told'.set = FALSE
        /\ told'.visible = told.visible /\ told'.t = told.t
    BY <1>2, <1>4 DEF Typed
  <2>3. Shown(cursor, size)' = Shown(cursor, size)
    BY <1>1, <2>1 DEF Shown, OnScreen, Largest, Least
  <2>4. Typed'
    BY <1>1, <1>2, <2>1, <2>2, Zenon DEF Typed
  <2>5. AtRest'
    BY <1>1, <1>2, <1>4, <2>1, <2>2, <2>3, Zenon DEF AtRest
  <2> QED
    BY <1>1, <2>4, <2>5, Zenon DEF CursorInv
<1> QED
  BY <1>3, <1>4, Zenon DEF SetHardwareCursor

LEMMA MovedFields ==
  ASSUME NEW c \in Cursors, NEW y \in Int, NEW v \in BOOLEAN
  PROVE  /\ Moved(c, y, v) \in Cursors /\ Moved(c, y, v).set = c.set
         /\ Moved(c, y, v).gamma = c.gamma
         /\ Moved(c, y, v).visible = v /\ Moved(c, y, v).t = y
<1> DEFINE end == c.b + (y - c.t)
<1>1. end \in Int
  BY DEF Cursors
<1>2. Moved(c, y, v) = [c EXCEPT !.visible = v, !.t = y, !.b = end]
  BY DEF Moved
<1> HIDE DEF end
<1> QED
  BY <1>1, <1>2 DEF Cursors

LEMMA CursorToldToMove == ASSUME CursorInv, DrawHardwareCursor PROVE CursorInv'
<1>1. /\ moving = <<>> /\ size' = size /\ gamma' = gamma /\ traces' = traces
      /\ smudged' = smudged /\ task' = task /\ task = "idle"
  BY DEF DrawHardwareCursor, Called, MainIdle, listVars, colourVars
<1>2. Typed /\ AtRest
  BY <1>1 DEF CursorInv
<1>3. PICK v \in BOOLEAN, y \in Places :
        /\ moving' = <<cursor, Moved(cursor, y, v)>>
        /\ cursor' = [cursor EXCEPT !.visible = v]
        /\ Told(y, v)
  BY DEF DrawHardwareCursor
<1>4. y \in Int
  BY ModesAssumption
<1>5. cursor \in Cursors /\ cursor.gamma = gamma
  BY <1>2 DEF Typed
<1> DEFINE goal == Moved(cursor, y, v)
<1>6. /\ goal \in Cursors /\ goal.set = cursor.set /\ goal.gamma = gamma
      /\ goal.visible = v /\ goal.t = y
  BY <1>4, <1>5, MovedFields
<1> HIDE DEF goal
<1>7. moving' # <<>> /\ moving'[1] = cursor /\ moving'[2] = goal /\ moving' = <<moving'[1], moving'[2]>>
  BY <1>3 DEF goal
<1>8. /\ cursor' \in Cursors /\ cursor'.set = cursor.set /\ cursor'.t = cursor.t
      /\ cursor'.b = cursor.b /\ cursor'.gamma = cursor.gamma
  BY <1>3, <1>5 DEF Cursors
<1>9. /\ told' \in [set : BOOLEAN, visible : BOOLEAN, t : Int] /\ told'.set = told.set
      /\ told'.visible = v /\ told'.t = y
  BY <1>2, <1>3, <1>4 DEF Told, Typed
<1>10. Shown(moving[1], size)' = Shown(cursor, size)
  BY <1>1, <1>7 DEF Shown, OnScreen, Largest, Least
<1>11. Typed'
  BY <1>1, <1>2, <1>8, <1>9, Zenon DEF Typed
<1>12. smudged' = FALSE => traces' \subseteq Shown(moving[1], size)'
  BY <1>1, <1>2, <1>10 DEF AtRest
<1>13. UnderWay'
  BY <1>1, <1>5, <1>6, <1>7, <1>8, <1>9, <1>12, Zenon DEF UnderWay
<1> QED
  BY <1>7, <1>11, <1>13, Zenon DEF CursorInv

LEMMA CursorMoves == ASSUME CursorInv, DrawHardwareCursorMoves PROVE CursorInv'
<1>1. /\ moving # <<>> /\ moving' = <<>> /\ size' = size /\ gamma' = gamma
      /\ smudged' = smudged /\ told' = told /\ cursor' = moving[2]
      /\ traces' = Redrawn(moving[1], moving[2])
  BY DEF DrawHardwareCursorMoves, DrawsCursor, listVars, colourVars
<1>2. Typed /\ UnderWay
  BY <1>1 DEF CursorInv
<1>3. Shown(cursor, size)' = Shown(moving[2], size)
  BY <1>1 DEF Shown, OnScreen, Largest, Least
<1>4. /\ traces \subseteq Shown(moving[1], size) => traces' = Shown(moving[2], size)
      /\ traces' \subseteq 0 .. size.h - 1
  BY <1>1, <1>2, CursorRedrawn DEF Typed, UnderWay
<1>5. Typed'
  BY <1>1, <1>2, <1>4, Zenon DEF Typed, UnderWay
<1>6. AtRest'
  BY <1>1, <1>2, <1>3, <1>4, Zenon DEF AtRest, UnderWay
<1> QED
  BY <1>1, <1>5, <1>6, Zenon DEF CursorInv

LEMMA ClampedInside == ASSUME NEW n \in Int, size.h \in Nat PROVE Clamped(n) \in Int
BY DEF Clamped, Largest, Least

LEMMA CursorOverdrawn == ASSUME CursorInv, DirtyRectCallback PROVE CursorInv'
<1>1. /\ moving = <<>> /\ moving' = <<>> /\ size' = size /\ gamma' = gamma /\ cursor' = cursor
      /\ told' = told /\ smudged' = smudged
  BY DEF DirtyRectCallback, Called, MainIdle, listVars, colourVars
<1>2. Typed /\ AtRest
  BY <1>1 DEF CursorInv
<1>3. PICK t \in Places, b \in Places :
        Clamped(t) < Clamped(b) /\ UpdateScreen(Clamped(t), Clamped(b))
  BY DEF DirtyRectCallback
<1>4. size.h \in Nat /\ cursor \in Cursors /\ Clamped(t) \in Int /\ Clamped(b) \in Int
  BY <1>2, ModesAssumption, ClampedInside DEF Typed
<1>5. traces' = Repainted(Blit(traces, Clamped(t), Clamped(b)), cursor, size, Clamped(t), Clamped(b))
  BY <1>3, Zenon DEF UpdateScreen, Updated
<1>6. traces = Shown(cursor, size) => traces' = Shown(cursor, size)
  BY <1>3, <1>4, <1>5, PartRepainted
<1>7. traces' \subseteq 0 .. size.h - 1
  <2>1. Blit(traces, Clamped(t), Clamped(b)) \subseteq 0 .. size.h - 1
    BY <1>2 DEF Blit, Typed
  <2>2. OnScreen(cursor, size) \subseteq 0 .. size.h - 1
    BY <1>4, SeenInside DEF OnScreen, Cursors
  <2>3. \/ traces' = Blit(traces, Clamped(t), Clamped(b)) \union OnScreen(cursor, size)
        \/ traces' = Blit(traces, Clamped(t), Clamped(b))
    BY <1>5, Zenon DEF Repainted
  <2> QED
    BY <2>1, <2>2, <2>3
<1>8. Shown(cursor, size)' = Shown(cursor, size)
  BY <1>1 DEF Shown, OnScreen, Largest, Least
<1>9. Typed'
  BY <1>1, <1>2, <1>7, Zenon DEF Typed
<1>10. AtRest'
  BY <1>1, <1>2, <1>6, <1>8, Zenon DEF AtRest
<1> QED
  BY <1>1, <1>9, <1>10, Zenon DEF CursorInv

LEMMA CursorFrame == ASSUME CursorInv, VBL PROVE CursorInv'
<1>1. /\ moving' = moving /\ size' = size /\ gamma' = gamma /\ task' = task
      /\ traces' = Updated(cursor', size, 0, size.h)
      /\ smudged' = (DrawsCursor /\ ~moving[1].visible /\ cursor.visible)
  BY DEF VBL, listVars, colourVars
<1>2. Typed
  BY DEF CursorInv
<1>3. Shown(cursor, size)' = Shown(cursor', size)
  BY <1>1 DEF Shown, OnScreen, Largest, Least
<1>4. ASSUME cursor' \in Cursors
      PROVE  traces' = Shown(cursor', size) /\ traces' \subseteq 0 .. size.h - 1
  <2>1. traces' = Shown(cursor', size)
    BY <1>1, <1>2, <1>4, FrameRepainted DEF Updated, Typed
  <2>2. OnScreen(cursor', size) \subseteq 0 .. size.h - 1
    BY <1>2, <1>4, SeenInside DEF OnScreen, Cursors, Typed
  <2>3. Shown(cursor', size) \subseteq OnScreen(cursor', size)
    BY DEF Shown
  <2> QED
    BY <2>1, <2>2, <2>3
<1>5. CASE cursor' = cursor /\ told' = told
  <2>1. traces' = Shown(cursor, size) /\ traces' \subseteq 0 .. size.h - 1
    BY <1>2, <1>4, <1>5 DEF Typed
  <2>2. Typed'
    BY <1>1, <1>2, <1>5, <2>1, Zenon DEF Typed
  <2>3. CASE moving = <<>>
    BY <1>1, <1>3, <1>5, <2>1, <2>2, <2>3, Zenon DEF CursorInv, AtRest
  <2>4. CASE moving # <<>>
    <3>1. UnderWay
      BY <2>4 DEF CursorInv
    <3>2. ASSUME smudged' = FALSE PROVE traces' \subseteq Shown(moving[1], size)
      <4>1. ~cursor.visible \/ moving[1].visible
        BY <1>1, <2>4, <3>2, Zenon DEF DrawsCursor
      <4>2. OnScreen(moving[1], size) = OnScreen(cursor, size)
        BY <3>1 DEF UnderWay, OnScreen
      <4>3. \/ Shown(cursor, size) = {}
            \/ Shown(cursor, size) = OnScreen(cursor, size)
               /\ Shown(moving[1], size) = OnScreen(moving[1], size)
        BY <4>1, Zenon DEF Shown
      <4> QED
        BY <2>1, <4>2, <4>3
    <3>3. Shown(moving[1], size)' = Shown(moving[1], size)
      BY <1>1 DEF Shown, OnScreen, Largest, Least
    <3>4. UnderWay'
      BY <1>1, <1>5, <3>1, <3>2, <3>3, Zenon DEF UnderWay
    <3> QED
      BY <1>1, <2>2, <2>4, <3>4, Zenon DEF CursorInv
  <2> QED
    BY <2>3, <2>4
<1>6. ASSUME ~DrawsCursor, NEW y \in Places, cursor' = Moved(cursor, y, cursor.visible),
             Told(y, cursor.visible)
      PROVE  CursorInv'
  <2>1. moving = <<>> /\ y \in Int /\ AtRest
    BY <1>6, ModesAssumption DEF DrawsCursor, CursorInv
  <2>2. cursor \in Cursors /\ cursor.visible \in BOOLEAN
    BY <1>2 DEF Typed, Cursors
  <2>3. /\ cursor' \in Cursors /\ cursor'.set = cursor.set /\ cursor'.gamma = cursor.gamma
        /\ cursor'.visible = cursor.visible /\ cursor'.t = y
    BY <1>6, <2>1, <2>2, MovedFields
  <2>4. /\ told' \in [set : BOOLEAN, visible : BOOLEAN, t : Int] /\ told'.set = told.set
        /\ told'.visible = cursor.visible /\ told'.t = y
    BY <1>2, <1>6, <2>1, <2>2 DEF Told, Typed
  <2>5. Typed'
    BY <1>1, <1>2, <1>4, <2>3, <2>4, Zenon DEF Typed
  <2>6. AtRest'
    BY <1>1, <1>3, <1>4, <2>3, <2>4, Zenon DEF AtRest
  <2> QED
    BY <1>1, <2>1, <2>5, <2>6, Zenon DEF CursorInv
<1> QED
  BY <1>5, <1>6 DEF VBL

LEMMA CursorGoesWithGamma == ASSUME CursorInv, SetGamma PROVE CursorInv'
<1>1. /\ moving = <<>> /\ moving' = <<>> /\ size' = size /\ told' = told
  BY DEF SetGamma, Called, MainIdle, listVars
<1>2. Typed /\ AtRest
  BY <1>1 DEF CursorInv
<1>3. PICK g \in Gammas : gamma' = g /\ cursor' = [cursor EXCEPT !.gamma = g]
  BY DEF SetGamma, SetGammaTable, GammaCursor
<1>4. g \in Tables
  BY DEF Tables
<1>5. /\ cursor' \in Cursors /\ cursor'.set = cursor.set /\ cursor'.visible = cursor.visible
      /\ cursor'.t = cursor.t /\ cursor'.b = cursor.b /\ cursor'.gamma = gamma'
  BY <1>2, <1>3, <1>4 DEF Typed, Cursors
<1>6. size'.h \in Nat
  BY <1>1, <1>2 DEF Typed
<1>7. CASE UpdateAll(cursor', size)
  <2>1. UpdateAll(cursor', size')
    BY <1>1, <1>7
  <2> QED
    BY <1>1, <1>3, <1>4, <1>5, <1>6, <2>1, CursorPainted
<1>8. CASE traces' = traces /\ smudged' = smudged
  <2>1. Shown(cursor, size)' = Shown(cursor, size)
    BY <1>1, <1>5 DEF Shown, OnScreen, Largest, Least
  <2>2. Typed'
    BY <1>1, <1>2, <1>3, <1>4, <1>5, <1>8, Zenon DEF Typed
  <2>3. AtRest'
    BY <1>1, <1>2, <1>5, <1>8, <2>1, Zenon DEF AtRest
  <2> QED
    BY <1>1, <2>2, <2>3, Zenon DEF CursorInv
<1> QED
  BY <1>7, <1>8 DEF SetGamma

LEMMA CursorModeSet == ASSUME CursorInv, size'.h \in Nat, SetMode \/ SwitchMode PROVE CursorInv'
<1>1. moving = <<>> /\ task' = task
  BY DEF SetMode, SwitchMode, Called, MainIdle
<1>2. Refused \/ \E d, id : Mode(d, id)
  BY DEF SetMode, SwitchMode
<1>3. CASE Refused
  BY <1>1, <1>3, CursorLeft DEF Refused, listVars, colourVars, cursorVars
<1>4. ASSUME NEW d, NEW id, Mode(d, id) PROVE CursorInv'
  <2>1. /\ size' = rezzes[id] /\ gamma' = gamma /\ cursor' = cursor /\ moving' = moving /\ told' = told
        /\ UpdateAll(cursor, rezzes[id])
    BY <1>4 DEF Mode
  <2>2. UpdateAll(cursor', size')
    BY <2>1
  <2> QED
    BY <1>1, <2>1, <2>2, CursorPainted DEF CursorInv, Typed
<1> QED
  BY <1>2, <1>3, <1>4

LEMMA CursorModeForced == ASSUME CursorInv, size'.h \in Nat, DMSetDisplayMode PROVE CursorInv'
<1>1. task = "setting" /\ gamma' = gamma /\ cursor' = cursor /\ moving' = moving /\ told' = told
  BY DEF DMSetDisplayMode
<1>2. moving = <<>>
  BY <1>1 DEF CursorInv, UnderWay
<1>3. CASE UpdateAll(cursor, size')
  <2>1. UpdateAll(cursor', size')
    BY <1>1, <1>3
  <2> QED
    BY <1>1, <1>2, <2>1, CursorPainted DEF CursorInv, Typed
<1>4. CASE size' = size /\ traces' = traces /\ smudged' = smudged
  BY <1>1, <1>2, <1>4, CursorLeft
<1> QED
  BY <1>3, <1>4 DEF DMSetDisplayMode

LEMMA CursorStep == CursorInv /\ ModesInv' /\ [Next]_vars => CursorInv'
<1> SUFFICES ASSUME CursorInv, ModesInv', [Next]_vars PROVE CursorInv'
  OBVIOUS
<1> DEFINE left == UNCHANGED <<size, moving, told, cursor, gamma, traces, smudged>>
                   /\ (task' = task \/ moving = <<>>)
           painted == /\ UNCHANGED <<size, moving, told, cursor, gamma>> /\ moving = <<>>
                      /\ UpdateAll(cursor, size)
<1>1. size'.h \in Nat
  BY SizesNatural DEF ModesInv
<1>2. CASE left
  BY <1>2, CursorLeft
<1>3. CASE painted
  <2>1. UpdateAll(cursor', size')
    BY <1>3
  <2> QED
    BY <1>1, <1>3, <2>1, CursorPainted DEF CursorInv, Typed
<1>4. CASE SetMode \/ SwitchMode
  BY <1>1, <1>4, CursorModeSet
<1>5. CASE DMSetDisplayMode
  BY <1>1, <1>5, CursorModeForced
<1>6. LateBootHook \/ SetEntries \/ GrayPage => painted
  BY DEF LateBootHook, SetEntries, GrayPage, Called, MainIdle, listVars, colourVars
<1>7. GetBestSize => left
  <2>1. GetBestSize => moving = <<>>
    BY DEF GetBestSize, CursorInv, UnderWay
  <2> QED
    BY <2>1 DEF GetBestSize, listVars, colourVars, cursorVars
<1>8. HostResizes \/ ConfigTopHalf \/ DConfigChange \/ LateBootInstalls \/ NotificationAtomic => left
  BY DEF HostResizes, ConfigTopHalf, DConfigChange, LateBootInstalls, NotificationAtomic, MainIdle,
         listVars, colourVars, cursorVars
<1>9. UNCHANGED vars => left
  BY DEF vars, listVars, colourVars, cursorVars
<1> HIDE DEF left, painted
<1> QED
  BY <1>2, <1>3, <1>4, <1>5, <1>6, <1>7, <1>8, <1>9, CursorReshaped, CursorToldToMove, CursorMoves,
     CursorOverdrawn, CursorFrame, CursorGoesWithGamma, Zenon DEF Next

LEMMA CursorIsTrue == CursorInv => CursorTrue
<1> SUFFICES ASSUME CursorInv, moving = <<>>
             PROVE  /\ ~smudged => traces = IF cursor.visible THEN OnScreen(cursor, size) ELSE {}
                    /\ GetHardwareCursorDrawState = told
  BY Zenon DEF CursorTrue, CursorTold
<1>1. ~smudged => traces = IF cursor.visible THEN OnScreen(cursor, size) ELSE {}
  <2>1. smudged = FALSE => traces = IF cursor.visible THEN OnScreen(cursor, size) ELSE {}
    BY Zenon DEF CursorInv, AtRest, Shown
  <2> QED
    BY <2>1
<1>2. /\ told \in [set : BOOLEAN, visible : BOOLEAN, t : Int] /\ told.set = cursor.set
      /\ told.visible = cursor.visible /\ told.t = cursor.t
  BY Zenon DEF CursorInv, Typed, AtRest
<1>3. told = [set |-> told.set, visible |-> told.visible, t |-> told.t]
  BY <1>2
<1>4. told = [set |-> cursor.set, visible |-> cursor.visible, t |-> cursor.t]
  BY <1>2, <1>3, Zenon
<1> QED
  BY <1>1, <1>4, Zenon DEF GetHardwareCursorDrawState

(* Outside of DrawHardwareCursor the front buffer shows the cursor where it *)
(* is and nowhere else, except for the traces that stay until the next      *)
(* frame, whatever cursors, places, sizes and gamma tables there are; and   *)
(* the state that GetHardwareCursorDrawState reports is what was told.      *)
THEOREM CursorShown == Spec => []CursorTrue
<1>1. Init => ModesInv
  BY ModesInit
<1>2. ModesInv /\ [Next]_vars => ModesInv'
  BY ModesStep
<1>3. Init /\ ModesInv => CursorInv
  BY CursorInit
<1>4. CursorInv /\ ModesInv' /\ [Next]_vars => CursorInv'
  BY CursorStep
<1>5. CursorInv => CursorTrue
  BY CursorIsTrue
<1> QED
  BY <1>1, <1>2, <1>3, <1>4, <1>5, PTL DEF Spec

-----------------------------------------------------------------------------
(* The list of gamma tables: the n-th ID asked for, as the closed form says *)
(* and, by the least number for which it did not, as the recursion has it.  *)
Nth(n) == IF n < Len(builtinGamma) THEN FirstGamma + n ELSE NoMoreTables

LEMMA NthFollows ==
  ASSUME Len(builtinGamma) \in Nat \ {0}, NEW n \in 0 .. Len(builtinGamma)
  PROVE  Nth(n) = GetGammaInfoList(IF n = 0 THEN FindFirst ELSE Nth(n - 1), ParamErr)
<1> USE DEF FirstGamma, LastGamma, FindFirst, NoMoreTables, Specific
<1>1. CASE n = 0
  BY <1>1 DEF Nth, GetGammaInfoList
<1>2. CASE n # 0
  <2>1. Nth(n - 1) = 127 + n
    BY <1>2 DEF Nth
  <2>2. CASE n < Len(builtinGamma)
    <3>1. /\ 127 + n # FindFirst /\ 127 + n # Specific
          /\ 127 + n \in FirstGamma .. LastGamma - 1 /\ (127 + n) + 1 = 128 + n
      BY <1>2, <2>2
    <3>2. Nth(n) = 128 + n
      BY <2>2 DEF Nth
    <3>3. GetGammaInfoList(127 + n, ParamErr) = (127 + n) + 1
      BY <3>1, Zenon DEF GetGammaInfoList
    <3> QED
      BY <1>2, <2>1, <3>1, <3>2, <3>3
  <2>3. CASE n = Len(builtinGamma)
    BY <1>2, <2>1, <2>3 DEF Nth, GetGammaInfoList
  <2> QED
    BY <2>2, <2>3
<1> QED
  BY <1>1, <1>2

LEMMA ListIsNth ==
  ASSUME Len(builtinGamma) \in Nat \ {0}, NEW id,
         id = [n \in 0 .. Len(builtinGamma) |->
                 GetGammaInfoList(IF n = 0 THEN FindFirst ELSE id[n - 1], ParamErr)]
  PROVE  \A n \in 0 .. Len(builtinGamma) : id[n] = Nth(n)
<1> DEFINE bad == {n \in 0 .. Len(builtinGamma) : id[n] # Nth(n)}
<1> SUFFICES ASSUME bad # {} PROVE FALSE
  OBVIOUS
<1>1. PICK n \in bad : \A m \in bad : n <= m
  <2>1. bad \in SUBSET Nat
    OBVIOUS
  <2> QED
    BY <2>1, LeastExists
<1>2. id[n] = GetGammaInfoList(IF n = 0 THEN FindFirst ELSE id[n - 1], ParamErr)
  BY <1>1
<1>3. n # 0 => id[n - 1] = Nth(n - 1)
  BY <1>1
<1>4. id[n] = Nth(n)
  BY <1>1, <1>2, <1>3, NthFollows
<1> QED
  BY <1>1, <1>4

LEMMA AllGammasListed == GammasListed
<1> DEFINE id == CHOOSE f : f = [n \in 0 .. Len(builtinGamma) |->
                   GetGammaInfoList(IF n = 0 THEN FindFirst ELSE f[n - 1], ParamErr)]
           closed == [n \in 0 .. Len(builtinGamma) |-> Nth(n)]
<1>1. Len(builtinGamma) \in Nat \ {0} /\ DOMAIN builtinGamma = 1 .. Len(builtinGamma)
  BY ModesAssumption, EmptySeq
<1>2. closed = [n \in 0 .. Len(builtinGamma) |->
                  GetGammaInfoList(IF n = 0 THEN FindFirst ELSE closed[n - 1], ParamErr)]
  <2>1. \A n \in 0 .. Len(builtinGamma) :
          closed[n] = GetGammaInfoList(IF n = 0 THEN FindFirst ELSE closed[n - 1], ParamErr)
    <3> TAKE n \in 0 .. Len(builtinGamma)
    <3>1. n # 0 => closed[n - 1] = Nth(n - 1)
      BY <1>1
    <3> QED
      BY <1>1, <3>1, NthFollows
  <2> QED
    BY <2>1
<1> HIDE DEF closed
<1>3. id = [n \in 0 .. Len(builtinGamma) |->
              GetGammaInfoList(IF n = 0 THEN FindFirst ELSE id[n - 1], ParamErr)]
  BY <1>2, Zenon
<1> HIDE DEF id
<1>4. \A n \in 0 .. Len(builtinGamma) : id[n] = Nth(n)
  BY <1>1, <1>3, ListIsNth
<1>5. ASSUME NEW n \in DOMAIN builtinGamma
      PROVE  /\ RetrieveGammaTable(id[n - 1]) = {builtinGamma[n]}
             /\ GetGammaInfoList(Specific, id[n - 1]) = id[n - 1]
  <2>1. id[n - 1] = 127 + n
    BY <1>1, <1>4 DEF Nth, FirstGamma
  <2>2. {j \in DOMAIN builtinGamma : FirstGamma + j - 1 = 127 + n} = {n}
    BY <1>1 DEF FirstGamma
  <2>3. RetrieveGammaTable(127 + n) = {builtinGamma[n]}
    BY <2>2 DEF RetrieveGammaTable
  <2>4. GetGammaInfoList(Specific, 127 + n) = 127 + n
    BY <1>1 DEF GetGammaInfoList, Specific, FindFirst, FirstGamma, LastGamma
  <2> QED
    BY <2>1, <2>3, <2>4
<1>6. id[Len(builtinGamma)] = NoMoreTables
  BY <1>1, <1>4 DEF Nth
<1> QED
  BY <1>5, <1>6 DEF GammasListed, id

(* The colours: in an indexed mode the private entries in use are the       *)
(* public ones through the gamma table.                                     *)
ColourInv ==
  /\ DOMAIN public = Entries /\ DOMAIN private = Entries
  /\ depth <= k8bit => \A e \in InUse(depth) : private[e] = ReCLUT(public[e], gamma)

LEMMA ColoursGrayed ==
  ASSUME ColourInv, NEW d \in k1bit .. k32bit, GrayCLUT(d), depth' = d, gamma' = gamma
  PROVE  ColourInv'
<1>1. CASE d > k8bit
  BY <1>1 DEF GrayCLUT, ColourInv, k1bit, k8bit, k32bit
<1>2. CASE ~(d > k8bit)
  <2>1. /\ public' = [e \in Entries |-> "gray"]
        /\ private' = [e \in Entries |-> ReCLUT("gray", gamma)]
    BY <1>2, Zenon DEF GrayCLUT
  <2>2. InUse(d) \subseteq Entries
    BY DEF InUse
  <2> QED
    BY <2>1, <2>2 DEF ColourInv, InUse
<1> QED
  BY <1>1, <1>2

LEMMA ColoursKept ==
  ASSUME ColourInv, UNCHANGED <<public, private, gamma, depth>>
  PROVE  ColourInv'
BY DEF ColourInv, InUse, ReCLUT

LEMMA ColoursStep == ColourInv /\ ModesInv /\ [Next]_vars => ColourInv'
<1> SUFFICES ASSUME ColourInv, ModesInv, [Next]_vars PROVE ColourInv'
  OBVIOUS
<1> DEFINE kept == UNCHANGED <<public, private, gamma, depth>>
<1>1. CASE SetMode \/ SwitchMode
  <2>1. \A d \in client.depths : d \in k1bit .. k32bit
    BY ModesAssumption DEF ModesInv
  <2>2. Refused \/ \E d \in client.depths : \E id : Mode(d, id)
    BY <1>1 DEF SetMode, SwitchMode
  <2>3. Refused => kept
    BY DEF Refused, listVars, colourVars
  <2>4. ASSUME NEW d \in client.depths, NEW id, Mode(d, id) PROVE ColourInv'
    <3>1. depth' = d /\ GrayCLUT(d) /\ gamma' = gamma
      BY <2>4, Zenon DEF Mode
    <3> QED
      BY <2>1, <3>1, ColoursGrayed
  <2> QED
    BY <2>2, <2>3, <2>4, ColoursKept
<1>2. CASE DMSetDisplayMode
  <2>1. depth' = depth /\ gamma' = gamma /\ depth \in k1bit .. k32bit
    BY <1>2 DEF DMSetDisplayMode, ModesInv
  <2>2. GrayCLUT(depth) \/ kept
    BY <1>2, <2>1 DEF DMSetDisplayMode
  <2> QED
    BY <2>1, <2>2, ColoursGrayed, ColoursKept
<1>3. CASE SetEntries
  <2>1. PICK e \in Entries, c \in Colours :
          /\ public' = [public EXCEPT ![e] = c]
          /\ private' = [private EXCEPT ![e] = ReCLUT(c, gamma)]
    BY <1>3 DEF SetEntries
  <2>2. depth' = depth /\ gamma' = gamma
    BY <1>3 DEF SetEntries, listVars
  <2>3. InUse(depth) \subseteq Entries
    BY DEF InUse
  <2>4. InUse(depth)' = InUse(depth)
    BY <2>2 DEF InUse
  <2> QED
    BY <2>1, <2>2, <2>3, <2>4 DEF ColourInv, ReCLUT
<1>4. CASE SetGamma
  <2>1. PICK g \in Gammas : gamma' = g /\ LinearCLUT(depth, g)
    BY <1>4 DEF SetGamma, SetGammaTable
  <2>2. depth' = depth /\ depth \in Int
    BY <1>4 DEF SetGamma, listVars, ModesInv, k1bit, k32bit
  <2>3. CASE depth > k8bit
    BY <2>1, <2>2, <2>3 DEF LinearCLUT, ColourInv, k8bit
  <2>4. CASE ~(depth > k8bit)
    <3>1. /\ public' = [e \in Entries |-> IF e \in InUse(depth) THEN "linear" ELSE public[e]]
          /\ private' = [e \in Entries |-> IF e \in InUse(depth) THEN ReCLUT("linear", g)
                                           ELSE private[e]]
      BY <2>1, <2>4, Zenon DEF LinearCLUT
    <3>2. InUse(depth) \subseteq Entries
      BY DEF InUse
    <3>3. InUse(depth)' = InUse(depth)
      BY <2>2 DEF InUse
    <3> QED
      BY <2>1, <3>1, <3>2, <3>3 DEF ColourInv, ReCLUT
  <2> QED
    BY <2>3, <2>4
<1>5. CASE kept
  BY <1>5, ColoursKept
<1>6. Next => SetMode \/ SwitchMode \/ DMSetDisplayMode \/ SetEntries \/ SetGamma \/ kept
  BY DEF Next, HostResizes, ConfigTopHalf, DConfigChange, LateBootHook, LateBootInstalls,
         NotificationAtomic, GetBestSize, GrayPage, SetHardwareCursor, DrawHardwareCursor,
         DrawHardwareCursorMoves, DirtyRectCallback, VBL, listVars, colourVars
<1>7. UNCHANGED vars => kept
  BY DEF vars, listVars, colourVars
<1> QED
  BY <1>1, <1>2, <1>3, <1>4, <1>5, <1>6, <1>7

LEMMA ColoursAreTrue == ColourInv /\ CursorInv => ColoursTrue
<1> SUFFICES ASSUME ColourInv, CursorInv PROVE ColoursTrue
  OBVIOUS
<1>1. cursor.set => cursor.gamma = gamma
  BY DEF CursorInv, Typed
<1>2. GetVideoParameters(GetCurMode.id, depth).indexed =>
        \A e \in InUse(depth) : private[e] = ReCLUT(GetEntries(e), gamma)
  <2>1. GetVideoParameters(GetCurMode.id, depth).indexed = (depth <= k8bit)
    BY DEF GetVideoParameters
  <2> QED
    BY <2>1, Zenon DEF ColourInv, GetEntries
<1> QED
  BY <1>1, <1>2, AllGammasListed, Zenon DEF ColoursTrue

(* In an indexed mode every entry in use is its public entry through the    *)
(* gamma table, and so is the cursor that is set, in whatever order depth,  *)
(* gamma table and entries are set; GetGammaInfoList leads to all built-in  *)
(* gamma tables, however many there are.                                    *)
THEOREM ColoursShown == Spec => []ColoursTrue
<1>1. Init => ModesInv
  BY ModesInit
<1>2. ModesInv /\ [Next]_vars => ModesInv'
  BY ModesStep
<1>3. Init /\ ModesInv => CursorInv
  BY CursorInit
<1>4. CursorInv /\ ModesInv' /\ [Next]_vars => CursorInv'
  BY CursorStep
<1>5. Init => ColourInv
  <2> SUFFICES ASSUME Init PROVE ColourInv
    OBVIOUS
  <2>1. /\ depth = k32bit /\ public = [e \in Entries |-> "black"]
        /\ private = [e \in Entries |-> ReCLUT("none", gamma)]
    BY Zenon DEF Init
  <2> QED
    BY <2>1 DEF ColourInv, k8bit, k32bit
<1>6. ColourInv /\ ModesInv /\ [Next]_vars => ColourInv'
  BY ColoursStep
<1>7. ColourInv /\ CursorInv => ColoursTrue
  BY ColoursAreTrue
<1> QED
  BY <1>1, <1>2, <1>3, <1>4, <1>5, <1>6, <1>7, PTL DEF Spec

=============================================================================
