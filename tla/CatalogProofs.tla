--------------------------- MODULE CatalogProofs ----------------------------
(***************************************************************************)
(* Theorems about finding files: the CNID hash table, the fids of the 9P   *)
(* client, listings that outlive their calls, and browse.  They are in one *)
(* module because they rest on the same lemmas about recursion and walks.  *)
(***************************************************************************)
EXTENDS HashTab, Folders, Catalog, FiniteSetTheorems, SequenceTheorems,
        WellFoundedInduction, TLAPS

-----------------------------------------------------------------------------
(* Recursion by least counterexample. *)

Less == {pair \in Nat \X Nat : pair[1] < pair[2]}

LEMMA LeastExists ==
  ASSUME NEW S \in SUBSET Nat, S # {}
  PROVE  \E x \in S : \A y \in S : x <= y
<1>1. IsWellFoundedOn(Less, Nat)
  BY NatLessThanWellFounded DEF OpToRel, Less
<1>2. PICK x \in S : \A y \in S : ~(<<y, x>> \in Less)
  BY <1>1, WFMin, Zenon
<1>3. \A y \in S : ~(y < x)
  BY <1>2 DEF Less
<1> QED
  BY <1>3

LEMMA LeastIs ==
  ASSUME NEW S \in SUBSET Nat, S # {}
  PROVE  Min(S) \in S /\ \A y \in S : Min(S) <= y
<1>1. \E x \in S : \A y \in S : x <= y
  BY LeastExists
<1> QED
  BY <1>1 DEF Min

(* f starts with a and goes on by the steps, up to k. *)
Follows(f, S, a, step, k) ==
  /\ f \in [0 .. k -> S] /\ f[0] = a
  /\ \A n \in 1 .. k : f[n] = step[n][f[n - 1]]

LEMMA RecursionExists ==
  ASSUME NEW N \in Nat, NEW S, NEW a \in S, NEW step \in [1 .. N -> [S -> S]]
  PROVE  \E f : Follows(f, S, a, step, N)
<1> DEFINE bad == {k \in 0 .. N : ~\E f : Follows(f, S, a, step, k)}
<1> SUFFICES ASSUME bad # {} PROVE FALSE
  OBVIOUS
<1>1. PICK k \in bad : \A m \in bad : k <= m
  <2>1. bad \in SUBSET Nat
    OBVIOUS
  <2> HIDE DEF bad
  <2> QED
    BY <2>1, LeastExists
<1>2. k \in 0 .. N /\ ~\E f : Follows(f, S, a, step, k)
  OBVIOUS
<1>3. CASE k = 0
  <2>1. Follows([n \in 0 .. 0 |-> a], S, a, step, 0)
    BY DEF Follows
  <2> QED
    BY <1>2, <1>3, <2>1
<1>4. CASE k # 0
  <2>1. k - 1 \in 0 .. N /\ k - 1 \notin bad
    BY <1>1, <1>2, <1>4
  <2>2. PICK f : Follows(f, S, a, step, k - 1)
    BY <2>1
  <2> DEFINE g == [n \in 0 .. k |-> IF n = k THEN step[k][f[k - 1]] ELSE f[n]]
  <2>3. \A n \in 0 .. k - 1 : f[n] \in S
    BY <2>2 DEF Follows
  <2>4. step[k][f[k - 1]] \in S
    <3>1. k \in 1 .. N /\ k - 1 \in 0 .. k - 1
      BY <1>2, <1>4
    <3>2. f[k - 1] \in S
      BY <2>3, <3>1
    <3> QED
      BY <3>1, <3>2
  <2>5. g \in [0 .. k -> S]
    BY <1>2, <2>3, <2>4
  <2>6. g[0] = a
    BY <1>2, <1>4, <2>2 DEF Follows
  <2>7. \A n \in 1 .. k : g[n] = step[n][g[n - 1]]
    <3> TAKE n \in 1 .. k
    <3>1. g[n - 1] = f[n - 1]
      BY <1>2
    <3>2. CASE n = k
      BY <1>2, <1>4, <3>1, <3>2
    <3>3. CASE n # k
      BY <1>2, <2>2, <3>1, <3>3 DEF Follows
    <3> QED
      BY <3>2, <3>3
  <2> HIDE DEF g
  <2>8. Follows(g, S, a, step, k)
    BY <2>5, <2>6, <2>7 DEF Follows
  <2> QED
    BY <1>2, <2>8
<1> QED
  BY <1>3, <1>4

(* What holds at first and from each to the next holds throughout.          *)
LEMMA StaysIn ==
  ASSUME NEW N \in Nat, NEW S, NEW f, f[0] \in S,
         \A n \in 1 .. N : f[n - 1] \in S => f[n] \in S
  PROVE  \A n \in 0 .. N : f[n] \in S
<1> DEFINE bad == {n \in 0 .. N : f[n] \notin S}
<1> SUFFICES ASSUME bad # {} PROVE FALSE
  OBVIOUS
<1>1. PICK n \in bad : \A m \in bad : n <= m
  <2>1. bad \in SUBSET Nat
    OBVIOUS
  <2> HIDE DEF bad
  <2> QED
    BY <2>1, LeastExists
<1>2. n \in 0 .. N /\ f[n] \notin S /\ n # 0
  OBVIOUS
<1>3. n - 1 \in 0 .. N /\ n - 1 \notin bad /\ n \in 1 .. N
  BY <1>1, <1>2
<1> QED
  BY <1>2, <1>3

-----------------------------------------------------------------------------
(* HashTab: blocks and notification stay in order, and every key keeps the  *)
(* value that was installed last.  The table is described by the set of its *)
(* entries: keys differ, and probing meets no free slot before an entry.    *)

LEMMA SufficientIsNat ==
  ASSUME NEW least \in Nat, NEW used \in Nat
  PROVE  Sufficient(least, used) \in Nat
<1> DEFINE N == used + 1
           step == [n \in 1 .. N |-> [x \in Nat |-> IF x \div 2 <= used THEN 2 * x ELSE x]]
           is(f) == f = [n \in 0 .. used + 1 |->
                           IF n = 0 THEN least
                           ELSE IF f[n - 1] \div 2 <= used THEN 2 * f[n - 1] ELSE f[n - 1]]
<1>1. step \in [1 .. N -> [Nat -> Nat]] /\ N \in Nat
  OBVIOUS
<1>2. PICK f : Follows(f, Nat, least, step, N)
  <2> HIDE DEF step, N
  <2> QED
    BY <1>1, RecursionExists
<1>3. is(f)
  <2>1. ASSUME NEW n \in 0 .. N
        PROVE  f[n] = IF n = 0 THEN least
                      ELSE IF f[n - 1] \div 2 <= used THEN 2 * f[n - 1] ELSE f[n - 1]
    <3>1. CASE n = 0
      BY <1>2, <3>1 DEF Follows
    <3>2. CASE n # 0
      <4>1. n \in 1 .. N /\ n - 1 \in 0 .. N
        BY <3>2
      <4>2. f[n - 1] \in Nat /\ f[n] = step[n][f[n - 1]]
        BY <1>2, <4>1 DEF Follows
      <4> QED
        BY <3>2, <4>1, <4>2
    <3> QED
      BY <3>1, <3>2
  <2>2. f = [n \in 0 .. N |-> f[n]]
    BY <1>2 DEF Follows
  <2> QED
    BY <2>1, <2>2
<1> DEFINE s == CHOOSE g : is(g)
<1>4. is(s)
  <2> HIDE DEF is
  <2> QED
    BY <1>3
<1>5. \A n \in 0 .. N : s[n] \in Nat
  <2> SUFFICES ASSUME NEW m \in 0 .. N, s[m] \notin Nat PROVE FALSE
    OBVIOUS
  <2> DEFINE bad == {n \in 0 .. N : s[n] \notin Nat}
  <2>1. PICK n \in bad : \A j \in bad : n <= j
    <3> HIDE DEF s, is
    <3>1. bad \in SUBSET Nat /\ bad # {}
      OBVIOUS
    <3> HIDE DEF bad
    <3> QED
      BY <3>1, LeastExists
  <2>2. \A j \in 0 .. N : s[j] = IF j = 0 THEN least
                      ELSE IF s[j - 1] \div 2 <= used THEN 2 * s[j - 1] ELSE s[j - 1]
    <3> HIDE DEF s
    <3> QED
      BY <1>4
  <2> HIDE DEF s, is
  <2>3. n # 0
    BY <2>1, <2>2
  <2>4. n - 1 \in 0 .. N /\ n - 1 \notin bad
    BY <2>1, <2>3
  <2> QED
    BY <2>1, <2>2, <2>3, <2>4
<1>6. Sufficient(least, used) = s[used + 1]
  BY DEF Sufficient
<1> QED
  BY <1>5, <1>6

-----------------------------------------------------------------------------
(* Probing: the slots of a key are all slots, each of them once.            *)

Slots(size) == 0 .. size - 1

LEMMA DivisionIs ==
  ASSUME NEW x \in Int, NEW m \in Nat, m > 0
  PROVE  /\ x % m \in 0 .. m - 1
         /\ \E q \in Int : x = q * m + (x % m)
OBVIOUS

LEMMA RemainderIs ==
  ASSUME NEW q \in Int, NEW m \in Nat, m > 0, NEW r \in 0 .. m - 1
  PROVE  (q * m + r) % m = r
<1> DEFINE x == q * m + r
<1>1. x \in Int
  OBVIOUS
<1>2. PICK p \in Int : x = p * m + (x % m)
  <2> HIDE DEF x
  <2> QED
    BY <1>1, DivisionIs
<1> DEFINE s == x % m
           d == q - p
<1>3. s \in 0 .. m - 1 /\ d \in Int /\ d * m = s - r
  <2>1. s \in 0 .. m - 1
    <3> HIDE DEF x
    <3> QED
      BY <1>1, DivisionIs
  <2>2. q * m + r = p * m + s
    BY <1>2
  <2> HIDE DEF s
  <2> QED
    BY <2>1, <2>2
<1> HIDE DEF d, s
<1>4. -m < d * m /\ d * m < m
  BY <1>3
<1>5. d = 0
  <2>1. CASE d <= -1
    BY <1>3, <1>4, <2>1
  <2>2. CASE d >= 1
    BY <1>3, <1>4, <2>2
  <2> QED
    BY <1>3, <2>1, <2>2
<1>6. s = r
  BY <1>3, <1>5
<1> QED
  BY <1>6 DEF s

LEMMA SlotInRange ==
  ASSUME NEW size \in Nat, size > 0, NEW k \in Key, NEW i \in Nat
  PROVE  Slot(k, i, size) \in Slots(size)
<1>1. Hash[k] + i \in Int
  BY TableAssumption DEF TableAssumption
<1> QED
  BY <1>1, DivisionIs DEF Slot, Slots

LEMMA SlotReached ==
  ASSUME NEW size \in Nat, size > 0, NEW k \in Key, NEW s \in Slots(size)
  PROVE  \E i \in Slots(size) : Slot(k, i, size) = s
<1> DEFINE h == Hash[k]
           r == h % size
<1>1. h \in Nat
  BY TableAssumption DEF TableAssumption
<1>2. PICK q \in Int : h = q * size + r
  <2>1. h \in Int
    BY <1>1
  <2> HIDE DEF h
  <2> QED
    BY <2>1, DivisionIs
<1>3. r \in 0 .. size - 1 /\ s \in 0 .. size - 1
  BY <1>1, DivisionIs DEF Slots
<1> HIDE DEF r
<1>4. CASE r <= s
  <2>1. s - r \in Slots(size) /\ h + (s - r) = q * size + s
    BY <1>1, <1>2, <1>3, <1>4 DEF Slots
  <2>2. (h + (s - r)) % size = s
    BY <1>3, <2>1, RemainderIs
  <2> QED
    BY <2>1, <2>2 DEF Slot
<1>5. CASE r > s
  <2>1. s - r + size \in Slots(size) /\ h + (s - r + size) = (q + 1) * size + s
    BY <1>1, <1>2, <1>3, <1>5 DEF Slots
  <2>2. (h + (s - r + size)) % size = s
    BY <1>3, <2>1, RemainderIs
  <2> QED
    BY <2>1, <2>2 DEF Slot
<1> QED
  BY <1>3, <1>4, <1>5

LEMMA SlotsDiffer ==
  ASSUME NEW size \in Nat, size > 0, NEW k \in Key,
         NEW i \in Slots(size), NEW j \in Slots(size), i < j
  PROVE  Slot(k, i, size) # Slot(k, j, size)
<1> DEFINE x == Hash[k] + i
           y == Hash[k] + j
<1>1. x \in Int /\ y \in Int /\ x < y /\ y < x + size
  BY TableAssumption DEF TableAssumption, Slots
<1> HIDE DEF x, y
<1> SUFFICES ASSUME x % size = y % size PROVE FALSE
  BY DEF Slot, x, y
<1>2. PICK p \in Int : x = p * size + (x % size)
  BY <1>1, DivisionIs
<1>3. PICK q \in Int : y = q * size + (y % size)
  BY <1>1, DivisionIs
<1> DEFINE d == q - p
<1>4. d \in Int /\ y - x = d * size
  BY <1>1, <1>2, <1>3, DivisionIs
<1> HIDE DEF d
<1>5. 0 < d * size /\ d * size < size
  BY <1>1, <1>4
<1>6. CASE d <= 0
  BY <1>4, <1>5, <1>6
<1>7. CASE d >= 1
  BY <1>4, <1>5, <1>7
<1> QED
  BY <1>4, <1>6, <1>7

-----------------------------------------------------------------------------
(* A table: keys differ, and from the hash of each entry on there is no     *)
(* free slot before it.                                                     *)
Entry == [key : Key, len : Nat, val : Value \union Nat]

Full(t, k, i, size) == \A j \in Slots(i) : t[Slot(k, j, size)] # Free

Kept(t, size) ==
  /\ t \in [Slots(size) -> Entry \union {Free}]
  /\ \A s, r \in Slots(size) :
       t[s] # Free /\ t[r] # Free /\ t[s].key = t[r].key => s = r
  /\ \A s \in Slots(size) :
       t[s] # Free => \E i \in Slots(size) : /\ Slot(t[s].key, i, size) = s
                                             /\ Full(t, t[s].key, i, size)

UsedOf(t, n) == {s \in Slots(n) : t[s] # Free}
EntriesOf(t, n) == {t[s] : s \in UsedOf(t, n)}

LEMMA FreeIsNoEntry == \A e \in Entry : e # Free /\ e.key \in Key
<1> SUFFICES ASSUME NEW e \in Entry PROVE e # Free /\ e.key \in Key
  OBVIOUS
<1>1. e.key \in Key
  BY DEF Entry
<1>2. Free.key = Absent
  BY DEF Free
<1> QED
  BY <1>1, <1>2, AbsentAssumption DEF AbsentAssumption

LEMMA SlotsFinite ==
  ASSUME NEW size \in Nat
  PROVE  IsFiniteSet(Slots(size)) /\ Cardinality(Slots(size)) = size
<1>1. 0 \in Int /\ size - 1 \in Int
  OBVIOUS
<1>2. CASE size = 0
  <2>1. Slots(size) = {}
    BY <1>2 DEF Slots
  <2> QED
    BY <1>2, <2>1, FS_EmptySet
<1>3. CASE size # 0
  BY <1>1, <1>3, FS_Interval DEF Slots
<1> QED
  BY <1>2, <1>3

(* An entry may be put where there is one with its key, or in the first     *)
(* free slot from its hash on if its key is new.                            *)
LEMMA KeptPut ==
  ASSUME NEW size \in Nat, NEW t, Kept(t, size), NEW e \in Entry, NEW s \in Slots(size),
         \/ t[s] # Free /\ t[s].key = e.key
         \/ /\ t[s] = Free
            /\ \A r \in Slots(size) : t[r] # Free => t[r].key # e.key
            /\ \E i \in Slots(size) : /\ Slot(e.key, i, size) = s
                                      /\ Full(t, e.key, i, size)
  PROVE  Kept([t EXCEPT ![s] = e], size)
<1> DEFINE u == [t EXCEPT ![s] = e]
<1>1. /\ t \in [Slots(size) -> Entry \union {Free}]
      /\ u[s] = e /\ \A r \in Slots(size) : r # s => u[r] = t[r]
      /\ u \in [Slots(size) -> Entry \union {Free}]
  BY DEF Kept
<1>2. e # Free
  BY FreeIsNoEntry
<1>3. ASSUME NEW k \in Key, NEW i \in Slots(size), Full(t, k, i, size)
      PROVE  Full(u, k, i, size)
  <2> SUFFICES ASSUME NEW j \in Slots(i) PROVE u[Slot(k, j, size)] # Free
    BY DEF Full
  <2>1. Slot(k, j, size) \in Slots(size)
    <3>1. j \in Nat /\ size > 0
      BY DEF Slots
    <3> QED
      BY <3>1, SlotInRange
  <2>2. t[Slot(k, j, size)] # Free
    BY <1>3 DEF Full
  <2> HIDE DEF u
  <2> QED
    BY <1>1, <1>2, <2>1, <2>2
<1> HIDE DEF u
<1>4. ASSUME NEW a \in Slots(size), NEW b \in Slots(size),
             u[a] # Free, u[b] # Free, u[a].key = u[b].key
      PROVE  a = b
  <2>1. \A r \in Slots(size) : r # s /\ t[r] # Free => t[r].key # e.key
    BY DEF Kept
  <2> QED
    BY <1>1, <1>4, <2>1 DEF Kept
<1>5. ASSUME NEW r \in Slots(size), u[r] # Free
      PROVE  \E i \in Slots(size) : Slot(u[r].key, i, size) = r /\ Full(u, u[r].key, i, size)
  <2>1. u[r].key \in Key
    BY <1>1, <1>5, FreeIsNoEntry
  <2>2. \E i \in Slots(size) : Slot(u[r].key, i, size) = r /\ Full(t, u[r].key, i, size)
    <3>1. CASE r # s
      BY <1>1, <1>5, <3>1 DEF Kept
    <3>2. CASE r = s /\ t[s] # Free
      BY <1>1, <3>2 DEF Kept
    <3>3. CASE r = s /\ t[s] = Free
      BY <1>1, <3>3
    <3> QED
      BY <3>1, <3>2, <3>3
  <2> QED
    BY <1>3, <2>1, <2>2
<1>6. Kept(u, size)
  BY <1>1, <1>4, <1>5 DEF Kept
<1> QED
  BY <1>6 DEF u

LEMMA MovedPuts ==
  ASSUME NEW size \in Nat, NEW t, Kept(t, size), NEW e \in Entry,
         \A r \in Slots(size) : t[r] # Free => t[r].key # e.key,
         NEW f \in Slots(size), t[f] = Free
  PROVE  /\ Kept(Moved(t, e), size)
         /\ \E s \in Slots(size) : t[s] = Free /\ Moved(t, e) = [t EXCEPT ![s] = e]
<1>1. size > 0 /\ e.key \in Key
  BY FreeIsNoEntry DEF Slots
<1>2. DOMAIN t = Slots(size)
  BY DEF Kept
<1>3. Cardinality(DOMAIN t) = size
  BY <1>2, SlotsFinite
<1> DEFINE hits == {i \in 0 .. size - 1 : t[Slot(e.key, i, size)] = Free}
           s == Slot(e.key, Min(hits), size)
<1>4. hits # {} /\ hits \in SUBSET Nat
  <2>1. \E i \in Slots(size) : Slot(e.key, i, size) = f
    BY <1>1, SlotReached
  <2> QED
    BY <2>1 DEF Slots
<1>5. Min(hits) \in hits /\ \A i \in hits : Min(hits) <= i
  <2> HIDE DEF hits
  <2> QED
    BY <1>4, LeastIs
<1>6. Min(hits) \in Slots(size) /\ t[s] = Free
  BY <1>5 DEF Slots
<1>7. Full(t, e.key, Min(hits), size)
  <2> SUFFICES ASSUME NEW j \in Slots(Min(hits)), t[Slot(e.key, j, size)] = Free
               PROVE  FALSE
    BY DEF Full
  <2> DEFINE m == Min(hits)
  <2>1. m \in 0 .. size - 1 /\ j \in 0 .. m - 1
    BY <1>6 DEF Slots
  <2> HIDE DEF m
  <2>2. j \in 0 .. size - 1 /\ j < m
    BY <2>1
  <2>3. j \in hits
    BY <2>2
  <2>4. m <= j
    BY <1>5, <2>3 DEF m
  <2> QED
    BY <2>1, <2>2, <2>4
<1>8. s \in Slots(size)
  BY <1>1, <1>6, SlotInRange DEF Slots
<1>9. Moved(t, e) = [t EXCEPT ![s] = e]
  BY <1>3 DEF Moved
<1> HIDE DEF s
<1>10. Kept([t EXCEPT ![s] = e], size)
  BY <1>6, <1>7, <1>8, KeptPut DEF s
<1> QED
  BY <1>6, <1>8, <1>9, <1>10 DEF s

-----------------------------------------------------------------------------
(* The larger table has the entries of the old one.                         *)

Copied(u, size, t, n) ==
  /\ Kept(u, size) /\ EntriesOf(u, size) = EntriesOf(t, n)
  /\ Cardinality(UsedOf(u, size)) = Cardinality(UsedOf(t, n))

LEMMA UsedFinite ==
  ASSUME NEW t, NEW n \in Nat
  PROVE  /\ IsFiniteSet(UsedOf(t, n)) /\ Cardinality(UsedOf(t, n)) \in 0 .. n
         /\ UsedOf(t, n) \in SUBSET Slots(n)
         /\ \A s \in Slots(n) : t[s] = Free => Cardinality(UsedOf(t, n)) < n
<1>1. UsedOf(t, n) \in SUBSET Slots(n)
  BY DEF UsedOf
<1>2. /\ IsFiniteSet(UsedOf(t, n)) /\ Cardinality(UsedOf(t, n)) \in Nat
      /\ Cardinality(UsedOf(t, n)) <= n
  BY <1>1, SlotsFinite, FS_Subset, FS_CardinalityType
<1>3. ASSUME NEW s \in Slots(n), t[s] = Free PROVE Cardinality(UsedOf(t, n)) < n
  <2>1. UsedOf(t, n) \in SUBSET (Slots(n) \ {s})
    BY <1>3 DEF UsedOf
  <2>2. IsFiniteSet(Slots(n) \ {s}) /\ Cardinality(Slots(n) \ {s}) = n - 1
    BY SlotsFinite, FS_RemoveElement
  <2>3. Cardinality(UsedOf(t, n)) <= n - 1
    BY <2>1, <2>2, FS_Subset
  <2> QED
    BY <1>2, <2>3
<1> QED
  BY <1>1, <1>2, <1>3

(* What putting an entry in a free slot adds.                               *)
LEMMA EntriesPut ==
  ASSUME NEW size \in Nat, NEW t \in [Slots(size) -> Entry \union {Free}],
         NEW e \in Entry, NEW s \in Slots(size), t[s] = Free
  PROVE  LET u == [t EXCEPT ![s] = e]
         IN  /\ EntriesOf(u, size) = EntriesOf(t, size) \union {e}
             /\ Cardinality(UsedOf(u, size)) = Cardinality(UsedOf(t, size)) + 1
<1> DEFINE u == [t EXCEPT ![s] = e]
<1>1. u[s] = e /\ e # Free /\ \A r \in Slots(size) : r # s => u[r] = t[r]
  BY FreeIsNoEntry
<1> HIDE DEF u
<1>2. UsedOf(u, size) = UsedOf(t, size) \union {s} /\ s \notin UsedOf(t, size)
  BY <1>1 DEF UsedOf
<1>3. EntriesOf(u, size) = EntriesOf(t, size) \union {e}
  <2>1. \A r \in UsedOf(t, size) : r # s /\ r \in Slots(size)
    BY <1>2 DEF UsedOf
  <2> QED
    BY <1>1, <1>2, <2>1 DEF EntriesOf
<1>4. Cardinality(UsedOf(u, size)) = Cardinality(UsedOf(t, size)) + 1
  BY <1>2, UsedFinite, FS_AddElement
<1> QED
  BY <1>3, <1>4 DEF u

LEMMA CopiesOne ==
  ASSUME NEW old \in Nat, NEW t, Kept(t, old), NEW size \in Nat, size > old,
         NEW n \in 1 .. old, NEW u, Copied(u, size, t, n - 1)
  PROVE  Copied(IF t[n - 1] = Free THEN u ELSE Moved(u, t[n - 1]), size, t, n)
<1>1. Slots(n) = Slots(n - 1) \union {n - 1} /\ n - 1 \notin Slots(n - 1)
      /\ n - 1 \in Slots(old) /\ Slots(n - 1) \in SUBSET Slots(old)
  BY DEF Slots
<1>2. CASE t[n - 1] = Free
  <2>1. UsedOf(t, n) = UsedOf(t, n - 1)
    BY <1>1, <1>2 DEF UsedOf
  <2> QED
    BY <1>2, <2>1 DEF Copied, EntriesOf
<1>3. CASE t[n - 1] # Free
  <2> DEFINE e == t[n - 1]
  <2>1. e \in Entry
    BY <1>1, <1>3 DEF Kept
  <2>2. UsedOf(t, n) = UsedOf(t, n - 1) \union {n - 1} /\ n - 1 \notin UsedOf(t, n - 1)
    BY <1>1, <1>3 DEF UsedOf
  <2>3. EntriesOf(t, n) = EntriesOf(t, n - 1) \union {e}
    BY <2>2 DEF EntriesOf
  <2>4. /\ Cardinality(UsedOf(t, n)) = Cardinality(UsedOf(t, n - 1)) + 1
        /\ Cardinality(UsedOf(t, n - 1)) \in 0 .. n - 1
    <3>1. n - 1 \in Nat
      OBVIOUS
    <3> QED
      BY <2>2, <3>1, UsedFinite, FS_AddElement
  <2>5. \A r \in Slots(size) : u[r] # Free => u[r].key # e.key
    <3> SUFFICES ASSUME NEW r \in Slots(size), u[r] # Free, u[r].key = e.key
                 PROVE  FALSE
      OBVIOUS
    <3>1. u[r] \in EntriesOf(t, n - 1)
      BY DEF Copied, EntriesOf, UsedOf
    <3>2. PICK q \in Slots(n - 1) : t[q] # Free /\ u[r] = t[q]
      BY <3>1 DEF EntriesOf, UsedOf
    <3> QED
      BY <1>1, <1>3, <3>2 DEF Kept
  <2>6. \E f \in Slots(size) : u[f] = Free
    <3> SUFFICES ASSUME \A f \in Slots(size) : u[f] # Free PROVE FALSE
      OBVIOUS
    <3>1. UsedOf(u, size) = Slots(size)
      BY DEF UsedOf
    <3>2. Cardinality(UsedOf(u, size)) = size
      BY <3>1, SlotsFinite
    <3>3. Cardinality(UsedOf(u, size)) = Cardinality(UsedOf(t, n - 1))
      BY DEF Copied
    <3> QED
      BY <2>4, <3>2, <3>3
  <2> HIDE DEF e
  <2>7. PICK s \in Slots(size) : u[s] = Free /\ Moved(u, e) = [u EXCEPT ![s] = e]
    BY <2>1, <2>5, <2>6, MovedPuts DEF Copied
  <2>8. Kept(Moved(u, e), size)
    BY <2>1, <2>5, <2>6, MovedPuts DEF Copied
  <2>9. /\ EntriesOf(Moved(u, e), size) = EntriesOf(u, size) \union {e}
        /\ Cardinality(UsedOf(Moved(u, e), size)) = Cardinality(UsedOf(u, size)) + 1
    <3>1. u \in [Slots(size) -> Entry \union {Free}]
      BY DEF Copied, Kept
    <3>2. /\ EntriesOf([u EXCEPT ![s] = e], size) = EntriesOf(u, size) \union {e}
          /\ Cardinality(UsedOf([u EXCEPT ![s] = e], size))
               = Cardinality(UsedOf(u, size)) + 1
      BY <2>1, <2>7, <3>1, EntriesPut
    <3> QED
      BY <2>7, <3>2
  <2>10. Copied(Moved(u, e), size, t, n)
    BY <2>3, <2>4, <2>8, <2>9 DEF Copied
  <2> QED
    BY <1>3, <2>10 DEF e
<1> QED
  BY <1>2, <1>3

LEMMA ClearedIsEmpty ==
  ASSUME NEW size \in Nat, NEW t
  PROVE  Copied(Cleared(size), size, t, 0)
<1>1. Cleared(size) \in [Slots(size) -> Entry \union {Free}]
      /\ \A s \in Slots(size) : Cleared(size)[s] = Free
  BY DEF Cleared, Slots
<1>2. Slots(0) = {}
  BY DEF Slots
<1>3. UsedOf(Cleared(size), size) = {} /\ UsedOf(t, 0) = {}
  BY <1>1, <1>2 DEF UsedOf
<1> QED
  BY <1>1, <1>3 DEF Copied, Kept, EntriesOf

LEMMA RehashedKeeps ==
  ASSUME TableSize \in Nat, Kept(table, TableSize), NEW size \in Nat, size > TableSize
  PROVE  Copied(Rehashed(size), size, table, TableSize)
<1> DEFINE N == TableSize
           S == [Slots(size) -> Entry \union {Free}]
           one(n, u) == IF table[n - 1] = Free THEN u ELSE Moved(u, table[n - 1])
           step == [n \in 1 .. N |-> [u \in S |-> one(n, u)]]
           is(f) == f = [n \in 0 .. N |-> IF n = 0 THEN Cleared(size)
                           ELSE IF table[n - 1] = Free THEN f[n - 1]
                           ELSE Moved(f[n - 1], table[n - 1])]
<1>1. step \in [1 .. N -> [S -> S]]
  <2>1. ASSUME NEW n \in 1 .. N, NEW u \in S PROVE one(n, u) \in S
    <3>1. CASE table[n - 1] = Free
      BY <3>1
    <3>2. CASE table[n - 1] # Free
      <4>1. table[n - 1] \in Entry
        BY <3>2 DEF Kept, Slots
      <4>2. Moved(u, table[n - 1]) \in S
        BY <4>1 DEF Moved
      <4> QED
        BY <3>2, <4>2
    <3> QED
      BY <3>1, <3>2
  <2> HIDE DEF one, S, N
  <2> QED
    BY <2>1
<1>2. Cleared(size) \in S
  BY DEF Cleared, Slots
<1>3. PICK f : Follows(f, S, Cleared(size), step, N)
  <2> HIDE DEF step, S
  <2> QED
    BY <1>1, <1>2, RecursionExists
<1>4. is(f)
  <2>1. ASSUME NEW n \in 0 .. N
        PROVE  f[n] = IF n = 0 THEN Cleared(size) ELSE one(n, f[n - 1])
    <3>1. CASE n = 0
      BY <1>3, <3>1 DEF Follows
    <3>2. CASE n # 0
      <4>1. n \in 1 .. N /\ n - 1 \in 0 .. N
        BY <3>2
      <4>2. f[n - 1] \in S /\ f[n] = step[n][f[n - 1]]
        <5> HIDE DEF S, step, N
        <5> QED
          BY <1>3, <4>1 DEF Follows
      <4> HIDE DEF S, one, N
      <4> QED
        BY <3>2, <4>1, <4>2
    <3> QED
      BY <3>1, <3>2
  <2>2. f = [n \in 0 .. N |-> f[n]]
    BY <1>3 DEF Follows
  <2> QED
    BY <2>1, <2>2
<1> DEFINE new == CHOOSE g : is(g)
<1>5. is(new)
  <2> HIDE DEF is
  <2> QED
    BY <1>4
<1>6. \A n \in 0 .. N : Copied(new[n], size, table, n)
  <2> DEFINE bad == {n \in 0 .. N : ~Copied(new[n], size, table, n)}
  <2> SUFFICES ASSUME bad # {} PROVE FALSE
    OBVIOUS
  <2>1. PICK n \in bad : \A j \in bad : n <= j
    <3>1. bad \in SUBSET Nat
      OBVIOUS
    <3> HIDE DEF bad
    <3> QED
      BY <3>1, LeastExists
  <2>2. \A j \in 0 .. N : new[j] = IF j = 0 THEN Cleared(size) ELSE one(j, new[j - 1])
    <3> HIDE DEF new
    <3> QED
      BY <1>5
  <2> HIDE DEF new, is
  <2>3. n # 0
    BY <2>1, <2>2, ClearedIsEmpty
  <2>4. n \in 1 .. N /\ n - 1 \in 0 .. N /\ n - 1 \notin bad
    BY <2>1, <2>3
  <2>5. Copied(new[n - 1], size, table, n - 1)
    BY <2>4
  <2>6. Copied(one(n, new[n - 1]), size, table, n)
    BY <2>4, <2>5, CopiesOne
  <2>7. new[n] = one(n, new[n - 1])
    <3> HIDE DEF one
    <3> QED
      BY <2>2, <2>3, <2>4
  <2> HIDE DEF one
  <2> QED
    BY <2>1, <2>6, <2>7
<1>7. Rehashed(size) = new[TableSize]
  BY DEF Rehashed
<1> HIDE DEF new
<1> QED
  BY <1>6, <1>7

-----------------------------------------------------------------------------
(* Values: each entry holds its key's value, in itself or in words of the   *)
(* second block that no other entry uses.                                   *)
WordsOf(len) == (len + 7) \div 8

Holds(e, v, b, used) ==
  /\ v \in Value /\ e.len = Length[v]
  /\ e.len <= 4 => e.val = v
  /\ e.len > 4 => /\ e.val \in Nat /\ e.val + Words(v) <= used
                  /\ \A p \in 0 .. Words(v) - 1 : b[e.val + p] = [of |-> v, part |-> p]

Apart(e, f) ==
  e.val + WordsOf(e.len) <= f.val \/ f.val + WordsOf(f.len) <= e.val

Stored(E, b, used, inst) ==
  /\ \A e \in E : Holds(e, inst[e.key], b, used)
  /\ \A e, f \in E : e # f /\ e.len > 4 /\ f.len > 4 => Apart(e, f)
  /\ \A k \in Key : inst[k] # Absent => \E e \in E : e.key = k

(* What a value of 5 to 8 bytes over one of up to 4 would do is left out:   *)
(* all values of setDB are of 5 bytes at least.                             *)
LengthsApart == \A v, w \in Value : Inline(v) => Length[w] \notin 5 .. 8

TableInv ==
  /\ TableSize \in Nat /\ Kept(table, TableSize)
  /\ tableused \in 0 .. TableSize
  /\ ~panicked => tableused = Cardinality(UsedOf(table, TableSize))
  /\ BlobSize \in Nat /\ DOMAIN blob = Slots(BlobSize) /\ blobused \in 0 .. BlobSize
  /\ installed \in [Key -> Value \union {Absent}]
  /\ LengthsApart => Stored(EntriesOf(table, TableSize), blob, blobused, installed)

LEMMA LengthsAre ==
  ASSUME NEW v \in Value
  PROVE  /\ Length[v] \in Nat /\ Length[v] > 0 /\ Words(v) \in Nat /\ Words(v) >= 1
         /\ Words(v) = WordsOf(Length[v])
<1>1. Length[v] \in Nat \ {0}
  BY TableAssumption DEF TableAssumption
<1> QED
  BY <1>1 DEF Words, WordsOf

NoEntry(k) == \A s \in Slots(TableSize) : table[s] # Free => table[s].key # k

LEMMA FindIs ==
  ASSUME TableSize \in Nat, Kept(table, TableSize), NEW k \in Key
  PROVE  \/ Find(k) = None /\ NoEntry(k)
         \/ /\ Find(k) \in Slots(TableSize)
            /\ table[Find(k)] # Free /\ table[Find(k)].key = k
         \/ /\ Find(k) \in Slots(TableSize) /\ table[Find(k)] = Free /\ NoEntry(k)
            /\ \E i \in Slots(TableSize) : /\ Slot(k, i, TableSize) = Find(k)
                                           /\ Full(table, k, i, TableSize)
<1> DEFINE N == TableSize
           hit(i) == table[Slot(k, i, N)] = Free \/ table[Slot(k, i, N)].key = k
           hits == {i \in 0 .. N - 1 : hit(i)}
           m == Min(hits)
<1>1. Find(k) = IF hits = {} THEN None ELSE Slot(k, m, N)
  BY DEF Find
<1>2. ASSUME NEW s \in Slots(N), table[s] # Free, table[s].key = k
      PROVE  \E i \in hits : Slot(k, i, N) = s /\ Full(table, k, i, N)
  <2>1. PICK i \in Slots(N) : Slot(k, i, N) = s /\ Full(table, k, i, N)
    BY <1>2 DEF Kept
  <2>2. i \in hits
    BY <1>2, <2>1 DEF Slots
  <2> HIDE DEF hits
  <2> QED
    BY <2>1, <2>2
<1>3. CASE hits = {}
  <2>1. NoEntry(k)
    <3> HIDE DEF hits
    <3> QED
      BY <1>2, <1>3 DEF NoEntry
  <2> QED
    BY <1>1, <1>3, <2>1
<1>4. CASE hits # {}
  <2>1. m \in hits /\ \A i \in hits : m <= i
    <3>1. hits \in SUBSET Nat
      OBVIOUS
    <3> HIDE DEF hits
    <3> QED
      BY <1>4, <3>1, LeastIs
  <2>2. m \in Slots(N) /\ hit(m) /\ N > 0
    <3> HIDE DEF m, hit
    <3> QED
      BY <2>1 DEF Slots
  <2>3. \A j \in Slots(m) : j \in Slots(N) /\ ~hit(j)
    <3> TAKE j \in Slots(m)
    <3> HIDE DEF m, hit
    <3>1. j \in Slots(N) /\ j < m
      BY <2>2 DEF Slots
    <3>2. j \notin hits
      <4> HIDE DEF hits
      <4> QED
        BY <2>1, <2>2, <3>1 DEF Slots
    <3> QED
      BY <3>1, <3>2 DEF Slots
  <2>4. Full(table, k, m, N)
    <3> HIDE DEF m
    <3> QED
      BY <2>3 DEF Full
  <2>5. Find(k) = Slot(k, m, N)
    BY <1>1, <1>4
  <2>6. Slot(k, m, N) \in Slots(N)
    <3>1. m \in Nat
      BY <2>2 DEF Slots
    <3> HIDE DEF m
    <3> QED
      BY <2>2, <3>1, SlotInRange
  <2>7. CASE table[Slot(k, m, N)] # Free
    BY <2>2, <2>5, <2>6, <2>7
  <2>8. CASE table[Slot(k, m, N)] = Free
    <3>1. ASSUME NEW s \in Slots(N), table[s] # Free, table[s].key = k PROVE FALSE
      <4>1. PICK i \in hits : Slot(k, i, N) = s /\ Full(table, k, i, N)
        BY <1>2, <3>1
      <4>2. m # i
        BY <2>8, <3>1, <4>1
      <4>3. m < i /\ m \in Slots(i)
        <5>1. i \in Slots(N)
          BY <4>1 DEF Slots
        <5> HIDE DEF hits, m
        <5> QED
          BY <2>1, <2>2, <4>1, <4>2, <5>1 DEF Slots
      <4> HIDE DEF m, hits
      <4> QED
        BY <2>8, <4>1, <4>3 DEF Full
    <3>2. NoEntry(k)
      BY <3>1 DEF NoEntry
    <3> HIDE DEF m
    <3> QED
      BY <2>2, <2>4, <2>5, <2>6, <2>8, <3>2
  <2> QED
    BY <2>7, <2>8
<1> QED
  BY <1>3, <1>4

LEMMA ValueIs ==
  ASSUME BlobSize \in Nat, DOMAIN blob = Slots(BlobSize), blobused \in 0 .. BlobSize,
         NEW e, NEW v, Holds(e, v, blob, blobused)
  PROVE  EntryVal(e) = v
<1>1. v \in Value /\ e.len = Length[v] /\ Length[v] \in Nat /\ Words(v) >= 1
      /\ Words(v) \in Nat
  BY LengthsAre DEF Holds
<1>2. CASE e.len <= 4
  BY <1>1, <1>2 DEF Holds, EntryVal
<1>3. CASE e.len > 4
  <2>1. /\ e.val \in Nat /\ e.val + Words(v) <= blobused
        /\ \A p \in 0 .. Words(v) - 1 : blob[e.val + p] = [of |-> v, part |-> p]
    BY <1>3 DEF Holds
  <2> DEFINE whole == {w \in Value : Length[w] = e.len /\ Lying(w, e.val)}
  <2>2. whole = {v}
    <3>1. ASSUME NEW w \in whole PROVE w = v
      <4>1. 0 \in 0 .. Words(w) - 1
        BY LengthsAre
      <4>2. blob[e.val + 0] = [of |-> w, part |-> 0]
        BY <3>1, <4>1 DEF Lying
      <4>3. 0 \in 0 .. Words(v) - 1
        BY <1>1
      <4>4. blob[e.val + 0] = [of |-> v, part |-> 0]
        BY <2>1, <4>3
      <4>5. [of |-> w, part |-> 0].of = [of |-> v, part |-> 0].of
        BY <4>2, <4>4
      <4> QED
        BY <4>5
    <3>2. v \in whole
      <4>1. \A p \in 0 .. Words(v) - 1 : e.val + p \in DOMAIN blob
        BY <1>1, <2>1 DEF Slots
      <4>2. Lying(v, e.val)
        BY <2>1, <4>1 DEF Lying
      <4> QED
        BY <1>1, <4>2
    <3> HIDE DEF whole
    <3> QED
      BY <3>1, <3>2
  <2>3. EntryVal(e) = IF whole = {} THEN Torn ELSE CHOOSE w \in whole : TRUE
    BY <1>1, <1>3 DEF EntryVal
  <2> HIDE DEF whole
  <2> QED
    BY <2>2, <2>3
<1> QED
  BY <1>1, <1>2, <1>3

(* The invariant is enough: HTlookup finds what was installed.              *)
LEMMA LookupIs ==
  ASSUME TableInv, LengthsApart
  PROVE  LastInstalledFound
<1> SUFFICES ASSUME NEW k \in Key PROVE HTlookup(k) = installed[k]
  BY DEF LastInstalledFound
<1> DEFINE s == Find(k)
           E == EntriesOf(table, TableSize)
<1>1. /\ TableSize \in Nat /\ Kept(table, TableSize) /\ BlobSize \in Nat
      /\ DOMAIN blob = Slots(BlobSize) /\ blobused \in 0 .. BlobSize
      /\ installed \in [Key -> Value \union {Absent}]
      /\ Stored(E, blob, blobused, installed)
  BY DEF TableInv
<1>2. NoEntry(k) => installed[k] = Absent
  <2> SUFFICES ASSUME installed[k] # Absent PROVE ~NoEntry(k)
    OBVIOUS
  <2>1. PICK e \in E : e.key = k
    BY <1>1 DEF Stored
  <2> QED
    BY <2>1 DEF EntriesOf, UsedOf, NoEntry
<1>3. CASE s = None /\ NoEntry(k)
  BY <1>2, <1>3 DEF HTlookup
<1>4. CASE s \in Slots(TableSize) /\ table[s] # Free /\ table[s].key = k
  <2>1. s # None
    BY <1>4 DEF Slots, None
  <2>2. table[s] \in E
    BY <1>4 DEF EntriesOf, UsedOf
  <2>3. Holds(table[s], installed[k], blob, blobused)
    BY <1>1, <1>4, <2>2 DEF Stored
  <2>4. EntryVal(table[s]) = installed[k]
    BY <1>1, <2>3, ValueIs
  <2> QED
    BY <1>4, <2>1, <2>4 DEF HTlookup
<1>5. CASE s \in Slots(TableSize) /\ table[s] = Free /\ NoEntry(k)
  <2>1. s # None
    BY <1>5 DEF Slots, None
  <2> QED
    BY <1>2, <1>5, <2>1 DEF HTlookup
<1> QED
  BY <1>1, <1>3, <1>4, <1>5, FindIs

-----------------------------------------------------------------------------
(* What each way of writing does to the stored values. *)

LEMMA StoredGrows ==
  ASSUME NEW E, NEW b, NEW used \in Nat, NEW inst, Stored(E, b, used, inst),
         NEW b2, \A w \in Slots(used) : b2[w] = b[w]
  PROVE  Stored(E, b2, used, inst)
<1>1. ASSUME NEW e \in E PROVE Holds(e, inst[e.key], b2, used)
  <2> DEFINE v == inst[e.key]
  <2>1. Holds(e, v, b, used)
    BY DEF Stored
  <2>2. v \in Value /\ Words(v) \in Nat
    BY <2>1, LengthsAre DEF Holds
  <2> HIDE DEF v
  <2>3. ASSUME e.len > 4, NEW p \in 0 .. Words(v) - 1
        PROVE  b2[e.val + p] = b[e.val + p]
    <3>1. e.val \in Nat /\ e.val + Words(v) <= used
      BY <2>1, <2>3 DEF Holds
    <3>2. e.val + p \in Slots(used)
      BY <2>2, <3>1 DEF Slots
    <3> QED
      BY <3>2
  <2> QED
    BY <2>1, <2>3 DEF Holds, v
<1> QED
  BY <1>1 DEF Stored

(* A new entry of key k leaves the words of the others alone: b2 is b after *)
(* the writing.                                                             *)
LeavesOthers(E, k, new, b, b2) ==
  \A e \in E : e.key # k /\ e.len > 4 =>
    /\ \A w \in e.val .. e.val + WordsOf(e.len) - 1 : b2[w] = b[w]
    /\ new.len > 4 => Apart(e, new)

(* new, for value v of key k, goes into a store with entries E and words b, *)
(* of which used are in use; b2 and used2 are those after it.               *)
Putting(E, b, used, inst, k, v, new, b2, used2) ==
  /\ used \in Nat /\ inst \in [Key -> Value \union {Absent}]
  /\ Stored(E, b, used, inst) /\ \A e \in E : e \in Entry
  /\ k \in Key /\ v \in Value /\ new.key = k
  /\ used2 \in Nat /\ used <= used2
  /\ Holds(new, v, b2, used2) /\ LeavesOthers(E, k, new, b, b2)

LEMMA StoredPut ==
  ASSUME NEW E, NEW b, NEW used, NEW inst, NEW k, NEW v, NEW new, NEW b2, NEW used2,
         Putting(E, b, used, inst, k, v, new, b2, used2)
  PROVE  Stored({e \in E : e.key # k} \union {new}, b2, used2, [inst EXCEPT ![k] = v])
<1>0. /\ used \in Nat /\ inst \in [Key -> Value \union {Absent}]
      /\ Stored(E, b, used, inst) /\ \A e \in E : e \in Entry
      /\ k \in Key /\ v \in Value /\ new.key = k
      /\ used2 \in Nat /\ used <= used2
      /\ Holds(new, v, b2, used2) /\ LeavesOthers(E, k, new, b, b2)
  BY DEF Putting
<1> DEFINE F == {e \in E : e.key # k}
           inst2 == [inst EXCEPT ![k] = v]
<1>1. inst2[k] = v /\ \A c \in Key : c # k => inst2[c] = inst[c]
  BY <1>0
<1> HIDE DEF inst2
<1>2. ASSUME NEW e \in F PROVE Holds(e, inst2[e.key], b2, used2)
  <2>1. e \in E /\ e.key # k /\ e.key \in Key
    BY <1>0, FreeIsNoEntry
  <2> DEFINE w == inst[e.key]
  <2>2. Holds(e, w, b, used) /\ inst2[e.key] = w
    BY <1>0, <1>1, <2>1 DEF Stored
  <2>3. w \in Value /\ e.len = Length[w] /\ Words(w) \in Nat /\ WordsOf(e.len) = Words(w)
    BY <1>0, <2>2, LengthsAre DEF Holds
  <2> HIDE DEF w
  <2>4. ASSUME e.len > 4
        PROVE  /\ e.val \in Nat /\ e.val + Words(w) <= used2
               /\ \A p \in 0 .. Words(w) - 1 : b2[e.val + p] = [of |-> w, part |-> p]
    <3>1. /\ e.val \in Nat /\ e.val + Words(w) <= used
          /\ \A p \in 0 .. Words(w) - 1 : b[e.val + p] = [of |-> w, part |-> p]
      BY <1>0, <2>2, <2>4 DEF Holds
    <3>2. ASSUME NEW p \in 0 .. Words(w) - 1 PROVE b2[e.val + p] = b[e.val + p]
      <4>1. e.val + p \in e.val .. e.val + WordsOf(e.len) - 1
        BY <1>0, <2>3, <3>1
      <4> QED
        BY <1>0, <2>1, <2>4, <4>1 DEF LeavesOthers
    <3>3. e.val + Words(w) <= used2
      BY <1>0, <2>3, <3>1
    <3> QED
      BY <1>0, <3>1, <3>2, <3>3
  <2> QED
    BY <1>0, <2>2, <2>4 DEF Holds
<1>3. Holds(new, inst2[new.key], b2, used2)
  BY <1>0, <1>1
<1>4. ASSUME NEW e \in F \union {new}, NEW f \in F \union {new},
             e # f, e.len > 4, f.len > 4
      PROVE  Apart(e, f)
  <2>1. CASE e \in F /\ f \in F
    BY <1>0, <1>4, <2>1 DEF Stored
  <2>2. CASE e \in F /\ f = new
    BY <1>0, <1>4, <2>2 DEF LeavesOthers
  <2>3. CASE e = new /\ f \in F
    <3>1. Apart(f, e)
      BY <1>0, <1>4, <2>3 DEF LeavesOthers
    <3> QED
      BY <1>0, <3>1 DEF Apart
  <2> QED
    BY <1>0, <1>4, <2>1, <2>2, <2>3
<1>5. ASSUME NEW c \in Key, inst2[c] # Absent
      PROVE  \E e \in F \union {new} : e.key = c
  <2>1. CASE c = k
    BY <1>0, <2>1
  <2>2. CASE c # k
    <3>1. PICK e \in E : e.key = c
      BY <1>0, <1>1, <1>5, <2>2 DEF Stored
    <3> QED
      BY <1>0, <2>2, <3>1
  <2> QED
    BY <1>0, <2>1, <2>2
<1>6. Stored(F \union {new}, b2, used2, inst2)
  <2> HIDE DEF F
  <2> QED
    BY <1>0, <1>2, <1>3, <1>4, <1>5 DEF Stored
<1> QED
  BY <1>6 DEF inst2

(* The entries once slot s holds e: those of other keys, and e.             *)
LEMMA EntriesReplaced ==
  ASSUME NEW size \in Nat, NEW t, Kept(t, size), NEW e \in Entry, NEW s \in Slots(size),
         \/ t[s] # Free /\ t[s].key = e.key
         \/ t[s] = Free /\ \A r \in Slots(size) : t[r] # Free => t[r].key # e.key
  PROVE  LET u == [t EXCEPT ![s] = e]
         IN  EntriesOf(u, size) = {f \in EntriesOf(t, size) : f.key # e.key} \union {e}
<1> DEFINE u == [t EXCEPT ![s] = e]
<1>1. u[s] = e /\ e # Free /\ \A r \in Slots(size) : r # s => u[r] = t[r]
  BY FreeIsNoEntry DEF Kept
<1> HIDE DEF u
<1>2. \A r \in Slots(size) : t[r] # Free /\ t[r].key = e.key => r = s
  BY DEF Kept
<1>3. \A f \in EntriesOf(u, size) : f \in {g \in EntriesOf(t, size) : g.key # e.key} \union {e}
  BY <1>1, <1>2 DEF EntriesOf, UsedOf
<1>4. ASSUME NEW f \in EntriesOf(t, size), f.key # e.key PROVE f \in EntriesOf(u, size)
  <2>1. PICK r \in Slots(size) : t[r] # Free /\ f = t[r]
    BY DEF EntriesOf, UsedOf
  <2>2. r # s
    BY <1>4, <2>1
  <2> QED
    BY <1>1, <2>1, <2>2 DEF EntriesOf, UsedOf
<1>5. e \in EntriesOf(u, size)
  BY <1>1 DEF EntriesOf, UsedOf
<1>6. EntriesOf(u, size) = {f \in EntriesOf(t, size) : f.key # e.key} \union {e}
  BY <1>3, <1>4, <1>5
<1> QED
  BY <1>6 DEF u

-----------------------------------------------------------------------------
(* The invariant through the steps.                                         *)

NoteInv ==
  /\ notificationPending \in BOOLEAN /\ posted \in Nat /\ RecordPostedOnce
  /\ installs \in 0 .. MaxInstalls
  /\ phase \in {"off", "booting", "up"} /\ panicked \in BOOLEAN

LEMMA SizesAre ==
  ASSUME tableused \in 0 .. TableSize, TableSize \in Nat,
         blobused \in 0 .. BlobSize, BlobSize \in Nat
  PROVE  ChooseTableSize \in Nat /\ ChooseBlobSize \in Nat
<1>1. MinSlots \in Nat /\ MinWords \in Nat
  BY TableAssumption DEF TableAssumption
<1>2. tableused \in Nat /\ blobused \in Nat
  OBVIOUS
<1>3. Sufficient(MinSlots, tableused) \in Nat /\ Sufficient(MinWords, blobused) \in Nat
  BY <1>1, <1>2, SufficientIsNat
<1> QED
  BY <1>3 DEF ChooseTableSize, ChooseBlobSize

LEMMA AllocateKeeps ==
  ASSUME TableInv, HTallocate, UNCHANGED <<panicked, installed>>
  PROVE  TableInv'
<1> DEFINE n == ChooseTableSize
           m == ChooseBlobSize
           E == EntriesOf(table, TableSize)
<1>1. /\ TableSize \in Nat /\ Kept(table, TableSize) /\ tableused \in 0 .. TableSize
      /\ BlobSize \in Nat /\ DOMAIN blob = Slots(BlobSize) /\ blobused \in 0 .. BlobSize
      /\ installed \in [Key -> Value \union {Absent}]
      /\ LengthsApart => Stored(E, blob, blobused, installed)
      /\ ~panicked => tableused = Cardinality(UsedOf(table, TableSize))
  BY DEF TableInv
<1>2. n \in Nat /\ m \in Nat
  BY <1>1, SizesAre
<1> HIDE DEF n, m
<1>3. \/ table' = table
      \/ n > TableSize /\ table' = Rehashed(n)
  BY DEF HTallocate, n
<1>4. \/ blob' = blob
      \/ m > BlobSize /\ blob' = [w \in 0 .. m - 1 |-> IF w \in DOMAIN blob THEN blob[w] ELSE NoWord]
  BY DEF HTallocate, m
<1>5. tableused' = tableused /\ blobused' = blobused
  BY DEF HTallocate
<1>6. /\ TableSize' \in Nat /\ TableSize' >= TableSize /\ Kept(table', TableSize')
      /\ EntriesOf(table', TableSize') = E
      /\ Cardinality(UsedOf(table', TableSize')) = Cardinality(UsedOf(table, TableSize))
  <2>1. CASE table' = table
    <3>1. TableSize' = TableSize
      BY <2>1 DEF TableSize
    <3> QED
      BY <1>1, <2>1, <3>1
  <2>2. CASE n > TableSize /\ table' = Rehashed(n)
    <3>1. Copied(table', n, table, TableSize)
      BY <1>1, <1>2, <2>2, RehashedKeeps
    <3>2. DOMAIN table' = Slots(n)
      BY <3>1 DEF Copied, Kept
    <3>3. TableSize' = n
      BY <1>2, <3>2, SlotsFinite DEF TableSize
    <3> QED
      BY <1>1, <1>2, <2>2, <3>1, <3>3 DEF Copied
  <2> QED
    BY <1>3, <2>1, <2>2
<1>7. /\ BlobSize' \in Nat /\ BlobSize' >= BlobSize /\ DOMAIN blob' = Slots(BlobSize')
      /\ \A w \in Slots(blobused) : blob'[w] = blob[w]
  <2>1. CASE blob' = blob
    <3>1. BlobSize' = BlobSize
      BY <2>1 DEF BlobSize
    <3> QED
      BY <1>1, <2>1, <3>1
  <2>2. CASE m > BlobSize /\ blob' = [w \in 0 .. m - 1 |-> IF w \in DOMAIN blob THEN blob[w]
                                                            ELSE NoWord]
    <3>1. DOMAIN blob' = Slots(m)
      BY <2>2 DEF Slots
    <3>2. BlobSize' = m
      BY <1>2, <3>1, SlotsFinite DEF BlobSize
    <3>3. \A w \in Slots(blobused) : w \in DOMAIN blob /\ w \in 0 .. m - 1
      BY <1>1, <1>2, <2>2 DEF Slots
    <3> QED
      BY <1>1, <1>2, <2>2, <3>1, <3>2, <3>3
  <2> QED
    BY <1>4, <2>1, <2>2
<1>8. ASSUME LengthsApart PROVE Stored(E, blob', blobused, installed)
  <2>1. blobused \in Nat
    BY <1>1
  <2> HIDE DEF E
  <2> QED
    BY <1>1, <1>7, <1>8, <2>1, StoredGrows
<1>9. tableused' \in 0 .. TableSize' /\ blobused' \in 0 .. BlobSize'
  BY <1>1, <1>5, <1>6, <1>7
<1> QED
  BY <1>1, <1>5, <1>6, <1>7, <1>8, <1>9 DEF TableInv

LEMMA WritesHere ==
  ASSUME BlobSize \in Nat, DOMAIN blob = Slots(BlobSize), NEW v \in Value, NEW at \in Nat,
         at + Words(v) <= BlobSize
  PROVE  /\ DOMAIN Written(v, at) = DOMAIN blob
         /\ \A p \in 0 .. Words(v) - 1 : Written(v, at)[at + p] = [of |-> v, part |-> p]
         /\ \A w \in DOMAIN blob : w < at \/ w >= at + Words(v) => Written(v, at)[w] = blob[w]
<1>1. Words(v) \in Nat /\ \A w \in DOMAIN blob : w \in Int
  BY LengthsAre DEF Slots
<1>2. DOMAIN Written(v, at) = DOMAIN blob
  BY DEF Written
<1>3. ASSUME NEW p \in 0 .. Words(v) - 1
      PROVE  Written(v, at)[at + p] = [of |-> v, part |-> p]
  <2>1. at + p \in DOMAIN blob /\ at + p \in at .. at + Words(v) - 1 /\ (at + p) - at = p
    BY <1>1 DEF Slots
  <2> QED
    BY <2>1 DEF Written
<1>4. ASSUME NEW w \in DOMAIN blob, w < at \/ w >= at + Words(v)
      PROVE  Written(v, at)[w] = blob[w]
  <2>1. w \notin at .. at + Words(v) - 1
    BY <1>1, <1>4
  <2> QED
    BY <2>1 DEF Written
<1> QED
  BY <1>2, <1>3, <1>4

(* A step that puts v, under k, into the words from val on, or leaves it in *)
(* the entry, and leaves the words of other entries alone.                  *)
Placed(k, v, val) ==
  /\ Length[v] <= 4 => val = v
  /\ Length[v] > 4 => /\ val \in Nat /\ val + Words(v) <= blobused'
                      /\ \A p \in 0 .. Words(v) - 1 : blob'[val + p] = [of |-> v, part |-> p]
  /\ \A e \in EntriesOf(table, TableSize) : e.key # k /\ e.len > 4 =>
       /\ \A w \in e.val .. e.val + WordsOf(e.len) - 1 : blob'[w] = blob[w]
       /\ Length[v] > 4 => e.val + WordsOf(e.len) <= val \/ val + Words(v) <= e.val

(* What the three ways of HTinstall have in common: slot s gets an entry    *)
(* that holds v, and no other entry's words change.                         *)
LEMMA InstallKeeps ==
  ASSUME TableInv, panicked = FALSE, panicked' = FALSE,
         NEW k \in Key, NEW v \in Value, NEW s, s = Find(k), s # None,
         tableused' = IF table[s] = Free THEN tableused + 1 ELSE tableused,
         NEW val \in Value \union Nat, Put(s, k, v, val),
         installed' = [installed EXCEPT ![k] = v],
         DOMAIN blob' = DOMAIN blob, blobused' \in Nat, blobused <= blobused',
         blobused' <= BlobSize,
         LengthsApart => Placed(k, v, val)
  PROVE  TableInv'
<1> DEFINE E == EntriesOf(table, TableSize)
           new == [key |-> k, len |-> Length[v], val |-> val]
           N == TableSize
<1>1. /\ N \in Nat /\ Kept(table, N) /\ tableused = Cardinality(UsedOf(table, N))
      /\ BlobSize \in Nat /\ DOMAIN blob = Slots(BlobSize) /\ blobused \in 0 .. BlobSize
      /\ installed \in [Key -> Value \union {Absent}]
      /\ LengthsApart => Stored(E, blob, blobused, installed)
  BY DEF TableInv
<1>2. \/ s \in Slots(N) /\ table[s] # Free /\ table[s].key = k
      \/ /\ s \in Slots(N) /\ table[s] = Free /\ NoEntry(k)
         /\ \E i \in Slots(N) : Slot(k, i, N) = s /\ Full(table, k, i, N)
  BY <1>1, FindIs
<1>3. table' = [table EXCEPT ![s] = new]
  BY DEF Put
<1>4. new \in Entry /\ new.key = k /\ new.len = Length[v] /\ new.val = val
  BY LengthsAre DEF Entry
<1>5. table \in [Slots(N) -> Entry \union {Free}]
  BY <1>1 DEF Kept
<1>6. TableSize' = N
  <2>1. DOMAIN table' = DOMAIN table
    BY <1>3
  <2> QED
    BY <2>1 DEF TableSize
<1>7. BlobSize' = BlobSize
  BY DEF BlobSize
<1> HIDE DEF new
<1>8. Kept(table', N)
  <2>1. \/ table[s] # Free /\ table[s].key = new.key
        \/ /\ table[s] = Free
           /\ \A r \in Slots(N) : table[r] # Free => table[r].key # new.key
           /\ \E i \in Slots(N) : Slot(new.key, i, N) = s /\ Full(table, new.key, i, N)
    BY <1>2, <1>4 DEF NoEntry
  <2>2. s \in Slots(N)
    BY <1>2
  <2>3. Kept([table EXCEPT ![s] = new], N)
    <3> HIDE DEF N
    <3> QED
      BY <1>1, <1>4, <2>1, <2>2, KeptPut
  <2> QED
    BY <1>3, <2>3
<1>9. EntriesOf(table', N) = {e \in E : e.key # k} \union {new}
  <2>1. \/ table[s] # Free /\ table[s].key = new.key
        \/ table[s] = Free /\ \A r \in Slots(N) : table[r] # Free => table[r].key # new.key
    BY <1>2, <1>4 DEF NoEntry
  <2>2. s \in Slots(N)
    BY <1>2
  <2>3. EntriesOf([table EXCEPT ![s] = new], N)
          = {e \in EntriesOf(table, N) : e.key # new.key} \union {new}
    <3> HIDE DEF N
    <3> QED
      BY <1>1, <1>4, <2>1, <2>2, EntriesReplaced
  <2> QED
    BY <1>3, <1>4, <2>3
<1>10. tableused' = Cardinality(UsedOf(table', N)) /\ tableused' \in 0 .. N
  <2>1. tableused' = Cardinality(UsedOf(table', N))
    <3>1. CASE table[s] = Free
      <4>1. Cardinality(UsedOf([table EXCEPT ![s] = new], N)) = Cardinality(UsedOf(table, N)) + 1
        BY <1>1, <1>2, <1>4, <1>5, <3>1, EntriesPut
      <4> QED
        BY <1>1, <1>3, <3>1, <4>1
    <3>2. CASE table[s] # Free
      <4>1. new # Free
        BY <1>4, FreeIsNoEntry
      <4>2. UsedOf([table EXCEPT ![s] = new], N) = UsedOf(table, N)
        BY <1>2, <1>5, <3>2, <4>1 DEF UsedOf
      <4> QED
        BY <1>1, <1>3, <3>2, <4>2
    <3> QED
      BY <3>1, <3>2
  <2>2. Cardinality(UsedOf(table', N)) \in 0 .. N
    BY <1>1, UsedFinite
  <2> QED
    BY <2>1, <2>2
<1>11. ASSUME LengthsApart PROVE Stored(EntriesOf(table', N), blob', blobused', installed')
  <2>1. \A e \in E : e \in Entry
    BY <1>5 DEF EntriesOf, UsedOf
  <2>2. Holds(new, v, blob', blobused')
    BY <1>4, <1>11 DEF Holds, Placed
  <2>3. Words(v) = WordsOf(Length[v]) /\ blobused \in Nat
    BY <1>1, LengthsAre
  <2>4. LeavesOthers(E, k, new, blob, blob')
    BY <1>4, <1>11, <2>3 DEF LeavesOthers, Apart, Placed
  <2> HIDE DEF E
  <2>5. new.key = k /\ blobused <= blobused' /\ blobused' \in Nat
    BY <1>4
  <2>6. Stored({e \in E : e.key # k} \union {new}, blob', blobused',
               [installed EXCEPT ![k] = v])
    <3>1. Putting(E, blob, blobused, installed, k, v, new, blob', blobused')
      BY <1>1, <1>11, <2>1, <2>2, <2>3, <2>4, <2>5 DEF Putting
    <3> QED
      BY <3>1, StoredPut
  <2> QED
    BY <1>9, <2>6
<1>12. installed' \in [Key -> Value \union {Absent}]
  BY <1>1
<1>13. blobused' \in 0 .. BlobSize
  BY <1>1
<1> QED
  BY <1>1, <1>6, <1>7, <1>8, <1>10, <1>11, <1>12, <1>13 DEF TableInv

-----------------------------------------------------------------------------
(* Installing. *)

(* Where the words of an entry are. *)
LEMMA WordsLie ==
  ASSUME NEW E, NEW b, NEW used \in Nat, NEW inst, Stored(E, b, used, inst),
         NEW e \in E, e.len > 4
  PROVE  /\ inst[e.key] \in Value /\ e.len = Length[inst[e.key]]
         /\ e.val \in Nat /\ WordsOf(e.len) \in Nat /\ WordsOf(e.len) >= 1
         /\ e.val + WordsOf(e.len) <= used
<1> DEFINE w == inst[e.key]
<1>1. Holds(e, w, b, used)
  BY DEF Stored
<1> HIDE DEF w
<1>2. w \in Value /\ e.len = Length[w] /\ e.val \in Nat /\ e.val + Words(w) <= used
  BY <1>1 DEF Holds
<1>3. Words(w) = WordsOf(e.len) /\ Words(w) \in Nat /\ Words(w) >= 1
  BY <1>2, LengthsAre
<1> QED
  BY <1>2, <1>3 DEF w

(* A value that fits where another lies takes no more words. *)
LEMMA FitsWithin ==
  ASSUME NEW v \in Value, NEW w \in Value, NEW e, e.len = Length[w], Fits(e, v),
         LengthsApart, ~Inline(v)
  PROVE  e.len > 4 /\ Words(v) <= Words(w)
<1>1. Length[v] \in Nat /\ Length[w] \in Nat
  BY LengthsAre
<1>2. Length[v] > 4 /\ Length[v] <= ((Length[w] + 7) \div 8) * 8
  BY <1>1 DEF Fits, Inline
<1>3. Length[w] > 4
  <2>1. ASSUME Length[w] <= 4 PROVE FALSE
    <3>1. Length[v] \notin 5 .. 8
      BY <2>1 DEF LengthsApart, Inline
    <3> QED
      BY <1>1, <1>2, <2>1, <3>1
  <2> QED
    BY <1>1, <2>1
<1>4. (Length[v] + 7) \div 8 <= (Length[w] + 7) \div 8
  BY <1>1, <1>2
<1> QED
  BY <1>3, <1>4 DEF Words

(* Writing v from at on leaves the words of an entry on either side alone.  *)
LEMMA BesideWritten ==
  ASSUME BlobSize \in Nat, DOMAIN blob = Slots(BlobSize), NEW v \in Value, NEW at \in Nat,
         at + Words(v) <= BlobSize,
         NEW x \in Nat, NEW n \in Nat, x + n <= BlobSize,
         x + n <= at \/ at + Words(v) <= x
  PROVE  \A w \in x .. x + n - 1 : Written(v, at)[w] = blob[w]
<1> TAKE w \in x .. x + n - 1
<1>1. Words(v) \in Nat
  BY LengthsAre
<1>2. w \in DOMAIN blob /\ (w < at \/ w >= at + Words(v))
  BY <1>1 DEF Slots
<1> QED
  BY <1>2, WritesHere

LEMMA InPlacePlaced ==
  ASSUME TableInv, LengthsApart, NEW k \in Key, NEW v \in Value,
         NEW s \in Slots(TableSize), table[s] # Free, table[s].key = k,
         ~Inline(v), Fits(table[s], v), NEW at \in Offsets(table[s]),
         blob' = Written(v, at), blobused' = blobused
  PROVE  Placed(k, v, at)
<1> DEFINE E == EntriesOf(table, TableSize)
           old == table[s]
           w == installed[k]
<1>1. /\ BlobSize \in Nat /\ DOMAIN blob = Slots(BlobSize) /\ blobused \in 0 .. BlobSize
      /\ Stored(E, blob, blobused, installed) /\ old \in E
  BY DEF TableInv, EntriesOf, UsedOf
<1> HIDE DEF E
<1>2. Holds(old, w, blob, blobused)
  BY <1>1 DEF Stored
<1>3. w \in Value /\ old.len = Length[w]
  BY <1>2 DEF Holds
<1>4. Length[v] \in Nat /\ Length[v] > 4 /\ Words(v) \in Nat /\ Words(w) \in Nat
      /\ Words(w) = WordsOf(old.len)
  BY <1>3, LengthsAre DEF Inline
<1>5. old.len > 4 /\ Words(v) <= Words(w)
  <2> HIDE DEF w
  <2> QED
    BY <1>3, FitsWithin
<1>6. at = old.val
  BY <1>5 DEF Offsets
<1>7. at \in Nat /\ at + Words(w) <= blobused
  BY <1>2, <1>5, <1>6 DEF Holds
<1>8. at + Words(v) <= blobused /\ at + Words(v) <= BlobSize /\ blobused \in Nat
  BY <1>1, <1>4, <1>5, <1>7
<1>9. \A p \in 0 .. Words(v) - 1 : blob'[at + p] = [of |-> v, part |-> p]
  BY <1>1, <1>7, <1>8, WritesHere
<1>10. ASSUME NEW e \in E, e.key # k, e.len > 4
       PROVE  /\ \A u \in e.val .. e.val + WordsOf(e.len) - 1 : blob'[u] = blob[u]
              /\ e.val + WordsOf(e.len) <= at \/ at + Words(v) <= e.val
  <2>1. e.val \in Nat /\ WordsOf(e.len) \in Nat /\ e.val + WordsOf(e.len) <= blobused
    BY <1>1, <1>8, <1>10, WordsLie
  <2>2. Apart(e, old)
    BY <1>1, <1>5, <1>10 DEF Stored
  <2>3. e.val + WordsOf(e.len) <= at \/ at + Words(w) <= e.val
    BY <1>4, <1>6, <2>2 DEF Apart
  <2>4. e.val + WordsOf(e.len) <= at \/ at + Words(v) <= e.val
    <3> HIDE DEF w
    <3> QED
      BY <1>4, <1>5, <1>7, <2>1, <2>3
  <2>5. e.val + WordsOf(e.len) <= BlobSize
    BY <1>1, <2>1
  <2>6. \A u \in e.val .. e.val + WordsOf(e.len) - 1 : Written(v, at)[u] = blob[u]
    BY <1>1, <1>7, <1>8, <2>1, <2>4, <2>5, BesideWritten
  <2> QED
    BY <2>4, <2>6
<1> QED
  BY <1>4, <1>7, <1>8, <1>9, <1>10 DEF Placed, E

LEMMA RoomIs ==
  ASSUME BlobSize \in Nat, blobused \in 0 .. BlobSize, NEW v \in Value, HasRoom(v)
  PROVE  blobused + Words(v) <= BlobSize
<1>1. Length[v] \in Nat /\ blobused * 8 + Length[v] <= BlobSize * 8 /\ blobused \in Nat
  BY LengthsAre DEF HasRoom
<1>2. blobused + ((Length[v] + 7) \div 8) <= BlobSize
  <2> DEFINE L == Length[v]
             B == BlobSize
  <2> HIDE DEF L, B
  <2> QED
    BY <1>1 DEF L, B
<1> QED
  BY <1>2 DEF Words

LEMMA AtEndPlaced ==
  ASSUME TableInv, LengthsApart, NEW k \in Key, NEW v \in Value, ~Inline(v), HasRoom(v),
         blob' = Written(v, blobused), blobused' = Bumped(v)
  PROVE  Placed(k, v, blobused)
<1> DEFINE E == EntriesOf(table, TableSize)
<1>1. /\ BlobSize \in Nat /\ DOMAIN blob = Slots(BlobSize) /\ blobused \in 0 .. BlobSize
      /\ Stored(E, blob, blobused, installed)
  BY DEF TableInv
<1> HIDE DEF E
<1>2. Length[v] \in Nat /\ Length[v] > 4 /\ Words(v) \in Nat
  BY LengthsAre DEF Inline
<1>3. blobused \in Nat /\ blobused + Words(v) <= BlobSize /\ blobused' = blobused + Words(v)
  BY <1>1, RoomIs DEF Bumped
<1>4. \A p \in 0 .. Words(v) - 1 : blob'[blobused + p] = [of |-> v, part |-> p]
  BY <1>1, <1>3, WritesHere
<1>5. ASSUME NEW e \in E, e.key # k, e.len > 4
      PROVE  /\ \A u \in e.val .. e.val + WordsOf(e.len) - 1 : blob'[u] = blob[u]
             /\ e.val + WordsOf(e.len) <= blobused
  <2>1. e.val \in Nat /\ WordsOf(e.len) \in Nat /\ e.val + WordsOf(e.len) <= blobused
    BY <1>1, <1>3, <1>5, WordsLie
  <2>2. e.val + WordsOf(e.len) <= BlobSize
    BY <1>1, <2>1
  <2>3. \A u \in e.val .. e.val + WordsOf(e.len) - 1 : Written(v, blobused)[u] = blob[u]
    BY <1>1, <1>3, <2>1, <2>2, BesideWritten
  <2> QED
    BY <2>1, <2>3
<1> QED
  BY <1>2, <1>3, <1>4, <1>5 DEF Placed, E

(* HTinstall, in all its ways. *)
LEMMA InstallStep ==
  ASSUME TableInv, panicked = FALSE, NEW k \in Key, NEW v \in Value, HTinstall(k, v),
         installed' = IF panicked' THEN installed ELSE [installed EXCEPT ![k] = v]
  PROVE  TableInv' /\ panicked' \in BOOLEAN
<1> DEFINE s == Find(k)
           N == TableSize
<1>1. /\ N \in Nat /\ Kept(table, N) /\ tableused \in 0 .. N
      /\ tableused = Cardinality(UsedOf(table, N))
      /\ BlobSize \in Nat /\ DOMAIN blob = Slots(BlobSize) /\ blobused \in 0 .. BlobSize
      /\ installed \in [Key -> Value \union {Absent}]
      /\ LengthsApart => Stored(EntriesOf(table, N), blob, blobused, installed)
  BY DEF TableInv
<1>2. Length[v] \in Nat /\ Length[v] > 0 /\ Words(v) \in Nat
  BY LengthsAre
<1>3. CASE s = None
  <2>1. panicked' = TRUE /\ UNCHANGED blocks /\ installed' = installed
    BY <1>3 DEF HTinstall
  <2> QED
    BY <2>1 DEF TableInv, blocks, TableSize, BlobSize
<1>4. CASE s # None
  <2>1. /\ tableused' = IF table[s] = Free THEN tableused + 1 ELSE tableused
        /\ InstallInline(s, k, v) \/ InstallInPlace(s, k, v) \/ InstallStored(s, k, v)
    BY <1>4 DEF HTinstall
  <2>2. s \in Slots(N) /\ (table[s] # Free => table[s].key = k)
    BY <1>1, <1>4, FindIs
  <2>3. blobused \in Nat /\ blobused <= blobused /\ blobused <= BlobSize
    BY <1>1
  <2>4. \A at : DOMAIN Written(v, at) = DOMAIN blob
    BY DEF Written
  <2> HIDE DEF s
  <2>5. CASE InstallInline(s, k, v)
    <3>1. /\ Put(s, k, v, v) /\ panicked' = FALSE /\ blob' = blob /\ blobused' = blobused
          /\ installed' = [installed EXCEPT ![k] = v] /\ Length[v] <= 4
      BY <2>5 DEF InstallInline, Inline
    <3>2. Placed(k, v, v)
      BY <1>2, <3>1 DEF Placed
    <3>3. v \in Value \union Nat /\ DOMAIN blob' = DOMAIN blob
          /\ blobused' \in Nat /\ blobused <= blobused' /\ blobused' <= BlobSize
      BY <2>3, <3>1
    <3> QED
      BY <1>4, <2>1, <3>1, <3>2, <3>3, InstallKeeps DEF s
  <2>6. CASE InstallInPlace(s, k, v)
    <3>1. PICK at \in Offsets(table[s]) :
            /\ blob' = Written(v, at) /\ Put(s, k, v, at)
            /\ table[s] # Free /\ ~Inline(v) /\ Fits(table[s], v)
            /\ blobused' = blobused /\ panicked' = FALSE
            /\ installed' = [installed EXCEPT ![k] = v]
      BY <2>6 DEF InstallInPlace
    <3>2. at \in Value \union Nat
      <4>1. table[s] \in Entry
        BY <1>1, <2>2, <3>1 DEF Kept
      <4> QED
        BY <1>1, <4>1 DEF Offsets, Entry
    <3>3. LengthsApart => Placed(k, v, at)
      BY <2>2, <3>1, InPlacePlaced
    <3>4. /\ DOMAIN blob' = DOMAIN blob
          /\ blobused' \in Nat /\ blobused <= blobused' /\ blobused' <= BlobSize
      BY <2>3, <2>4, <3>1
    <3> QED
      BY <1>4, <2>1, <3>1, <3>2, <3>3, <3>4, InstallKeeps DEF s
  <2>7. CASE InstallStored(s, k, v) /\ HasRoom(v)
    <3>1. /\ blob' = Written(v, blobused) /\ blobused' = Bumped(v) /\ ~Inline(v)
          /\ Put(s, k, v, blobused) /\ panicked' = FALSE
          /\ installed' = [installed EXCEPT ![k] = v]
      BY <2>7 DEF InstallStored
    <3>2. LengthsApart => Placed(k, v, blobused)
      BY <2>7, <3>1, AtEndPlaced
    <3>3. /\ DOMAIN blob' = DOMAIN blob /\ blobused \in Value \union Nat
          /\ blobused' \in Nat /\ blobused <= blobused' /\ blobused' <= BlobSize
      <4>1. blobused + Words(v) <= BlobSize
        BY <1>1, <2>7, RoomIs
      <4> QED
        BY <1>2, <2>3, <2>4, <3>1, <4>1 DEF Bumped
    <3> QED
      BY <1>4, <2>1, <3>1, <3>2, <3>3, InstallKeeps DEF s
  <2>8. CASE InstallStored(s, k, v) /\ ~HasRoom(v)
    <3>1. /\ panicked' = TRUE /\ table' = table /\ blob' = blob /\ blobused' = blobused
          /\ installed' = installed
      BY <2>8 DEF InstallStored
    <3>2. TableSize' = TableSize /\ BlobSize' = BlobSize
      BY <3>1 DEF TableSize, BlobSize
    <3>3. tableused' \in 0 .. N
      <4>1. CASE table[s] = Free
        <5>1. Cardinality(UsedOf(table, N)) < N
          <6> HIDE DEF N
          <6> QED
            BY <1>1, <2>2, <4>1, UsedFinite
        <5> QED
          BY <1>1, <2>1, <4>1, <5>1
      <4>2. CASE table[s] # Free
        BY <1>1, <2>1, <4>2
      <4> QED
        BY <4>1, <4>2
    <3> QED
      BY <1>1, <3>1, <3>2, <3>3 DEF TableInv
  <2> QED
    BY <2>1, <2>5, <2>6, <2>7, <2>8
<1> QED
  BY <1>3, <1>4

-----------------------------------------------------------------------------
(* The theorems. *)

TabInv == TableInv /\ NoteInv

LEMMA InitTab == TabInit => TabInv
<1> SUFFICES ASSUME TabInit PROVE TabInv
  OBVIOUS
<1>1. DOMAIN table = {} /\ DOMAIN blob = {} /\ Slots(0) = {}
  BY DEF TabInit, Slots
<1>2. TableSize = 0 /\ BlobSize = 0
  BY <1>1, FS_EmptySet DEF TableSize, BlobSize
<1>3. table \in [Slots(0) -> Entry \union {Free}]
  BY <1>1 DEF TabInit
<1>4. Kept(table, TableSize) /\ UsedOf(table, TableSize) = {}
  BY <1>1, <1>2, <1>3 DEF Kept, UsedOf
<1>5. EntriesOf(table, TableSize) = {} /\ Cardinality(UsedOf(table, TableSize)) = 0
  BY <1>4, FS_EmptySet DEF EntriesOf
<1>6. \A k \in Key : installed[k] = Absent
  BY DEF TabInit
<1>7. Stored(EntriesOf(table, TableSize), blob, blobused, installed)
  BY <1>5, <1>6 DEF Stored
<1>8. TableInv
  BY <1>1, <1>2, <1>4, <1>5, <1>7 DEF TableInv, TabInit
<1>9. NoteInv
  <2>1. installs \in 0 .. MaxInstalls
    BY TableAssumption DEF TabInit, TableAssumption
  <2> QED
    BY <2>1 DEF TabInit, NoteInv, RecordPostedOnce
<1> QED
  BY <1>8, <1>9 DEF TabInv

LEMMA ShortIs == ASSUME NEW x, NEW y PROVE Short(x, y) \in BOOLEAN
BY Zenon DEF Short

LEMMA NextTab == TabInv /\ [TabNext]_tabVars => TabInv'
<1> SUFFICES ASSUME TabInv, [TabNext]_tabVars PROVE TabInv'
  OBVIOUS
<1>1. /\ TableInv
      /\ notificationPending \in BOOLEAN /\ posted \in Nat
      /\ posted = IF notificationPending THEN 1 ELSE 0
      /\ installs \in 0 .. MaxInstalls
      /\ phase \in {"off", "booting", "up"} /\ panicked \in BOOLEAN
  BY DEF TabInv, NoteInv, RecordPostedOnce
<1>2. MaxInstalls \in Nat
  BY TableAssumption DEF TableAssumption
<1>3. ASSUME UNCHANGED blocks, UNCHANGED <<panicked, installed>> PROVE TableInv'
  BY <1>1, <1>3 DEF TableInv, blocks, TableSize, BlobSize
<1>4. ASSUME HTallocate, UNCHANGED <<panicked, installed>> PROVE TableInv'
  BY <1>1, <1>4, AllocateKeeps
<1>5. ASSUME notificationPending' \in BOOLEAN, posted' = IF notificationPending' THEN 1 ELSE 0,
             installs' \in 0 .. MaxInstalls, phase' \in {"off", "booting", "up"},
             panicked' \in BOOLEAN
      PROVE  NoteInv'
  BY <1>5 DEF NoteInv, RecordPostedOnce
<1>6. CASE Initialize
  <2>1. TableInv'
    BY <1>4, <1>6 DEF Initialize
  <2>2. NoteInv'
    BY <1>1, <1>2, <1>5, <1>6 DEF Initialize, notes
  <2> QED
    BY <2>1, <2>2 DEF TabInv
<1>7. CASE Booted
  <2>1. TableInv'
    BY <1>3, <1>7 DEF Booted
  <2>2. NoteInv'
    BY <1>1, <1>5, <1>7 DEF Booted, notes
  <2> QED
    BY <2>1, <2>2 DEF TabInv
<1>8. CASE FsCall
  <2>1. TableInv'
    BY <1>3, <1>4, <1>8 DEF FsCall
  <2>2. notificationPending' \in BOOLEAN /\ posted' = IF notificationPending' THEN 1 ELSE 0
    <3>1. CASE MustPost
      BY <1>1, <1>8, <3>1 DEF FsCall, HTallocatelater, MustPost
    <3>2. CASE ~MustPost
      BY <1>1, <1>8, <3>2 DEF FsCall, HTallocatelater, notes
    <3> QED
      BY <3>1, <3>2
  <2>3. NoteInv'
    BY <1>1, <1>2, <1>5, <1>8, <2>2 DEF FsCall
  <2> QED
    BY <2>1, <2>3 DEF TabInv
<1>9. CASE Install
  <2>1. PICK k \in Key, v \in Value :
          /\ HTinstall(k, v)
          /\ installed' = IF panicked' THEN installed ELSE [installed EXCEPT ![k] = v]
    BY <1>9 DEF Install
  <2>2. TableInv' /\ panicked' \in BOOLEAN
    BY <1>1, <1>9, <2>1, InstallStep DEF Install
  <2>3. NoteInv'
    BY <1>1, <1>2, <1>5, <1>9, <2>2 DEF Install, notes
  <2> QED
    BY <2>2, <2>3 DEF TabInv
<1>10. CASE FsCallEnds
  <2>1. TableInv'
    BY <1>3, <1>10 DEF FsCallEnds
  <2>2. NoteInv'
    BY <1>1, <1>2, <1>5, <1>10 DEF FsCallEnds, notes
  <2> QED
    BY <2>1, <2>2 DEF TabInv
<1>11. CASE NotificationProc
  <2>1. TableInv'
    BY <1>4, <1>11 DEF NotificationProc
  <2>2. posted = 1
    BY <1>1, <1>11 DEF NotificationProc
  <2>3. notificationPending' \in BOOLEAN
    BY <1>11, ShortIs, Zenon DEF NotificationProc
  <2>4. posted' = IF notificationPending' THEN 1 ELSE 0
    BY <1>11, <2>2, <2>3 DEF NotificationProc, Removed
  <2>5. NoteInv'
    BY <1>1, <1>5, <1>11, <2>3, <2>4 DEF NotificationProc
  <2> QED
    BY <2>1, <2>5 DEF TabInv
<1>12. CASE UNCHANGED tabVars
  <2>1. TableInv'
    BY <1>3, <1>12 DEF tabVars
  <2>2. NoteInv'
    BY <1>1, <1>5, <1>12 DEF tabVars, notes
  <2> QED
    BY <2>1, <2>2 DEF TabInv
<1> QED
  BY <1>6, <1>7, <1>8, <1>9, <1>10, <1>11, <1>12 DEF TabNext

LEMMA TabInOrder == TabInv => GrowthInOrder
<1> SUFFICES ASSUME TabInv PROVE GrowthInOrder
  OBVIOUS
<1>1. /\ TableSize \in Nat /\ Kept(table, TableSize) /\ tableused \in 0 .. TableSize
      /\ DOMAIN blob = Slots(BlobSize) /\ blobused \in 0 .. BlobSize
  BY DEF TabInv, TableInv
<1>2. DOMAIN table = 0 .. TableSize - 1
  BY <1>1 DEF Kept, Slots
<1>3. \A s \in DOMAIN table : table[s].key \in Key \union {Absent}
  BY <1>1 DEF Kept, Entry, Free
<1> QED
  BY <1>1, <1>2, <1>3 DEF GrowthInOrder, TabTypeOK, TabInv, NoteInv, Slots

LEMMA TabInvAlways == TabSpec => []TabInv
BY InitTab, NextTab, PTL DEF TabSpec

(* Both blocks and the notification record are in order, whatever the calls *)
(* install and whenever memory is found or the task is run: the room that   *)
(* is counted as used is never more than there is, rehashing and resizing   *)
(* included, and the one record is in the system's queue exactly while a    *)
(* request is pending (HTallocate, HTinstall, HTallocatelater of hashtab.c) *)
THEOREM GrowthAlwaysInOrder == TabSpec => []GrowthInOrder
BY TabInvAlways, TabInOrder, PTL

(* HTlookup finds the value installed last under the key, for every hash    *)
(* function, as long as no value fits in its entry beside values of 5 to 8  *)
(* bytes: HTinstall would take the bytes in the entry for an offset when    *)
(* one of the latter is installed over the former.  Those of setDB all have *)
(* 5 bytes or more.                                                         *)
THEOREM LastAlwaysFound ==
  ASSUME LengthsApart
  PROVE  TabSpec => []LastInstalledFound
<1>1. TabInv => LastInstalledFound
  BY LookupIs DEF TabInv
<1> QED
  BY <1>1, TabInvAlways, PTL

-----------------------------------------------------------------------------
(* NineP: what a walk comes to. *)

Nodes == Node \union {NoFile}
Session == [at : [Fid -> Nodes], opened : SUBSET Fid, openfids : SUBSET Fid]

(* One component leads to a file, or to none. *)
LEMMA ComponentTyped ==
  ASSUME NEW t \in [Node -> Place], NEW n \in Nodes, NEW m
  PROVE  Component(t, n, m) \in Nodes
<1>1. CASE n = NoFile
  BY <1>1 DEF Component, Nodes
<1>2. CASE n # NoFile /\ m = DotDot
  <2>1. n \in Node
    BY <1>2 DEF Nodes
  <2>2. t[n].dir \in Dirs \union {NoFile}
    BY <2>1 DEF Place
  <2> QED
    BY <1>2, <2>2, NinePAssumption DEF Component, Nodes
<1>3. CASE n # NoFile /\ m # DotDot
  <2> DEFINE named == Named(t, n, m)
  <2>1. named \subseteq Node
    BY DEF Named, Children
  <2>2. Component(t, n, m) = IF named = {} THEN NoFile ELSE CHOOSE c \in named : TRUE
    BY <1>3 DEF Component
  <2> HIDE DEF named
  <2> QED
    BY <2>1, <2>2 DEF Nodes
<1> QED
  BY <1>1, <1>2, <1>3

(* The nodes that a path passes, one component after the other. *)
LEMMA RouteIs ==
  ASSUME NEW t \in [Node -> Place], NEW from \in Nodes, NEW names, Len(names) \in Nat
  PROVE  /\ Route(t, from, names) \in [0 .. Len(names) -> Nodes]
         /\ Route(t, from, names)[0] = from
         /\ \A i \in 1 .. Len(names) :
              Route(t, from, names)[i] = Component(t, Route(t, from, names)[i - 1], names[i])
<1> DEFINE N == Len(names)
           step == [i \in 1 .. N |-> [n \in Nodes |-> Component(t, n, names[i])]]
           is(g) == g = [i \in 0 .. N |->
                           IF i = 0 THEN from
                           ELSE LET before == g[i - 1] IN Component(t, before, names[i])]
<1>1. step \in [1 .. N -> [Nodes -> Nodes]]
  BY ComponentTyped
<1>2. PICK f : Follows(f, Nodes, from, step, N)
  <2> HIDE DEF step
  <2> QED
    BY <1>1, RecursionExists
<1>3. is(f)
  <2>1. ASSUME NEW i \in 0 .. N
        PROVE  f[i] = IF i = 0 THEN from ELSE Component(t, f[i - 1], names[i])
    <3>1. CASE i = 0
      BY <1>2, <3>1 DEF Follows
    <3>2. CASE i # 0
      <4>1. i \in 1 .. N /\ i - 1 \in 0 .. N
        BY <3>2
      <4>2. f[i - 1] \in Nodes /\ f[i] = step[i][f[i - 1]]
        BY <1>2, <4>1 DEF Follows
      <4> QED
        BY <3>2, <4>1, <4>2
    <3> QED
      BY <3>1, <3>2
  <2>2. f = [i \in 0 .. N |-> f[i]]
    BY <1>2 DEF Follows
  <2> QED
    BY <2>1, <2>2
<1> DEFINE s == CHOOSE g : is(g)
<1>4. is(s)
  <2> HIDE DEF is
  <2> QED
    BY <1>3
<1>5. s = Route(t, from, names)
  BY DEF Route
<1> HIDE DEF s
<1>6. s[0] = from /\ \A i \in 1 .. N : s[i] = Component(t, s[i - 1], names[i])
  BY <1>4
<1>7. \A i \in 0 .. N : s[i] \in Nodes
  <2>1. \A i \in 1 .. N : s[i - 1] \in Nodes => s[i] \in Nodes
    BY <1>6, ComponentTyped
  <2> QED
    BY <1>6, <2>1, StaysIn, Zenon
<1>8. s \in [0 .. N -> Nodes]
  BY <1>4, <1>7
<1> QED
  BY <1>5, <1>6, <1>8

(* From where a path is broken it stays so. *)
LEMMA RouteBroken ==
  ASSUME NEW t \in [Node -> Place], NEW from \in Nodes, NEW names, Len(names) \in Nat,
         NEW i \in 0 .. Len(names), Route(t, from, names)[i] = NoFile
  PROVE  \A j \in i .. Len(names) : Route(t, from, names)[j] = NoFile
<1> DEFINE at == Route(t, from, names)
           bad == {j \in i .. Len(names) : at[j] # NoFile}
<1>0. \A j \in 1 .. Len(names) : at[j] = Component(t, at[j - 1], names[j])
  BY RouteIs
<1> HIDE DEF at
<1> SUFFICES ASSUME bad # {} PROVE FALSE
  BY DEF at
<1>1. PICK j \in bad : \A k \in bad : j <= k
  <2>1. bad \in SUBSET Nat
    OBVIOUS
  <2> HIDE DEF bad
  <2> QED
    BY <2>1, LeastExists
<1>2. j # i /\ j - 1 \in i .. Len(names) /\ j \in 1 .. Len(names)
  BY DEF at
<1>3. at[j - 1] = NoFile
  BY <1>1, <1>2
<1>4. at[j] = NoFile
  BY <1>0, <1>2, <1>3 DEF Component
<1> QED
  BY <1>4

(* The number of components that are there: all before it are, and none     *)
(* after.                                                                   *)
LEMMA RouteCount ==
  ASSUME NEW t \in [Node -> Place], NEW from \in Nodes, NEW names, Len(names) \in Nat,
         NEW ok, ok = Cardinality({i \in 1 .. Len(names) : Route(t, from, names)[i] # NoFile})
  PROVE  /\ ok \in 0 .. Len(names)
         /\ \A i \in 1 .. Len(names) : Route(t, from, names)[i] # NoFile <=> i <= ok
<1> DEFINE at == Route(t, from, names)
           N == Len(names)
           there == {i \in 1 .. N : at[i] # NoFile}
           bad == {i \in 1 .. N : at[i] = NoFile}
<1>1. \A i \in 1 .. N : at[i] = NoFile => \A j \in i .. N : at[j] = NoFile
  BY RouteBroken
<1> HIDE DEF at
<1>2. PICK k \in 0 .. N : there = 1 .. k
  <2>1. CASE bad = {}
    <3>1. there = 1 .. N
      BY <2>1
    <3> QED
      BY <3>1
  <2>2. CASE bad # {}
    <3>1. PICK b \in bad : \A c \in bad : b <= c
      <4>1. bad \in SUBSET Nat
        OBVIOUS
      <4> HIDE DEF bad
      <4> QED
        BY <2>2, <4>1, LeastExists
    <3>2. there = 1 .. b - 1
      <4>1. ASSUME NEW i \in 1 .. N PROVE at[i] # NoFile <=> i <= b - 1
        BY <1>1, <3>1
      <4> QED
        BY <4>1
    <3> QED
      BY <3>2
  <2> QED
    BY <2>1, <2>2
<1>3. Cardinality(1 .. k) = k
  BY FS_Interval
<1>4. ok = k
  BY <1>2, <1>3 DEF at
<1>5. \A i \in 1 .. N : at[i] # NoFile <=> i <= k
  <2> TAKE i \in 1 .. N
  <2>1. at[i] # NoFile <=> i \in 1 .. k
    BY <1>2
  <2> QED
    BY <2>1
<1> QED
  BY <1>2, <1>4, <1>5 DEF at

(* A path of few enough components is one request. *)
LEMMA OneChunk ==
  ASSUME NEW S, NEW names \in Seq(S), Len(names) <= ChunkMax
  PROVE  Chunks(names) = <<names>>
<1> DEFINE L == Len(names)
           n == IF names = <<>> THEN 1 ELSE (L + ChunkMax - 1) \div ChunkMax
<1>1. L \in Nat /\ ChunkMax \in Nat /\ ChunkMax >= 1 /\ (names = <<>> <=> L = 0)
  BY NinePAssumption
<1>2. n = 1
  <2>1. CASE names = <<>>
    BY <2>1
  <2>2. CASE names # <<>>
    <3>1. L >= 1 /\ L <= ChunkMax
      BY <1>1, <2>2
    <3> HIDE DEF L
    <3>2. (L + ChunkMax - 1) \div ChunkMax = 1
      BY <1>1, <3>1
    <3> QED
      BY <2>2, <3>2
  <2> QED
    BY <2>1, <2>2
<1> DEFINE piece(k) == SubSeq(names, (k - 1) * ChunkMax + 1,
                              IF k * ChunkMax < L THEN k * ChunkMax ELSE L)
<1>3. Chunks(names) = [k \in 1 .. n |-> piece(k)]
  BY DEF Chunks
<1>4. piece(1) = names
  <2>1. (1 - 1) * ChunkMax + 1 = 1 /\ 1 * ChunkMax = ChunkMax
    BY <1>1
  <2>2. piece(1) = SubSeq(names, 1, L)
    <3>1. piece(1) = SubSeq(names, 1, IF ChunkMax < L THEN ChunkMax ELSE L)
      BY <2>1
    <3>2. (IF ChunkMax < L THEN ChunkMax ELSE L) = L
      BY <1>1
    <3> QED
      BY <3>1, <3>2
  <2>3. SubSeq(names, 1, L) = names
    BY SubSeqFull
  <2> QED
    BY <2>2, <2>3
<1> HIDE DEF n, piece
<1>5. Chunks(names) = [k \in 1 .. 1 |-> piece(k)]
  BY <1>2, <1>3
<1>6. [k \in 1 .. 1 |-> piece(k)] = [k \in 1 .. 1 |-> names]
  <2>1. \A k \in 1 .. 1 : piece(k) = names
    BY <1>4
  <2> QED
    BY <2>1
<1> QED
  BY <1>5, <1>6

(* A walk to newfid of few enough components: what it comes to if it is     *)
(* refused or the path is broken, and what if it is there.                  *)
Refused(s, fd, newfid) ==
  \/ ~InUse(s, fd)
  \/ newfid # fd /\ InUse(s, newfid)
  \/ newfid = fd /\ fd \in s.opened

LEMMA WalkIs ==
  ASSUME NEW t \in [Node -> Place], NEW s \in Session, NEW fd \in Fid, NEW newfid \in Fid,
         NEW S, NEW names \in Seq(S), Len(names) <= ChunkMax
  PROVE  LET p == Prepared(s, fd, newfid)
             w == Twalk(t, p, fd, newfid, names)
             r == Walk9(t, s, fd, newfid, names)
         IN  /\ r.err = (w.err \/ Len(w.qids) < Len(names))
             /\ r.s = IF r.err THEN w.s ELSE Noted(w.s, newfid)
             /\ r.qids = <<>> \o w.qids
<1> DEFINE c == Chunks(names)
           p == Prepared(s, fd, newfid)
           w == Twalk(t, p, fd, newfid, names)
           r0 == [s |-> p, err |-> FALSE, qids |-> <<>>]
           r1 == [s |-> w.s, err |-> w.err \/ Len(w.qids) < Len(names), qids |-> <<>> \o w.qids]
           next(r, n) == LET v == Twalk(t, r.s, fd, newfid, c[n])
                         IN  IF r.err THEN r
                             ELSE [s |-> v.s, err |-> v.err \/ Len(v.qids) < Len(c[n]),
                                   qids |-> r.qids \o v.qids]
           is(g) == g = [n \in 0 .. Len(c) |-> IF n = 0 THEN r0 ELSE next(g[n - 1], n)]
           f == [n \in 0 .. 1 |-> IF n = 0 THEN r0 ELSE r1]
<1>1. Len(c) = 1 /\ c[1] = names
  BY OneChunk
<1> HIDE DEF c
<1>2. next(r0, 1) = r1
  <2>1. r0.s = p /\ r0.err = FALSE /\ r0.qids = <<>>
    OBVIOUS
  <2> HIDE DEF r0
  <2> QED
    BY <1>1, <2>1
<1> HIDE DEF next, r0, r1
<1>3. is(f)
  <2>1. \A n \in 0 .. 1 : f[n] = IF n = 0 THEN r0 ELSE next(f[n - 1], n)
    <3>1. f[0] = r0 /\ f[1] = r1
      OBVIOUS
    <3> HIDE DEF f
    <3>2. \A n \in 0 .. 1 : n = 0 \/ (n = 1 /\ n - 1 = 0)
      OBVIOUS
    <3> QED
      BY <1>2, <3>1, <3>2
  <2> QED
    BY <1>1, <2>1
<1> DEFINE a == CHOOSE g : is(g)
<1>4. is(a)
  <2> HIDE DEF is
  <2> QED
    BY <1>3
<1>5. a = Walking(t, s, fd, newfid, c)
  BY DEF Walking, r0, next
<1> HIDE DEF a
<1>6. a[1] = r1
  <2>1. a[0] = r0
    BY <1>1, <1>4
  <2>2. 1 \in 0 .. Len(c) /\ 1 # 0 /\ 1 - 1 = 0
    BY <1>1
  <2>3. a[1] = next(a[1 - 1], 1)
    BY <1>4, <2>2
  <2> QED
    BY <1>2, <2>1, <2>2, <2>3
<1>7. Walk9(t, s, fd, newfid, names) = IF r1.err THEN r1 ELSE [r1 EXCEPT !.s = Noted(@, newfid)]
  BY <1>1, <1>5, <1>6 DEF Walk9, c
<1> HIDE DEF p, w
<1>8. r1.err = (w.err \/ Len(w.qids) < Len(names))
  BY DEF r1
<1> DEFINE q == <<>> \o w.qids
<1>9. r1.s = w.s /\ r1.qids = q
  BY DEF r1
<1>10. r1 = [s |-> w.s, err |-> r1.err, qids |-> q]
  BY DEF r1
<1> HIDE DEF r1, q
<1> DEFINE r2 == [r1 EXCEPT !.s = Noted(@, newfid)]
<1>11. r2.s = Noted(w.s, newfid) /\ r2.err = r1.err /\ r2.qids = q
  BY <1>10
<1> HIDE DEF r2
<1>12. Walk9(t, s, fd, newfid, names) = IF r1.err THEN r1 ELSE r2
  BY <1>7 DEF r2
<1> DEFINE r == Walk9(t, s, fd, newfid, names)
<1>13. r.err = r1.err /\ r.s = IF r1.err THEN w.s ELSE Noted(w.s, newfid)
  BY <1>9, <1>11, <1>12
<1>14. r.qids = q
  BY <1>9, <1>11, <1>12
<1> HIDE DEF r
<1> QED
  BY <1>8, <1>13, <1>14 DEF p, w, q, r

(* What Twalk leaves and answers. *)
LEMMA TwalkIs ==
  ASSUME NEW t \in [Node -> Place], NEW s \in Session, NEW fd \in Fid, NEW newfid \in Fid,
         NEW names, Len(names) \in Nat, names = <<>> <=> Len(names) = 0
  PROVE  LET w == Twalk(t, s, fd, newfid, names)
             at == Route(t, s.at[fd], names)
         IN  /\ w.qids \in Seq(Node) /\ Len(w.qids) <= Len(names)
             /\ w.err <=> Refused(s, fd, newfid) \/ (names # <<>> /\ at[1] = NoFile)
             /\ w.err => w.s = s /\ w.qids = <<>>
             /\ ~w.err => /\ \A i \in 1 .. Len(names) : at[i] # NoFile <=> i <= Len(w.qids)
                          /\ \A i \in 1 .. Len(w.qids) : w.qids[i] = at[i]
                          /\ w.s = IF at[Len(names)] = NoFile THEN s
                                   ELSE [s EXCEPT !.at[newfid] = at[Len(names)]]
<1> DEFINE w == Twalk(t, s, fd, newfid, names)
           at == Route(t, s.at[fd], names)
           N == Len(names)
           ok == Cardinality({i \in 1 .. N : at[i] # NoFile})
<1>1. s.at[fd] \in Nodes
  BY DEF Session
<1>2. /\ at \in [0 .. N -> Nodes] /\ at[0] = s.at[fd]
      /\ ok \in 0 .. N /\ \A i \in 1 .. N : at[i] # NoFile <=> i <= ok
  BY <1>1, RouteIs, RouteCount
<1> DEFINE failed == Refused(s, fd, newfid) \/ (names # <<>> /\ ok = 0)
<1>3. w = IF failed THEN Failed(s)
          ELSE [s |-> IF ok = N THEN [s EXCEPT !.at[newfid] = at[ok]] ELSE s,
                err |-> FALSE, qids |-> [i \in 1 .. ok |-> at[i]]]
  BY DEF Twalk, Refused
<1> HIDE DEF w, at, ok
<1>4. failed <=> Refused(s, fd, newfid) \/ (names # <<>> /\ at[1] = NoFile)
  <2>1. ASSUME names # <<>> PROVE ok = 0 <=> at[1] = NoFile
    BY <1>2, <2>1
  <2> QED
    BY <2>1
<1>5. CASE failed
  <2>1. w.err = TRUE /\ w.s = s /\ w.qids = <<>>
    BY <1>3, <1>5 DEF Failed
  <2>2. w.qids \in Seq(Node) /\ Len(w.qids) <= N
    BY <2>1
  <2> QED
    BY <1>4, <1>5, <2>1, <2>2 DEF w, at
<1>6. CASE ~failed
  <2> DEFINE q == [i \in 1 .. ok |-> at[i]]
  <2>1. w.err = FALSE /\ w.qids = q /\ w.s = IF ok = N THEN [s EXCEPT !.at[newfid] = at[ok]] ELSE s
    BY <1>3, <1>6
  <2>2. \A i \in 1 .. ok : at[i] \in Node
    BY <1>2 DEF Nodes
  <2>3. q \in Seq(Node) /\ Len(q) = ok
    BY <1>2, <2>2
  <2>4. w.s = IF at[N] = NoFile THEN s ELSE [s EXCEPT !.at[newfid] = at[N]]
    <3>1. CASE N = 0
      <4>1. ok = 0 /\ at[0] # NoFile
        BY <1>2, <1>6, <3>1 DEF Refused, InUse
      <4> QED
        BY <2>1, <3>1, <4>1
    <3>2. CASE N # 0
      <4>1. ok = N <=> at[N] # NoFile
        BY <1>2, <3>2
      <4> QED
        BY <2>1, <4>1
    <3> QED
      BY <3>1, <3>2
  <2>5. \A i \in 1 .. ok : w.qids[i] = at[i]
    BY <2>1
  <2> HIDE DEF q
  <2> QED
    BY <1>2, <1>4, <1>6, <2>1, <2>3, <2>4, <2>5 DEF w, at
<1> QED
  BY <1>5, <1>6

LEMMA PreparedTyped ==
  ASSUME NEW s \in Session, NEW fd \in Fid, NEW newfid \in Fid
  PROVE  /\ Prepared(s, fd, newfid) \in Session
         /\ Prepared(s, fd, newfid).at =
              IF Tracked(newfid) /\ fd # newfid /\ newfid \in s.openfids
              THEN [s.at EXCEPT ![newfid] = NoFile] ELSE s.at
         /\ Prepared(s, fd, newfid).opened =
              IF Tracked(newfid) /\ fd # newfid /\ newfid \in s.openfids
              THEN s.opened \ {newfid} ELSE s.opened
         /\ Prepared(s, fd, newfid).openfids =
              IF Tracked(newfid) /\ fd # newfid /\ newfid \in s.openfids
              THEN s.openfids \ {newfid} ELSE s.openfids
  BY DEF Prepared, Clunk9, Forgotten, Session, Nodes

(* What the walk of a path of few enough components comes to.               *)
WalkEnds(t, s, fd, newfid, names) ==
  LET p == Prepared(s, fd, newfid)
      at == Route(t, p.at[fd], names)
      r == Walk9(t, s, fd, newfid, names)
  IN  /\ r.qids \in Seq(Node) /\ Len(r.qids) <= Len(names)
      /\ r.err \in BOOLEAN
      /\ r.err <=> Refused(p, fd, newfid) \/ at[Len(names)] = NoFile
      /\ r.err => r.s = p
      /\ ~r.err => /\ Len(r.qids) = Len(names)
                   /\ r.s = Noted([p EXCEPT !.at[newfid] = at[Len(names)]], newfid)
      /\ ~Refused(p, fd, newfid) =>
           /\ \A i \in 1 .. Len(names) : at[i] # NoFile <=> i <= Len(r.qids)
           /\ \A i \in 1 .. Len(r.qids) : r.qids[i] = at[i]

LEMMA WalkOutcome ==
  ASSUME NEW t \in [Node -> Place], NEW s \in Session, NEW fd \in Fid, NEW newfid \in Fid,
         NEW S, NEW names \in Seq(S), Len(names) <= ChunkMax
  PROVE  WalkEnds(t, s, fd, newfid, names)
<1> DEFINE p == Prepared(s, fd, newfid)
           w == Twalk(t, p, fd, newfid, names)
           at == Route(t, p.at[fd], names)
           r == Walk9(t, s, fd, newfid, names)
           N == Len(names)
<1>1. p \in Session /\ N \in Nat /\ (names = <<>> <=> N = 0)
  <2>1. p \in Session
    BY PreparedTyped
  <2>2. N \in Nat /\ (names = <<>> <=> N = 0)
    BY EmptySeq
  <2> QED
    BY <2>1, <2>2
<1>2. /\ r.err = (w.err \/ Len(w.qids) < N)
      /\ r.s = IF r.err THEN w.s ELSE Noted(w.s, newfid)
      /\ r.qids = <<>> \o w.qids
  BY WalkIs
<1> HIDE DEF p
<1>3. /\ w.qids \in Seq(Node) /\ Len(w.qids) <= N
      /\ w.err <=> Refused(p, fd, newfid) \/ (names # <<>> /\ at[1] = NoFile)
      /\ w.err => w.s = p /\ w.qids = <<>>
      /\ ~w.err => /\ \A i \in 1 .. N : at[i] # NoFile <=> i <= Len(w.qids)
                   /\ \A i \in 1 .. Len(w.qids) : w.qids[i] = at[i]
                   /\ w.s = IF at[N] = NoFile THEN p ELSE [p EXCEPT !.at[newfid] = at[N]]
  BY <1>1, TwalkIs
<1>4. p.at[fd] \in Nodes
  BY <1>1 DEF Session
<1>5. at \in [0 .. N -> Nodes] /\ at[0] = p.at[fd]
  BY <1>1, <1>4, RouteIs
<1>6. \A i \in 0 .. N : at[i] = NoFile => at[N] = NoFile
  BY <1>1, <1>4, RouteBroken
<1>7. <<>> \o w.qids = w.qids
  BY <1>3
<1> HIDE DEF w, at, r, N
<1>8. ~Refused(p, fd, newfid) => at[0] # NoFile
  BY <1>5 DEF Refused, InUse
<1>9. (w.err \/ Len(w.qids) < N) <=> Refused(p, fd, newfid) \/ at[N] = NoFile
  <2>1. CASE w.err
    <3>1. names # <<>> /\ at[1] = NoFile => at[N] = NoFile
      BY <1>1, <1>6
    <3> QED
      BY <1>3, <2>1, <3>1
  <2>2. CASE ~w.err
    <3>1. Len(w.qids) < N <=> at[N] = NoFile
      <4>1. CASE N = 0
        BY <1>3, <1>8, <2>2, <4>1
      <4>2. CASE N # 0
        BY <1>1, <1>3, <2>2, <4>2
      <4> QED
        BY <4>1, <4>2
    <3> QED
      BY <1>3, <2>2, <3>1
  <2> QED
    BY <2>1, <2>2
<1>10. CASE w.err \/ Len(w.qids) < N
  <2>1. r.err = TRUE /\ r.s = w.s /\ r.qids = w.qids
    BY <1>2, <1>7, <1>10
  <2>2. w.s = p
    BY <1>3, <1>9, <1>10
  <2>3. ~Refused(p, fd, newfid) =>
          /\ \A i \in 1 .. N : at[i] # NoFile <=> i <= Len(r.qids)
          /\ \A i \in 1 .. Len(r.qids) : r.qids[i] = at[i]
    <3>1. CASE w.err
      <4>1. at[1] = NoFile /\ names # <<>> => \A i \in 1 .. N : at[i] = NoFile
        BY <1>1, <1>4, RouteBroken DEF at, N
      <4> QED
        BY <1>3, <2>1, <3>1, <4>1
    <3>2. CASE ~w.err
      BY <1>3, <2>1, <3>2
    <3> QED
      BY <3>1, <3>2
  <2> QED
    BY <1>3, <1>9, <1>10, <2>1, <2>2, <2>3 DEF p, at, r, N, WalkEnds
<1>11. CASE ~(w.err \/ Len(w.qids) < N)
  <2>1. r.err = FALSE /\ r.s = Noted(w.s, newfid) /\ r.qids = w.qids
    BY <1>2, <1>7, <1>11
  <2>2. w.s = [p EXCEPT !.at[newfid] = at[N]] /\ Len(w.qids) = N
    BY <1>1, <1>3, <1>9, <1>11
  <2> QED
    BY <1>3, <1>9, <1>11, <2>1, <2>2 DEF p, at, r, N, WalkEnds
<1> QED
  BY <1>10, <1>11

-----------------------------------------------------------------------------
(* FidTable and Folders: fids can be used anew. *)

(* What the fids are like after any calls: a fid of the driver's that is   *)
(* tracked and in use is noted for clunking.                                *)
Sound(s) ==
  /\ s \in Session
  /\ \A f \in s.opened : InUse(s, f)
  /\ \A f \in s.openfids : Tracked(f)
  /\ \A f \in Fid \ {RootFid} : Tracked(f) /\ InUse(s, f) => f \in s.openfids

LEMMA PathsAreShort ==
  ASSUME NEW names \in Paths
  PROVE  names \in Seq(Name \union {DotDot}) /\ Len(names) <= MaxNames
<1>1. PICK m \in 0 .. MaxNames : names \in [1 .. m -> Name \union {DotDot}]
  BY DEF Paths, BoundedSeq, SeqOf
<1>2. m \in Nat
  BY FidTableAssumption
<1> QED
  BY <1>1, <1>2, FidTableAssumption

(* A tracked fid is free before a walk from another fid ends there.       *)
LEMMA PreparedSound ==
  ASSUME NEW s, Sound(s), NEW fd \in Fid, NEW newfid \in Fid \ {RootFid}
  PROVE  /\ Sound(Prepared(s, fd, newfid))
         /\ Tracked(newfid) /\ newfid # fd => ~InUse(Prepared(s, fd, newfid), newfid)
         /\ Prepared(s, fd, newfid).at[fd] = s.at[fd]
         /\ \A f \in Fid \ {newfid} : Prepared(s, fd, newfid).at[f] = s.at[f]
         /\ \A f \in Fid \ {newfid} : f \in s.opened => f \in Prepared(s, fd, newfid).opened
<1> DEFINE p == Prepared(s, fd, newfid)
           clunk == Tracked(newfid) /\ fd # newfid /\ newfid \in s.openfids
<1>1. /\ p \in Session
      /\ p.at = IF clunk THEN [s.at EXCEPT ![newfid] = NoFile] ELSE s.at
      /\ p.opened = IF clunk THEN s.opened \ {newfid} ELSE s.opened
      /\ p.openfids = IF clunk THEN s.openfids \ {newfid} ELSE s.openfids
  <2>1. s \in Session /\ newfid \in Fid
    BY DEF Sound
  <2> HIDE DEF p
  <2> QED
    BY <2>1, PreparedTyped DEF p
<1> HIDE DEF p
<1>2. s.at \in [Fid -> Nodes] /\ s.opened \subseteq Fid /\ s.openfids \subseteq Fid
  BY DEF Sound, Session
<1>3. CASE clunk
  <2>1. \A f \in Fid : p.at[f] = IF f = newfid THEN NoFile ELSE s.at[f]
    BY <1>1, <1>2, <1>3
  <2> QED
    BY <1>1, <1>2, <1>3, <2>1 DEF Sound, InUse, p
<1>4. CASE ~clunk
  BY <1>1, <1>2, <1>4 DEF Sound, InUse, p
<1> QED
  BY <1>3, <1>4

LEMMA WalkSound ==
  ASSUME NEW t \in [Node -> Place], NEW s, Sound(s),
         NEW fd \in Fid, NEW newfid \in Fid \ {RootFid},
         NEW S, NEW names \in Seq(S), Len(names) <= ChunkMax
  PROVE  /\ Sound(Walk9(t, s, fd, newfid, names).s)
         /\ \A f \in Fid \ {newfid} :
              /\ Walk9(t, s, fd, newfid, names).s.at[f] = s.at[f]
              /\ f \in s.opened => f \in Walk9(t, s, fd, newfid, names).s.opened
<1> DEFINE p == Prepared(s, fd, newfid)
           at == Route(t, p.at[fd], names)
           r == Walk9(t, s, fd, newfid, names)
           to == at[Len(names)]
<1>1. /\ Sound(p)
      /\ \A f \in Fid \ {newfid} : p.at[f] = s.at[f]
      /\ \A f \in Fid \ {newfid} : f \in s.opened => f \in p.opened
  BY PreparedSound
<1>2. /\ r.err \in BOOLEAN
      /\ r.err <=> Refused(p, fd, newfid) \/ to = NoFile
      /\ r.err => r.s = p
      /\ ~r.err => r.s = Noted([p EXCEPT !.at[newfid] = to], newfid)
  <2>1. s \in Session /\ newfid \in Fid
    BY DEF Sound
  <2>2. WalkEnds(t, s, fd, newfid, names)
    BY <2>1, WalkOutcome
  <2> QED
    BY <2>2 DEF WalkEnds
<1>3. to \in Nodes
  <2>1. p.at[fd] \in Nodes
    BY <1>1 DEF Sound, Session
  <2>2. Len(names) \in 0 .. Len(names)
    OBVIOUS
  <2> HIDE DEF p
  <2> QED
    BY <2>1, <2>2, RouteIs
<1> HIDE DEF p, to, r
<1>4. CASE r.err
  BY <1>1, <1>2, <1>4 DEF r
<1>5. CASE ~r.err
  <2> DEFINE q == [p EXCEPT !.at[newfid] = to]
  <2>1. p \in Session
    BY <1>1 DEF Sound
  <2>2. /\ q \in Session /\ q.opened = p.opened /\ q.openfids = p.openfids
        /\ q.at = [p.at EXCEPT ![newfid] = to]
    BY <1>3, <2>1 DEF Session
  <2>3. \A f \in Fid : q.at[f] = IF f = newfid THEN to ELSE p.at[f]
    BY <2>1, <2>2 DEF Session
  <2> HIDE DEF q
  <2>4. /\ r.s \in Session /\ r.s.at = q.at /\ r.s.opened = q.opened
        /\ r.s.openfids = IF Tracked(newfid) THEN q.openfids \union {newfid} ELSE q.openfids
    <3>1. r.s = Noted(q, newfid)
      BY <1>2, <1>5 DEF q
    <3> QED
      BY <2>2, <3>1 DEF Noted, Session
  <2>5. to # NoFile
    BY <1>2, <1>5
  <2>6. Sound(r.s)
    BY <1>1, <2>2, <2>3, <2>4, <2>5 DEF Sound, InUse
  <2> QED
    BY <1>1, <2>2, <2>3, <2>4, <2>6 DEF r
<1> QED
  BY <1>2, <1>4, <1>5

LEMMA ClunkSound ==
  ASSUME NEW s, Sound(s), NEW fd \in Fid
  PROVE  /\ Sound(Clunk9(s, fd)) /\ Sound(Remove9(s, fd))
         /\ \A f \in Fid \ {fd} :
              /\ Clunk9(s, fd).at[f] = s.at[f] /\ Remove9(s, fd).at[f] = s.at[f]
              /\ f \in s.opened => f \in Clunk9(s, fd).opened /\ f \in Remove9(s, fd).opened
<1> DEFINE c == Clunk9(s, fd)
           r == Remove9(s, fd)
<1>1. s \in Session
  BY DEF Sound
<1>2. r \in Session /\ r.at = [s.at EXCEPT ![fd] = NoFile] /\ r.opened = s.opened \ {fd}
      /\ r.openfids = s.openfids
  BY <1>1 DEF Remove9, Forgotten, Session, Nodes
<1>3. c \in Session /\ c.at = r.at /\ c.opened = r.opened /\ c.openfids = s.openfids \ {fd}
  BY <1>2 DEF Clunk9, Remove9, Session
<1>4. \A f \in Fid : r.at[f] = IF f = fd THEN NoFile ELSE s.at[f]
  BY <1>1, <1>2 DEF Session
<1> HIDE DEF c, r
<1>5. Sound(c) /\ Sound(r)
  BY <1>2, <1>3, <1>4 DEF Sound, InUse
<1> QED
  BY <1>2, <1>3, <1>4, <1>5 DEF c, r

LEMMA OpenedSound ==
  ASSUME NEW s, Sound(s), NEW fd \in Fid, InUse(s, fd)
  PROVE  /\ Sound(Opened(s, fd)) /\ Opened(s, fd).at = s.at
         /\ Opened(s, fd).opened = s.opened \union {fd}
<1> DEFINE o == Opened(s, fd)
<1>1. s \in Session
  BY DEF Sound
<1>2. o \in Session /\ o.at = s.at /\ o.opened = s.opened \union {fd} /\ o.openfids = s.openfids
  BY <1>1 DEF Opened, Session
<1> HIDE DEF o
<1> QED
  BY <1>2 DEF Sound, InUse, o

LEMMA CreateSound ==
  ASSUME NEW s, Sound(s), NEW fd \in Fid \ {RootFid}, InUse(s, fd), NEW new \in Node
  PROVE  /\ Sound(Lcreate9(s, fd, new))
         /\ \A f \in Fid \ {fd} : /\ Lcreate9(s, fd, new).at[f] = s.at[f]
                                  /\ f \in s.opened => f \in Lcreate9(s, fd, new).opened
<1> DEFINE q == [s EXCEPT !.at[fd] = new]
<1>1. s \in Session
  BY DEF Sound
<1>2. /\ q \in Session /\ q.at = [s.at EXCEPT ![fd] = new] /\ q.opened = s.opened
      /\ q.openfids = s.openfids
  BY <1>1 DEF Session, Nodes
<1>3. \A f \in Fid : q.at[f] = IF f = fd THEN new ELSE s.at[f]
  BY <1>1, <1>2 DEF Session
<1>4. Lcreate9(s, fd, new) = Opened(q, fd)
  BY DEF Lcreate9
<1> HIDE DEF q
<1>5. Sound(q) /\ InUse(q, fd)
  BY <1>2, <1>3, NinePAssumption DEF Sound, InUse
<1>6. LET o == Opened(q, fd)
      IN  Sound(o) /\ o.at = q.at /\ o.opened = q.opened \union {fd}
  BY <1>5, OpenedSound
<1> QED
  BY <1>2, <1>3, <1>4, <1>6

(* Any call on fids other than the root's. *)
LEMMA CallSound ==
  ASSUME tree \in [Node -> Place], Sound(session), MaxNames <= ChunkMax,
         NEW fids \in SUBSET (Fid \ {RootFid}), FidsNext(fids)
  PROVE  /\ tree' \in [Node -> Place] /\ Sound(session')
         /\ \A f \in Fid \ fids : /\ session'.at[f] = session.at[f]
                                  /\ f \in session.opened => f \in session'.opened
<1> DEFINE Others == \A f \in Fid \ fids : /\ session'.at[f] = session.at[f]
                                           /\ f \in session.opened => f \in session'.opened
<1>1. ASSUME NEW fd \in fids \union {RootFid}, NEW newfid \in fids, NEW names \in Paths,
             Walk(fd, newfid, names)
      PROVE  tree' \in [Node -> Place] /\ Sound(session') /\ Others
  <2>1. names \in Seq(Name \union {DotDot}) /\ Len(names) <= ChunkMax
    BY PathsAreShort, NinePAssumption, FidTableAssumption
  <2>2. fd \in Fid /\ newfid \in Fid \ {RootFid}
    BY NinePAssumption
  <2>3. session' = Walk9(tree, session, fd, newfid, names).s /\ tree' = tree
    BY <1>1 DEF Walk
  <2> QED
    BY <2>1, <2>2, <2>3, WalkSound
<1>2. ASSUME NEW fd \in fids, Clunk(fd)
      PROVE  tree' \in [Node -> Place] /\ Sound(session') /\ Others
  BY <1>2, ClunkSound DEF Clunk
<1>3. ASSUME NEW fd \in fids, OpenDir(fd)
      PROVE  tree' \in [Node -> Place] /\ Sound(session') /\ Others
  <2>1. InUse(session, fd) /\ session' = Opened(session, fd) /\ tree' = tree
    BY <1>3 DEF OpenDir, OpensDir
  <2> QED
    BY <2>1, OpenedSound
<1>4. ASSUME NEW fd \in fids, RemoveFile(fd)
      PROVE  tree' \in [Node -> Place] /\ Sound(session') /\ Others
  <2>1. session' = Remove9(session, fd)
    BY <1>4 DEF RemoveFile
  <2>2. Nowhere \in Place
    BY DEF Nowhere, Place
  <2>3. tree' \in [Node -> Place]
    BY <1>4, <2>2 DEF RemoveFile
  <2> QED
    BY <2>1, <2>3, ClunkSound
<1>5. ASSUME NEW fd \in fids, NEW m \in Name, NEW new \in Node \ {Root}, CreateFile(fd, m, new)
      PROVE  tree' \in [Node -> Place] /\ Sound(session') /\ Others
  <2>1. /\ InUse(session, fd) /\ session.at[fd] \in Dirs
        /\ session' = Lcreate9(session, fd, new)
        /\ tree' = [tree EXCEPT ![new] = [dir |-> session.at[fd], name |-> m]]
    BY <1>5 DEF CreateFile, Creates, IsDir
  <2>2. [dir |-> session.at[fd], name |-> m] \in Place
    BY <2>1 DEF Place
  <2>3. tree' \in [Node -> Place]
    BY <2>1, <2>2
  <2> QED
    BY <2>1, <2>3, CreateSound
<1> QED
  BY <1>1, <1>2, <1>3, <1>4, <1>5 DEF FidsNext

(* A walk to a tracked fid succeeds if the path is there.                  *)
LEMMA WalkLands ==
  ASSUME NEW t \in [Node -> Place], NEW s, Sound(s),
         NEW fd \in Fid, NEW newfid \in Fid \ {RootFid}, InUse(s, fd), Tracked(newfid),
         NEW S, NEW names \in Seq(S), Len(names) <= ChunkMax
  PROVE  LET r == Walk9(t, s, fd, newfid, names)
             to == Denoted(t, s.at[fd], names)
         IN  /\ ~r.err => r.s.at[newfid] = to
             /\ r.err => to = NoFile \/ newfid = fd
<1> DEFINE p == Prepared(s, fd, newfid)
           at == Route(t, p.at[fd], names)
           r == Walk9(t, s, fd, newfid, names)
           to == at[Len(names)]
<1>2. /\ r.err \in BOOLEAN
      /\ r.err <=> Refused(p, fd, newfid) \/ to = NoFile
      /\ r.err => r.s = p
      /\ ~r.err => r.s = Noted([p EXCEPT !.at[newfid] = to], newfid)
  <2>1. s \in Session /\ newfid \in Fid
    BY DEF Sound
  <2>2. WalkEnds(t, s, fd, newfid, names)
    BY <2>1, WalkOutcome
  <2> QED
    BY <2>2 DEF WalkEnds
<1>3. Sound(p) /\ p.at[fd] = s.at[fd] /\ (newfid # fd => ~InUse(p, newfid))
  BY PreparedSound
<1>4. to = Denoted(t, s.at[fd], names)
  BY <1>3 DEF Denoted
<1> HIDE DEF p, r, to
<1>5. ASSUME r.err PROVE to = NoFile \/ newfid = fd
  BY <1>2, <1>3, <1>5 DEF Refused, InUse
<1>6. ASSUME ~r.err PROVE r.s.at[newfid] = to
  <2> DEFINE q == [p EXCEPT !.at[newfid] = to]
  <2>1. q.at[newfid] = to
    BY <1>3 DEF Sound, Session
  <2>2. r.s.at = q.at
    <3>1. r.s = Noted(q, newfid)
      BY <1>2, <1>6
    <3>2. Noted(q, newfid).at = q.at
      BY <1>3 DEF Noted, Sound, Session
    <3> QED
      BY <3>1, <3>2
  <2> QED
    BY <2>1, <2>2
<1> QED
  BY <1>4, <1>5, <1>6 DEF r

LEMMA SoundIsReusable ==
  ASSUME tree \in [Node -> Place], Sound(session), MaxNames <= ChunkMax
  PROVE  FidsReusable
<1>1. FidsTypeOK
  BY DEF FidsTypeOK, Sound, Session, Nodes
<1>2. NeverInUse
  BY PreparedSound DEF NeverInUse
<1>3. WalksLand
  <2> SUFFICES ASSUME NEW fd \in Fid, NEW newfid \in Fid \ {RootFid}, NEW names \in Paths,
                      InUse(session, fd), Tracked(newfid)
               PROVE  LET r == Walk9(tree, session, fd, newfid, names)
                          to == Denoted(tree, session.at[fd], names)
                      IN  /\ ~r.err => r.s.at[newfid] = to
                          /\ r.err => to = NoFile \/ newfid = fd
    BY DEF WalksLand
  <2>1. names \in Seq(Name \union {DotDot}) /\ Len(names) <= ChunkMax
    BY PathsAreShort, NinePAssumption, FidTableAssumption
  <2> QED
    BY <2>1, WalkLands
<1> QED
  BY <1>1, <1>2, <1>3 DEF FidsReusable

-----------------------------------------------------------------------------
(* Trees. *)

(* There is always a file at whose place a tree may grow: what is there,    *)
(* has a parent that is there.                                              *)
LEMMA TreeIs ==
  ASSUME NEW t, IsTree(t)
  PROVE  /\ t \in [Node -> Place] /\ t[Root] = AtRoot /\ Exists(t, Root) /\ Root \in Node
         /\ \A n \in Node : Exists(t, n) => t[n].dir \in Dirs /\ t[n].dir \in Node /\ Exists(t, t[n].dir)
         /\ \A n \in Node : t[n].dir # NoFile => Exists(t, n)
         /\ \A n \in Node : Exists(t, n) => t[n].dir # NoFile
  BY NinePAssumption DEF IsTree, Exists, Nowhere, AtRoot, Place

(* A place for n in d, not below n. *)
LEMMA PlacedIsTree ==
  ASSUME NEW t, IsTree(t), NEW n \in Node \ {Root}, NEW d \in Dirs, Exists(t, d), NEW m \in Name,
         Named(t, d, m) \subseteq {n},
         \A S \in SUBSET (Node \ {Root}) :
           n \in S /\ d \in S => \E x \in S \ {n} : t[x].dir \notin S
  PROVE  IsTree([t EXCEPT ![n] = [dir |-> d, name |-> m]])
<1> DEFINE p == [dir |-> d, name |-> m]
           u == [t EXCEPT ![n] = p]
<1>1. /\ t \in [Node -> Place] /\ p \in Place /\ d \in Node /\ p # Nowhere /\ p.dir = d /\ p.name = m
      /\ t[Root] = AtRoot /\ Root \in Node
  BY NinePAssumption DEF IsTree, Place, Nowhere
<1> HIDE DEF p
<1>2. u \in [Node -> Place] /\ \A x \in Node : u[x] = IF x = n THEN p ELSE t[x]
  BY <1>1
<1> HIDE DEF u
<1>3. u[Root] = AtRoot
  BY <1>1, <1>2
<1>4. ASSUME NEW x \in Node \ {Root}, Exists(u, x)
      PROVE  u[x].dir \in Dirs /\ Exists(u, u[x].dir) /\ u[x].name \in Name
  <2>1. \A y \in Node : Exists(t, y) => Exists(u, y)
    BY <1>1, <1>2 DEF Exists
  <2>2. CASE x = n
    BY <1>1, <1>2, <2>1, <2>2
  <2>3. CASE x # n
    <3>1. t[x].dir \in Dirs /\ Exists(t, t[x].dir) /\ t[x].name \in Name
      BY <1>2, <1>4, <2>3 DEF IsTree, Exists
    <3> QED
      BY <1>2, <2>1, <2>3, <3>1, NinePAssumption
  <2> QED
    BY <2>2, <2>3
<1>5. ASSUME NEW x \in Node \ {Root}, NEW y \in Node \ {Root}, Exists(u, x), u[y] = u[x]
      PROVE  x = y
  <2>1. ASSUME NEW z \in Node \ {Root}, z # n PROVE t[z] # p
    <3> SUFFICES ASSUME t[z] = p PROVE FALSE
      OBVIOUS
    <3>1. z \in Named(t, d, m)
      BY <1>1 DEF Named, Children
    <3> QED
      BY <2>1, <3>1
  <2>2. CASE x = n \/ y = n
    BY <1>2, <1>5, <2>1, <2>2
  <2>3. CASE x # n /\ y # n
    <3>1. Exists(t, x) /\ t[y] = t[x]
      BY <1>2, <1>5, <2>3 DEF Exists
    <3> QED
      BY <3>1 DEF IsTree
  <2> QED
    BY <2>2, <2>3
<1>6. ASSUME NEW S \in (SUBSET (Node \ {Root})) \ {{}} PROVE \E x \in S : u[x].dir \notin S
  <2>1. CASE n \notin S
    <3>1. PICK x \in S : t[x].dir \notin S
      BY DEF IsTree
    <3> QED
      BY <1>2, <2>1, <3>1
  <2>2. CASE n \in S /\ d \notin S
    BY <1>1, <1>2, <2>2
  <2>3. CASE n \in S /\ d \in S
    <3>1. PICK x \in S \ {n} : t[x].dir \notin S
      BY <2>3
    <3> QED
      BY <1>2, <3>1
  <2> QED
    BY <2>1, <2>2, <2>3
<1>7. IsTree(u)
  BY <1>2, <1>3, <1>4, <1>5, <1>6 DEF IsTree
<1> QED
  BY <1>7 DEF u, p

LEMMA RemovedIsTree ==
  ASSUME NEW t, IsTree(t), NEW n \in Node \ {Root}, Children(t, n) = {}
  PROVE  IsTree([t EXCEPT ![n] = Nowhere])
<1> DEFINE u == [t EXCEPT ![n] = Nowhere]
<1>1. /\ t \in [Node -> Place] /\ Nowhere \in Place /\ Nowhere.dir = NoFile
      /\ t[Root] = AtRoot /\ Root \in Node
  BY NinePAssumption DEF IsTree, Place, Nowhere
<1>2. u \in [Node -> Place] /\ \A x \in Node : u[x] = IF x = n THEN Nowhere ELSE t[x]
  BY <1>1
<1> HIDE DEF u
<1>3. u[Root] = AtRoot
  BY <1>1, <1>2
<1>4. ASSUME NEW x \in Node \ {Root}, Exists(u, x)
      PROVE  u[x].dir \in Dirs /\ Exists(u, u[x].dir) /\ u[x].name \in Name
  <2>1. x # n /\ u[x] = t[x] /\ Exists(t, x)
    BY <1>2, <1>4 DEF Exists
  <2>2. t[x].dir \in Dirs /\ Exists(t, t[x].dir) /\ t[x].name \in Name
    BY <2>1 DEF IsTree
  <2>3. t[x].dir # n
    BY DEF Children
  <2> QED
    BY <1>2, <2>1, <2>2, <2>3, NinePAssumption DEF Exists
<1>5. ASSUME NEW x \in Node \ {Root}, NEW y \in Node \ {Root}, Exists(u, x), u[y] = u[x]
      PROVE  x = y
  <2>1. x # n /\ y # n
    BY <1>2, <1>5 DEF Exists
  <2>2. Exists(t, x) /\ t[y] = t[x]
    BY <1>2, <1>5, <2>1 DEF Exists
  <2> QED
    BY <2>2 DEF IsTree
<1>6. ASSUME NEW S \in (SUBSET (Node \ {Root})) \ {{}} PROVE \E x \in S : u[x].dir \notin S
  <2>1. CASE n \in S
    BY <1>1, <1>2, <2>1, NinePAssumption
  <2>2. CASE n \notin S
    <3>1. PICK x \in S : t[x].dir \notin S
      BY DEF IsTree
    <3> QED
      BY <1>2, <2>2, <3>1
  <2> QED
    BY <2>1, <2>2
<1>7. IsTree(u)
  BY <1>2, <1>3, <1>4, <1>5, <1>6 DEF IsTree
<1> QED
  BY <1>7 DEF u

(* One file of a name in a directory. *)
LEMMA NamedIsOne ==
  ASSUME NEW t, IsTree(t), NEW d \in Node, NEW m, NEW n \in Named(t, d, m)
  PROVE  Named(t, d, m) = {n} /\ n \in Node \ {Root} /\ t[n] = [dir |-> d, name |-> m] /\ Exists(t, n)
<1>1. \A x \in Named(t, d, m) : x \in Node \ {Root} /\ t[x].dir = d /\ t[x].name = m
  BY DEF Named, Children
<1>2. \A x \in Named(t, d, m) : t[x] = [dir |-> d, name |-> m] /\ Exists(t, x)
  <2> TAKE x \in Named(t, d, m)
  <2>1. t[x] \in Place /\ t[x].dir = d /\ t[x].name = m
    BY <1>1 DEF IsTree
  <2> QED
    BY <2>1, NinePAssumption DEF Place, Exists, Nowhere
<1>3. \A x \in Named(t, d, m) : x = n
  BY <1>1, <1>2 DEF IsTree
<1> QED
  BY <1>1, <1>2, <1>3

-----------------------------------------------------------------------------
(* Folders: entries in order. *)

LEMMA NodesFinite == \A S \in SUBSET Node : IsFiniteSet(S) /\ Cardinality(S) \in Nat
  BY TreeAssumption, FS_Subset, FS_CardinalityType

(* A finite set can be put in order.  The place of an element is how many   *)
(* do not come after it.                                                    *)
LEMMA OrderExists ==
  ASSUME NEW S, IsFiniteSet(S), NEW c \in [S -> Nat], \A x, y \in S : c[x] = c[y] => x = y
  PROVE  \E s \in [1 .. Cardinality(S) -> S] :
           \A i, j \in 1 .. Cardinality(S) : i < j => c[s[i]] < c[s[j]]
<1> DEFINE upTo(x) == {y \in S : c[y] <= c[x]}
           r == [x \in S |-> Cardinality(upTo(x))]
<1>0. PICK n \in Nat : n = Cardinality(S)
  BY FS_CardinalityType
<1>1. ASSUME NEW x \in S
      PROVE  upTo(x) \in SUBSET S /\ IsFiniteSet(upTo(x)) /\ Cardinality(upTo(x)) \in 1 .. n
  <2>1. upTo(x) \in SUBSET S /\ x \in upTo(x)
    OBVIOUS
  <2> HIDE DEF upTo
  <2>2. IsFiniteSet(upTo(x)) /\ Cardinality(upTo(x)) <= n
    BY <1>0, <2>1, FS_Subset
  <2>3. Cardinality(upTo(x)) \in Nat
    BY <2>2, FS_CardinalityType
  <2>4. Cardinality(upTo(x)) # 0
    BY <2>1, <2>2, FS_EmptySet
  <2> QED
    BY <1>0, <2>1, <2>2, <2>3, <2>4
<1>2. ASSUME NEW x \in S, NEW y \in S, c[x] < c[y] PROVE r[x] < r[y]
  <2>1. upTo(x) \in SUBSET upTo(y) /\ y \in upTo(y) /\ y \notin upTo(x)
    BY <1>2
  <2>2. r[x] = Cardinality(upTo(x)) /\ r[y] = Cardinality(upTo(y))
    OBVIOUS
  <2> HIDE DEF upTo, r
  <2>3. Cardinality(upTo(x)) <= Cardinality(upTo(y)) /\ Cardinality(upTo(y)) # Cardinality(upTo(x))
    BY <1>1, <2>1, FS_Subset
  <2> QED
    BY <1>1, <2>2, <2>3
<1>3. r \in [S -> 1 .. n]
  BY <1>1
<1> HIDE DEF r, upTo
<1>4. \A x, y \in S : r[x] = r[y] => x = y
  <2> SUFFICES ASSUME NEW x \in S, NEW y \in S, r[x] = r[y] PROVE c[x] = c[y]
    OBVIOUS
  <2>1. ~(c[x] < c[y]) /\ ~(c[y] < c[x])
    BY <1>2, <1>3
  <2> QED
    BY <2>1
<1>5. \A i \in 1 .. n : \E x \in S : r[x] = i
  <2>1. r \in Injection(S, 1 .. n)
    BY <1>3, <1>4 DEF Injection, IsInjective
  <2>2. IsFiniteSet(1 .. n) /\ Cardinality(1 .. n) = n
    <3>1. 1 \in Int /\ n \in Int
      OBVIOUS
    <3>2. IsFiniteSet(1 .. n) /\ Cardinality(1 .. n) = IF 1 > n THEN 0 ELSE n - 1 + 1
      BY <3>1, FS_Interval
    <3> QED
      BY <3>2
  <2>3. r \in Surjection(S, 1 .. n)
    BY <1>0, <2>1, <2>2, FS_Injection
  <2> QED
    BY <2>3 DEF Surjection
<1> DEFINE s == [i \in 1 .. n |-> CHOOSE x \in S : r[x] = i]
<1>6. s \in [1 .. n -> S] /\ \A i \in 1 .. n : r[s[i]] = i
  BY <1>5
<1> HIDE DEF s
<1>7. ASSUME NEW i \in 1 .. n, NEW j \in 1 .. n, i < j PROVE c[s[i]] < c[s[j]]
  <2>1. s[i] \in S /\ s[j] \in S /\ r[s[i]] < r[s[j]]
    BY <1>6, <1>7
  <2>2. c[s[i]] # c[s[j]]
    BY <1>3, <2>1
  <2>3. ~(c[s[j]] < c[s[i]])
    BY <1>2, <1>3, <2>1
  <2> QED
    BY <2>1, <2>2, <2>3
<1> QED
  BY <1>0, <1>6, <1>7

LEMMA CookieIs ==
  /\ \A n \in Node : Cookie[n] \in Nat /\ Cookie[n] > 0
  /\ \A m, n \in Node : Cookie[m] = Cookie[n] => m = n
<1>1. \A m, n \in Node : Cookie[m] \in Nat \ {0} /\ (Cookie[m] = Cookie[n] => m = n)
  BY FoldersAssumption
<1> QED
  BY <1>1

Entry9 == [node : Node, name : Name \union {NoName}]
EntryOf(n) == [node |-> n, name |-> tree[n].name]
InOrder(s) == \A i, j \in 1 .. Len(s) : i < j => Cookie[s[i].node] < Cookie[s[j].node]

LEMMA EntryTyped ==
  ASSUME tree \in [Node -> Place], NEW n \in Node
  PROVE  EntryOf(n) \in Entry9 /\ EntryOf(n).node = n
  BY DEF EntryOf, Entry9, Place

(* In an ordered listing the entries before one have smaller cookies, and   *)
(* only these.                                                              *)
LEMMA OrderIs ==
  ASSUME NEW s \in Seq(Entry9), InOrder(s), NEW i \in 1 .. Len(s), NEW j \in 1 .. Len(s)
  PROVE  /\ s[i].node \in Node /\ Cookie[s[i].node] \in Nat
         /\ i < j <=> Cookie[s[i].node] < Cookie[s[j].node]
         /\ i <= j <=> Cookie[s[i].node] <= Cookie[s[j].node]
         /\ s[i].node = s[j].node => i = j
<1>1. \A k \in 1 .. Len(s) : s[k].node \in Node /\ Cookie[s[k].node] \in Nat
  <2> TAKE k \in 1 .. Len(s)
  <2>1. s[k] \in Entry9
    OBVIOUS
  <2> QED
    BY <2>1, CookieIs DEF Entry9
<1>2. i < j => Cookie[s[i].node] < Cookie[s[j].node]
  BY DEF InOrder
<1>3. j < i => Cookie[s[j].node] < Cookie[s[i].node]
  BY DEF InOrder
<1>4. i = j => Cookie[s[i].node] = Cookie[s[j].node]
  OBVIOUS
<1> QED
  BY <1>1, <1>2, <1>3, <1>4

(* What the host lists from an offset on. *)
LEMMA FromHostIs ==
  ASSUME tree \in [Node -> Place], NEW d, NEW o \in Nat
  PROVE  LET s == FromHost(d, o)
         IN  /\ s \in Seq(Entry9) /\ InOrder(s)
             /\ \A i \in 1 .. Len(s) :
                  /\ s[i].node \in Children(tree, d) /\ s[i] = EntryOf(s[i].node)
                  /\ Cookie[s[i].node] > o
             /\ \A n \in Children(tree, d) : Cookie[n] > o => \E i \in 1 .. Len(s) : s[i] = EntryOf(n)
<1> DEFINE S == {c \in Children(tree, d) : Cookie[c] > o}
           E == {[node |-> n, name |-> tree[n].name] : n \in S}
           isOrder(s) == \A i, j \in DOMAIN s : i < j => Cookie[s[i].node] < Cookie[s[j].node]
           s == FromHost(d, o)
<1>1. S \in SUBSET Node /\ S \in SUBSET Children(tree, d) /\ \A n \in S : Cookie[n] > o
  BY DEF Children
<1>2. s = CHOOSE x \in [1 .. Cardinality(E) -> E] : isOrder(x)
  BY DEF FromHost
<1>3. \A n \in Children(tree, d) : Cookie[n] > o => n \in S
  OBVIOUS
<1> HIDE DEF S, s
<1>4. \A n \in S : EntryOf(n) \in E /\ EntryOf(n) = [node |-> n, name |-> tree[n].name]
  BY DEF EntryOf
<1>5. \A e \in E : e.node \in S /\ e = EntryOf(e.node)
  BY DEF EntryOf
<1> HIDE DEF E
<1>6. IsFiniteSet(E) /\ Cardinality(E) \in Nat
  <2> DEFINE f == [e \in E |-> e.node]
  <2>1. f \in Injection(E, S)
    BY <1>5 DEF Injection, IsInjective
  <2>2. IsFiniteSet(S)
    BY <1>1, NodesFinite
  <2> HIDE DEF f
  <2>3. IsFiniteSet(E)
    BY <2>1, <2>2, FS_Injection
  <2> QED
    BY <2>3, FS_CardinalityType
<1>7. \E x \in [1 .. Cardinality(E) -> E] : isOrder(x)
  <2> DEFINE c == [e \in E |-> Cookie[e.node]]
  <2>1. c \in [E -> Nat] /\ \A x, y \in E : c[x] = c[y] => x = y
    BY <1>1, <1>5, CookieIs
  <2>2. \A e \in E : c[e] = Cookie[e.node]
    OBVIOUS
  <2> HIDE DEF c
  <2>3. PICK x \in [1 .. Cardinality(E) -> E] :
            \A i, j \in 1 .. Cardinality(E) : i < j => c[x[i]] < c[x[j]]
    BY <1>6, <2>1, OrderExists
  <2>4. isOrder(x)
    BY <2>2, <2>3
  <2> QED
    BY <2>4
<1>8. s \in [1 .. Cardinality(E) -> E] /\ isOrder(s)
  <2> HIDE DEF isOrder
  <2> QED
    BY <1>2, <1>7
<1>9. s \in Seq(E) /\ Len(s) = Cardinality(E)
  BY <1>6, <1>8
<1>10. InOrder(s)
  BY <1>8, <1>9 DEF InOrder
<1>11. \A e \in E : e \in Entry9
  <2>1. \A e \in E : e.node \in Node /\ e = EntryOf(e.node)
    BY <1>1, <1>5
  <2> QED
    BY <2>1, EntryTyped
<1>12. s \in Seq(Entry9)
  BY <1>9, <1>11
<1>13. \A e \in E : \E i \in 1 .. Len(s) : s[i] = e
  <2>1. \A i, j \in 1 .. Len(s) : s[i] = s[j] => i = j
    BY <1>10, <1>12, OrderIs
  <2>2. s \in Injection(1 .. Cardinality(E), E)
    BY <1>8, <1>9, <2>1 DEF Injection, IsInjective
  <2>3. IsFiniteSet(1 .. Cardinality(E)) /\ Cardinality(1 .. Cardinality(E)) = Cardinality(E)
    <3>1. 1 \in Int /\ Cardinality(E) \in Int
      BY <1>6
    <3>2. IsFiniteSet(1 .. Cardinality(E))
          /\ Cardinality(1 .. Cardinality(E)) = IF 1 > Cardinality(E) THEN 0 ELSE Cardinality(E) - 1 + 1
      BY <3>1, FS_Interval
    <3> QED
      BY <1>6, <3>2
  <2>4. s \in Surjection(1 .. Cardinality(E), E)
    BY <1>6, <2>2, <2>3, FS_Injection
  <2> QED
    BY <1>9, <2>4 DEF Surjection
<1>14. \A i \in 1 .. Len(s) : s[i] \in E
  BY <1>9
<1> QED
  BY <1>1, <1>3, <1>4, <1>5, <1>10, <1>12, <1>13, <1>14 DEF s

(* How many of the first k entries count. *)
Counting(trap, s, k) == Cardinality({i \in 1 .. k : Counts(trap, s[i])})

LEMMA CountingSteps ==
  ASSUME NEW trap, NEW s
  PROVE  /\ Counting(trap, s, 0) = 0
         /\ \A k \in Nat : Counting(trap, s, k) \in Nat
         /\ \A k \in Nat \ {0} :
              \/ Counts(trap, s[k]) /\ Counting(trap, s, k) = Counting(trap, s, k - 1) + 1
              \/ ~Counts(trap, s[k]) /\ Counting(trap, s, k) = Counting(trap, s, k - 1)
<1> DEFINE C(k) == {i \in 1 .. k : Counts(trap, s[i])}
<1>1. C(0) = {}
  OBVIOUS
<1>2. ASSUME NEW k \in Nat PROVE IsFiniteSet(C(k)) /\ Cardinality(C(k)) \in Nat
  <2>1. C(k) \in SUBSET Nat /\ \A i \in C(k) : i <= k
    OBVIOUS
  <2> HIDE DEF C
  <2>2. IsFiniteSet(C(k))
    BY <2>1, FS_BoundedSetOfNaturals
  <2> QED
    BY <2>2, FS_CardinalityType
<1>3. ASSUME NEW k \in Nat \ {0}
      PROVE  /\ k - 1 \in Nat /\ k \notin C(k - 1)
             /\ C(k) = IF Counts(trap, s[k]) THEN C(k - 1) \union {k} ELSE C(k - 1)
  <2>1. k \notin C(k - 1) /\ k - 1 \in Nat
    OBVIOUS
  <2>2. \A i : i \in 1 .. k <=> i \in 1 .. k - 1 \/ i = k
    OBVIOUS
  <2> QED
    BY <2>1, <2>2
<1>4. \A k \in Nat : Counting(trap, s, k) = Cardinality(C(k))
  BY DEF Counting
<1> HIDE DEF C
<1>5. ASSUME NEW k \in Nat \ {0}
      PROVE  \/ Counts(trap, s[k]) /\ Cardinality(C(k)) = Cardinality(C(k - 1)) + 1
             \/ ~Counts(trap, s[k]) /\ Cardinality(C(k)) = Cardinality(C(k - 1))
  <2>1. IsFiniteSet(C(k - 1)) /\ Cardinality(C(k - 1)) \in Nat /\ k \notin C(k - 1)
    BY <1>2, <1>3
  <2>2. Cardinality(C(k - 1) \union {k}) = Cardinality(C(k - 1)) + 1
    BY <2>1, FS_AddElement
  <2> QED
    BY <1>3, <2>1, <2>2
<1>6. Counting(trap, s, 0) = 0
  BY <1>1, <1>4, FS_EmptySet
<1>7. \A k \in Nat \ {0} : k - 1 \in Nat
  OBVIOUS
<1> QED
  BY <1>2, <1>4, <1>5, <1>6, <1>7

(* The files that count are as many as the entries that do.                 *)
LEMMA CountsFiles ==
  ASSUME NEW s \in Seq(Entry9), InOrder(s), NEW k \in 0 .. Len(s), NEW trap, NEW X \in SUBSET Node,
         \A n \in X : \E i \in 1 .. k : s[i].node = n /\ Counts(trap, s[i])
  PROVE  /\ Cardinality(X) <= Counting(trap, s, k)
         /\ (\A i \in 1 .. k : Counts(trap, s[i]) => s[i].node \in X) => Cardinality(X) = Counting(trap, s, k)
<1> DEFINE C == {i \in 1 .. k : Counts(trap, s[i])}
           f == [n \in X |-> CHOOSE i \in C : s[i].node = n]
<1>1. f \in [X -> C] /\ \A n \in X : s[f[n]].node = n
  OBVIOUS
<1>2. IsFiniteSet(C)
  <2>1. C \in SUBSET Nat /\ \A i \in C : i <= k
    OBVIOUS
  <2>2. k \in Nat
    OBVIOUS
  <2> HIDE DEF C
  <2> QED
    BY <2>1, <2>2, FS_BoundedSetOfNaturals
<1>3. Cardinality(C) = Counting(trap, s, k)
  BY DEF Counting
<1>4. C \subseteq 1 .. Len(s) /\ \A i \in C : i \in 1 .. k /\ Counts(trap, s[i])
  OBVIOUS
<1> HIDE DEF f, C
<1>5. f \in Injection(X, C)
  BY <1>1 DEF Injection, IsInjective
<1>6. /\ IsFiniteSet(X) /\ Cardinality(X) <= Cardinality(C)
      /\ Cardinality(X) = Cardinality(C) <=> f \in Surjection(X, C)
  BY <1>2, <1>5, FS_Injection
<1>7. ASSUME \A i \in 1 .. k : Counts(trap, s[i]) => s[i].node \in X PROVE f \in Surjection(X, C)
  <2>1. ASSUME NEW i \in C PROVE \E n \in X : f[n] = i
    <3>1. s[i].node \in X
      BY <1>4, <1>7
    <3>2. f[s[i].node] \in C /\ s[f[s[i].node]].node = s[i].node
      BY <1>1, <3>1
    <3>3. f[s[i].node] = i
      BY <1>4, <3>2, OrderIs
    <3> QED
      BY <3>1, <3>3
  <2> QED
    BY <1>1, <2>1 DEF Surjection
<1> QED
  BY <1>3, <1>6, <1>7

LEMMA MinOfIs ==
  ASSUME NEW L \in Nat, NEW S \in SUBSET (1 .. L)
  PROVE  LET k == Min(S \union {L + 1}) % (L + 1)
         IN  /\ k \in 0 .. L
             /\ k # 0 => k \in S /\ \A j \in S : k <= j
             /\ k = 0 => S = {}
<1> DEFINE m == Min(S \union {L + 1})
<1>1. m \in S \union {L + 1} /\ \A j \in S \union {L + 1} : m <= j
  <2>1. S \union {L + 1} \in SUBSET Nat /\ S \union {L + 1} # {}
    OBVIOUS
  <2> QED
    BY <2>1, LeastIs
<1> HIDE DEF m
<1>2. CASE m \in S
  <2>1. m \in 1 .. L
    BY <1>2
  <2>2. (0 * (L + 1) + m) % (L + 1) = m
    <3>1. 0 \in Int /\ L + 1 \in Nat /\ L + 1 > 0 /\ m \in 0 .. (L + 1) - 1
      BY <2>1
    <3> QED
      BY <3>1, RemainderIs
  <2>3. m % (L + 1) = m
    BY <2>1, <2>2
  <2>4. m \in 0 .. L /\ m # 0 /\ \A j \in S : m <= j
    BY <1>1, <2>1
  <2> HIDE DEF m
  <2>5. m % (L + 1) = 0 => FALSE
    BY <2>3, <2>4
  <2> QED
    BY <1>2, <2>3, <2>4, <2>5 DEF m
<1>3. CASE m \notin S
  <2>1. m = L + 1 /\ S = {}
    BY <1>1, <1>3
  <2>2. (1 * (L + 1) + 0) % (L + 1) = 0
    <3>1. 1 \in Int /\ L + 1 \in Nat /\ L + 1 > 0 /\ 0 \in 0 .. (L + 1) - 1
      OBVIOUS
    <3> QED
      BY <3>1, RemainderIs
  <2>3. m % (L + 1) = 0
    BY <2>1, <2>2
  <2> QED
    BY <2>1, <2>3 DEF m
<1> QED
  BY <1>2, <1>3

(* Where the fast-forward ends. *)
LEMMA FastForwardIs ==
  ASSUME NEW trap, NEW d, NEW idx \in Nat, NEW start \in Nat, start < idx,
         start = Listing(d, idx).idx, NEW s, s = Coming(d, idx), Len(s) \in Nat, DOMAIN s = 1 .. Len(s)
  PROVE  LET k == FastForward(trap, d, idx)
         IN  /\ k \in 0 .. Len(s)
             /\ k # 0 => /\ Counts(trap, s[k])
                         /\ start + Counting(trap, s, k) = idx
                         /\ start + Counting(trap, s, k - 1) = idx - 1
             /\ k = 0 => start + Counting(trap, s, Len(s)) < idx
<1> DEFINE k == FastForward(trap, d, idx)
           S == {j \in 1 .. Len(s) : start + Counting(trap, s, j) = idx}
<1>1. k = Min(S \union {Len(s) + 1}) % (Len(s) + 1)
  BY DEF FastForward, Counting
<1>2. /\ k \in 0 .. Len(s)
      /\ k # 0 => k \in S /\ \A j \in S : k <= j
      /\ k = 0 => S = {}
  <2>1. S \in SUBSET (1 .. Len(s))
    OBVIOUS
  <2> HIDE DEF S, k
  <2> QED
    BY <1>1, <2>1, MinOfIs
<1> HIDE DEF k
<1>3. /\ Counting(trap, s, 0) = 0
      /\ \A j \in Nat : Counting(trap, s, j) \in Nat
      /\ \A j \in Nat \ {0} :
           \/ Counts(trap, s[j]) /\ Counting(trap, s, j) = Counting(trap, s, j - 1) + 1
           \/ ~Counts(trap, s[j]) /\ Counting(trap, s, j) = Counting(trap, s, j - 1)
  BY CountingSteps
<1>4. ASSUME k # 0
      PROVE  /\ Counts(trap, s[k])
             /\ start + Counting(trap, s, k) = idx
             /\ start + Counting(trap, s, k - 1) = idx - 1
  <2>1. k \in 1 .. Len(s) /\ start + Counting(trap, s, k) = idx /\ \A j \in S : k <= j
    BY <1>2, <1>4
  <2>2. k - 1 \notin S /\ k - 1 \in 0 .. Len(s)
    BY <2>1
  <2>3. start + Counting(trap, s, k - 1) # idx
    <3>1. CASE k = 1
      BY <1>3, <3>1
    <3>2. CASE k # 1
      BY <2>1, <2>2, <3>2
    <3> QED
      BY <3>1, <3>2
  <2>4. /\ Counting(trap, s, k) \in Nat /\ Counting(trap, s, k - 1) \in Nat
        /\ \/ Counts(trap, s[k]) /\ Counting(trap, s, k) = Counting(trap, s, k - 1) + 1
           \/ ~Counts(trap, s[k]) /\ Counting(trap, s, k) = Counting(trap, s, k - 1)
    <3>1. k \in Nat \ {0} /\ k \in Nat /\ k - 1 \in Nat
      BY <2>1
    <3> QED
      BY <1>3, <3>1
  <2> QED
    BY <2>1, <2>3, <2>4
<1>5. ASSUME k = 0 PROVE start + Counting(trap, s, Len(s)) < idx
  <2> DEFINE c == [j \in 0 .. Len(s) |-> start + Counting(trap, s, j)]
  <2>1. \A j \in 1 .. Len(s) : start + Counting(trap, s, j) # idx
    BY <1>2, <1>5
  <2>2. \A j \in 1 .. Len(s) :
          start + Counting(trap, s, j - 1) < idx => start + Counting(trap, s, j) < idx
    <3> TAKE j \in 1 .. Len(s)
    <3>1. /\ Counting(trap, s, j) \in Nat /\ Counting(trap, s, j - 1) \in Nat
          /\ \/ Counts(trap, s[j]) /\ Counting(trap, s, j) = Counting(trap, s, j - 1) + 1
             \/ ~Counts(trap, s[j]) /\ Counting(trap, s, j) = Counting(trap, s, j - 1)
      <4>1. j \in Nat \ {0} /\ j \in Nat /\ j - 1 \in Nat
        OBVIOUS
      <4> QED
        BY <1>3, <4>1
    <3>2. start + Counting(trap, s, j) # idx
      BY <2>1
    <3> QED
      BY <3>1, <3>2
  <2>3. \A j \in 0 .. Len(s) : c[j] = start + Counting(trap, s, j) /\ c[j] \in Nat
    <3> TAKE j \in 0 .. Len(s)
    <3>1. j \in Nat
      OBVIOUS
    <3>2. Counting(trap, s, j) \in Nat
      BY <1>3, <3>1
    <3>3. c[j] = start + Counting(trap, s, j)
      OBVIOUS
    <3> QED
      BY <3>2, <3>3
  <2>4. c[0] \in 0 .. idx - 1
    BY <1>3, <2>3
  <2>5. \A j \in 1 .. Len(s) : c[j - 1] \in 0 .. idx - 1 => c[j] \in 0 .. idx - 1
    <3> TAKE j \in 1 .. Len(s)
    <3>1. j - 1 \in 0 .. Len(s) /\ j \in 0 .. Len(s)
      OBVIOUS
    <3>2. c[j - 1] = start + Counting(trap, s, j - 1) /\ c[j] = start + Counting(trap, s, j) /\ c[j] \in Nat
      BY <2>3, <3>1
    <3> HIDE DEF c
    <3> QED
      BY <2>2, <3>2
  <2> HIDE DEF c
  <2>6. \A j \in 0 .. Len(s) : c[j] \in 0 .. idx - 1
    BY <2>4, <2>5, StaysIn
  <2> QED
    BY <2>3, <2>6
<1> QED
  BY <1>2, <1>4, <1>5 DEF k

Passed(X, c) == {n \in X : Cookie[n] <= c}
FirstOf(X, s, m) == {n \in X : \E i \in 1 .. m : s[i].node = n}

(* Nothing else counts. *)
OnlyThese(trap, s, X) == \A i \in 1 .. Len(s) : Counts(trap, s[i]) => s[i].node \in X

(* A listing that goes on behind the offset p brings of the files X those   *)
(* that come later.                                                         *)
BringsAll(trap, s, p, X) ==
  /\ s \in Seq(Entry9) /\ InOrder(s) /\ p \in Nat
  /\ \A i \in 1 .. Len(s) : Cookie[s[i].node] > p
  /\ X \in SUBSET Node
  /\ \A n \in X : Cookie[n] > p => \E i \in 1 .. Len(s) : s[i].node = n /\ Counts(trap, s[i])

(* They, up to some entry, are at most as many as count, and as many if     *)
(* nothing else counts.                                                     *)
LEMMA BroughtAre ==
  ASSUME NEW trap, NEW s, NEW p, NEW X, BringsAll(trap, s, p, X), NEW m \in 0 .. Len(s)
  PROVE  /\ Cardinality(Passed(X, p) \union FirstOf(X, s, m)) <= Cardinality(Passed(X, p)) + Counting(trap, s, m)
         /\ OnlyThese(trap, s, X) =>
              Cardinality(Passed(X, p) \union FirstOf(X, s, m)) = Cardinality(Passed(X, p)) + Counting(trap, s, m)
<1> DEFINE A == Passed(X, p)
           B == FirstOf(X, s, m)
<1>0. /\ s \in Seq(Entry9) /\ InOrder(s) /\ p \in Nat
      /\ \A i \in 1 .. Len(s) : Cookie[s[i].node] > p
      /\ X \in SUBSET Node
      /\ \A n \in X : Cookie[n] > p => \E i \in 1 .. Len(s) : s[i].node = n /\ Counts(trap, s[i])
  BY DEF BringsAll
<1>1. A \in SUBSET Node /\ B \in SUBSET Node /\ A \union B \in SUBSET Node
  BY <1>0 DEF Passed, FirstOf
<1>2. \A n \in B : Cookie[n] > p /\ n \in X
  BY <1>0 DEF FirstOf
<1>3. A \intersect B = {}
  <2> SUFFICES ASSUME NEW n \in A, n \in B PROVE FALSE
    OBVIOUS
  <2>1. Cookie[n] <= p /\ Cookie[n] > p /\ Cookie[n] \in Nat
    BY <1>0, <1>1, <1>2, CookieIs DEF Passed
  <2> QED
    BY <1>0, <2>1
<1>4. \A n \in B : \E i \in 1 .. m : s[i].node = n /\ Counts(trap, s[i])
  <2> TAKE n \in B
  <2>1. PICK i \in 1 .. m : s[i].node = n
    BY DEF FirstOf
  <2>2. PICK j \in 1 .. Len(s) : s[j].node = n /\ Counts(trap, s[j])
    BY <1>0, <1>2
  <2>3. i = j
    BY <1>0, <2>1, <2>2, OrderIs
  <2> QED
    BY <2>1, <2>2, <2>3
<1>5. OnlyThese(trap, s, X) => \A i \in 1 .. m : Counts(trap, s[i]) => s[i].node \in B
  BY <1>0 DEF FirstOf, OnlyThese
<1> HIDE DEF A, B
<1>6. /\ Cardinality(B) <= Counting(trap, s, m)
      /\ (\A i \in 1 .. m : Counts(trap, s[i]) => s[i].node \in B) => Cardinality(B) = Counting(trap, s, m)
  BY <1>0, <1>1, <1>4, CountsFiles
<1>7. Cardinality(A \union B) = Cardinality(A) + Cardinality(B)
  <2>1. IsFiniteSet(A) /\ IsFiniteSet(B) /\ Cardinality(A) \in Nat /\ Cardinality(B) \in Nat
    BY <1>1, NodesFinite
  <2>2. Cardinality(A \union B) = Cardinality(A) + Cardinality(B) - Cardinality({})
    BY <1>3, <2>1, FS_Union
  <2> QED
    BY <2>1, <2>2, FS_EmptySet
<1>8. Cardinality(A) \in Nat /\ Cardinality(B) \in Nat /\ Counting(trap, s, m) \in Nat
  <2>1. m \in Nat
    OBVIOUS
  <2> QED
    BY <1>1, <2>1, NodesFinite, CountingSteps
<1> QED
  BY <1>5, <1>6, <1>7, <1>8 DEF A, B

(* The three sets of files that matter to a call: those before the entry    *)
(* that it finds, those up to it, and all.                                  *)
LEMMA BroughtUpTo ==
  ASSUME NEW trap, NEW s, NEW p, NEW X, BringsAll(trap, s, p, X)
  PROVE  /\ \A k \in 1 .. Len(s) :
              /\ Before(X, s[k].node) = Passed(X, p) \union FirstOf(X, s, k - 1)
              /\ Passed(X, Cookie[s[k].node]) = Passed(X, p) \union FirstOf(X, s, k)
         /\ X = Passed(X, p) \union FirstOf(X, s, Len(s))
<1>a. /\ s \in Seq(Entry9) /\ InOrder(s) /\ p \in Nat
      /\ \A i \in 1 .. Len(s) : Cookie[s[i].node] > p
      /\ X \in SUBSET Node
      /\ \A n \in X : Cookie[n] > p => \E i \in 1 .. Len(s) : s[i].node = n
  BY DEF BringsAll
<1>0. \A n \in X : Cookie[n] \in Nat
  BY <1>a, CookieIs
<1>1. ASSUME NEW k \in 1 .. Len(s)
      PROVE  /\ Before(X, s[k].node) = Passed(X, p) \union FirstOf(X, s, k - 1)
             /\ Passed(X, Cookie[s[k].node]) = Passed(X, p) \union FirstOf(X, s, k)
  <2>0. Cookie[s[k].node] \in Nat /\ Cookie[s[k].node] > p
    BY <1>a, OrderIs
  <2>1. ASSUME NEW n \in X, Cookie[n] > p
        PROVE  /\ Cookie[n] < Cookie[s[k].node] <=> n \in FirstOf(X, s, k - 1)
               /\ Cookie[n] <= Cookie[s[k].node] <=> n \in FirstOf(X, s, k)
    <3>1. PICK i \in 1 .. Len(s) : s[i].node = n
      BY <1>a, <2>1
    <3>2. /\ i < k <=> Cookie[n] < Cookie[s[k].node]
          /\ i <= k <=> Cookie[n] <= Cookie[s[k].node]
      BY <1>a, <3>1, OrderIs
    <3>3. \A j \in 1 .. Len(s) : s[j].node = n => j = i
      BY <1>a, <3>1, OrderIs
    <3>4. n \in FirstOf(X, s, k - 1) <=> i \in 1 .. k - 1
      BY <3>1, <3>3 DEF FirstOf
    <3>5. n \in FirstOf(X, s, k) <=> i \in 1 .. k
      BY <3>1, <3>3 DEF FirstOf
    <3> QED
      BY <3>2, <3>4, <3>5
  <2>2. \A n \in X : Cookie[n] <= p =>
          Cookie[n] < Cookie[s[k].node] /\ Cookie[n] <= Cookie[s[k].node]
    BY <1>a, <1>0, <2>0
  <2>3. \A n \in X : n \in Passed(X, p) <=> ~(Cookie[n] > p)
    BY <1>a, <1>0 DEF Passed
  <2>4. FirstOf(X, s, k - 1) \subseteq X /\ FirstOf(X, s, k) \subseteq X /\ Passed(X, p) \subseteq X
    BY DEF FirstOf, Passed
  <2>5. /\ \A n : n \in Before(X, s[k].node) <=> n \in X /\ Cookie[n] < Cookie[s[k].node]
        /\ \A n : n \in Passed(X, Cookie[s[k].node]) <=> n \in X /\ Cookie[n] <= Cookie[s[k].node]
        /\ \A n : n \in Passed(X, p) <=> n \in X /\ Cookie[n] <= p
    BY DEF Before, Passed
  <2>6. \A n : n \in FirstOf(X, s, k - 1) => n \in X /\ Cookie[n] > p
    BY <1>a DEF FirstOf
  <2>7. \A n : n \in FirstOf(X, s, k) => n \in X /\ Cookie[n] > p
    BY <1>a DEF FirstOf
  <2>8. \A n : n \in Before(X, s[k].node) <=> n \in Passed(X, p) \/ n \in FirstOf(X, s, k - 1)
    BY <2>1, <2>2, <2>3, <2>5, <2>6
  <2>9. \A n : n \in Passed(X, Cookie[s[k].node]) <=> n \in Passed(X, p) \/ n \in FirstOf(X, s, k)
    BY <2>1, <2>2, <2>3, <2>5, <2>7
  <2> QED
    BY <2>8, <2>9
<1>2. X = Passed(X, p) \union FirstOf(X, s, Len(s))
  BY <1>a, <1>0 DEF Passed, FirstOf
<1> QED
  BY <1>1, <1>2

LEMMA QuotientIs ==
  ASSUME NEW x \in Nat, NEW m \in Nat, m > 0
  PROVE  x \div m \in Int /\ m * (x \div m) <= x /\ x < m * (x \div m) + m
OBVIOUS

LEMMA LargerIs == ASSUME NEW a \in Int PROVE Max({a, 0}) = IF a >= 0 THEN a ELSE 0
<1> DEFINE m == IF a >= 0 THEN a ELSE 0
<1>1. m \in {a, 0} /\ \A y \in {a, 0} : m >= y
  OBVIOUS
<1>2. \A x \in {a, 0} : (\A y \in {a, 0} : x >= y) => x = m
  OBVIOUS
<1> QED
  BY <1>1, <1>2 DEF Max

LEMMA SmallerIs == ASSUME NEW a \in Nat, NEW b \in Nat PROVE Min({a, b}) = IF a <= b THEN a ELSE b
<1>1. Min({a, b}) \in {a, b} /\ \A y \in {a, b} : Min({a, b}) <= y
  <2>1. {a, b} \in SUBSET Nat /\ {a, b} # {}
    OBVIOUS
  <2> QED
    BY <2>1, LeastIs
<1> QED
  BY <1>1

(* After k calls what was received beyond is less than a buffer; while the  *)
(* first buffer lasts nothing more is.                                      *)
LEMMA ReceivedIs ==
  ASSUME NEW b, NEW all \in Nat, Len(b.unused) \in Nat, Len(b.unused) < InBuffer,
         Len(b.unused) <= all, NEW k \in 1 .. all
  PROVE  Received(b, k, all) \in k .. all /\ Received(b, k, all) - k < InBuffer
<1>0. InBuffer \in Nat /\ InBuffer > 0
  BY FoldersAssumption
<1>1. PICK u \in Nat : u = Len(b.unused) /\ u < InBuffer /\ u <= all
  OBVIOUS
<1> DEFINE more == IF k >= u THEN k - u ELSE 0
           q == (more + InBuffer - 1) \div InBuffer
<1>2. Received(b, k, all) = Min({u + InBuffer * q, all})
  <2>1. k - u \in Int
    OBVIOUS
  <2>2. Max({k - u, 0}) = more
    <3>1. Max({k - u, 0}) = IF k - u >= 0 THEN k - u ELSE 0
      BY <2>1, LargerIs
    <3> QED
      BY <3>1
  <2>3. Received(b, k, all) = Min({u + InBuffer * ((Max({k - u, 0}) + InBuffer - 1) \div InBuffer), all})
    BY <1>1, Zenon DEF Received
  <2> HIDE DEF more
  <2> QED
    BY <2>2, <2>3, Zenon
<1>3. more \in Nat /\ (k >= u => more = k - u) /\ (k < u => more = 0)
  OBVIOUS
<1> HIDE DEF more
<1>4. q \in Int /\ InBuffer * q <= more + InBuffer - 1 /\ more + InBuffer - 1 < InBuffer * q + InBuffer
  <2>1. more + InBuffer - 1 \in Nat
    BY <1>0, <1>3
  <2> QED
    BY <1>0, <2>1, QuotientIs
<1> HIDE DEF q
<1>5. PICK r \in Int : r = InBuffer * q
  BY <1>0, <1>4
<1>6. r >= more /\ r < more + InBuffer
  BY <1>0, <1>3, <1>4, <1>5
<1>7. u + r \in Nat
  BY <1>1, <1>3, <1>6
<1>8. Received(b, k, all) = IF u + r <= all THEN u + r ELSE all
  BY <1>2, <1>5, <1>7, SmallerIs
<1>9. CASE k >= u
  BY <1>0, <1>1, <1>3, <1>6, <1>8, <1>9
<1>10. CASE k < u
  <2>1. r <= InBuffer - 1 /\ r >= 0
    BY <1>0, <1>3, <1>6, <1>10
  <2>2. q < 1
    <3>1. CASE q >= 1
      <4>1. InBuffer * q >= InBuffer
        BY <1>0, <1>4, <3>1
      <4> QED
        BY <1>0, <1>5, <2>1, <4>1
    <3> QED
      BY <1>4, <3>1
  <2>3. r = 0
    <3>1. CASE q <= -1
      <4>1. InBuffer * q <= -InBuffer
        BY <1>0, <1>4, <3>1
      <4> QED
        BY <1>0, <1>5, <2>1, <4>1
    <3>2. CASE q = 0
      BY <1>0, <1>5, <3>2
    <3> QED
      BY <1>4, <2>2, <3>1, <3>2
  <2> QED
    BY <1>0, <1>1, <1>8, <1>10, <2>3
<1> QED
  BY <1>1, <1>9, <1>10

(* The buffer: entries in order, behind the offset of the last one used.    *)
BufferInv(b) ==
  /\ b.unused \in Seq(Entry9) /\ Len(b.unused) < InBuffer /\ InOrder(b.unused)
  /\ b.next \in Nat /\ \A i \in 1 .. Len(b.unused) : Cookie[b.unused[i].node] > b.next

(* It has a file that the host has already listed.                          *)
Brings(b, n) ==
  Cookie[n] > b.next /\ Cookie[n] <= NextRequest(b) => \E i \in 1 .. Len(b.unused) : b.unused[i] = EntryOf(n)

(* It is true of the directory. *)
Current(b, d) ==
  \A i \in 1 .. Len(b.unused) : b.unused[i].node \in Children(tree, d) /\ b.unused[i] = EntryOf(b.unused[i].node)

LEMMA NextRequestIs ==
  ASSUME NEW b, BufferInv(b)
  PROVE  /\ NextRequest(b) \in Nat /\ NextRequest(b) >= b.next
         /\ \A i \in 1 .. Len(b.unused) : Cookie[b.unused[i].node] <= NextRequest(b)
<1>1. CASE b.unused = <<>>
  <2>1. NextRequest(b) = b.next /\ Len(b.unused) = 0
    BY <1>1 DEF NextRequest
  <2> QED
    BY <2>1 DEF BufferInv
<1>2. CASE b.unused # <<>>
  <2> DEFINE u == b.unused
  <2>1. u \in Seq(Entry9) /\ InOrder(u) /\ b.next \in Nat
    BY DEF BufferInv
  <2>2. Len(u) \in 1 .. Len(u)
    BY <1>2, <2>1
  <2>3. NextRequest(b) = Cookie[u[Len(u)].node]
    BY <1>2 DEF NextRequest, Last
  <2>4. Cookie[u[Len(u)].node] > b.next
    BY <2>2 DEF BufferInv
  <2> HIDE DEF u
  <2>5. \A i \in 1 .. Len(u) : Cookie[u[i].node] <= Cookie[u[Len(u)].node] /\ Cookie[u[i].node] \in Nat
    <3> TAKE i \in 1 .. Len(u)
    <3>1. i <= Len(u)
      BY <2>2
    <3> QED
      BY <2>1, <2>2, <3>1, OrderIs
  <2>6. Cookie[u[Len(u)].node] \in Nat
    BY <2>2, <2>5
  <2> QED
    BY <2>1, <2>3, <2>4, <2>5, <2>6 DEF u
<1> QED
  BY <1>1, <1>2

(* All that the calls of Readdir9 will return: in order, with every file of *)
(* the directory that the buffer brings or the host has yet to list.        *)
LEMMA ReadableIs ==
  ASSUME tree \in [Node -> Place], NEW d, NEW b, BufferInv(b)
  PROVE  LET s == Readable(d, b)
         IN  /\ s \in Seq(Entry9) /\ InOrder(s) /\ Len(b.unused) <= Len(s)
             /\ \A i \in 1 .. Len(s) : Cookie[s[i].node] > b.next
             /\ \A n \in Children(tree, d) : Brings(b, n) /\ Cookie[n] > b.next =>
                  \E i \in 1 .. Len(s) : s[i] = EntryOf(n)
             /\ Current(b, d) =>
                  \A i \in 1 .. Len(s) : s[i].node \in Children(tree, d) /\ s[i] = EntryOf(s[i].node)
<1> DEFINE u == b.unused
           o == NextRequest(b)
           h == FromHost(d, o)
           s == u \o h
<1>0. s = Readable(d, b)
  BY DEF Readable
<1>1. /\ u \in Seq(Entry9) /\ InOrder(u) /\ b.next \in Nat
      /\ \A i \in 1 .. Len(u) : Cookie[u[i].node] > b.next
  BY DEF BufferInv
<1>2. o \in Nat /\ o >= b.next /\ \A i \in 1 .. Len(u) : Cookie[u[i].node] <= o
  BY NextRequestIs
<1> HIDE DEF o
<1>3. /\ h \in Seq(Entry9) /\ InOrder(h)
      /\ \A i \in 1 .. Len(h) : /\ h[i].node \in Children(tree, d) /\ h[i] = EntryOf(h[i].node)
                                /\ Cookie[h[i].node] > o
      /\ \A n \in Children(tree, d) : Cookie[n] > o => \E i \in 1 .. Len(h) : h[i] = EntryOf(n)
  BY <1>2, FromHostIs
<1>4. /\ \A n \in Node : Brings(b, n) /\ Cookie[n] > b.next /\ Cookie[n] <= o =>
                          \E i \in 1 .. Len(u) : u[i] = EntryOf(n)
      /\ Current(b, d) => \A i \in 1 .. Len(u) : u[i].node \in Children(tree, d) /\ u[i] = EntryOf(u[i].node)
  BY DEF Brings, Current, o
<1> HIDE DEF u, h
<1>5. /\ s \in Seq(Entry9) /\ Len(s) = Len(u) + Len(h) /\ Len(u) \in Nat /\ Len(h) \in Nat
      /\ \A i \in 1 .. Len(u) : i \in 1 .. Len(s) /\ s[i] = u[i]
      /\ \A i \in 1 .. Len(h) : Len(u) + i \in 1 .. Len(s) /\ s[Len(u) + i] = h[i]
      /\ \A i \in 1 .. Len(s) : i \in 1 .. Len(u) \/ (i - Len(u) \in 1 .. Len(h) /\ s[i] = h[i - Len(u)])
  BY <1>1, <1>3
<1> HIDE DEF s
<1>6. \A i \in 1 .. Len(u) : Cookie[u[i].node] \in Nat
  BY <1>1, OrderIs
<1>7. \A i \in 1 .. Len(h) : Cookie[h[i].node] \in Nat
  BY <1>3, OrderIs
<1>8. \A i \in 1 .. Len(s) : Cookie[s[i].node] > b.next
  <2> TAKE i \in 1 .. Len(s)
  <2>1. CASE i \in 1 .. Len(u)
    BY <1>1, <1>5, <2>1
  <2>2. CASE i - Len(u) \in 1 .. Len(h) /\ s[i] = h[i - Len(u)]
    BY <1>1, <1>2, <1>3, <1>7, <2>2
  <2> QED
    BY <1>5, <2>1, <2>2
<1>9. InOrder(s)
  <2> SUFFICES ASSUME NEW i \in 1 .. Len(s), NEW j \in 1 .. Len(s), i < j
               PROVE  Cookie[s[i].node] < Cookie[s[j].node]
    BY DEF InOrder
  <2>1. CASE i \in 1 .. Len(u) /\ j \in 1 .. Len(u)
    BY <1>1, <1>5, <2>1 DEF InOrder
  <2>2. CASE i \in 1 .. Len(u) /\ j \notin 1 .. Len(u)
    <3>1. s[i] = u[i] /\ j - Len(u) \in 1 .. Len(h) /\ s[j] = h[j - Len(u)]
      BY <1>5, <2>2
    <3>2. /\ Cookie[u[i].node] <= o /\ Cookie[u[i].node] \in Nat
          /\ Cookie[h[j - Len(u)].node] > o /\ Cookie[h[j - Len(u)].node] \in Nat
      BY <1>2, <1>3, <1>6, <1>7, <2>2, <3>1
    <3> QED
      BY <1>2, <3>1, <3>2
  <2>3. CASE i \notin 1 .. Len(u)
    <3>1. /\ i - Len(u) \in 1 .. Len(h) /\ s[i] = h[i - Len(u)]
          /\ j - Len(u) \in 1 .. Len(h) /\ s[j] = h[j - Len(u)] /\ i - Len(u) < j - Len(u)
      BY <1>5, <2>3
    <3> QED
      BY <1>3, <3>1 DEF InOrder
  <2> QED
    BY <2>1, <2>2, <2>3
<1>10. ASSUME NEW n \in Children(tree, d), Brings(b, n), Cookie[n] > b.next
       PROVE  \E i \in 1 .. Len(s) : s[i] = EntryOf(n)
  <2>1. n \in Node /\ Cookie[n] \in Nat
    BY CookieIs DEF Children
  <2>2. CASE Cookie[n] <= o
    <3>1. PICK i \in 1 .. Len(u) : u[i] = EntryOf(n)
      BY <1>4, <1>10, <2>1, <2>2
    <3> QED
      BY <1>5, <3>1
  <2>3. CASE Cookie[n] > o
    <3>1. PICK i \in 1 .. Len(h) : h[i] = EntryOf(n)
      BY <1>3, <2>3
    <3> QED
      BY <1>5, <3>1
  <2> QED
    BY <1>2, <2>1, <2>2, <2>3
<1>11. ASSUME Current(b, d), NEW i \in 1 .. Len(s)
       PROVE  s[i].node \in Children(tree, d) /\ s[i] = EntryOf(s[i].node)
  <2>1. CASE i \in 1 .. Len(u)
    BY <1>4, <1>5, <1>11, <2>1
  <2>2. CASE i - Len(u) \in 1 .. Len(h) /\ s[i] = h[i - Len(u)]
    BY <1>3, <2>2
  <2> QED
    BY <1>5, <2>1, <2>2
<1>12. Len(u) <= Len(s)
  BY <1>5
<1> QED
  BY <1>0, <1>5, <1>8, <1>9, <1>10, <1>11, <1>12 DEF u

(* What is left in the buffer after k calls. *)
LEMMA UsedKeeps ==
  ASSUME tree \in [Node -> Place], NEW d, NEW b, BufferInv(b), NEW s, s = Readable(d, b),
         NEW k \in 1 .. Len(s)
  PROVE  /\ BufferInv(Used(d, b, k)) /\ Used(d, b, k).next = Cookie[s[k].node]
         /\ \A n \in Children(tree, d) : Brings(b, n) => Brings(Used(d, b, k), n)
         /\ Current(b, d) => Current(Used(d, b, k), d)
<1> DEFINE R == Received(b, k, Len(s))
           u == SubSeq(s, k + 1, R)
           v == Used(d, b, k)
<1>1. /\ s \in Seq(Entry9) /\ InOrder(s) /\ Len(b.unused) <= Len(s)
      /\ \A i \in 1 .. Len(s) : Cookie[s[i].node] > b.next
      /\ \A n \in Children(tree, d) : Brings(b, n) /\ Cookie[n] > b.next =>
           \E i \in 1 .. Len(s) : s[i] = EntryOf(n)
      /\ Current(b, d) =>
           \A i \in 1 .. Len(s) : s[i].node \in Children(tree, d) /\ s[i] = EntryOf(s[i].node)
  BY ReadableIs
<1>2. R \in k .. Len(s) /\ R - k < InBuffer
  <2>1. Len(s) \in Nat /\ Len(b.unused) \in Nat /\ Len(b.unused) < InBuffer
    BY <1>1 DEF BufferInv
  <2> QED
    BY <1>1, <2>1, ReceivedIs
<1>3. v = [unused |-> u, next |-> Cookie[s[k].node]]
  BY DEF Used
<1> HIDE DEF R, v
<1>4. /\ u \in Seq(Entry9) /\ Len(u) = R - k
      /\ \A i \in 1 .. Len(u) : k + i \in 1 .. Len(s) /\ u[i] = s[k + i]
      /\ \A i \in k + 1 .. R : i - k \in 1 .. Len(u) /\ u[i - k] = s[i]
  BY <1>1, <1>2
<1> HIDE DEF u
<1>5. \A i \in 1 .. Len(s) : Cookie[s[i].node] \in Nat /\ s[i].node \in Node
  BY <1>1, OrderIs
<1>6. BufferInv(v)
  <2>1. Len(u) < InBuffer
    BY <1>2, <1>4
  <2>2. InOrder(u)
    <3> SUFFICES ASSUME NEW i \in 1 .. Len(u), NEW j \in 1 .. Len(u), i < j
                 PROVE  Cookie[u[i].node] < Cookie[u[j].node]
      BY DEF InOrder
    <3>1. k + i \in 1 .. Len(s) /\ u[i] = s[k + i]
      BY <1>4
    <3>2. k + j \in 1 .. Len(s) /\ u[j] = s[k + j]
      BY <1>4
    <3>3. k + i < k + j
      OBVIOUS
    <3> QED
      BY <1>1, <3>1, <3>2, <3>3 DEF InOrder
  <2>3. \A i \in 1 .. Len(u) : Cookie[u[i].node] > Cookie[s[k].node]
    <3> TAKE i \in 1 .. Len(u)
    <3>1. k + i \in 1 .. Len(s) /\ u[i] = s[k + i] /\ k < k + i
      BY <1>4
    <3>2. Cookie[s[k].node] < Cookie[s[k + i].node]
      BY <1>1, <3>1 DEF InOrder
    <3> QED
      BY <1>5, <3>1, <3>2
  <2> QED
    BY <1>3, <1>4, <1>5, <2>1, <2>2, <2>3 DEF BufferInv
<1>7. NextRequest(v) = Cookie[s[R].node]
  <2>1. CASE R = k
    <3>1. u = <<>>
      BY <1>4, <2>1
    <3> QED
      BY <1>3, <2>1, <3>1 DEF NextRequest
  <2>2. CASE R # k
    <3>1. u # <<>> /\ Last(u) = s[R]
      BY <1>2, <1>4, <2>2 DEF Last
    <3> QED
      BY <1>3, <3>1 DEF NextRequest
  <2> QED
    BY <2>1, <2>2
<1>8. ASSUME NEW n \in Children(tree, d), Brings(b, n) PROVE Brings(v, n)
  <2> SUFFICES ASSUME Cookie[n] > Cookie[s[k].node], Cookie[n] <= Cookie[s[R].node]
               PROVE  \E i \in 1 .. Len(u) : u[i] = EntryOf(n)
    BY <1>3, <1>7 DEF Brings
  <2>1. n \in Node /\ Cookie[n] \in Nat /\ b.next \in Nat
    BY CookieIs DEF Children, BufferInv
  <2>2. Cookie[n] > b.next
    BY <1>1, <1>5, <2>1
  <2>3. PICK i \in 1 .. Len(s) : s[i] = EntryOf(n)
    BY <1>1, <1>8, <2>2
  <2>4. s[i].node = n
    BY <2>3 DEF EntryOf
  <2>5. k < i /\ i <= R
    <3>1. R \in 1 .. Len(s)
      BY <1>2
    <3>2. k < i <=> Cookie[s[k].node] < Cookie[s[i].node]
      BY <1>1, OrderIs
    <3>3. i <= R <=> Cookie[s[i].node] <= Cookie[s[R].node]
      BY <1>1, <3>1, OrderIs
    <3> QED
      BY <1>5, <2>1, <2>4, <3>2, <3>3
  <2> QED
    BY <1>2, <1>4, <2>3, <2>5
<1>9. ASSUME Current(b, d) PROVE Current(v, d)
  BY <1>1, <1>3, <1>4, <1>9 DEF Current
<1> QED
  BY <1>3, <1>6, <1>8, <1>9 DEF v

(* What a call finds in a listing that has given out the entries up to      *)
(* some offset, if of the files X that it brings no more than that come     *)
(* before: at most the entry that was asked for.  And just that, if the     *)
(* listing is true of the directory.                                        *)
LEMMA CallFinds ==
  ASSUME tree \in [Node -> Place], NEW trap, NEW d, NEW idx \in Nat, NEW start \in Nat, start < idx,
         NEW b, BufferInv(b), Listing(d, idx) = [idx |-> start, buffer |-> b],
         NEW X \in SUBSET Children(tree, d), \A n \in X : Brings(b, n),
         Cardinality(Passed(Visible(trap, X), b.next)) <= start
  PROVE  LET s == Coming(d, idx)
             k == FastForward(trap, d, idx)
             V == Visible(trap, X)
             exact == X = Children(tree, d) /\ Current(b, d) /\ Cardinality(Passed(V, b.next)) = start
         IN  /\ s = Readable(d, b) /\ k \in 0 .. Len(s)
             /\ k = 0 => Cardinality(V) < idx
             /\ k # 0 => /\ Cardinality(Before(V, s[k].node)) < idx
                         /\ Cardinality(Passed(V, Cookie[s[k].node])) <= idx
             /\ k # 0 /\ exact => /\ s[k].node \in V
                                  /\ Cardinality(Before(V, s[k].node)) = idx - 1
                                  /\ Cardinality(Passed(V, Cookie[s[k].node])) = idx
<1> DEFINE s == Coming(d, idx)
           k == FastForward(trap, d, idx)
           V == Visible(trap, X)
           p == b.next
           all == OnlyThese(trap, s, V)
<1>1. s = Readable(d, b)
  BY DEF Coming
<1>2. /\ s \in Seq(Entry9) /\ InOrder(s)
      /\ \A i \in 1 .. Len(s) : Cookie[s[i].node] > p
      /\ \A n \in Children(tree, d) : Brings(b, n) /\ Cookie[n] > p => \E i \in 1 .. Len(s) : s[i] = EntryOf(n)
      /\ Current(b, d) =>
           \A i \in 1 .. Len(s) : s[i].node \in Children(tree, d) /\ s[i] = EntryOf(s[i].node)
  BY <1>1, ReadableIs
<1> HIDE DEF s, k
<1>3. /\ k \in 0 .. Len(s)
      /\ k # 0 => /\ Counts(trap, s[k])
                  /\ start + Counting(trap, s, k) = idx
                  /\ start + Counting(trap, s, k - 1) = idx - 1
      /\ k = 0 => start + Counting(trap, s, Len(s)) < idx
  <2>1. Len(s) \in Nat /\ DOMAIN s = 1 .. Len(s)
    BY <1>2
  <2>2. start = Listing(d, idx).idx
    OBVIOUS
  <2> QED
    BY <2>1, <2>2, FastForwardIs DEF s, k
<1>4. p \in Nat
  BY DEF BufferInv
<1>5. X \in SUBSET Node /\ V \in SUBSET X /\ V \in SUBSET Node
  BY DEF Children, Visible
<1>6. \A n \in V : Counts(trap, EntryOf(n))
  BY DEF Visible, EntryOf
<1>7. \A n \in V : Cookie[n] > p => \E i \in 1 .. Len(s) : s[i].node = n /\ Counts(trap, s[i])
  <2> TAKE n \in V
  <2> HAVE Cookie[n] > p
  <2>1. n \in Children(tree, d) /\ Brings(b, n)
    BY <1>5
  <2>2. PICK i \in 1 .. Len(s) : s[i] = EntryOf(n)
    BY <1>2, <2>1
  <2>3. EntryOf(n).node = n
    BY DEF EntryOf
  <2> QED
    BY <1>6, <2>2, <2>3
<1>8. X = Children(tree, d) /\ Current(b, d) => all
  <2> SUFFICES ASSUME X = Children(tree, d), Current(b, d), NEW i \in 1 .. Len(s), Counts(trap, s[i])
               PROVE  s[i].node \in V
    BY DEF OnlyThese
  <2>1. s[i].node \in X /\ s[i] = EntryOf(s[i].node)
    BY <1>2
  <2> QED
    BY <2>1 DEF Visible, EntryOf
<1> HIDE DEF V, p
<1>9. BringsAll(trap, s, p, V)
  BY <1>2, <1>4, <1>5, <1>7 DEF BringsAll
<1>10. /\ \A m \in 1 .. Len(s) :
            /\ Before(V, s[m].node) = Passed(V, p) \union FirstOf(V, s, m - 1)
            /\ Passed(V, Cookie[s[m].node]) = Passed(V, p) \union FirstOf(V, s, m)
       /\ V = Passed(V, p) \union FirstOf(V, s, Len(s))
       /\ \A m \in 0 .. Len(s) :
            /\ Cardinality(Passed(V, p) \union FirstOf(V, s, m)) <= Cardinality(Passed(V, p)) + Counting(trap, s, m)
            /\ all => Cardinality(Passed(V, p) \union FirstOf(V, s, m)) =
                        Cardinality(Passed(V, p)) + Counting(trap, s, m)
  <2>1. /\ \A m \in 1 .. Len(s) :
             /\ Before(V, s[m].node) = Passed(V, p) \union FirstOf(V, s, m - 1)
             /\ Passed(V, Cookie[s[m].node]) = Passed(V, p) \union FirstOf(V, s, m)
        /\ V = Passed(V, p) \union FirstOf(V, s, Len(s))
    BY <1>9, BroughtUpTo
  <2>2. ASSUME NEW m \in 0 .. Len(s)
        PROVE  /\ Cardinality(Passed(V, p) \union FirstOf(V, s, m)) <=
                    Cardinality(Passed(V, p)) + Counting(trap, s, m)
               /\ OnlyThese(trap, s, V) =>
                    Cardinality(Passed(V, p) \union FirstOf(V, s, m)) =
                      Cardinality(Passed(V, p)) + Counting(trap, s, m)
    BY <1>9, BroughtAre, Zenon
  <2> QED
    BY <2>1, <2>2
<1>11. Cardinality(Passed(V, p)) \in Nat /\ Cardinality(Passed(V, p)) <= start
  <2>1. Passed(V, p) \in SUBSET Node
    BY <1>5 DEF Passed
  <2> QED
    BY <2>1, NodesFinite DEF V, p
<1>12. \A m \in Nat : Counting(trap, s, m) \in Nat
  BY CountingSteps
<1> HIDE DEF all
<1>13. ASSUME k = 0 PROVE Cardinality(V) < idx
  <2>1. Len(s) \in 0 .. Len(s) /\ Len(s) \in Nat
    BY <1>2
  <2>2. Cardinality(V) <= Cardinality(Passed(V, p)) + Counting(trap, s, Len(s))
    BY <1>10, <2>1
  <2>3. Cardinality(V) \in Nat
    BY <1>5, NodesFinite
  <2> QED
    BY <1>3, <1>11, <1>12, <1>13, <2>1, <2>2, <2>3
<1>14. ASSUME k # 0
       PROVE  /\ Cardinality(Before(V, s[k].node)) < idx
              /\ Cardinality(Passed(V, Cookie[s[k].node])) <= idx
              /\ all /\ Cardinality(Passed(V, p)) = start =>
                   /\ Cardinality(Before(V, s[k].node)) = idx - 1
                   /\ Cardinality(Passed(V, Cookie[s[k].node])) = idx
  <2>1. k \in 1 .. Len(s) /\ k - 1 \in 0 .. Len(s) /\ k \in 0 .. Len(s) /\ k \in Nat /\ k - 1 \in Nat
    BY <1>3, <1>14
  <2>2. /\ Cardinality(Before(V, s[k].node)) <= Cardinality(Passed(V, p)) + Counting(trap, s, k - 1)
        /\ all => Cardinality(Before(V, s[k].node)) = Cardinality(Passed(V, p)) + Counting(trap, s, k - 1)
    BY <1>10, <2>1
  <2>3. /\ Cardinality(Passed(V, Cookie[s[k].node])) <= Cardinality(Passed(V, p)) + Counting(trap, s, k)
        /\ all => Cardinality(Passed(V, Cookie[s[k].node])) = Cardinality(Passed(V, p)) + Counting(trap, s, k)
    BY <1>10, <2>1
  <2>4. Before(V, s[k].node) \in SUBSET Node /\ Passed(V, Cookie[s[k].node]) \in SUBSET Node
    BY <1>5 DEF Before, Passed
  <2>5. Cardinality(Before(V, s[k].node)) \in Nat /\ Cardinality(Passed(V, Cookie[s[k].node])) \in Nat
    BY <2>4, NodesFinite
  <2>6. /\ start + Counting(trap, s, k) = idx /\ start + Counting(trap, s, k - 1) = idx - 1
        /\ Counting(trap, s, k) \in Nat /\ Counting(trap, s, k - 1) \in Nat
    BY <1>3, <1>12, <1>14, <2>1
  <2> QED
    BY <1>11, <2>2, <2>3, <2>5, <2>6
<1>15. ASSUME k # 0, all PROVE s[k].node \in V
  BY <1>3, <1>15 DEF all, OnlyThese
<1> QED
  BY <1>1, <1>3, <1>8, <1>13, <1>14, <1>15 DEF s, k, V, p

-----------------------------------------------------------------------------
(* Folders: every file that is there has a path. *)

Located(t) ==
  \A d \in Dirs : Exists(t, d) => \E names \in BoundedSeq(Name, MaxNames - 1) : Denoted(t, Root, names) = d

LEMMA BoundedIs ==
  ASSUME NEW S, NEW n \in Int, NEW names
  PROVE  names \in BoundedSeq(S, n) <=> names \in Seq(S) /\ Len(names) <= n
<1>1. ASSUME names \in BoundedSeq(S, n) PROVE names \in Seq(S) /\ Len(names) <= n
  <2>1. PICK m \in 0 .. n : names \in [1 .. m -> S]
    BY <1>1 DEF BoundedSeq, SeqOf
  <2> QED
    BY <2>1
<1>2. ASSUME names \in Seq(S), Len(names) <= n PROVE names \in BoundedSeq(S, n)
  <2>1. Len(names) \in 0 .. n /\ names \in [1 .. Len(names) -> S]
    BY <1>2
  <2> QED
    BY <2>1 DEF BoundedSeq, SeqOf
<1> QED
  BY <1>1, <1>2

(* A path leads where another does that has the same components, in a tree  *)
(* that has the same files on it.                                           *)
Continues(t, names, u, more) ==
  /\ Len(names) \in Nat /\ Len(more) \in Nat /\ Len(names) <= Len(more)
  /\ \A i \in 1 .. Len(names) :
       Component(u, Route(t, Root, names)[i - 1], more[i]) = Route(t, Root, names)[i]

LEMMA RouteAgrees ==
  ASSUME NEW t \in [Node -> Place], NEW u \in [Node -> Place], NEW names, NEW more,
         Continues(t, names, u, more)
  PROVE  \A i \in 0 .. Len(names) : Route(u, Root, more)[i] = Route(t, Root, names)[i]
<1> DEFINE a == Route(t, Root, names)
           b == Route(u, Root, more)
           bad == {i \in 0 .. Len(names) : b[i] # a[i]}
<1>0. /\ Root \in Nodes /\ Len(names) \in Nat /\ Len(more) \in Nat /\ Len(names) <= Len(more)
      /\ \A i \in 1 .. Len(names) : Component(u, a[i - 1], more[i]) = a[i]
  BY NinePAssumption DEF Continues, Nodes
<1>1. a[0] = Root /\ b[0] = Root /\ \A i \in 1 .. Len(more) : b[i] = Component(u, b[i - 1], more[i])
  BY <1>0, RouteIs
<1> HIDE DEF a, b
<1> SUFFICES ASSUME bad # {} PROVE FALSE
  BY DEF a, b
<1>2. PICK i \in bad : \A j \in bad : i <= j
  <2>1. bad \in SUBSET Nat
    OBVIOUS
  <2> HIDE DEF bad
  <2> QED
    BY <2>1, LeastExists
<1>3. i # 0 /\ i \in 1 .. Len(names) /\ i \in 1 .. Len(more) /\ i - 1 \in 0 .. Len(names) /\ i - 1 < i
  BY <1>0, <1>1
<1>4. b[i - 1] = a[i - 1]
  BY <1>2, <1>3
<1>5. Component(u, a[i - 1], more[i]) = a[i]
  BY <1>0, <1>3
<1> QED
  BY <1>1, <1>3, <1>4, <1>5

LEMMA RootIs == Root \in Nodes /\ Root \in Node /\ Root # NoFile
  BY NinePAssumption DEF Nodes

(* The path of a file is that of its directory and its name. *)
LEMMA PathToIs ==
  ASSUME IsTree(tree), Located(tree), NEW n \in Node, Exists(tree, n)
  PROVE  PathTo(n) \in Seq(Name) /\ Len(PathTo(n)) <= MaxNames /\ Denoted(tree, Root, PathTo(n)) = n
<1>0. MaxNames \in Nat
  BY FidTableAssumption
<1>1. \E names \in BoundedSeq(Name, MaxNames) : Denoted(tree, Root, names) = n
  <2>1. CASE n \in Dirs
    <3>1. PICK names \in BoundedSeq(Name, MaxNames - 1) : Denoted(tree, Root, names) = n
      BY <2>1 DEF Located
    <3>2. names \in BoundedSeq(Name, MaxNames)
      BY <1>0, BoundedIs
    <3> QED
      BY <3>1, <3>2
  <2>2. CASE n \notin Dirs
    <3>1. /\ n \in Node \ {Root} /\ tree[n].dir \in Dirs /\ Exists(tree, tree[n].dir)
          /\ tree[n].name \in Name /\ tree \in [Node -> Place]
      BY <2>2, NinePAssumption DEF IsTree
    <3>2. PICK names \in BoundedSeq(Name, MaxNames - 1) : Denoted(tree, Root, names) = tree[n].dir
      BY <3>1 DEF Located
    <3> DEFINE more == Append(names, tree[n].name)
    <3>3. names \in Seq(Name) /\ Len(names) <= MaxNames - 1
      BY <1>0, BoundedIs
    <3>4. /\ more \in Seq(Name) /\ Len(more) = Len(names) + 1 /\ Len(names) \in Nat
          /\ \A i \in 1 .. Len(names) : more[i] = names[i]
          /\ more[Len(more)] = tree[n].name
      BY <3>1, <3>3
    <3> HIDE DEF more
    <3>5. more \in BoundedSeq(Name, MaxNames)
      BY <1>0, <3>3, <3>4, BoundedIs
    <3>6. \A i \in 1 .. Len(names) :
            Component(tree, Route(tree, Root, names)[i - 1], more[i]) = Route(tree, Root, names)[i]
      <4>1. \A i \in 1 .. Len(names) :
              Route(tree, Root, names)[i] = Component(tree, Route(tree, Root, names)[i - 1], names[i])
        BY <3>1, <3>4, RootIs, RouteIs
      <4> QED
        BY <3>4, <4>1
    <3>7. Route(tree, Root, more)[Len(names)] = tree[n].dir
      <4>1. \A i \in 0 .. Len(names) : Route(tree, Root, more)[i] = Route(tree, Root, names)[i]
        <5>1. Continues(tree, names, tree, more)
          BY <3>4, <3>6 DEF Continues
        <5> QED
          BY <3>1, <5>1, RouteAgrees
      <4>2. Len(names) \in 0 .. Len(names)
        BY <3>4
      <4> QED
        BY <3>2, <4>1, <4>2 DEF Denoted
    <3>8. Denoted(tree, Root, more) = Component(tree, tree[n].dir, tree[n].name)
      <4>1. Len(more) \in 1 .. Len(more) /\ Len(more) - 1 = Len(names) /\ Len(more) \in Nat
        BY <3>4
      <4>2. Route(tree, Root, more)[Len(more)] = Component(tree, Route(tree, Root, more)[Len(more) - 1], more[Len(more)])
        BY <3>1, <4>1, RootIs, RouteIs
      <4> QED
        BY <3>4, <3>7, <4>1, <4>2 DEF Denoted
    <3>9. n \in Named(tree, tree[n].dir, tree[n].name)
      BY <3>1 DEF Named, Children
    <3>10. tree[n].dir \in Node /\ tree[n].dir # NoFile /\ tree[n].name # DotDot
      BY <3>1, NinePAssumption
    <3>11. Named(tree, tree[n].dir, tree[n].name) = {n}
      <4>1. PICK d \in Node, m \in Name : d = tree[n].dir /\ m = tree[n].name
        BY <3>1, <3>10
      <4>2. n \in Named(tree, d, m)
        BY <3>9, <4>1
      <4>3. Named(tree, d, m) = {n}
        BY <4>2, NamedIsOne
      <4> QED
        BY <4>1, <4>3
    <3>12. Component(tree, tree[n].dir, tree[n].name) = n
      BY <3>10, <3>11 DEF Component
    <3> QED
      BY <3>5, <3>8, <3>12
  <2> QED
    BY <2>1, <2>2
<1>2. PathTo(n) \in BoundedSeq(Name, MaxNames) /\ Denoted(tree, Root, PathTo(n)) = n
  BY <1>1 DEF PathTo
<1> QED
  BY <1>0, <1>2, BoundedIs

(* A change of the tree leaves directories where they are, if on no path    *)
(* there is another file than before, or r which has gone.                  *)
LEMMA LocatedKept ==
  ASSUME NEW t, IsTree(t), Located(t), NEW u \in [Node -> Place], NEW r \in Nodes,
         \A n \in Node, x \in Name :
           Component(t, n, x) \notin {NoFile, r} => Component(u, n, x) = Component(t, n, x),
         \A x \in Name : Component(t, r, x) = NoFile,
         \A d \in Dirs : Exists(u, d) => Exists(t, d) /\ d # r
  PROVE  Located(u)
<1> SUFFICES ASSUME NEW d \in Dirs, Exists(u, d)
             PROVE  \E names \in BoundedSeq(Name, MaxNames - 1) : Denoted(u, Root, names) = d
  BY DEF Located
<1>1. PICK names \in BoundedSeq(Name, MaxNames - 1) : Denoted(t, Root, names) = d
  BY DEF Located
<1>2. names \in Seq(Name) /\ Len(names) \in Nat
  <2>1. MaxNames - 1 \in Int
    BY FidTableAssumption
  <2>2. names \in Seq(Name)
    BY <2>1, BoundedIs
  <2> QED
    BY <2>2
<1>3. t \in [Node -> Place] /\ d \in Node /\ d # NoFile /\ d # r
  BY NinePAssumption DEF IsTree
<1> DEFINE at == Route(t, Root, names)
<1>4. /\ at \in [0 .. Len(names) -> Nodes] /\ at[0] = Root
      /\ \A i \in 1 .. Len(names) : at[i] = Component(t, at[i - 1], names[i])
  BY <1>2, <1>3, RootIs, RouteIs
<1>5. at[Len(names)] = d
  BY <1>1 DEF Denoted
<1>6. \A i \in 0 .. Len(names) : at[i] # NoFile
  <2> SUFFICES ASSUME NEW i \in 0 .. Len(names), at[i] = NoFile PROVE FALSE
    OBVIOUS
  <2>1. \A j \in i .. Len(names) : at[j] = NoFile
    BY <1>2, <1>3, RootIs, RouteBroken
  <2>2. Len(names) \in i .. Len(names)
    BY <1>2
  <2> HIDE DEF at
  <2> QED
    BY <1>3, <1>5, <2>1, <2>2
<1> HIDE DEF at
<1>7. \A i \in 1 .. Len(names) : at[i] # r
  <2> SUFFICES ASSUME NEW i \in 1 .. Len(names), at[i] = r PROVE FALSE
    OBVIOUS
  <2>1. i # Len(names)
    BY <1>3, <1>5
  <2>2. i + 1 \in 1 .. Len(names) /\ i + 1 \in 0 .. Len(names) /\ (i + 1) - 1 = i
    BY <1>2, <2>1
  <2>3. names[i + 1] \in Name
    BY <1>2, <2>2
  <2>4. at[i + 1] = Component(t, r, names[i + 1])
    BY <1>4, <2>2
  <2> QED
    BY <1>6, <2>2, <2>3, <2>4
<1>8. \A i \in 1 .. Len(names) : Component(u, at[i - 1], names[i]) = at[i]
  <2> TAKE i \in 1 .. Len(names)
  <2>1. i - 1 \in 0 .. Len(names) /\ i \in 0 .. Len(names) /\ names[i] \in Name
    BY <1>2
  <2>2. at[i - 1] \in Node
    BY <1>4, <1>6, <2>1 DEF Nodes
  <2>3. Component(t, at[i - 1], names[i]) \notin {NoFile, r}
    BY <1>4, <1>6, <1>7, <2>1
  <2> QED
    BY <1>4, <2>1, <2>2, <2>3
<1>9. \A i \in 0 .. Len(names) : Route(u, Root, names)[i] = at[i]
  <2>1. Continues(t, names, u, names)
    BY <1>2, <1>8 DEF Continues, at
  <2> QED
    BY <1>3, <2>1, RouteAgrees DEF at
<1>10. Denoted(u, Root, names) = d
  <2>1. Len(names) \in 0 .. Len(names)
    BY <1>2
  <2> QED
    BY <1>5, <1>9, <2>1 DEF Denoted
<1> QED
  BY <1>10

(* A new file that is no directory, under a name that is free. *)
LEMMA LocatedPlaced ==
  ASSUME NEW t, IsTree(t), Located(t), NEW n \in Node \ {Root}, ~Exists(t, n), n \notin Dirs,
         NEW d \in Dirs, Exists(t, d), NEW m \in Name, Named(t, d, m) = {}
  PROVE  /\ IsTree([t EXCEPT ![n] = [dir |-> d, name |-> m]])
         /\ Located([t EXCEPT ![n] = [dir |-> d, name |-> m]])
<1> DEFINE p == [dir |-> d, name |-> m]
           u == [t EXCEPT ![n] = p]
<1>1. t \in [Node -> Place] /\ t[n] = Nowhere /\ d \in Node /\ d # n
  BY NinePAssumption DEF IsTree, Exists
<1>2. ASSUME NEW S \in SUBSET (Node \ {Root}), n \in S, d \in S PROVE \E x \in S \ {n} : t[x].dir \notin S
  <2>1. S \ {n} \in (SUBSET (Node \ {Root})) \ {{}}
    BY <1>1, <1>2
  <2>2. PICK x \in S \ {n} : t[x].dir \notin S \ {n}
    BY <2>1 DEF IsTree
  <2>3. t[x].dir \in Dirs \union {NoFile}
    BY <1>1, <2>2 DEF Place
  <2>4. t[x].dir # n
    BY <2>3, NinePAssumption
  <2> QED
    BY <2>2, <2>4
<1>3. IsTree(u)
  BY <1>2, PlacedIsTree
<1>4. u \in [Node -> Place] /\ \A x \in Node : u[x] = IF x = n THEN p ELSE t[x]
  <2>1. p \in Place
    BY DEF Place
  <2> QED
    BY <1>1, <2>1
<1>5. ASSUME NEW k \in Node, NEW x \in Name, Component(t, k, x) # NoFile
      PROVE  Component(u, k, x) = Component(t, k, x)
  <2>1. k # NoFile /\ x # DotDot
    BY NinePAssumption
  <2>2. Named(t, k, x) # {}
    BY <1>5, <2>1 DEF Component
  <2>3. ~(k = d /\ x = m)
    BY <2>2
  <2>4. t[n].dir # k
    BY <1>1, <2>1 DEF Nowhere
  <2>5. Named(u, k, x) = Named(t, k, x)
    BY <1>4, <2>3, <2>4 DEF Named, Children
  <2>6. Component(u, k, x) = IF Named(u, k, x) = {} THEN NoFile ELSE CHOOSE c \in Named(u, k, x) : TRUE
    BY <2>1 DEF Component
  <2>7. Component(t, k, x) = IF Named(t, k, x) = {} THEN NoFile ELSE CHOOSE c \in Named(t, k, x) : TRUE
    BY <2>1 DEF Component
  <2> HIDE DEF u
  <2> QED
    BY <2>5, <2>6, <2>7
<1>6. \A x \in Name : Component(t, NoFile, x) = NoFile
  BY DEF Component
<1>7. \A e \in Dirs : Exists(u, e) => Exists(t, e) /\ e # NoFile
  BY <1>4, NinePAssumption DEF Exists
<1>8. Located(u)
  <2>1. NoFile \in Nodes
    BY DEF Nodes
  <2> HIDE DEF u
  <2> QED
    BY <1>4, <1>5, <1>6, <1>7, <2>1, LocatedKept
<1> QED
  BY <1>3, <1>8

LEMMA LocatedRemoved ==
  ASSUME NEW t, IsTree(t), Located(t), NEW n \in Node \ {Root}, Children(t, n) = {}
  PROVE  IsTree([t EXCEPT ![n] = Nowhere]) /\ Located([t EXCEPT ![n] = Nowhere])
<1> DEFINE u == [t EXCEPT ![n] = Nowhere]
<1>0. IsTree(u)
  BY RemovedIsTree, Zenon
<1>1. IsTree(u) /\ t \in [Node -> Place]
  BY <1>0 DEF IsTree
<1>2. u \in [Node -> Place] /\ \A x \in Node : u[x] = IF x = n THEN Nowhere ELSE t[x]
  BY <1>1 DEF IsTree
<1> HIDE DEF u
<1>3. ASSUME NEW k \in Node, NEW x \in Name, Component(t, k, x) \notin {NoFile, n}
      PROVE  Component(u, k, x) = Component(t, k, x)
  <2>1. k # NoFile /\ x # DotDot
    BY NinePAssumption
  <2>2. PICK c : c \in Named(t, k, x)
    BY <1>3, <2>1 DEF Component
  <2>3. Named(t, k, x) = {c}
    BY <2>2, NamedIsOne
  <2>4. Component(t, k, x) = c /\ c # n
    BY <1>3, <2>1, <2>3 DEF Component
  <2>5. Named(u, k, x) = {c}
    <3>1. \A y : y \in Named(u, k, x) <=> y \in Node \ {Root} /\ u[y].dir = k /\ u[y].name = x
      BY DEF Named, Children
    <3>2. \A y : y \in Named(t, k, x) <=> y \in Node \ {Root} /\ t[y].dir = k /\ t[y].name = x
      BY DEF Named, Children
    <3>3. u[n].dir # k
      BY <1>2, <2>1 DEF Nowhere
    <3> QED
      BY <1>2, <2>3, <2>4, <3>1, <3>2, <3>3
  <2> QED
    BY <2>1, <2>4, <2>5 DEF Component
<1>4. \A x \in Name : Component(t, n, x) = NoFile
  <2> TAKE x \in Name
  <2>1. n # NoFile /\ x # DotDot /\ Named(t, n, x) = {}
    BY NinePAssumption DEF Named
  <2> QED
    BY <2>1 DEF Component
<1>5. \A d \in Dirs : Exists(u, d) => Exists(t, d) /\ d # n
  BY <1>2, NinePAssumption DEF Exists
<1>6. Located(u)
  <2>1. n \in Nodes
    BY DEF Nodes
  <2> QED
    BY <1>2, <1>3, <1>4, <1>5, <2>1, LocatedKept
<1> QED
  BY <1>1, <1>6 DEF u

-----------------------------------------------------------------------------
(* Folders: fids are walked to the files that they are browsed to. *)

Rooted9(s) == Sound(s) /\ s.at[RootFid] = Root

OthersStay(s, f, u) ==
  \A g \in Fid \ {f} : u.at[g] = s.at[g] /\ (g \in s.opened => g \in u.opened)

LEMMA BrowsedIs ==
  ASSUME IsTree(tree), Located(tree), MaxNames <= ChunkMax,
         NEW s, Rooted9(s), NEW f \in Fid \ {RootFid}, Tracked(f), NEW n \in Node
  PROVE  /\ Rooted9(Browsed(s, f, n)) /\ OthersStay(s, f, Browsed(s, f, n))
         /\ Exists(tree, n) => Browsed(s, f, n).at[f] = n
<1> DEFINE b == Browsed(s, f, n)
<1>0. /\ tree \in [Node -> Place] /\ Sound(s) /\ s.at[RootFid] = Root /\ RootFid \in Fid
      /\ Root \in Node /\ NoFile \notin Node /\ RootFid \in Fid \ {f}
  BY NinePAssumption DEF IsTree, Rooted9
<1>1. CASE Exists(tree, n)
  <2>1. PathTo(n) \in Seq(Name) /\ Len(PathTo(n)) <= ChunkMax /\ Denoted(tree, Root, PathTo(n)) = n
    <3>1. PathTo(n) \in Seq(Name) /\ Len(PathTo(n)) <= MaxNames /\ Denoted(tree, Root, PathTo(n)) = n
      BY <1>1, PathToIs
    <3>2. Len(PathTo(n)) \in Nat
      BY <3>1
    <3> QED
      BY <3>1, <3>2, NinePAssumption, FidTableAssumption
  <2>2. b = Walk9(tree, s, RootFid, f, PathTo(n)).s
    BY <1>1 DEF Browsed
  <2> DEFINE r == Walk9(tree, s, RootFid, f, PathTo(n))
  <2>3. Sound(r.s) /\ \A g \in Fid \ {f} : r.s.at[g] = s.at[g] /\ (g \in s.opened => g \in r.s.opened)
    BY <1>0, <2>1, WalkSound
  <2>4. InUse(s, RootFid)
    BY <1>0 DEF InUse
  <2>5. /\ ~r.err => r.s.at[f] = Denoted(tree, s.at[RootFid], PathTo(n))
        /\ r.err => Denoted(tree, s.at[RootFid], PathTo(n)) = NoFile \/ f = RootFid
    BY <1>0, <2>1, <2>4, WalkLands
  <2> HIDE DEF r
  <2>6. r.s.at[f] = n
    BY <1>0, <2>1, <2>5
  <2>7. b = r.s
    BY <2>2 DEF r
  <2> HIDE DEF b
  <2> QED
    BY <1>0, <2>3, <2>6, <2>7 DEF Rooted9, OthersStay, b
<1>2. CASE ~Exists(tree, n)
  <2>1. b = Clunk9(s, f)
    BY <1>2 DEF Browsed
  <2>2. Sound(Clunk9(s, f)) /\ \A g \in Fid \ {f} : Clunk9(s, f).at[g] = s.at[g] /\ (g \in s.opened => g \in Clunk9(s, f).opened)
    BY <1>0, ClunkSound
  <2> HIDE DEF b
  <2> QED
    BY <1>0, <1>2, <2>1, <2>2 DEF Rooted9, OthersStay, b
<1> QED
  BY <1>1, <1>2

LEMMA ClunkedIs ==
  ASSUME NEW s, Rooted9(s), NEW f \in Fid \ {RootFid}
  PROVE  Rooted9(Clunk9(s, f)) /\ OthersStay(s, f, Clunk9(s, f))
<1>1. Sound(s) /\ s.at[RootFid] = Root /\ RootFid \in Fid \ {f} /\ f \in Fid
  BY NinePAssumption DEF Rooted9
<1>2. Sound(Clunk9(s, f)) /\ \A g \in Fid \ {f} : Clunk9(s, f).at[g] = s.at[g] /\ (g \in s.opened => g \in Clunk9(s, f).opened)
  BY <1>1, ClunkSound
<1> QED
  BY <1>1, <1>2 DEF Rooted9, OthersStay

(* fid 22, open on the directory that it is to list. *)
ListsIt(s, d) == Rooted9(s) /\ s.at[ListFid] = d /\ ListFid \in s.opened

LEMMA FidsAre ==
  /\ ListFid \in Fid \ {RootFid} /\ MyFid \in Fid \ {RootFid} /\ ListFid # MyFid
  /\ Tracked(ListFid) /\ Tracked(MyFid)
  BY FoldersAssumption

LEMMA ListedIs ==
  ASSUME IsTree(tree), Located(tree), MaxNames <= ChunkMax, Rooted9(session),
         NEW d \in Dirs, NEW idx, Listable(d, idx), Cached(d, idx) => ListsIt(session, d)
  PROVE  ListsIt(ListedFor(d, idx), d)
<1>1. CASE Cached(d, idx)
  BY <1>1 DEF ListedFor
<1>2. CASE ~Cached(d, idx)
  <2> DEFINE b == Browsed(session, ListFid, d)
  <2>1. d \in Node /\ Exists(tree, d) /\ OpensDir(tree, b, ListFid)
    BY <1>2, NinePAssumption DEF Listable
  <2>2. Rooted9(b) /\ b.at[ListFid] = d
    BY <2>1, FidsAre, BrowsedIs
  <2>3. ListedFor(d, idx) = Opened(b, ListFid)
    BY <1>2 DEF ListedFor
  <2> HIDE DEF b
  <2>4. InUse(b, ListFid) /\ Sound(b) /\ ListFid \in Fid
    BY <2>1, <2>2, FidsAre DEF OpensDir, Rooted9
  <2>5. Sound(Opened(b, ListFid)) /\ Opened(b, ListFid).at = b.at /\ Opened(b, ListFid).opened = b.opened \union {ListFid}
    BY <2>4, OpenedSound
  <2> QED
    BY <2>2, <2>3, <2>5 DEF ListsIt, Rooted9
<1> QED
  BY <1>1, <1>2

LEMMA DescribedIs ==
  ASSUME IsTree(tree), Located(tree), MaxNames <= ChunkMax,
         NEW d \in Dirs, NEW s, ListsIt(s, d), NEW n \in Node
  PROVE  ListsIt(Described(s, d, n), d)
<1>1. /\ Rooted9(s) /\ d \in Node /\ MyFid \in Fid \ {RootFid} /\ Tracked(MyFid)
      /\ s.at[ListFid] = d /\ ListFid \in s.opened /\ ListFid \in Fid \ {MyFid}
  BY NinePAssumption, FidsAre DEF ListsIt
<1>2. ASSUME NEW u, Rooted9(u), OthersStay(s, MyFid, u)
      PROVE  /\ ListsIt(u, d) /\ ListsIt(Clunk9(u, MyFid), d)
  <2>1. u.at[ListFid] = d /\ ListFid \in u.opened
    BY <1>1, <1>2 DEF OthersStay
  <2>2. Rooted9(Clunk9(u, MyFid)) /\ OthersStay(u, MyFid, Clunk9(u, MyFid))
    BY <1>1, <1>2, ClunkedIs
  <2>3. Clunk9(u, MyFid).at[ListFid] = d /\ ListFid \in Clunk9(u, MyFid).opened
    BY <1>1, <2>1, <2>2 DEF OthersStay
  <2> QED
    BY <1>2, <2>1, <2>2, <2>3 DEF ListsIt
<1>3. CASE Exists(tree, n)
  <2> DEFINE b == Browsed(s, MyFid, n)
  <2>1. Rooted9(b) /\ OthersStay(s, MyFid, b)
    BY <1>1, BrowsedIs
  <2>2. Described(s, d, n) = IF IsDir(n) THEN Clunk9(b, MyFid) ELSE b
    BY <1>3 DEF Described
  <2> HIDE DEF b
  <2>3. Described(s, d, n) = Clunk9(b, MyFid) \/ Described(s, d, n) = b
    BY <2>2
  <2> QED
    BY <1>2, <2>1, <2>3
<1>4. CASE ~Exists(tree, n)
  <2>1. Described(s, d, n) = Clunk9(s, MyFid) \/ Described(s, d, n) = Browsed(s, MyFid, d)
    BY <1>4 DEF Described
  <2>2. OthersStay(s, MyFid, s)
    BY DEF OthersStay
  <2>3. Rooted9(Browsed(s, MyFid, d)) /\ OthersStay(s, MyFid, Browsed(s, MyFid, d))
    BY <1>1, BrowsedIs
  <2> QED
    BY <1>1, <1>2, <2>1, <2>2, <2>3
<1> QED
  BY <1>3, <1>4

(* Calls make and remove files; a file does not change its place.           *)
SteadyPlaces(t, u) == \A n \in Node : u[n] = t[n] \/ t[n] = Nowhere \/ u[n] = Nowhere

LEMMA CallsKeepTree ==
  ASSUME IsTree(tree), Located(tree), Rooted9(session), NEW fids, FidsNext(fids)
  PROVE  IsTree(tree') /\ Located(tree') /\ SteadyPlaces(tree, tree')
<1>1. tree \in [Node -> Place] /\ session.at \in [Fid -> Nodes]
  BY DEF IsTree, Rooted9, Sound, Session
<1>2. CASE tree' = tree
  BY <1>2 DEF SteadyPlaces
<1>3. ASSUME NEW fd \in fids, RemoveFile(fd), tree' # tree
      PROVE  IsTree(tree') /\ Located(tree') /\ SteadyPlaces(tree, tree')
  <2> DEFINE n == session.at[fd]
  <2>1. Removes(tree, session, fd) /\ tree' = [tree EXCEPT ![n] = Nowhere]
    BY <1>3 DEF RemoveFile
  <2>2. n # Root /\ Children(tree, n) = {}
    BY <2>1 DEF Removes
  <2> HIDE DEF n
  <2>3. n \in Node
    BY <1>1, <1>3, <2>1 DEF SteadyPlaces
  <2>4. IsTree(tree') /\ Located(tree')
    BY <2>1, <2>2, <2>3, LocatedRemoved
  <2> QED
    BY <1>1, <2>1, <2>4 DEF SteadyPlaces
<1>4. ASSUME NEW fd \in fids, NEW m \in Name, NEW new \in Node \ {Root}, CreateFile(fd, m, new)
      PROVE  IsTree(tree') /\ Located(tree') /\ SteadyPlaces(tree, tree')
  <2> DEFINE d == session.at[fd]
  <2>1. /\ ~Exists(tree, new) /\ new \notin Dirs /\ d \in Dirs /\ Exists(tree, d)
        /\ Named(tree, d, m) = {} /\ tree' = [tree EXCEPT ![new] = [dir |-> d, name |-> m]]
    BY <1>4 DEF CreateFile, Creates, IsDir
  <2> HIDE DEF d
  <2>2. IsTree(tree') /\ Located(tree')
    BY <2>1, LocatedPlaced
  <2> QED
    BY <1>1, <2>1, <2>2 DEF SteadyPlaces, Exists
<1> QED
  BY <1>2, <1>3, <1>4 DEF FidsNext, Walk, Clunk, OpenDir

-----------------------------------------------------------------------------
(* Folders: what holds between the calls. *)

(* Of the listing that is kept: fid 22 lists the directory; the files that  *)
(* have been there all the time are in the buffer or still to be listed;    *)
(* and of those that count, if all calls were of one kind, no more have     *)
(* been passed than were given out.                                         *)
ListingInv ==
  /\ ListsIt(session, lastCNID)
  /\ since.stayed \in SUBSET Children(tree, lastCNID)
  /\ \A n \in since.stayed : Brings(scratch, n)
  /\ \A trap \in Traps : since.traps \subseteq {trap} =>
       Cardinality(Passed(Visible(trap, since.stayed), scratch.next)) <= lastIdx
  /\ ~since.changed =>
       /\ since.stayed = Children(tree, lastCNID) /\ Current(scratch, lastCNID)
       /\ \A trap \in Traps : since.traps \subseteq {trap} =>
            Cardinality(Passed(Visible(trap, since.stayed), scratch.next)) = lastIdx

FoldersInv ==
  /\ IsTree(tree) /\ Located(tree) /\ Rooted9(session)
  /\ lastCNID \in Dirs \union {NoFile} /\ lastIdx \in 0 .. MaxIndex
  /\ BufferInv(scratch)
  /\ since \in [traps : SUBSET Traps, stayed : SUBSET Node, changed : BOOLEAN]
  /\ lastCNID # NoFile => ListingInv

LEMMA NewBuffer ==
  /\ BufferInv(InitReaddir9) /\ NextRequest(InitReaddir9) = 0 /\ InitReaddir9.next = 0
  /\ \A d : Current(InitReaddir9, d)
  /\ \A n \in Node : Brings(InitReaddir9, n)
<1> DEFINE b == InitReaddir9
<1>1. b.unused = <<>> /\ b.next = 0 /\ b.unused \in Seq(Entry9) /\ Len(b.unused) = 0
  BY DEF InitReaddir9
<1>2. InBuffer \in Nat \ {0}
  BY FoldersAssumption
<1> HIDE DEF b
<1>3. BufferInv(b) /\ NextRequest(b) = 0 /\ \A d : Current(b, d)
  BY <1>1, <1>2 DEF BufferInv, NextRequest, Current, InOrder
<1>4. \A n \in Node : Brings(b, n)
  BY <1>1, <1>3, CookieIs DEF Brings
<1> QED
  BY <1>1, <1>3, <1>4 DEF b

LEMMA FoldersInvInit == FoldersInit => FoldersInv
<1> SUFFICES ASSUME FoldersInit PROVE FoldersInv
  OBVIOUS
<1>1. /\ tree = Tree /\ session = Attached /\ lastCNID = NoFile /\ lastIdx = 0
      /\ scratch = InitReaddir9 /\ since = NotListed
  BY DEF FoldersInit, FidsInit
<1>2. IsTree(tree)
  BY <1>1, TreeAssumption
<1>3. Located(tree)
  BY <1>1, FoldersAssumption DEF Located
<1>4. Root \in Nodes /\ NoFile \in Nodes
  BY NinePAssumption DEF Nodes
<1>5. Sound(Attached) /\ Attached.at[RootFid] = Root
  BY <1>4, NinePAssumption DEF Attached, Sound, Session, InUse
<1>6. MaxIndex \in Nat
  BY FoldersAssumption
<1>7. since \in [traps : SUBSET Traps, stayed : SUBSET Node, changed : BOOLEAN]
  BY <1>1 DEF NotListed
<1>8. BufferInv(scratch)
  BY <1>1, NewBuffer
<1> QED
  BY <1>1, <1>2, <1>3, <1>5, <1>6, <1>7, <1>8 DEF FoldersInv, Rooted9

(* The files that a call is to bring: those of the directory, or in the     *)
(* kept listing those that stayed.                                          *)
Stayed(d, idx) == IF Cached(d, idx) THEN since.stayed ELSE Children(tree, d)

(* What a call begins from. *)
BeginsFrom(d, idx, b, start, X) ==
  /\ Listing(d, idx) = [idx |-> start, buffer |-> b]
  /\ start \in Nat /\ start < idx /\ BufferInv(b)
  /\ X \in SUBSET Children(tree, d) /\ \A n \in X : Brings(b, n)
  /\ \A trap \in Traps : (Cached(d, idx) => since.traps \subseteq {trap}) =>
       Cardinality(Passed(Visible(trap, X), b.next)) <= start
  /\ (Cached(d, idx) => ~since.changed) =>
       /\ X = Children(tree, d) /\ Current(b, d)
       /\ \A trap \in Traps : (Cached(d, idx) => since.traps \subseteq {trap}) =>
            Cardinality(Passed(Visible(trap, X), b.next)) = start

LEMMA CallBegins ==
  ASSUME FoldersInv, NEW d \in Dirs, NEW idx \in Indices
  PROVE  BeginsFrom(d, idx, Listing(d, idx).buffer, Listing(d, idx).idx, Stayed(d, idx))
<1>0. idx \in Nat /\ idx >= 1 /\ d # NoFile /\ d \in Node /\ MaxIndex \in Nat
  BY NinePAssumption, FoldersAssumption DEF Indices
<1>1. CASE Cached(d, idx)
  <2>1. Listing(d, idx) = [idx |-> lastIdx, buffer |-> scratch] /\ Stayed(d, idx) = since.stayed
    BY <1>1 DEF Listing, Stayed
  <2>2. d = lastCNID /\ idx > lastIdx /\ lastIdx \in Nat
    BY <1>0, <1>1 DEF Cached, FoldersInv
  <2>3. ListingInv /\ BufferInv(scratch)
    BY <1>0, <2>2 DEF FoldersInv
  <2>4. BeginsFrom(d, idx, scratch, lastIdx, since.stayed)
    BY <1>1, <2>1, <2>2, <2>3 DEF BeginsFrom, ListingInv
  <2> QED
    BY <2>1, <2>4
<1>2. CASE ~Cached(d, idx)
  <2> DEFINE X == Children(tree, d)
  <2>1. Listing(d, idx) = [idx |-> 0, buffer |-> InitReaddir9] /\ Stayed(d, idx) = X
    BY <1>2 DEF Listing, Stayed
  <2>2. X \in SUBSET Node
    BY DEF Children
  <2> HIDE DEF X
  <2>3. \A trap : Cardinality(Passed(Visible(trap, X), 0)) = 0
    <3> TAKE trap
    <3>1. Passed(Visible(trap, X), 0) = {}
      BY <2>2, CookieIs DEF Passed, Visible
    <3> QED
      BY <3>1, FS_EmptySet
  <2>4. BufferInv(InitReaddir9) /\ InitReaddir9.next = 0 /\ Current(InitReaddir9, d)
        /\ \A n \in X : Brings(InitReaddir9, n)
    BY <2>2, NewBuffer
  <2> HIDE DEF InitReaddir9
  <2>5. BeginsFrom(d, idx, InitReaddir9, 0, X)
    BY <1>0, <2>1, <2>3, <2>4 DEF BeginsFrom, X
  <2> QED
    BY <2>1, <2>5
<1> QED
  BY <1>1, <1>2

(* What it finds, in a kept listing if the calls before were of its kind.   *)
LEMMA CallFindsIt ==
  ASSUME FoldersInv, NEW trap \in Traps, NEW d \in Dirs, NEW idx \in Indices,
         Cached(d, idx) => since.traps \subseteq {trap}
  PROVE  LET s == Coming(d, idx)
             k == FastForward(trap, d, idx)
             V == Visible(trap, Stayed(d, idx))
         IN  /\ k \in 0 .. Len(s)
             /\ k = 0 => Cardinality(V) < idx
             /\ k # 0 => /\ Cardinality(Before(V, s[k].node)) < idx
                         /\ Cardinality(Passed(V, Cookie[s[k].node])) <= idx
             /\ k # 0 /\ (Cached(d, idx) => ~since.changed) =>
                  /\ s[k].node \in V /\ Stayed(d, idx) = Children(tree, d)
                  /\ Cardinality(Before(V, s[k].node)) = idx - 1
                  /\ Cardinality(Passed(V, Cookie[s[k].node])) = idx
<1> DEFINE b == Listing(d, idx).buffer
           start == Listing(d, idx).idx
           X == Stayed(d, idx)
<1>1. BeginsFrom(d, idx, b, start, X)
  BY CallBegins
<1> HIDE DEF b, start, X
<1>2. idx \in Nat /\ tree \in [Node -> Place]
  BY DEF Indices, FoldersInv, IsTree
<1>3. /\ Listing(d, idx) = [idx |-> start, buffer |-> b] /\ start \in Nat /\ start < idx /\ BufferInv(b)
      /\ X \in SUBSET Children(tree, d) /\ \A n \in X : Brings(b, n)
      /\ Cardinality(Passed(Visible(trap, X), b.next)) <= start
      /\ (Cached(d, idx) => ~since.changed) =>
           /\ X = Children(tree, d) /\ Current(b, d)
           /\ Cardinality(Passed(Visible(trap, X), b.next)) = start
  BY <1>1 DEF BeginsFrom
<1> DEFINE s == Coming(d, idx)
           k == FastForward(trap, d, idx)
           V == Visible(trap, X)
           exact == X = Children(tree, d) /\ Current(b, d) /\ Cardinality(Passed(V, b.next)) = start
<1>4. /\ k \in 0 .. Len(s)
      /\ k = 0 => Cardinality(V) < idx
      /\ k # 0 => /\ Cardinality(Before(V, s[k].node)) < idx
                  /\ Cardinality(Passed(V, Cookie[s[k].node])) <= idx
      /\ k # 0 /\ exact => /\ s[k].node \in V
                           /\ Cardinality(Before(V, s[k].node)) = idx - 1
                           /\ Cardinality(Passed(V, Cookie[s[k].node])) = idx
  BY <1>2, <1>3, CallFinds
<1>5. (Cached(d, idx) => ~since.changed) => exact
  BY <1>3
<1> HIDE DEF s, k, V, exact
<1>6. /\ k \in 0 .. Len(s)
      /\ k = 0 => Cardinality(V) < idx
      /\ k # 0 => /\ Cardinality(Before(V, s[k].node)) < idx
                  /\ Cardinality(Passed(V, Cookie[s[k].node])) <= idx
      /\ k # 0 /\ (Cached(d, idx) => ~since.changed) =>
           /\ s[k].node \in V /\ X = Children(tree, d)
           /\ Cardinality(Before(V, s[k].node)) = idx - 1
           /\ Cardinality(Passed(V, Cookie[s[k].node])) = idx
  BY <1>3, <1>4, <1>5
<1> QED
  BY <1>6 DEF s, k, V, X

(* Other calls leave it so: what is in the buffer is behind the offset, and *)
(* of the files that stay no more are passed.                               *)
LEMMA OtherCallsKeep ==
  ASSUME FoldersInv, OtherCalls, MaxNames <= ChunkMax
  PROVE  FoldersInv'
<1> DEFINE fids == Fid \ {RootFid, ListFid}
           D == lastCNID
<1>1. /\ IsTree(tree) /\ Located(tree) /\ Rooted9(session) /\ BufferInv(scratch)
      /\ since \in [traps : SUBSET Traps, stayed : SUBSET Node, changed : BOOLEAN]
      /\ tree \in [Node -> Place] /\ Sound(session)
  BY DEF FoldersInv, IsTree, Rooted9
<1>2. FidsNext(fids) /\ lastCNID' = D /\ lastIdx' = lastIdx /\ scratch' = scratch
  BY DEF OtherCalls
<1>3. IsTree(tree') /\ Located(tree') /\ SteadyPlaces(tree, tree')
  BY <1>1, <1>2, CallsKeepTree
<1>4. /\ Sound(session') /\ session'.at[RootFid] = Root
      /\ session'.at[ListFid] = session.at[ListFid]
      /\ ListFid \in session.opened => ListFid \in session'.opened
  <2>1. fids \in SUBSET (Fid \ {RootFid}) /\ RootFid \in Fid \ fids /\ ListFid \in Fid \ fids
    BY NinePAssumption, FidsAre
  <2>2. /\ Sound(session')
        /\ \A f \in Fid \ fids : /\ session'.at[f] = session.at[f]
                                 /\ f \in session.opened => f \in session'.opened
    BY <1>1, <1>2, <2>1, CallSound
  <2> HIDE DEF fids
  <2> QED
    BY <1>1, <2>1, <2>2 DEF Rooted9
<1>5. CASE D = NoFile
  <2>1. since' = since
    BY <1>5 DEF OtherCalls
  <2> QED
    BY <1>1, <1>2, <1>3, <1>4, <1>5, <2>1 DEF FoldersInv, Rooted9, Located, BufferInv, InOrder
<1>6. CASE D # NoFile
  <2>1. /\ since'.stayed = since.stayed \intersect Children(tree', D) /\ since'.traps = since.traps
        /\ since'.changed = (since.changed \/ Children(tree, D) # Children(tree', D))
        /\ since' \in [traps : SUBSET Traps, stayed : SUBSET Node, changed : BOOLEAN]
    BY <1>1, <1>6 DEF OtherCalls
  <2>2. ListingInv
    BY <1>6 DEF FoldersInv
  <2>3. \A n \in since'.stayed : n \in since.stayed /\ n \in Node /\ tree'[n] = tree[n]
    <3> TAKE n \in since'.stayed
    <3>1. n \in since.stayed /\ n \in Children(tree, D) /\ n \in Children(tree', D)
      BY <2>1, <2>2 DEF ListingInv
    <3>2. n \in Node /\ tree[n].dir = D /\ tree'[n].dir = D
      BY <3>1 DEF Children
    <3>3. tree[n] # Nowhere /\ tree'[n] # Nowhere
      BY <1>6, <3>2 DEF Nowhere
    <3> QED
      BY <1>3, <3>1, <3>2, <3>3 DEF SteadyPlaces
  <2>4. ListsIt(session', D)
    BY <1>4, <2>2 DEF ListingInv, ListsIt, Rooted9
  <2>5. \A n \in since'.stayed : Brings(scratch, n)'
    <3> TAKE n \in since'.stayed
    <3>1. Brings(scratch, n) /\ tree'[n] = tree[n]
      BY <2>2, <2>3 DEF ListingInv
    <3> QED
      BY <1>2, <3>1 DEF Brings, EntryOf, NextRequest
  <2> DEFINE V(trap) == Visible(trap, since.stayed)
  <2>6. ASSUME NEW trap
        PROVE  /\ Cardinality(Passed(V(trap)', scratch.next)) <= Cardinality(Passed(V(trap), scratch.next))
               /\ Cardinality(Passed(V(trap)', scratch.next)) \in Nat
               /\ Cardinality(Passed(V(trap), scratch.next)) \in Nat
               /\ since'.stayed = since.stayed => V(trap)' = V(trap)
    <3>1. \A n \in V(trap)' : n \in since'.stayed /\ Counts(trap, [node |-> n, name |-> tree'[n].name])
      BY DEF Visible, Counts
    <3>2. \A n \in since'.stayed : Counts(trap, [node |-> n, name |-> tree'[n].name]) => n \in V(trap)'
      BY DEF Visible, Counts
    <3>3. \A n \in V(trap) : n \in since.stayed /\ n \in Node /\ Counts(trap, [node |-> n, name |-> tree[n].name])
      BY <1>1 DEF Visible
    <3>4. \A n \in since.stayed : Counts(trap, [node |-> n, name |-> tree[n].name]) => n \in V(trap)
      BY DEF Visible
    <3> HIDE DEF V
    <3>5. Passed(V(trap)', scratch.next) \subseteq Passed(V(trap), scratch.next)
      BY <2>3, <3>1, <3>4 DEF Passed
    <3>6. Passed(V(trap), scratch.next) \in SUBSET Node
      BY <3>3 DEF Passed
    <3>7. IsFiniteSet(Passed(V(trap), scratch.next)) /\ Cardinality(Passed(V(trap), scratch.next)) \in Nat
      BY <3>6, NodesFinite
    <3>8. Passed(V(trap)', scratch.next) \in SUBSET Node
      BY <3>5, <3>6
    <3>9. since'.stayed = since.stayed => V(trap)' = V(trap)
      BY <2>3, <3>1, <3>2, <3>3, <3>4
    <3> QED
      BY <3>5, <3>7, <3>8, <3>9, NodesFinite, FS_Subset
  <2> HIDE DEF V
  <2>7. \A trap \in Traps : since'.traps \subseteq {trap} =>
          Cardinality(Passed(V(trap)', scratch.next)) <= lastIdx
    <3> SUFFICES ASSUME NEW trap \in Traps, since'.traps \subseteq {trap}
                 PROVE  Cardinality(Passed(V(trap)', scratch.next)) <= lastIdx
      OBVIOUS
    <3>1. Cardinality(Passed(V(trap), scratch.next)) <= lastIdx
      BY <2>1, <2>2 DEF ListingInv, V
    <3>2. lastIdx \in Int
      BY DEF FoldersInv
    <3> QED
      BY <2>6, <3>1, <3>2
  <2>8. ASSUME ~since'.changed
        PROVE  /\ since'.stayed = Children(tree', D) /\ Current(scratch, D)'
               /\ \A trap \in Traps : since'.traps \subseteq {trap} =>
                    Cardinality(Passed(V(trap)', scratch.next)) = lastIdx
    <3>1. ~since.changed /\ Children(tree', D) = Children(tree, D)
      BY <2>1, <2>8
    <3>2. since.stayed = Children(tree, D) /\ Current(scratch, D)
      BY <2>2, <3>1 DEF ListingInv
    <3>3. since'.stayed = Children(tree', D) /\ since'.stayed = since.stayed
      BY <2>1, <3>1, <3>2
    <3>4. Current(scratch, D)'
      <4>1. \A i \in 1 .. Len(scratch.unused) :
              /\ scratch.unused[i].node \in Children(tree, D)
              /\ scratch.unused[i] = [node |-> scratch.unused[i].node, name |-> tree[scratch.unused[i].node].name]
        BY <3>2 DEF Current, EntryOf
      <4>2. \A n \in Children(tree, D) : tree'[n] = tree[n]
        BY <2>3, <3>2, <3>3
      <4> QED
        BY <1>2, <3>1, <4>1, <4>2 DEF Current, EntryOf
    <3>5. \A trap \in Traps : since'.traps \subseteq {trap} =>
            Cardinality(Passed(V(trap)', scratch.next)) = lastIdx
      <4> SUFFICES ASSUME NEW trap \in Traps, since'.traps \subseteq {trap}
                   PROVE  Cardinality(Passed(V(trap)', scratch.next)) = lastIdx
        OBVIOUS
      <4>1. Cardinality(Passed(V(trap), scratch.next)) = lastIdx
        BY <2>1, <2>2, <3>1 DEF ListingInv, V
      <4> QED
        BY <2>6, <3>3, <4>1
    <3> QED
      BY <3>3, <3>4, <3>5
  <2>9. since'.stayed \in SUBSET Children(tree', D)
    BY <2>1
  <2>10. ListingInv'
    BY <1>2, <2>4, <2>5, <2>7, <2>8, <2>9 DEF ListingInv, V
  <2>11. BufferInv(scratch')
    BY <1>1, <1>2
  <2> QED
    BY <1>1, <1>2, <1>3, <1>4, <2>1, <2>10, <2>11 DEF FoldersInv, Rooted9
<1> QED
  BY <1>5, <1>6

(* A call that finds an entry passes it. *)
LEMMA InfoKeeps ==
  ASSUME FoldersInv, NEW trap \in Traps, NEW d \in Dirs, NEW idx \in Indices, Info(trap, d, idx),
         MaxNames <= ChunkMax
  PROVE  FoldersInv'
<1> DEFINE k == FastForward(trap, d, idx)
           s == Coming(d, idx)
           b == Listing(d, idx).buffer
           start == Listing(d, idx).idx
           X == Stayed(d, idx)
           opens == ListedFor(d, idx)
<1>1. /\ IsTree(tree) /\ Located(tree) /\ Rooted9(session) /\ BufferInv(scratch)
      /\ since \in [traps : SUBSET Traps, stayed : SUBSET Node, changed : BOOLEAN]
      /\ tree \in [Node -> Place] /\ d \in Node /\ d # NoFile /\ idx \in Nat /\ idx \in 0 .. MaxIndex
      /\ MaxIndex \in Nat
  BY NinePAssumption, FoldersAssumption DEF FoldersInv, IsTree, Indices
<1>2. tree' = tree /\ Listable(d, idx)
  BY DEF Info
<1>3. Cached(d, idx) => d = lastCNID /\ ListingInv
  BY <1>1 DEF Cached, FoldersInv
<1>4. ListsIt(opens, d)
  <2>1. Cached(d, idx) => ListsIt(session, d)
    BY <1>3 DEF ListingInv
  <2> QED
    BY <1>1, <1>2, <2>1, ListedIs
<1>5. BeginsFrom(d, idx, b, start, X)
  BY CallBegins
<1>6. s = Readable(d, b)
  BY DEF Coming
<1>7. s \in Seq(Entry9) /\ k \in 0 .. Len(s)
  <2> HIDE DEF b, start, X, k, s
  <2>1. /\ Listing(d, idx) = [idx |-> start, buffer |-> b] /\ start \in Nat /\ start < idx /\ BufferInv(b)
    BY <1>5 DEF BeginsFrom
  <2>2. s \in Seq(Entry9)
    BY <1>1, <1>6, <2>1, ReadableIs
  <2>3. Len(s) \in Nat /\ DOMAIN s = 1 .. Len(s) /\ start = Listing(d, idx).idx /\ s = Coming(d, idx)
    BY <2>1, <2>2 DEF s
  <2>4. k \in 0 .. Len(s)
    BY <1>1, <2>1, <2>3, FastForwardIs DEF k
  <2> QED
    BY <2>2, <2>4
<1>8. CASE k = 0
  <2>1. /\ lastCNID' = NoFile /\ lastIdx' = 0 /\ scratch' = InitReaddir9
        /\ session' = Clunk9(opens, ListFid) /\ since' = NotListed
    BY <1>8 DEF Info
  <2>2. Rooted9(session')
    BY <1>4, <2>1, FidsAre, ClunkedIs DEF ListsIt
  <2>3. BufferInv(scratch')
    BY <2>1, NewBuffer
  <2>4. since' \in [traps : SUBSET Traps, stayed : SUBSET Node, changed : BOOLEAN]
    BY <2>1 DEF NotListed
  <2>5. IsTree(tree') /\ Located(tree') /\ lastIdx' \in 0 .. MaxIndex
    BY <1>1, <1>2, <2>1
  <2> QED
    BY <2>1, <2>2, <2>3, <2>4, <2>5 DEF FoldersInv, Rooted9, Located, BufferInv, InOrder
<1>9. CASE k # 0
  <2>1. /\ lastCNID' = d /\ lastIdx' = idx /\ scratch' = Used(d, b, k)
        /\ session' = Described(opens, d, EntryFor(trap, d, idx))
        /\ since' = [traps |-> {trap} \union (IF Cached(d, idx) THEN since.traps ELSE {}),
                     stayed |-> X, changed |-> Cached(d, idx) /\ since.changed]
    BY <1>9 DEF Info, Stayed
  <2>2. k \in 1 .. Len(s)
    BY <1>7, <1>9
  <2>3. s[k].node \in Node
    <3>1. s[k] \in Entry9
      BY <1>7, <2>2
    <3> QED
      BY <3>1 DEF Entry9
  <2>4. ListsIt(session', d)
    <3>1. EntryFor(trap, d, idx) = s[k].node
      BY <1>9 DEF EntryFor
    <3> HIDE DEF s, k, opens
    <3> QED
      BY <1>1, <1>4, <2>1, <2>3, <3>1, DescribedIs
  <2> DEFINE u == Used(d, b, k)
             p == Cookie[s[k].node]
             V(t) == Visible(t, X)
  <2> HIDE DEF b, start, X, s, k, opens, u, p, V
  <2>5. X \in SUBSET Children(tree, d) /\ (\A n \in X : Brings(b, n)) /\ BufferInv(b)
        /\ ((Cached(d, idx) => ~since.changed) => X = Children(tree, d) /\ Current(b, d))
    BY <1>5 DEF BeginsFrom
  <2>6. /\ BufferInv(u) /\ u.next = p
        /\ \A n \in Children(tree, d) : Brings(b, n) => Brings(u, n)
        /\ Current(b, d) => Current(u, d)
    BY <1>1, <1>6, <2>2, <2>5, UsedKeeps DEF u, p
  <2>7. \A n \in X : Brings(u, n)
    BY <2>5, <2>6
  <2>8. ASSUME NEW t \in Traps, since'.traps \subseteq {t}
        PROVE  /\ Cardinality(Passed(V(t), p)) <= idx
               /\ (Cached(d, idx) => ~since.changed) => Cardinality(Passed(V(t), p)) = idx
    <3>1. t = trap /\ (Cached(d, idx) => since.traps \subseteq {trap})
      BY <2>1, <2>8
    <3>2. /\ Cardinality(Passed(V(trap), p)) <= idx
          /\ (Cached(d, idx) => ~since.changed) => Cardinality(Passed(V(trap), p)) = idx
      BY <1>9, <3>1, CallFindsIt DEF V, p, s, k, X
    <3> QED
      BY <3>1, <3>2
  <2>9. ~since'.changed => (Cached(d, idx) => ~since.changed)
    BY <2>1
  <2>10. since'.stayed = X /\ scratch' = u /\ scratch'.next = p
    BY <2>1, <2>6 DEF u
  <2>11. since' \in [traps : SUBSET Traps, stayed : SUBSET Node, changed : BOOLEAN]
    <3>1. X \in SUBSET Node
      BY <2>5 DEF Children
    <3>2. Cached(d, idx) \in BOOLEAN
      BY DEF Cached
    <3>3. (Cached(d, idx) /\ since.changed) \in BOOLEAN
      BY <1>1, <3>2
    <3>4. ({trap} \union (IF Cached(d, idx) THEN since.traps ELSE {})) \in SUBSET Traps
      BY <1>1
    <3> QED
      BY <2>1, <3>1, <3>3, <3>4
  <2>12. /\ \A n \in since'.stayed : Brings(scratch, n)'
         /\ Current(u, d) => Current(scratch, d)'
         /\ \A t : Visible(t, since.stayed)' = V(t)
    <3>1. \A n : Brings(u, n) => Brings(scratch, n)'
      BY <1>2, <2>10 DEF Brings, EntryOf, NextRequest
    <3>2. Current(u, d) => Current(scratch, d)'
      BY <1>2, <2>10 DEF Current, EntryOf, Children
    <3>3. \A t : Visible(t, since.stayed)' = V(t)
      BY <1>2, <2>10 DEF Visible, Counts, V
    <3> QED
      BY <2>7, <2>10, <3>1, <3>2, <3>3
  <2>13. ListingInv'
    <3>1. ListsIt(session, lastCNID)'
      BY <2>1, <2>4 DEF ListsIt, Rooted9
    <3>2. since'.stayed \in SUBSET Children(tree', lastCNID') /\ \A n \in since'.stayed : Brings(scratch, n)'
      BY <1>2, <2>1, <2>5, <2>10, <2>12
    <3>3. \A t \in Traps : since'.traps \subseteq {t} =>
            Cardinality(Passed(Visible(t, since.stayed)', scratch'.next)) <= lastIdx'
      BY <2>1, <2>8, <2>10, <2>12
    <3>4. ASSUME ~since'.changed
          PROVE  /\ since'.stayed = Children(tree', lastCNID') /\ Current(scratch, lastCNID)'
                 /\ \A t \in Traps : since'.traps \subseteq {t} =>
                      Cardinality(Passed(Visible(t, since.stayed)', scratch'.next)) = lastIdx'
      <4>1. since'.stayed = Children(tree', lastCNID')
        BY <1>2, <2>1, <2>5, <2>9, <2>10, <3>4
      <4>2. Current(scratch, lastCNID)'
        <5>1. Current(scratch, d)'
          BY <2>5, <2>6, <2>9, <2>12, <3>4
        <5> QED
          BY <2>1, <5>1 DEF Current
      <4>3. \A t \in Traps : since'.traps \subseteq {t} =>
              Cardinality(Passed(Visible(t, since.stayed)', scratch'.next)) = lastIdx'
        BY <2>1, <2>8, <2>9, <2>10, <2>12, <3>4
      <4> QED
        BY <4>1, <4>2, <4>3
    <3> QED
      BY <3>1, <3>2, <3>3, <3>4 DEF ListingInv
  <2>14. IsTree(tree') /\ Located(tree') /\ Rooted9(session') /\ BufferInv(scratch')
         /\ lastCNID' \in Dirs \union {NoFile} /\ lastIdx' \in 0 .. MaxIndex
    BY <1>1, <1>2, <2>1, <2>4, <2>6, <2>10 DEF ListsIt
  <2> QED
    BY <2>11, <2>13, <2>14 DEF FoldersInv
<1> QED
  BY <1>8, <1>9

LEMMA NoInfoKeeps ==
  ASSUME FoldersInv, NEW d \in Dirs, NEW idx \in Indices, NoInfo(d, idx)
  PROVE  FoldersInv'
<1>1. /\ lastCNID' = NoFile /\ lastIdx' = 0 /\ since' = NotListed /\ scratch' = scratch /\ tree' = tree
      /\ session' = Clunk9(session, ListFid)
  BY DEF NoInfo, Invalid
<1>2. IsTree(tree) /\ Located(tree) /\ Rooted9(session) /\ BufferInv(scratch) /\ MaxIndex \in Nat
  BY FoldersAssumption DEF FoldersInv
<1>3. Rooted9(session')
  BY <1>1, <1>2, FidsAre, ClunkedIs
<1>4. since' \in [traps : SUBSET Traps, stayed : SUBSET Node, changed : BOOLEAN]
  BY <1>1 DEF NotListed
<1>5. IsTree(tree') /\ Located(tree') /\ BufferInv(scratch') /\ lastIdx' \in 0 .. MaxIndex
  BY <1>1, <1>2
<1> QED
  BY <1>1, <1>3, <1>4, <1>5 DEF FoldersInv

LEMMA FoldersInvNext ==
  ASSUME FoldersInv, [FoldersNext]_foldersVars, MaxNames <= ChunkMax
  PROVE  FoldersInv'
<1>1. CASE OtherCalls
  BY <1>1, OtherCallsKeep
<1>2. ASSUME NEW trap \in Traps, NEW d \in Dirs, NEW idx \in Indices, Info(trap, d, idx)
      PROVE  FoldersInv'
  BY <1>2, InfoKeeps
<1>3. ASSUME NEW d \in Dirs, NEW idx \in Indices, NoInfo(d, idx)
      PROVE  FoldersInv'
  BY <1>3, NoInfoKeeps
<1>4. CASE UNCHANGED foldersVars
  <2>1. /\ tree' = tree /\ session' = session /\ lastCNID' = lastCNID /\ lastIdx' = lastIdx
        /\ scratch' = scratch /\ since' = since
    BY <1>4 DEF foldersVars, fidVars, listVars
  <2>2. ListingInv => ListingInv'
    BY <2>1 DEF ListingInv, ListsIt, Rooted9, Brings, EntryOf, NextRequest, Visible, Counts, Current, Children
  <2> QED
    BY <2>1, <2>2 DEF FoldersInv
<1> QED
  BY <1>1, <1>2, <1>3, <1>4 DEF FoldersNext

(* So what it finds is as it should be. *)
LEMMA FoundSo ==
  ASSUME FoldersInv, NEW trap \in Traps, NEW d \in Dirs, NEW idx \in Indices,
         Cached(d, idx) => since.traps \subseteq {trap}
  PROVE  LET e == EntryFor(trap, d, idx)
             V == Visible(trap, Stayed(d, idx))
         IN  /\ e = NoFile => Cardinality(V) < idx
             /\ e # NoFile => Cardinality(Before(V, e)) < idx
             /\ (Cached(d, idx) => ~since.changed) => FoundAt(trap, d, idx)
<1> DEFINE s == Coming(d, idx)
           k == FastForward(trap, d, idx)
           e == EntryFor(trap, d, idx)
           V == Visible(trap, Stayed(d, idx))
<1>1. /\ k \in 0 .. Len(s)
      /\ k = 0 => Cardinality(V) < idx
      /\ k # 0 => Cardinality(Before(V, s[k].node)) < idx
      /\ k # 0 /\ (Cached(d, idx) => ~since.changed) =>
           s[k].node \in V /\ Cardinality(Before(V, s[k].node)) = idx - 1
  BY CallFindsIt
<1>2. e = IF k = 0 THEN NoFile ELSE s[k].node
  BY DEF EntryFor
<1>3. (Cached(d, idx) => ~since.changed) => V = Visible(trap, Children(tree, d))
  <2>1. BeginsFrom(d, idx, Listing(d, idx).buffer, Listing(d, idx).idx, Stayed(d, idx))
    BY CallBegins
  <2>2. (Cached(d, idx) => ~since.changed) => Stayed(d, idx) = Children(tree, d)
    BY <2>1 DEF BeginsFrom
  <2> QED
    BY <2>2
<1>4. k # 0 => s[k].node # NoFile
  <2>1. tree \in [Node -> Place] /\ BufferInv(Listing(d, idx).buffer) /\ s = Readable(d, Listing(d, idx).buffer)
    BY CallBegins DEF BeginsFrom, FoldersInv, IsTree, Coming
  <2>2. s \in Seq(Entry9)
    BY <2>1, ReadableIs
  <2> HIDE DEF s, k
  <2>3. k # 0 => s[k] \in Entry9
    BY <1>1, <2>2
  <2> QED
    BY <2>3, NinePAssumption DEF Entry9
<1> HIDE DEF s, k, e, V
<1>5. (e = NoFile <=> k = 0) /\ (k # 0 => e = s[k].node)
  BY <1>2, <1>4
<1>6. ASSUME Cached(d, idx) => ~since.changed PROVE FoundAt(trap, d, idx)
  <2>1. IF e = NoFile THEN Cardinality(V) < idx ELSE e \in V /\ Cardinality(Before(V, e)) = idx - 1
    BY <1>1, <1>5, <1>6
  <2> QED
    BY <1>3, <1>6, <2>1 DEF FoundAt, e
<1> QED
  BY <1>1, <1>5, <1>6 DEF e, V

LEMMA FoldersInOrder == FoldersInv => ListingInOrder /\ OneKindAsRelisted
<1> SUFFICES ASSUME FoldersInv PROVE ListingInOrder /\ OneKindAsRelisted
  OBVIOUS
<1>1. FoldersTypeOK
  BY DEF FoldersInv, FoldersTypeOK, BufferInv
<1>2. ListingKept
  BY DEF FoldersInv, ListingInv, ListsIt, ListingKept
<1>3. NoneMissed
  <2> SUFFICES ASSUME NEW trap \in Traps, NEW d \in Dirs, NEW idx \in Indices, Served(trap, d, idx)
               PROVE  LET e == EntryFor(trap, d, idx)
                          stayed == Visible(trap, since.stayed)
                      IN  Cardinality(IF e = NoFile THEN stayed ELSE Before(stayed, e)) < idx
    BY DEF NoneMissed
  <2>1. Cached(d, idx) /\ since.traps \subseteq {trap} /\ Stayed(d, idx) = since.stayed
    BY DEF Served, Stayed
  <2> QED
    BY <2>1, FoundSo
<1>4. OneKindAsRelisted
  <2> SUFFICES ASSUME NEW trap \in Traps, NEW d \in Dirs, NEW idx \in Indices,
                      Cached(d, idx) => Served(trap, d, idx) /\ ~since.changed
               PROVE  FoundAt(trap, d, idx)
    BY DEF OneKindAsRelisted
  <2> QED
    BY FoundSo DEF Served
<1> QED
  BY <1>1, <1>2, <1>3, <1>4 DEF ListingInOrder

LEMMA FoldersInvAlways ==
  ASSUME MaxNames <= ChunkMax
  PROVE  FoldersSpec => []FoldersInv
  BY FoldersInvInit, FoldersInvNext, PTL DEF FoldersSpec

(* FidTable: in any sequence of calls of 9p.c a tracked fid can be used     *)
(* anew, and a walk ends where its path says (WALK9, openfids).             *)
THEOREM FidsAlwaysReusable ==
  ASSUME MaxNames <= ChunkMax
  PROVE  FoldersSpec => []FidsReusable
<1>1. FoldersInv => FidsReusable
  BY SoundIsReusable DEF FoldersInv, IsTree, Rooted9
<1> QED
  BY <1>1, FoldersInvAlways, PTL

(* fsGetFileInfo: the listing that is kept between calls stays that of its  *)
(* directory, on fid 22, and skips no file that stays while files come and  *)
(* go.                                                                      *)
THEOREM ListingAlwaysInOrder ==
  ASSUME MaxNames <= ChunkMax
  PROVE  FoldersSpec => []ListingInOrder
BY FoldersInOrder, FoldersInvAlways, PTL

(* fsGetFileInfo: while nothing comes or goes, calls of one kind find in    *)
(* the kept listing what the directory has at their index.                  *)
THEOREM OneKindAlwaysAsRelisted ==
  ASSUME MaxNames <= ChunkMax
  PROVE  FoldersSpec => []OneKindAsRelisted
BY FoldersInOrder, FoldersInvAlways, PTL

-----------------------------------------------------------------------------
(* Catalog: types, in the state of a browse and of the call that it is for. *)

Component9 == [name : Name \union {NoName, DotDot}, expect : Nodes]
Record == [dir : Nodes, name : Name \union {NoName}]
Searching == {"walk", "search", "enter", "back"}
Browsing == pc \in Searching \union {"found"}

BrowseTyped ==
  /\ comps \in Seq(Component9) /\ progress \in 0 .. Len(comps)
  /\ qids \in Seq(Node) /\ Len(qids) = progress
  /\ back \in 0 .. ChunkMax /\ progress + back <= Len(comps)
  /\ (pc # "back" => back = 0)
  /\ tip \in {RootFid, fid} /\ (pc = "back" => tip = fid)
  /\ pc \in Searching \union {"idle", "found", "returned", "hung"}
  /\ Browsing => comps # <<>> /\ ~IsClimb(comps) /\ result = "none"
  /\ pc \in Searching => progress < Len(comps)
  /\ pc = "found" => progress = Len(comps)
  /\ pc = "enter" => comps[progress + 1].expect \in Node

CallTyped ==
  /\ asked.cnid \in Nodes /\ asked.rel \in Seq(Name \union {DotDot})
  /\ child \in Node /\ newName \in Name \union {NoName}
  /\ op \in {"rename", "createIn", "dupcheck"} => newName \in Name
  /\ fid = (IF pc = "idle" THEN RootFid ELSE IF op = "dupcheck" THEN 12 ELSE 10)
  /\ op = "create" /\ ~Found => Sensible(asked.cnid, asked.rel)
  /\ result \in Node \union Errors
  /\ world \in Worlds /\ calls \in Nat /\ moves \in Nat

TypesInv ==
  /\ IsTree(tree) /\ db \in [Node -> Record]
  /\ Sound(session) /\ session.opened = {} /\ session.at[RootFid] = Root
  /\ BrowseTyped /\ CallTyped

(* What holds of 0, and of n if of n - 1, holds of all. *)
LEMMA UpTo ==
  ASSUME NEW N \in Nat, NEW P, 0 \in P, \A n \in 1 .. N : n - 1 \in P => n \in P
  PROVE  \A n \in 0 .. N : n \in P
<1> DEFINE bad == {n \in 0 .. N : n \notin P}
<1> SUFFICES ASSUME bad # {} PROVE FALSE
  OBVIOUS
<1>1. PICK n \in bad : \A m \in bad : n <= m
  <2>1. bad \in SUBSET Nat
    OBVIOUS
  <2> HIDE DEF bad
  <2> QED
    BY <2>1, LeastExists
<1>2. n \in 0 .. N /\ n \notin P /\ n # 0
  OBVIOUS
<1>3. n - 1 \in 0 .. N /\ n - 1 \notin bad /\ n \in 1 .. N
  BY <1>1, <1>2
<1> QED
  BY <1>2, <1>3

(* A path of parents longer than there are nodes has gone around.           *)
LEMMA GoneAround ==
  ASSUME NEW up \in [0 .. Cardinality(Node) -> Node], NEW parent,
         \A i \in 1 .. Cardinality(Node) : up[i] = parent[up[i - 1]]
  PROVE  \E S \in SUBSET Node :
           /\ S # {} /\ S \subseteq {up[i] : i \in 0 .. Cardinality(Node)}
           /\ \A n \in S : parent[n] \in S
<1> DEFINE N == Cardinality(Node)
<1>1. N \in Nat /\ IsFiniteSet(Node)
  BY TreeAssumption, FS_CardinalityType
<1>2. IsFiniteSet(0 .. N) /\ Cardinality(0 .. N) = N + 1
  BY <1>1, FS_Interval
<1> HIDE DEF N
<1>3. PICK x \in 0 .. N, y \in 0 .. N : x # y /\ up[x] = up[y]
  <2> DEFINE f == [n \in 0 .. N |-> up[n]]
  <2>1. Cardinality(Node) < Cardinality(0 .. N)
    BY <1>1, <1>2 DEF N
  <2>2. f \in [0 .. N -> Node]
    BY DEF N
  <2> HIDE DEF f
  <2>3. PICK x \in 0 .. N, y \in 0 .. N : x # y /\ f[x] = f[y]
    BY <1>1, <1>2, <2>1, <2>2, FS_PigeonHole
  <2> QED
    BY <2>3 DEF f
<1>4. PICK i, j \in 0 .. N : i < j /\ up[i] = up[j]
  <2>1. CASE x < y
    BY <1>3, <2>1
  <2>2. CASE y < x
    BY <1>3, <2>2
  <2> QED
    BY <1>1, <1>3, <2>1, <2>2
<1> DEFINE S == {up[k] : k \in i .. j - 1}
<1>5. up[i] \in S
  BY <1>4
<1>6. \A n \in S : n \in Node /\ n \in {up[k] : k \in 0 .. N}
  <2>1. \A k \in i .. j - 1 : k \in 0 .. N
    BY <1>1
  <2>2. \A k \in 0 .. N : up[k] \in Node
    BY DEF N
  <2> QED
    BY <2>1, <2>2
<1>7. ASSUME NEW n \in S PROVE parent[n] \in S
  <2>1. PICK k \in i .. j - 1 : n = up[k]
    OBVIOUS
  <2>2. k + 1 \in 1 .. N /\ (k + 1) - 1 = k
    BY <1>1, <2>1
  <2>3. up[k + 1] = parent[up[k]]
    BY <2>2 DEF N
  <2>4. CASE k = j - 1
    BY <1>4, <1>5, <2>1, <2>3, <2>4
  <2>5. CASE k # j - 1
    BY <2>1, <2>3, <2>5
  <2> QED
    BY <2>4, <2>5
<1> HIDE DEF S
<1> QED
  BY <1>5, <1>6, <1>7 DEF N

-----------------------------------------------------------------------------
(* Trees *)

LEMMA RenamedIsTree ==
  ASSUME NEW t, IsTree(t), NEW d, NEW old, NEW new \in Name, Renames(t, d, old, new)
  PROVE  IsTree(Renameat9(t, d, old, new))
<1>1. PICK n : n \in Named(t, d, old)
  BY DEF Renames
<1>2. d \in Dirs /\ d \in Node
  BY NinePAssumption DEF Renames
<1>3. /\ Named(t, d, old) = {n} /\ n \in Node \ {Root} /\ t[n] = [dir |-> d, name |-> old]
      /\ Exists(t, n)
  BY <1>1, <1>2, NamedIsOne
<1> DEFINE u == Renameat9(t, d, old, new)
           p == [dir |-> d, name |-> new]
           gone == Named(t, d, new) \ {n}
<1>4. \A x \in Node : u[x] = IF x = n THEN p ELSE IF x \in gone THEN Nowhere ELSE t[x]
  BY <1>3 DEF Renameat9
<1>5. /\ t \in [Node -> Place] /\ p \in Place /\ Nowhere \in Place /\ Nowhere.dir = NoFile
      /\ t[Root] = AtRoot /\ Root \in Node /\ p # Nowhere /\ p.dir = d /\ p.name = new
      /\ t[n].dir = d
  BY <1>2, <1>3, NinePAssumption DEF IsTree, Place, Nowhere
<1>6. u \in [Node -> Place]
  BY <1>4, <1>5 DEF Renameat9
<1>7. /\ \A o \in gone : o \in Node \ {Root} /\ Children(t, o) = {}
      /\ \A o \in Node \ {Root} : t[o] = p => o = n \/ o \in gone
  <2>1. \A o \in gone : o \in Node \ {Root} /\ Children(t, o) = {}
    BY <1>3 DEF Renames, Named, Children
  <2>2. \A o \in Node \ {Root} : t[o] = p => o = n \/ o \in gone
    BY <1>5 DEF Named, Children
  <2> QED
    BY <2>1, <2>2
<1> HIDE DEF u, p, gone
<1>8. u[Root] = AtRoot
  BY <1>3, <1>4, <1>5, <1>7
<1>9. \A x \in Node : Exists(t, x) /\ x \notin gone => Exists(u, x)
  BY <1>4, <1>5 DEF Exists
<1>10. ASSUME NEW x \in Node \ {Root}, Exists(u, x)
       PROVE  u[x].dir \in Dirs /\ Exists(u, u[x].dir) /\ u[x].name \in Name
  <2>1. x \notin gone \/ x = n
    BY <1>4, <1>10 DEF Exists
  <2>2. Exists(t, x) /\ u[x].dir = t[x].dir
    BY <1>3, <1>4, <1>5, <1>10, <2>1 DEF Exists
  <2>3. t[x].dir \in Dirs /\ Exists(t, t[x].dir) /\ t[x].name \in Name
    BY <2>2 DEF IsTree
  <2>4. t[x].dir \notin gone
    BY <1>7 DEF Children
  <2>5. u[x].name \in Name
    BY <1>4, <1>5, <2>1, <2>3
  <2> QED
    BY <1>9, <2>2, <2>3, <2>4, <2>5, NinePAssumption
<1>11. ASSUME NEW x \in Node \ {Root}, NEW y \in Node \ {Root}, Exists(u, x), u[y] = u[x]
       PROVE  x = y
  <2>1. (x \notin gone \/ x = n) /\ (y \notin gone \/ y = n)
    BY <1>4, <1>11 DEF Exists
  <2>2. CASE x = n \/ y = n
    BY <1>4, <1>7, <1>11, <2>1, <2>2
  <2>3. CASE x # n /\ y # n
    <3>1. Exists(t, x) /\ t[y] = t[x]
      BY <1>4, <1>11, <2>1, <2>3 DEF Exists
    <3> QED
      BY <3>1 DEF IsTree
  <2> QED
    BY <2>2, <2>3
<1>12. ASSUME NEW S \in (SUBSET (Node \ {Root})) \ {{}} PROVE \E x \in S : u[x].dir \notin S
  <2>1. PICK x \in S : t[x].dir \notin S
    BY DEF IsTree
  <2>2. x \in Node /\ NoFile \notin S
    BY NinePAssumption
  <2>3. u[x].dir = t[x].dir \/ u[x].dir = NoFile
    BY <1>3, <1>4, <1>5, <2>2
  <2> QED
    BY <2>1, <2>2, <2>3
<1> QED
  BY <1>6, <1>8, <1>10, <1>11, <1>12 DEF IsTree, u

-----------------------------------------------------------------------------
(* The database *)

LEMMA UpwardsIs ==
  ASSUME db \in [Node -> Record], NEW c \in Nodes
  PROVE  /\ Cardinality(Node) \in Nat
         /\ Upwards(c) \in [0 .. Cardinality(Node) -> Nodes] /\ Upwards(c)[0] = c
         /\ \A i \in 1 .. Cardinality(Node) :
              LET n == Upwards(c)[i - 1]
              IN  Upwards(c)[i] = IF n \in {Root, NoFile} THEN n ELSE db[n].dir
<1> DEFINE N == Cardinality(Node)
           up(n) == IF n \in {Root, NoFile} THEN n ELSE db[n].dir
           step == [i \in 1 .. N |-> [n \in Nodes |-> up(n)]]
           is(g) == g = [i \in 0 .. N |->
                           IF i = 0 THEN c
                           ELSE LET n == g[i - 1] IN IF n \in {Root, NoFile} THEN n ELSE db[n].dir]
<1>0. N \in Nat
  BY TreeAssumption, FS_CardinalityType
<1> HIDE DEF N
<1>1. step \in [1 .. N -> [Nodes -> Nodes]]
  <2>1. \A n \in Nodes : up(n) \in Nodes
    BY DEF Nodes, Record
  <2> QED
    BY <2>1
<1>2. PICK f : Follows(f, Nodes, c, step, N)
  <2> HIDE DEF step
  <2> QED
    BY <1>0, <1>1, RecursionExists
<1>3. is(f)
  <2>1. ASSUME NEW i \in 0 .. N
        PROVE  f[i] = IF i = 0 THEN c ELSE up(f[i - 1])
    <3>1. CASE i = 0
      BY <1>2, <3>1 DEF Follows
    <3>2. CASE i # 0
      <4>1. i \in 1 .. N /\ i - 1 \in 0 .. N
        BY <1>0, <3>2
      <4>2. f[i - 1] \in Nodes /\ f[i] = step[i][f[i - 1]]
        BY <1>2, <4>1 DEF Follows
      <4> QED
        BY <3>2, <4>1, <4>2
    <3> QED
      BY <3>1, <3>2
  <2>2. f = [i \in 0 .. N |-> f[i]]
    BY <1>2 DEF Follows
  <2> QED
    BY <2>1, <2>2
<1> DEFINE s == CHOOSE g : is(g)
<1>4. is(s)
  <2> HIDE DEF is
  <2> QED
    BY <1>3
<1>5. s = Upwards(c)
  BY DEF Upwards, N
<1> HIDE DEF s
<1>6. s[0] = c /\ \A i \in 1 .. N : s[i] = up(s[i - 1])
  BY <1>0, <1>4
<1>7. \A i \in 0 .. N : s[i] \in Nodes
  <2>1. \A i \in 1 .. N : s[i - 1] \in Nodes => s[i] \in Nodes
    BY <1>6 DEF Nodes, Record
  <2> QED
    BY <1>0, <1>6, <2>1, StaysIn, Zenon
<1>8. s \in [0 .. N -> Nodes]
  BY <1>4, <1>7
<1> QED
  BY <1>0, <1>5, <1>6, <1>8 DEF N

(* No set of files is closed under the noted parents, without the root. *)
Grounded(d) == \A S \in (SUBSET (Node \ {Root})) \ {{}} : \E n \in S : d[n].dir \notin S

LEMMA GroundedEnds ==
  ASSUME db \in [Node -> Record], Grounded(db), NEW c \in Nodes
  PROVE  ~Endless(c)
<1> DEFINE N == Cardinality(Node)
           up == Upwards(c)
<1>1. /\ N \in Nat /\ up \in [0 .. N -> Nodes]
      /\ \A i \in 1 .. N : up[i] = IF up[i - 1] \in {Root, NoFile} THEN up[i - 1] ELSE db[up[i - 1]].dir
  BY UpwardsIs
<1> SUFFICES ASSUME Endless(c) PROVE FALSE
  OBVIOUS
<1>2. \A i \in 0 .. N : up[i] \in Node \ {Root}
  BY <1>1 DEF Endless, Ends, Nodes
<1> HIDE DEF up
<1>3. \A i \in 1 .. N : up[i] = [n \in Node |-> db[n].dir][up[i - 1]]
  <2> TAKE i \in 1 .. N
  <2>1. i - 1 \in 0 .. N
    BY <1>1
  <2>2. up[i - 1] \in Node /\ up[i - 1] \notin {Root, NoFile}
    BY <1>2, <2>1, NinePAssumption
  <2> QED
    BY <1>1, <2>2
<1>4. PICK S \in SUBSET Node :
        /\ S # {} /\ S \subseteq {up[i] : i \in 0 .. N}
        /\ \A n \in S : [m \in Node |-> db[m].dir][n] \in S
  <2>1. up \in [0 .. N -> Node]
    BY <1>1, <1>2
  <2> DEFINE parent == [m \in Node |-> db[m].dir]
  <2>2. \A i \in 1 .. N : up[i] = parent[up[i - 1]]
    BY <1>3
  <2> HIDE DEF parent
  <2>3. \E S \in SUBSET Node :
          /\ S # {} /\ S \subseteq {up[i] : i \in 0 .. N}
          /\ \A n \in S : parent[n] \in S
    BY <2>1, <2>2, GoneAround
  <2> QED
    BY <2>3 DEF parent
<1>5. S \in (SUBSET (Node \ {Root})) \ {{}} /\ \A n \in S : db[n].dir \in S
  BY <1>2, <1>4
<1> QED
  BY <1>5 DEF Grounded

(* setPath: from the root down each is the parent of the next.              *)
PathIs(c, path) ==
  /\ path \in Seq(Component9)
  /\ \A i \in 1 .. Len(path) :
       LET n == path[i].expect
       IN  /\ n \in Node \ {Root} /\ path[i].name = db[n].name
           /\ db[n].dir = IF i = 1 THEN Root ELSE path[i - 1].expect
  /\ c = IF path = <<>> THEN Root ELSE path[Len(path)].expect

LEMMA PathOfIs ==
  ASSUME db \in [Node -> Record], NEW c \in Nodes, ~Endless(c), ~BadCNID(c)
  PROVE  PathIs(c, PathOf(c))
<1> DEFINE N == Cardinality(Node)
           up == Upwards(c)
           depth == Min(Ends(c))
           at(i) == up[depth - i]
           path == PathOf(c)
<1>1. /\ N \in Nat /\ up \in [0 .. N -> Nodes] /\ up[0] = c
      /\ \A i \in 1 .. N : up[i] = IF up[i - 1] \in {Root, NoFile} THEN up[i - 1] ELSE db[up[i - 1]].dir
  BY UpwardsIs
<1>2. Ends(c) \in SUBSET Nat /\ Ends(c) # {} /\ Ends(c) = {i \in 0 .. N : up[i] \in {Root, NoFile}}
  BY <1>1 DEF Ends, Endless
<1>3. depth \in Ends(c) /\ \A i \in Ends(c) : depth <= i
  BY <1>2, LeastIs
<1>4. up[depth] # NoFile
  BY DEF BadCNID
<1>5. path = [i \in 1 .. depth |-> [name |-> db[at(i)].name, expect |-> at(i)]]
  BY DEF PathOf
<1> HIDE DEF depth, up, path
<1>6. depth \in 0 .. N /\ up[depth] = Root
  BY <1>2, <1>3, <1>4
<1>7. \A i \in 0 .. depth - 1 : up[i] \in Node \ {Root} /\ up[i + 1] = db[up[i]].dir
  <2> TAKE i \in 0 .. depth - 1
  <2>1. i \in 0 .. N /\ i \notin Ends(c) /\ i + 1 \in 1 .. N /\ (i + 1) - 1 = i
    BY <1>1, <1>3, <1>6
  <2>2. up[i] \in Node \ {Root}
    BY <1>1, <1>2, <2>1 DEF Nodes
  <2>3. up[i] \notin {Root, NoFile}
    BY <1>2, <2>1
  <2> QED
    BY <1>1, <2>1, <2>2, <2>3
<1>8. \A i \in 1 .. depth : path[i].expect = at(i) /\ path[i].name = db[at(i)].name
  BY <1>5
<1>9. \A i \in 1 .. depth : at(i) \in Node \ {Root} /\ db[at(i)].dir = IF i = 1 THEN Root ELSE at(i - 1)
  <2> TAKE i \in 1 .. depth
  <2>1. depth - i \in 0 .. depth - 1 /\ (depth - i) + 1 = depth - (i - 1)
    BY <1>6
  <2>2. up[(depth - i) + 1] = db[at(i)].dir /\ at(i) \in Node \ {Root}
    BY <1>7, <2>1
  <2>3. i = 1 => (depth - i) + 1 = depth
    BY <1>6
  <2> QED
    BY <1>6, <2>1, <2>2, <2>3
<1>10. Len(path) = depth /\ path \in Seq(Component9)
  <2>1. \A i \in 1 .. depth : [name |-> db[at(i)].name, expect |-> at(i)] \in Component9
    BY <1>9 DEF Component9, Record, Nodes
  <2> HIDE DEF at
  <2> QED
    BY <1>5, <1>6, <2>1
<1>11. \A i \in 1 .. Len(path) :
         LET n == path[i].expect
         IN  /\ n \in Node \ {Root} /\ path[i].name = db[n].name
             /\ db[n].dir = IF i = 1 THEN Root ELSE path[i - 1].expect
  <2> TAKE i \in 1 .. Len(path)
  <2>1. i \in 1 .. depth /\ (i # 1 => i - 1 \in 1 .. depth)
    BY <1>10
  <2> HIDE DEF at
  <2> QED
    BY <1>8, <1>9, <2>1
<1>12. c = IF path = <<>> THEN Root ELSE path[Len(path)].expect
  <2>1. CASE depth = 0
    <3>1. path = <<>> /\ c = Root
      BY <1>1, <1>6, <1>10, <2>1
    <3> QED
      BY <3>1
  <2>2. CASE depth # 0
    <3>1. path # <<>> /\ Len(path) = depth /\ depth \in 1 .. depth /\ depth - depth = 0
      BY <1>6, <1>10, <2>2
    <3>2. path[depth].expect = up[0]
      BY <1>8, <3>1
    <3> QED
      BY <1>1, <3>1, <3>2
  <2> QED
    BY <2>1, <2>2
<1> QED
  BY <1>10, <1>11, <1>12 DEF PathIs, path

(* A set of nodes up to the root, in which all is noted where it is.        *)
Chain(T) ==
  T \subseteq Node /\ \A n \in T : n = Root \/ (db[n].dir = tree[n].dir /\ db[n].dir \in T)
Rooted(c) == \E T : Chain(T) /\ c \in T

LEMMA RootedIsConnected ==
  ASSUME db \in [Node -> Record], Grounded(db), NEW c, Rooted(c)
  PROVE  Connected(c)
<1>1. PICK T : Chain(T) /\ c \in T
  BY DEF Rooted
<1>2. c \in Nodes /\ c \in Node
  BY <1>1 DEF Chain, Nodes
<1> DEFINE N == Cardinality(Node)
           up == Upwards(c)
<1>3. /\ N \in Nat /\ up \in [0 .. N -> Nodes] /\ up[0] = c
      /\ \A i \in 1 .. N : up[i] = IF up[i - 1] \in {Root, NoFile} THEN up[i - 1] ELSE db[up[i - 1]].dir
  BY <1>2, UpwardsIs
<1>4. ~Endless(c)
  BY <1>2, GroundedEnds
<1>5. DOMAIN up = 0 .. N
  BY <1>3
<1> HIDE DEF N, up
<1>6. \A i \in 0 .. N : up[i] \in T
  <2>1. \A i \in 1 .. N : up[i - 1] \in T => up[i] \in T
    BY <1>1, <1>3 DEF Chain
  <2> QED
    BY <1>1, <1>3, <2>1, StaysIn, Zenon
<1>7. ASSUME NEW i \in 0 .. N
      PROVE  LET n == up[i] IN n = Root \/ (n # NoFile /\ db[n].dir = tree[n].dir)
  BY <1>1, <1>6, NinePAssumption DEF Chain
<1> QED
  BY <1>4, <1>5, <1>7 DEF Connected, up

LEMMA ConnectedIsRooted ==
  ASSUME db \in [Node -> Record], NEW c \in Nodes, Connected(c)
  PROVE  Rooted(c)
<1> DEFINE N == Cardinality(Node)
           up == Upwards(c)
<1>1. /\ N \in Nat /\ up \in [0 .. N -> Nodes] /\ up[0] = c
      /\ \A i \in 1 .. N : up[i] = IF up[i - 1] \in {Root, NoFile} THEN up[i - 1] ELSE db[up[i - 1]].dir
  BY UpwardsIs
<1>2. \A i \in 0 .. N : up[i] = Root \/ (up[i] # NoFile /\ db[up[i]].dir = tree[up[i]].dir)
  BY <1>1 DEF Connected
<1>3. PICK e \in 0 .. N : up[e] = Root
  <2>1. PICK e \in Ends(c) : TRUE
    BY DEF Connected, Endless
  <2> QED
    BY <1>1, <1>2, <2>1 DEF Ends
<1> HIDE DEF N, up
<1>4. up[N] = Root
  <2> DEFINE P == {i \in 0 .. N - e : up[e + i] = Root}
  <2>1. N - e \in Nat /\ 0 \in P
    BY <1>1, <1>3
  <2>2. ASSUME NEW i \in 1 .. N - e, i - 1 \in P PROVE i \in P
    <3>1. e + i \in 1 .. N /\ (e + i) - 1 = e + (i - 1)
      BY <1>1
    <3> QED
      BY <1>1, <2>2, <3>1
  <2> HIDE DEF P
  <2>3. \A i \in 0 .. N - e : i \in P
    BY <2>1, <2>2, UpTo
  <2>4. N - e \in P /\ e + (N - e) = N
    BY <1>1, <2>1, <2>3
  <2> QED
    BY <2>4 DEF P
<1> DEFINE T == {up[i] : i \in 0 .. N}
<1>5. ASSUME NEW n \in T
      PROVE  n \in Node /\ (n = Root \/ (db[n].dir = tree[n].dir /\ db[n].dir \in T))
  <2>1. PICK i \in 0 .. N : n = up[i]
    OBVIOUS
  <2>2. n \in Node
    BY <1>1, <1>2, <2>1, NinePAssumption DEF Nodes
  <2>3. CASE n = Root
    BY <2>2, <2>3
  <2>4. CASE n # Root
    <3>1. n # NoFile /\ db[n].dir = tree[n].dir
      BY <1>2, <2>1, <2>4
    <3>2. i # N
      BY <1>4, <2>1, <2>4
    <3>3. i + 1 \in 1 .. N /\ i + 1 \in 0 .. N /\ (i + 1) - 1 = i
      BY <1>1, <3>2
    <3>4. up[i + 1] = db[n].dir
      BY <1>1, <2>1, <2>4, <3>1, <3>3
    <3> QED
      BY <2>2, <3>1, <3>3, <3>4
  <2> QED
    BY <2>3, <2>4
<1>6. c \in T
  BY <1>1
<1> HIDE DEF T
<1>7. Chain(T)
  BY <1>5 DEF Chain
<1> QED
  BY <1>6, <1>7 DEF Rooted

-----------------------------------------------------------------------------
(* The fids between requests: nothing is open, and the root's fid stays. *)
Ready(s) == Sound(s) /\ s.opened = {} /\ s.at[RootFid] = Root

LEMMA WalkKeeps ==
  ASSUME NEW t \in [Node -> Place], NEW s, Ready(s), NEW fd \in Fid, NEW newfid \in Fid \ {RootFid},
         NEW S, NEW names \in Seq(S), Len(names) <= ChunkMax
  PROVE  LET r == Walk9(t, s, fd, newfid, names)
         IN  /\ Ready(r.s) /\ \A f \in Fid \ {newfid} : r.s.at[f] = s.at[f]
             /\ r.qids \in Seq(Node) /\ Len(r.qids) <= Len(names)
<1> DEFINE p == Prepared(s, fd, newfid)
           r == Walk9(t, s, fd, newfid, names)
<1>0. Sound(s) /\ s.opened = {} /\ s.at[RootFid] = Root
  BY DEF Ready
<1>1. Sound(r.s) /\ \A f \in Fid \ {newfid} : r.s.at[f] = s.at[f]
  BY <1>0, WalkSound
<1>2. s \in Session /\ newfid \in Fid
  BY <1>0 DEF Sound
<1>3. WalkEnds(t, s, fd, newfid, names)
  BY <1>2, WalkOutcome
<1>4. p \in Session /\ p.opened = {}
  <2>1. /\ p \in Session
        /\ p.opened = IF Tracked(newfid) /\ fd # newfid /\ newfid \in s.openfids
                      THEN s.opened \ {newfid} ELSE s.opened
    BY <1>2, PreparedTyped, Zenon
  <2> HIDE DEF p
  <2> QED
    BY <1>0, <2>1
<1>5. r.s.opened = {}
  <2> DEFINE to == Route(t, p.at[fd], names)[Len(names)]
             q == [p EXCEPT !.at[newfid] = to]
  <2>1. r.err \in BOOLEAN /\ (r.err => r.s = p) /\ (~r.err => r.s = Noted(q, newfid))
    BY <1>3 DEF WalkEnds
  <2>2. q.opened = p.opened
    BY <1>4 DEF Session
  <2>3. Noted(q, newfid).opened = q.opened
    <3>1. q = [at |-> q.at, opened |-> q.opened, openfids |-> q.openfids]
      <4> HIDE DEF p, to
      <4> QED
        BY <1>4 DEF Session
    <3> HIDE DEF q
    <3> QED
      BY <3>1 DEF Noted
  <2> HIDE DEF q, p, r
  <2> QED
    BY <1>4, <2>1, <2>2, <2>3
<1>6. r.s.at[RootFid] = Root
  BY <1>0, <1>1, NinePAssumption
<1>7. r.qids \in Seq(Node) /\ Len(r.qids) <= Len(names)
  BY <1>3 DEF WalkEnds
<1> HIDE DEF r
<1>8. Ready(r.s)
  BY <1>1, <1>5, <1>6 DEF Ready
<1> QED
  BY <1>1, <1>7, <1>8 DEF r

(* A walk from a fid in use to a tracked one follows the path. *)
WalkFollows(t, s, fd, newfid, names) ==
  LET r == Walk9(t, s, fd, newfid, names)
      at == Route(t, s.at[fd], names)
  IN  /\ r.err \in BOOLEAN
      /\ r.err <=> at[Len(names)] = NoFile
      /\ ~r.err => r.s.at[newfid] = at[Len(names)]
      /\ r.err /\ newfid = fd => r.s.at[fd] = s.at[fd]
      /\ r.qids \in Seq(Node) /\ Len(r.qids) <= Len(names)
      /\ ~r.err => Len(r.qids) = Len(names)
      /\ \A i \in 1 .. Len(names) : at[i] # NoFile <=> i <= Len(r.qids)
      /\ \A i \in 1 .. Len(r.qids) : r.qids[i] = at[i]

LEMMA WalkFollowsPath ==
  ASSUME NEW t \in [Node -> Place], NEW s, Ready(s), NEW fd \in Fid, InUse(s, fd),
         NEW newfid \in Fid \ {RootFid}, Tracked(newfid),
         NEW S, NEW names \in Seq(S), Len(names) <= ChunkMax
  PROVE  WalkFollows(t, s, fd, newfid, names)
<1> DEFINE p == Prepared(s, fd, newfid)
           r == Walk9(t, s, fd, newfid, names)
<1>0. Sound(s) /\ s.opened = {}
  BY DEF Ready
<1>2. s \in Session /\ newfid \in Fid
  BY <1>0 DEF Sound
<1>3. WalkEnds(t, s, fd, newfid, names)
  BY <1>2, WalkOutcome
<1>4. /\ newfid # fd => ~InUse(p, newfid)
      /\ p.at[fd] = s.at[fd] /\ p \in Session /\ p.opened = {}
  <2>1. /\ Tracked(newfid) /\ newfid # fd => ~InUse(p, newfid)
        /\ p.at[fd] = s.at[fd]
    BY <1>0, PreparedSound
  <2>2. /\ p \in Session
        /\ p.opened = IF Tracked(newfid) /\ fd # newfid /\ newfid \in s.openfids
                      THEN s.opened \ {newfid} ELSE s.opened
    BY <1>2, PreparedTyped, Zenon
  <2> HIDE DEF p
  <2> QED
    BY <1>0, <2>1, <2>2
<1>5. ~Refused(p, fd, newfid)
  BY <1>4 DEF Refused, InUse
<1> DEFINE at == Route(t, s.at[fd], names)
           to == at[Len(names)]
           q == [p EXCEPT !.at[newfid] = to]
<1>6. /\ r.qids \in Seq(Node) /\ Len(r.qids) <= Len(names) /\ r.err \in BOOLEAN
      /\ r.err <=> to = NoFile
      /\ r.err => r.s = p
      /\ ~r.err => Len(r.qids) = Len(names) /\ r.s = Noted(q, newfid)
      /\ \A i \in 1 .. Len(names) : at[i] # NoFile <=> i <= Len(r.qids)
      /\ \A i \in 1 .. Len(r.qids) : r.qids[i] = at[i]
  BY <1>3, <1>4, <1>5 DEF WalkEnds
<1>7. Noted(q, newfid).at[newfid] = to
  <2>1. q = [at |-> q.at, opened |-> q.opened, openfids |-> q.openfids] /\ q.at[newfid] = to
    BY <1>2, <1>4 DEF Session
  <2> HIDE DEF q, to
  <2> QED
    BY <2>1 DEF Noted
<1> HIDE DEF p, r, at, q
<1>8. r.err /\ newfid = fd => r.s.at[fd] = s.at[fd]
  BY <1>4, <1>6
<1> QED
  BY <1>6, <1>7, <1>8 DEF r, at, WalkFollows

LEMMA ClunkReady ==
  ASSUME NEW s, Ready(s), NEW fd \in Fid \ {RootFid}
  PROVE  /\ Ready(Clunk9(s, fd)) /\ Ready(Remove9(s, fd))
         /\ \A f \in Fid \ {fd} : Clunk9(s, fd).at[f] = s.at[f]
<1>1. /\ Sound(Clunk9(s, fd)) /\ Sound(Remove9(s, fd))
      /\ \A f \in Fid \ {fd} : Clunk9(s, fd).at[f] = s.at[f] /\ Remove9(s, fd).at[f] = s.at[f]
  BY ClunkSound DEF Ready
<1>2. s \in Session /\ s.opened = {} /\ s.at[RootFid] = Root
  BY DEF Ready, Sound
<1>3. Clunk9(s, fd).opened = {} /\ Remove9(s, fd).opened = {}
  BY <1>2 DEF Clunk9, Remove9, Forgotten, Session
<1> QED
  BY <1>1, <1>2, <1>3, NinePAssumption DEF Ready

(* A fid that was opened is clunked. *)
LEMMA OpenedClunked ==
  ASSUME NEW s, Sound(s), NEW fd \in Fid \ {RootFid}, InUse(s, fd), s.opened \subseteq {fd},
         s.at[RootFid] = Root
  PROVE  /\ Ready(Clunk9(s, fd)) /\ \A f \in Fid \ {fd} : Clunk9(s, fd).at[f] = s.at[f]
<1>1. /\ Sound(Clunk9(s, fd))
      /\ \A f \in Fid \ {fd} : Clunk9(s, fd).at[f] = s.at[f]
  BY ClunkSound
<1>2. s \in Session
  BY DEF Sound
<1>3. Clunk9(s, fd).opened = {}
  BY <1>2 DEF Clunk9, Forgotten, Session
<1> QED
  BY <1>1, <1>3, NinePAssumption DEF Ready

LEMMA ListedReady ==
  ASSUME NEW s, Ready(s), InUse(s, 27), 27 \in Fid \ {RootFid}
  PROVE  Ready(Listed(s)) /\ \A f \in Fid \ {27} : Listed(s).at[f] = s.at[f]
<1>1. Sound(s) /\ s.opened = {} /\ s.at[RootFid] = Root
  BY DEF Ready
<1> DEFINE o == Opened(s, 27)
<1>2. Sound(o) /\ o.at = s.at /\ o.opened = {27}
  BY <1>1, OpenedSound
<1>3. InUse(o, 27)
  BY <1>2 DEF InUse
<1> HIDE DEF o
<1>4. Ready(Clunk9(o, 27)) /\ \A f \in Fid \ {27} : Clunk9(o, 27).at[f] = o.at[f]
  <2> DEFINE fd == 27
  <2>1. fd \in Fid \ {RootFid} /\ InUse(o, fd) /\ o.opened \subseteq {fd} /\ o.at[RootFid] = Root
    BY <1>1, <1>2, <1>3
  <2> HIDE DEF fd
  <2>2. Ready(Clunk9(o, fd)) /\ \A f \in Fid \ {fd} : Clunk9(o, fd).at[f] = o.at[f]
    BY <1>2, <2>1, OpenedClunked
  <2> QED
    BY <2>2 DEF fd
<1> QED
  BY <1>2, <1>4 DEF Listed, o

LEMMA CreatedReady ==
  ASSUME NEW s, Ready(s), NEW fd \in Fid \ {RootFid}, InUse(s, fd), NEW new \in Node
  PROVE  Ready(Clunk9(Lcreate9(s, fd, new), fd))
<1>1. Sound(s) /\ s.opened = {} /\ s.at[RootFid] = Root /\ s \in Session
  BY DEF Ready, Sound
<1>2. /\ Sound(Lcreate9(s, fd, new))
      /\ \A f \in Fid \ {fd} : /\ Lcreate9(s, fd, new).at[f] = s.at[f]
                               /\ f \in s.opened => f \in Lcreate9(s, fd, new).opened
  BY <1>1, CreateSound
<1>3. PICK q : q = [s EXCEPT !.at[fd] = new]
  OBVIOUS
<1>4. q = [at |-> q.at, opened |-> q.opened, openfids |-> q.openfids] /\ q.at[fd] = new
      /\ q.opened = {} /\ q.at[RootFid] = Root
  BY <1>1, <1>3, NinePAssumption DEF Session
<1>5. PICK c : c = Lcreate9(s, fd, new)
  OBVIOUS
<1>6. c = Opened(q, fd)
  BY <1>3, <1>5 DEF Lcreate9
<1>7. c.at = q.at /\ c.opened = {fd}
  BY <1>4, <1>6 DEF Opened
<1>8. Sound(c)
  BY <1>2, <1>5
<1>9. InUse(c, fd) /\ c.at[RootFid] = Root
  BY <1>4, <1>7, NinePAssumption DEF InUse
<1>10. Ready(Clunk9(c, fd))
  BY <1>7, <1>8, <1>9, OpenedClunked
<1> QED
  BY <1>5, <1>10

-----------------------------------------------------------------------------
(* The trail and what is noted along it *)

TrailStep == [name : Name \union {NoName}, node : Node]

FrontIs ==
  \A S : \A s \in Seq(S) :
    /\ Front(s) \in Seq(S)
    /\ s # <<>> => Len(Front(s)) = Len(s) - 1 /\ \A i \in 1 .. Len(s) - 1 : Front(s)[i] = s[i]

LEMMA FrontAlways == FrontIs
<1> SUFFICES ASSUME NEW S, NEW s \in Seq(S)
             PROVE  /\ Front(s) \in Seq(S)
                    /\ s # <<>> => Len(Front(s)) = Len(s) - 1 /\ \A i \in 1 .. Len(s) - 1 : Front(s)[i] = s[i]
  BY DEF FrontIs
<1>1. Len(s) \in Nat /\ (s = <<>> <=> Len(s) = 0) /\ \A i \in 1 .. Len(s) - 1 : s[i] \in S
  OBVIOUS
<1> DEFINE f == SubSeq(s, 1, Len(s) - 1)
<1>2. /\ f \in Seq(S) /\ Len(f) = IF 1 <= Len(s) - 1 THEN Len(s) - 1 - 1 + 1 ELSE 0
      /\ \A i \in 1 .. Len(s) - 1 - 1 + 1 : f[i] = s[1 + i - 1]
  <2>1. 1 \in Int /\ Len(s) - 1 \in Int
    BY <1>1
  <2> HIDE DEF f
  <2> QED
    BY <1>1, <2>1, SubSeqProperties DEF f
<1>3. Front(s) = f
  BY DEF Front
<1> HIDE DEF f
<1> QED
  BY <1>1, <1>2, <1>3

DotsTo(path, n) == Cardinality({i \in 1 .. n : path[i].name = DotDot})

LEMMA DotsNext ==
  ASSUME NEW path, NEW n \in Nat \ {0}
  PROVE  /\ DotsTo(path, n - 1) \in Nat /\ DotsTo(path, 0) = 0
         /\ DotsTo(path, n) = DotsTo(path, n - 1) + IF path[n].name = DotDot THEN 1 ELSE 0
<1> DEFINE D(m) == {i \in 1 .. m : path[i].name = DotDot}
<1>1. IsFiniteSet(D(n - 1)) /\ Cardinality(D(n - 1)) \in Nat
  <2>1. IsFiniteSet(1 .. n - 1) /\ D(n - 1) \subseteq 1 .. n - 1
    BY FS_Interval
  <2> QED
    BY <2>1, FS_Subset, FS_CardinalityType
<1>2. D(0) = {} /\ Cardinality({}) = 0
  BY FS_EmptySet
<1>6. DotsTo(path, n) = Cardinality(D(n)) /\ DotsTo(path, n - 1) = Cardinality(D(n - 1))
      /\ DotsTo(path, 0) = Cardinality(D(0))
  BY DEF DotsTo
<1>3. CASE path[n].name = DotDot
  <2>1. D(n) = D(n - 1) \union {n} /\ n \notin D(n - 1)
    BY <1>3
  <2> HIDE DEF D
  <2>2. Cardinality(D(n - 1) \union {n}) = Cardinality(D(n - 1)) + 1
    BY <1>1, <2>1, FS_AddElement
  <2> QED
    BY <1>1, <1>2, <1>3, <1>6, <2>1, <2>2
<1>4. CASE path[n].name # DotDot
  <2>1. D(n) = D(n - 1)
    BY <1>4
  <2> HIDE DEF D
  <2> QED
    BY <1>1, <1>2, <1>4, <1>6, <2>1
<1> QED
  BY <1>3, <1>4

(* Without a climb the trail is never empty.                                *)
LEMMA TrailsAre ==
  ASSUME NEW path \in Seq(Component9), NEW nodes \in Seq(Node), Len(nodes) = Len(path), ~IsClimb(path)
  PROVE  LET trail == Trails(path, nodes)
         IN  /\ trail[0] = <<>>
             /\ \A i \in 1 .. Len(path) :
                  /\ trail[i] \in Seq(TrailStep) /\ Len(trail[i]) >= 1
                  /\ trail[i] = Trailed(trail[i - 1], path[i].name, nodes[i])
<1> DEFINE N == Len(path)
           S == Seq(TrailStep)
           step == [i \in 1 .. N |-> [s \in S |-> Trailed(s, path[i].name, nodes[i])]]
           is(g) == g = [i \in 0 .. N |->
                           IF i = 0 THEN <<>> ELSE Trailed(g[i - 1], path[i].name, nodes[i])]
<1>0. N \in Nat /\ <<>> \in S
  OBVIOUS
<1>1. step \in [1 .. N -> [S -> S]]
  <2>1. ASSUME NEW i \in 1 .. N, NEW s \in S PROVE Trailed(s, path[i].name, nodes[i]) \in S
    <3>1. path[i] \in Component9 /\ nodes[i] \in Node
      OBVIOUS
    <3>2. CASE path[i].name = DotDot
      BY <3>2, FrontAlways DEF Trailed, FrontIs
    <3>3. CASE path[i].name # DotDot
      <4>1. [name |-> path[i].name, node |-> nodes[i]] \in TrailStep
        BY <3>1, <3>3 DEF Component9, TrailStep
      <4> QED
        BY <3>3, <4>1 DEF Trailed
    <3> QED
      BY <3>2, <3>3
  <2> HIDE DEF S
  <2> QED
    BY <2>1
<1> HIDE DEF S
<1>2. PICK f : Follows(f, S, <<>>, step, N)
  <2> HIDE DEF step, N
  <2> QED
    BY <1>0, <1>1, RecursionExists
<1>3. is(f)
  <2>1. ASSUME NEW i \in 0 .. N
        PROVE  f[i] = IF i = 0 THEN <<>> ELSE Trailed(f[i - 1], path[i].name, nodes[i])
    <3>1. CASE i = 0
      BY <1>2, <3>1 DEF Follows
    <3>2. CASE i # 0
      <4>1. i \in 1 .. N /\ i - 1 \in 0 .. N
        BY <1>0, <3>2
      <4>2. f[i - 1] \in S /\ f[i] = step[i][f[i - 1]]
        BY <1>2, <4>1 DEF Follows
      <4> QED
        BY <3>2, <4>1, <4>2
    <3> QED
      BY <3>1, <3>2
  <2>2. f = [i \in 0 .. N |-> f[i]]
    BY <1>2 DEF Follows
  <2> QED
    BY <2>1, <2>2
<1> DEFINE trail == CHOOSE g : is(g)
<1>4. is(trail)
  <2> HIDE DEF is
  <2> QED
    BY <1>3
<1>5. trail = Trails(path, nodes)
  BY DEF Trails
<1> HIDE DEF trail
<1>6. trail[0] = <<>> /\ \A i \in 1 .. N : trail[i] = Trailed(trail[i - 1], path[i].name, nodes[i])
  BY <1>0, <1>4
<1>7. \A i \in 0 .. N : trail[i] \in S
  <2>1. \A i \in 1 .. N : trail[i - 1] \in S => trail[i] \in S
    BY <1>1, <1>6
  <2> QED
    BY <1>0, <1>6, <2>1, StaysIn, Zenon
<1>8. \A n \in 1 .. N : 2 * DotsTo(path, n) < n
  <2>1. \A n \in 1 .. N : ~(2 * DotsTo(path, n) >= n) /\ DotsTo(path, n) \in Nat
    <3> TAKE n \in 1 .. N
    <3>1. n \in Nat \ {0} /\ n + 1 \in Nat \ {0} /\ (n + 1) - 1 = n /\ n \in DOMAIN path
      OBVIOUS
    <3>2. DotsTo(path, n) \in Nat
      BY <3>1, DotsNext
    <3> QED
      BY <3>1, <3>2 DEF IsClimb, DotsTo
  <2> QED
    BY <2>1
<1>9. \A i \in 0 .. N : Len(trail[i]) = i - 2 * DotsTo(path, i)
  <2> DEFINE P == {i \in 0 .. N : Len(trail[i]) = i - 2 * DotsTo(path, i)}
  <2>1. 0 \in P
    <3>1. 1 \in Nat \ {0}
      OBVIOUS
    <3>2. DotsTo(path, 0) = 0
      BY <3>1, DotsNext
    <3> QED
      BY <1>0, <1>6, <3>2
  <2>2. ASSUME NEW n \in 1 .. N, n - 1 \in P PROVE n \in P
    <3>1. /\ n \in Nat \ {0} /\ n - 1 \in 0 .. N /\ trail[n - 1] \in Seq(TrailStep)
          /\ Len(trail[n - 1]) = n - 1 - 2 * DotsTo(path, n - 1)
      BY <1>7, <2>2 DEF S
    <3>2. DotsTo(path, n - 1) \in Nat
          /\ DotsTo(path, n) = DotsTo(path, n - 1) + IF path[n].name = DotDot THEN 1 ELSE 0
      BY <3>1, DotsNext
    <3>3. 2 * DotsTo(path, n) < n /\ trail[n] = Trailed(trail[n - 1], path[n].name, nodes[n])
      BY <1>6, <1>8
    <3>4. CASE path[n].name = DotDot
      <4>1. Len(trail[n - 1]) >= 2
        BY <3>1, <3>2, <3>3, <3>4
      <4>2. Len(trail[n]) = Len(trail[n - 1]) - 1
        <5>1. trail[n - 1] # <<>> /\ trail[n] = Front(trail[n - 1])
          BY <3>3, <3>4, <4>1 DEF Trailed
        <5> QED
          BY <3>1, <5>1, FrontAlways DEF FrontIs
      <4> QED
        BY <3>1, <3>2, <3>4, <4>2
    <3>5. CASE path[n].name # DotDot
      <4> DEFINE e == [name |-> path[n].name, node |-> nodes[n]]
      <4>1. trail[n] = Append(trail[n - 1], e)
        BY <3>3, <3>5 DEF Trailed
      <4> HIDE DEF e
      <4>2. Len(trail[n]) = Len(trail[n - 1]) + 1
        BY <3>1, <4>1
      <4> QED
        BY <3>1, <3>2, <3>5, <4>2
    <3> QED
      BY <3>4, <3>5
  <2> HIDE DEF P
  <2>3. \A i \in 0 .. N : i \in P
    BY <1>0, <2>1, <2>2, UpTo
  <2> QED
    BY <2>3 DEF P
<1>10. \A i \in 1 .. N : Len(trail[i]) >= 1
  <2> TAKE i \in 1 .. N
  <2>1. i \in Nat \ {0} /\ i - 1 \in Nat
    OBVIOUS
  <2>2. DotsTo(path, i) \in Nat
    <3>1. i + 1 \in Nat \ {0} /\ (i + 1) - 1 = i
      BY <2>1
    <3> QED
      BY <3>1, DotsNext
  <2> QED
    BY <1>8, <1>9, <2>2
<1> QED
  BY <1>5, <1>6, <1>7, <1>10 DEF S

(* What Noting comes to, a component after the other. *)
NotedAlong(f, path, nodes) ==
  /\ f \in [0 .. Len(path) -> [Node -> Record]] /\ f[0] = db
  /\ \A i \in 1 .. Len(path) :
       LET trail == Trails(path, nodes)[i]
           dir == IF Len(trail) = 1 THEN Root ELSE trail[Len(trail) - 1].node
       IN  f[i] = IF NotedFor(path[i])
                  THEN [f[i - 1] EXCEPT ![Last(trail).node] = [dir |-> dir, name |-> Last(trail).name]]
                  ELSE f[i - 1]

LEMMA NotingIs ==
  ASSUME db \in [Node -> Record], NEW path \in Seq(Component9), NEW nodes \in Seq(Node),
         Len(nodes) = Len(path), ~IsClimb(path)
  PROVE  \E f : NotedAlong(f, path, nodes) /\ Noting(path, nodes) = f[Len(path)]
<1> DEFINE N == Len(path)
           S == [Node -> Record]
           trail(i) == Trails(path, nodes)[i]
           dir(i) == IF Len(trail(i)) = 1 THEN Root ELSE trail(i)[Len(trail(i)) - 1].node
           next(d, i) == IF NotedFor(path[i])
                         THEN [d EXCEPT ![Last(trail(i)).node] = [dir |-> dir(i), name |-> Last(trail(i)).name]]
                         ELSE d
           step == [i \in 1 .. N |-> [d \in S |-> next(d, i)]]
           is(g) == g = [i \in 0 .. N |-> IF i = 0 THEN db ELSE next(g[i - 1], i)]
<1>0. N \in Nat
  OBVIOUS
<1>1. step \in [1 .. N -> [S -> S]]
  <2>1. ASSUME NEW i \in 1 .. N, NEW d \in S PROVE next(d, i) \in S
    <3>1. trail(i) \in Seq(TrailStep) /\ Len(trail(i)) >= 1
      BY TrailsAre
    <3>2. Last(trail(i)) \in TrailStep /\ (Len(trail(i)) # 1 => trail(i)[Len(trail(i)) - 1] \in TrailStep)
      <4>1. PICK e : e = trail(i)
        OBVIOUS
      <4>2. e \in Seq(TrailStep) /\ Len(e) \in Nat /\ Len(e) >= 1
        BY <3>1, <4>1
      <4>3. \A k \in 1 .. Len(e) : e[k] \in TrailStep
        BY <4>2
      <4>4. Last(e) = e[Len(e)]
        BY DEF Last
      <4>6. PICK n \in Nat : n = Len(e)
        BY <4>2
      <4>7. n \in 1 .. n /\ (n # 1 => n - 1 \in 1 .. n)
        BY <4>2, <4>6
      <4>5. Last(e) \in TrailStep /\ (Len(e) # 1 => e[Len(e) - 1] \in TrailStep)
        BY <4>3, <4>4, <4>6, <4>7
      <4> QED
        BY <4>1, <4>5
    <3> HIDE DEF trail
    <3>3. dir(i) \in Nodes /\ Last(trail(i)).name \in Name \union {NoName}
      BY <3>2, NinePAssumption DEF TrailStep, Nodes
    <3> HIDE DEF dir
    <3>4. [dir |-> dir(i), name |-> Last(trail(i)).name] \in Record
      BY <3>3 DEF Record
    <3> QED
      BY <3>4
  <2> HIDE DEF next, S
  <2> QED
    BY <2>1
<1>2. PICK f : Follows(f, S, db, step, N)
  <2>1. db \in S
    OBVIOUS
  <2> HIDE DEF step, N, S
  <2> QED
    BY <1>0, <1>1, <2>1, RecursionExists
<1>3. is(f) /\ f \in [0 .. N -> S]
  <2> HIDE DEF next, S
  <2>1. ASSUME NEW i \in 0 .. N
        PROVE  f[i] = IF i = 0 THEN db ELSE next(f[i - 1], i)
    <3>1. CASE i = 0
      BY <1>2, <3>1 DEF Follows
    <3>2. CASE i # 0
      <4>1. i \in 1 .. N /\ i - 1 \in 0 .. N
        BY <1>0, <3>2
      <4>2. f[i - 1] \in S /\ f[i] = step[i][f[i - 1]]
        BY <1>2, <4>1 DEF Follows
      <4> QED
        BY <3>2, <4>1, <4>2
    <3> QED
      BY <3>1, <3>2
  <2>2. f = [i \in 0 .. N |-> f[i]] /\ f \in [0 .. N -> S]
    BY <1>2 DEF Follows
  <2> QED
    BY <2>1, <2>2
<1> DEFINE noted == CHOOSE g : is(g)
<1>4. is(noted)
  <2> HIDE DEF is
  <2> QED
    BY <1>3
<1>5. noted[N] = Noting(path, nodes)
  BY DEF Noting
<1> HIDE DEF noted
<1>6. noted \in [0 .. N -> S] /\ noted[0] = db /\ \A i \in 1 .. N : noted[i] = next(noted[i - 1], i)
  <2> HIDE DEF next, S
  <2>1. noted[0] = db /\ \A i \in 1 .. N : noted[i] = next(noted[i - 1], i)
    BY <1>0, <1>4
  <2>2. \A i \in 1 .. N : noted[i - 1] \in S => noted[i] \in S
    BY <1>1, <2>1
  <2>3. \A i \in 0 .. N : noted[i] \in S
    <3>1. noted[0] \in S
      BY <2>1 DEF S
    <3> QED
      BY <1>0, <2>2, <3>1, StaysIn, Zenon
  <2> QED
    BY <1>4, <2>1, <2>3
<1>7. NotedAlong(noted, path, nodes)
  BY <1>6 DEF NotedAlong
<1> QED
  BY <1>5, <1>7

-----------------------------------------------------------------------------
(* What a browse starts from *)

(* Relative paths are sequences of names. *)
LEMMA RelPathsAre ==
  ASSUME world \in Worlds, NEW rel \in RelPaths
  PROVE  /\ rel \in Seq(Name \union {DotDot})
         /\ ~world.dots => \A i \in 1 .. Len(rel) : rel[i] # DotDot
<1>1. world.rel \in Nat
  BY CatalogAssumption
<1> DEFINE S == Name \union (IF world.dots THEN {DotDot} ELSE {})
<1>2. PICK m \in 0 .. world.rel : rel \in [1 .. m -> S]
  BY DEF RelPaths, BoundedSeq, SeqOf
<1>3. m \in Nat
  BY <1>1
<1>4. rel \in Seq(S) /\ Len(rel) = m
  BY <1>2, <1>3
<1> QED
  BY <1>2, <1>3, <1>4, NinePAssumption

(* The path of a browse: what is noted, and the relative path. *)
FullPath(c, rel) == PathOf(c) \o Unexpected(rel)

FullPathIs(c, rel, path) ==
  LET noted == PathOf(c)
  IN  /\ path \in Seq(Component9) /\ Len(path) = Len(noted) + Len(rel)
      /\ Len(noted) \in Nat
      /\ \A i \in 1 .. Len(noted) : path[i] = noted[i]
      /\ \A i \in 1 .. Len(rel) : path[Len(noted) + i] = [name |-> rel[i], expect |-> NoFile]

LEMMA FullPathOf ==
  ASSUME db \in [Node -> Record], NEW c \in Nodes, ~Endless(c), ~BadCNID(c),
         NEW rel \in Seq(Name \union {DotDot})
  PROVE  FullPathIs(c, rel, FullPath(c, rel))
<1> DEFINE noted == PathOf(c)
           un == Unexpected(rel)
<1>1. noted \in Seq(Component9)
  BY PathOfIs DEF PathIs
<1>2. un \in Seq(Component9) /\ Len(un) = Len(rel)
      /\ \A i \in 1 .. Len(rel) : un[i] = [name |-> rel[i], expect |-> NoFile]
  <2>1. DOMAIN rel = 1 .. Len(rel) /\ Len(rel) \in Nat
    OBVIOUS
  <2>2. un = [i \in 1 .. Len(rel) |-> [name |-> rel[i], expect |-> NoFile]]
    BY <2>1 DEF Unexpected
  <2>3. \A i \in 1 .. Len(rel) : [name |-> rel[i], expect |-> NoFile] \in Component9
    BY DEF Component9, Nodes
  <2> HIDE DEF un
  <2> QED
    BY <2>1, <2>2, <2>3
<1> HIDE DEF noted, un
<1>3. /\ noted \o un \in Seq(Component9) /\ Len(noted \o un) = Len(noted) + Len(un)
      /\ Len(noted) \in Nat /\ Len(un) \in Nat
      /\ \A i \in 1 .. Len(noted) + Len(un) :
           (noted \o un)[i] = IF i <= Len(noted) THEN noted[i] ELSE un[i - Len(noted)]
  <2>1. PICK a \in Seq(Component9), b \in Seq(Component9) : a = noted /\ b = un
    BY <1>1, <1>2
  <2>2. /\ a \o b \in Seq(Component9) /\ Len(a \o b) = Len(a) + Len(b)
        /\ Len(a) \in Nat /\ Len(b) \in Nat
        /\ \A i \in 1 .. Len(a) + Len(b) :
             (a \o b)[i] = IF i <= Len(a) THEN a[i] ELSE b[i - Len(a)]
    BY ConcatProperties
  <2> QED
    BY <2>1, <2>2
<1>4. PICK path : path = noted \o un
  OBVIOUS
<1>5. \A i \in 1 .. Len(noted) : path[i] = noted[i]
  BY <1>3, <1>4
<1>6. \A i \in 1 .. Len(rel) : path[Len(noted) + i] = un[i]
  <2> TAKE i \in 1 .. Len(rel)
  <2>1. PICK a \in Nat, b \in Nat : a = Len(noted) /\ b = Len(un)
    BY <1>3
  <2>2. a + i \in 1 .. a + b /\ ~(a + i <= a) /\ a + i - a = i
    BY <1>2, <2>1
  <2> QED
    BY <1>3, <1>4, <2>1, <2>2
<1>7. FullPath(c, rel) = path
  BY <1>4 DEF FullPath, noted, un
<1> QED
  BY <1>2, <1>3, <1>4, <1>5, <1>6, <1>7 DEF FullPathIs, noted

LEMMA SensibleIs ==
  ASSUME NEW c, NEW rel, Sensible(c, rel), ~Endless(c), ~BadCNID(c)
  PROVE  ~IsClimb(FullPath(c, rel))
BY DEF Sensible, FullPath

(* What is sensible depends on the database only. *)
LEMMA SensibleKept ==
  ASSUME db' = db, asked' = asked, Sensible(asked.cnid, asked.rel)
  PROVE  Sensible(asked.cnid, asked.rel)'
<1>1. PICK c, rel : c = asked.cnid /\ rel = asked.rel
  OBVIOUS
<1>2. Upwards(c)' = Upwards(c)
  BY DEF Upwards
<1>3. Endless(c)' = Endless(c) /\ BadCNID(c)' = BadCNID(c) /\ PathOf(c)' = PathOf(c)
  BY <1>2 DEF Endless, BadCNID, PathOf, Ends
<1>4. Sensible(c, rel)' = Sensible(c, rel)
  BY <1>3 DEF Sensible, Unexpected, IsClimb
<1> QED
  BY <1>1, <1>4

(* A path without ".." does not climb, nor does one that a longer path that *)
(* does not climb begins with.                                              *)
LEMMA NoDotsNoClimb ==
  ASSUME NEW S, NEW path \in Seq(S), \A i \in 1 .. Len(path) : path[i].name # DotDot
  PROVE  ~IsClimb(path)
<1>1. ASSUME NEW n \in 1 .. Len(path)
      PROVE  ~(2 * Cardinality({i \in 1 .. n : path[i].name = DotDot}) >= n)
  <2>1. {i \in 1 .. n : path[i].name = DotDot} = {}
    OBVIOUS
  <2>2. Cardinality({}) = 0
    BY FS_EmptySet
  <2>3. ~(2 * 0 >= n)
    OBVIOUS
  <2> QED
    BY <2>1, <2>2, <2>3
<1>2. DOMAIN path = 1 .. Len(path)
  OBVIOUS
<1> QED
  BY <1>1, <1>2, Zenon DEF IsClimb

LEMMA PrefixNoClimb ==
  ASSUME NEW S, NEW long \in Seq(S), NEW path \in Seq(S), ~IsClimb(long), Len(path) <= Len(long),
         \A i \in 1 .. Len(path) : path[i] = long[i]
  PROVE  ~IsClimb(path)
<1>1. ASSUME NEW n \in 1 .. Len(path)
      PROVE  ~(2 * Cardinality({i \in 1 .. n : path[i].name = DotDot}) >= n)
  <2>1. {i \in 1 .. n : path[i].name = DotDot} = {i \in 1 .. n : long[i].name = DotDot}
    OBVIOUS
  <2>2. n \in DOMAIN long
    OBVIOUS
  <2> QED
    BY <2>1, <2>2, Zenon DEF IsClimb
<1>2. DOMAIN path = 1 .. Len(path)
  OBVIOUS
<1> QED
  BY <1>1, <1>2, Zenon DEF IsClimb

(* How a browse begins. *)
Begun(f, c, rel) ==
  /\ asked' = [cnid |-> c, rel |-> rel] /\ fid' = f
  /\ Ready(session') /\ \A g \in Fid \ {f} : session'.at[g] = session.at[g]
  /\ back' = 0 /\ progress' = 0 /\ qids' = <<>> /\ tip' = RootFid
  /\ \/ Endless(c) /\ pc' = "hung" /\ comps' = <<>> /\ result' = result
     \/ ~Endless(c) /\ BadCNID(c) /\ pc' = "returned" /\ result' = "dirNFErr" /\ comps' = <<>>
     \/ /\ ~Endless(c) /\ ~BadCNID(c) /\ FullPath(c, rel) = <<>>
        /\ pc' = "returned" /\ result' = Root /\ comps' = <<>>
        /\ session' = Walk9(tree, session, RootFid, f, <<>>).s
     \/ /\ ~Endless(c) /\ ~BadCNID(c) /\ FullPath(c, rel) # <<>> /\ session' = session
        /\ pc' = "walk" /\ result' = "none" /\ comps' = FullPath(c, rel)

LEMMA BrowseIs ==
  ASSUME tree \in [Node -> Place], db \in [Node -> Record], Ready(session),
         NEW f \in Fid \ {RootFid}, NEW c \in Nodes,
         NEW rel \in Seq(Name \union {DotDot}), Browse(f, c, rel)
  PROVE  Begun(f, c, rel)
<1>1. /\ asked' = [cnid |-> c, rel |-> rel] /\ fid' = f
      /\ back' = 0 /\ progress' = 0 /\ qids' = <<>> /\ tip' = RootFid
  BY DEF Browse, NoPath
<1>2. CASE Endless(c)
  BY <1>1, <1>2 DEF Browse, NoPath, Begun
<1>3. CASE ~Endless(c) /\ BadCNID(c)
  BY <1>1, <1>3 DEF Browse, NoPath, Return, Begun
<1>4. CASE ~Endless(c) /\ ~BadCNID(c)
  <2>1. FullPathIs(c, rel, FullPath(c, rel))
    BY <1>4, FullPathOf
  <2>2. PathOf(c) \o rel = <<>> <=> FullPath(c, rel) = <<>>
    <3>1. FullPath(c, rel) \in Seq(Component9) /\ Len(FullPath(c, rel)) = Len(PathOf(c)) + Len(rel)
      BY <2>1 DEF FullPathIs
    <3>2. PathOf(c) \in Seq(Component9)
      BY <1>4, PathOfIs DEF PathIs
    <3>3. PICK a, b, path : a = PathOf(c) /\ b = rel /\ path = FullPath(c, rel)
      OBVIOUS
    <3>4. a \in Seq(Component9) /\ path \in Seq(Component9) /\ b \in Seq(Name \union {DotDot})
          /\ Len(path) = Len(a) + Len(b)
      BY <3>1, <3>2, <3>3
    <3>5. a \o b = <<>> <=> (a = <<>> /\ b = <<>>)
      BY <3>4
    <3>6. path = <<>> <=> (a = <<>> /\ b = <<>>)
      BY <3>4
    <3> QED
      BY <3>3, <3>5, <3>6
  <2>3. CASE FullPath(c, rel) = <<>>
    <3>1. session' = Walk9(tree, session, RootFid, f, <<>>).s
          /\ pc' = "returned" /\ result' = Root /\ comps' = <<>>
      BY <1>4, <2>2, <2>3 DEF Browse, NoPath, Return
    <3>2. <<>> \in Seq(Name) /\ Len(<<>>) <= ChunkMax /\ RootFid \in Fid
      BY NinePAssumption
    <3>5. PICK e : e = <<>>
      OBVIOUS
    <3>6. e \in Seq(Name) /\ Len(e) <= ChunkMax
      BY <3>2, <3>5
    <3>4. LET r == Walk9(tree, session, RootFid, f, e)
          IN  Ready(r.s) /\ \A g \in Fid \ {f} : r.s.at[g] = session.at[g]
      BY <3>2, <3>6, WalkKeeps
    <3>3. Ready(session') /\ \A g \in Fid \ {f} : session'.at[g] = session.at[g]
      BY <3>1, <3>4, <3>5
    <3> QED
      BY <1>1, <1>4, <2>3, <3>1, <3>3 DEF Begun
  <2>4. CASE FullPath(c, rel) # <<>>
    <3>1. session' = session /\ pc' = "walk" /\ result' = "none" /\ comps' = FullPath(c, rel)
      BY <1>4, <2>2, <2>4 DEF Browse, FullPath
    <3> QED
      BY <1>1, <1>4, <2>4, <3>1 DEF Begun
  <2> QED
    BY <2>3, <2>4
<1> QED
  BY <1>2, <1>3, <1>4

(* What a browse begins with is well typed, if the path does not climb. *)
LEMMA BegunTyped ==
  ASSUME TypesInv, NEW f \in Fid \ {RootFid}, NEW c \in Nodes,
         NEW rel \in Seq(Name \union {DotDot}), Begun(f, c, rel),
         ~Endless(c) /\ ~BadCNID(c) => ~IsClimb(FullPath(c, rel))
  PROVE  BrowseTyped' /\ result' \in Node \union Errors /\ pc' # "idle"
         /\ (pc' = "walk" => progress' < Len(comps)')
<1>0. db \in [Node -> Record] /\ result \in Node \union Errors /\ Root \in Node /\ ChunkMax \in Nat
  BY NinePAssumption DEF TypesInv, CallTyped
<1>1. /\ progress' = 0 /\ back' = 0 /\ qids' = <<>> /\ tip' = RootFid
  BY DEF Begun
<1>2. pc' \in {"hung", "returned", "walk"} /\ result' \in Node \union Errors
  BY <1>0 DEF Begun, Errors
<1>3. comps' \in Seq(Component9) /\ (pc' = "walk" => comps' # <<>> /\ ~IsClimb(comps') /\ result' = "none")
  <2>1. ~Endless(c) /\ ~BadCNID(c) => FullPath(c, rel) \in Seq(Component9)
    BY <1>0, FullPathOf DEF FullPathIs
  <2>2. CASE pc' = "walk"
    BY <2>1, <2>2 DEF Begun
  <2>3. CASE pc' # "walk"
    <3>1. comps' = <<>>
      BY <2>3 DEF Begun
    <3> QED
      BY <2>3, <3>1
  <2> QED
    BY <2>2, <2>3
<1>4. 0 \in 0 .. Len(comps') /\ 0 + 0 <= Len(comps') /\ (comps' # <<>> => 0 < Len(comps'))
      /\ 0 \in 0 .. ChunkMax
  BY <1>0, <1>3
<1>5. <<>> \in Seq(Node) /\ Len(<<>>) = 0
  OBVIOUS
<1>6. IsClimb(comps)' <=> IsClimb(comps')
  BY DEF IsClimb
<1> QED
  BY <1>1, <1>2, <1>3, <1>4, <1>5, <1>6 DEF BrowseTyped, Browsing, Searching

-----------------------------------------------------------------------------
(* A request of a browse *)

LEMMA TypesAre ==
  ASSUME TypesInv
  PROVE  /\ tree \in [Node -> Place] /\ db \in [Node -> Record] /\ Ready(session)
         /\ RootFid \in Fid /\ {9, 10, 11, 12, 27} \subseteq Fid \ {RootFid}
         /\ ChunkMax \in Nat /\ ChunkMax >= 1 /\ Root \in Node /\ NoFile \notin Node
         /\ fid \in Fid /\ tip \in Fid /\ (pc # "idle" => fid \in {10, 12} /\ fid \in Fid \ {RootFid})
         /\ comps \in Seq(Component9) /\ progress \in 0 .. Len(comps)
         /\ qids \in Seq(Node) /\ Len(qids) = progress
<1>1. ChunkMax \in Nat /\ ChunkMax >= 1 /\ Root \in Node /\ NoFile \notin Node /\ RootFid \in Fid
  BY NinePAssumption
<1>2. {9, 10, 11, 12, 27} \subseteq Fid \ {RootFid}
  BY CatalogAssumption
<1>3. tree \in [Node -> Place] /\ db \in [Node -> Record] /\ Ready(session)
  BY DEF TypesInv, IsTree, Ready
<1>4. fid \in Fid /\ tip \in Fid /\ (pc # "idle" => fid \in {10, 12} /\ fid \in Fid \ {RootFid})
  <2>1. fid = (IF pc = "idle" THEN RootFid ELSE IF op = "dupcheck" THEN 12 ELSE 10)
    BY DEF TypesInv, CallTyped
  <2>4. tip \in {RootFid, fid}
    BY DEF TypesInv, BrowseTyped
  <2>2. pc # "idle" => fid \in {10, 12}
    BY <2>1
  <2>3. pc = "idle" => fid = RootFid
    BY <2>1
  <2> QED
    BY <1>1, <1>2, <2>2, <2>3, <2>4
<1> QED
  BY <1>1, <1>2, <1>3, <1>4 DEF TypesInv, BrowseTyped

(* The components that one request has. *)
Request(to) == Names(SubSeq(comps, progress + 1, to))

LEMMA TryDepthIs ==
  ASSUME TypesInv, progress < Len(comps)
  PROVE  TryDepth \in progress + 1 .. Len(comps) /\ TryDepth <= progress + ChunkMax
<1>1. PICK N \in Nat, p \in Nat : N = Len(comps) /\ p = progress /\ p < N
  BY TypesAre
<1>2. ChunkMax \in Nat /\ ChunkMax >= 1
  BY TypesAre
<1> DEFINE S == {N, p + ChunkMax}
<1>3. S \in SUBSET Nat /\ S # {}
  BY <1>1, <1>2
<1>4. Min(S) \in S /\ \A y \in S : Min(S) <= y
  BY <1>3, LeastIs
<1>5. TryDepth = Min(S)
  BY <1>1 DEF TryDepth
<1> QED
  BY <1>1, <1>2, <1>4, <1>5

LEMMA RequestIs ==
  ASSUME TypesInv, NEW to \in progress + 1 .. Len(comps), to <= progress + ChunkMax
  PROVE  /\ Request(to) \in Seq(Name \union {NoName, DotDot})
         /\ Len(Request(to)) = to - progress /\ Len(Request(to)) <= ChunkMax
         /\ \A i \in 1 .. to - progress : Request(to)[i] = comps[progress + i].name
<1>1. PICK path \in Seq(Component9), N \in Nat, p \in Nat : path = comps /\ N = Len(comps) /\ p = progress
  BY TypesAre
<1>2. ChunkMax \in Nat /\ to \in Nat /\ p + 1 <= to /\ to <= N /\ to <= p + ChunkMax
  BY <1>1, TypesAre
<1> DEFINE part == SubSeq(path, p + 1, to)
<1>3. /\ part \in Seq(Component9)
      /\ Len(part) = (IF p + 1 <= to THEN to - (p + 1) + 1 ELSE 0)
      /\ \A i \in 1 .. to - (p + 1) + 1 : part[i] = path[p + 1 + i - 1]
  <2>1. p + 1 \in Int /\ to \in Int /\ \A i \in p + 1 .. to : path[i] \in Component9
    BY <1>1, <1>2
  <2> HIDE DEF part
  <2> QED
    BY <2>1, SubSeqProperties DEF part
<1> HIDE DEF part
<1>4. Len(part) = to - p /\ \A i \in 1 .. to - p : part[i] = path[p + i]
  <2>1. to - (p + 1) + 1 = to - p /\ \A i \in 1 .. to - p : p + 1 + i - 1 = p + i
    BY <1>2
  <2> QED
    BY <1>2, <1>3, <2>1
<1>5. Names(part) = [i \in 1 .. to - p |-> part[i].name]
  <2>1. DOMAIN part = 1 .. to - p
    BY <1>3, <1>4
  <2> QED
    BY <2>1 DEF Names
<1>6. \A i \in 1 .. to - p : part[i].name \in Name \union {NoName, DotDot}
  <2> TAKE i \in 1 .. to - p
  <2>1. part[i] \in Component9
    BY <1>3, <1>4
  <2> QED
    BY <2>1 DEF Component9
<1>7. to - p \in Nat /\ to - p <= ChunkMax
  BY <1>2
<1>8. /\ Names(part) \in Seq(Name \union {NoName, DotDot}) /\ Len(Names(part)) = to - p
      /\ \A i \in 1 .. to - p : Names(part)[i] = path[p + i].name
  BY <1>4, <1>5, <1>6, <1>7
<1>9. Request(to) = Names(part)
  BY <1>1 DEF Request, part
<1> QED
  BY <1>1, <1>7, <1>8, <1>9

(* What the answer to it leads to. *)
CutShort(w, to) ==
  /\ Len(w.qids) < to - progress
  /\ tip' = tip /\ progress' = progress /\ qids' = qids /\ back' = 0 /\ pc' = "search"

(* The nodes met: those of before, and those of the answer. *)
Whole(w, to) ==
  LET nodes == qids \o w.qids
  IN  /\ Len(w.qids) = to - progress
      /\ tip' = fid /\ progress' \in progress .. to /\ back' = to - progress'
      /\ qids' \in Seq(Node) /\ Len(qids') = progress'
      /\ \A i \in 1 .. progress' : qids'[i] = nodes[i]
      /\ \A i \in progress + 1 .. progress' : comps[i].expect \in {NoFile, nodes[i]}
      /\ \/ progress' = to /\ pc' = Onward(to)
         \/ progress' < to /\ pc' = "back" /\ comps[progress' + 1].expect \notin {NoFile, nodes[progress' + 1]}

Walked(w, to) ==
  /\ to \in progress + 1 .. Len(comps) /\ to <= progress + ChunkMax
  /\ w = Walk9(tree, session, tip, fid, Request(to))
  /\ session' = w.s /\ Ready(w.s) /\ \A f \in Fid \ {fid} : w.s.at[f] = session.at[f]
  /\ w.qids \in Seq(Node) /\ Len(w.qids) <= to - progress
  /\ CutShort(w, to) \/ Whole(w, to)

LEMMA BrowseWalkIs ==
  ASSUME TypesInv, BrowseWalk
  PROVE  \E w, to : Walked(w, to)
<1>0. pc = "walk" /\ progress < Len(comps)
  BY DEF BrowseWalk, TypesInv, BrowseTyped, Searching
<1>1. PICK to : to = TryDepth /\ to \in progress + 1 .. Len(comps) /\ to <= progress + ChunkMax
  BY <1>0, TryDepthIs
<1>2. PICK w : w = Walk9(tree, session, tip, fid, Request(to))
  OBVIOUS
<1>3. /\ Ready(w.s) /\ \A f \in Fid \ {fid} : w.s.at[f] = session.at[f]
      /\ w.qids \in Seq(Node) /\ Len(w.qids) <= to - progress
  <2>1. PICK names : names = Request(to)
    OBVIOUS
  <2>2. names \in Seq(Name \union {NoName, DotDot}) /\ Len(names) = to - progress /\ Len(names) <= ChunkMax
    BY <1>1, <2>1, RequestIs
  <2>3. tree \in [Node -> Place] /\ Ready(session) /\ tip \in Fid /\ fid \in Fid \ {RootFid}
    BY <1>0, TypesAre
  <2>4. LET r == Walk9(tree, session, tip, fid, names)
        IN  /\ Ready(r.s) /\ \A f \in Fid \ {fid} : r.s.at[f] = session.at[f]
            /\ r.qids \in Seq(Node) /\ Len(r.qids) <= Len(names)
    BY <2>2, <2>3, WalkKeeps
  <2> QED
    BY <1>2, <2>1, <2>2, <2>4
<1> DEFINE nodes == qids \o w.qids
           whole == Len(nodes) = to
           wrong == IF whole THEN Wrong(progress, to, nodes) ELSE {}
           keep == IF ~whole THEN progress ELSE Min(wrong \union {to + 1}) - 1
<1>4. /\ session' = w.s
      /\ tip' = IF whole THEN fid ELSE tip
      /\ progress' = keep /\ qids' = SubSeq(nodes, 1, keep)
      /\ back' = IF whole THEN to - keep ELSE 0
      /\ pc' = IF wrong # {} THEN "back" ELSE IF whole THEN Onward(keep) ELSE "search"
  BY <1>1, <1>2, Zenon DEF BrowseWalk, Request
<1>5. PICK p \in Nat, q \in Seq(Node), r \in Seq(Node) :
        p = progress /\ q = qids /\ r = w.qids /\ Len(q) = p
  BY <1>3, TypesAre
<1>6. PICK all \in Seq(Node) :
        all = nodes /\ Len(all) = p + Len(r) /\ \A i \in 1 .. p : all[i] = q[i]
  <2>1. /\ q \o r \in Seq(Node) /\ Len(q \o r) = Len(q) + Len(r)
        /\ \A i \in 1 .. Len(q) + Len(r) : (q \o r)[i] = IF i <= Len(q) THEN q[i] ELSE r[i - Len(q)]
    BY ConcatProperties
  <2>2. Len(r) \in Nat
    OBVIOUS
  <2>3. \A i \in 1 .. p : (q \o r)[i] = q[i]
    BY <1>5, <2>1, <2>2
  <2> QED
    BY <1>5, <2>1, <2>3
<1>7. to \in Nat /\ p + 1 <= to /\ Len(r) \in Nat /\ Len(r) <= to - p /\ p \in Nat
  <2>1. Len(comps) \in Nat
    BY TypesAre
  <2> QED
    BY <1>1, <1>3, <1>5, <2>1
<1>10. whole <=> Len(all) = to
  BY <1>6
<1> HIDE DEF whole
<1>8. CASE ~whole
  <2>1. Len(r) < to - p
    <3>1. p + Len(r) # to
      BY <1>6, <1>8, <1>10
    <3>2. PICK n \in Nat : n = Len(r)
      BY <1>7
    <3> QED
      BY <1>7, <3>1, <3>2
  <2>2. progress' = p /\ qids' = SubSeq(all, 1, p) /\ tip' = tip /\ back' = 0 /\ pc' = "search"
    BY <1>4, <1>5, <1>6, <1>8
  <2>3. SubSeq(all, 1, p) = q
    <3>1. /\ SubSeq(all, 1, p) \in Seq(Node)
          /\ Len(SubSeq(all, 1, p)) = (IF 1 <= p THEN p - 1 + 1 ELSE 0)
          /\ \A i \in 1 .. p - 1 + 1 : SubSeq(all, 1, p)[i] = all[1 + i - 1]
      <4>1. 1 \in Int /\ p \in Int /\ \A i \in 1 .. p : all[i] \in Node
        BY <1>6, <1>7
      <4> QED
        BY <4>1, SubSeqProperties
    <3>2. PICK e : e = SubSeq(all, 1, p)
      OBVIOUS
    <3>3. e \in Seq(Node) /\ Len(e) = Len(q) /\ \A i \in 1 .. Len(e) : e[i] = q[i]
      BY <1>5, <1>6, <1>7, <3>1, <3>2
    <3> QED
      BY <3>2, <3>3
  <2>4. CutShort(w, to)
    BY <1>5, <2>1, <2>2, <2>3 DEF CutShort
  <2> QED
    BY <1>1, <1>2, <1>3, <1>4, <2>4 DEF Walked
<1>9. CASE whole
  <2>1. Len(r) = to - p /\ Len(all) = to
    BY <1>6, <1>7, <1>9, <1>10
  <2>2. PICK bad : bad = {i \in p + 1 .. to : comps[i].expect # NoFile /\ comps[i].expect # all[i]}
                   /\ bad = wrong
    BY <1>5, <1>6, <1>9 DEF Wrong
  <2>3. PICK S : S = bad \union {to + 1}
    OBVIOUS
  <2>11. S \in SUBSET Nat /\ S # {}
    BY <1>7, <2>2, <2>3
  <2>12. Min(S) \in S /\ \A y \in S : Min(S) <= y
    BY <2>11, LeastIs
  <2>4. PICK k : k = Min(bad \union {to + 1}) /\ k \in bad \union {to + 1} /\ \A y \in bad \union {to + 1} : k <= y
    BY <2>3, <2>12
  <2>5. k \in Nat /\ p + 1 <= k /\ k <= to + 1
    BY <1>7, <2>2, <2>4
  <2>6. progress' = k - 1 /\ qids' = SubSeq(all, 1, k - 1) /\ tip' = fid /\ back' = to - (k - 1)
        /\ pc' = IF bad # {} THEN "back" ELSE Onward(k - 1)
    BY <1>4, <1>6, <1>9, <2>2, <2>4
  <2>7. /\ SubSeq(all, 1, k - 1) \in Seq(Node) /\ Len(SubSeq(all, 1, k - 1)) = k - 1
        /\ \A i \in 1 .. k - 1 : SubSeq(all, 1, k - 1)[i] = all[i]
    <3>1. PICK m \in Nat : m = k - 1 /\ m <= to
      BY <1>7, <2>5
    <3>2. /\ SubSeq(all, 1, m) \in Seq(Node)
          /\ Len(SubSeq(all, 1, m)) = (IF 1 <= m THEN m - 1 + 1 ELSE 0)
          /\ \A i \in 1 .. m - 1 + 1 : SubSeq(all, 1, m)[i] = all[1 + i - 1]
      <4>1. 1 \in Int /\ m \in Int /\ \A i \in 1 .. m : all[i] \in Node
        BY <1>6, <1>7, <2>1, <3>1
      <4> QED
        BY <4>1, SubSeqProperties
    <3>3. PICK e : e = SubSeq(all, 1, m)
      OBVIOUS
    <3>4. e \in Seq(Node) /\ Len(e) = m /\ \A i \in 1 .. m : e[i] = all[i]
      BY <3>1, <3>2, <3>3
    <3> QED
      BY <3>1, <3>3, <3>4
  <2>8. \A i \in p + 1 .. k - 1 : comps[i].expect \in {NoFile, all[i]}
    <3> SUFFICES ASSUME NEW i \in p + 1 .. k - 1, comps[i].expect \notin {NoFile, all[i]} PROVE FALSE
      OBVIOUS
    <3>1. i \in p + 1 .. to
      BY <1>7, <2>5
    <3>2. i \in bad
      BY <2>2, <3>1
    <3>3. k <= i
      BY <2>4, <3>2
    <3>4. i <= k - 1 /\ i \in Int
      BY <1>7, <2>5
    <3> QED
      BY <2>5, <3>3, <3>4
  <2>9. CASE k \in bad
    <3>1. k \in p + 1 .. to /\ comps[k].expect \notin {NoFile, all[k]} /\ bad # {}
      BY <2>2, <2>9
    <3>2. k - 1 \in p .. to /\ k - 1 < to /\ k - 1 + 1 = k
      BY <1>7, <2>5, <3>1
    <3>3. Whole(w, to)
      BY <1>5, <1>6, <2>1, <2>6, <2>7, <2>8, <3>1, <3>2 DEF Whole
    <3> QED
      BY <1>1, <1>2, <1>3, <1>4, <3>3 DEF Walked
  <2>10. CASE k \notin bad
    <3>1. k = to + 1
      BY <2>4, <2>10
    <3>2. bad = {}
      <4> SUFFICES ASSUME NEW i \in bad PROVE FALSE
        OBVIOUS
      <4>1. i \in p + 1 .. to /\ k <= i
        BY <2>2, <2>4
      <4> QED
        BY <1>7, <3>1, <4>1
    <3>3. k - 1 = to /\ to \in p .. to
      BY <1>7, <3>1
    <3>4. Whole(w, to)
      BY <1>5, <1>6, <2>1, <2>6, <2>7, <2>8, <3>2, <3>3 DEF Whole
    <3> QED
      BY <1>1, <1>2, <1>3, <1>4, <3>4 DEF Walked
  <2> QED
    BY <2>9, <2>10
<1> QED
  BY <1>8, <1>9

-----------------------------------------------------------------------------
(* The tree stays one *)

(* A directory that is not below a file has no way up that returns to it.   *)
LEMMA NotBelow ==
  ASSUME IsTree(tree), NEW n \in Node \ {Root}, NEW d \in Node, Exists(tree, d), d \notin Below(n),
         NEW S \in SUBSET (Node \ {Root}), n \in S, d \in S
  PROVE  \E x \in S \ {n} : tree[x].dir \notin S
<1> SUFFICES ASSUME \A x \in S \ {n} : tree[x].dir \in S PROVE FALSE
  OBVIOUS
<1> DEFINE N == Cardinality(Node)
           T == {x \in Node : Exists(tree, x)}
           step == [i \in 1 .. N |-> [x \in T |-> tree[x].dir]]
           is(g) == g = [j \in 0 .. N |-> IF j = 0 THEN d ELSE tree[g[j - 1]].dir]
<1>0. N \in Nat /\ d \in T
  BY TreeAssumption, FS_CardinalityType
<1>1. step \in [1 .. N -> [T -> T]]
  <2>1. \A x \in T : tree[x].dir \in T
    BY TreeIs
  <2> HIDE DEF T
  <2> QED
    BY <2>1
<1> HIDE DEF N
<1>2. PICK f : Follows(f, T, d, step, N)
  <2> HIDE DEF step, T
  <2> QED
    BY <1>0, <1>1, RecursionExists
<1>3. is(f)
  <2>1. ASSUME NEW i \in 0 .. N
        PROVE  f[i] = IF i = 0 THEN d ELSE tree[f[i - 1]].dir
    <3>1. CASE i = 0
      BY <1>2, <3>1 DEF Follows
    <3>2. CASE i # 0
      <4>1. i \in 1 .. N /\ i - 1 \in 0 .. N
        BY <1>0, <3>2
      <4>2. f[i - 1] \in T /\ f[i] = step[i][f[i - 1]]
        BY <1>2, <4>1 DEF Follows
      <4> QED
        BY <3>2, <4>1, <4>2
    <3> QED
      BY <3>1, <3>2
  <2>2. f = [i \in 0 .. N |-> f[i]]
    BY <1>2 DEF Follows
  <2> QED
    BY <2>1, <2>2
<1> DEFINE up == CHOOSE g : is(g)
<1>4. is(up)
  <2> HIDE DEF is
  <2> QED
    BY <1>3
<1>5. \A i \in 0 .. N : ~((\A j \in 0 .. i - 1 : up[j] # Root) /\ up[i] = n)
  <2> SUFFICES ASSUME NEW i \in 0 .. N, \A j \in 0 .. i - 1 : up[j] # Root, up[i] = n
               PROVE  d \in Below(n)
    OBVIOUS
  <2>1. d # Root
    OBVIOUS
  <2> HIDE DEF up
  <2> QED
    BY <2>1 DEF Below, N, up
<1> HIDE DEF up
<1>6. up \in [0 .. N -> Node] /\ up[0] = d /\ \A i \in 1 .. N : up[i] = tree[up[i - 1]].dir
  <2>1. up[0] = d /\ \A i \in 1 .. N : up[i] = tree[up[i - 1]].dir
    BY <1>0, <1>4
  <2>2. \A i \in 0 .. N : up[i] \in T
    <3>1. \A i \in 1 .. N : up[i - 1] \in T => up[i] \in T
      BY <2>1, TreeIs
    <3> HIDE DEF T
    <3> QED
      BY <1>0, <2>1, <3>1, StaysIn, Zenon
  <2>3. up = [i \in 0 .. N |-> up[i]]
    BY <1>4
  <2> QED
    BY <2>1, <2>2, <2>3
<1>7. \A i \in 0 .. N : up[i] \in S \ {n}
  <2> DEFINE P == {i \in 0 .. N : \A j \in 0 .. i : up[j] \in S \ {n}}
  <2>1. 0 \in P
    <3>1. up[0] # n
      BY <1>0, <1>5
    <3> QED
      BY <1>0, <1>6, <3>1
  <2>2. ASSUME NEW i \in 1 .. N, i - 1 \in P PROVE i \in P
    <3>1. \A j \in 0 .. i - 1 : up[j] \in S \ {n}
      BY <2>2
    <3>2. up[i] \in S
      <4>1. i - 1 \in 0 .. i - 1
        OBVIOUS
      <4> QED
        BY <1>6, <3>1, <4>1
    <3>3. up[i] # n
      BY <1>5, <3>1
    <3>4. \A j \in 0 .. i : j \in 0 .. i - 1 \/ j = i
      OBVIOUS
    <3> QED
      BY <3>1, <3>2, <3>3, <3>4
  <2> HIDE DEF P
  <2>3. \A i \in 0 .. N : i \in P
    BY <1>0, <2>1, <2>2, UpTo
  <2> QED
    BY <2>3 DEF P
<1>8. PICK parent : parent = [x \in Node |-> tree[x].dir]
  OBVIOUS
<1>9. \A i \in 1 .. N : up[i] = parent[up[i - 1]]
  <2> TAKE i \in 1 .. N
  <2>1. up[i - 1] \in Node
    <3>1. i - 1 \in 0 .. N
      BY <1>0
    <3> QED
      BY <1>6, <3>1
  <2> QED
    BY <1>6, <1>8, <2>1
<1>10. PICK S2 \in SUBSET Node :
         S2 # {} /\ S2 \subseteq {up[i] : i \in 0 .. N} /\ \A x \in S2 : parent[x] \in S2
  BY <1>6, <1>9, GoneAround DEF N
<1>11. S2 \subseteq S
  BY <1>7, <1>10
<1>12. S2 \in (SUBSET (Node \ {Root})) \ {{}} /\ \A x \in S2 : tree[x].dir \in S2
  BY <1>8, <1>10, <1>11
<1> QED
  BY <1>12 DEF IsTree

(* A file that is not there has nothing below it. *)
LEMMA NothingBelowNew ==
  ASSUME IsTree(tree), NEW n \in Node \ {Root}, ~Exists(tree, n), NEW d \in Node, Exists(tree, d),
         NEW S \in SUBSET (Node \ {Root}), n \in S, d \in S
  PROVE  \E x \in S \ {n} : tree[x].dir \notin S
<1>1. S \ {n} \in (SUBSET (Node \ {Root})) \ {{}}
  OBVIOUS
<1>2. PICK x \in S \ {n} : tree[x].dir \notin S \ {n}
  BY <1>1 DEF IsTree
<1>3. tree[x].dir # n
  <2>1. x \in Node /\ (tree[x].dir # NoFile => Exists(tree, x))
    BY TreeIs
  <2>2. Exists(tree, x) => Exists(tree, tree[x].dir)
    BY <2>1, TreeIs
  <2> QED
    BY <2>1, <2>2, NinePAssumption
<1> QED
  BY <1>2, <1>3

LEMMA HostKeepsTree ==
  ASSUME IsTree(tree), HostPlaces \/ HostRemoves
  PROVE  IsTree(tree')
<1>1. CASE HostPlaces
  <2>1. PICK n \in Node \ {Root}, d \in Dirs, m \in Name :
          /\ Present(d) /\ Vacant(d, m) /\ d \notin Below(n)
          /\ tree' = [tree EXCEPT ![n] = [dir |-> d, name |-> m]]
    BY <1>1 DEF HostPlaces
  <2>2. Exists(tree, d) /\ Named(tree, d, m) \subseteq {n} /\ d \in Node
    BY <2>1, NinePAssumption DEF Present, Vacant
  <2>3. \A S \in SUBSET (Node \ {Root}) :
          n \in S /\ d \in S => \E x \in S \ {n} : tree[x].dir \notin S
    BY <2>1, <2>2, NotBelow
  <2> QED
    BY <2>1, <2>2, <2>3, PlacedIsTree
<1>2. CASE HostRemoves
  <2>1. PICK n \in Node \ {Root} : Children(tree, n) = {} /\ tree' = [tree EXCEPT ![n] = Nowhere]
    BY <1>2 DEF HostRemoves
  <2> QED
    BY <2>1, RemovedIsTree
<1> QED
  BY <1>1, <1>2

-----------------------------------------------------------------------------
(* Types *)

LEMMA IdleTyped ==
  ASSUME Idle, world' \in Worlds, calls' \in Nat, moves' \in Nat
  PROVE  BrowseTyped' /\ CallTyped'
<1>1. /\ pc' = "idle" /\ op' = "none" /\ asked' = [cnid |-> Root, rel |-> <<>>]
      /\ fid' = RootFid /\ comps' = <<>> /\ progress' = 0 /\ tip' = RootFid
      /\ qids' = <<>> /\ back' = 0 /\ result' = "none" /\ child' = Root /\ newName' = NoName
  BY DEF Idle, NoPath
<1>2. /\ <<>> \in Seq(Component9) /\ <<>> \in Seq(Node) /\ Len(<<>>) = 0
      /\ <<>> \in Seq(Name \union {DotDot}) /\ 0 \in 0 .. 0 /\ 0 + 0 <= 0
      /\ Root \in Node /\ Root \in Nodes /\ 0 \in 0 .. ChunkMax
  BY NinePAssumption DEF Nodes
<1>3. BrowseTyped'
  BY <1>1, <1>2 DEF BrowseTyped, Browsing, Searching
<1>4. CallTyped'
  BY <1>1, <1>2 DEF CallTyped, Errors
<1> QED
  BY <1>3, <1>4

(* The parameters of a call stay until it ends. *)
LEMMA CallKept ==
  ASSUME CallTyped, UNCHANGED callVars, UNCHANGED <<calls, moves, world>>,
         pc # "idle", pc' # "idle", result' \in Node \union Errors,
         result' \notin Node => result \notin Node /\ db' = db
  PROVE  CallTyped'
<1>1. op' = op /\ asked' = asked /\ fid' = fid /\ child' = child /\ newName' = newName
      /\ calls' = calls /\ moves' = moves /\ world' = world
  BY DEF callVars
<1>2. Found' <=> result' \in Node
  BY DEF Found
<1>3. Found <=> result \in Node
  BY DEF Found
<1>4. (op = "create" /\ ~Found => Sensible(asked.cnid, asked.rel))'
  <2> SUFFICES ASSUME op' = "create", ~Found' PROVE Sensible(asked.cnid, asked.rel)'
    OBVIOUS
  <2>1. Sensible(asked.cnid, asked.rel) /\ db' = db
    BY <1>1, <1>2, <1>3 DEF CallTyped
  <2> QED
    BY <1>1, <2>1, SensibleKept
<1>5. /\ asked.cnid \in Nodes /\ asked.rel \in Seq(Name \union {DotDot})
      /\ child \in Node /\ newName \in Name \union {NoName}
      /\ op \in {"rename", "createIn", "dupcheck"} => newName \in Name
      /\ fid = (IF op = "dupcheck" THEN 12 ELSE 10)
      /\ world \in Worlds /\ calls \in Nat /\ moves \in Nat
  BY DEF CallTyped
<1> QED
  BY <1>1, <1>4, <1>5 DEF CallTyped

LEMMA WalkTyped ==
  ASSUME TypesInv, BrowseWalk
  PROVE  TypesInv'
<1>1. PICK w, to : Walked(w, to)
  BY BrowseWalkIs
<1>2. UNCHANGED <<tree, db, comps, listed, callVars, result, calls, moves, world>> /\ pc = "walk"
  BY DEF BrowseWalk
<1>3. session' = w.s /\ Ready(w.s) /\ to \in progress + 1 .. Len(comps) /\ to <= progress + ChunkMax
      /\ (CutShort(w, to) \/ Whole(w, to))
  BY <1>1 DEF Walked
<1>4. PICK N \in Nat, p \in Nat, k \in Nat : N = Len(comps) /\ p = progress /\ k = to
                                          /\ p + 1 <= k /\ k <= N /\ k <= p + ChunkMax
  BY <1>3, TypesAre
<1>5. ChunkMax \in Nat
  BY NinePAssumption
<1>6. /\ comps \in Seq(Component9) /\ comps # <<>> /\ ~IsClimb(comps) /\ result = "none"
      /\ qids \in Seq(Node) /\ Len(qids) = progress /\ tip \in {RootFid, fid}
  BY <1>2 DEF TypesInv, BrowseTyped, Browsing, Searching
<1>8. comps' = comps /\ result' = result /\ fid' = fid /\ Len(comps') = N
  BY <1>2, <1>4 DEF callVars
<1>9. IsClimb(comps)' <=> IsClimb(comps)
  BY <1>8 DEF IsClimb
<1>10. BrowseTyped' /\ pc' # "idle"
  <2>1. CASE CutShort(w, to)
    <3>1. tip' = tip /\ progress' = p /\ qids' = qids /\ back' = 0 /\ pc' = "search"
      BY <1>4, <2>1 DEF CutShort
    <3>2. p \in 0 .. N /\ p + 0 <= N /\ p < N /\ 0 \in 0 .. ChunkMax
      BY <1>4, <1>5
    <3> QED
      BY <1>4, <1>6, <1>8, <1>9, <3>1, <3>2 DEF BrowseTyped, Browsing, Searching
  <2>2. CASE Whole(w, to)
    <3>1. /\ tip' = fid /\ progress' \in p .. k /\ back' = k - progress'
          /\ qids' \in Seq(Node) /\ Len(qids') = progress'
          /\ \/ progress' = k /\ pc' = Onward(to)
             \/ progress' < k /\ pc' = "back"
      BY <1>4, <2>2 DEF Whole
    <3>4. PICK q \in p .. k : q = progress' /\ back' = k - q
      BY <3>1
    <3>5. q \in 0 .. N /\ k - q \in 0 .. ChunkMax /\ q + (k - q) <= N
      BY <1>4, <1>5
    <3>2. /\ progress' \in 0 .. N /\ back' \in 0 .. ChunkMax /\ progress' + back' <= N
      BY <3>4, <3>5
    <3>3. \/ progress' < N /\ pc' = "back"
          \/ progress' < N /\ back' = 0 /\ pc' = "walk"
          \/ progress' = N /\ back' = 0 /\ pc' = "found"
      <4>1. CASE q = k /\ pc' = Onward(to)
        <5>1. k - q = 0 /\ (k < N \/ k = N)
          BY <1>4, <4>1
        <5>2. pc' = IF k < N THEN "walk" ELSE "found"
          BY <1>4, <4>1 DEF Onward
        <5> QED
          BY <1>4, <3>4, <4>1, <5>1, <5>2
      <4>2. CASE q < k /\ pc' = "back"
        BY <1>4, <3>4, <4>2
      <4> QED
        BY <3>1, <3>4, <4>1, <4>2
    <3> QED
      BY <1>4, <1>6, <1>8, <1>9, <3>1, <3>2, <3>3 DEF BrowseTyped, Browsing, Searching
  <2> QED
    BY <1>3, <2>1, <2>2
<1>11. CallTyped'
  <2>1. CallTyped /\ result \in Node \union Errors /\ result \notin Node
    BY <1>6, CatalogAssumption DEF TypesInv, CallTyped, Errors
  <2>2. UNCHANGED callVars /\ UNCHANGED <<calls, moves, world>> /\ result' = result /\ db' = db
    BY <1>2
  <2> QED
    BY <1>2, <1>10, <2>1, <2>2, CallKept
<1>12. tree' = tree /\ db' = db /\ IsTree(tree) /\ db \in [Node -> Record]
  BY <1>2 DEF TypesInv
<1> QED
  BY <1>3, <1>10, <1>11, <1>12 DEF TypesInv, Ready

WayBackIs == 
  \A n \in Nat : WayBack(n) \in Seq({DotDot}) /\ Len(WayBack(n)) = n
                 /\ \A i \in 1 .. n : WayBack(n)[i] = DotDot

LEMMA WayBackAlways == WayBackIs
BY DEF WayBackIs, WayBack

(* The session after a walk, whatever becomes of it. *)
LEMMA WalkReady ==
  ASSUME TypesInv, NEW fd \in Fid, NEW newfid \in Fid \ {RootFid},
         NEW S, NEW names \in Seq(S), Len(names) <= ChunkMax
  PROVE  /\ Ready(Walk9(tree, session, fd, newfid, names).s)
         /\ \A f \in Fid \ {newfid} : Walk9(tree, session, fd, newfid, names).s.at[f] = session.at[f]
<1>1. tree \in [Node -> Place] /\ Ready(session)
  BY TypesAre
<1>2. LET r == Walk9(tree, session, fd, newfid, names)
      IN  Ready(r.s) /\ \A f \in Fid \ {newfid} : r.s.at[f] = session.at[f]
  BY <1>1, WalkKeeps
<1> QED
  BY <1>2

LEMMA BackTyped ==
  ASSUME TypesInv, BrowseBack
  PROVE  TypesInv'
<1>1. /\ UNCHANGED <<tree, db, comps, progress, tip, qids, listed, callVars, result, calls, moves, world>>
      /\ pc = "back" /\ back' = 0 /\ pc' = "search"
      /\ session' = Walk9(tree, session, tip, fid, WayBack(back)).s
  BY DEF BrowseBack
<1>2. Ready(session')
  <2>1. back \in Nat /\ back <= ChunkMax
    BY NinePAssumption DEF TypesInv, BrowseTyped
  <2>2. PICK names : names = WayBack(back)
    OBVIOUS
  <2>3. names \in Seq({DotDot}) /\ Len(names) <= ChunkMax
    BY <2>1, <2>2, WayBackAlways DEF WayBackIs
  <2>4. tip \in Fid /\ fid \in Fid \ {RootFid}
    BY <1>1, TypesAre
  <2>5. Ready(Walk9(tree, session, tip, fid, names).s)
    BY <2>3, <2>4, WalkReady
  <2> QED
    BY <1>1, <2>2, <2>5
<1>3. IsClimb(comps)' <=> IsClimb(comps)
  BY <1>1 DEF IsClimb
<1>4. BrowseTyped'
  <2>1. BrowseTyped /\ fid' = fid /\ 0 \in 0 .. ChunkMax
    BY <1>1, NinePAssumption DEF TypesInv, callVars
  <2>2. progress + 0 <= Len(comps)
    BY TypesAre
  <2> QED
    BY <1>1, <1>3, <2>1, <2>2 DEF BrowseTyped, Browsing, Searching
<1>5. result = "none" /\ result \notin Node
  BY <1>1, CatalogAssumption DEF TypesInv, BrowseTyped, Browsing, Searching, Errors
<1>6. CallTyped'
  <2>1. CallTyped /\ result \in Node \union Errors
    BY DEF TypesInv, CallTyped
  <2>2. UNCHANGED callVars /\ UNCHANGED <<calls, moves, world>> /\ result' = result /\ db' = db
    BY <1>1
  <2> QED
    BY <1>1, <1>5, <2>1, <2>2, CallKept
<1> QED
  BY <1>1, <1>2, <1>4, <1>6 DEF TypesInv, Ready

(* What the fid of the listing is for is over when the listing is. *)
LEMMA SearchReady ==
  ASSUME TypesInv, pc = "search", BrowseSearch
  PROVE  Ready(session') /\ \A f \in Fid \ {27} : session'.at[f] = session.at[f]
<1>1. PICK s : s = Walk9(tree, session, tip, 27, <<>>).s
               /\ session' = IF ~OpensDir(tree, s, 27) THEN s ELSE Listed(s)
  BY DEF BrowseSearch
<1>2. Ready(s) /\ \A f \in Fid \ {27} : s.at[f] = session.at[f]
  <2>1. PICK e : e = <<>>
    OBVIOUS
  <2>2. e \in Seq(Name) /\ Len(e) <= ChunkMax /\ tip \in Fid /\ 27 \in Fid \ {RootFid}
    <3>1. <<>> \in Seq(Name) /\ Len(<<>>) = 0
      OBVIOUS
    <3> QED
      BY <2>1, <3>1, TypesAre
  <2>3. /\ Ready(Walk9(tree, session, tip, 27, e).s)
        /\ \A f \in Fid \ {27} : Walk9(tree, session, tip, 27, e).s.at[f] = session.at[f]
    BY <2>2, WalkReady
  <2> QED
    BY <1>1, <2>1, <2>3
<1>3. 27 \in Fid \ {RootFid}
  BY TypesAre
<1>4. CASE OpensDir(tree, s, 27)
  <2>1. InUse(s, 27)
    BY <1>4 DEF OpensDir
  <2>2. Ready(Listed(s)) /\ \A f \in Fid \ {27} : Listed(s).at[f] = s.at[f]
    BY <1>2, <1>3, <2>1, ListedReady
  <2> QED
    BY <1>1, <1>2, <1>4, <2>2
<1> QED
  BY <1>1, <1>2, <1>4

LEMMA SearchTyped ==
  ASSUME TypesInv, BrowseSearch
  PROVE  TypesInv'
<1>1. /\ UNCHANGED <<tree, db, comps, progress, tip, qids, back, callVars, calls, moves, world>>
      /\ pc = "search"
      /\ \/ pc' = "returned" /\ result' = "fnfErr"
         \/ pc' = "enter" /\ result' = result /\ comps[progress + 1].expect \in Node
  <2>1. /\ pc = "search"
        /\ UNCHANGED <<tree, db, comps, progress, tip, qids, back, callVars, calls, moves, world>>
    BY DEF BrowseSearch
  <2>2. \/ pc' = "returned" /\ result' = "fnfErr"
        \/ pc' = "enter" /\ result' = result /\ comps[progress + 1].expect \in Node
    BY DEF BrowseSearch, Children, Return
  <2> QED
    BY <2>1, <2>2
<1>2. Ready(session')
  BY <1>1, SearchReady
<1>3. IsClimb(comps)' <=> IsClimb(comps)
  BY <1>1 DEF IsClimb
<1>4. BrowseTyped'
  <2>1. BrowseTyped /\ fid' = fid
    BY <1>1 DEF TypesInv, callVars
  <2> QED
    BY <1>1, <1>3, <2>1 DEF BrowseTyped, Browsing, Searching
<1>5. result = "none" /\ result \notin Node /\ "fnfErr" \notin Node /\ "fnfErr" \in Errors
  BY <1>1, CatalogAssumption DEF TypesInv, BrowseTyped, Browsing, Searching, Errors
<1>6. CallTyped'
  <2>1. CallTyped /\ result \in Node \union Errors
    BY DEF TypesInv, CallTyped
  <2>2. UNCHANGED callVars /\ UNCHANGED <<calls, moves, world>> /\ db' = db
    BY <1>1
  <2>3. result' \in Node \union Errors /\ pc # "idle" /\ pc' # "idle"
    BY <1>1, <1>5, <2>1
  <2> QED
    BY <1>5, <2>1, <2>2, <2>3, CallKept
<1> QED
  BY <1>1, <1>2, <1>4, <1>6 DEF TypesInv, Ready

(* One component more. *)
Entered ==
  /\ fid' = fid /\ tip' = fid /\ progress' = progress + 1 /\ pc' = Onward(progress + 1)
  /\ qids' = Append(qids, comps[progress + 1].expect) /\ result' = result

LEMMA EnterTyped ==
  ASSUME TypesInv, BrowseEnter
  PROVE  /\ TypesInv'
         /\ \A f \in Fid \ {fid} : session'.at[f] = session.at[f]
         /\ LET w == Walk9(tree, session, tip, fid, <<listed>>)
            IN  /\ session' = w.s
                /\ \/ w.err /\ pc' = "returned" /\ result' = "fnfErr"
                              /\ UNCHANGED <<tip, qids, progress>>
                   \/ ~w.err /\ Entered
<1>1. UNCHANGED <<tree, db, comps, back, listed, callVars, calls, moves, world>> /\ pc = "enter"
  BY DEF BrowseEnter
<1>2. PICK w : w = Walk9(tree, session, tip, fid, <<listed>>)
  OBVIOUS
<1>3. /\ session' = w.s
      /\ \/ w.err /\ pc' = "returned" /\ result' = "fnfErr" /\ UNCHANGED <<tip, qids, progress>>
         \/ ~w.err /\ Entered
  BY <1>1, <1>2 DEF BrowseEnter, Return, Counted, Entered, callVars
<1>4. Ready(session') /\ \A f \in Fid \ {fid} : session'.at[f] = session.at[f]
  <2>1. PICK names \in Seq({listed}) : names = <<listed>> /\ Len(names) <= ChunkMax
    <3>1. <<listed>> \in Seq({listed}) /\ Len(<<listed>>) = 1
      OBVIOUS
    <3> QED
      BY <3>1, TypesAre
  <2>2. tip \in Fid /\ fid \in Fid \ {RootFid}
    BY <1>1, TypesAre
  <2>3. /\ Ready(Walk9(tree, session, tip, fid, names).s)
        /\ \A f \in Fid \ {fid} : Walk9(tree, session, tip, fid, names).s.at[f] = session.at[f]
    BY <2>1, <2>2, WalkReady
  <2> QED
    BY <1>2, <1>3, <2>1, <2>3
<1>5. IsClimb(comps)' <=> IsClimb(comps)
  BY <1>1 DEF IsClimb
<1>6. /\ BrowseTyped /\ fid' = fid /\ progress < Len(comps) /\ comps[progress + 1].expect \in Node
      /\ progress + 0 <= Len(comps) /\ progress \in Nat /\ Len(comps) \in Nat /\ result = "none"
      /\ back \in 0 .. ChunkMax /\ progress + back <= Len(comps)
      /\ qids \in Seq(Node) /\ Len(qids) = progress
  BY <1>1 DEF TypesInv, BrowseTyped, Searching, Browsing, callVars
<1>7. BrowseTyped' /\ pc' # "idle"
  <2>1. CASE pc' = "returned" /\ UNCHANGED <<tip, qids, progress>>
    BY <1>1, <1>5, <1>6, <2>1 DEF BrowseTyped, Browsing, Searching
  <2>2. CASE Entered
    <3>1. back = 0 /\ progress + 1 \in 0 .. Len(comps) /\ (progress + 1 < Len(comps) \/ progress + 1 = Len(comps))
      BY <1>1, <1>6 DEF TypesInv, BrowseTyped
    <3>2. Append(qids, comps[progress + 1].expect) \in Seq(Node)
          /\ Len(Append(qids, comps[progress + 1].expect)) = progress + 1
      BY <1>6
    <3>3. /\ tip' = fid /\ progress' = progress + 1 /\ result' = "none" /\ back' = 0 /\ fid' = fid
          /\ qids' \in Seq(Node) /\ Len(qids') = progress + 1 /\ comps' = comps
          /\ pc' = IF progress + 1 < Len(comps) THEN "walk" ELSE "found"
      BY <1>1, <1>6, <2>2, <3>1, <3>2 DEF Entered, Onward
    <3>4. BrowseTyped /\ pc = "enter"
      BY <1>1, <1>6
    <3> QED
      BY <1>5, <3>1, <3>3, <3>4 DEF BrowseTyped, Browsing, Searching
  <2> QED
    BY <1>3, <2>1, <2>2
<1>8. result \notin Node /\ "fnfErr" \notin Node /\ "fnfErr" \in Errors
  BY <1>6, CatalogAssumption DEF Errors
<1>9. CallTyped'
  <2>1. CallTyped /\ result \in Node \union Errors
    BY DEF TypesInv, CallTyped
  <2>2. UNCHANGED callVars /\ UNCHANGED <<calls, moves, world>> /\ db' = db
    BY <1>1
  <2>3. result' \in Node \union Errors /\ pc # "idle" /\ pc' # "idle"
    BY <1>1, <1>3, <1>7, <1>8, <2>1 DEF Entered
  <2> QED
    BY <1>8, <2>1, <2>2, <2>3, CallKept
<1>10. TypesInv'
  BY <1>1, <1>4, <1>7, <1>9 DEF TypesInv, Ready
<1> QED
  BY <1>2, <1>3, <1>4, <1>10

LEMMA FoundTyped ==
  ASSUME TypesInv, BrowseFound
  PROVE  /\ TypesInv' /\ result' = qids[progress] /\ progress > 0
         /\ \E f : NotedAlong(f, comps, qids) /\ db' = f[Len(comps)]
<1>1. /\ pc = "found" /\ pc' = "returned" /\ db' = Noting(comps, qids) /\ result' = Last(qids)
      /\ UNCHANGED <<tree, session, browseVars, callVars, calls, moves, world>>
  BY DEF BrowseFound, Return
<1>2. UNCHANGED <<comps, progress, tip, qids, back, listed>> /\ fid' = fid
  BY <1>1 DEF browseVars, callVars
<1>3. /\ BrowseTyped /\ comps # <<>> /\ ~IsClimb(comps) /\ progress = Len(comps)
      /\ comps \in Seq(Component9) /\ qids \in Seq(Node) /\ Len(qids) = progress
  BY <1>1 DEF TypesInv, BrowseTyped, Browsing
<1>4. progress > 0 /\ result' = qids[progress] /\ result' \in Node
  <2>1. PICK n \in Nat : n = Len(qids) /\ n > 0
    BY <1>3
  <2>2. qids[n] \in Node
    BY <1>3, <2>1
  <2>3. Last(qids) = qids[Len(qids)]
    BY DEF Last
  <2> QED
    BY <1>1, <1>3, <2>1, <2>2, <2>3
<1>5. PICK f : NotedAlong(f, comps, qids) /\ db' = f[Len(comps)]
  <2>1. db \in [Node -> Record]
    BY TypesAre
  <2>2. \E f : NotedAlong(f, comps, qids) /\ Noting(comps, qids) = f[Len(comps)]
    BY <1>3, <2>1, NotingIs
  <2> QED
    BY <1>1, <2>2
<1>6. db' \in [Node -> Record]
  <2>1. f \in [0 .. Len(comps) -> [Node -> Record]] /\ Len(comps) \in 0 .. Len(comps)
    BY <1>3, <1>5 DEF NotedAlong
  <2> QED
    BY <1>5, <2>1
<1>7. IsClimb(comps)' <=> IsClimb(comps)
  BY <1>2 DEF IsClimb
<1>8. BrowseTyped'
  BY <1>1, <1>2, <1>3, <1>7 DEF BrowseTyped, Browsing, Searching
<1>9. CallTyped'
  <2>1. CallTyped
    BY DEF TypesInv
  <2> QED
    BY <1>1, <1>4, <2>1, CallKept
<1> QED
  BY <1>1, <1>4, <1>5, <1>6, <1>8, <1>9 DEF TypesInv

-----------------------------------------------------------------------------
(* The calls *)

LEMMA SensibleNext ==
  ASSUME db' = db, NEW c, NEW rel, Sensible(c, rel), asked' = [cnid |-> c, rel |-> rel]
  PROVE  Sensible(asked.cnid, asked.rel)'
<1>2. Upwards(c)' = Upwards(c)
  BY DEF Upwards
<1>3. Endless(c)' = Endless(c) /\ BadCNID(c)' = BadCNID(c) /\ PathOf(c)' = PathOf(c)
  BY <1>2 DEF Endless, BadCNID, PathOf, Ends
<1>4. Sensible(c, rel)' = Sensible(c, rel)
  BY <1>3 DEF Sensible, Unexpected, IsClimb
<1>5. asked.cnid' = c /\ asked.rel' = rel
  OBVIOUS
<1> QED
  BY <1>4, <1>5

(* A browse that starts anew is well typed if the call is. *)
LEMMA BeginTyped ==
  ASSUME TypesInv, NEW f \in {10, 12}, NEW c \in Nodes, NEW rel \in Seq(Name \union {DotDot}),
         Browse(f, c, rel), ~Endless(c) /\ ~BadCNID(c) => ~IsClimb(FullPath(c, rel)),
         UNCHANGED <<tree, db>>, world' \in Worlds, calls' \in Nat, moves' \in Nat,
         child' \in Node, newName' \in Name \union {NoName},
         op' \in {"rename", "createIn", "dupcheck"} => newName' \in Name,
         f = (IF op' = "dupcheck" THEN 12 ELSE 10),
         op' = "create" => Sensible(c, rel)
  PROVE  TypesInv' /\ Begun(f, c, rel) /\ pc' # "idle"
<1>1. f \in Fid \ {RootFid} /\ tree \in [Node -> Place] /\ db \in [Node -> Record] /\ Ready(session)
  BY TypesAre
<1>2. Begun(f, c, rel)
  BY <1>1, BrowseIs
<1>3. BrowseTyped' /\ result' \in Node \union Errors /\ pc' # "idle"
  BY <1>1, <1>2, BegunTyped
<1>4. fid' = f /\ asked' = [cnid |-> c, rel |-> rel] /\ Ready(session')
  BY <1>2 DEF Begun
<1>5. op' = "create" => Sensible(asked.cnid, asked.rel)'
  BY <1>4, SensibleNext
<1>6. CallTyped'
  BY <1>3, <1>4, <1>5 DEF CallTyped
<1>7. tree' = tree /\ db' = db /\ IsTree(tree) /\ db \in [Node -> Record]
  BY DEF TypesInv
<1> QED
  BY <1>2, <1>3, <1>4, <1>6, <1>7 DEF TypesInv, Ready

CallNames == {"lookup", "create", "delete", "rename"}

LEMMA CallIs ==
  ASSUME TypesInv, Lookup \/ FsCreate \/ FsDelete \/ FsRename
  PROVE  \E o \in CallNames, c \in Node, rel \in RelPaths, new \in Name \union {NoName} :
           /\ pc = "idle" /\ Call(o, c, rel, new) /\ (o = "rename" => new \in Name)
<1>1. CASE Lookup
  BY <1>1 DEF Lookup, NextCall, CallNames
<1>2. CASE FsCreate
  BY <1>2 DEF FsCreate, NextCall, CallNames
<1>3. CASE FsDelete
  BY <1>3 DEF FsDelete, NextCall, CallNames
<1>4. CASE FsRename
  BY <1>4 DEF FsRename, NextCall, CallNames
<1> QED
  BY <1>1, <1>2, <1>3, <1>4

LEMMA CallTypes ==
  ASSUME TypesInv, NEW o \in CallNames, NEW c \in Node, NEW rel \in RelPaths,
         NEW new \in Name \union {NoName}, Call(o, c, rel, new), o = "rename" => new \in Name
  PROVE  TypesInv' /\ Begun(10, c, rel) /\ pc' # "idle"
<1>1. /\ Sensible(c, rel) /\ calls' = calls + 1 /\ op' = o /\ newName' = new
      /\ Browse(10, c, rel) /\ UNCHANGED <<tree, db, child, moves, world>>
  BY DEF Call
<1>2. world \in Worlds /\ calls \in Nat /\ moves \in Nat /\ child \in Node
  BY DEF TypesInv, CallTyped
<1>3. rel \in Seq(Name \union {DotDot})
  BY <1>2, RelPathsAre
<1>4. ~Endless(c) /\ ~BadCNID(c) => ~IsClimb(FullPath(c, rel))
  BY <1>1, SensibleIs
<1>5. c \in Nodes /\ 10 \in {10, 12}
  BY DEF Nodes
<1>6. /\ op' = "create" => Sensible(c, rel)
      /\ op' # "dupcheck" /\ op' # "createIn" /\ (op' = "rename" => newName' \in Name)
  BY <1>1 DEF CallNames
<1>7. calls' \in Nat /\ world' \in Worlds /\ moves' \in Nat /\ child' \in Node
  BY <1>1, <1>2
<1>8. 10 = (IF op' = "dupcheck" THEN 12 ELSE 10)
  BY <1>6
<1> QED
  BY <1>1, <1>3, <1>4, <1>5, <1>6, <1>7, <1>8, BeginTyped

(* The last component is left off. *)
LEMMA LeafOff ==
  ASSUME NEW rel \in Seq(Name \union {DotDot}), HasLeaf(rel)
  PROVE  /\ PathSplitLeaf(rel).dir \in Seq(Name \union {DotDot})
         /\ Len(rel) \in Nat \ {0} /\ Len(PathSplitLeaf(rel).dir) = Len(rel) - 1
         /\ \A i \in 1 .. Len(rel) - 1 : PathSplitLeaf(rel).dir[i] = rel[i]
         /\ PathSplitLeaf(rel).name \in Name /\ PathSplitLeaf(rel).name = rel[Len(rel)]
<1>1. rel # <<>> /\ Last(rel) # DotDot
  BY DEF HasLeaf
<1>2. Last(rel) = rel[Len(rel)]
  BY DEF Last
<1>3. PICK n \in Nat \ {0} : n = Len(rel)
  BY <1>1
<1>4. rel[n] \in Name \union {DotDot}
  BY <1>3
<1>5. Front(rel) \in Seq(Name \union {DotDot}) /\ Len(Front(rel)) = Len(rel) - 1
      /\ \A i \in 1 .. Len(rel) - 1 : Front(rel)[i] = rel[i]
  BY <1>1, FrontAlways DEF FrontIs
<1>6. PathSplitLeaf(rel).dir = Front(rel) /\ PathSplitLeaf(rel).name = Last(rel)
  BY DEF PathSplitLeaf
<1> QED
  BY <1>1, <1>2, <1>3, <1>4, <1>5, <1>6

(* And so of the whole path. *)
LEMMA FullPathOff ==
  ASSUME db \in [Node -> Record], NEW c \in Nodes, ~Endless(c), ~BadCNID(c),
         NEW rel \in Seq(Name \union {DotDot}), NEW up \in Seq(Name \union {DotDot}),
         Len(rel) \in Nat \ {0}, Len(up) = Len(rel) - 1, \A i \in 1 .. Len(rel) - 1 : up[i] = rel[i]
  PROVE  /\ Len(FullPath(c, up)) = Len(FullPath(c, rel)) - 1
         /\ \A i \in 1 .. Len(FullPath(c, up)) : FullPath(c, up)[i] = FullPath(c, rel)[i]
<1>1. PICK a, b : a = FullPath(c, up) /\ b = FullPath(c, rel) /\ FullPathIs(c, up, a) /\ FullPathIs(c, rel, b)
  BY FullPathOf
<1>2. PICK n \in Nat : n = Len(PathOf(c))
  BY <1>1 DEF FullPathIs
<1>3. PICK k \in Nat \ {0} : k = Len(rel) /\ Len(up) = k - 1 /\ \A i \in 1 .. k - 1 : up[i] = rel[i]
  OBVIOUS
<1>4. /\ Len(a) = n + (k - 1) /\ Len(b) = n + k
      /\ \A i \in 1 .. n : a[i] = b[i]
      /\ \A i \in 1 .. k - 1 : a[n + i] = [name |-> up[i], expect |-> NoFile]
      /\ \A i \in 1 .. k : b[n + i] = [name |-> rel[i], expect |-> NoFile]
  BY <1>1, <1>2, <1>3 DEF FullPathIs
<1>5. \A i \in 1 .. n + (k - 1) : a[i] = b[i]
  <2> TAKE i \in 1 .. n + (k - 1)
  <2>1. CASE i <= n
    BY <1>2, <1>4, <2>1
  <2>2. CASE i > n
    <3>1. PICK j \in 1 .. k - 1 : i = n + j
      <4>1. i - n \in 1 .. k - 1 /\ i = n + (i - n)
        BY <1>2, <1>3, <2>2
      <4> QED
        BY <4>1
    <3>2. j \in 1 .. k
      BY <1>3
    <3>3. up[j] = rel[j]
      BY <1>3
    <3> QED
      BY <1>4, <3>1, <3>2, <3>3
  <2> QED
    BY <1>2, <2>1, <2>2
<1>6. Len(a) = Len(b) - 1
  BY <1>2, <1>3, <1>4
<1> QED
  BY <1>1, <1>4, <1>5, <1>6

LEMMA CreateInIs ==
  ASSUME TypesInv, FsCreateIn
  PROVE  /\ TypesInv' /\ pc' # "idle"
         /\ Begun(10, asked.cnid, PathSplitLeaf(asked.rel).dir)
         /\ op' = "createIn" /\ UNCHANGED <<tree, db>>
<1>1. /\ pc = "returned" /\ op = "create" /\ result = "fnfErr" /\ HasLeaf(asked.rel)
      /\ op' = "createIn" /\ newName' = PathSplitLeaf(asked.rel).name
      /\ Browse(10, asked.cnid, PathSplitLeaf(asked.rel).dir)
      /\ UNCHANGED <<tree, db, child, calls, moves, world>>
  BY DEF FsCreateIn
<1>2. PICK c, rel, up : c = asked.cnid /\ rel = asked.rel /\ up = PathSplitLeaf(asked.rel).dir
  OBVIOUS
<1>3. /\ c \in Nodes /\ rel \in Seq(Name \union {DotDot}) /\ Sensible(c, rel)
      /\ world \in Worlds /\ calls \in Nat /\ moves \in Nat /\ child \in Node
  <2>1. ~Found
    BY <1>1, CatalogAssumption DEF Found, Errors
  <2> QED
    BY <1>1, <1>2, <2>1 DEF TypesInv, CallTyped
<1>4. /\ up \in Seq(Name \union {DotDot}) /\ Len(rel) \in Nat \ {0} /\ Len(up) = Len(rel) - 1
      /\ \A i \in 1 .. Len(rel) - 1 : up[i] = rel[i]
      /\ newName' \in Name
  BY <1>1, <1>2, <1>3, LeafOff
<1>5. db \in [Node -> Record]
  BY TypesAre
<1>6. ~Endless(c) /\ ~BadCNID(c) => ~IsClimb(FullPath(c, up))
  <2> SUFFICES ASSUME ~Endless(c), ~BadCNID(c) PROVE ~IsClimb(FullPath(c, up))
    OBVIOUS
  <2>1. PICK a, b : a = FullPath(c, up) /\ b = FullPath(c, rel)
    OBVIOUS
  <2>2. a \in Seq(Component9) /\ b \in Seq(Component9)
    BY <1>3, <1>4, <1>5, <2>1, FullPathOf DEF FullPathIs
  <2>3. Len(a) = Len(b) - 1 /\ \A i \in 1 .. Len(a) : a[i] = b[i]
    BY <1>3, <1>4, <1>5, <2>1, FullPathOff
  <2>4. ~IsClimb(b)
    BY <1>3, <2>1, SensibleIs
  <2>5. Len(a) <= Len(b)
    BY <2>2, <2>3
  <2>6. ~IsClimb(a)
    BY <2>2, <2>3, <2>4, <2>5, PrefixNoClimb
  <2> QED
    BY <2>1, <2>6
<1>7. TypesInv' /\ Begun(10, c, up) /\ pc' # "idle"
  <2>1. Browse(10, c, up) /\ 10 \in {10, 12} /\ 10 = (IF op' = "dupcheck" THEN 12 ELSE 10)
        /\ op' # "create"
    BY <1>1, <1>2
  <2>2. /\ world' \in Worlds /\ calls' \in Nat /\ moves' \in Nat /\ child' \in Node
        /\ UNCHANGED <<tree, db>>
    BY <1>1, <1>3
  <2> QED
    BY <1>3, <1>4, <1>6, <2>1, <2>2, BeginTyped
<1> QED
  BY <1>1, <1>2, <1>7

(* What is noted has no "..". *)
LEMMA NoDotsPath ==
  ASSUME db \in [Node -> Record], NEW c \in Nodes, ~Endless(c), ~BadCNID(c),
         NEW rel \in Seq(Name \union {DotDot}), \A i \in 1 .. Len(rel) : rel[i] # DotDot
  PROVE  /\ \A i \in 1 .. Len(FullPath(c, rel)) : FullPath(c, rel)[i].name # DotDot
         /\ ~IsClimb(FullPath(c, rel))
<1>1. PICK path, noted : path = FullPath(c, rel) /\ noted = PathOf(c)
  OBVIOUS
<1>2. FullPathIs(c, rel, path) /\ PathIs(c, noted)
  BY <1>1, FullPathOf, PathOfIs
<1>3. PICK n \in Nat, k \in Nat : n = Len(noted) /\ k = Len(rel)
  BY <1>1, <1>2 DEF FullPathIs
<1>4. /\ path \in Seq(Component9) /\ Len(path) = n + k
      /\ \A i \in 1 .. n : path[i] = noted[i]
      /\ \A i \in 1 .. k : path[n + i] = [name |-> rel[i], expect |-> NoFile]
  BY <1>1, <1>2, <1>3 DEF FullPathIs
<1>5. \A i \in 1 .. n : noted[i].name # DotDot
  <2> TAKE i \in 1 .. n
  <2>1. noted[i].expect \in Node /\ noted[i].name = db[noted[i].expect].name
    BY <1>2, <1>3 DEF PathIs
  <2> QED
    BY <2>1, NinePAssumption DEF Record
<1>6. \A i \in 1 .. n + k : path[i].name # DotDot
  <2> TAKE i \in 1 .. n + k
  <2>1. CASE i <= n
    BY <1>3, <1>4, <1>5, <2>1
  <2>2. CASE i > n
    <3>1. PICK j \in 1 .. k : i = n + j
      <4>1. i - n \in 1 .. k /\ i = n + (i - n)
        BY <1>3, <2>2
      <4> QED
        BY <4>1
    <3>2. path[i].name = rel[j]
      <4>1. path[n + j] = [name |-> rel[j], expect |-> NoFile]
        BY <1>4
      <4> QED
        BY <3>1, <4>1
    <3>3. j \in 1 .. Len(rel)
      BY <1>3
    <3>4. rel[j] # DotDot
      BY <3>3
    <3> QED
      BY <3>2, <3>4
  <2> QED
    BY <1>3, <2>1, <2>2
<1>7. ~IsClimb(path)
  BY <1>4, <1>6, NoDotsNoClimb
<1> QED
  BY <1>1, <1>4, <1>6, <1>7

LEMMA RenameCheckIs ==
  ASSUME TypesInv, FsRenameCheck
  PROVE  /\ TypesInv' /\ pc' # "idle" /\ Begun(12, db[result].dir, <<newName>>)
         /\ result \in Node \ {Root} /\ pc = "returned" /\ op = "rename"
         /\ op' = "dupcheck" /\ child' = result /\ UNCHANGED <<tree, db, newName, world>>
<1>1. /\ pc = "returned" /\ op = "rename" /\ Found /\ result # Root
      /\ op' = "dupcheck" /\ child' = result
      /\ Browse(12, db[result].dir, <<newName>>)
      /\ UNCHANGED <<tree, db, newName, calls, moves, world>>
  BY DEF FsRenameCheck
<1>2. /\ newName \in Name /\ result \in Node /\ world \in Worlds /\ calls \in Nat /\ moves \in Nat
      /\ db \in [Node -> Record]
  BY <1>1 DEF TypesInv, CallTyped, Found
<1>3. PICK c, rel : c = db[result].dir /\ rel = <<newName>>
  OBVIOUS
<1>4. c \in Nodes /\ rel \in Seq(Name \union {DotDot}) /\ \A i \in 1 .. Len(rel) : rel[i] # DotDot
  <2>1. c \in Nodes
    BY <1>2, <1>3 DEF Record
  <2>2. Len(<<newName>>) = 1 /\ <<newName>>[1] = newName /\ newName # DotDot
    BY <1>2, NinePAssumption
  <2> QED
    BY <1>2, <1>3, <2>1, <2>2
<1>5. ~Endless(c) /\ ~BadCNID(c) => ~IsClimb(FullPath(c, rel))
  BY <1>2, <1>4, NoDotsPath
<1>6. TypesInv' /\ Begun(12, c, rel) /\ pc' # "idle"
  <2>1. Browse(12, c, rel) /\ 12 \in {10, 12} /\ 12 = (IF op' = "dupcheck" THEN 12 ELSE 10)
        /\ op' # "create"
    BY <1>1, <1>3
  <2>2. /\ world' \in Worlds /\ calls' \in Nat /\ moves' \in Nat /\ child' \in Node /\ newName' \in Name
        /\ UNCHANGED <<tree, db>>
    BY <1>1, <1>2
  <2> QED
    BY <1>4, <1>5, <2>1, <2>2, BeginTyped
<1> QED
  BY <1>1, <1>2, <1>3, <1>6

(* One step up from the fid of a call, to one for its own use. *)
LEMMA StepUp ==
  ASSUME TypesInv, NEW f \in {9, 11}
  PROVE  /\ Ready(Walk9(tree, session, 10, f, <<DotDot>>).s)
         /\ Walk9(tree, session, 10, f, <<DotDot>>).s.at[10] = session.at[10]
<1>1. PICK e : e = <<DotDot>>
  OBVIOUS
<1>2. e \in Seq({DotDot}) /\ Len(e) <= ChunkMax
  <2>1. <<DotDot>> \in Seq({DotDot}) /\ Len(<<DotDot>>) = 1
    OBVIOUS
  <2> QED
    BY <1>1, <2>1, TypesAre
<1>3. 10 \in Fid /\ f \in Fid \ {RootFid} /\ 10 # f
  BY TypesAre
<1>4. /\ Ready(Walk9(tree, session, 10, f, e).s)
      /\ \A g \in Fid \ {f} : Walk9(tree, session, 10, f, e).s.at[g] = session.at[g]
  BY <1>2, <1>3, WalkReady
<1> QED
  BY <1>1, <1>3, <1>4

(* The calls that end. *)
LEMMA EndTyped ==
  ASSUME TypesInv, Idle, world' = world, calls' = calls, moves' = moves,
         IsTree(tree'), db' \in [Node -> Record], Ready(session')
  PROVE  TypesInv'
<1>1. BrowseTyped' /\ CallTyped'
  <2>1. world \in Worlds /\ calls \in Nat /\ moves \in Nat
    BY DEF TypesInv, CallTyped
  <2> QED
    BY <2>1, IdleTyped
<1> QED
  BY <1>1 DEF TypesInv, Ready

LEMMA MakeTyped ==
  ASSUME TypesInv, FsCreateMake
  PROVE  TypesInv'
<1>1. PICK new \in Node \ {Root} :
        LET place == [dir |-> session.at[10], name |-> newName]
        IN  /\ ~Exists(tree, new) /\ Creates(tree, session, 10, newName)
            /\ tree' = [tree EXCEPT ![new] = place]
            /\ session' = Clunk9(IF IsDir(new) THEN session ELSE Lcreate9(session, 10, new), 10)
            /\ db' = IF IsDir(new)
                     THEN [db EXCEPT ![new] = [dir |-> result, name |-> newName]] ELSE db
  BY DEF FsCreateMake
<1>2. /\ Idle /\ UNCHANGED <<calls, moves, world>>
      /\ pc = "returned" /\ op = "createIn" /\ Found
  BY DEF FsCreateMake
<1>3. newName \in Name /\ result \in Node /\ db \in [Node -> Record]
  BY <1>2 DEF TypesInv, CallTyped, Found
<1>4. PICK d \in Dirs : d = session.at[10] /\ Exists(tree, d) /\ Named(tree, d, newName) = {}
                        /\ InUse(session, 10)
  BY <1>1 DEF Creates, IsDir
<1>5. IsTree(tree) /\ d \in Node /\ Ready(session) /\ 10 \in Fid \ {RootFid}
  BY TypesAre, NinePAssumption DEF TypesInv
<1>6. IsTree(tree')
  <2>1. \A S \in SUBSET (Node \ {Root}) :
          new \in S /\ d \in S => \E x \in S \ {new} : tree[x].dir \notin S
    BY <1>1, <1>4, <1>5, NothingBelowNew
  <2>2. IsTree([tree EXCEPT ![new] = [dir |-> d, name |-> newName]])
    BY <1>3, <1>4, <1>5, <2>1, PlacedIsTree
  <2> QED
    BY <1>1, <1>4, <2>2
<1>7. db' \in [Node -> Record]
  <2>1. [dir |-> result, name |-> newName] \in Record
    BY <1>3 DEF Record, Nodes
  <2> QED
    BY <1>1, <1>3, <2>1
<1>8. Ready(session')
  <2>1. Ready(Clunk9(session, 10)) /\ Ready(Clunk9(Lcreate9(session, 10, new), 10))
    BY <1>4, <1>5, ClunkReady, CreatedReady
  <2> QED
    BY <1>1, <2>1
<1> QED
  BY <1>2, <1>6, <1>7, <1>8, EndTyped

LEMMA RemoveTyped ==
  ASSUME TypesInv, FsDeleteRemove
  PROVE  /\ TypesInv'
         /\ \/ tree' = tree
            \/ /\ session.at[10] \in Node \ {Root} /\ Exists(tree, session.at[10])
               /\ tree' = [tree EXCEPT ![session.at[10]] = Nowhere]
<1>1. PICK s : s = Walk9(tree, session, 10, 9, <<DotDot>>).s
               /\ tree' = (IF Removes(tree, s, 10) THEN [tree EXCEPT ![s.at[10]] = Nowhere] ELSE tree)
               /\ session' = Remove9(s, 10)
  BY DEF FsDeleteRemove
<1>2. Idle /\ UNCHANGED <<db, calls, moves, world>>
  BY DEF FsDeleteRemove
<1>3. Ready(s) /\ s.at[10] = session.at[10] /\ 10 \in Fid \ {RootFid}
  BY <1>1, StepUp, TypesAre
<1>4. Ready(session')
  BY <1>1, <1>3, ClunkReady
<1>5. IsTree(tree) /\ db \in [Node -> Record]
  BY DEF TypesInv
<1>6. /\ IsTree(tree')
      /\ \/ tree' = tree
         \/ /\ session.at[10] \in Node \ {Root} /\ Exists(tree, session.at[10])
            /\ tree' = [tree EXCEPT ![session.at[10]] = Nowhere]
  <2>1. CASE Removes(tree, s, 10)
    <3>1. s.at[10] \in Nodes
      BY <1>3 DEF Ready, Sound, Session
    <3>2. s.at[10] \in Node \ {Root} /\ Children(tree, s.at[10]) = {} /\ Exists(tree, s.at[10])
      BY <2>1, <3>1 DEF Removes, InUse, Nodes
    <3>3. IsTree([tree EXCEPT ![s.at[10]] = Nowhere])
      BY <1>5, <3>2, RemovedIsTree
    <3> QED
      BY <1>1, <1>3, <2>1, <3>2, <3>3
  <2>2. CASE ~Removes(tree, s, 10)
    BY <1>1, <1>5, <2>2
  <2> QED
    BY <2>1, <2>2
<1> QED
  BY <1>2, <1>4, <1>5, <1>6, EndTyped

LEMMA CommitTyped ==
  ASSUME TypesInv, FsRenameCommit
  PROVE  TypesInv'
<1>1. PICK s, old : s = Walk9(tree, session, 10, 11, <<DotDot>>).s /\ old = db[child].name
        /\ session' = s
        /\ IF Renames(tree, s.at[11], old, newName)
           THEN /\ tree' = Renameat9(tree, s.at[11], old, newName)
                /\ db' = [db EXCEPT ![child] = [dir |-> db[child].dir, name |-> newName]]
           ELSE UNCHANGED <<tree, db>>
  BY DEF FsRenameCommit
<1>2. Idle /\ UNCHANGED <<calls, moves, world>> /\ op = "dupcheck"
  BY DEF FsRenameCommit
<1>3. Ready(session')
  BY <1>1, StepUp
<1>4. IsTree(tree) /\ db \in [Node -> Record] /\ child \in Node /\ newName \in Name
  BY <1>2 DEF TypesInv, CallTyped
<1>5. IsTree(tree')
  BY <1>1, <1>4, RenamedIsTree
<1>6. db' \in [Node -> Record]
  <2>1. [dir |-> db[child].dir, name |-> newName] \in Record
    BY <1>4 DEF Record
  <2> QED
    BY <1>1, <1>4, <2>1
<1> QED
  BY <1>2, <1>3, <1>5, <1>6, EndTyped

(* What the host does leaves the driver as it is. *)
LEMMA HostTyped ==
  ASSUME TypesInv, HostPlaces \/ HostRemoves
  PROVE  TypesInv' /\ moves' # moves
<1>1. /\ moves' = moves + 1
      /\ UNCHANGED <<session, db, pc, browseVars, callVars, result, calls, world>>
  BY DEF HostPlaces, HostRemoves, HostActs
<1>2. IsTree(tree')
  BY HostKeepsTree DEF TypesInv
<1>3. moves \in Nat
  BY DEF TypesInv, CallTyped
<1>4. UNCHANGED <<comps, progress, tip, qids, back, listed, op, asked, fid, child, newName>>
  BY <1>1 DEF browseVars, callVars
<1>5. BrowseTyped'
  <2>1. IsClimb(comps)' <=> IsClimb(comps)
    BY <1>4 DEF IsClimb
  <2> QED
    BY <1>1, <1>4, <2>1 DEF TypesInv, BrowseTyped, Browsing
<1>6. CallTyped'
  <2>1. Found' <=> Found
    BY <1>1 DEF Found
  <2>2. (op = "create" /\ ~Found => Sensible(asked.cnid, asked.rel))'
    <3> SUFFICES ASSUME op' = "create", ~Found' PROVE Sensible(asked.cnid, asked.rel)'
      OBVIOUS
    <3>1. Sensible(asked.cnid, asked.rel)
      BY <1>4, <2>1 DEF TypesInv, CallTyped
    <3> QED
      BY <1>1, <1>4, <3>1, SensibleKept
  <2>3. CallTyped /\ moves' \in Nat
    BY <1>1, <1>3 DEF TypesInv
  <2> QED
    BY <1>1, <1>4, <2>2, <2>3 DEF CallTyped
<1> QED
  BY <1>1, <1>2, <1>3, <1>5, <1>6 DEF TypesInv

LEMMA TypesInit == Init => TypesInv
<1> SUFFICES ASSUME Init PROVE TypesInv
  OBVIOUS
<1>1. /\ tree = Tree /\ session = Attached
      /\ db = [n \in Node |-> IF n \in Known THEN Tree[n] ELSE Nowhere]
      /\ pc = "idle" /\ op = "none" /\ asked = [cnid |-> Root, rel |-> <<>>]
      /\ fid = RootFid /\ comps = <<>> /\ progress = 0 /\ tip = RootFid /\ qids = <<>>
      /\ back = 0 /\ result = "none" /\ child = Root /\ newName = NoName
      /\ calls = 0 /\ moves = 0 /\ world \in Worlds
  BY DEF Init
<1>2. IsTree(tree)
  BY <1>1, TreeAssumption
<1>3. db \in [Node -> Record]
  <2>1. Nowhere \in Record
    BY DEF Nowhere, Record, Nodes
  <2>2. \A n \in Node : Tree[n] \in Record
    <3>1. Tree \in [Node -> Place] /\ Dirs \subseteq Node
      BY TreeAssumption, NinePAssumption DEF IsTree
    <3> QED
      BY <3>1 DEF Place, Record, Nodes
  <2> QED
    BY <1>1, <2>1, <2>2
<1>4. Sound(session) /\ session.opened = {} /\ session.at[RootFid] = Root
  <2>1. Root \in Node /\ RootFid \in Fid
    BY NinePAssumption
  <2> QED
    BY <1>1, <2>1 DEF Attached, Sound, Session, Nodes, InUse
<1>5. /\ <<>> \in Seq(Component9) /\ <<>> \in Seq(Node) /\ Len(<<>>) = 0
      /\ <<>> \in Seq(Name \union {DotDot}) /\ 0 \in 0 .. 0 /\ 0 + 0 <= 0
      /\ Root \in Node /\ Root \in Nodes /\ 0 \in 0 .. ChunkMax
  BY NinePAssumption DEF Nodes
<1>6. BrowseTyped
  BY <1>1, <1>5 DEF BrowseTyped, Browsing, Searching
<1>7. CallTyped
  BY <1>1, <1>5 DEF CallTyped, Errors
<1> QED
  BY <1>2, <1>3, <1>4, <1>6, <1>7 DEF TypesInv

LEMMA TypesStutter ==
  ASSUME TypesInv, UNCHANGED vars
  PROVE  TypesInv'
<1>1. UNCHANGED <<tree, session, db, pc, comps, progress, tip, qids, back, op, asked, fid, child,
                  newName, result, calls, moves, world>>
  BY DEF vars, browseVars, callVars
<1>2. BrowseTyped'
  <2>1. IsClimb(comps)' <=> IsClimb(comps)
    BY <1>1 DEF IsClimb
  <2> QED
    BY <1>1, <2>1 DEF TypesInv, BrowseTyped, Browsing
<1>3. CallTyped'
  <2>1. Found' <=> Found
    BY <1>1 DEF Found
  <2>2. (op = "create" /\ ~Found => Sensible(asked.cnid, asked.rel))'
    <3> SUFFICES ASSUME op' = "create", ~Found' PROVE Sensible(asked.cnid, asked.rel)'
      OBVIOUS
    <3>1. Sensible(asked.cnid, asked.rel)
      BY <1>1, <2>1 DEF TypesInv, CallTyped
    <3> QED
      BY <1>1, <3>1, SensibleKept
  <2>3. CallTyped
    BY DEF TypesInv
  <2> QED
    BY <1>1, <2>2, <2>3 DEF CallTyped
<1> QED
  BY <1>1, <1>2, <1>3 DEF TypesInv

LEMMA TypesNext == TypesInv /\ [Next]_vars => TypesInv'
<1> SUFFICES ASSUME TypesInv, [Next]_vars PROVE TypesInv'
  OBVIOUS
<1>1. CASE Lookup \/ FsCreate \/ FsDelete \/ FsRename
  BY <1>1, CallIs, CallTypes
<1>2. CASE BrowseWalk
  BY <1>2, WalkTyped
<1>3. CASE BrowseBack
  BY <1>3, BackTyped
<1>4. CASE BrowseSearch
  BY <1>4, SearchTyped
<1>5. CASE BrowseEnter
  BY <1>5, EnterTyped
<1>6. CASE BrowseFound
  BY <1>6, FoundTyped
<1>7. CASE Finished \/ FsCreateFails
  <2>1. Idle /\ UNCHANGED <<tree, session, db, calls, moves, world>>
    BY <1>7 DEF Finished, FsCreateFails
  <2>2. IsTree(tree') /\ db' \in [Node -> Record] /\ Ready(session')
    BY <2>1, TypesAre DEF TypesInv
  <2> QED
    BY <2>1, <2>2, EndTyped
<1>8. CASE FsCreateIn
  BY <1>8, CreateInIs
<1>9. CASE FsCreateMake
  BY <1>9, MakeTyped
<1>10. CASE FsDeleteRemove
  BY <1>10, RemoveTyped
<1>11. CASE FsRenameCheck
  BY <1>11, RenameCheckIs
<1>12. CASE FsRenameCommit
  BY <1>12, CommitTyped
<1>13. CASE HostPlaces \/ HostRemoves
  BY <1>13, HostTyped
<1>14. CASE Hangs \/ UNCHANGED vars
  BY <1>14, TypesStutter DEF Hangs
<1> QED
  BY <1>1, <1>2, <1>3, <1>4, <1>5, <1>6, <1>7, <1>8, <1>9, <1>10, <1>11, <1>12, <1>13, <1>14 DEF Next, Driver

LEMMA TypesAlways == Spec => []TypesInv
<1> QED
  BY TypesInit, TypesNext, PTL DEF Spec

LEMMA TypesAreOK == TypesInv => TypeOK
<1> SUFFICES ASSUME TypesInv PROVE TypeOK
  OBVIOUS
<1>1. \A n \in Node : tree[n].dir \in Dirs \union {NoFile}
  BY DEF TypesInv, IsTree, Place
<1>2. \A n \in Node : db[n].dir \in Node \union {NoFile} /\ db[n].name \in Name \union {NoName}
  BY DEF TypesInv, Record, Nodes
<1>3. result \in Node \union Errors /\ progress \in 0 .. Len(comps) /\ tip \in {RootFid, fid}
      /\ Len(qids) = progress /\ progress + back <= Len(comps) /\ session.opened = {}
  BY DEF TypesInv, CallTyped, BrowseTyped
<1> QED
  BY <1>1, <1>2, <1>3 DEF TypeOK

-----------------------------------------------------------------------------
(* Progress *)

(* Where a step of browse gets. *)
Advances ==
  \A i, j \in DOMAIN Round :
    pc = Round[i] /\ pc' = Round[j] /\ moves' = moves =>
      progress' > progress \/ (progress' = progress /\ j > i)

LEMMA StepAdvances ==
  ASSUME TypesInv, [Next]_vars, ~UNCHANGED vars
  PROVE  Advances
<1>0. /\ DOMAIN Round = 1 .. 5 /\ Round[1] = "walk" /\ Round[2] = "back" /\ Round[3] = "search"
      /\ Round[4] = "enter" /\ Round[5] = "found"
  BY DEF Round
<1>1. \A i \in DOMAIN Round : Round[i] \in {"walk", "back", "search", "enter", "found"}
  BY <1>0
<1>2. progress \in Nat
  BY TypesAre
<1>3. CASE pc \notin {"walk", "back", "search", "enter"} \/ pc' \notin {"walk", "back", "search", "enter", "found"}
  <2>1. pc = "found" => pc' \notin {"walk", "back", "search", "enter", "found"} \/ moves' # moves
    <3> SUFFICES ASSUME pc = "found" PROVE pc' \notin {"walk", "back", "search", "enter", "found"} \/ moves' # moves
      OBVIOUS
    <3>1. CASE BrowseFound
      BY <3>1 DEF BrowseFound, Return
    <3>2. CASE HostPlaces \/ HostRemoves
      BY <3>2, HostTyped
    <3> QED
      BY <3>1, <3>2 DEF Next, Driver, Lookup, FsCreate, FsDelete, FsRename, NextCall, Finished, BrowseWalk,
           BrowseBack, BrowseSearch, BrowseEnter, FsCreateIn, FsCreateMake, FsCreateFails,
           FsDeleteRemove, FsRenameCheck, FsRenameCommit, Hangs
  <2> QED
    BY <1>1, <1>3, <2>1 DEF Advances
<1>4. CASE pc = "walk" /\ BrowseWalk
  <2>1. PICK w, to : Walked(w, to)
    BY <1>4, BrowseWalkIs
  <2>2. CASE CutShort(w, to)
    <3>1. pc' = "search" /\ progress' = progress
      BY <2>2 DEF CutShort
    <3> QED
      BY <1>0, <1>4, <3>1 DEF Advances
  <2>3. CASE Whole(w, to)
    <3>1. /\ progress' \in progress .. to /\ to \in progress + 1 .. Len(comps)
          /\ (progress' = to \/ pc' = "back")
      BY <2>1, <2>3 DEF Whole, Walked
    <3>2. progress' > progress \/ (progress' = progress /\ pc' = "back")
      <4>1. PICK q \in progress .. to : q = progress'
        BY <3>1
      <4>2. Len(comps) \in Nat
        BY TypesAre
      <4>3. q > progress \/ q = progress
        BY <1>2, <3>1, <4>1, <4>2
      <4>4. q = to => q > progress
        BY <1>2, <3>1, <4>2
      <4> QED
        BY <3>1, <4>1, <4>3, <4>4
    <3> QED
      BY <1>0, <1>4, <3>2 DEF Advances
  <2> QED
    BY <2>1, <2>2, <2>3 DEF Walked
<1>5. CASE pc = "back" /\ BrowseBack
  <2>1. pc' = "search" /\ progress' = progress
    BY <1>5 DEF BrowseBack
  <2> QED
    BY <1>0, <1>5, <2>1 DEF Advances
<1>6. CASE pc = "search" /\ BrowseSearch
  <2>1. pc' \in {"returned", "enter"} /\ progress' = progress
    BY <1>6 DEF BrowseSearch, Return
  <2> QED
    BY <1>0, <1>6, <2>1 DEF Advances
<1>7. CASE pc = "enter" /\ BrowseEnter
  <2>1. pc' = "returned" \/ progress' = progress + 1
    BY <1>7, EnterTyped DEF Entered
  <2> QED
    BY <1>0, <1>2, <1>7, <2>1 DEF Advances
<1>8. CASE HostPlaces \/ HostRemoves
  BY <1>8, HostTyped DEF Advances
<1> QED
  BY <1>3, <1>4, <1>5, <1>6, <1>7, <1>8 DEF Next, Driver, Lookup, FsCreate, FsDelete, FsRename,
       NextCall, Finished, BrowseFound, BrowseWalk, BrowseBack, BrowseSearch, BrowseEnter,
       FsCreateIn, FsCreateMake, FsCreateFails,
       FsDeleteRemove, FsRenameCheck, FsRenameCommit, Hangs

(* Every step of browse gets further along the path, or within the round of *)
(* walk, way back and listing for a component, whatever the host does and   *)
(* whatever the path: so that every call comes back.                        *)
THEOREM BrowseAlwaysAdvances == Spec => BrowseAdvances
<1>1. TypesInv /\ [Next]_vars => [Advances]_vars
  BY StepAdvances
<1> QED
  BY <1>1, TypesAlways, PTL DEF Spec, BrowseAdvances, Advances

-----------------------------------------------------------------------------
(* While the host waits *)

(* The node before the i-th component. *)
Met(q, i) == IF i = 0 THEN Root ELSE q[i]

OnTheWay(path, q) ==
  \A i \in 1 .. Len(q) :
    /\ q[i] \in Node \ {Root} /\ tree[q[i]].dir = Met(q, i - 1)
    /\ IF path[i].expect = NoFile THEN tree[q[i]].name = path[i].name
                                  ELSE q[i] = path[i].expect

NoDots(rel) == \A i \in 1 .. Len(rel) : rel[i] # DotDot

BrowseInv ==
  /\ ~Endless(asked.cnid) /\ ~BadCNID(asked.cnid)
  /\ comps = FullPath(asked.cnid, asked.rel)
  /\ OnTheWay(comps, qids)
  /\ progress > 0 => tip = fid
  /\ pc # "back" => session.at[tip] = Met(qids, progress)
  /\ pc = "back" => Route(tree, session.at[tip], WayBack(back))[back] = Met(qids, progress)
                    /\ comps[progress + 1].expect # NoFile
  /\ pc = "search" /\ comps[progress + 1].expect = NoFile =>
       Denoted(tree, asked.cnid, asked.rel) = NoFile
  /\ pc = "enter" => LET want == comps[progress + 1].expect
                     IN  want # Root /\ tree[want] = [dir |-> Met(qids, progress), name |-> listed]

(* The check of a rename is for the name in the child's directory. *)
CheckInv ==
  op = "dupcheck" /\ ~Found =>
    /\ child # Root /\ session.at[10] = child /\ Connected(child)
    /\ asked = [cnid |-> tree[child].dir, rel |-> <<newName>>]

WaitInv ==
  /\ Grounded(db) /\ pc # "hung" /\ NoDots(asked.rel) /\ (pc = "idle" => op = "none")
  /\ Browsing => BrowseInv
  /\ Returned /\ Found =>
       /\ result = Denoted(tree, asked.cnid, asked.rel) /\ session.at[fid] = result
       /\ Connected(result)
  /\ Returned /\ ~Found /\ Connected(asked.cnid) => Denoted(tree, asked.cnid, asked.rel) = NoFile
  /\ CheckInv

HostInv == HostWaits => WaitInv

(* What does not change with the database and the tree. *)
LEMMA PathsKept ==
  ASSUME db' = db, NEW c, NEW rel
  PROVE  /\ Upwards(c)' = Upwards(c) /\ Endless(c)' = Endless(c) /\ BadCNID(c)' = BadCNID(c)
         /\ PathOf(c)' = PathOf(c) /\ FullPath(c, rel)' = FullPath(c, rel)
<1>1. Upwards(c)' = Upwards(c)
  BY DEF Upwards
<1>2. Endless(c)' = Endless(c) /\ BadCNID(c)' = BadCNID(c) /\ PathOf(c)' = PathOf(c)
  BY <1>1 DEF Endless, BadCNID, PathOf, Ends
<1>3. FullPath(c, rel)' = FullPath(c, rel)
  BY <1>2 DEF FullPath, Unexpected
<1> QED
  BY <1>1, <1>2, <1>3

LEMMA ConnectedKept ==
  ASSUME db' = db, tree' = tree, NEW c
  PROVE  Connected(c)' <=> Connected(c)
<1>1. Upwards(c)' = Upwards(c) /\ Endless(c)' = Endless(c)
  BY PathsKept
<1> QED
  BY <1>1 DEF Connected

(* What a connected CNID is not. *)
LEMMA ConnectedIsGood ==
  ASSUME db \in [Node -> Record], NEW c \in Nodes, Connected(c)
  PROVE  ~Endless(c) /\ ~BadCNID(c) /\ c # NoFile
         /\ (c # Root => db[c].dir = tree[c].dir)
<1>1. ~Endless(c) /\ \A i \in DOMAIN Upwards(c) :
                       LET n == Upwards(c)[i] IN n = Root \/ (n # NoFile /\ db[n].dir = tree[n].dir)
  BY DEF Connected
<1>2. /\ Cardinality(Node) \in Nat /\ Upwards(c) \in [0 .. Cardinality(Node) -> Nodes] /\ Upwards(c)[0] = c
  BY UpwardsIs
<1>3. Min(Ends(c)) \in DOMAIN Upwards(c)
  <2>1. Ends(c) # {} /\ Ends(c) \in SUBSET Nat /\ Ends(c) \subseteq DOMAIN Upwards(c)
    BY <1>1, <1>2 DEF Endless, Ends
  <2>2. PICK S : S = Ends(c)
    OBVIOUS
  <2>3. Min(S) \in S
    BY <2>1, <2>2, LeastIs
  <2> QED
    BY <2>1, <2>2, <2>3
<1>4. ~BadCNID(c)
  BY <1>1, <1>3, NinePAssumption DEF BadCNID
<1>5. 0 \in DOMAIN Upwards(c)
  BY <1>2
<1>6. c = Root \/ (c # NoFile /\ db[c].dir = tree[c].dir)
  BY <1>1, <1>2, <1>5
<1> QED
  BY <1>1, <1>4, <1>6, NinePAssumption

(* What a chain leads through is connected itself. *)
LEMMA ParentConnected ==
  ASSUME db \in [Node -> Record], Grounded(db), NEW c \in Node \ {Root}, Connected(c)
  PROVE  tree[c].dir \in Node /\ Connected(tree[c].dir)
<1>1. PICK T : Chain(T) /\ c \in T
  BY ConnectedIsRooted DEF Rooted, Nodes
<1>2. db[c].dir = tree[c].dir /\ db[c].dir \in T /\ T \subseteq Node
  BY <1>1 DEF Chain
<1>3. Rooted(tree[c].dir)
  BY <1>1, <1>2 DEF Rooted
<1> QED
  BY <1>2, <1>3, RootedIsConnected

LEMMA RootConnected ==
  ASSUME db \in [Node -> Record], Grounded(db)
  PROVE  Connected(Root)
<1>1. Chain({Root}) /\ Root \in {Root}
  BY NinePAssumption DEF Chain
<1> QED
  BY <1>1, RootedIsConnected DEF Rooted

(* The child that a name leads to. *)
LEMMA ComponentIs ==
  ASSUME IsTree(tree), NEW d \in Node, NEW m, m # DotDot
  PROVE  /\ Component(tree, d, m) \in Nodes
         /\ Component(tree, d, m) = NoFile <=> Named(tree, d, m) = {}
         /\ \A n \in Node \ {Root} : tree[n] = [dir |-> d, name |-> m] => Component(tree, d, m) = n
         /\ Component(tree, d, m) # NoFile =>
              /\ Component(tree, d, m) \in Node \ {Root}
              /\ tree[Component(tree, d, m)].dir = d /\ tree[Component(tree, d, m)].name = m
<1>1. d # NoFile /\ NoFile \notin Node
  BY NinePAssumption
<1>2. Component(tree, d, m) = IF Named(tree, d, m) = {} THEN NoFile ELSE CHOOSE c \in Named(tree, d, m) : TRUE
  BY <1>1 DEF Component
<1>3. CASE Named(tree, d, m) = {}
  <2>1. \A n \in Node \ {Root} : tree[n] # [dir |-> d, name |-> m]
    <3> SUFFICES ASSUME NEW n \in Node \ {Root}, tree[n] = [dir |-> d, name |-> m] PROVE FALSE
      OBVIOUS
    <3>1. n \in Named(tree, d, m)
      BY DEF Named, Children
    <3> QED
      BY <1>3, <3>1
  <2> QED
    BY <1>2, <1>3, <2>1 DEF Nodes
<1>4. CASE Named(tree, d, m) # {}
  <2>1. PICK x : x = Component(tree, d, m) /\ x \in Named(tree, d, m)
    BY <1>2, <1>4
  <2>2. x \in Node \ {Root} /\ tree[x].dir = d /\ tree[x].name = m
    BY <2>1 DEF Named, Children
  <2>3. \A n \in Node \ {Root} : tree[n] = [dir |-> d, name |-> m] => n = x
    <3> SUFFICES ASSUME NEW n \in Node \ {Root}, tree[n] = [dir |-> d, name |-> m] PROVE n = x
      OBVIOUS
    <3>1. n \in Named(tree, d, m)
      BY DEF Named, Children
    <3>2. Named(tree, d, m) = {x}
      BY <2>1, NamedIsOne
    <3> QED
      BY <3>1, <3>2
  <2> QED
    BY <1>1, <1>4, <2>1, <2>2, <2>3 DEF Nodes
<1> QED
  BY <1>3, <1>4

(* A walk along the way that was met is the way the names lead.             *)
LEMMA MetIsRoute ==
  ASSUME IsTree(tree), db \in [Node -> Record], NEW c \in Nodes, NEW rel \in Seq(Name \union {DotDot}),
         ~Endless(c), ~BadCNID(c), NoDots(rel), NEW q \in Seq(Node),
         Len(q) <= Len(FullPath(c, rel)), OnTheWay(FullPath(c, rel), q)
  PROVE  /\ Len(PathOf(c)) \in Nat /\ Len(FullPath(c, rel)) = Len(PathOf(c)) + Len(rel) /\ c \in Node
         /\ \A i \in Len(PathOf(c)) .. Len(q) : Met(q, i) = Route(tree, c, rel)[i - Len(PathOf(c))]
<1>1. PICK path, noted : path = FullPath(c, rel) /\ noted = PathOf(c)
  OBVIOUS
<1>2. FullPathIs(c, rel, path) /\ PathIs(c, noted)
  BY <1>1, FullPathOf, PathOfIs
<1>3. PICK n \in Nat, k \in Nat, m \in Nat : n = Len(noted) /\ k = Len(rel) /\ m = Len(q)
  BY <1>1, <1>2 DEF FullPathIs
<1>4. /\ Len(path) = n + k
      /\ \A i \in 1 .. n : path[i] = noted[i]
      /\ \A i \in 1 .. k : path[n + i] = [name |-> rel[i], expect |-> NoFile]
  BY <1>1, <1>2, <1>3 DEF FullPathIs
<1>5. m <= n + k
  BY <1>1, <1>3, <1>4
<1>6. c \in Node /\ (noted = <<>> => c = Root) /\ (n > 0 => c = noted[n].expect)
  <2>1. c = IF noted = <<>> THEN Root ELSE noted[Len(noted)].expect
    BY <1>2 DEF PathIs
  <2>2. noted = <<>> <=> n = 0
    BY <1>2, <1>3 DEF PathIs
  <2>3. n > 0 => noted[n].expect \in Node
    BY <1>2, <1>3 DEF PathIs
  <2> QED
    BY <1>3, <2>1, <2>2, <2>3, NinePAssumption
<1>7. PICK at : at = Route(tree, c, rel) /\ at[0] = c
                /\ \A i \in 1 .. k : at[i] = Component(tree, at[i - 1], rel[i])
  <2>1. tree \in [Node -> Place] /\ Len(rel) \in Nat
    BY <1>3 DEF IsTree
  <2>2. /\ Route(tree, c, rel)[0] = c
        /\ \A i \in 1 .. Len(rel) : Route(tree, c, rel)[i] = Component(tree, Route(tree, c, rel)[i - 1], rel[i])
    <3>1. ASSUME NEW t \in [Node -> Place], NEW names, Len(names) \in Nat
          PROVE  /\ Route(t, c, names)[0] = c
                 /\ \A i \in 1 .. Len(names) :
                      Route(t, c, names)[i] = Component(t, Route(t, c, names)[i - 1], names[i])
      BY RouteIs
    <3> QED
      BY <2>1, <3>1
  <2> QED
    BY <1>3, <2>2
<1>8. ASSUME n <= m PROVE \A i \in 0 .. m - n : Met(q, n + i) = at[i]
  <2> DEFINE P == {i \in 0 .. m - n : Met(q, n + i) = at[i]}
  <2>1. 0 \in P
    <3>1. Met(q, n + 0) = c
      <4>1. CASE n = 0
        <5>2. noted \in Seq(Component9)
          BY <1>2 DEF PathIs
        <5>3. Len(noted) = 0
          BY <1>3, <4>1
        <5>1. noted = <<>>
          BY <5>2, <5>3
        <5> QED
          BY <1>6, <4>1, <5>1 DEF Met
      <4>2. CASE n > 0
        <5>1. n \in 1 .. n /\ n \in 1 .. m /\ n \in 1 .. Len(q) /\ n + 0 = n /\ n # 0
          BY <1>3, <1>8, <4>2
        <5>2. path[n].expect = c /\ c # NoFile
          BY <1>4, <1>6, <4>2, <5>1, NinePAssumption
        <5>3. q[n] = path[n].expect
          BY <1>1, <5>1, <5>2 DEF OnTheWay
        <5> QED
          BY <5>1, <5>2, <5>3 DEF Met
      <4> QED
        BY <4>1, <4>2
    <3> QED
      BY <1>7, <1>8, <3>1
  <2>2. ASSUME NEW i \in 1 .. m - n, i - 1 \in P PROVE i \in P
    <3>1. Met(q, n + (i - 1)) = at[i - 1]
      BY <2>2
    <3>2. i \in 1 .. k /\ n + i \in 1 .. Len(q) /\ n + i - 1 = n + (i - 1) /\ n + i # 0
      BY <1>3, <1>5, <1>8
    <3>9. path[n + i] = [name |-> rel[i], expect |-> NoFile]
      BY <1>4, <3>2
    <3>10. rel[i] # DotDot
      BY <1>3, <3>2 DEF NoDots
    <3>3. path[n + i].expect = NoFile /\ path[n + i].name = rel[i] /\ rel[i] # DotDot
      BY <3>9, <3>10
    <3>4. q[n + i] \in Node \ {Root} /\ tree[q[n + i]].dir = at[i - 1] /\ tree[q[n + i]].name = rel[i]
      BY <1>1, <3>1, <3>2, <3>3 DEF OnTheWay
    <3>5. tree[q[n + i]] \in Place
      BY <3>4 DEF IsTree
    <3>6. tree[q[n + i]] = [dir |-> at[i - 1], name |-> rel[i]]
      BY <3>4, <3>5 DEF Place
    <3>7. at[i - 1] \in Node
      <4>1. n + i - 1 = 0 \/ n + i - 1 \in 1 .. Len(q)
        BY <1>3, <3>2
      <4>2. Met(q, n + i - 1) \in Node
        BY <4>1, NinePAssumption DEF Met
      <4> QED
        BY <3>1, <3>2, <4>2
    <3>8. at[i] = q[n + i]
      <4>1. Component(tree, at[i - 1], rel[i]) = q[n + i]
        BY <3>3, <3>4, <3>6, <3>7, ComponentIs
      <4> QED
        BY <1>7, <3>2, <4>1
    <3> QED
      BY <3>2, <3>8 DEF Met
  <2> HIDE DEF P
  <2>3. m - n \in Nat
    BY <1>8
  <2>4. \A i \in 0 .. m - n : i \in P
    BY <2>1, <2>2, <2>3, UpTo
  <2> QED
    BY <2>4 DEF P
<1>9. \A i \in n .. m : Met(q, i) = at[i - n]
  <2> TAKE i \in n .. m
  <2>1. n <= m /\ i - n \in 0 .. m - n /\ n + (i - n) = i
    OBVIOUS
  <2> QED
    BY <1>8, <2>1
<1> QED
  BY <1>1, <1>3, <1>4, <1>6, <1>7, <1>9

LEMMA ComponentFound ==
  ASSUME IsTree(tree), NEW d \in Node, NEW m, m # DotDot, NEW n, n = Component(tree, d, m), n # NoFile
  PROVE  n \in Node \ {Root} /\ tree[n].dir = d /\ tree[n].name = m
BY ComponentIs

(* A way without ".." goes from a directory to what is in it. *)
Downward(at, from, names) ==
  /\ at \in [0 .. Len(names) -> Nodes] /\ at[0] = from
  /\ \A i \in 1 .. Len(names) :
       /\ at[i] = Component(tree, at[i - 1], names[i])
       /\ at[i] # NoFile => /\ at[i - 1] \in Node
                            /\ at[i] \in Node \ {Root} /\ tree[at[i]].dir = at[i - 1]
                            /\ tree[at[i]].name = names[i]

LEMMA WayDown ==
  ASSUME IsTree(tree), NEW from \in Node, NEW names, Len(names) \in Nat,
         \A i \in 1 .. Len(names) : names[i] # DotDot
  PROVE  Downward(Route(tree, from, names), from, names)
<1>1. tree \in [Node -> Place] /\ from \in Nodes
  BY DEF IsTree, Nodes
<1>2. PICK at : /\ at = Route(tree, from, names) /\ at \in [0 .. Len(names) -> Nodes] /\ at[0] = from
                /\ \A i \in 1 .. Len(names) : at[i] = Component(tree, at[i - 1], names[i])
  <2>1. ASSUME NEW t \in [Node -> Place], NEW a \in Nodes
        PROVE  /\ Route(t, a, names) \in [0 .. Len(names) -> Nodes] /\ Route(t, a, names)[0] = a
               /\ \A i \in 1 .. Len(names) :
                    Route(t, a, names)[i] = Component(t, Route(t, a, names)[i - 1], names[i])
    BY RouteIs
  <2> QED
    BY <1>1, <2>1
<1>3. ASSUME NEW i \in 1 .. Len(names), at[i] # NoFile
      PROVE  /\ at[i - 1] \in Node
             /\ at[i] \in Node \ {Root} /\ tree[at[i]].dir = at[i - 1] /\ tree[at[i]].name = names[i]
  <2>1. i - 1 \in 0 .. Len(names)
    OBVIOUS
  <2>2. at[i - 1] \in Node
    <3>1. at[i - 1] \in Nodes
      BY <1>2, <2>1
    <3>2. at[i - 1] # NoFile
      BY <1>2, <1>3 DEF Component
    <3> QED
      BY <3>1, <3>2 DEF Nodes
  <2>6. PICK m : m = names[i] /\ m # DotDot
    OBVIOUS
  <2>3. PICK d \in Node : d = at[i - 1]
    BY <2>2
  <2>4. at[i] = Component(tree, d, m)
    BY <1>2, <2>3, <2>6
  <2>5. at[i] \in Node \ {Root} /\ tree[at[i]].dir = d /\ tree[at[i]].name = m
    BY <1>3, <2>3, <2>4, <2>6, ComponentFound
  <2> QED
    BY <2>2, <2>3, <2>5, <2>6
<1> QED
  BY <1>2, <1>3 DEF Downward

(* ".." leads back along it. *)
LEMMA ClimbsBack ==
  ASSUME IsTree(tree), NEW from \in Node, NEW names, Len(names) \in Nat,
         \A i \in 1 .. Len(names) : names[i] # DotDot,
         NEW at, at = Route(tree, from, names), at[Len(names)] # NoFile,
         \A i \in 1 .. Len(names) : at[i] # NoFile,
         NEW b \in 0 .. Len(names)
  PROVE  Route(tree, at[Len(names)], WayBack(b))[b] = at[Len(names) - b]
<1>1. PICK N \in Nat : N = Len(names)
  OBVIOUS
<1>2. /\ at \in [0 .. N -> Nodes] /\ at[0] = from
      /\ \A i \in 1 .. N : at[i - 1] \in Node /\ at[i] \in Node \ {Root} /\ tree[at[i]].dir = at[i - 1]
  BY <1>1, WayDown DEF Downward
<1>3. at[N] \in Nodes /\ b \in Nat /\ b <= N /\ tree \in [Node -> Place]
  BY <1>1, <1>2 DEF IsTree
<1>4. PICK way : way = WayBack(b) /\ Len(way) = b /\ \A i \in 1 .. b : way[i] = DotDot
  BY <1>3, WayBackAlways DEF WayBackIs
<1>5. PICK up : up = Route(tree, at[N], way) /\ up[0] = at[N]
                /\ \A i \in 1 .. b : up[i] = Component(tree, up[i - 1], way[i])
  <2>1. ASSUME NEW t \in [Node -> Place], NEW a \in Nodes, NEW ns, Len(ns) \in Nat
        PROVE  /\ Route(t, a, ns)[0] = a
               /\ \A i \in 1 .. Len(ns) : Route(t, a, ns)[i] = Component(t, Route(t, a, ns)[i - 1], ns[i])
    BY RouteIs
  <2>2. Len(way) \in Nat
    BY <1>3, <1>4
  <2> QED
    BY <1>3, <1>4, <2>1, <2>2
<1> DEFINE P == {j \in 0 .. b : up[j] = at[N - j]}
<1>6. 0 \in P
  BY <1>3, <1>5
<1>7. ASSUME NEW j \in 1 .. b, j - 1 \in P PROVE j \in P
  <2>1. up[j - 1] = at[N - (j - 1)]
    BY <1>7
  <2>2. PICK i \in 1 .. N : i = N - (j - 1) /\ i - 1 = N - j
    BY <1>3
  <2>3. at[i] \in Node /\ tree[at[i]].dir = at[i - 1]
    BY <1>2, <2>2
  <2>4. up[j] = Component(tree, at[i], DotDot)
    BY <1>4, <1>5, <2>1, <2>2
  <2>5. up[j] = at[i - 1]
    BY <2>3, <2>4, NinePAssumption DEF Component
  <2> QED
    BY <2>2, <2>5
<1> HIDE DEF P
<1>8. \A j \in 0 .. b : j \in P
  BY <1>3, <1>6, <1>7, UpTo
<1>9. b \in P
  BY <1>3, <1>8
<1> QED
  BY <1>1, <1>4, <1>5, <1>9 DEF P

-----------------------------------------------------------------------------
(* The answer to a request, while the host waits *)

(* The nodes that the names of a request lead through. *)
Reached(at, to) ==
  /\ at = Route(tree, Met(qids, progress), Request(to))
  /\ at \in [0 .. to - progress -> Nodes] /\ at[0] = Met(qids, progress) /\ at[0] \in Node
  /\ \A i \in 1 .. to - progress :
       at[i] # NoFile => /\ at[i - 1] \in Node
                         /\ at[i] \in Node \ {Root} /\ tree[at[i]].dir = at[i - 1]
                         /\ tree[at[i]].name = comps[progress + i].name

LEMMA MetIsNode ==
  ASSUME NEW q \in Seq(Node), NEW i \in 0 .. Len(q)
  PROVE  Met(q, i) \in Node
<1>1. i = 0 \/ i \in 1 .. Len(q)
  OBVIOUS
<1> QED
  BY <1>1, NinePAssumption DEF Met

LEMMA RequestReaches ==
  ASSUME TypesInv, BrowseInv, NoDots(asked.rel), NEW to \in progress + 1 .. Len(comps),
         to <= progress + ChunkMax
  PROVE  /\ \E at : Reached(at, to)
         /\ \A i \in 1 .. Len(Request(to)) : Request(to)[i] # DotDot
         /\ Met(qids, progress) \in Node
<1>1. /\ Len(Request(to)) = to - progress
      /\ \A i \in 1 .. to - progress : Request(to)[i] = comps[progress + i].name
  BY RequestIs
<1>2. PICK N \in Nat, p \in Nat, k \in Nat : N = Len(comps) /\ p = progress /\ k = to
                                          /\ p + 1 <= k /\ k <= N
  BY TypesAre
<1>3. \A i \in 1 .. N : comps[i].name # DotDot
  <2>1. /\ db \in [Node -> Record] /\ asked.cnid \in Nodes /\ asked.rel \in Seq(Name \union {DotDot})
    BY DEF TypesInv, CallTyped
  <2>2. ~Endless(asked.cnid) /\ ~BadCNID(asked.cnid) /\ comps = FullPath(asked.cnid, asked.rel)
    BY DEF BrowseInv
  <2>3. PICK c \in Nodes, rel \in Seq(Name \union {DotDot}) : c = asked.cnid /\ rel = asked.rel
    BY <2>1
  <2>4. \A i \in 1 .. Len(FullPath(c, rel)) : FullPath(c, rel)[i].name # DotDot
    BY <2>1, <2>2, <2>3, NoDotsPath DEF NoDots
  <2> QED
    BY <1>2, <2>2, <2>3, <2>4
<1>4. \A i \in 1 .. k - p : Request(to)[i] # DotDot
  <2> TAKE i \in 1 .. k - p
  <2>1. p + i \in 1 .. N
    BY <1>2
  <2> QED
    BY <1>1, <1>2, <1>3, <2>1
<1>5. Met(qids, progress) \in Node
  <2>1. qids \in Seq(Node) /\ progress \in 0 .. Len(qids)
    BY <1>2, TypesAre
  <2> QED
    BY <2>1, MetIsNode
<1>9. PICK names : names = Request(to) /\ Len(names) = k - p
  BY <1>1, <1>2
<1>10. PICK from \in Node : from = Met(qids, progress)
  BY <1>5
<1>6. names = Request(to) /\ from = Met(qids, progress) /\ Len(names) = k - p
  BY <1>9, <1>10
<1>7. PICK at : /\ at = Route(tree, from, names) /\ at \in [0 .. k - p -> Nodes] /\ at[0] = from
                /\ \A i \in 1 .. k - p :
                     at[i] # NoFile => /\ at[i - 1] \in Node
                                       /\ at[i] \in Node \ {Root} /\ tree[at[i]].dir = at[i - 1]
                                       /\ tree[at[i]].name = names[i]
  <2>1. IsTree(tree) /\ k - p \in Nat /\ \A i \in 1 .. Len(names) : names[i] # DotDot
    BY <1>2, <1>4, <1>6 DEF TypesInv
  <2>2. Downward(Route(tree, from, names), from, names)
    BY <1>6, <2>1, WayDown
  <2> QED
    BY <1>6, <2>2 DEF Downward
<1>8. Reached(at, to)
  <2>1. \A i \in 1 .. k - p : names[i] = comps[p + i].name
    BY <1>1, <1>2, <1>6
  <2> QED
    BY <1>2, <1>5, <1>6, <1>7, <2>1 DEF Reached
<1> QED
  BY <1>1, <1>2, <1>4, <1>5, <1>8

(* The fid of the browse in progress can be walked to. *)
LEMMA Trackeds == Tracked(10) /\ Tracked(12) /\ Tracked(27) /\ Tracked(11) /\ Tracked(9)
BY DEF Tracked

LEMMA WalkAnswers ==
  ASSUME TypesInv, BrowseInv, NoDots(asked.rel), pc = "walk", NEW w, NEW to, Walked(w, to)
  PROVE  \E at :
           /\ Reached(at, to)
           /\ w.err \in BOOLEAN /\ (w.err <=> at[to - progress] = NoFile)
           /\ w.err => session'.at[tip] = Met(qids, progress)
           /\ ~w.err => session'.at[fid] = at[to - progress] /\ Len(w.qids) = to - progress
           /\ \A i \in 1 .. to - progress : at[i] # NoFile <=> i <= Len(w.qids)
           /\ \A i \in 1 .. Len(w.qids) : w.qids[i] = at[i]
<1>1. /\ to \in progress + 1 .. Len(comps) /\ to <= progress + ChunkMax
      /\ w = Walk9(tree, session, tip, fid, Request(to)) /\ session' = w.s
      /\ \A f \in Fid \ {fid} : w.s.at[f] = session.at[f]
  BY DEF Walked
<1>2. PICK at : Reached(at, to)
  BY <1>1, RequestReaches
<1>3. PICK names : names = Request(to)
  OBVIOUS
<1>4. names \in Seq(Name \union {NoName, DotDot}) /\ Len(names) = to - progress /\ Len(names) <= ChunkMax
  BY <1>1, <1>3, RequestIs
<1>5. tree \in [Node -> Place] /\ Ready(session) /\ tip \in Fid /\ fid \in Fid \ {RootFid} /\ fid \in {10, 12}
  BY TypesAre
<1>6. session.at[tip] = Met(qids, progress) /\ Met(qids, progress) \in Node
  BY <1>1, RequestReaches DEF BrowseInv
<1>7. InUse(session, tip) /\ Tracked(fid)
  BY <1>5, <1>6, Trackeds, NinePAssumption DEF InUse
<1>8. WalkFollows(tree, session, tip, fid, names)
  BY <1>4, <1>5, <1>7, WalkFollowsPath
<1>9. at = Route(tree, session.at[tip], names) /\ Len(names) = to - progress
  BY <1>2, <1>3, <1>4, <1>6 DEF Reached
<1>10. /\ w.err \in BOOLEAN /\ (w.err <=> at[to - progress] = NoFile)
       /\ ~w.err => w.s.at[fid] = at[to - progress] /\ Len(w.qids) = to - progress
       /\ w.err /\ fid = tip => w.s.at[tip] = session.at[tip]
       /\ \A i \in 1 .. to - progress : at[i] # NoFile <=> i <= Len(w.qids)
       /\ \A i \in 1 .. Len(w.qids) : w.qids[i] = at[i]
  BY <1>1, <1>3, <1>8, <1>9, Zenon DEF WalkFollows
<1>11. w.err => w.s.at[tip] = session.at[tip]
  BY <1>1, <1>5, <1>10
<1> QED
  BY <1>1, <1>2, <1>6, <1>10, <1>11

(* The steps of a browse, but for the last, change only where it is.        *)
BrowseStep ==
  /\ Browsing /\ UNCHANGED <<tree, db, comps, callVars, world>>
  /\ \A f \in Fid \ {fid, 27} : session'.at[f] = session.at[f]

LEMMA BrowseInvNext ==
  ASSUME BrowseInv, BrowseStep,
         OnTheWay(comps, qids'), progress' > 0 => tip' = fid,
         pc' # "back" => session'.at[tip'] = Met(qids', progress'),
         pc' = "back" => Route(tree, session'.at[tip'], WayBack(back'))[back'] = Met(qids', progress')
                         /\ comps[progress' + 1].expect # NoFile,
         pc' = "search" /\ comps[progress' + 1].expect = NoFile =>
           Denoted(tree, asked.cnid, asked.rel) = NoFile,
         pc' = "enter" => LET want == comps[progress' + 1].expect
                          IN  want # Root /\ tree[want] = [dir |-> Met(qids', progress'), name |-> listed']
  PROVE  BrowseInv'
<1>1. tree' = tree /\ db' = db /\ comps' = comps /\ asked' = asked /\ fid' = fid
  BY DEF BrowseStep, callVars
<1>2. (~Endless(asked.cnid) /\ ~BadCNID(asked.cnid) /\ comps = FullPath(asked.cnid, asked.rel))'
  <2>1. PICK c, rel : c = asked.cnid /\ rel = asked.rel
    OBVIOUS
  <2>2. /\ Endless(c)' = Endless(c) /\ BadCNID(c)' = BadCNID(c) /\ FullPath(c, rel)' = FullPath(c, rel)
    BY <1>1, PathsKept
  <2>3. ~Endless(c) /\ ~BadCNID(c) /\ comps = FullPath(c, rel)
    BY <2>1 DEF BrowseInv
  <2>4. ~Endless(c)' /\ ~BadCNID(c)' /\ comps' = FullPath(c, rel)'
    BY <1>1, <2>2, <2>3
  <2> QED
    BY <1>1, <2>1, <2>4
<1>3. OnTheWay(comps, qids)'
  BY <1>1 DEF OnTheWay, Met
<1>4. Met(qids, progress)' = Met(qids', progress')
  BY DEF Met
<1>5. /\ (progress > 0 => tip = fid)'
      /\ (pc # "back" => session.at[tip] = Met(qids, progress))'
      /\ (pc = "enter" => LET want == comps[progress + 1].expect
                          IN  want # Root /\ tree[want] = [dir |-> Met(qids, progress), name |-> listed])'
  BY <1>1, <1>4
<1>6. (pc = "back" => Route(tree, session.at[tip], WayBack(back))[back] = Met(qids, progress)
                      /\ comps[progress + 1].expect # NoFile)'
  <2>1. Route(tree, session.at[tip], WayBack(back))' = Route(tree', session'.at[tip'], WayBack(back'))
    BY DEF Route, Component, Named, Children, WayBack
  <2>2. Route(tree, session.at[tip], WayBack(back))[back]' = Route(tree, session'.at[tip'], WayBack(back'))[back']
    BY <1>1, <2>1
  <2> QED
    BY <1>1, <1>4, <2>2
<1>7. (pc = "search" /\ comps[progress + 1].expect = NoFile =>
         Denoted(tree, asked.cnid, asked.rel) = NoFile)'
  BY <1>1 DEF Denoted, Route, Component, Named, Children
<1> QED
  BY <1>2, <1>3, <1>5, <1>6, <1>7 DEF BrowseInv

LEMMA StepWaits ==
  ASSUME TypesInv, WaitInv, BrowseStep, pc' \notin {"hung", "idle"}, Browsing' => BrowseInv',
         result' = "none" \/ result' = "fnfErr",
         Returned' => ~Connected(asked.cnid) \/ Denoted(tree, asked.cnid, asked.rel) = NoFile
  PROVE  WaitInv'
<1>1. /\ tree' = tree /\ db' = db /\ asked' = asked /\ fid' = fid /\ op' = op /\ child' = child
      /\ newName' = newName /\ Browsing
  BY DEF BrowseStep, callVars
<1>2. ~Found /\ ~Found'
  <2>1. result = "none"
    BY <1>1 DEF TypesInv, BrowseTyped
  <2> QED
    BY <2>1, CatalogAssumption DEF Found, Errors
<1>3. Grounded(db)' /\ NoDots(asked.rel)'
  BY <1>1 DEF WaitInv, Grounded, NoDots
<1>4. CheckInv'
  <2> SUFFICES ASSUME op = "dupcheck" PROVE CheckInv'
    BY <1>1 DEF CheckInv
  <2>1. /\ child # Root /\ session.at[10] = child /\ Connected(child)
        /\ asked = [cnid |-> tree[child].dir, rel |-> <<newName>>]
    BY <1>2 DEF WaitInv, CheckInv
  <2>2. session'.at[10] = session.at[10]
    <3>1. fid = 12
      BY <1>1 DEF TypesInv, CallTyped, Browsing, Searching
    <3>2. 10 \in Fid
      BY TypesAre
    <3> QED
      BY <3>1, <3>2 DEF BrowseStep
  <2>3. PICK c : c = child
    OBVIOUS
  <2>4. Connected(c)'
    BY <1>1, <2>1, <2>3, ConnectedKept
  <2> QED
    BY <1>1, <2>1, <2>2, <2>3, <2>4 DEF CheckInv
<1>5. (Returned /\ ~Found /\ Connected(asked.cnid) => Denoted(tree, asked.cnid, asked.rel) = NoFile)'
  <2> SUFFICES ASSUME Returned', Connected(asked.cnid)' PROVE Denoted(tree, asked.cnid, asked.rel)' = NoFile
    OBVIOUS
  <2>1. PICK c, rel : c = asked.cnid /\ rel = asked.rel
    OBVIOUS
  <2>2. Connected(c)
    BY <1>1, <2>1, ConnectedKept
  <2>3. Denoted(tree, c, rel) = NoFile
    BY <2>1, <2>2
  <2>4. Denoted(tree, asked.cnid, asked.rel)' = Denoted(tree, asked.cnid, asked.rel)
    BY <1>1 DEF Denoted, Route, Component, Named, Children
  <2> QED
    BY <2>1, <2>3, <2>4
<1> QED
  BY <1>2, <1>3, <1>4, <1>5 DEF WaitInv

LEMMA WalkWaits ==
  ASSUME TypesInv, WaitInv, BrowseWalk
  PROVE  WaitInv'
<1>1. pc = "walk" /\ UNCHANGED <<tree, db, comps, listed, callVars, result, calls, moves, world>>
  BY DEF BrowseWalk
<1>2. Browsing /\ BrowseInv /\ NoDots(asked.rel) /\ result = "none"
  BY <1>1 DEF WaitInv, Browsing, Searching, TypesInv, BrowseTyped
<1>3. PICK w, to : Walked(w, to)
  BY BrowseWalkIs
<1>4. PICK at :
        /\ Reached(at, to)
        /\ w.err \in BOOLEAN /\ (w.err <=> at[to - progress] = NoFile)
        /\ w.err => session'.at[tip] = Met(qids, progress)
        /\ ~w.err => session'.at[fid] = at[to - progress] /\ Len(w.qids) = to - progress
        /\ \A i \in 1 .. to - progress : at[i] # NoFile <=> i <= Len(w.qids)
        /\ \A i \in 1 .. Len(w.qids) : w.qids[i] = at[i]
  BY <1>1, <1>2, <1>3, WalkAnswers
<1>5. PICK N \in Nat, p \in Nat, k \in Nat :
        /\ N = Len(comps) /\ p = progress /\ k = to /\ p + 1 <= k /\ k <= N
        /\ Len(qids) = p /\ qids \in Seq(Node)
  BY <1>3, TypesAre DEF Walked
<1>11. p \in Nat /\ k \in Nat /\ N \in Nat /\ p + 1 <= k /\ k <= N
  BY <1>5
<1>6. BrowseStep
  BY <1>1, <1>2, <1>3 DEF BrowseStep, Walked
<1>7. OnTheWay(comps, qids) /\ (progress > 0 => tip = fid)
  BY <1>2 DEF BrowseInv
<1>8. PICK c \in Nodes, rel \in Seq(Name \union {DotDot}) :
        /\ c = asked.cnid /\ rel = asked.rel /\ ~Endless(c) /\ ~BadCNID(c) /\ NoDots(rel)
        /\ comps = FullPath(c, rel) /\ IsTree(tree) /\ db \in [Node -> Record]
  BY <1>2 DEF BrowseInv, TypesInv, CallTyped
<1>9. CASE CutShort(w, to)
  <2>1. /\ Len(w.qids) < k - p /\ tip' = tip /\ progress' = p /\ qids' = qids /\ pc' = "search"
    BY <1>5, <1>9 DEF CutShort
  <2>2. w.err /\ session'.at[tip'] = Met(qids', progress')
    <3>1. w.err
      BY <1>4, <1>5, <2>1
    <3> QED
      BY <1>4, <1>5, <2>1, <3>1
  <2>3. comps[p + 1].expect = NoFile => Denoted(tree, c, rel) = NoFile
    <3> SUFFICES ASSUME comps[p + 1].expect = NoFile PROVE Denoted(tree, c, rel) = NoFile
      OBVIOUS
    <3>1. PICK n \in Nat, m \in Nat :
            /\ n = Len(PathOf(c)) /\ m = Len(rel) /\ N = n + m
            /\ \A i \in n .. Len(qids) : Met(qids, i) = Route(tree, c, rel)[i - n]
            /\ c \in Node
      <4>1. Len(qids) <= Len(FullPath(c, rel)) /\ OnTheWay(FullPath(c, rel), qids)
        BY <1>5, <1>7, <1>8
      <4>2. /\ Len(PathOf(c)) \in Nat /\ Len(FullPath(c, rel)) = Len(PathOf(c)) + Len(rel) /\ c \in Node
            /\ \A i \in Len(PathOf(c)) .. Len(qids) : Met(qids, i) = Route(tree, c, rel)[i - Len(PathOf(c))]
        BY <1>5, <1>8, <4>1, MetIsRoute
      <4>3. Len(rel) \in Nat
        BY <1>8
      <4> QED
        BY <1>5, <1>8, <4>2, <4>3
    <3>2. n <= p
      <4> SUFFICES ASSUME p < n PROVE FALSE
        BY <1>5, <3>1
      <4>1. FullPathIs(c, rel, comps) /\ PathIs(c, PathOf(c))
        BY <1>8, FullPathOf, PathOfIs
      <4>2. p + 1 \in 1 .. n
        BY <1>5, <3>1
      <4>3. comps[p + 1].expect \in Node
        BY <3>1, <4>1, <4>2 DEF FullPathIs, PathIs
      <4> QED
        BY <4>3, NinePAssumption
    <3>3. PICK full : full = Route(tree, c, rel) /\ full[0] = c /\ full[p - n] = Met(qids, p)
                      /\ \A i \in 1 .. m : full[i] = Component(tree, full[i - 1], rel[i])
      <4>1. p \in n .. Len(qids)
        BY <1>5, <3>1, <3>2
      <4>2. \A i \in 1 .. Len(rel) : rel[i] # DotDot
        BY <1>8 DEF NoDots
      <4>3. Downward(Route(tree, c, rel), c, rel)
        BY <1>8, <3>1, <4>2, WayDown
      <4> QED
        BY <3>1, <4>1, <4>3 DEF Downward
    <3>4. \A i \in 1 .. k - p : comps[p + i].name = rel[p - n + i]
      <4> TAKE i \in 1 .. k - p
      <4>1. p - n + i \in 1 .. m /\ n + (p - n + i) = p + i
        BY <1>5, <3>1, <3>2
      <4>2. \A j \in 1 .. m : comps[n + j] = [name |-> rel[j], expect |-> NoFile]
        BY <1>8, <3>1, FullPathOf DEF FullPathIs
      <4>3. comps[n + (p - n + i)] = [name |-> rel[p - n + i], expect |-> NoFile]
        BY <4>1, <4>2
      <4> QED
        BY <4>1, <4>3
    <3>5. \A i \in 0 .. k - p : at[i] = full[p - n + i]
      <4>1. /\ at[0] = Met(qids, p)
            /\ \A i \in 1 .. k - p : at[i] = Component(tree, at[i - 1], Request(to)[i])
        <5>1. PICK names : names = Request(to) /\ Len(names) = k - p /\ \A i \in 1 .. Len(names) : names[i] # DotDot
          <6>1. to \in progress + 1 .. Len(comps) /\ to <= progress + ChunkMax
            BY <1>3 DEF Walked
          <6> QED
            BY <1>2, <1>5, <6>1, RequestIs, RequestReaches
        <5>2. PICK from \in Node : from = Met(qids, p)
          BY <1>4, <1>5 DEF Reached
        <5>3. Downward(Route(tree, from, names), from, names)
          BY <1>5, <1>8, <5>1, WayDown
        <5> QED
          BY <1>4, <1>5, <5>1, <5>2, <5>3 DEF Downward, Reached
      <4>2. \A i \in 1 .. k - p : Request(to)[i] = comps[p + i].name
        BY <1>3, <1>5, RequestIs DEF Walked
      <4> DEFINE P == {i \in 0 .. k - p : at[i] = full[p - n + i]}
      <4>3. 0 \in P
        BY <1>5, <3>1, <3>3, <4>1
      <4>4. ASSUME NEW i \in 1 .. k - p, i - 1 \in P PROVE i \in P
        <5>1. at[i - 1] = full[p - n + (i - 1)]
          BY <4>4
        <5>5. p - n + i \in 1 .. m /\ p - n + i - 1 = p - n + (i - 1)
          <6>1. i \in Nat /\ 1 <= i /\ i <= k - p
            BY <1>11
          <6>2. n \in Nat /\ m \in Nat /\ k <= n + m /\ n <= p
            BY <1>5, <3>1, <3>2
          <6> QED
            BY <1>11, <6>1, <6>2
        <5>2. PICK j \in 1 .. m : j = p - n + i /\ j - 1 = p - n + (i - 1)
          BY <5>5
        <5>3. full[j] = Component(tree, full[j - 1], rel[j])
          BY <3>3
        <5>4. at[i] = Component(tree, full[j - 1], rel[j])
          BY <3>4, <4>1, <4>2, <5>1, <5>2
        <5> QED
          BY <5>2, <5>3, <5>4
      <4> HIDE DEF P
      <4>5. k - p \in Nat
        BY <1>5
      <4>6. \A i \in 0 .. k - p : i \in P
        BY <4>3, <4>4, <4>5, UpTo
      <4> QED
        BY <4>6 DEF P
    <3>6. PICK j \in 0 .. m : j = p - n + (k - p) /\ full[j] = NoFile
      <4>1. at[k - p] = NoFile
        BY <1>4, <1>5, <2>2
      <4>2. k - p \in 0 .. k - p /\ p - n + (k - p) \in 0 .. m
        BY <1>5, <3>1, <3>2
      <4> QED
        BY <3>5, <4>1, <4>2
    <3>7. Route(tree, c, rel)[m] = NoFile
      <4>1. tree \in [Node -> Place] /\ Len(rel) \in Nat /\ j \in 0 .. Len(rel)
        BY <1>8, <3>1 DEF IsTree
      <4>2. ASSUME NEW t \in [Node -> Place], Route(t, c, rel)[j] = NoFile
            PROVE  \A i \in j .. Len(rel) : Route(t, c, rel)[i] = NoFile
        BY <4>1, <4>2, RouteBroken
      <4>3. \A i \in j .. Len(rel) : Route(tree, c, rel)[i] = NoFile
        BY <3>3, <3>6, <4>1, <4>2
      <4> QED
        BY <3>1, <4>3
    <3> QED
      BY <3>1, <3>7 DEF Denoted
  <2>4. BrowseInv'
    <3>1. OnTheWay(comps, qids') /\ (progress' > 0 => tip' = fid)
      BY <1>5, <1>7, <2>1
    <3> QED
      BY <1>2, <1>5, <1>6, <1>8, <2>1, <2>2, <2>3, <3>1, BrowseInvNext
  <2> QED
    BY <1>1, <1>2, <1>6, <2>1, <2>4, StepWaits DEF Returned
<1>10. CASE Whole(w, to)
  <2>1. PICK r \in p .. k :
          /\ r = progress' /\ Len(w.qids) = k - p /\ tip' = fid /\ back' = k - r
          /\ qids' \in Seq(Node) /\ Len(qids') = r
          /\ \A i \in 1 .. r : qids'[i] = (qids \o w.qids)[i]
          /\ \A i \in p + 1 .. r : comps[i].expect \in {NoFile, (qids \o w.qids)[i]}
          /\ \/ r = k /\ pc' = Onward(to)
             \/ r < k /\ pc' = "back" /\ comps[r + 1].expect # NoFile
    BY <1>5, <1>10 DEF Whole
  <2>2. PICK q : q = qids' /\ q \in Seq(Node) /\ Len(q) = r
    BY <2>1
  <2>12. r \in Nat /\ p <= r /\ r <= k
    BY <1>11
  <2>3. /\ \A i \in 1 .. p : i <= r => q[i] = qids[i]
        /\ \A i \in p + 1 .. r : q[i] = at[i - p]
        /\ \A i \in p + 1 .. r : comps[i].expect \in {NoFile, q[i]}
    <3>1. w.qids \in Seq(Node)
      BY <1>3 DEF Walked
    <3>2. PICK a \in Seq(Node), b \in Seq(Node) : a = qids /\ b = w.qids /\ Len(a) = p /\ Len(b) = k - p
      BY <1>5, <2>1, <3>1
    <3>3. \A i \in 1 .. p + (k - p) : (a \o b)[i] = IF i <= p THEN a[i] ELSE b[i - p]
      BY <3>2, ConcatProperties
    <3>4. \A i \in 1 .. r : q[i] = IF i <= p THEN qids[i] ELSE w.qids[i - p]
      <4> TAKE i \in 1 .. r
      <4>1. i \in 1 .. p + (k - p)
        BY <1>5, <2>1
      <4> QED
        BY <2>1, <2>2, <3>2, <3>3, <4>1
    <3>5. \A i \in p + 1 .. r : i \in 1 .. r /\ ~(i <= p) /\ i - p \in 1 .. Len(w.qids)
      BY <1>5, <2>1
    <3>6. \A i \in p + 1 .. r : w.qids[i - p] = at[i - p]
      BY <1>4, <3>5
    <3>7. \A i \in 1 .. p : i <= r => q[i] = qids[i]
      <4> TAKE i \in 1 .. p
      <4>1. i <= r => i \in 1 .. r
        BY <1>11, <2>12
      <4>2. i <= p
        BY <1>11
      <4> QED
        BY <3>4, <4>1, <4>2
    <3>8. \A i \in p + 1 .. r : q[i] = at[i - p]
      BY <3>4, <3>5, <3>6
    <3>9. \A i \in p + 1 .. r : comps[i].expect \in {NoFile, q[i]}
      <4> TAKE i \in p + 1 .. r
      <4>1. i \in 1 .. r
        BY <3>5
      <4>2. q[i] = (qids \o w.qids)[i]
        BY <2>1, <2>2, <4>1
      <4> QED
        BY <2>1, <4>2
    <3> QED
      BY <3>7, <3>8, <3>9
  <2>4. \A i \in 0 .. r - p : Met(q, p + i) = at[i]
    <3> TAKE i \in 0 .. r - p
    <3>1. CASE i = 0
      <4>1. at[0] = Met(qids, p)
        BY <1>4, <1>5 DEF Reached
      <4>2. Met(q, p) = Met(qids, p)
        <5>1. p # 0 => p \in 1 .. p /\ p <= r
          BY <1>5, <2>1
        <5> QED
          BY <2>3, <5>1 DEF Met
      <4> QED
        BY <1>5, <3>1, <4>1, <4>2
    <3>2. CASE i # 0
      <4>1. p + i \in p + 1 .. r /\ p + i # 0 /\ p + i - p = i
        BY <1>11, <2>12, <3>2
      <4> QED
        BY <2>3, <4>1 DEF Met
    <3> QED
      BY <3>1, <3>2
  <2>5. \A i \in 1 .. k - p : at[i] # NoFile
    BY <1>4, <1>5, <2>1
  <2>6. OnTheWay(comps, q)
    <3> SUFFICES ASSUME NEW i \in 1 .. r
                 PROVE  /\ q[i] \in Node \ {Root} /\ tree[q[i]].dir = Met(q, i - 1)
                        /\ IF comps[i].expect = NoFile THEN tree[q[i]].name = comps[i].name
                                                       ELSE q[i] = comps[i].expect
      BY <2>2 DEF OnTheWay
    <3>1. CASE i <= p
      <4>1. i \in 1 .. Len(qids) /\ q[i] = qids[i] /\ (i - 1 # 0 => i - 1 \in 1 .. p /\ i - 1 <= r)
        BY <1>5, <2>1, <2>3, <3>1
      <4>2. Met(q, i - 1) = Met(qids, i - 1)
        BY <2>3, <4>1 DEF Met
      <4> QED
        BY <1>7, <4>1, <4>2 DEF OnTheWay
    <3>2. CASE i > p
      <4>1. PICK j \in 1 .. k - p : j = i - p /\ p + j = i /\ p + (j - 1) = i - 1
                                   /\ j - 1 \in 0 .. r - p /\ i \in p + 1 .. r
        <5>1. i - p \in 1 .. k - p /\ p + (i - p) = i /\ p + (i - p - 1) = i - 1
              /\ i - p - 1 \in 0 .. r - p /\ i \in p + 1 .. r
          BY <1>11, <2>12, <3>2
        <5> QED
          BY <5>1
      <4>2. q[i] = at[j] /\ comps[i].expect \in {NoFile, q[i]}
        BY <2>3, <4>1
      <4>3. Met(q, i - 1) = at[j - 1]
        BY <2>4, <4>1
      <4>4. /\ at[j] \in Node \ {Root} /\ tree[at[j]].dir = at[j - 1]
            /\ tree[at[j]].name = comps[p + j].name
        BY <1>4, <1>5, <2>5 DEF Reached
      <4> QED
        BY <4>1, <4>2, <4>3, <4>4
    <3> QED
      BY <1>5, <2>1, <3>1, <3>2
  <2>7. ~w.err /\ session'.at[tip'] = at[k - p]
    <3>1. k - p \in 1 .. k - p
      BY <1>5
    <3> QED
      BY <1>4, <1>5, <2>1, <2>5, <3>1
  <2>8. r = k => session'.at[tip'] = Met(q, r)
    <3> SUFFICES ASSUME r = k PROVE session'.at[tip'] = Met(q, r)
      OBVIOUS
    <3>1. k - p \in 0 .. r - p /\ p + (k - p) = k
      BY <1>5
    <3> QED
      BY <2>4, <2>7, <3>1
  <2>9. r < k => Route(tree, session'.at[tip'], WayBack(back'))[back'] = Met(q, r)
    <3>1. PICK names : names = Request(to) /\ Len(names) = k - p
                       /\ \A i \in 1 .. Len(names) : names[i] # DotDot
      <4>1. to \in progress + 1 .. Len(comps) /\ to <= progress + ChunkMax
        BY <1>3 DEF Walked
      <4>2. Len(Request(to)) = k - p
        BY <1>5, <4>1, RequestIs
      <4>3. \A i \in 1 .. Len(Request(to)) : Request(to)[i] # DotDot
        BY <1>2, <4>1, RequestReaches
      <4> QED
        BY <4>2, <4>3
    <3>8. PICK from \in Node : from = Met(qids, progress)
      BY <1>4 DEF Reached
    <3>2. at = Route(tree, from, names)
      BY <1>4, <3>1, <3>8 DEF Reached
    <3>9. k - r \in 0 .. k - p /\ k - p - (k - r) = r - p /\ r - p \in 0 .. r - p /\ p + (r - p) = r
      BY <1>11, <2>12
    <3>3. PICK b \in 0 .. k - p : b = k - r /\ k - p - b = r - p /\ r - p \in 0 .. r - p /\ p + (r - p) = r
      BY <3>9
    <3>4. Len(names) \in Nat /\ at[Len(names)] # NoFile /\ b \in 0 .. Len(names)
          /\ \A i \in 1 .. Len(names) : at[i] # NoFile
      <4>1. k - p \in 1 .. k - p /\ k - p \in Nat
        BY <1>5
      <4> QED
        BY <2>5, <3>1, <3>3, <4>1
    <3>5. Route(tree, at[k - p], WayBack(b))[b] = at[k - p - b]
      <4>1. IsTree(tree) /\ from \in Node /\ \A i \in 1 .. Len(names) : names[i] # DotDot
        BY <1>8, <3>1, <3>8
      <4>2. ASSUME NEW a, a = Route(tree, from, names), a[Len(names)] # NoFile,
                   \A i \in 1 .. Len(names) : a[i] # NoFile, NEW d \in 0 .. Len(names)
            PROVE  Route(tree, a[Len(names)], WayBack(d))[d] = a[Len(names) - d]
        BY <3>4, <4>1, <4>2, ClimbsBack
      <4>3. Route(tree, at[Len(names)], WayBack(b))[b] = at[Len(names) - b]
        BY <3>2, <3>4, <4>2
      <4> QED
        BY <3>1, <4>3
    <3>6. at[k - p - b] = Met(q, r)
      BY <2>4, <3>3
    <3>7. back' = b
      BY <2>1, <3>3
    <3> QED
      BY <2>7, <3>5, <3>6, <3>7
  <2>10. BrowseInv'
    <3>1. pc' \in {"walk", "found", "back"} /\ (pc' = "back" <=> r < k)
          /\ (pc' = "back" => comps[r + 1].expect # NoFile)
      BY <1>5, <2>1 DEF Onward
    <3>2. OnTheWay(comps, qids') /\ (progress' > 0 => tip' = fid)
      BY <2>1, <2>2, <2>6
    <3>3. pc' # "back" => session'.at[tip'] = Met(qids', progress')
      BY <1>5, <2>1, <2>2, <2>8, <3>1
    <3>4. pc' = "back" => Route(tree, session'.at[tip'], WayBack(back'))[back'] = Met(qids', progress')
                          /\ comps[progress' + 1].expect # NoFile
      BY <2>1, <2>2, <2>9, <3>1
    <3> QED
      BY <1>2, <1>6, <3>1, <3>2, <3>3, <3>4, BrowseInvNext
  <2>11. pc' \in {"walk", "found", "back"}
    BY <2>1 DEF Onward
  <2> QED
    BY <1>1, <1>2, <1>6, <2>10, <2>11, StepWaits DEF Returned
<1> QED
  BY <1>3, <1>9, <1>10 DEF Walked

(* A walk that has a fid to start from, and a way. *)
LEMMA StepFollows ==
  ASSUME TypesInv, NEW fd \in Fid, InUse(session, fd), NEW newfid \in {10, 12, 27, 11, 9},
         NEW S, NEW names \in Seq(S), Len(names) <= ChunkMax
  PROVE  WalkFollows(tree, session, fd, newfid, names)
<1>1. tree \in [Node -> Place] /\ Ready(session) /\ newfid \in Fid \ {RootFid}
  BY TypesAre
<1>2. Tracked(newfid)
  BY Trackeds
<1> QED
  BY <1>1, <1>2, WalkFollowsPath

(* Each component that is expected on the way to a connected CNID is where  *)
(* it is noted.                                                             *)
LEMMA ExpectedIsNoted ==
  ASSUME db \in [Node -> Record], NEW c \in Nodes, Connected(c), ~Endless(c), ~BadCNID(c)
  PROVE  \A i \in 1 .. Len(PathOf(c)) :
           db[PathOf(c)[i].expect].dir = tree[PathOf(c)[i].expect].dir
<1>1. PICK T : Chain(T) /\ c \in T
  BY ConnectedIsRooted DEF Rooted
<1>2. PICK path \in Seq(Component9) : path = PathOf(c) /\ PathIs(c, path)
  BY PathOfIs DEF PathIs
<1>3. PICK N \in Nat : N = Len(path)
  OBVIOUS
<1>4. /\ \A i \in 1 .. N : path[i].expect \in Node \ {Root}
      /\ \A i \in 1 .. N : i # 1 => db[path[i].expect].dir = path[i - 1].expect
      /\ N > 0 => c = path[N].expect
  <2>1. N > 0 => path # <<>>
    BY <1>3
  <2> QED
    BY <1>2, <1>3, <2>1 DEF PathIs
<1> DEFINE P == {j \in 0 .. N - 1 : path[N - j].expect \in T}
<1>5. CASE N > 0
  <2>1. 0 \in P
    BY <1>1, <1>4, <1>5
  <2>2. ASSUME NEW j \in 1 .. N - 1, j - 1 \in P PROVE j \in P
    <3>1. path[N - (j - 1)].expect \in T
      BY <2>2
    <3>2. PICK i \in 1 .. N : i = N - (j - 1) /\ i # 1 /\ i - 1 = N - j
      <4>1. N - (j - 1) \in 1 .. N /\ N - (j - 1) # 1 /\ N - (j - 1) - 1 = N - j
        OBVIOUS
      <4> QED
        BY <4>1
    <3>3. path[i].expect \in T /\ path[i].expect \in Node \ {Root}
          /\ db[path[i].expect].dir = path[i - 1].expect
      BY <1>4, <3>1, <3>2
    <3>4. path[i - 1].expect \in T
      BY <1>1, <3>3 DEF Chain
    <3> QED
      BY <3>2, <3>4
  <2> HIDE DEF P
  <2>3. N - 1 \in Nat
    BY <1>5
  <2>4. \A j \in 0 .. N - 1 : j \in P
    BY <2>1, <2>2, <2>3, UpTo
  <2>5. ASSUME NEW i \in 1 .. N PROVE db[path[i].expect].dir = tree[path[i].expect].dir
    <3>1. N - i \in 0 .. N - 1 /\ N - (N - i) = i
      OBVIOUS
    <3>2. path[N - (N - i)].expect \in T
      BY <2>4, <3>1 DEF P
    <3>3. path[i].expect \in T /\ path[i].expect # Root
      BY <1>4, <3>1, <3>2
    <3> QED
      BY <1>1, <3>3 DEF Chain
  <2> QED
    BY <1>2, <1>3, <2>5
<1> QED
  BY <1>2, <1>3, <1>5

LEMMA BackWaits ==
  ASSUME TypesInv, WaitInv, BrowseBack
  PROVE  WaitInv'
<1>1. /\ UNCHANGED <<tree, db, comps, progress, tip, qids, listed, callVars, result, calls, moves, world>>
      /\ pc = "back" /\ back' = 0 /\ pc' = "search"
      /\ session' = Walk9(tree, session, tip, fid, WayBack(back)).s
  BY DEF BrowseBack
<1>2. Browsing /\ BrowseInv /\ NoDots(asked.rel) /\ result = "none" /\ tip = fid /\ tip' = fid
  BY <1>1 DEF WaitInv, Browsing, Searching, TypesInv, BrowseTyped
<1>3. PICK b \in 0 .. ChunkMax : b = back
  BY DEF TypesInv, BrowseTyped
<1>4. PICK names \in Seq({DotDot}) : names = WayBack(b) /\ Len(names) = b /\ Len(names) <= ChunkMax
  <2>1. b \in Nat /\ b <= ChunkMax
    BY NinePAssumption
  <2> QED
    BY <2>1, WayBackAlways DEF WayBackIs
<1>5. Met(qids, progress) \in Node
  <2>1. qids \in Seq(Node) /\ progress \in 0 .. Len(qids)
    BY TypesAre
  <2> QED
    BY <2>1, MetIsNode
<1>6. PICK from : from = session.at[fid] /\ Route(tree, from, names)[b] = Met(qids, progress)
  BY <1>1, <1>2, <1>3, <1>4 DEF BrowseInv
<1>7. fid \in Fid /\ fid \in {10, 12, 27, 11, 9} /\ from \in Nodes
  <2>1. fid \in Fid /\ fid \in {10, 12}
    BY <1>1, TypesAre
  <2>2. session.at \in [Fid -> Nodes]
    BY TypesAre DEF Ready, Sound, Session
  <2> QED
    BY <1>6, <2>1, <2>2
<1>8. InUse(session, fid)
  <2> SUFFICES ASSUME from = NoFile PROVE FALSE
    BY <1>6 DEF InUse
  <2>1. tree \in [Node -> Place] /\ Len(names) \in Nat /\ b \in 0 .. Len(names) /\ 0 \in 0 .. Len(names)
    BY <1>3, <1>4, TypesAre
  <2>2. ASSUME NEW t \in [Node -> Place]
        PROVE  /\ Route(t, from, names)[0] = from
               /\ Route(t, from, names)[0] = NoFile => \A i \in 0 .. Len(names) : Route(t, from, names)[i] = NoFile
    BY <1>7, <2>1, RouteIs, RouteBroken
  <2>3. Route(tree, from, names)[b] = NoFile
    BY <2>1, <2>2
  <2> QED
    BY <1>5, <1>6, <2>3, NinePAssumption
<1>9. WalkFollows(tree, session, fid, fid, names)
  BY <1>4, <1>7, <1>8, StepFollows
<1>10. session'.at[fid] = Met(qids, progress)
  <2>1. session' = Walk9(tree, session, fid, fid, names).s
    BY <1>1, <1>2, <1>3, <1>4
  <2>2. ~Walk9(tree, session, fid, fid, names).err
    BY <1>4, <1>5, <1>6, <1>9, NinePAssumption, Zenon DEF WalkFollows
  <2> QED
    BY <1>4, <1>6, <1>9, <2>1, <2>2, Zenon DEF WalkFollows
<1>11. BrowseStep
  <2>1. \A f \in Fid \ {fid} : Walk9(tree, session, fid, fid, names).s.at[f] = session.at[f]
    <3>1. fid \in Fid \ {RootFid}
      BY <1>1, TypesAre
    <3> QED
      BY <1>4, <3>1, WalkReady
  <2>2. session' = Walk9(tree, session, fid, fid, names).s
    BY <1>1, <1>2, <1>3, <1>4
  <2> QED
    BY <1>1, <1>2, <2>1, <2>2 DEF BrowseStep
<1>12. BrowseInv'
  <2>1. OnTheWay(comps, qids') /\ (progress' > 0 => tip' = fid) /\ comps[progress' + 1].expect # NoFile
    BY <1>1, <1>2 DEF BrowseInv
  <2> QED
    BY <1>1, <1>2, <1>10, <1>11, <2>1, BrowseInvNext
<1> QED
  BY <1>1, <1>2, <1>11, <1>12, StepWaits DEF Returned

(* What is expected next, is noted where it is expected. *)
LEMMA NextExpected ==
  ASSUME TypesInv, BrowseInv, progress < Len(comps), comps[progress + 1].expect # NoFile
  PROVE  LET want == comps[progress + 1].expect
         IN  /\ want \in Node \ {Root} /\ db[want].dir = Met(qids, progress)
             /\ Connected(asked.cnid) => db[want].dir = tree[want].dir
<1>1. PICK c \in Nodes, rel \in Seq(Name \union {DotDot}) :
        c = asked.cnid /\ rel = asked.rel /\ ~Endless(c) /\ ~BadCNID(c) /\ comps = FullPath(c, rel)
  BY DEF BrowseInv, TypesInv, CallTyped
<1>2. db \in [Node -> Record]
  BY TypesAre
<1>3. PICK noted : noted = PathOf(c) /\ FullPathIs(c, rel, comps) /\ PathIs(c, noted)
  BY <1>1, <1>2, FullPathOf, PathOfIs
<1>4. PICK n \in Nat, k \in Nat, p \in Nat : n = Len(noted) /\ k = Len(rel) /\ p = progress /\ p < n + k
                                           /\ Len(qids) = p
  <2>1. Len(noted) \in Nat /\ Len(rel) \in Nat /\ progress \in Nat
    BY <1>3, TypesAre DEF FullPathIs
  <2> QED
    BY <1>3, <2>1, TypesAre DEF FullPathIs
<1>5. p < n
  <2> SUFFICES ASSUME n <= p PROVE FALSE
    BY <1>4
  <2>1. PICK j \in 1 .. k : j = p + 1 - n /\ n + j = p + 1
    <3>1. p + 1 - n \in 1 .. k /\ n + (p + 1 - n) = p + 1
      BY <1>4
    <3> QED
      BY <3>1
  <2>2. comps[n + j] = [name |-> rel[j], expect |-> NoFile]
    BY <1>3, <1>4 DEF FullPathIs
  <2> QED
    BY <1>4, <2>1, <2>2
<1>6. p + 1 \in 1 .. n /\ p + 1 - 1 = p /\ (p # 0 => p \in 1 .. n /\ p + 1 # 1)
  BY <1>4, <1>5
<1>7. /\ comps[p + 1] = noted[p + 1] /\ noted[p + 1].expect \in Node \ {Root}
      /\ db[noted[p + 1].expect].dir = IF p + 1 = 1 THEN Root ELSE noted[p].expect
  <2>1. PICK i \in 1 .. n : i = p + 1 /\ i - 1 = p
    BY <1>6
  <2>2. comps[i] = noted[i]
    BY <1>3, <1>4 DEF FullPathIs
  <2>3. noted[i].expect \in Node \ {Root}
        /\ db[noted[i].expect].dir = IF i = 1 THEN Root ELSE noted[i - 1].expect
    BY <1>3, <1>4 DEF PathIs
  <2> QED
    BY <2>1, <2>2, <2>3
<1>8. p # 0 => noted[p].expect = qids[p]
  <2> SUFFICES ASSUME p # 0 PROVE noted[p].expect = qids[p]
    OBVIOUS
  <2>1. comps[p] = noted[p] /\ noted[p].expect \in Node
    BY <1>3, <1>4, <1>6 DEF FullPathIs, PathIs
  <2>2. p \in 1 .. Len(qids)
    BY <1>4, <1>6
  <2> QED
    BY <2>1, <2>2, NinePAssumption DEF BrowseInv, OnTheWay
<1>9. db[noted[p + 1].expect].dir = Met(qids, p)
  BY <1>7, <1>6, <1>8 DEF Met
<1>10. Connected(c) => db[noted[p + 1].expect].dir = tree[noted[p + 1].expect].dir
  BY <1>1, <1>2, <1>3, <1>4, <1>6, ExpectedIsNoted
<1> QED
  BY <1>1, <1>4, <1>7, <1>9, <1>10

LEMMA SearchWaits ==
  ASSUME TypesInv, WaitInv, BrowseSearch
  PROVE  WaitInv'
<1>1. /\ UNCHANGED <<tree, db, comps, progress, tip, qids, back, callVars, calls, moves, world>>
      /\ pc = "search"
  BY DEF BrowseSearch
<1>2. Browsing /\ BrowseInv /\ NoDots(asked.rel) /\ result = "none" /\ progress < Len(comps)
  BY <1>1 DEF WaitInv, Browsing, Searching, TypesInv, BrowseTyped
<1>3. PICK s, want :
        /\ s = Walk9(tree, session, tip, 27, <<>>).s /\ want = comps[progress + 1].expect
        /\ \/ ~OpensDir(tree, s, 27) /\ pc' = "returned" /\ result' = "fnfErr" /\ listed' = listed
           \/ /\ OpensDir(tree, s, 27) /\ want # NoFile /\ want \in Children(tree, s.at[27])
              /\ pc' = "enter" /\ listed' = tree[want].name /\ result' = result
           \/ /\ OpensDir(tree, s, 27) /\ ~(want # NoFile /\ want \in Children(tree, s.at[27]))
              /\ pc' = "returned" /\ result' = "fnfErr" /\ listed' = listed
  BY DEF BrowseSearch, Return
<1>4. Ready(session') /\ \A f \in Fid \ {27} : session'.at[f] = session.at[f]
  BY <1>1, SearchReady
<1>5. BrowseStep
  BY <1>1, <1>2, <1>4 DEF BrowseStep
<1>6. PICK here \in Node : here = Met(qids, progress) /\ session.at[tip] = here
  <2>1. qids \in Seq(Node) /\ progress \in 0 .. Len(qids)
    BY TypesAre
  <2> QED
    BY <1>1, <1>2, <2>1, MetIsNode DEF BrowseInv
<1>7. tip \in Fid /\ tip # 27 /\ 27 \in Fid
  <2>1. fid \in {10, 12}
    BY <1>1, TypesAre
  <2> QED
    BY <2>1, TypesAre DEF TypesInv, BrowseTyped
<1>8. s.at[27] = here /\ s.opened = {}
  <2>1. PICK e \in Seq(Name) : e = <<>> /\ Len(e) = 0 /\ Len(e) <= ChunkMax
    <3>1. <<>> \in Seq(Name) /\ Len(<<>>) = 0 /\ 0 <= ChunkMax
      BY TypesAre
    <3> QED
      BY <3>1
  <2>2. InUse(session, tip) /\ 27 \in {10, 12, 27, 11, 9}
    BY <1>6, NinePAssumption DEF InUse
  <2>3. WalkFollows(tree, session, tip, 27, e)
    BY <1>7, <2>1, <2>2, StepFollows
  <2>4. PICK w : w = Walk9(tree, session, tip, 27, e)
    OBVIOUS
  <2>5. Route(tree, here, e)[0] = here
    <3>1. tree \in [Node -> Place] /\ here \in Nodes /\ Len(e) \in Nat
      BY <2>1, TypesAre DEF Nodes
    <3>2. ASSUME NEW t \in [Node -> Place] PROVE Route(t, here, e)[0] = here
      BY <3>1, RouteIs
    <3> QED
      BY <3>1, <3>2
  <2>6. w.err \in BOOLEAN /\ (w.err <=> Route(tree, here, e)[0] = NoFile)
        /\ (~w.err => w.s.at[27] = Route(tree, here, e)[0])
    BY <1>6, <2>1, <2>3, <2>4, Zenon DEF WalkFollows
  <2>7. w.s.at[27] = here
    BY <2>5, <2>6, NinePAssumption
  <2>8. Ready(w.s)
    BY <1>7, <2>1, <2>4, TypesAre, WalkReady
  <2> QED
    BY <1>3, <2>1, <2>4, <2>7, <2>8 DEF Ready
<1>9. session'.at[tip'] = here /\ tip' = tip /\ qids' = qids /\ progress' = progress
      /\ OnTheWay(comps, qids') /\ (progress' > 0 => tip' = fid)
  BY <1>1, <1>2, <1>4, <1>6, <1>7 DEF BrowseInv
<1>10. CASE pc' = "enter"
  <2>1. want # NoFile /\ want \in Children(tree, here) /\ listed' = tree[want].name
    BY <1>3, <1>8, <1>10
  <2>2. want # Root /\ tree[want] = [dir |-> here, name |-> listed']
    <3>1. want \in Node \ {Root} /\ tree[want].dir = here
      BY <2>1 DEF Children
    <3>2. tree[want] \in Place
      BY <3>1, TypesAre
    <3> QED
      BY <2>1, <3>1, <3>2 DEF Place
  <2>3. BrowseInv'
    BY <1>1, <1>2, <1>3, <1>5, <1>6, <1>9, <1>10, <2>2, BrowseInvNext
  <2> QED
    BY <1>1, <1>2, <1>3, <1>5, <1>10, <2>3, StepWaits DEF Returned
<1>11. CASE pc' = "returned"
  <2>1. result' = "fnfErr" /\ (~OpensDir(tree, s, 27) \/ ~(want # NoFile /\ want \in Children(tree, here)))
    BY <1>3, <1>8, <1>11
  <2>2. ~Connected(asked.cnid) \/ Denoted(tree, asked.cnid, asked.rel) = NoFile
    <3> SUFFICES ASSUME Connected(asked.cnid), want # NoFile PROVE FALSE
      BY <1>1, <1>2, <1>3 DEF BrowseInv
    <3>1. want \in Node \ {Root} /\ tree[want].dir = here
      BY <1>2, <1>3, <1>6, NextExpected
    <3>2. want \in Children(tree, here)
      BY <3>1 DEF Children
    <3>3. here \in Dirs /\ Exists(tree, here)
      <4>1. IsTree(tree) /\ here # NoFile
        BY NinePAssumption DEF TypesInv
      <4>2. Exists(tree, want)
        BY <3>1, <4>1, TreeIs
      <4> QED
        BY <3>1, <4>1, <4>2, TreeIs
    <3>4. OpensDir(tree, s, 27)
      BY <1>8, <3>3, NinePAssumption DEF OpensDir, InUse, IsDir
    <3> QED
      BY <2>1, <3>2, <3>4
  <2>3. ~Browsing'
    BY <1>11 DEF Browsing, Searching
  <2> QED
    BY <1>2, <1>5, <1>11, <2>1, <2>2, <2>3, StepWaits
<1> QED
  BY <1>3, <1>10, <1>11

(* One more on the way. *)
LEMMA OneMoreMet ==
  ASSUME NEW path, NEW q \in Seq(Node), OnTheWay(path, q), NEW n \in Node \ {Root},
         tree[n].dir = Met(q, Len(q)),
         IF path[Len(q) + 1].expect = NoFile THEN tree[n].name = path[Len(q) + 1].name
                                             ELSE n = path[Len(q) + 1].expect
  PROVE  OnTheWay(path, Append(q, n)) /\ Met(Append(q, n), Len(q) + 1) = n
<1>1. PICK p \in Nat : p = Len(q)
  OBVIOUS
<1>2. PICK r : /\ r = Append(q, n) /\ r \in Seq(Node) /\ Len(r) = p + 1 /\ r[p + 1] = n
               /\ \A i \in 1 .. p : r[i] = q[i]
  <2>1. /\ Append(q, n) \in Seq(Node) /\ Len(Append(q, n)) = p + 1 /\ Append(q, n)[p + 1] = n
        /\ \A i \in 1 .. p : Append(q, n)[i] = q[i]
    BY <1>1
  <2> QED
    BY <2>1
<1>3. \A i \in 0 .. p : Met(r, i) = Met(q, i)
  BY <1>2 DEF Met
<1>4. Met(r, p + 1) = n
  BY <1>1, <1>2 DEF Met
<1>5. ASSUME NEW i \in 1 .. p + 1
      PROVE  /\ r[i] \in Node \ {Root} /\ tree[r[i]].dir = Met(r, i - 1)
             /\ IF path[i].expect = NoFile THEN tree[r[i]].name = path[i].name
                                           ELSE r[i] = path[i].expect
  <2>1. CASE i \in 1 .. p
    <3>1. r[i] = q[i] /\ i - 1 \in 0 .. p /\ i \in 1 .. Len(q)
      BY <1>1, <1>2, <2>1
    <3> QED
      BY <1>3, <2>1, <3>1 DEF OnTheWay
  <2>2. CASE i \notin 1 .. p
    <3>1. i = p + 1 /\ i - 1 = p /\ p \in 0 .. p
      BY <2>2
    <3> QED
      BY <1>1, <1>2, <1>3, <3>1
  <2> QED
    BY <2>1, <2>2
<1>6. OnTheWay(path, r)
  BY <1>2, <1>5 DEF OnTheWay
<1> QED
  BY <1>1, <1>2, <1>4, <1>6

LEMMA EnterWaits ==
  ASSUME TypesInv, WaitInv, BrowseEnter
  PROVE  WaitInv'
<1>1. UNCHANGED <<tree, db, comps, back, listed, callVars, calls, moves, world>> /\ pc = "enter"
  BY DEF BrowseEnter
<1>2. Browsing /\ BrowseInv /\ NoDots(asked.rel) /\ result = "none" /\ progress < Len(comps)
  BY <1>1 DEF WaitInv, Browsing, Searching, TypesInv, BrowseTyped
<1>3. PICK w, names :
        /\ names = <<listed>> /\ w = Walk9(tree, session, tip, fid, names) /\ session' = w.s
        /\ \/ w.err /\ pc' = "returned" /\ result' = "fnfErr" /\ UNCHANGED <<tip, qids, progress>>
           \/ ~w.err /\ Entered
        /\ \A f \in Fid \ {fid} : session'.at[f] = session.at[f]
  BY EnterTyped
<1>4. PICK want : want = comps[progress + 1].expect /\ want \in Node \ {Root}
                  /\ tree[want] = [dir |-> Met(qids, progress), name |-> listed]
  BY <1>1, <1>2 DEF BrowseInv, TypesInv, BrowseTyped
<1>5. PICK here \in Node : here = Met(qids, progress) /\ session.at[tip] = here
  <2>1. qids \in Seq(Node) /\ progress \in 0 .. Len(qids)
    BY TypesAre
  <2> QED
    BY <1>1, <1>2, <2>1, MetIsNode DEF BrowseInv
<1>6. IsTree(tree) /\ listed # DotDot
  <2>1. tree[want] \in Place /\ tree[want].name = listed
    BY <1>4, TypesAre
  <2> QED
    BY <2>1, NinePAssumption DEF Place, TypesInv
<1>7. Component(tree, here, listed) = want
  BY <1>4, <1>5, <1>6, ComponentIs
<1>8. ~w.err /\ w.s.at[fid] = want
  <2>1. names \in Seq({listed}) /\ Len(names) = 1 /\ names[1] = listed /\ Len(names) <= ChunkMax
    BY <1>3, TypesAre
  <2>2. InUse(session, tip) /\ tip \in Fid /\ fid \in {10, 12, 27, 11, 9}
    BY <1>1, <1>5, TypesAre, NinePAssumption DEF InUse
  <2>3. WalkFollows(tree, session, tip, fid, names)
    BY <2>1, <2>2, StepFollows
  <2>4. Route(tree, here, names)[1] = want
    <3>1. tree \in [Node -> Place] /\ here \in Nodes /\ Len(names) \in Nat /\ 1 \in 1 .. Len(names) /\ 1 - 1 = 0
      BY <2>1, TypesAre DEF Nodes
    <3>2. ASSUME NEW t \in [Node -> Place]
          PROVE  /\ Route(t, here, names)[0] = here
                 /\ \A i \in 1 .. Len(names) :
                      Route(t, here, names)[i] = Component(t, Route(t, here, names)[i - 1], names[i])
      BY <3>1, RouteIs
    <3>3. Route(tree, here, names)[0] = here
          /\ Route(tree, here, names)[1] = Component(tree, Route(tree, here, names)[0], names[1])
      BY <3>1, <3>2
    <3> QED
      BY <1>7, <2>1, <3>3
  <2>5. /\ w.err \in BOOLEAN /\ (w.err <=> Route(tree, here, names)[1] = NoFile)
        /\ (~w.err => w.s.at[fid] = Route(tree, here, names)[1])
    BY <1>3, <1>5, <2>1, <2>3, Zenon DEF WalkFollows
  <2> QED
    BY <1>4, <2>4, <2>5, NinePAssumption
<1>9. /\ tip' = fid /\ progress' = progress + 1 /\ pc' = Onward(progress + 1)
      /\ qids' = Append(qids, want) /\ result' = result /\ session'.at[fid] = want
  BY <1>3, <1>4, <1>8 DEF Entered
<1>10. OnTheWay(comps, qids') /\ Met(qids', progress') = want
  <2>1. qids \in Seq(Node) /\ Len(qids) = progress /\ OnTheWay(comps, qids)
    BY <1>2, TypesAre DEF BrowseInv
  <2>2. tree[want].dir = Met(qids, Len(qids)) /\ want # NoFile
    BY <1>4, <2>1, NinePAssumption
  <2> QED
    BY <1>4, <1>9, <2>1, <2>2, OneMoreMet
<1>11. pc' \in {"walk", "found"}
  BY <1>9 DEF Onward
<1>12. BrowseStep
  BY <1>1, <1>2, <1>3 DEF BrowseStep
<1>13. BrowseInv'
  BY <1>2, <1>9, <1>10, <1>11, <1>12, BrowseInvNext
<1> QED
  BY <1>2, <1>9, <1>11, <1>12, <1>13, StepWaits DEF Returned

(* An empty path is that of the root. *)
LEMMA EmptyIsRoot ==
  ASSUME db \in [Node -> Record], NEW c \in Nodes, ~Endless(c), ~BadCNID(c),
         NEW rel \in Seq(Name \union {DotDot}), FullPath(c, rel) = <<>>
  PROVE  c = Root /\ Len(rel) = 0
<1>1. PICK noted, path : noted = PathOf(c) /\ path = FullPath(c, rel)
                         /\ FullPathIs(c, rel, path) /\ PathIs(c, noted)
  BY FullPathOf, PathOfIs
<1>2. PICK n \in Nat, k \in Nat : n = Len(noted) /\ k = Len(rel) /\ Len(path) = n + k
  BY <1>1 DEF FullPathIs
<1>3. n = 0 /\ k = 0
  <2>1. path = <<>>
    BY <1>1
  <2>2. Len(path) = 0
    BY <2>1
  <2>3. n \in Nat /\ k \in Nat /\ n + k = 0
    BY <1>2, <2>2
  <2> QED
    BY <2>3
<1>4. noted = <<>>
  BY <1>1, <1>2, <1>3 DEF PathIs
<1> QED
  BY <1>1, <1>2, <1>3, <1>4 DEF PathIs

LEMMA BeginWaits ==
  ASSUME TypesInv, WaitInv, NEW f \in {10, 12}, NEW c \in Nodes, NEW rel \in Seq(Name \union {DotDot}),
         NoDots(rel), Begun(f, c, rel), UNCHANGED <<tree, db>>, TypesInv', pc' # "idle", CheckInv'
  PROVE  WaitInv'
<1>1. /\ asked' = [cnid |-> c, rel |-> rel] /\ fid' = f
      /\ back' = 0 /\ progress' = 0 /\ qids' = <<>> /\ tip' = RootFid
  BY DEF Begun
<1>2. /\ IsTree(tree) /\ db \in [Node -> Record] /\ Grounded(db) /\ ~Endless(c)
      /\ session'.at[RootFid] = Root
  BY GroundedEnds DEF TypesInv, WaitInv
<1>3. \/ BadCNID(c) /\ pc' = "returned" /\ result' = "dirNFErr"
      \/ /\ ~BadCNID(c) /\ FullPath(c, rel) = <<>> /\ pc' = "returned" /\ result' = Root
         /\ session' = Walk9(tree, session, RootFid, f, <<>>).s
      \/ ~BadCNID(c) /\ FullPath(c, rel) # <<>> /\ pc' = "walk" /\ comps' = FullPath(c, rel)
  BY <1>2 DEF Begun
<1>4. Grounded(db)' /\ NoDots(asked.rel)' /\ pc' # "hung"
  BY <1>1, <1>2, <1>3 DEF Grounded, NoDots
<1>5. ASSUME Browsing' PROVE BrowseInv'
  <2>1. pc' = "walk" /\ ~BadCNID(c) /\ comps' = FullPath(c, rel)
    BY <1>3, <1>5 DEF Browsing, Searching
  <2>2. (~Endless(asked.cnid) /\ ~BadCNID(asked.cnid) /\ comps = FullPath(asked.cnid, asked.rel))'
    <3>1. /\ Endless(c)' = Endless(c) /\ BadCNID(c)' = BadCNID(c) /\ FullPath(c, rel)' = FullPath(c, rel)
      BY PathsKept
    <3>2. asked.cnid' = c /\ asked.rel' = rel
      BY <1>1
    <3> QED
      BY <1>2, <2>1, <3>1, <3>2
  <2>3. OnTheWay(comps, qids)'
    BY <1>1 DEF OnTheWay
  <2>4. (session.at[tip] = Met(qids, progress))'
    BY <1>1, <1>2 DEF Met
  <2> QED
    BY <1>1, <2>1, <2>2, <2>3, <2>4 DEF BrowseInv
<1>6. ASSUME Returned', Found'
      PROVE  (result = Denoted(tree, asked.cnid, asked.rel) /\ session.at[fid] = result /\ Connected(result))'
  <2>1. /\ ~BadCNID(c) /\ FullPath(c, rel) = <<>> /\ result' = Root
        /\ session' = Walk9(tree, session, RootFid, f, <<>>).s
    BY <1>3, <1>6, CatalogAssumption DEF Returned, Found, Errors
  <2>2. c = Root /\ Len(rel) = 0
    BY <1>2, <2>1, EmptyIsRoot
  <2>3. /\ tree \in [Node -> Place] /\ Root \in Nodes /\ Len(rel) \in Nat /\ Root \in Node
        /\ session.at[RootFid] = Root
    BY <2>2, TypesAre DEF Nodes, Ready
  <2>4. ASSUME NEW t \in [Node -> Place], NEW names, Len(names) = 0
        PROVE  Route(t, Root, names)[0] = Root
    <3>1. Len(names) \in Nat
      BY <2>4
    <3> QED
      BY <2>3, <3>1, RouteIs
  <2>5. Denoted(tree, c, rel) = Root
    BY <2>2, <2>3, <2>4 DEF Denoted
  <2>6. session'.at[f] = Root
    <3>1. PICK e \in Seq(Name) : e = <<>> /\ Len(e) = 0 /\ Len(e) <= ChunkMax
      <4>1. <<>> \in Seq(Name) /\ Len(<<>>) = 0 /\ 0 <= ChunkMax
        BY TypesAre
      <4> QED
        BY <4>1
    <3>2. InUse(session, RootFid) /\ RootFid \in Fid /\ f \in {10, 12, 27, 11, 9}
      BY <2>3, TypesAre, NinePAssumption DEF InUse
    <3>3. WalkFollows(tree, session, RootFid, f, e)
      BY <3>1, <3>2, StepFollows
    <3>4. PICK w : w = Walk9(tree, session, RootFid, f, e)
      OBVIOUS
    <3>5. Route(tree, Root, e)[0] = Root
      BY <2>3, <2>4, <3>1
    <3>6. w.err \in BOOLEAN /\ (w.err <=> Route(tree, Root, e)[0] = NoFile)
          /\ (~w.err => w.s.at[f] = Route(tree, Root, e)[0])
      BY <2>3, <3>1, <3>3, <3>4, Zenon DEF WalkFollows
    <3> QED
      BY <2>1, <2>3, <3>1, <3>4, <3>5, <3>6, NinePAssumption
  <2>7. Connected(result)'
    <3>1. Connected(Root)
      BY <1>2, RootConnected
    <3>2. Connected(Root)'
      BY <3>1, ConnectedKept
    <3> QED
      BY <2>1, <3>2
  <2>8. Denoted(tree, asked.cnid, asked.rel)' = Denoted(tree, c, rel)
    BY <1>1 DEF Denoted, Route, Component, Named, Children
  <2> QED
    BY <1>1, <2>1, <2>5, <2>6, <2>7, <2>8
<1>7. ASSUME Returned', ~Found', Connected(asked.cnid)' PROVE FALSE
  <2>1. asked.cnid' = c
    BY <1>1
  <2>2. Connected(c)'
    BY <1>7, <2>1
  <2>3. Connected(c)
    BY <2>2, ConnectedKept
  <2>4. ~BadCNID(c)
    BY <1>2, <2>3, ConnectedIsGood
  <2>5. result' = Root
    BY <1>3, <1>7, <2>4 DEF Returned
  <2> QED
    BY <1>7, <2>5, TypesAre DEF Found
<1> QED
  BY <1>4, <1>5, <1>6, <1>7 DEF WaitInv

LEMMA CallWaits ==
  ASSUME TypesInv, WaitInv, Lookup \/ FsCreate \/ FsDelete \/ FsRename, ~world.dots
  PROVE  WaitInv'
<1>1. PICK o \in CallNames, c \in Node, rel \in RelPaths, new \in Name \union {NoName} :
        pc = "idle" /\ Call(o, c, rel, new) /\ (o = "rename" => new \in Name)
  BY CallIs
<1>2. TypesInv' /\ Begun(10, c, rel) /\ pc' # "idle"
  BY <1>1, CallTypes
<1>3. UNCHANGED <<tree, db>> /\ op' # "dupcheck"
  BY <1>1 DEF Call, CallNames
<1>4. rel \in Seq(Name \union {DotDot}) /\ NoDots(rel) /\ c \in Nodes
  <2>1. world \in Worlds
    BY DEF TypesInv, CallTyped
  <2> QED
    BY <1>1, <2>1, RelPathsAre DEF NoDots, Nodes
<1>5. CheckInv'
  BY <1>3 DEF CheckInv
<1> QED
  BY <1>2, <1>3, <1>4, <1>5, BeginWaits

LEMMA CreateInWaits ==
  ASSUME TypesInv, WaitInv, FsCreateIn
  PROVE  WaitInv'
<1>1. /\ TypesInv' /\ pc' # "idle" /\ Begun(10, asked.cnid, PathSplitLeaf(asked.rel).dir)
      /\ op' = "createIn" /\ UNCHANGED <<tree, db>>
  BY CreateInIs
<1>2. asked.cnid \in Nodes /\ asked.rel \in Seq(Name \union {DotDot}) /\ HasLeaf(asked.rel) /\ NoDots(asked.rel)
  BY DEF TypesInv, CallTyped, FsCreateIn, WaitInv
<1>3. PICK rel, up : rel = asked.rel /\ up = PathSplitLeaf(rel).dir
  OBVIOUS
<1>4. /\ up \in Seq(Name \union {DotDot}) /\ Len(rel) \in Nat \ {0} /\ Len(up) = Len(rel) - 1
      /\ \A i \in 1 .. Len(rel) - 1 : up[i] = rel[i]
  BY <1>2, <1>3, LeafOff
<1>5. NoDots(up)
  BY <1>2, <1>3, <1>4 DEF NoDots
<1>6. CheckInv'
  BY <1>1 DEF CheckInv
<1> QED
  BY <1>1, <1>2, <1>3, <1>4, <1>5, <1>6, BeginWaits

LEMMA RenameCheckWaits ==
  ASSUME TypesInv, WaitInv, FsRenameCheck
  PROVE  WaitInv'
<1>1. /\ TypesInv' /\ pc' # "idle" /\ Begun(12, db[result].dir, <<newName>>)
      /\ result \in Node \ {Root} /\ pc = "returned" /\ op = "rename"
      /\ op' = "dupcheck" /\ child' = result /\ UNCHANGED <<tree, db, newName, world>>
  BY RenameCheckIs
<1>2. newName \in Name /\ fid = 10 /\ db \in [Node -> Record] /\ 10 \in Fid
  BY <1>1, TypesAre DEF TypesInv, CallTyped
<1>3. session.at[10] = result /\ Connected(result)
  BY <1>1, <1>2 DEF WaitInv, Returned, Found
<1>4. db[result].dir = tree[result].dir
  BY <1>1, <1>2, <1>3, ConnectedIsGood DEF Nodes
<1>5. PICK c, rel, n : c = db[result].dir /\ rel = <<newName>> /\ n = result
  OBVIOUS
<1>6. c \in Nodes /\ rel \in Seq(Name \union {DotDot}) /\ NoDots(rel)
  <2>1. c \in Nodes
    BY <1>1, <1>2, <1>5 DEF Record
  <2>2. <<newName>> \in Seq(Name \union {DotDot}) /\ Len(<<newName>>) = 1 /\ <<newName>>[1] # DotDot
    BY <1>2, NinePAssumption
  <2> QED
    BY <1>5, <2>1, <2>2 DEF NoDots
<1>7. CheckInv'
  <2>1. session'.at[10] = session.at[10] /\ asked' = [cnid |-> c, rel |-> rel]
    BY <1>1, <1>2, <1>5 DEF Begun
  <2>2. Connected(n)'
    BY <1>1, <1>3, <1>5, ConnectedKept
  <2> QED
    BY <1>1, <1>3, <1>4, <1>5, <2>1, <2>2 DEF CheckInv
<1> QED
  BY <1>1, <1>5, <1>6, <1>7, BeginWaits

(* Without "..", the trail is the path. *)
LEMMA TrailsPlain ==
  ASSUME NEW path \in Seq(Component9), NEW nodes \in Seq(Node), Len(nodes) = Len(path),
         \A i \in 1 .. Len(path) : path[i].name # DotDot
  PROVE  \A i \in 1 .. Len(path) :
           LET trail == Trails(path, nodes)[i]
           IN  /\ Len(trail) = i
               /\ \A j \in 1 .. i : trail[j] = [name |-> path[j].name, node |-> nodes[j]]
<1>1. PICK N \in Nat : N = Len(path)
  OBVIOUS
<1>2. ~IsClimb(path)
  BY NoDotsNoClimb
<1>3. PICK trails : trails = Trails(path, nodes)
  OBVIOUS
<1>4. /\ trails[0] = <<>>
      /\ \A i \in 1 .. N : /\ trails[i] \in Seq(TrailStep)
                           /\ trails[i] = Append(trails[i - 1], [name |-> path[i].name, node |-> nodes[i]])
  BY <1>1, <1>2, <1>3, TrailsAre DEF Trailed
<1> DEFINE P == {i \in 0 .. N : /\ trails[i] \in Seq(TrailStep) /\ Len(trails[i]) = i
                                /\ \A j \in 1 .. i : trails[i][j] = [name |-> path[j].name, node |-> nodes[j]]}
<1>5. 0 \in P
  <2>1. trails[0] \in Seq(TrailStep) /\ Len(trails[0]) = 0
    <3>1. <<>> \in Seq(TrailStep) /\ Len(<<>>) = 0
      OBVIOUS
    <3> QED
      BY <1>4, <3>1
  <2>2. 0 \in 0 .. N /\ \A j \in 1 .. 0 : FALSE
    OBVIOUS
  <2> QED
    BY <2>1, <2>2
<1>6. ASSUME NEW i \in 1 .. N, i - 1 \in P PROVE i \in P
  <2>1. PICK t \in Seq(TrailStep) : t = trails[i - 1] /\ Len(t) = i - 1
          /\ \A j \in 1 .. i - 1 : t[j] = [name |-> path[j].name, node |-> nodes[j]]
    BY <1>6
  <2>2. PICK e : e = [name |-> path[i].name, node |-> nodes[i]]
    OBVIOUS
  <2>3. /\ trails[i] \in Seq(TrailStep) /\ trails[i] = Append(t, e)
    BY <1>4, <2>1, <2>2
  <2>4. Len(Append(t, e)) = i /\ Append(t, e)[i] = e /\ \A j \in 1 .. i - 1 : Append(t, e)[j] = t[j]
    BY <2>1
  <2>5. \A j \in 1 .. i : Append(t, e)[j] = [name |-> path[j].name, node |-> nodes[j]]
    <3> TAKE j \in 1 .. i
    <3>1. j = i \/ j \in 1 .. i - 1
      OBVIOUS
    <3> QED
      BY <2>1, <2>2, <2>4, <3>1
  <2>6. i \in 0 .. N
    OBVIOUS
  <2>7. /\ trails[i] \in Seq(TrailStep) /\ Len(trails[i]) = i
        /\ \A j \in 1 .. i : trails[i][j] = [name |-> path[j].name, node |-> nodes[j]]
    BY <2>3, <2>4, <2>5
  <2> QED
    BY <2>6, <2>7
<1> HIDE DEF P
<1>7. \A i \in 0 .. N : i \in P
  BY <1>5, <1>6, UpTo
<1>8. \A i \in 1 .. N : i \in P
  BY <1>7
<1> QED
  BY <1>1, <1>3, <1>8 DEF P

(* So each component is noted where it was met. *)
LEMMA NotedPlain ==
  ASSUME NEW f, NEW path \in Seq(Component9), NEW q \in Seq(Node), Len(q) = Len(path),
         NotedAlong(f, path, q), \A i \in 1 .. Len(path) : path[i].name # DotDot
  PROVE  \A i \in 1 .. Len(path) :
           f[i] = IF path[i].expect = NoFile
                  THEN [f[i - 1] EXCEPT ![q[i]] = [dir |-> Met(q, i - 1), name |-> path[i].name]]
                  ELSE f[i - 1]
<1> TAKE i \in 1 .. Len(path)
<1>1. PICK trail : trail = Trails(path, q)[i]
  OBVIOUS
<1>2. Len(trail) = i /\ \A j \in 1 .. i : trail[j] = [name |-> path[j].name, node |-> q[j]]
  BY <1>1, TrailsPlain
<1>3. Last(trail) = [name |-> path[i].name, node |-> q[i]]
  <2>1. i \in 1 .. i
    OBVIOUS
  <2> QED
    BY <1>2, <2>1 DEF Last
<1>4. (IF Len(trail) = 1 THEN Root ELSE trail[Len(trail) - 1].node) = Met(q, i - 1)
  <2>1. i # 1 => i - 1 \in 1 .. i /\ i - 1 # 0
    OBVIOUS
  <2> QED
    BY <1>2, <2>1 DEF Met
<1>5. f[i] = IF path[i].expect = NoFile
             THEN [f[i - 1] EXCEPT ![Last(trail).node] =
                     [dir |-> IF Len(trail) = 1 THEN Root ELSE trail[Len(trail) - 1].node,
                      name |-> Last(trail).name]]
             ELSE f[i - 1]
  BY <1>1 DEF NotedAlong, NotedFor
<1> QED
  BY <1>3, <1>4, <1>5

(* The files of a way. *)
OnIt(q) == {q[i] : i \in 1 .. Len(q)}

(* After a browse, all that was met is noted where it is, and the rest as   *)
(* before.                                                                  *)
LEMMA NotedIsTrue ==
  ASSUME db \in [Node -> Record], NEW c \in Nodes, ~Endless(c), ~BadCNID(c),
         NEW rel \in Seq(Name \union {DotDot}), NoDots(rel),
         NEW q \in Seq(Node), Len(q) = Len(FullPath(c, rel)), OnTheWay(FullPath(c, rel), q),
         NEW f, NotedAlong(f, FullPath(c, rel), q), NEW d, d = f[Len(q)]
  PROVE  /\ \A x \in OnIt(q) : d[x].dir = tree[x].dir
         /\ \A x \in Node \ OnIt(q) : d[x] = db[x]
<1>1. PICK path, noted : path = FullPath(c, rel) /\ noted = PathOf(c)
                         /\ FullPathIs(c, rel, path) /\ PathIs(c, noted)
  BY FullPathOf, PathOfIs
<1>2. PICK N \in Nat, n \in Nat, k \in Nat : N = Len(q) /\ n = Len(noted) /\ k = Len(rel) /\ N = n + k
  BY <1>1 DEF FullPathIs
<1>12. /\ \A i \in 1 .. n : path[i] = noted[i]
       /\ \A i \in 1 .. k : path[n + i] = [name |-> rel[i], expect |-> NoFile]
       /\ \A i \in 1 .. n : /\ noted[i].expect \in Node \ {Root}
                            /\ db[noted[i].expect].dir = IF i = 1 THEN Root ELSE noted[i - 1].expect
  <2>1. /\ \A i \in 1 .. n : path[i] = noted[i]
        /\ \A i \in 1 .. k : path[n + i] = [name |-> rel[i], expect |-> NoFile]
    BY <1>1, <1>2 DEF FullPathIs
  <2>2. \A i \in 1 .. n : /\ noted[i].expect \in Node \ {Root}
                          /\ db[noted[i].expect].dir = IF i = 1 THEN Root ELSE noted[i - 1].expect
    BY <1>1, <1>2 DEF PathIs
  <2> QED
    BY <2>1, <2>2
<1>3. path \in Seq(Component9) /\ Len(path) = N /\ \A i \in 1 .. N : path[i].name # DotDot
  BY <1>1, <1>2, NoDotsPath DEF FullPathIs, NoDots
<1>4. /\ \A i \in 1 .. N : f[i] \in [Node -> Record]
      /\ f[0] = db
      /\ \A i \in 1 .. N :
           f[i] = IF path[i].expect = NoFile
                  THEN [f[i - 1] EXCEPT ![q[i]] = [dir |-> Met(q, i - 1), name |-> path[i].name]]
                  ELSE f[i - 1]
  <2>1. NotedAlong(f, path, q) /\ Len(q) = Len(path)
    BY <1>1, <1>2, <1>3
  <2>2. f \in [0 .. N -> [Node -> Record]] /\ f[0] = db
    BY <1>3, <2>1 DEF NotedAlong
  <2>3. \A i \in 1 .. N :
          f[i] = IF path[i].expect = NoFile
                 THEN [f[i - 1] EXCEPT ![q[i]] = [dir |-> Met(q, i - 1), name |-> path[i].name]]
                 ELSE f[i - 1]
    BY <1>3, <2>1, NotedPlain
  <2>4. \A i \in 1 .. N : i \in 0 .. N
    OBVIOUS
  <2> QED
    BY <2>2, <2>3, <2>4
<1>5. \A i \in 1 .. N : q[i] \in Node \ {Root} /\ tree[q[i]].dir = Met(q, i - 1) /\ q[i] \in OnIt(q)
  BY <1>1, <1>2 DEF OnTheWay, OnIt
<1>6. \A i \in 1 .. N : path[i].expect # NoFile => db[q[i]].dir = tree[q[i]].dir
  <2> SUFFICES ASSUME NEW i \in 1 .. N, path[i].expect # NoFile PROVE db[q[i]].dir = tree[q[i]].dir
    OBVIOUS
  <2>0. path[i].expect # NoFile
    OBVIOUS
  <2>1. i <= n
    <3> SUFFICES ASSUME n < i PROVE FALSE
      BY <1>2
    <3>1. PICK j \in 1 .. k : n + j = i
      <4>1. i - n \in 1 .. k /\ n + (i - n) = i
        BY <1>2
      <4> QED
        BY <4>1
    <3>2. path[n + j] = [name |-> rel[j], expect |-> NoFile]
      BY <1>12
    <3>3. path[i] = [name |-> rel[j], expect |-> NoFile]
      BY <3>1, <3>2
    <3> QED
      BY <2>0, <3>3
  <2>2. /\ path[i] = noted[i] /\ i \in 1 .. n
        /\ db[noted[i].expect].dir = IF i = 1 THEN Root ELSE noted[i - 1].expect
    BY <1>2, <1>12, <2>1
  <2>3. q[i] = path[i].expect
    BY <1>1, <1>2 DEF OnTheWay
  <2>4. i # 1 => noted[i - 1].expect = q[i - 1]
    <3> SUFFICES ASSUME i # 1 PROVE noted[i - 1].expect = q[i - 1]
      OBVIOUS
    <3>1. PICK j \in 1 .. n : j = i - 1 /\ j \in 1 .. Len(q)
      <4>1. i - 1 \in 1 .. n /\ i - 1 \in 1 .. Len(q)
        BY <1>2, <2>1
      <4> QED
        BY <4>1
    <3>2. path[j] = noted[j] /\ noted[j].expect # NoFile
      BY <1>12, NinePAssumption
    <3>3. q[j] = path[j].expect
      BY <1>1, <3>1, <3>2 DEF OnTheWay
    <3> QED
      BY <3>1, <3>2, <3>3
  <2>5. db[q[i]].dir = Met(q, i - 1)
    <3>1. i # 1 => i - 1 # 0
      OBVIOUS
    <3> QED
      BY <2>2, <2>3, <2>4, <3>1 DEF Met
  <2> QED
    BY <1>5, <2>5
<1> DEFINE P == {i \in 0 .. N : /\ \A j \in 1 .. N : j <= i \/ path[j].expect # NoFile =>
                                                       f[i][q[j]].dir = tree[q[j]].dir
                                /\ \A x \in Node \ OnIt(q) : f[i][x] = db[x]}
<1>7. 0 \in P
  BY <1>4, <1>6
<1>8. ASSUME NEW i \in 1 .. N, i - 1 \in P PROVE i \in P
  <2>1. /\ \A j \in 1 .. N : j <= i - 1 \/ path[j].expect # NoFile => f[i - 1][q[j]].dir = tree[q[j]].dir
        /\ \A x \in Node \ OnIt(q) : f[i - 1][x] = db[x]
    BY <1>8
  <2>2. CASE path[i].expect # NoFile
    <3>1. f[i] = f[i - 1]
      BY <1>4, <2>2
    <3>2. \A j \in 1 .. N : j <= i /\ path[j].expect = NoFile => j <= i - 1
      BY <2>2
    <3> QED
      BY <2>1, <3>1, <3>2
  <2>3. CASE path[i].expect = NoFile
    <3>1. f[i] = [f[i - 1] EXCEPT ![q[i]] = [dir |-> Met(q, i - 1), name |-> path[i].name]]
      BY <1>4, <2>3
    <3>2. f[i - 1] \in [Node -> Record]
      <4>1. i - 1 = 0 \/ i - 1 \in 1 .. N
        OBVIOUS
      <4> QED
        BY <1>4, <4>1
    <3>3. /\ f[i][q[i]].dir = tree[q[i]].dir
          /\ \A x \in Node : x # q[i] => f[i][x] = f[i - 1][x]
      BY <1>5, <3>1, <3>2
    <3>4. \A j \in 1 .. N : j <= i \/ path[j].expect # NoFile => f[i][q[j]].dir = tree[q[j]].dir
      <4> TAKE j \in 1 .. N
      <4>1. CASE q[j] = q[i]
        BY <3>3, <4>1
      <4>2. CASE q[j] # q[i]
        <5>1. j <= i => j <= i - 1
          BY <4>2
        <5>2. f[i][q[j]] = f[i - 1][q[j]]
          BY <1>5, <3>3, <4>2
        <5> QED
          BY <2>1, <5>1, <5>2
      <4> QED
        BY <4>1, <4>2
    <3>5. \A x \in Node \ OnIt(q) : f[i][x] = db[x]
      BY <1>5, <2>1, <3>3
    <3> QED
      BY <3>4, <3>5
  <2> QED
    BY <2>2, <2>3
<1> HIDE DEF P
<1>9. \A i \in 0 .. N : i \in P
  BY <1>7, <1>8, UpTo
<1>10. N \in P /\ d = f[N]
  BY <1>2, <1>9
<1>11. /\ \A j \in 1 .. N : d[q[j]].dir = tree[q[j]].dir
       /\ \A x \in Node \ OnIt(q) : d[x] = db[x]
  BY <1>10 DEF P
<1> QED
  BY <1>2, <1>11 DEF OnIt

(* In a state and in the next alike: what is rooted is connected. *)
RootedIs ==
  \A c : db \in [Node -> Record] /\ Grounded(db) /\ Rooted(c) => Connected(c)

LEMMA RootedAlways == RootedIs
BY RootedIsConnected DEF RootedIs

LEMMA RootedNext == RootedIs'
BY RootedAlways, PTL

LEMMA RootedIsConnectedNext ==
  ASSUME db' \in [Node -> Record], Grounded(db'), NEW T \in SUBSET Node,
         \A n \in T : n = Root \/ (db'[n].dir = tree'[n].dir /\ db'[n].dir \in T),
         NEW c \in T
  PROVE  Connected(c)'
<1>1. Rooted(c)'
  BY DEF Rooted, Chain
<1>2. Grounded(db)'
  BY DEF Grounded
<1> QED
  BY <1>1, <1>2, RootedNext DEF RootedIs

(* Noting where files are closes no circle. *)
LEMMA NotedGrounded ==
  ASSUME IsTree(tree), Grounded(db), NEW path, NEW q \in Seq(Node), OnTheWay(path, q), NEW d,
         \A x \in OnIt(q) : d[x].dir = tree[x].dir,
         \A x \in Node \ OnIt(q) : d[x] = db[x]
  PROVE  Grounded(d)
<1> SUFFICES ASSUME NEW S \in (SUBSET (Node \ {Root})) \ {{}}, \A n \in S : d[n].dir \in S PROVE FALSE
  BY DEF Grounded
<1>1. CASE S \cap OnIt(q) = {}
  <2>1. \A n \in S : db[n].dir \in S
    BY <1>1
  <2> QED
    BY <2>1 DEF Grounded
<1>2. CASE S \cap OnIt(q) # {}
  <2> DEFINE M == S \cap OnIt(q)
  <2>1. ASSUME NEW n \in M PROVE tree[n].dir \in M
    <3>1. PICK j \in 1 .. Len(q) : n = q[j]
      BY DEF OnIt
    <3>2. tree[n].dir = Met(q, j - 1) /\ tree[n].dir \in S
      BY <3>1 DEF OnTheWay
    <3>3. j - 1 # 0 => j - 1 \in 1 .. Len(q)
      OBVIOUS
    <3>4. Met(q, j - 1) = Root \/ Met(q, j - 1) \in OnIt(q)
      BY <3>3 DEF Met, OnIt
    <3> QED
      BY <3>2, <3>4
  <2>2. M \in (SUBSET (Node \ {Root})) \ {{}}
    BY <1>2
  <2> HIDE DEF M
  <2> QED
    BY <2>1, <2>2 DEF IsTree
<1> QED
  BY <1>1, <1>2

LEMMA FoundWaits ==
  ASSUME TypesInv, WaitInv, BrowseFound
  PROVE  WaitInv'
<1>1. /\ pc = "found" /\ pc' = "returned"
      /\ UNCHANGED <<tree, session, browseVars, callVars, calls, moves, world>>
  BY DEF BrowseFound, Return
<1>2. /\ TypesInv' /\ result' = qids[progress] /\ progress > 0
      /\ \E f : NotedAlong(f, comps, qids) /\ db' = f[Len(comps)]
  BY FoundTyped
<1>3. /\ BrowseInv /\ NoDots(asked.rel) /\ Grounded(db) /\ IsTree(tree) /\ db \in [Node -> Record]
      /\ progress = Len(comps) /\ asked' = asked /\ fid' = fid /\ op' = op
  BY <1>1 DEF WaitInv, Browsing, TypesInv, BrowseTyped, callVars
<1>4. PICK c \in Nodes, rel \in Seq(Name \union {DotDot}) :
        /\ c = asked.cnid /\ rel = asked.rel /\ ~Endless(c) /\ ~BadCNID(c) /\ NoDots(rel)
        /\ comps = FullPath(c, rel)
  BY <1>3 DEF BrowseInv, TypesInv, CallTyped
<1>5. PICK q \in Seq(Node), N \in Nat :
        q = qids /\ Len(q) = N /\ N = progress /\ N = Len(FullPath(c, rel)) /\ N > 0
        /\ OnTheWay(FullPath(c, rel), q)
  BY <1>2, <1>3, <1>4, TypesAre DEF BrowseInv
<1>6. PICK d : d = db' /\ (\A x \in OnIt(q) : d[x].dir = tree[x].dir) /\ \A x \in Node \ OnIt(q) : d[x] = db[x]
  <2>1. PICK f : NotedAlong(f, FullPath(c, rel), q) /\ db' = f[Len(q)]
    BY <1>2, <1>4, <1>5
  <2> QED
    BY <1>3, <1>4, <1>5, <2>1, NotedIsTrue
<1>7. Grounded(d)
  BY <1>3, <1>5, <1>6, NotedGrounded
<1>8. Connected(result)'
  <2> DEFINE T == {Root} \union OnIt(q)
  <2>1. T \in SUBSET Node
    BY NinePAssumption DEF OnIt
  <2>2. ASSUME NEW x \in T PROVE x = Root \/ (db'[x].dir = tree'[x].dir /\ db'[x].dir \in T)
    <3> SUFFICES ASSUME x # Root PROVE db'[x].dir = tree'[x].dir /\ db'[x].dir \in T
      OBVIOUS
    <3>1. PICK j \in 1 .. Len(q) : x = q[j]
      BY DEF OnIt
    <3>2. tree[x].dir = Met(q, j - 1) /\ d[x].dir = tree[x].dir
      BY <1>5, <1>6, <3>1 DEF OnTheWay, OnIt
    <3>3. j - 1 # 0 => j - 1 \in 1 .. Len(q)
      OBVIOUS
    <3>4. Met(q, j - 1) = Root \/ Met(q, j - 1) \in OnIt(q)
      BY <3>3 DEF Met, OnIt
    <3> QED
      BY <1>1, <1>6, <3>2, <3>4
  <2>3. q[N] \in T /\ result' = q[N]
    <3>1. N \in 1 .. Len(q)
      BY <1>5
    <3> QED
      BY <1>2, <1>5, <3>1 DEF OnIt
  <2>4. db' \in [Node -> Record]
    BY <1>2 DEF TypesInv
  <2> HIDE DEF T
  <2>5. ASSUME NEW x \in T PROVE Connected(x)'
    BY <1>6, <1>7, <2>1, <2>2, <2>4, RootedIsConnectedNext
  <2>6. PICK x \in T : x = result'
    BY <2>3
  <2>7. Connected(x)'
    BY <2>5
  <2> QED
    BY <2>6, <2>7 DEF Connected, Upwards, Endless, Ends
<1>9. result' = Denoted(tree, c, rel)
  <2>1. PICK n \in Nat, k \in Nat :
          /\ n = Len(PathOf(c)) /\ k = Len(rel) /\ N = n + k
          /\ \A i \in n .. N : Met(q, i) = Route(tree, c, rel)[i - n]
    <3>1. Len(q) <= Len(FullPath(c, rel))
      BY <1>5
    <3>2. /\ Len(PathOf(c)) \in Nat /\ Len(FullPath(c, rel)) = Len(PathOf(c)) + Len(rel) /\ c \in Node
          /\ \A i \in Len(PathOf(c)) .. Len(q) : Met(q, i) = Route(tree, c, rel)[i - Len(PathOf(c))]
      BY <1>3, <1>4, <1>5, <3>1, MetIsRoute
    <3>3. Len(rel) \in Nat
      BY <1>4
    <3> QED
      BY <1>5, <3>2, <3>3
  <2>2. N \in n .. N /\ N - n = k /\ N # 0
    BY <1>5, <2>1
  <2>3. q[N] = Route(tree, c, rel)[k]
    BY <2>1, <2>2 DEF Met
  <2> QED
    BY <1>2, <1>5, <2>1, <2>3 DEF Denoted
<1>10. session'.at[fid'] = result'
  <2>1. tip = fid /\ session.at[tip] = Met(qids, progress) /\ progress # 0
    BY <1>1, <1>2, <1>3, <1>5 DEF BrowseInv
  <2> QED
    BY <1>1, <1>2, <1>3, <2>1 DEF Met
<1>11. Found'
  <2>1. N \in 1 .. Len(q)
    BY <1>5
  <2> QED
    BY <1>2, <1>5, <2>1 DEF Found
<1>12. Denoted(tree, asked.cnid, asked.rel)' = Denoted(tree, c, rel)
  BY <1>1, <1>3, <1>4 DEF Denoted, Route, Component, Named, Children
<1>13. Grounded(db)' /\ NoDots(asked.rel)'
  BY <1>3, <1>6, <1>7 DEF Grounded, NoDots
<1>14. CheckInv' /\ ~Browsing'
  BY <1>1, <1>11 DEF CheckInv, Browsing, Searching
<1> QED
  BY <1>1, <1>8, <1>9, <1>10, <1>11, <1>12, <1>13, <1>14 DEF WaitInv

(* Between calls only the database matters. *)
LEMMA IdleWaits ==
  ASSUME Grounded(db'), pc' = "idle", op' = "none", asked.rel' = <<>>
  PROVE  WaitInv'
<1>1. Grounded(db)'
  BY DEF Grounded
<1>2. NoDots(asked.rel)'
  BY DEF NoDots
<1>3. CheckInv' /\ ~Browsing' /\ ~Returned'
  BY DEF CheckInv, Browsing, Searching, Returned
<1> QED
  BY <1>1, <1>2, <1>3 DEF WaitInv

LEMMA EndWaits ==
  ASSUME Idle, Grounded(db')
  PROVE  WaitInv'
BY IdleWaits DEF Idle

(* What is made is noted below what was found, and nothing is below it. *)
LEMMA MakeWaits ==
  ASSUME TypesInv, WaitInv, FsCreateMake
  PROVE  WaitInv'
<1>1. /\ Idle /\ Returned /\ Found
      /\ \E new \in Node \ {Root} :
           /\ ~Exists(tree, new)
           /\ db' = IF IsDir(new) THEN [db EXCEPT ![new] = [dir |-> result, name |-> newName]] ELSE db
  BY DEF FsCreateMake, Returned
<1>2. PICK new \in Node \ {Root} :
        /\ ~Exists(tree, new)
        /\ db' = IF IsDir(new) THEN [db EXCEPT ![new] = [dir |-> result, name |-> newName]] ELSE db
  BY <1>1
<1>3. /\ Grounded(db) /\ db \in [Node -> Record] /\ IsTree(tree) /\ result \in Node /\ Connected(result)
  BY <1>1 DEF WaitInv, TypesInv, Found
<1>4. PICK T : Chain(T) /\ result \in T
  BY <1>3, ConnectedIsRooted DEF Rooted, Nodes
<1>5. new \notin T
  <2> SUFFICES ASSUME new \in T PROVE FALSE
    OBVIOUS
  <2>1. tree[new].dir = NoFile
    BY <1>2 DEF Exists, Nowhere
  <2>2. tree[new].dir \in T /\ T \subseteq Node
    BY <1>2, <1>4 DEF Chain
  <2> QED
    BY <2>1, <2>2, NinePAssumption
<1>6. Grounded(db')
  <2>1. CASE ~IsDir(new)
    BY <1>2, <1>3, <2>1
  <2>2. CASE IsDir(new)
    <3> SUFFICES ASSUME NEW S \in (SUBSET (Node \ {Root})) \ {{}}, \A n \in S : db'[n].dir \in S
                 PROVE FALSE
      BY DEF Grounded
    <3>1. db'[new].dir = result /\ \A n \in Node \ {new} : db'[n] = db[n]
      BY <1>2, <1>3, <2>2
    <3>2. CASE new \notin S
      <4>1. \A n \in S : db[n].dir \in S
        BY <3>1, <3>2
      <4> QED
        BY <1>3, <4>1 DEF Grounded
    <3>3. CASE new \in S
      <4> DEFINE M == S \cap T
      <4>1. result \in M
        BY <1>4, <3>1, <3>3
      <4>2. ASSUME NEW n \in M PROVE db[n].dir \in M
        <5>1. n # new /\ n # Root /\ n \in Node
          BY <1>5
        <5> QED
          BY <1>4, <3>1, <5>1 DEF Chain
      <4>3. M \in (SUBSET (Node \ {Root})) \ {{}}
        BY <4>1
      <4> HIDE DEF M
      <4> QED
        BY <1>3, <4>2, <4>3 DEF Grounded
    <3> QED
      BY <3>2, <3>3
  <2> QED
    BY <2>1, <2>2
<1> QED
  BY <1>1, <1>6, EndWaits

LEMMA CommitWaits ==
  ASSUME TypesInv, WaitInv, FsRenameCommit
  PROVE  WaitInv'
<1>1. Idle /\ (db' = db \/ db' = [db EXCEPT ![child] = [dir |-> db[child].dir, name |-> newName]])
  BY DEF FsRenameCommit
<1>2. Grounded(db) /\ db \in [Node -> Record]
  BY DEF WaitInv, TypesInv
<1>3. \A n \in Node : db'[n].dir = db[n].dir
  BY <1>1, <1>2
<1>4. Grounded(db')
  BY <1>2, <1>3 DEF Grounded
<1> QED
  BY <1>1, <1>4, EndWaits

(* The host, that waits. *)
LEMMA HostsWait ==
  ASSUME TypesInv, WaitInv, HostPlaces \/ HostRemoves, ~world.interferes
  PROVE  WaitInv'
<1>1. pc = "idle" /\ UNCHANGED <<db, pc, callVars>>
  BY DEF HostPlaces, HostRemoves, HostActs
<1>2. db' = db /\ pc' = "idle" /\ op' = "none" /\ asked' = asked
  BY <1>1 DEF callVars, WaitInv
<1>3. Grounded(db)' /\ NoDots(asked.rel)'
  BY <1>2 DEF WaitInv, Grounded, NoDots
<1>4. CheckInv' /\ ~Browsing' /\ ~Returned'
  BY <1>2 DEF CheckInv, Browsing, Searching, Returned
<1> QED
  BY <1>2, <1>3, <1>4 DEF WaitInv

LEMMA StutterWaits ==
  ASSUME TypesInv, WaitInv, UNCHANGED vars
  PROVE  WaitInv'
<1>1. UNCHANGED <<tree, session, db, pc, comps, progress, tip, qids, back, listed, op, asked, fid, child,
                  newName, result, calls, moves, world>>
  BY DEF vars, browseVars, callVars
<1>2. Grounded(db)' /\ NoDots(asked.rel)' /\ (Found' <=> Found) /\ (Returned' <=> Returned)
      /\ (Browsing' <=> Browsing)
  BY <1>1 DEF WaitInv, Grounded, NoDots, Found, Returned, Browsing
<1>3. ASSUME Browsing' PROVE BrowseInv'
  <2>1. BrowseStep /\ BrowseInv
    BY <1>1, <1>2, <1>3 DEF BrowseStep, WaitInv, callVars
  <2> QED
    BY <1>1, <2>1, BrowseInvNext DEF BrowseInv
<1>4. \A c : Connected(c)' <=> Connected(c)
  BY <1>1, ConnectedKept
<1>5. CheckInv'
  <2>1. Connected(child)' <=> Connected(child)
    <3>1. PICK c : c = child
      OBVIOUS
    <3>2. Connected(child)' <=> Connected(c)'
      BY <1>1, <3>1 DEF Connected, Upwards, Endless, Ends
    <3> QED
      BY <1>4, <3>1, <3>2
  <2> QED
    BY <1>1, <1>2, <2>1 DEF CheckInv, WaitInv
<1>6. Denoted(tree, asked.cnid, asked.rel)' = Denoted(tree, asked.cnid, asked.rel)
  BY <1>1 DEF Denoted, Route, Component, Named, Children
<1>7. (Connected(result)' <=> Connected(result)) /\ (Connected(asked.cnid)' <=> Connected(asked.cnid))
  <2>1. PICK r, c : r = result /\ c = asked.cnid
    OBVIOUS
  <2>2. (Connected(result)' <=> Connected(r)') /\ (Connected(asked.cnid)' <=> Connected(c)')
    BY <1>1, <2>1 DEF Connected, Upwards, Endless, Ends
  <2> QED
    BY <1>4, <2>1, <2>2
<1> QED
  BY <1>1, <1>2, <1>3, <1>5, <1>6, <1>7 DEF WaitInv

LEMMA WaitInit == Init => WaitInv
<1> SUFFICES ASSUME Init PROVE WaitInv
  OBVIOUS
<1>1. /\ db = [n \in Node |-> IF n \in Known THEN Tree[n] ELSE Nowhere]
      /\ pc = "idle" /\ op = "none" /\ asked = [cnid |-> Root, rel |-> <<>>]
  BY DEF Init
<1>2. Grounded(db)
  <2> SUFFICES ASSUME NEW S \in (SUBSET (Node \ {Root})) \ {{}}, \A n \in S : db[n].dir \in S PROVE FALSE
    BY DEF Grounded
  <2>1. ASSUME NEW n \in S PROVE Tree[n].dir \in S
    <3>1. n \in Node /\ db[n].dir \in Node
      OBVIOUS
    <3>2. n \in Known
      BY <1>1, <3>1, NinePAssumption DEF Nowhere
    <3> QED
      BY <1>1, <3>1, <3>2
  <2> QED
    BY <2>1, TreeAssumption DEF IsTree
<1>3. NoDots(asked.rel)
  BY <1>1 DEF NoDots
<1>4. CheckInv /\ ~Browsing /\ ~Returned
  BY <1>1 DEF CheckInv, Browsing, Searching, Returned
<1> QED
  BY <1>1, <1>2, <1>3, <1>4 DEF WaitInv

LEMMA WorldStays == [Next]_vars => world' = world
BY DEF vars, Next, Driver, Lookup, FsCreate, FsDelete, FsRename, Call, Finished, BrowseWalk,
       BrowseBack, BrowseSearch, BrowseEnter, BrowseFound, FsCreateIn, FsCreateMake, FsCreateFails,
       FsDeleteRemove, FsRenameCheck, FsRenameCommit, Hangs, HostPlaces, HostRemoves, HostActs

(* Paths have no "..", and the host lets calls finish. *)
Plain == ~world.dots /\ HostInv

LEMMA PlainNext == TypesInv /\ Plain /\ [Next]_vars => Plain'
<1> SUFFICES ASSUME TypesInv, Plain, [Next]_vars PROVE Plain'
  OBVIOUS
<1>0. world' = world /\ ~world.dots
  BY WorldStays DEF Plain
<1> SUFFICES ASSUME ~world.interferes PROVE WaitInv'
  BY <1>0 DEF Plain, HostInv, HostWaits
<1>15. WaitInv
  BY DEF Plain, HostInv, HostWaits
<1>1. CASE Lookup \/ FsCreate \/ FsDelete \/ FsRename
  BY <1>0, <1>1, <1>15, CallWaits
<1>2. CASE BrowseWalk
  BY <1>2, <1>15, WalkWaits
<1>3. CASE BrowseBack
  BY <1>3, <1>15, BackWaits
<1>4. CASE BrowseSearch
  BY <1>4, <1>15, SearchWaits
<1>5. CASE BrowseEnter
  BY <1>5, <1>15, EnterWaits
<1>6. CASE BrowseFound
  BY <1>6, <1>15, FoundWaits
<1>7. CASE Finished \/ FsCreateFails \/ FsDeleteRemove
  <2>1. Idle /\ db' = db
    BY <1>7 DEF Finished, FsCreateFails, FsDeleteRemove
  <2>2. Grounded(db')
    BY <1>15, <2>1 DEF WaitInv
  <2> QED
    BY <2>1, <2>2, EndWaits
<1>8. CASE FsCreateIn
  BY <1>8, <1>15, CreateInWaits
<1>9. CASE FsCreateMake
  BY <1>9, <1>15, MakeWaits
<1>11. CASE FsRenameCheck
  BY <1>11, <1>15, RenameCheckWaits
<1>12. CASE FsRenameCommit
  BY <1>12, <1>15, CommitWaits
<1>13. CASE HostPlaces \/ HostRemoves
  BY <1>13, <1>15, HostsWait
<1>14. CASE UNCHANGED vars
  BY <1>14, <1>15, StutterWaits
<1>16. ~Hangs
  BY <1>15 DEF Hangs, WaitInv
<1> QED
  BY <1>1, <1>2, <1>3, <1>4, <1>5, <1>6, <1>7, <1>8, <1>9, <1>11, <1>12, <1>13, <1>14, <1>16 DEF Next, Driver

LEMMA PlainAlways == Spec /\ ~world.dots => [](TypesInv /\ Plain)
<1>1. Init /\ ~world.dots => Plain
  BY WaitInit DEF Plain, HostInv
<1> QED
  BY <1>1, PlainNext, TypesAlways, PTL DEF Spec

-----------------------------------------------------------------------------
(* What follows for the calls *)

(* While the host lets calls finish, and if no path has a component that    *)
(* means "..": the CNID that browse returns is that of the file asked for,  *)
(* its fid stands for that file, and a file reported missing is not there   *)
(* if only names have changed on the noted path.                            *)
THEOREM BrowseAlwaysTrue == Spec /\ ~world.dots => []BrowseTrue
<1>1. TypesInv /\ Plain => BrowseTrue
  BY TypesAreOK DEF Plain, HostInv, WaitInv, BrowseTrue, FoundIsMeant, MissingIsMissing
<1> QED
  BY <1>1, PlainAlways, PTL

(* In the same behaviours: every CNID that browse returns is noted up to    *)
(* the root as it really lies, and no noted parents go around in a circle,  *)
(* in which setPath would run for ever.                                     *)
THEOREM DatabaseAlwaysLeadsToRoot == Spec /\ ~world.dots => []DatabaseLeadsToRoot
<1>1. TypesInv /\ Plain => DatabaseLeadsToRoot
  <2> SUFFICES ASSUME TypesInv, Plain, HostWaits PROVE ReturnedIsConnected /\ NoCircle
    BY DEF DatabaseLeadsToRoot, ReturnedIsConnected, NoCircle
  <2>1. ReturnedIsConnected
    BY DEF Plain, HostInv, WaitInv, ReturnedIsConnected
  <2>2. Grounded(db) /\ db \in [Node -> Record]
    BY DEF Plain, HostInv, WaitInv, TypesInv
  <2>3. \A n \in Node : n \in Nodes
    BY DEF Nodes
  <2>4. \A n \in Node : ~Endless(n)
    BY <2>2, <2>3, GroundedEnds
  <2> QED
    BY <2>1, <2>4 DEF NoCircle
<1> QED
  BY <1>1, PlainAlways, PTL

(* What a call that has found, or not found, its file may do to the tree. *)
KeepsAll ==
  pc = "returned" /\ op # "delete" /\ HostWaits =>
    \A n \in Node : Exists(tree, n) => Exists(tree', n)

RemovesOne ==
  pc = "returned" /\ op = "delete" /\ HostWaits /\ tree' # tree =>
    LET n == Denoted(tree, asked.cnid, asked.rel)
    IN  n \in Node /\ tree' = [tree EXCEPT ![n] = Nowhere]

(* What is renamed, is in the directory in which the name was looked for.   *)
LEMMA CommitKeepsAll ==
  ASSUME TypesInv, WaitInv, FsRenameCommit, NEW n \in Node, Exists(tree, n)
  PROVE  Exists(tree', n)
<1>1. PICK s, old : s = Walk9(tree, session, 10, 11, <<DotDot>>).s /\ old = db[child].name
        /\ (tree' = tree \/ (/\ Renames(tree, s.at[11], old, newName)
                             /\ tree' = Renameat9(tree, s.at[11], old, newName)))
  BY DEF FsRenameCommit
<1>2. Returned /\ ~Found /\ op = "dupcheck"
  BY DEF FsRenameCommit, NewNameFree, Returned
<1>3. /\ child \in Node \ {Root} /\ session.at[10] = child /\ Connected(child)
      /\ asked = [cnid |-> tree[child].dir, rel |-> <<newName>>] /\ newName \in Name
      /\ Connected(asked.cnid) => Denoted(tree, asked.cnid, asked.rel) = NoFile
      /\ IsTree(tree) /\ db \in [Node -> Record] /\ Grounded(db)
  BY <1>2 DEF WaitInv, CheckInv, TypesInv, CallTyped
<1>4. PICK d : d = tree[child].dir /\ d \in Node /\ Connected(d)
  BY <1>3, ParentConnected
<1>5. PICK rel : rel = <<newName>>
  OBVIOUS
<1>6. Denoted(tree, d, rel) = NoFile
  BY <1>3, <1>4, <1>5
<1>7. Component(tree, d, newName) = NoFile
  <2>1. tree \in [Node -> Place] /\ d \in Nodes /\ Len(rel) = 1 /\ rel[1] = newName
    BY <1>3, <1>4, <1>5 DEF IsTree, Nodes
  <2>2. ASSUME NEW t \in [Node -> Place], NEW names, Len(names) = 1
        PROVE  /\ Route(t, d, names)[0] = d
               /\ Route(t, d, names)[1] = Component(t, Route(t, d, names)[0], names[1])
    <3>1. Len(names) \in Nat /\ 1 \in 1 .. Len(names) /\ 1 - 1 = 0
      BY <2>2
    <3>2. /\ Route(t, d, names)[0] = d
          /\ \A i \in 1 .. Len(names) : Route(t, d, names)[i] = Component(t, Route(t, d, names)[i - 1], names[i])
      BY <2>1, <3>1, RouteIs
    <3> QED
      BY <3>1, <3>2
  <2>3. Route(tree, d, rel)[1] = Component(tree, d, newName)
    BY <2>1, <2>2
  <2> QED
    BY <1>6, <2>1, <2>3 DEF Denoted
<1>8. Named(tree, d, newName) = {}
  <2>1. newName # DotDot
    BY <1>3, NinePAssumption
  <2> QED
    BY <1>3, <1>4, <1>7, <2>1, ComponentIs
<1>9. s.at[11] = d
  <2>1. PICK up \in Seq({DotDot}) : up = <<DotDot>> /\ Len(up) = 1 /\ up[1] = DotDot /\ Len(up) <= ChunkMax
    <3>1. <<DotDot>> \in Seq({DotDot}) /\ Len(<<DotDot>>) = 1 /\ 1 <= ChunkMax /\ <<DotDot>>[1] = DotDot
      BY TypesAre
    <3> QED
      BY <3>1
  <2>2. InUse(session, 10) /\ 10 \in Fid /\ 11 \in {10, 12, 27, 11, 9}
    BY <1>3, TypesAre, NinePAssumption DEF InUse
  <2>3. WalkFollows(tree, session, 10, 11, up)
    BY <2>1, <2>2, StepFollows
  <2>4. Route(tree, child, up)[1] = d
    <3>1. tree \in [Node -> Place] /\ child \in Nodes /\ Len(up) \in Nat /\ 1 \in 1 .. Len(up) /\ 1 - 1 = 0
      BY <1>3, <2>1 DEF IsTree, Nodes
    <3>2. ASSUME NEW t \in [Node -> Place], NEW a \in Nodes
          PROVE  /\ Route(t, a, up)[0] = a
                 /\ \A i \in 1 .. Len(up) : Route(t, a, up)[i] = Component(t, Route(t, a, up)[i - 1], up[i])
      BY <3>1, RouteIs
    <3>3. Route(tree, child, up)[1] = Component(tree, child, DotDot)
      BY <2>1, <3>1, <3>2
    <3> QED
      BY <1>3, <1>4, <3>3, NinePAssumption DEF Component
  <2>5. PICK w : w = Walk9(tree, session, 10, 11, up)
    OBVIOUS
  <2>6. w.err \in BOOLEAN /\ (w.err <=> Route(tree, child, up)[1] = NoFile)
        /\ (~w.err => w.s.at[11] = Route(tree, child, up)[1])
    BY <1>3, <2>1, <2>3, <2>5, Zenon DEF WalkFollows
  <2> QED
    BY <1>1, <1>4, <2>1, <2>4, <2>5, <2>6, NinePAssumption
<1>10. CASE tree' = tree
  BY <1>10
<1>11. CASE tree' = Renameat9(tree, d, old, newName)
  <2>1. tree'[n] = (IF n \in Named(tree, d, old) THEN [dir |-> d, name |-> newName] ELSE tree[n])
    BY <1>8, <1>11 DEF Renameat9
  <2> QED
    BY <1>4, <2>1, NinePAssumption DEF Exists, Nowhere
<1> QED
  BY <1>1, <1>9, <1>10, <1>11

LEMMA StepRemoves ==
  ASSUME TypesInv, Plain, [Next]_vars
  PROVE  KeepsAll /\ RemovesOne
<1> SUFFICES ASSUME pc = "returned", HostWaits PROVE KeepsAll /\ RemovesOne
  BY DEF KeepsAll, RemovesOne
<1>0. WaitInv /\ Returned
  BY DEF Plain, HostInv, Returned
<1>1. CASE tree' = tree
  BY <1>1 DEF KeepsAll, RemovesOne
<1>2. CASE FsCreateMake
  <2>1. op = "createIn" /\ \E new \in Node \ {Root} : \E place : ~Exists(tree, new) /\ tree' = [tree EXCEPT ![new] = place]
    BY <1>2 DEF FsCreateMake
  <2>2. tree \in [Node -> Place]
    BY TypesAre
  <2> QED
    BY <2>1, <2>2 DEF KeepsAll, RemovesOne, Exists
<1>3. CASE FsDeleteRemove
  <2>1. op = "delete" /\ Found
    BY <1>3 DEF FsDeleteRemove
  <2>2. tree' = tree \/ tree' = [tree EXCEPT ![session.at[10]] = Nowhere]
    BY <1>3, RemoveTyped
  <2>3. fid = 10
    BY <2>1 DEF TypesInv, CallTyped
  <2>4. result = Denoted(tree, asked.cnid, asked.rel) /\ session.at[10] = result /\ result \in Node
    BY <1>0, <2>1, <2>3 DEF WaitInv, Found
  <2> QED
    BY <2>1, <2>2, <2>4 DEF KeepsAll, RemovesOne
<1>4. CASE FsRenameCommit
  <2>1. op = "dupcheck"
    BY <1>4 DEF FsRenameCommit
  <2> QED
    BY <1>0, <1>4, <2>1, CommitKeepsAll DEF KeepsAll, RemovesOne
<1>5. ~HostPlaces /\ ~HostRemoves
  BY DEF HostPlaces, HostRemoves, HostActs, HostWaits
<1> QED
  BY <1>1, <1>2, <1>3, <1>4, <1>5 DEF vars, Next, Driver, Lookup, FsCreate, FsDelete, FsRename, NextCall,
     Finished, FsCreateFails, FsCreateIn, FsRenameCheck, BrowseFound, BrowseWalk, BrowseBack, BrowseSearch,
     BrowseEnter, Hangs

(* And in these, no call but Delete makes a file vanish, fsRename in        *)
(* particular overwrites none, and Delete removes just the file it names.   *)
THEOREM OnlyDeleteAlwaysRemoves == Spec /\ ~world.dots => OnlyDeleteRemoves
<1>1. TypesInv /\ Plain /\ [Next]_vars => [KeepsAll]_vars /\ [RemovesOne]_vars
  BY StepRemoves
<1> QED
  BY <1>1, PlainAlways, PTL DEF Spec, OnlyDeleteRemoves, NothingOverwritten, DeletesTheNamed, KeepsAll, RemovesOne
=============================================================================
