----------------------------- MODULE ForksProofs ----------------------------
(***************************************************************************)
(* Theorems about Forks for every number of FCBs and files, every length   *)
(* of forks and every set of forks that the host lengthens.                *)
(*                                                                         *)
(* Ring walks the links a bounded number of times; a walk is hard to follow*)
(* through an insertion or a removal.  In its place the invariant says of  *)
(* the links of a fork's FCBs that they are one circle: they lead from     *)
(* FCBs of the fork to FCBs of the fork, and no part of these is closed    *)
(* under them.  That such a circle is what Ring meets is shown at the end. *)
(***************************************************************************)
EXTENDS Forks, FiniteSetTheorems, WellFoundedInduction, TLAPS

-----------------------------------------------------------------------------
(* Circles *)

Closed(S, link) == \A q \in S : link[q] \in S

Circle(M, link) ==
  /\ Closed(M, link)
  /\ \A S \in SUBSET M : S # {} /\ Closed(S, link) => S = M

LEMMA CircleOfNone == ASSUME NEW link PROVE Circle({}, link)
BY DEF Circle, Closed

LEMMA CircleOfOne == ASSUME NEW r, NEW link, link[r] = r PROVE Circle({r}, link)
BY DEF Circle, Closed

LEMMA CircleKept ==
  ASSUME NEW M, NEW link, Circle(M, link), NEW new, \A q \in M : new[q] = link[q]
  PROVE  Circle(M, new)
BY DEF Circle, Closed

(* fsOpen: r is put in behind q.                                            *)
LEMMA CircleInserted ==
  ASSUME NEW M, NEW link, Circle(M, link), NEW q \in M, NEW r, r \notin M,
         NEW new, new[r] = link[q], new[q] = r, \A p \in M \ {q} : new[p] = link[p]
  PROVE  Circle(M \union {r}, new)
<1> DEFINE N == M \union {r}
<1>1. Closed(N, new)
  BY DEF Circle, Closed
<1>2. ASSUME NEW S \in SUBSET N, S # {}, Closed(S, new) PROVE S = N
  <2> DEFINE T == S \ {r}
  <2>1. r \in S
    <3> SUFFICES ASSUME r \notin S PROVE FALSE
      OBVIOUS
    <3>1. q \notin S
      BY <1>2 DEF Closed
    <3>2. S \in SUBSET M /\ Closed(S, link)
      BY <1>2, <3>1 DEF Closed
    <3> QED
      BY <3>1, <3>2, <1>2 DEF Circle
  <2>2. T \in SUBSET M
    OBVIOUS
  <2>3. link[q] \in T
    BY <2>1, <1>2 DEF Closed, Circle
  <2>4. ASSUME NEW p \in T PROVE link[p] \in T
    BY <2>2, <2>3, <2>4, <1>2 DEF Closed, Circle
  <2>5. T = M
    BY <2>2, <2>3, <2>4 DEF Circle, Closed
  <2> QED
    BY <2>1, <2>5
<1> QED
  BY <1>1, <1>2 DEF Circle

(* fsClose: whichever pointed to r points to what r pointed to.             *)
LEMMA CircleRemoved ==
  ASSUME NEW M, NEW link, Circle(M, link), NEW r \in M, NEW new,
         \A q \in M \ {r} : new[q] = IF link[q] = r THEN link[r] ELSE link[q]
  PROVE  Circle(M \ {r}, new)
<1> DEFINE N == M \ {r}
<1>1. link[r] \in M
  BY DEF Circle, Closed
<1>2. CASE link[r] = r
  <2>1. {r} \in SUBSET M /\ Closed({r}, link)
    BY <1>2 DEF Closed
  <2>2. M = {r}
    BY <2>1 DEF Circle
  <2> QED
    BY <2>2, CircleOfNone
<1>3. CASE link[r] # r
  <2>1. Closed(N, new)
    BY <1>1, <1>3 DEF Circle, Closed
  <2>2. ASSUME NEW S \in SUBSET N, S # {}, Closed(S, new) PROVE S = N
    <3>1. PICK q \in S : link[q] = r
      <4> SUFFICES ASSUME \A q \in S : link[q] # r PROVE FALSE
        OBVIOUS
      <4>1. S \in SUBSET M /\ Closed(S, link)
        BY <2>2 DEF Closed
      <4> QED
        BY <4>1, <2>2 DEF Circle
    <3> DEFINE T == S \union {r}
    <3>2. link[r] \in S
      BY <3>1, <2>2 DEF Closed
    <3>3. ASSUME NEW p \in T PROVE link[p] \in T
      BY <3>2, <3>3, <2>2 DEF Closed
    <3>4. T \in SUBSET M /\ T # {}
      BY <2>2
    <3>5. T = M
      BY <3>3, <3>4 DEF Circle, Closed
    <3> QED
      BY <3>5, <2>2
  <2> QED
    BY <2>1, <2>2 DEF Circle
<1> QED
  BY <1>2, <1>3

-----------------------------------------------------------------------------
(* Ring goes once around the circle *)

Less == {p \in Nat \X Nat : p[1] < p[2]}

(* What is shown of a walk holds of the least number of steps for which it  *)
(* did not, if there were one.                                              *)
LEMMA LeastExists ==
  ASSUME NEW S \in SUBSET Nat, S # {}
  PROVE  \E x \in S : \A y \in S : x <= y
<1>1. IsWellFoundedOn(Less, Nat)
  BY NatLessThanWellFounded DEF OpToRel, Less
<1>2. PICK x \in S : \A y \in S : ~(<<y, x>> \in Less)
  BY <1>1, WFMin, Zenon
<1>3. \A y \in S : ~(y < x)
  BY <1>2 DEF Less
<1> QED
  BY <1>3

Follow(q) == IF q \in Refnum THEN fcb[q].link ELSE 0

(* The first k links that Ring follows from r.                              *)
Walk(at, r, k) == at = [n \in 0 .. k |-> IF n = 0 THEN r ELSE Follow(at[n - 1])]

LEMMA WalksExist == ASSUME NEW r, NEW k \in Nat PROVE \E at : Walk(at, r, k)
<1> DEFINE bad == {j \in Nat : ~\E at : Walk(at, r, j)}
<1>1. SUFFICES ASSUME bad # {} PROVE FALSE
  OBVIOUS
<1>2. PICK j \in bad : \A i \in bad : j <= i
  BY <1>1, LeastExists
<1>3. CASE j = 0
  <2>1. Walk([n \in 0 .. 0 |-> r], r, 0)
    BY DEF Walk
  <2> QED
    BY <2>1, <1>2, <1>3
<1>4. CASE j > 0
  <2>1. j - 1 \in Nat /\ j - 1 \notin bad
    <3>1. j \in Nat
      BY <1>2
    <3> HIDE DEF bad
    <3> QED
      BY <1>2, <1>4, <3>1
  <2>2. PICK at : Walk(at, r, j - 1)
    BY <2>1
  <2> DEFINE longer == [n \in 0 .. j |-> IF n = j THEN Follow(at[j - 1]) ELSE at[n]]
  <2>3. ASSUME NEW n \in 0 .. j
        PROVE  longer[n] = IF n = 0 THEN r ELSE Follow(longer[n - 1])
    <3>1. CASE n = j
      BY <3>1, <1>4
    <3>2. CASE n # j
      <4>1. n \in 0 .. j - 1 /\ longer[n] = at[n] /\ (n # 0 => longer[n - 1] = at[n - 1])
        BY <3>2
      <4>2. at[n] = IF n = 0 THEN r ELSE Follow(at[n - 1])
        BY <2>2, <4>1 DEF Walk
      <4> QED
        BY <4>1, <4>2
    <3> QED
      BY <3>1, <3>2
  <2> HIDE DEF longer
  <2>4. longer = [n \in 0 .. j |-> longer[n]]
    BY DEF longer
  <2>5. Walk(longer, r, j)
    BY <2>3, <2>4 DEF Walk
  <2> QED
    BY <2>5, <1>2
<1> QED
  BY <1>2, <1>3, <1>4

LEMMA RingWalked ==
  ASSUME NEW r
  PROVE  \E at : /\ Ring(r) = {at[n] : n \in 0 .. Cardinality(Refnum)}
                 /\ Walk(at, r, Cardinality(Refnum))
<1> DEFINE N == Cardinality(Refnum)
           at == CHOOSE f : Walk(f, r, N)
<1>1. N \in Nat
  BY ForksAssumption, FS_CardinalityType
<1> HIDE DEF N
<1>2. Walk(at, r, N)
  BY <1>1, WalksExist
<1>3. Ring(r) = {at[n] : n \in 0 .. N}
  BY DEF Ring, N, Walk, Follow
<1> QED
  BY <1>2, <1>3 DEF N

Links == [q \in Refnum |-> fcb[q].link]

(* The walk cannot leave the circle, and before it ends it comes to an FCB  *)
(* a second time, as there are no more than Refnum: what it met up to then  *)
(* is closed under the links.                                               *)
LEMMA RingIsCircle ==
  ASSUME NEW M \in SUBSET Refnum, Circle(M, Links), NEW r \in M
  PROVE  Ring(r) = M
<1> DEFINE N == Cardinality(Refnum)
<1>1. N \in Nat /\ IsFiniteSet(Refnum)
  BY ForksAssumption, FS_CardinalityType
<1>2. PICK at : /\ Ring(r) = {at[n] : n \in 0 .. N}
                /\ at[0] = r
                /\ \A n \in 1 .. N : at[n] = Follow(at[n - 1])
  <2>1. PICK at : Ring(r) = {at[n] : n \in 0 .. N} /\ Walk(at, r, N)
    BY RingWalked
  <2> HIDE DEF N
  <2>2. at[0] = r /\ \A n \in 1 .. N : at[n] = Follow(at[n - 1])
    BY <1>1, <2>1 DEF Walk
  <2> QED
    BY <2>1, <2>2
<1> HIDE DEF N
<1>3. \A n \in 0 .. N : at[n] \in M
  <2> DEFINE bad == {n \in 0 .. N : at[n] \notin M}
  <2>1. SUFFICES ASSUME bad # {} PROVE FALSE
    OBVIOUS
  <2>2. bad \in SUBSET Nat
    OBVIOUS
  <2>3. PICK n \in bad : \A i \in bad : n <= i
    BY <2>1, <2>2, LeastExists
  <2>4. n # 0
    BY <1>2
  <2>5. n - 1 \in 0 .. N /\ n - 1 \notin bad /\ n \in 1 .. N
    <3>1. n \in 0 .. N
      BY <2>3
    <3> HIDE DEF bad
    <3> QED
      BY <1>1, <2>3, <2>4, <3>1
  <2>6. at[n - 1] \in M /\ at[n] = fcb[at[n - 1]].link
    BY <2>5, <1>2 DEF Follow
  <2>7. fcb[at[n - 1]].link \in M
    BY <2>6 DEF Circle, Closed, Links
  <2> QED
    BY <2>6, <2>7
<1>4. PICK i \in 0 .. N, j \in 0 .. N : i < j /\ at[i] = at[j]
  <2> DEFINE f == [n \in 0 .. N |-> at[n]]
  <2>1. f \in [0 .. N -> Refnum]
    BY <1>3
  <2>2. IsFiniteSet(0 .. N) /\ Cardinality(0 .. N) = N + 1
    BY <1>1, FS_Interval
  <2>3. Cardinality(Refnum) < Cardinality(0 .. N)
    BY <1>1, <2>2 DEF N
  <2> HIDE DEF f
  <2>4. PICK x \in 0 .. N, y \in 0 .. N : x # y /\ f[x] = f[y]
    BY <1>1, <2>1, <2>2, <2>3, FS_PigeonHole
  <2>5. at[x] = at[y]
    BY <2>4 DEF f
  <2>6. x < y \/ y < x
    BY <2>4
  <2> QED
    BY <2>5, <2>6
<1> DEFINE S == {at[n] : n \in 0 .. j - 1}
<1>5. S \in SUBSET M /\ at[0] \in S
  BY <1>1, <1>3, <1>4
<1>6. ASSUME NEW n \in 0 .. j - 1 PROVE Links[at[n]] \in S
  <2>1. n \in 0 .. N /\ n + 1 \in 1 .. N /\ n + 1 - 1 = n
    BY <1>1, <1>4
  <2>2. at[n + 1] = Links[at[n]]
    <3>1. at[n] \in Refnum
      BY <1>3, <2>1
    <3> QED
      BY <3>1, <2>1, <1>2 DEF Links, Follow
  <2>3. CASE n + 1 = j
    <3>1. at[n + 1] = at[i] /\ i \in 0 .. j - 1
      BY <1>4, <2>3
    <3> QED
      BY <2>2, <3>1
  <2>4. CASE n + 1 # j
    <3>1. n + 1 \in 0 .. j - 1
      BY <2>4
    <3> QED
      BY <2>2, <3>1
  <2> QED
    BY <2>3, <2>4
<1>7. Closed(S, Links)
  BY <1>6 DEF Closed
<1>8. S = M
  BY <1>5, <1>7 DEF Circle
<1>9. S \subseteq Ring(r) /\ Ring(r) \subseteq M
  BY <1>1, <1>2, <1>3, <1>4
<1> QED
  BY <1>8, <1>9

(* "data" and "rsrc": what is needed of them.                               *)
LEMMA KindsDiffer == Data # Rsrc
BY DEF Data, Rsrc

LEMMA MaxOfTwo ==
  ASSUME NEW a \in Int, NEW b \in Int
  PROVE  Max({a, b}) = IF a >= b THEN a ELSE b
<1>1. \E x \in {a, b} : \A y \in {a, b} : x >= y
  OBVIOUS
<1>2. Max({a, b}) \in {a, b} /\ \A y \in {a, b} : Max({a, b}) >= y
  BY <1>1 DEF Max
<1> QED
  BY <1>2

(* The number above which S has the fewest has none above it.               *)
LEMMA MaxOfFinite ==
  ASSUME NEW S \in SUBSET Nat, IsFiniteSet(S), S # {}
  PROVE  Max(S) \in S /\ \A y \in S : Max(S) >= y
<1> DEFINE Above(x) == {y \in S : y > x}
           counts == {Cardinality(Above(x)) : x \in S}
<1>1. ASSUME NEW x \in S PROVE IsFiniteSet(Above(x)) /\ Cardinality(Above(x)) \in Nat
  <2>1. IsFiniteSet(Above(x))
    <3>1. Above(x) \in SUBSET S
      OBVIOUS
    <3> QED
      BY <3>1, FS_Subset
  <2> HIDE DEF Above
  <2> QED
    BY <2>1, FS_CardinalityType
<1>2. PICK c \in counts : \A d \in counts : c <= d
  <2>1. counts \in SUBSET Nat /\ counts # {}
    BY <1>1
  <2> HIDE DEF counts
  <2> QED
    BY <2>1, LeastExists
<1>3. PICK x \in S : c = Cardinality(Above(x))
  BY <1>2
<1>4. Above(x) = {}
  <2> SUFFICES ASSUME NEW y \in Above(x) PROVE FALSE
    OBVIOUS
  <2>1. y \in S /\ Above(y) \in SUBSET Above(x) /\ Above(y) # Above(x)
    <3>1. y \in S /\ y \in Nat /\ x \in Nat /\ y > x
      OBVIOUS
    <3>2. y \notin Above(y)
      BY <3>1
    <3>3. ASSUME NEW z \in Above(y) PROVE z \in Above(x)
      <4>1. z \in S /\ z \in Nat /\ z > y
        BY <3>3
      <4> QED
        BY <3>1, <4>1
    <3> QED
      BY <3>1, <3>2, <3>3
  <2>2. Cardinality(Above(y)) \in counts
    BY <2>1
  <2> HIDE DEF Above, counts
  <2>3. /\ IsFiniteSet(Above(x)) /\ Cardinality(Above(x)) \in Nat
        /\ Cardinality(Above(y)) \in Nat
    BY <1>1, <2>1
  <2>4. Cardinality(Above(x)) <= Cardinality(Above(y))
    BY <1>2, <1>3, <2>2
  <2>5. /\ Cardinality(Above(y)) <= Cardinality(Above(x))
        /\ Cardinality(Above(x)) = Cardinality(Above(y)) => Above(x) = Above(y)
    BY <2>1, <2>3, FS_Subset
  <2> QED
    BY <2>1, <2>3, <2>4, <2>5
<1>5. \E m \in S : \A y \in S : m >= y
  <2>1. \A y \in S : x >= y
    BY <1>4
  <2> QED
    BY <2>1
<1> QED
  BY <1>5 DEF Max

-----------------------------------------------------------------------------
(* The invariant *)

Fcb == [file : File \union {NoFile}, vol : {Ours, Other}, rsrc : BOOLEAN, write : BOOLEAN,
        link : Refnum \union {0}, eof : 0 .. MaxSize, mark : 0 .. 2 * MaxSize]

Members(k) == {q \in Indexed : ForkOf(q) = k}

Rings == \A k \in Fork : Circle(Members(k), Links)

(* A resource fork is open only while the file is there.  Without that, the *)
(* creation of a file would forget that the host has lengthened an open one.*)
Measured(r) ==
  /\ size[<<fcb[r].file, Data>>] # Absent /\ size[ForkOf(r)] # Absent
  /\ fcb[r].eof <= size[ForkOf(r)]
  /\ ForkOf(r) \notin grown => fcb[r].eof = size[ForkOf(r)]

Lengths == \A r \in Indexed : Measured(r)

FidsOpen ==
  \A r \in Indexed :
    fid[r].at = ForkOf(r) /\ fid[r].mode = IF fcb[r].write THEN "RDWR" ELSE "RDONLY"

Invariant == TypeOK /\ Rings /\ Lengths /\ FidsOpen

LEMMA MembersAreOpen ==
  ASSUME Invariant, NEW r \in Indexed
  PROVE  /\ r \in Refnum /\ fcb[r] \in Fcb /\ ForkOf(r) \in Fork /\ fcb[r].file \in File
         /\ r \in Members(ForkOf(r)) /\ Ring(r) = Members(ForkOf(r))
<1>1. r \in Refnum /\ fcb[r] \in Fcb /\ fcb[r].file \in File
  BY DEF Invariant, TypeOK, Fcb, Indexed
<1>2. ForkOf(r) \in Fork /\ r \in Members(ForkOf(r))
  BY <1>1 DEF ForkOf, Fork, Members
<1>3. Members(ForkOf(r)) \in SUBSET Refnum
  BY DEF Members, Indexed
<1>4. Circle(Members(ForkOf(r)), Links)
  BY <1>2 DEF Invariant, Rings
<1>5. Ring(r) = Members(ForkOf(r))
  BY <1>2, <1>3, <1>4, RingIsCircle
<1> QED
  BY <1>1, <1>2, <1>5

LEMMA InvariantInit == Init => Invariant
<1> SUFFICES ASSUME Init PROVE Invariant
  OBVIOUS
<1>1. Indexed = {}
  BY DEF Init, Indexed, Free
<1>2. TypeOK
  <2>1. Free \in Fcb /\ Unused \in [at : Fork \union {Nothing}, mode : {"closed", "RDONLY", "RDWR"}]
    BY ForksAssumption DEF Free, Fcb, Unused, Ours
  <2>2. size \in [Fork -> Absent .. MaxSize]
    BY ForksAssumption DEF Init, Absent
  <2> QED
    BY <2>1, <2>2 DEF Init, TypeOK, Fcb
<1>3. Rings
  BY <1>1, CircleOfNone DEF Rings, Members
<1> QED
  BY <1>1, <1>2, <1>3 DEF Invariant, Lengths, FidsOpen

-----------------------------------------------------------------------------
(* Steps that leave open what is open, and the rings as they are            *)

SameForks ==
  /\ Indexed' = Indexed
  /\ \A q \in Indexed : /\ fcb'[q].file = fcb[q].file /\ fcb'[q].rsrc = fcb[q].rsrc
                        /\ fcb'[q].link = fcb[q].link

LEMMA MembersKept ==
  ASSUME SameForks
  PROVE  /\ \A q \in Indexed : ForkOf(q)' = ForkOf(q)
         /\ \A k : Members(k)' = Members(k)
<1>1. \A q \in Indexed : ForkOf(q)' = ForkOf(q)
  BY DEF SameForks, ForkOf
<1> QED
  BY <1>1 DEF SameForks, Members

LEMMA RingsKept == ASSUME Rings, SameForks PROVE Rings'
<1> SUFFICES ASSUME NEW k \in Fork PROVE Circle(Members(k), Links)'
  BY DEF Rings
<1>1. Members(k)' = Members(k)
  BY MembersKept
<1>2. \A q \in Members(k) : Links'[q] = Links[q]
  BY DEF SameForks, Members, Links, Indexed
<1>3. Circle(Members(k), Links')
  BY <1>2, CircleKept DEF Rings
<1> QED
  BY <1>1, <1>3

LEMMA FidsKept ==
  ASSUME FidsOpen, SameForks,
         \A q \in Indexed : fid'[q] = fid[q] /\ fcb'[q].write = fcb[q].write
  PROVE  FidsOpen'
BY MembersKept DEF FidsOpen, SameForks

(* The length of k is s, that of its FCBs len.                              *)
LEMMA LengthsSet ==
  ASSUME Invariant, SameForks, grown' = grown, NEW k \in Fork,
         NEW len \in 0 .. MaxSize, NEW s \in len .. MaxSize, k \notin grown => s = len,
         \A j \in Fork : size'[j] = IF j = k THEN s ELSE size[j],
         \A q \in Indexed : fcb'[q].eof = IF q \in Members(k) THEN len ELSE fcb[q].eof
  PROVE  Lengths'
<1> SUFFICES ASSUME NEW q \in Indexed' PROVE Measured(q)'
  BY DEF Lengths
<1>1. q \in Indexed /\ ForkOf(q)' = ForkOf(q) /\ fcb'[q].file = fcb[q].file
  BY MembersKept DEF SameForks
<1>2. Measured(q)
  BY <1>1 DEF Invariant, Lengths
<1>3. fcb[q].file \in File /\ ForkOf(q) \in Fork /\ <<fcb[q].file, Data>> \in Fork
  BY <1>1, MembersAreOpen DEF Fork
<1>4. s # Absent
  BY ForksAssumption DEF Absent
<1>5. q \in Members(k) <=> ForkOf(q) = k
  BY <1>1 DEF Members
<1>6. len <= s
  BY ForksAssumption
<1> QED
  BY <1>1, <1>2, <1>3, <1>4, <1>5, <1>6 DEF Measured

LEMMA LengthsKept ==
  ASSUME Invariant, SameForks, grown' = grown, \A j \in Fork : size'[j] = size[j],
         \A q \in Indexed : fcb'[q].eof = fcb[q].eof
  PROVE  Lengths'
<1> SUFFICES ASSUME NEW q \in Indexed' PROVE Measured(q)'
  BY DEF Lengths
<1>1. q \in Indexed /\ ForkOf(q)' = ForkOf(q) /\ fcb'[q].file = fcb[q].file
  BY MembersKept DEF SameForks
<1>2. Measured(q)
  BY <1>1 DEF Invariant, Lengths
<1>3. fcb[q].file \in File /\ ForkOf(q) \in Fork /\ <<fcb[q].file, Data>> \in Fork
  BY <1>1, MembersAreOpen DEF Fork
<1> QED
  BY <1>1, <1>2, <1>3 DEF Measured

(* Everything that concerns open FCBs stays as it is.                       *)
LEMMA NothingOpened ==
  ASSUME Invariant, TypeOK', Indexed' = Indexed, \A q \in Indexed : fcb'[q] = fcb[q],
         \A q \in Indexed : fid'[q] = fid[q], size' = size, grown' = grown
  PROVE  Invariant'
<1>1. SameForks
  BY DEF SameForks
<1>2. Rings'
  BY <1>1, RingsKept DEF Invariant
<1>3. Lengths'
  BY <1>1, LengthsKept
<1>4. FidsOpen'
  BY <1>1, FidsKept DEF Invariant
<1> QED
  BY <1>2, <1>3, <1>4 DEF Invariant

LEMMA OtherOpensStep ==
  ASSUME Invariant, NEW f \in File, OtherOpens(f)
  PROVE  Invariant'
<1>1. PICK r \in Refnum : /\ Allocated(r)
                          /\ fcb' = [fcb EXCEPT ![r] = [Free EXCEPT !.file = f, !.vol = Other]]
  BY DEF OtherOpens
<1>2. fid' = fid /\ size' = size /\ grown' = grown
  BY DEF OtherOpens
<1>3. [Free EXCEPT !.file = f, !.vol = Other] \in Fcb
  <2>1. Free \in Fcb
    BY ForksAssumption DEF Free, Fcb, Ours
  <2> QED
    BY <2>1 DEF Fcb
<1>4. fcb'[r].vol = Other /\ \A q \in Refnum \ {r} : fcb'[q] = fcb[q]
  BY <1>1 DEF Invariant, TypeOK, Free
<1>5. r \notin Indexed /\ Ours # Other
  BY <1>1 DEF Allocated, Indexed, Ours, Other
<1>6. Indexed' = Indexed
  BY <1>4, <1>5 DEF Indexed
<1>7. TypeOK'
  BY <1>1, <1>2, <1>3 DEF Invariant, TypeOK, Fcb
<1>8. \A q \in Indexed : fcb'[q] = fcb[q]
  BY <1>4, <1>5 DEF Indexed
<1> QED
  BY <1>2, <1>6, <1>7, <1>8, NothingOpened

LEMMA OtherClosesStep ==
  ASSUME Invariant, NEW r \in Refnum, OtherCloses(r)
  PROVE  Invariant'
<1>1. fid' = fid /\ size' = size /\ grown' = grown /\ fcb' = [fcb EXCEPT ![r] = Free]
  BY DEF OtherCloses
<1>2. Free \in Fcb /\ Free.file = NoFile
  BY ForksAssumption DEF Free, Fcb, Ours
<1>3. fcb'[r].file = NoFile /\ \A q \in Refnum \ {r} : fcb'[q] = fcb[q]
  BY <1>1, <1>2 DEF Invariant, TypeOK
<1>4. r \notin Indexed
  BY DEF OtherCloses, Indexed, Ours, Other
<1>5. Indexed' = Indexed
  BY <1>3, <1>4 DEF Indexed
<1>6. TypeOK'
  BY <1>1, <1>2 DEF Invariant, TypeOK, Fcb
<1>7. \A q \in Indexed : fcb'[q] = fcb[q]
  BY <1>3, <1>4 DEF Indexed
<1> QED
  BY <1>1, <1>5, <1>6, <1>7, NothingOpened

-----------------------------------------------------------------------------
(* fsSetEOF, fsReadWrite *)

LEMMA FsSetEOFStep ==
  ASSUME Invariant, NEW r \in Indexed, NEW len \in 0 .. MaxSize, FsSetEOF(r, len)
  PROVE  Invariant'
<1> DEFINE k == ForkOf(r)
<1>1. /\ k \in Fork /\ Ring(r) = Members(k) /\ Members(k) \in SUBSET Refnum
      /\ fid[r].at = k /\ r \in Refnum
  BY MembersAreOpen DEF Invariant, FidsOpen, Members, Indexed
<1>2. fid' = fid /\ grown' = grown /\ size' = [size EXCEPT ![k] = len]
  BY <1>1 DEF FsSetEOF, Setattr9
<1>3. fcb' = [q \in Refnum |-> IF q \in Members(k)
                THEN [fcb[q] EXCEPT !.eof = len, !.mark = IF @ > len THEN len ELSE @]
                ELSE fcb[q]]
  BY <1>1 DEF FsSetEOF, Cut
<1>4. len \in 0 .. 2 * MaxSize
  BY ForksAssumption
<1>5. fcb \in [Refnum -> Fcb] /\ size \in [Fork -> Absent .. MaxSize]
  BY DEF Invariant, TypeOK, Fcb
<1> HIDE DEF k
<1>6. ASSUME NEW q \in Refnum
      PROVE  /\ fcb'[q] \in Fcb /\ fcb'[q].file = fcb[q].file /\ fcb'[q].vol = fcb[q].vol
             /\ fcb'[q].rsrc = fcb[q].rsrc /\ fcb'[q].link = fcb[q].link
             /\ fcb'[q].write = fcb[q].write
             /\ fcb'[q].eof = IF q \in Members(k) THEN len ELSE fcb[q].eof
  BY <1>3, <1>4, <1>5 DEF Fcb
<1>7. TypeOK'
  <2>1. fcb' \in [Refnum -> Fcb]
    BY <1>3, <1>6
  <2>2. size' \in [Fork -> Absent .. MaxSize]
    BY <1>1, <1>2, <1>5, ForksAssumption DEF Absent
  <2> QED
    BY <1>2, <2>1, <2>2 DEF Invariant, TypeOK, Fcb
<1>8. SameForks
  BY <1>6 DEF SameForks, Indexed
<1>9. Rings'
  BY <1>8, RingsKept DEF Invariant
<1>10. Lengths'
  <2>1. \A j \in Fork : size'[j] = IF j = k THEN len ELSE size[j]
    BY <1>1, <1>2, <1>5
  <2>2. \A q \in Indexed : fcb'[q].eof = IF q \in Members(k) THEN len ELSE fcb[q].eof
    BY <1>6 DEF Indexed
  <2>3. len \in len .. MaxSize
    BY ForksAssumption
  <2> QED
    BY <1>1, <1>2, <1>8, <2>1, <2>2, <2>3, LengthsSet
<1>11. FidsOpen'
  BY <1>2, <1>6, <1>8, FidsKept DEF Invariant, Indexed
<1> QED
  BY <1>7, <1>9, <1>10, <1>11 DEF Invariant

(* What a transfer at mark may move.                                        *)
LEMMA ReadBounded ==
  ASSUME NEW k, size[k] \in Int, NEW offset \in Int, NEW count \in Nat
  PROVE  /\ Read9(k, offset, count) \in Nat
         /\ count = 0 => Read9(k, offset, count) = 0
         /\ Read9(k, offset, count) > 0 => offset + Read9(k, offset, count) <= size[k]
<1> DEFINE most == Lesser(count, size[k] - offset)
<1>1. most \in Int /\ most <= count /\ most <= size[k] - offset
  BY DEF Lesser
<1> HIDE DEF most
<1>2. Max({most, 0}) = IF most >= 0 THEN most ELSE 0
  BY <1>1, MaxOfTwo
<1>3. Read9(k, offset, count) = Max({most, 0})
  BY DEF Read9, most
<1> QED
  BY <1>1, <1>2, <1>3

(* Only marks change.                                                       *)
LEMMA MarkMoved ==
  ASSUME Invariant, NEW r \in Indexed, NEW m \in 0 .. 2 * MaxSize,
         fcb' = [fcb EXCEPT ![r].mark = m], \A j \in Fork : size'[j] = size[j],
         size' \in [Fork -> Absent .. MaxSize], fid' = fid, grown' = grown
  PROVE  Invariant'
<1>1. fcb \in [Refnum -> Fcb] /\ r \in Refnum
  BY DEF Invariant, TypeOK, Fcb, Indexed
<1>2. ASSUME NEW q \in Refnum
      PROVE  /\ fcb'[q] \in Fcb /\ fcb'[q].file = fcb[q].file /\ fcb'[q].vol = fcb[q].vol
             /\ fcb'[q].rsrc = fcb[q].rsrc /\ fcb'[q].link = fcb[q].link
             /\ fcb'[q].write = fcb[q].write /\ fcb'[q].eof = fcb[q].eof
  BY <1>1 DEF Fcb
<1>3. fcb' \in [Refnum -> Fcb]
  BY <1>1, <1>2
<1>4. TypeOK'
  BY <1>3 DEF Invariant, TypeOK, Fcb
<1>5. SameForks
  BY <1>2 DEF SameForks, Indexed
<1>6. Rings'
  BY <1>5, RingsKept DEF Invariant
<1>7. Lengths'
  BY <1>2, <1>5, LengthsKept DEF Indexed
<1>8. FidsOpen'
  BY <1>2, <1>5, FidsKept DEF Invariant, Indexed
<1> QED
  BY <1>4, <1>6, <1>7, <1>8 DEF Invariant

(* The fork has become longer, or is longer than its FCBs knew.             *)
LEMMA ForkGrown ==
  ASSUME Invariant, NEW r \in Indexed, NEW len \in 0 .. MaxSize, NEW s \in len .. MaxSize,
         ForkOf(r) \notin grown => s = len, fcb' = Grown(r, len),
         \A j \in Fork : size'[j] = IF j = ForkOf(r) THEN s ELSE size[j],
         size' \in [Fork -> Absent .. MaxSize], fid' = fid, grown' = grown
  PROVE  Invariant'
<1> DEFINE k == ForkOf(r)
<1>1. k \in Fork /\ Ring(r) = Members(k) /\ Members(k) \in SUBSET Refnum
  BY MembersAreOpen DEF Members, Indexed
<1>2. fcb' = [q \in Refnum |-> IF q \in Members(k)
                THEN [fcb[q] EXCEPT !.eof = len, !.mark = IF q = r THEN len ELSE @]
                ELSE fcb[q]]
  BY <1>1 DEF Grown
<1>3. len \in 0 .. 2 * MaxSize
  BY ForksAssumption
<1>4. fcb \in [Refnum -> Fcb]
  BY DEF Invariant, TypeOK, Fcb
<1> HIDE DEF k
<1>5. ASSUME NEW q \in Refnum
      PROVE  /\ fcb'[q] \in Fcb /\ fcb'[q].file = fcb[q].file /\ fcb'[q].vol = fcb[q].vol
             /\ fcb'[q].rsrc = fcb[q].rsrc /\ fcb'[q].link = fcb[q].link
             /\ fcb'[q].write = fcb[q].write
             /\ fcb'[q].eof = IF q \in Members(k) THEN len ELSE fcb[q].eof
  <2> DEFINE m == IF q = r THEN len ELSE fcb[q].mark
  <2>1. fcb[q] \in Fcb /\ m \in 0 .. 2 * MaxSize
    BY <1>3, <1>4 DEF Fcb
  <2>2. fcb'[q] = IF q \in Members(k) THEN [fcb[q] EXCEPT !.eof = len, !.mark = m] ELSE fcb[q]
    BY <1>2
  <2> HIDE DEF m
  <2> QED
    BY <2>1, <2>2 DEF Fcb
<1>6. fcb' \in [Refnum -> Fcb]
  BY <1>2, <1>5
<1>7. TypeOK'
  BY <1>6 DEF Invariant, TypeOK, Fcb
<1>8. SameForks
  BY <1>5 DEF SameForks, Indexed
<1>9. Rings'
  BY <1>8, RingsKept DEF Invariant
<1>10. Lengths'
  <2>1. \A q \in Indexed : fcb'[q].eof = IF q \in Members(k) THEN len ELSE fcb[q].eof
    BY <1>5 DEF Indexed
  <2> QED
    BY <1>1, <1>8, <2>1, LengthsSet DEF k
<1>11. FidsOpen'
  BY <1>5, <1>8, FidsKept DEF Invariant, Indexed
<1> QED
  BY <1>7, <1>9, <1>10, <1>11 DEF Invariant

Calls == {"Read", "Write", "GetFPos", "SetFPos"}
Seeks == {"AtMark", "FromStart", "FromLEOF", "FromMark"}

LEMMA FsReadWriteStep ==
  ASSUME Invariant, NEW r \in Indexed, NEW call \in Calls, NEW seek \in Seeks,
         NEW req \in Asked(call), NEW offset \in Given(seek, call),
         FsReadWrite(call, r, seek, offset, req)
  PROVE  Invariant'
<1> DEFINE k == ForkOf(r)
           mark == Sought(r, seek, offset)
           got == IF call = "Write" THEN req ELSE Read9(fid[r].at, mark, req)
           pos == IF req = 0 THEN offset ELSE mark + got
<1>1. /\ r \in Refnum /\ fcb[r] \in Fcb /\ k \in Fork /\ fid[r].at = k /\ Measured(r)
  BY MembersAreOpen DEF Invariant, FidsOpen, Lengths
<1>2. /\ req \in Nat /\ (call = "Write" => req > 0) /\ offset \in Int
      /\ (req = 0 => call # "Write")
  BY ForksAssumption DEF Asked, Given, Calls
<1>3. mark \in Int
  BY <1>1, <1>2, ForksAssumption DEF Sought, Seeks, Fcb
<1>4. /\ size \in [Fork -> Absent .. MaxSize] /\ size[k] \in Int /\ size[k] <= MaxSize
      /\ fcb[r].eof \in Nat /\ fcb[r].eof <= size[k]
      /\ fcb[r].eof <= MaxSize /\ MaxSize \in Nat
  BY <1>1, ForksAssumption DEF Invariant, TypeOK, Absent, Measured, Fcb
<1> HIDE DEF k, mark
<1>5. /\ got \in Nat /\ (req = 0 => got = 0)
      /\ (call # "Write" /\ got > 0 => mark + got <= size[k])
  BY <1>1, <1>2, <1>3, <1>4, ReadBounded
<1>6. fid' = fid /\ grown' = grown
  BY DEF FsReadWrite
<1>7. pos \in Int /\ (got > 0 => pos = mark + got)
  BY <1>2, <1>3, <1>5
<1> DEFINE Still == \A j \in Fork : size'[j] = size[j]
           Typed == size' \in [Fork -> Absent .. MaxSize]
<1>8. CASE call = "Write" /\ ~fcb[r].write
  <2>1. fcb' = fcb /\ size' = size
    BY <1>8 DEF FsReadWrite
  <2>2. TypeOK'
    BY <1>6, <2>1 DEF Invariant, TypeOK
  <2>3. Indexed' = Indexed
    BY <2>1 DEF Indexed
  <2> QED
    BY <1>6, <2>1, <2>2, <2>3, NothingOpened
<1>9. CASE ~(call = "Write" /\ ~fcb[r].write) /\ mark < 0
  <2>1. fcb' = [fcb EXCEPT ![r].mark = 0] /\ size' = size
    BY <1>9 DEF FsReadWrite, mark
  <2>2. 0 \in 0 .. 2 * MaxSize /\ Typed /\ Still
    BY <1>4, <2>1
  <2> QED
    BY <1>6, <2>1, <2>2, MarkMoved
<1>10. CASE ~(call = "Write" /\ ~fcb[r].write) /\ ~(mark < 0)
  <2>1. /\ mark + got <= MaxSize
        /\ IF call = "Write" THEN Write9(k, mark, req) ELSE size' = size
        /\ fcb' = IF pos <= fcb[r].eof THEN [fcb EXCEPT ![r].mark = mark + got]
                  ELSE IF got = 0 THEN [fcb EXCEPT ![r].mark = fcb[r].eof]
                  ELSE Grown(r, pos)
    BY <1>1, <1>10 DEF FsReadWrite, mark
  <2> HIDE DEF got, pos
  <2> DEFINE s == IF call = "Write" /\ mark + got > size[k] THEN mark + got ELSE size[k]
  <2>2. (\A j \in Fork : size'[j] = IF j = k THEN s ELSE size[j]) /\ Typed
    <3>1. CASE call = "Write"
      <4>1. got = req /\ mark + req \in Int
        BY <1>2, <1>3, <3>1 DEF got
      <4>2. size' = [size EXCEPT ![k] = Max({size[k], mark + req})]
        BY <2>1, <3>1 DEF Write9
      <4>3. Max({size[k], mark + req}) = s
        BY <1>4, <3>1, <4>1, MaxOfTwo
      <4>4. s \in Absent .. MaxSize
        BY <1>1, <1>3, <1>4, <1>5, <1>10, <2>1 DEF Absent
      <4> QED
        BY <1>1, <1>4, <4>2, <4>3, <4>4
    <3>2. CASE call # "Write"
      BY <1>4, <2>1, <3>2
    <3> QED
      BY <3>1, <3>2
  <2>3. CASE pos <= fcb[r].eof
    <3>1. s = size[k]
      <4>1. call = "Write" => got > 0
        BY <1>2 DEF got
      <4> QED
        BY <1>3, <1>4, <1>5, <1>7, <2>3, <4>1
    <3>2. mark + got \in 0 .. 2 * MaxSize
      BY <1>3, <1>4, <1>5, <1>10, <2>1
    <3>3. fcb' = [fcb EXCEPT ![r].mark = mark + got] /\ Still
      BY <2>1, <2>2, <2>3, <3>1
    <3> QED
      BY <1>6, <2>2, <3>2, <3>3, MarkMoved
  <2>4. CASE ~(pos <= fcb[r].eof) /\ got = 0
    <3>1. call # "Write" /\ s = size[k]
      BY <1>2, <2>4 DEF got
    <3>2. fcb[r].eof \in 0 .. 2 * MaxSize
      BY <1>4
    <3>3. fcb' = [fcb EXCEPT ![r].mark = fcb[r].eof] /\ Still
      BY <2>1, <2>2, <2>4, <3>1
    <3> QED
      BY <1>6, <2>2, <3>2, <3>3, MarkMoved
  <2>5. CASE ~(pos <= fcb[r].eof) /\ got # 0
    <3>1. pos = mark + got /\ pos \in 0 .. MaxSize /\ pos > fcb[r].eof
      BY <1>3, <1>4, <1>5, <1>7, <1>10, <2>1, <2>5
    <3>2. call # "Write" => pos <= size[k]
      BY <1>5, <2>5, <3>1
    <3>3. s \in pos .. MaxSize
      BY <1>3, <1>4, <1>5, <3>1, <3>2
    <3>4. k \notin grown => s = pos
      BY <1>1, <1>3, <1>4, <1>5, <3>1, <3>2 DEF Measured, k
    <3>5. fcb' = Grown(r, pos)
      BY <2>1, <2>5
    <3> HIDE DEF s
    <3> QED
      BY <1>6, <2>2, <3>1, <3>3, <3>4, <3>5, ForkGrown DEF k
  <2> QED
    BY <2>3, <2>4, <2>5
<1> QED
  BY <1>8, <1>9, <1>10

-----------------------------------------------------------------------------
(* fsClose, fsOpen *)

LEMMA FsCloseStep ==
  ASSUME Invariant, NEW r \in Indexed, FsClose(r)
  PROVE  Invariant'
<1> DEFINE k == ForkOf(r)
<1>1. /\ r \in Refnum /\ k \in Fork /\ r \in Members(k) /\ Ring(r) = Members(k)
      /\ Members(k) \in SUBSET Refnum
  BY MembersAreOpen DEF Members, Indexed
<1>2. fid' = [fid EXCEPT ![r] = Unused] /\ size' = size /\ grown' = grown
  BY DEF FsClose
<1>3. fcb' = [q \in Refnum |->
                IF q = r THEN Free
                ELSE IF q \in Members(k) /\ fcb[q].link = r THEN [fcb[q] EXCEPT !.link = fcb[r].link]
                ELSE fcb[q]]
  BY <1>1 DEF FsClose, Unlinked
<1>4. fcb \in [Refnum -> Fcb] /\ Free \in Fcb /\ Free.file = NoFile
  BY ForksAssumption DEF Invariant, TypeOK, Fcb, Free, Ours
<1>5. fcb[r].link \in Refnum \union {0}
  BY <1>1, <1>4 DEF Fcb
<1> HIDE DEF k
<1>6. ASSUME NEW q \in Refnum \ {r}
      PROVE  /\ fcb'[q] \in Fcb /\ fcb'[q].file = fcb[q].file /\ fcb'[q].vol = fcb[q].vol
             /\ fcb'[q].rsrc = fcb[q].rsrc /\ fcb'[q].write = fcb[q].write
             /\ fcb'[q].eof = fcb[q].eof
             /\ fcb'[q].link = IF q \in Members(k) /\ fcb[q].link = r
                               THEN fcb[r].link ELSE fcb[q].link
  BY <1>3, <1>4, <1>5 DEF Fcb
<1>7. fcb'[r] = Free
  BY <1>1, <1>3
<1>8. TypeOK'
  <2>1. fcb' \in [Refnum -> Fcb]
    BY <1>3, <1>4, <1>6, <1>7
  <2> QED
    BY <1>2, <2>1 DEF Invariant, TypeOK, Fcb, Unused
<1>9. Indexed' = Indexed \ {r} /\ \A q \in Indexed \ {r} : ForkOf(q)' = ForkOf(q)
  <2>1. r \notin Indexed'
    BY <1>4, <1>7 DEF Indexed
  <2>2. \A q \in Refnum \ {r} : q \in Indexed' <=> q \in Indexed
    BY <1>6 DEF Indexed
  <2>3. Indexed \in SUBSET Refnum /\ Indexed' \in SUBSET Refnum
    BY DEF Indexed
  <2> QED
    BY <1>6, <2>1, <2>2, <2>3 DEF ForkOf
<1>10. Rings'
  <2> SUFFICES ASSUME NEW j \in Fork PROVE Circle(Members(j), Links)'
    BY DEF Rings
  <2>1. Members(j)' = Members(j) \ {r} /\ Members(j) \in SUBSET Refnum
    BY <1>9 DEF Members, Indexed
  <2>2. Circle(Members(j), Links)
    BY DEF Invariant, Rings
  <2>3. \A q \in Refnum \ {r} :
          Links'[q] = IF q \in Members(k) /\ Links[q] = r THEN Links[r] ELSE Links[q]
    BY <1>1, <1>6 DEF Links
  <2>4. CASE j = k
    <3>1. Circle(Members(j) \ {r}, Links')
      BY <1>1, <2>1, <2>2, <2>3, <2>4, CircleRemoved
    <3> QED
      BY <2>1, <3>1
  <2>5. CASE j # k
    <3>1. Members(j) \ {r} = Members(j) /\ \A q \in Members(j) : q \notin Members(k)
      BY <2>5 DEF Members, k
    <3>2. \A q \in Members(j) : Links'[q] = Links[q]
      BY <2>1, <2>3, <3>1
    <3>3. Circle(Members(j), Links')
      BY <2>2, <3>2, CircleKept
    <3> QED
      BY <2>1, <3>1, <3>3
  <2> QED
    BY <2>4, <2>5
<1>11. Lengths'
  <2> SUFFICES ASSUME NEW q \in Indexed' PROVE Measured(q)'
    BY DEF Lengths
  <2>1. q \in Indexed /\ q \in Refnum \ {r} /\ ForkOf(q)' = ForkOf(q)
    BY <1>9 DEF Indexed
  <2>2. Measured(q)
    BY <2>1 DEF Invariant, Lengths
  <2> QED
    BY <1>2, <1>6, <2>1, <2>2 DEF Measured
<1>12. FidsOpen'
  <2> SUFFICES ASSUME NEW q \in Indexed'
               PROVE  fid'[q].at = ForkOf(q)' /\
                      fid'[q].mode = IF fcb'[q].write THEN "RDWR" ELSE "RDONLY"
    BY DEF FidsOpen
  <2>1. q \in Indexed /\ q \in Refnum \ {r} /\ ForkOf(q)' = ForkOf(q)
    BY <1>9 DEF Indexed
  <2>2. fid'[q] = fid[q]
    BY <1>2, <2>1 DEF Invariant, TypeOK
  <2> QED
    BY <1>6, <2>1, <2>2 DEF Invariant, FidsOpen
<1> QED
  BY <1>8, <1>10, <1>11, <1>12 DEF Invariant

(* A new FCB of fork k, whose length is the host's.                         *)
LEMMA FcbAdded ==
  ASSUME Invariant, NEW k \in Fork, NEW r \in Refnum, Allocated(r), NEW new \in Fcb,
         new.file = k[1], new.vol = Ours, new.rsrc = (k[2] = Rsrc), new.link = r,
         fcb' = Linked(r, k, new)
  PROVE  /\ fcb' \in [Refnum -> Fcb] /\ Rings' /\ Indexed' = Indexed \union {r}
         /\ r \notin Indexed /\ ForkOf(r)' = k /\ fcb'[r].eof = new.eof
         /\ fcb'[r].write = new.write /\ fcb'[r].file = k[1]
         /\ \A q \in Indexed : /\ ForkOf(q)' = ForkOf(q) /\ fcb'[q].file = fcb[q].file
                               /\ fcb'[q].eof = fcb[q].eof /\ fcb'[q].write = fcb[q].write
<1>1. r \notin Indexed /\ Fellows(r, k) = Members(k) /\ Members(k) \in SUBSET Refnum
  BY DEF Allocated, Indexed, Fellows, Members
<1>2. fcb \in [Refnum -> Fcb] /\ k = <<k[1], k[2]>> /\ k[1] \in File /\ k[2] \in {Data, Rsrc}
  BY DEF Invariant, TypeOK, Fcb, Fork
<1>3. k = <<k[1], IF k[2] = Rsrc THEN Rsrc ELSE Data>> /\ k[1] # NoFile
  BY <1>2, ForksAssumption
<1> DEFINE q0 == CHOOSE q \in Members(k) : \A p \in Members(k) : q <= p
<1>4. Members(k) # {} => q0 \in Members(k)
  <2>1. Members(k) \in SUBSET Nat
    BY <1>1, ForksAssumption
  <2> QED
    BY <2>1, LeastExists
<1>5. fcb' = IF Members(k) = {} THEN [fcb EXCEPT ![r] = new]
             ELSE [fcb EXCEPT ![r] = [new EXCEPT !.link = fcb[q0].link], ![q0].link = r]
  BY <1>1 DEF Linked
<1> HIDE DEF q0
<1>6. Members(k) # {} => q0 \in Refnum /\ q0 # r /\ fcb[q0].link \in Refnum \union {0}
  BY <1>1, <1>2, <1>4 DEF Members, Fcb
<1>7. /\ fcb'[r] \in Fcb /\ fcb'[r].file = k[1] /\ fcb'[r].vol = Ours
      /\ fcb'[r].rsrc = (k[2] = Rsrc) /\ fcb'[r].eof = new.eof /\ fcb'[r].write = new.write
      /\ fcb'[r].link = IF Members(k) = {} THEN r ELSE fcb[q0].link
  <2>1. CASE Members(k) = {}
    BY <1>2, <1>5, <2>1
  <2>2. CASE Members(k) # {}
    <3>1. fcb'[r] = [new EXCEPT !.link = fcb[q0].link]
      BY <1>2, <1>5, <1>6, <2>2
    <3> QED
      BY <1>6, <2>2, <3>1 DEF Fcb
  <2> QED
    BY <2>1, <2>2
<1>8. ASSUME NEW q \in Refnum \ {r}
      PROVE  /\ fcb'[q] \in Fcb /\ fcb'[q].file = fcb[q].file /\ fcb'[q].vol = fcb[q].vol
             /\ fcb'[q].rsrc = fcb[q].rsrc /\ fcb'[q].write = fcb[q].write
             /\ fcb'[q].eof = fcb[q].eof
             /\ fcb'[q].link = IF Members(k) # {} /\ q = q0 THEN r ELSE fcb[q].link
  <2>1. CASE Members(k) # {} /\ q = q0
    <3>1. fcb'[q] = [fcb[q] EXCEPT !.link = r]
      BY <1>2, <1>5, <1>6, <2>1
    <3> QED
      BY <1>2, <2>1, <3>1 DEF Fcb
  <2>2. CASE ~(Members(k) # {} /\ q = q0)
    <3>1. fcb'[q] = fcb[q]
      BY <1>2, <1>5, <1>6, <2>2
    <3> QED
      BY <1>2, <2>2, <3>1
  <2> QED
    BY <2>1, <2>2
<1>9. fcb' \in [Refnum -> Fcb]
  <2>1. fcb' = [q \in Refnum |-> fcb'[q]]
    BY <1>2, <1>5
  <2> QED
    BY <1>7, <1>8, <2>1
<1>10. Indexed' = Indexed \union {r}
  <2>1. r \in Indexed'
    BY <1>3, <1>7 DEF Indexed
  <2>2. \A q \in Refnum \ {r} : q \in Indexed' <=> q \in Indexed
    BY <1>8 DEF Indexed
  <2>3. Indexed \in SUBSET Refnum /\ Indexed' \in SUBSET Refnum
    BY DEF Indexed
  <2> QED
    BY <2>1, <2>2, <2>3
<1>11. ForkOf(r)' = k
  BY <1>3, <1>7 DEF ForkOf
<1>12. \A q \in Indexed : q \in Refnum \ {r} /\ ForkOf(q)' = ForkOf(q)
  BY <1>1, <1>8 DEF ForkOf, Indexed
<1>13. Rings'
  <2> SUFFICES ASSUME NEW j \in Fork PROVE Circle(Members(j), Links)'
    BY DEF Rings
  <2>1. Members(j)' = IF j = k THEN Members(j) \union {r} ELSE Members(j)
    BY <1>10, <1>11, <1>12 DEF Members
  <2>2. Circle(Members(j), Links)
    BY DEF Invariant, Rings
  <2>3. \A q \in Refnum \ {r} :
          Links'[q] = IF Members(k) # {} /\ q = q0 THEN r ELSE Links[q]
    BY <1>8 DEF Links
  <2>4. Links'[r] = IF Members(k) = {} THEN r ELSE Links[q0]
    BY <1>6, <1>7 DEF Links
  <2>5. \A q \in Members(j) : q \in Refnum \ {r}
    BY <1>12 DEF Members
  <2>6. CASE j # k
    <3>1. \A q \in Members(j) : Links'[q] = Links[q]
      BY <1>4, <2>3, <2>5, <2>6 DEF Members
    <3>2. Circle(Members(j), Links')
      BY <2>2, <3>1, CircleKept
    <3> QED
      BY <2>1, <2>6, <3>2
  <2>7. CASE j = k /\ Members(k) = {}
    <3>1. Circle({r}, Links')
      BY <2>4, <2>7, CircleOfOne
    <3> QED
      BY <2>1, <2>7, <3>1
  <2>8. CASE j = k /\ Members(k) # {}
    <3>1. /\ r \notin Members(j) /\ q0 \in Members(j) /\ Links'[r] = Links[q0]
          /\ Links'[q0] = r /\ \A p \in Members(j) \ {q0} : Links'[p] = Links[p]
      BY <1>4, <2>3, <2>4, <2>5, <2>8
    <3>2. Circle(Members(j) \union {r}, Links')
      BY <2>2, <3>1, CircleInserted
    <3> QED
      BY <2>1, <2>8, <3>2
  <2> QED
    BY <2>6, <2>7, <2>8
<1> QED
  BY <1>1, <1>7, <1>8, <1>9, <1>10, <1>11, <1>12, <1>13

LEMMA FsOpenStep ==
  ASSUME Invariant, NEW k \in Wanted, NEW perm \in {"read", "any"},
         NEW grants \in {"none", "RDONLY", "RDWR"}, FsOpen(k, perm, grants)
  PROVE  Invariant'
<1> DEFINE len == Getattr9(k)
           writes == perm = "any" /\ grants = "RDWR"
           file == <<k[1], Data>>
<1>1. k \in Fork /\ k = <<k[1], k[2]>> /\ k[1] \in File /\ file \in Fork
  BY WantedAssumption DEF Fork
<1>2. PICK r \in Refnum :
        /\ Allocated(r)
        /\ IF size[file] = Absent
           THEN fid' = [fid EXCEPT ![r] = Unused] /\ UNCHANGED <<fcb, size>>
           ELSE /\ size' = [size EXCEPT ![k] = len]
                /\ IF grants = "none"
                   THEN /\ fid' = [fid EXCEPT ![r] = [at |-> k, mode |-> "closed"]]
                        /\ UNCHANGED fcb
                   ELSE /\ fid' = [fid EXCEPT ![r] =
                                     [at |-> k, mode |-> IF writes THEN "RDWR" ELSE "RDONLY"]]
                        /\ fcb' = Linked(r, k,
                                    [file |-> k[1], vol |-> Ours, rsrc |-> k[2] = Rsrc,
                                     write |-> writes, link |-> r, eof |-> len, mark |-> 0])
  BY DEF FsOpen
<1>3. grown' = grown
  BY DEF FsOpen
<1>4. /\ size \in [Fork -> Absent .. MaxSize] /\ fcb \in [Refnum -> Fcb]
      /\ fid \in [Refnum -> [at : Fork \union {Nothing}, mode : {"closed", "RDONLY", "RDWR"}]]
  BY DEF Invariant, TypeOK, Fcb
<1>5. len = IF size[k] = Absent THEN 0 ELSE size[k]
  <2>1. size[k] \in Absent .. MaxSize
    BY <1>1, <1>4
  <2>2. size[k] \in Int /\ size[k] >= -1
    BY <2>1 DEF Absent
  <2> QED
    BY <2>2, MaxOfTwo DEF Getattr9, Absent
<1>6. len \in 0 .. MaxSize /\ size[k] \in Absent .. MaxSize
  BY <1>1, <1>4, <1>5, ForksAssumption DEF Absent
<1> HIDE DEF len
<1>7. r \notin Indexed /\ \A q \in Indexed : q \in Refnum /\ q # r
  BY <1>2 DEF Allocated, Indexed
<1>8. ASSUME NEW m, fid' = [fid EXCEPT ![r] = m],
             m \in [at : Fork \union {Nothing}, mode : {"closed", "RDONLY", "RDWR"}]
      PROVE  /\ fid' \in [Refnum -> [at : Fork \union {Nothing}, mode : {"closed", "RDONLY", "RDWR"}]]
             /\ fid'[r] = m /\ \A q \in Indexed : fid'[q] = fid[q]
  BY <1>4, <1>7, <1>8
(* An absent sidecar is made; it has no FCB.                                *)
<1>9. ASSUME size' = [size EXCEPT ![k] = len]
      PROVE  /\ size' \in [Fork -> Absent .. MaxSize] /\ size'[k] = len
             /\ \A j \in Fork : size[j] # Absent => size'[j] = size[j]
  BY <1>1, <1>4, <1>5, <1>6, <1>9, ForksAssumption DEF Absent
<1>10. CASE size[file] = Absent
  <2>1. fid' = [fid EXCEPT ![r] = Unused] /\ fcb' = fcb /\ size' = size
    BY <1>2, <1>10
  <2>2. Unused \in [at : Fork \union {Nothing}, mode : {"closed", "RDONLY", "RDWR"}]
    BY DEF Unused
  <2>3. TypeOK' /\ \A q \in Indexed : fid'[q] = fid[q]
    BY <1>3, <1>8, <2>1, <2>2 DEF Invariant, TypeOK
  <2>4. Indexed' = Indexed
    BY <2>1 DEF Indexed
  <2> QED
    BY <1>3, <2>1, <2>3, <2>4, NothingOpened
<1>11. CASE size[file] # Absent /\ grants = "none"
  <2>1. fid' = [fid EXCEPT ![r] = [at |-> k, mode |-> "closed"]] /\ fcb' = fcb
        /\ size' = [size EXCEPT ![k] = len]
    BY <1>2, <1>11
  <2>2. [at |-> k, mode |-> "closed"] \in
          [at : Fork \union {Nothing}, mode : {"closed", "RDONLY", "RDWR"}]
    BY <1>1
  <2>3. TypeOK' /\ \A q \in Indexed : fid'[q] = fid[q]
    BY <1>3, <1>8, <1>9, <2>1, <2>2 DEF Invariant, TypeOK
  <2>4. SameForks
    BY <2>1 DEF SameForks, Indexed
  <2>5. Rings'
    BY <2>4, RingsKept DEF Invariant
  <2>6. Lengths'
    <3> SUFFICES ASSUME NEW q \in Indexed' PROVE Measured(q)'
      BY DEF Lengths
    <3>1. q \in Indexed /\ ForkOf(q)' = ForkOf(q) /\ Measured(q)
      BY <2>4, MembersKept DEF SameForks, Invariant, Lengths
    <3>2. ForkOf(q) \in Fork /\ <<fcb[q].file, Data>> \in Fork
      BY <3>1, MembersAreOpen DEF Fork
    <3> QED
      BY <1>3, <1>9, <2>1, <3>1, <3>2 DEF Measured
  <2>7. FidsOpen'
    BY <2>1, <2>3, <2>4, FidsKept DEF Invariant
  <2> QED
    BY <2>3, <2>5, <2>6, <2>7 DEF Invariant
<1>12. CASE size[file] # Absent /\ grants # "none"
  <2> DEFINE new == [file |-> k[1], vol |-> Ours, rsrc |-> k[2] = Rsrc, write |-> writes,
                     link |-> r, eof |-> len, mark |-> 0]
             open == [at |-> k, mode |-> IF writes THEN "RDWR" ELSE "RDONLY"]
  <2>1. fid' = [fid EXCEPT ![r] = open] /\ fcb' = Linked(r, k, new)
        /\ size' = [size EXCEPT ![k] = len]
    BY <1>2, <1>12
  <2>2. /\ new.file = k[1] /\ new.vol = Ours /\ new.rsrc = (k[2] = Rsrc) /\ new.link = r
        /\ new.eof = len /\ new.write = writes
    OBVIOUS
  <2>3. new \in Fcb
    BY <1>1, <1>2, <1>6, ForksAssumption DEF Fcb
  <2>4. /\ open \in [at : Fork \union {Nothing}, mode : {"closed", "RDONLY", "RDWR"}]
        /\ open.at = k /\ open.mode = IF writes THEN "RDWR" ELSE "RDONLY"
    BY <1>1
  <2> HIDE DEF new, open
  <2>5. /\ fcb' \in [Refnum -> Fcb] /\ Rings' /\ Indexed' = Indexed \union {r}
        /\ ForkOf(r)' = k /\ fcb'[r].eof = len /\ fcb'[r].write = writes
        /\ fcb'[r].file = k[1]
        /\ \A q \in Indexed : /\ ForkOf(q)' = ForkOf(q) /\ fcb'[q].file = fcb[q].file
                              /\ fcb'[q].eof = fcb[q].eof /\ fcb'[q].write = fcb[q].write
    BY <1>1, <1>2, <2>1, <2>2, <2>3, FcbAdded
  <2>6. /\ fid'[r] = open /\ \A q \in Indexed : fid'[q] = fid[q]
        /\ fid' \in [Refnum -> [at : Fork \union {Nothing}, mode : {"closed", "RDONLY", "RDWR"}]]
    BY <1>8, <2>1, <2>4
  <2>7. TypeOK'
    BY <1>3, <1>9, <2>1, <2>5, <2>6 DEF Invariant, TypeOK, Fcb
  <2>8. Lengths'
    <3> SUFFICES ASSUME NEW q \in Indexed' PROVE Measured(q)'
      BY DEF Lengths
    <3>1. CASE q = r
      <4>1. size'[file] # Absent
        BY <1>1, <1>9, <1>12, <2>1
      <4>2. size'[k] = len /\ len # Absent /\ len <= len
        BY <1>6, <1>9, <2>1, ForksAssumption DEF Absent
      <4> QED
        BY <2>5, <3>1, <4>1, <4>2 DEF Measured
    <3>2. CASE q # r
      <4>1. q \in Indexed /\ ForkOf(q)' = ForkOf(q) /\ Measured(q)
        BY <2>5, <3>2 DEF Invariant, Lengths
      <4>2. ForkOf(q) \in Fork /\ <<fcb[q].file, Data>> \in Fork
        BY <4>1, MembersAreOpen DEF Fork
      <4>3. fcb'[q].file = fcb[q].file /\ fcb'[q].eof = fcb[q].eof
        BY <2>5, <4>1
      <4> QED
        BY <1>3, <1>9, <2>1, <4>1, <4>2, <4>3 DEF Measured
    <3> QED
      BY <3>1, <3>2
  <2>9. FidsOpen'
    <3> SUFFICES ASSUME NEW q \in Indexed'
                 PROVE  fid'[q].at = ForkOf(q)' /\
                        fid'[q].mode = IF fcb'[q].write THEN "RDWR" ELSE "RDONLY"
      BY DEF FidsOpen
    <3>1. CASE q = r
      BY <2>4, <2>5, <2>6, <3>1
    <3>2. CASE q # r
      BY <2>5, <2>6, <3>2 DEF Invariant, FidsOpen
    <3> QED
      BY <3>1, <3>2
  <2> QED
    BY <2>5, <2>7, <2>8, <2>9 DEF Invariant
<1> QED
  BY <1>10, <1>11, <1>12

-----------------------------------------------------------------------------
(* fsDelete, fsCreate, and the host *)

(* FCBs and fids stay; so do the lengths of forks that are open, unless     *)
(* they are known to have grown.                                            *)
LEMMA SizesMoved ==
  ASSUME Invariant, fcb' = fcb, fid' = fid, size' \in [Fork -> Absent .. MaxSize],
         grown' \subseteq Fork,
         \A r \in Indexed : Measured(r)'
  PROVE  Invariant'
<1>1. Indexed' = Indexed
  BY DEF Indexed
<1>2. SameForks
  BY <1>1 DEF SameForks
<1>3. Rings'
  BY <1>2, RingsKept DEF Invariant
<1>4. FidsOpen'
  BY <1>2, FidsKept DEF Invariant
<1>5. Lengths'
  BY <1>1 DEF Lengths
<1> QED
  BY <1>3, <1>4, <1>5 DEF Invariant, TypeOK

LEMMA FsDeleteStep ==
  ASSUME Invariant, NEW f \in File, FsDelete(f)
  PROVE  Invariant'
<1>1. /\ fcb' = fcb /\ fid' = fid /\ grown' = grown /\ \A r \in Indexed : fcb[r].file # f
      /\ size' = [k \in Fork |-> IF k[1] = f THEN Absent ELSE size[k]]
  BY DEF FsDelete, Busy
<1>2. size' \in [Fork -> Absent .. MaxSize] /\ grown \subseteq Fork
  BY <1>1, ForksAssumption DEF Invariant, TypeOK, Absent
<1>3. ASSUME NEW r \in Indexed PROVE Measured(r)'
  <2>1. /\ ForkOf(r) \in Fork /\ <<fcb[r].file, Data>> \in Fork /\ ForkOf(r)[1] = fcb[r].file
        /\ <<fcb[r].file, Data>>[1] = fcb[r].file
    BY MembersAreOpen DEF Fork, ForkOf
  <2>2. size'[ForkOf(r)] = size[ForkOf(r)] /\ size'[<<fcb[r].file, Data>>] = size[<<fcb[r].file, Data>>]
    BY <1>1, <2>1
  <2>3. ForkOf(r)' = ForkOf(r)
    BY <1>1 DEF ForkOf
  <2> QED
    BY <1>1, <2>2, <2>3 DEF Invariant, Lengths, Measured
<1> QED
  BY <1>1, <1>2, <1>3, SizesMoved

LEMMA FsCreateStep ==
  ASSUME Invariant, NEW f \in File, FsCreate(f)
  PROVE  Invariant'
<1>1. /\ fcb' = fcb /\ fid' = fid /\ grown' = grown \ {<<f, Data>>, <<f, Rsrc>>}
      /\ size[<<f, Data>>] = Absent /\ size' = [size EXCEPT ![<<f, Data>>] = 0]
  BY DEF FsCreate
<1>2. size' \in [Fork -> Absent .. MaxSize] /\ grown' \subseteq Fork
      /\ size \in [Fork -> Absent .. MaxSize]
  <2>1. size \in [Fork -> Absent .. MaxSize] /\ grown \subseteq Fork
    BY DEF Invariant, TypeOK
  <2>2. 0 \in Absent .. MaxSize
    BY ForksAssumption DEF Absent
  <2> QED
    BY <1>1, <2>1, <2>2
<1>3. ASSUME NEW r \in Indexed PROVE Measured(r)'
  <2>1. Measured(r) /\ ForkOf(r) \in Fork /\ <<fcb[r].file, Data>> \in Fork
    BY MembersAreOpen DEF Fork, Invariant, Lengths
  <2>2. fcb[r].file # f
    BY <1>1, <2>1 DEF Measured
  <2>3. /\ ForkOf(r) \notin {<<f, Data>>, <<f, Rsrc>>} /\ <<fcb[r].file, Data>> # <<f, Data>>
        /\ ForkOf(r)' = ForkOf(r)
    BY <1>1, <2>2 DEF ForkOf
  <2>4. size'[ForkOf(r)] = size[ForkOf(r)] /\ size'[<<fcb[r].file, Data>>] = size[<<fcb[r].file, Data>>]
    BY <1>1, <1>2, <2>1, <2>3
  <2> QED
    BY <1>1, <2>1, <2>3, <2>4 DEF Measured
<1> QED
  BY <1>1, <1>2, <1>3, SizesMoved

LEMMA HostGrowsStep ==
  ASSUME Invariant, NEW k \in Shared, HostGrows(k)
  PROVE  Invariant'
<1>1. /\ fcb' = fcb /\ fid' = fid /\ grown' = grown \union {k}
      /\ size[k] \in 0 .. MaxSize - 1 /\ size' = [size EXCEPT ![k] = size[k] + 1]
  BY DEF HostGrows
<1>2. k \in Fork /\ size \in [Fork -> Absent .. MaxSize] /\ grown \subseteq Fork
  BY WantedAssumption DEF Invariant, TypeOK
<1>3. size' \in [Fork -> Absent .. MaxSize] /\ grown' \subseteq Fork
  BY <1>1, <1>2, ForksAssumption DEF Absent
<1>4. ASSUME NEW r \in Indexed PROVE Measured(r)'
  <2>1. /\ Measured(r) /\ ForkOf(r) \in Fork /\ <<fcb[r].file, Data>> \in Fork
        /\ fcb[r].eof \in Int
    BY MembersAreOpen DEF Fork, Invariant, Lengths, Fcb
  <2>2. ForkOf(r)' = ForkOf(r)
    BY <1>1 DEF ForkOf
  <2>3. \A j \in Fork : size'[j] = IF j = k THEN size[k] + 1 ELSE size[j]
    BY <1>1, <1>2
  <2>4. size[k] + 1 # Absent
    BY <1>1, ForksAssumption DEF Absent
  <2>5. fcb[r].eof <= size'[ForkOf(r)]
    BY <1>1, <2>1, <2>3, ForksAssumption DEF Measured
  <2>6. ForkOf(r) \notin grown' => fcb[r].eof = size'[ForkOf(r)]
    BY <1>1, <2>1, <2>3 DEF Measured
  <2> QED
    BY <1>1, <2>1, <2>2, <2>3, <2>4, <2>5, <2>6 DEF Measured
<1> QED
  BY <1>1, <1>3, <1>4, SizesMoved

LEMMA InvariantStep == Invariant /\ [Next]_vars => Invariant'
<1> SUFFICES ASSUME Invariant, [Next]_vars PROVE Invariant'
  OBVIOUS
<1>1. ASSUME NEW k \in Wanted, NEW perm \in {"read", "any"},
             NEW grants \in {"none", "RDONLY", "RDWR"}, FsOpen(k, perm, grants)
      PROVE  Invariant'
  BY <1>1, FsOpenStep
<1>2. ASSUME NEW r \in Indexed, NEW len \in 0 .. MaxSize, FsSetEOF(r, len) PROVE Invariant'
  BY <1>2, FsSetEOFStep
<1>3. ASSUME NEW r \in Indexed, FsClose(r) PROVE Invariant'
  BY <1>3, FsCloseStep
<1>4. ASSUME NEW r \in Refnum, OtherCloses(r) PROVE Invariant'
  BY <1>4, OtherClosesStep
<1>5. ASSUME NEW r \in Indexed, NEW call \in Calls, NEW seek \in Seeks,
             NEW req \in Asked(call), NEW offset \in Given(seek, call),
             FsReadWrite(call, r, seek, offset, req)
      PROVE  Invariant'
  BY <1>5, FsReadWriteStep
<1>6. ASSUME NEW f \in File, FsDelete(f) PROVE Invariant'
  BY <1>6, FsDeleteStep
<1>7. ASSUME NEW f \in File, FsCreate(f) PROVE Invariant'
  BY <1>7, FsCreateStep
<1>8. ASSUME NEW f \in File, OtherOpens(f) PROVE Invariant'
  BY <1>8, OtherOpensStep
<1>9. ASSUME NEW k \in Shared, HostGrows(k) PROVE Invariant'
  BY <1>9, HostGrowsStep
<1>10. CASE UNCHANGED vars
  <2>1. fcb' = fcb /\ fid' = fid /\ size' = size /\ grown' = grown
    BY <1>10 DEF vars
  <2>2. TypeOK' /\ Indexed' = Indexed
    BY <2>1 DEF Invariant, TypeOK, Indexed
  <2> QED
    BY <2>1, <2>2, NothingOpened
<1> QED
  BY <1>1, <1>2, <1>3, <1>4, <1>5, <1>6, <1>7, <1>8, <1>9, <1>10, Zenon DEF Next, Calls, Seeks

LEMMA InvariantHolds == Spec => []Invariant
<1>1. Init => Invariant
  BY InvariantInit
<1>2. Invariant /\ [Next]_vars => Invariant'
  BY InvariantStep
<1> QED
  BY <1>1, <1>2, PTL DEF Spec

-----------------------------------------------------------------------------
(* The theorems *)

(* fsOpen and fsClose, between openings and closings by other file systems, *)
(* keep fcb9Link leading round the open FCBs of each fork, so that the loops*)
(* of fsSetEOF, fsReadWrite and fsClose end and reach all of them.          *)
THEOREM RingsAlwaysInOrder == Spec => []RingsInOrder
<1>1. Invariant => RingsInOrder
  <2> SUFFICES ASSUME Invariant PROVE TypeOK /\ RingsAreForks
    BY DEF RingsInOrder
  <2>1. ASSUME NEW r \in Indexed PROVE Ring(r) = Fellows(r, ForkOf(r)) \union {r}
    <3>1. Members(ForkOf(r)) = Fellows(r, ForkOf(r)) \union {r}
      BY DEF Members, Fellows
    <3> QED
      BY <3>1, MembersAreOpen
  <2> QED
    BY <2>1 DEF Invariant, RingsAreForks
<1> QED
  BY <1>1, InvariantHolds, PTL

(* The lengths that fsSetEOF and fsReadWrite spread over a ring are those   *)
(* of the host, as fsGetFileInfo asks for them.                             *)
THEOREM EofAlwaysTrue == Spec => []EofTrue
<1>1. Invariant => EofTrue
  <2> SUFFICES ASSUME Invariant, NEW r \in Indexed
               PROVE  LET info == SetFilePBInfo(fcb[r].file)
                          length == IF fcb[r].rsrc THEN info.rLgLen ELSE info.lgLen
                      IN  /\ GetEOF(r) <= length
                          /\ ForkOf(r) \notin grown => GetEOF(r) = length
    BY DEF EofTrue
  <2> DEFINE info == SetFilePBInfo(fcb[r].file)
             length == IF fcb[r].rsrc THEN info.rLgLen ELSE info.lgLen
  <2>1. Measured(r) /\ ForkOf(r) \in Fork /\ fcb[r] \in Fcb
    BY MembersAreOpen DEF Invariant, Lengths
  <2>2. size[ForkOf(r)] \in Absent .. MaxSize
    BY <2>1 DEF Invariant, TypeOK
  <2>3. size[ForkOf(r)] \in Nat
    BY <2>1, <2>2, ForksAssumption DEF Measured, Absent
  <2>4. length = Getattr9(ForkOf(r))
    <3>1. info.lgLen = Getattr9(<<fcb[r].file, Data>>) /\ info.rLgLen = Getattr9(<<fcb[r].file, Rsrc>>)
      BY DEF SetFilePBInfo
    <3> QED
      BY <3>1 DEF ForkOf
  <2>5. Getattr9(ForkOf(r)) = size[ForkOf(r)]
    BY <2>3, MaxOfTwo DEF Getattr9
  <2> HIDE DEF length
  <2>6. GetEOF(r) <= length /\ (ForkOf(r) \notin grown => GetEOF(r) = length)
    BY <2>1, <2>4, <2>5 DEF Measured, GetEOF
  <2> QED
    BY <2>6 DEF length
<1> QED
  BY <1>1, InvariantHolds, PTL

(* Fid 32 + refnum is on the fork of the FCB that fsOpen has filled in, in  *)
(* the mode it was granted, and fsDelete and fsGetFileInfo find that FCB.   *)
THEOREM ForksAlwaysReachable == Spec => []ForksReachable
<1>1. Invariant => ForksReachable
  <2> SUFFICES ASSUME Invariant, NEW r \in Indexed
               PROVE  /\ fid[r].at = ForkOf(r) /\ size[ForkOf(r)] # Absent
                      /\ fid[r].mode = IF fcb[r].write THEN "RDWR" ELSE "RDONLY"
                      /\ LET info == SetFilePBInfo(fcb[r].file)
                         IN  /\ Busy(fcb[r].file)
                             /\ (IF fcb[r].rsrc THEN info.rsrcOpen ELSE info.dataOpen)
                             /\ info.refNum >= r /\ fcb[info.refNum].file = fcb[r].file
    BY DEF ForksReachable
  <2> DEFINE own == {q \in Indexed : fcb[q].file = fcb[r].file}
             info == SetFilePBInfo(fcb[r].file)
  <2>1. Measured(r) /\ r \in own /\ r \in Refnum /\ Busy(fcb[r].file)
    BY MembersAreOpen DEF Invariant, Lengths, Busy
  <2>2. Max(own \union {0}) \in own \union {0} /\ Max(own \union {0}) >= r
    <3>1. own \in SUBSET Refnum /\ IsFiniteSet(Refnum) /\ Refnum \in SUBSET Nat
      BY ForksAssumption DEF Indexed
    <3> HIDE DEF own
    <3>2. IsFiniteSet(own \union {0})
      BY <3>1, FS_Subset, FS_AddElement
    <3>3. own \union {0} \in SUBSET Nat /\ own \union {0} # {}
      BY <3>1
    <3> QED
      BY <2>1, <3>2, <3>3, MaxOfFinite
  <2>3. r > 0
    BY <2>1, ForksAssumption
  <2>4. info.refNum = Max(own \union {0})
    BY DEF SetFilePBInfo
  <2>5. info.refNum \in own /\ info.refNum >= r
    <3> HIDE DEF info, own
    <3> QED
      BY <2>1, <2>2, <2>3, <2>4, ForksAssumption
  <2>6. IF fcb[r].rsrc THEN info.rsrcOpen ELSE info.dataOpen
    BY <2>1 DEF SetFilePBInfo
  <2> QED
    BY <2>1, <2>5, <2>6 DEF Measured, Invariant, FidsOpen
<1> QED
  BY <1>1, InvariantHolds, PTL

=============================================================================
