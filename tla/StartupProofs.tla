---------------------------- MODULE StartupProofs ---------------------------
(***************************************************************************)
(* Theorems about Startup and Patches for every number of drivers, of      *)
(* other software's patches, of directories and of WDCBs.                  *)
(*                                                                         *)
(* A patch is put on top of the others and leaves from the top only.  So   *)
(* the patches that are left are a stack; it is described here without a   *)
(* sequence, by what is closed under block->original.                      *)
(***************************************************************************)
EXTENDS Startup, FiniteSetTheorems, SequenceTheorems, WellFoundedInduction, TLAPS

-----------------------------------------------------------------------------
(* Stacks *)

ClosedUnder(S, L, o) == \A p \in S \intersect L : o[p] \in S

(* From v, o leads through all of L to Original.                            *)
Stack(v, L, o) ==
  /\ v \in L \union {Original}
  /\ \A p \in L : o[p] \in L \union {Original} /\ o[p] # v
  /\ \A p, q \in L : o[p] = o[q] => p = q
  /\ \A S \in SUBSET (L \union {Original}) :
       v \in S /\ ClosedUnder(S, L, o) => S = L \union {Original}

(* o leads from a to p.                                                     *)
Reaches(a, p, L, o) ==
  \A S \in SUBSET (L \union {Original}) : a \in S /\ ClosedUnder(S, L, o) => p \in S

LEMMA EmptyStack == ASSUME NEW o PROVE Stack(Original, {}, o)
BY DEF Stack, ClosedUnder

LEMMA StackKept ==
  ASSUME NEW v, NEW L, NEW o, Stack(v, L, o), NEW n, \A p \in L : n[p] = o[p]
  PROVE  Stack(v, L, n)
<1>1. \A S : ClosedUnder(S, L, n) <=> ClosedUnder(S, L, o)
  BY DEF ClosedUnder
<1> QED
  BY <1>1 DEF Stack

LEMMA StackPushed ==
  ASSUME NEW v, NEW L, NEW o, Stack(v, L, o), NEW p, p \notin L, p # Original,
         NEW n, n[p] = v, \A q \in L : n[q] = o[q]
  PROVE  Stack(p, L \union {p}, n)
<1> DEFINE M == L \union {p}
<1>1. p \in M \union {Original}
  OBVIOUS
<1>2. \A q \in M : n[q] \in M \union {Original} /\ n[q] # p
  BY DEF Stack
<1>3. \A q, r \in M : n[q] = n[r] => q = r
  BY DEF Stack
<1>4. ASSUME NEW S \in SUBSET (M \union {Original}), p \in S, ClosedUnder(S, M, n)
      PROVE  S = M \union {Original}
  <2> DEFINE T == S \ {p}
  <2>1. T \in SUBSET (L \union {Original}) /\ v \in T
    BY <1>4 DEF ClosedUnder, Stack
  <2>2. ASSUME NEW q \in T \intersect L PROVE o[q] \in T
    BY <1>4, <2>2 DEF ClosedUnder, Stack
  <2>3. T = L \union {Original}
    BY <2>1, <2>2 DEF Stack, ClosedUnder
  <2> QED
    BY <1>4, <2>3
<1> QED
  BY <1>1, <1>2, <1>3, <1>4 DEF Stack

LEMMA StackPopped ==
  ASSUME NEW v, NEW L, NEW o, Stack(v, L, o), v \in L, Original \notin L
  PROVE  Stack(o[v], L \ {v}, o)
<1> DEFINE M == L \ {v}
<1>1. o[v] \in M \union {Original}
  BY DEF Stack
<1>2. \A q \in M : o[q] \in M \union {Original} /\ o[q] # o[v]
  BY DEF Stack
<1>3. \A q, r \in M : o[q] = o[r] => q = r
  BY DEF Stack
<1>4. ASSUME NEW S \in SUBSET (M \union {Original}), o[v] \in S, ClosedUnder(S, M, o)
      PROVE  S = M \union {Original}
  <2> DEFINE T == S \union {v}
  <2>1. T \in SUBSET (L \union {Original}) /\ v \in T /\ v \notin S
    BY <1>4
  <2>2. ASSUME NEW q \in T \intersect L PROVE o[q] \in T
    BY <1>4, <2>2 DEF ClosedUnder
  <2>3. T = L \union {Original}
    BY <2>1, <2>2 DEF Stack, ClosedUnder
  <2> QED
    BY <2>1, <2>3
<1> QED
  BY <1>1, <1>2, <1>3, <1>4 DEF Stack

LEMMA TopReaches ==
  ASSUME NEW v, NEW L, NEW o, Stack(v, L, o), NEW p \in L
  PROVE  Reaches(v, p, L, o)
BY DEF Stack, Reaches

LEMMA ReachedIsNotTop ==
  ASSUME NEW v, NEW L, NEW o, Stack(v, L, o), NEW a \in L, NEW p \in L, a # p,
         Reaches(a, p, L, o)
  PROVE  p # v
<1> SUFFICES ASSUME p = v PROVE FALSE
  OBVIOUS
<1> DEFINE S == (L \union {Original}) \ {p}
<1>1. S \in SUBSET (L \union {Original}) /\ a \in S
  OBVIOUS
<1>2. ClosedUnder(S, L, o)
  BY DEF ClosedUnder, Stack
<1> QED
  BY <1>1, <1>2 DEF Reaches

LEMMA ReachKept ==
  ASSUME NEW L, NEW o, NEW a, NEW p, Reaches(a, p, L, o), NEW n, \A q \in L : n[q] = o[q]
  PROVE  Reaches(a, p, L, n)
<1>1. \A S : ClosedUnder(S, L, n) <=> ClosedUnder(S, L, o)
  BY DEF ClosedUnder
<1> QED
  BY <1>1 DEF Reaches

LEMMA ReachPushed ==
  ASSUME NEW v, NEW L, NEW o, Stack(v, L, o), NEW r, r \notin L, r # Original,
         NEW n, \A q \in L : n[q] = o[q],
         NEW a \in L, NEW p \in L, Reaches(a, p, L, o)
  PROVE  Reaches(a, p, L \union {r}, n)
<1> DEFINE M == L \union {r}
<1> SUFFICES ASSUME NEW S \in SUBSET (M \union {Original}), a \in S, ClosedUnder(S, M, n)
             PROVE  p \in S
  BY DEF Reaches
<1> DEFINE T == S \ {r}
<1>1. T \in SUBSET (L \union {Original}) /\ a \in T
  OBVIOUS
<1>2. ASSUME NEW q \in T \intersect L PROVE o[q] \in T
  BY <1>2 DEF ClosedUnder, Stack
<1>3. p \in T
  BY <1>1, <1>2 DEF Reaches, ClosedUnder
<1> QED
  BY <1>3

LEMMA ReachPopped ==
  ASSUME NEW v, NEW L, NEW o, Stack(v, L, o), v \in L, NEW a \in L, a # v, NEW p \in L,
         Reaches(a, p, L, o)
  PROVE  Reaches(a, p, L \ {v}, o)
<1> DEFINE M == L \ {v}
<1> SUFFICES ASSUME NEW S \in SUBSET (M \union {Original}), a \in S, ClosedUnder(S, M, o)
             PROVE  p \in S
  BY DEF Reaches
<1> DEFINE T == S \ {v}
<1>1. T \in SUBSET (L \union {Original}) /\ a \in T
  OBVIOUS
<1>2. ASSUME NEW q \in T \intersect L PROVE o[q] \in T
  BY <1>2 DEF ClosedUnder, Stack
<1>3. p \in T
  BY <1>1, <1>2 DEF Reaches, ClosedUnder
<1> QED
  BY <1>3

-----------------------------------------------------------------------------
(* Chain passes the whole stack *)

Less == {p \in Nat \X Nat : p[1] < p[2]}

(* What is shown of a walk holds of the least number of steps for which it  *)
(* did not, if there were one.                                              *)
LEMMA LeastExists ==
  ASSUME NEW S \in SUBSET Nat, S # {}
  PROVE  \E x \in S : \A y \in S : x <= y
<1>1. IsWellFoundedOn(Less, Nat)
  BY NatLessThanWellFounded DEF OpToRel, Less
<1>2. PICK x \in S : \A y \in S : ~(<<y, x>> \in Less)
  BY <1>1, WFMin, Zenon
<1>3. \A y \in S : ~(y < x)
  BY <1>2 DEF Less
<1> QED
  BY <1>3

Follow(r) == IF r = Original THEN Original ELSE original[r]

(* The first k jumps of a call that no patch stops.                         *)
Walk(link, k) == link = [n \in 0 .. k |-> IF n = 0 THEN vector ELSE Follow(link[n - 1])]

LEMMA WalksExist == ASSUME NEW k \in Nat PROVE \E link : Walk(link, k)
<1> DEFINE bad == {j \in Nat : ~\E link : Walk(link, j)}
<1>1. SUFFICES ASSUME bad # {} PROVE FALSE
  OBVIOUS
<1>2. PICK j \in bad : \A i \in bad : j <= i
  BY <1>1, LeastExists
<1>3. CASE j = 0
  <2>1. Walk([n \in 0 .. 0 |-> vector], 0)
    BY DEF Walk
  <2> QED
    BY <2>1, <1>2, <1>3
<1>4. CASE j > 0
  <2>1. j - 1 \in Nat /\ j - 1 \notin bad
    <3>1. j \in Nat
      BY <1>2
    <3> HIDE DEF bad
    <3> QED
      BY <1>2, <1>4, <3>1
  <2>2. PICK link : Walk(link, j - 1)
    BY <2>1
  <2> DEFINE longer == [n \in 0 .. j |-> IF n = j THEN Follow(link[j - 1]) ELSE link[n]]
  <2>3. ASSUME NEW n \in 0 .. j
        PROVE  longer[n] = IF n = 0 THEN vector ELSE Follow(longer[n - 1])
    <3>1. CASE n = j
      BY <3>1, <1>4
    <3>2. CASE n # j
      <4>1. n \in 0 .. j - 1 /\ longer[n] = link[n] /\ (n # 0 => longer[n - 1] = link[n - 1])
        BY <3>2
      <4>2. link[n] = IF n = 0 THEN vector ELSE Follow(link[n - 1])
        BY <2>2, <4>1 DEF Walk
      <4> QED
        BY <4>1, <4>2
    <3> QED
      BY <3>1, <3>2
  <2> HIDE DEF longer
  <2>4. longer = [n \in 0 .. j |-> longer[n]]
    BY DEF longer
  <2>5. Walk(longer, j)
    BY <2>3, <2>4 DEF Walk
  <2> QED
    BY <2>5, <1>2
<1> QED
  BY <1>2, <1>3, <1>4

LEMMA ChainWalked ==
  \E link : Chain = {link[n] : n \in 0 .. Cardinality(Patch)} /\ Walk(link, Cardinality(Patch))
<1> DEFINE N == Cardinality(Patch)
           link == CHOOSE f : Walk(f, N)
<1>1. N \in Nat
  BY PatchesAssumption, FS_CardinalityType DEF Patch
<1> HIDE DEF N
<1>2. Walk(link, N)
  BY <1>1, WalksExist
<1>3. Chain = {link[n] : n \in 0 .. N}
  BY DEF Chain, N, Walk, Follow
<1> QED
  BY <1>2, <1>3 DEF N

(* The walk does not leave the stack.  If it comes to Original, what it has *)
(* met is closed; if it does not, it has come to a patch twice, and what it *)
(* met before is closed without Original, which a stack does not allow.     *)
LEMMA ChainIsStack ==
  ASSUME NEW L \in SUBSET Patch, Stack(vector, L, original)
  PROVE  Chain = L \union {Original}
<1> DEFINE N == Cardinality(Patch)
<1>1. N \in Nat /\ IsFiniteSet(Patch) /\ Original \notin L
  BY PatchesAssumption, FS_CardinalityType DEF Patch
<1>2. PICK link : /\ Chain = {link[n] : n \in 0 .. N}
                  /\ link[0] = vector
                  /\ \A n \in 1 .. N : link[n] = Follow(link[n - 1])
  <2>1. PICK link : Chain = {link[n] : n \in 0 .. N} /\ Walk(link, N)
    BY ChainWalked
  <2> HIDE DEF N
  <2>2. link[0] = vector /\ \A n \in 1 .. N : link[n] = Follow(link[n - 1])
    BY <1>1, <2>1 DEF Walk
  <2> QED
    BY <2>1, <2>2
<1> HIDE DEF N
<1>3. \A n \in 0 .. N : link[n] \in L \union {Original}
  <2> DEFINE bad == {n \in 0 .. N : link[n] \notin L \union {Original}}
  <2>1. SUFFICES ASSUME bad # {} PROVE FALSE
    OBVIOUS
  <2>2. bad \in SUBSET Nat
    OBVIOUS
  <2>3. PICK n \in bad : \A i \in bad : n <= i
    BY <2>1, <2>2, LeastExists
  <2>4. n # 0
    BY <1>2 DEF Stack
  <2>5. n - 1 \in 0 .. N /\ n - 1 \notin bad /\ n \in 1 .. N
    <3>1. n \in 0 .. N
      BY <2>3
    <3> HIDE DEF bad
    <3> QED
      BY <1>1, <2>3, <2>4, <3>1
  <2>6. link[n - 1] \in L \union {Original} /\ link[n] = Follow(link[n - 1])
    BY <2>5, <1>2
  <2>7. link[n] \in L \union {Original}
    BY <2>6 DEF Stack, Follow
  <2> QED
    BY <2>7
<1>4. ASSUME NEW j \in 0 .. N, NEW n \in 0 .. j - 1, link[n] \in L
      PROVE  n + 1 \in 0 .. j /\ original[link[n]] = link[n + 1]
  <2>1. n + 1 \in 0 .. j /\ n + 1 \in 1 .. N /\ n + 1 - 1 = n
    BY <1>1
  <2> QED
    BY <1>1, <1>2, <1>4, <2>1 DEF Follow
<1>5. CASE \E j \in 0 .. N : link[j] = Original
  <2>1. PICK j \in 0 .. N : link[j] = Original
    BY <1>5
  <2> DEFINE S == {link[n] : n \in 0 .. j}
  <2>2. S \in SUBSET (L \union {Original}) /\ link[0] \in S
    BY <1>1, <1>3
  <2>3. ASSUME NEW p \in S \intersect L PROVE original[p] \in S
    <3>1. PICK n \in 0 .. j : p = link[n]
      BY <2>3
    <3>2. n # j
      BY <1>1, <2>1, <3>1
    <3>3. n \in 0 .. j - 1
      BY <3>2
    <3> QED
      BY <1>4, <3>1, <3>3
  <2>4. S = L \union {Original}
    BY <1>2, <2>2, <2>3 DEF Stack, ClosedUnder
  <2>5. S \subseteq Chain /\ Chain \subseteq L \union {Original}
    BY <1>1, <1>2, <1>3
  <2> QED
    BY <2>4, <2>5
<1>6. CASE \A j \in 0 .. N : link[j] # Original
  <2>1. PICK i \in 0 .. N, j \in 0 .. N : i < j /\ link[i] = link[j]
    <3> DEFINE f == [n \in 0 .. N |-> link[n]]
    <3>1. f \in [0 .. N -> Patch]
      BY <1>3, <1>6
    <3>2. IsFiniteSet(0 .. N) /\ Cardinality(0 .. N) = N + 1
      BY <1>1, FS_Interval
    <3>3. Cardinality(Patch) < Cardinality(0 .. N)
      BY <1>1, <3>2 DEF N
    <3> HIDE DEF f
    <3>4. PICK x \in 0 .. N, y \in 0 .. N : x # y /\ f[x] = f[y]
      BY <1>1, <3>1, <3>2, <3>3, FS_PigeonHole
    <3>5. link[x] = link[y]
      BY <3>4 DEF f
    <3>6. x < y \/ y < x
      BY <3>4
    <3> QED
      BY <3>5, <3>6
  <2> DEFINE S == {link[n] : n \in 0 .. j - 1}
  <2>2. S \in SUBSET (L \union {Original}) /\ link[0] \in S /\ Original \notin S
    BY <1>1, <1>3, <1>6, <2>1
  <2>3. ASSUME NEW p \in S \intersect L PROVE original[p] \in S
    <3>1. PICK n \in 0 .. j - 1 : p = link[n]
      BY <2>3
    <3>2. n + 1 \in 0 .. j /\ original[p] = link[n + 1]
      BY <1>4, <2>3, <3>1
    <3>3. CASE n + 1 = j
      BY <2>1, <3>2, <3>3
    <3>4. CASE n + 1 # j
      <4>1. n + 1 \in 0 .. j - 1
        BY <3>2, <3>4
      <4> QED
        BY <3>2, <4>1
    <3> QED
      BY <3>3, <3>4
  <2>4. S = L \union {Original}
    BY <1>2, <2>2, <2>3 DEF Stack, ClosedUnder
  <2> QED
    BY <2>2, <2>4
<1> QED
  BY <1>5, <1>6

-----------------------------------------------------------------------------
(* Patches: the invariant *)

Live == {p \in Patch : code[p] \in {"whole", "thunk"}}

(* Another's patch lies over p, and stays.                                  *)
Covered(p) == \E a \in Alien \intersect Live : Reaches(a, p, Live, original)

Structure ==
  /\ vector \in Routine /\ original \in [Patch -> Routine]
  /\ code \in [Patch -> {"absent", "whole", "thunk", "freed"}]
  /\ Stack(vector, Live, original)
  /\ \A a \in Alien : code[a] \in {"absent", "whole"}
  /\ \A p \in Driver : code[p] = "thunk" => Covered(p)

MachineTypes ==
  /\ at \in Routine \X {"start", "behind", "hook", "uninstall", "resting"}
  /\ returns \in Seq(Driver) /\ osCall \in BOOLEAN
  /\ reached \in Nat /\ hooked \in [Driver -> Nat]

(* A call is in a patch that is there.  A whole patch comes to its end only *)
(* in the registration of 'os  '; only thunks are returned to.              *)
CallInPatches ==
  /\ at[1] \in Live \union {Original}
  /\ at[2] = "resting" => at[1] = Original
  /\ at[2] \in {"behind", "hook", "uninstall"} => at[1] \in Driver
  /\ at[2] = "behind" => code[at[1]] = "thunk"
  /\ at[2] \in {"hook", "uninstall"} /\ code[at[1]] = "whole" => osCall = TRUE
  /\ \A i \in DOMAIN returns : code[returns[i]] = "thunk"

(* The registration begins at the top and takes away the drivers' patches   *)
(* that it finds there: it leaves the top behind only if it is another's.   *)
TopFirst ==
  at[2] # "resting" /\ osCall = TRUE => vector \in Alien \union {Original} \/ at[1] = vector

Once ==
  (\A p \in Driver : code[p] # "thunk") =>
    /\ \A p \in Driver : hooked[p] = IF code[p] = "freed" \/ at = <<p, "uninstall">> THEN 1 ELSE 0
    /\ reached = IF at[2] = "resting" THEN 1 ELSE 0

PatchInv == Structure /\ MachineTypes /\ CallInPatches /\ TopFirst /\ Once

LEMMA RoutinesDiffer ==
  Original \notin Patch /\ Driver \intersect Alien = {} /\ Driver \in SUBSET Patch
  /\ Alien \in SUBSET Patch /\ Patch = Driver \union Alien /\ Routine = Patch \union {Original}
BY PatchesAssumption DEF Patch, Routine

LEMMA ThunkIsNotTop ==
  ASSUME Structure, NEW p \in Driver, code[p] = "thunk"
  PROVE  p # vector /\ p \in Live
<1>1. p \in Live
  BY RoutinesDiffer DEF Live
<1>2. PICK a \in Alien \intersect Live : Reaches(a, p, Live, original)
  BY DEF Structure, Covered
<1>3. a # p
  BY RoutinesDiffer
<1> QED
  BY <1>1, <1>2, <1>3, ReachedIsNotTop DEF Structure

LEMMA StructureKept ==
  ASSUME Structure, vector' = vector, original' = original, code' = code
  PROVE  Structure' /\ Live' = Live
<1>1. Live' = Live
  BY DEF Live
<1> QED
  BY <1>1 DEF Structure, Covered

LEMMA PatchInit == PatchesInit => PatchInv
<1> SUFFICES ASSUME PatchesInit PROVE PatchInv
  OBVIOUS
<1>1. Live = {} /\ vector = Original /\ code = [p \in Patch |-> "absent"]
  BY DEF PatchesInit, Live
<1>2. Structure
  BY <1>1, EmptyStack, RoutinesDiffer DEF PatchesInit, Structure
<1>3. at = <<Original, "resting">> /\ returns = <<>> /\ osCall = FALSE /\ reached = 1
      /\ hooked = [p \in Driver |-> 0]
  BY DEF PatchesInit, Resting
<1>4. MachineTypes
  BY <1>3, EmptySeq, RoutinesDiffer DEF MachineTypes
<1>5. CallInPatches /\ TopFirst
  BY <1>3 DEF CallInPatches, TopFirst
<1>6. Once
  BY <1>1, <1>3, RoutinesDiffer DEF Once
<1> QED
  BY <1>2, <1>4, <1>5, <1>6 DEF PatchInv

LEMMA PatchPut ==
  ASSUME PatchInv, NEW p \in Patch, Patch68k(p)
  PROVE  PatchInv'
<1>1. /\ at = <<Original, "resting">> /\ code[p] = "absent"
      /\ original' = [original EXCEPT ![p] = vector] /\ code' = [code EXCEPT ![p] = "whole"]
      /\ vector' = p
  BY DEF Patch68k, Resting
<1>2. at' = at /\ returns' = returns /\ osCall' = osCall /\ reached' = reached /\ hooked' = hooked
  BY DEF Patch68k, machine
<1>3. /\ vector \in Routine /\ original \in [Patch -> Routine]
      /\ code \in [Patch -> {"absent", "whole", "thunk", "freed"}]
      /\ Stack(vector, Live, original)
  BY DEF PatchInv, Structure
<1>4. /\ p \notin Live /\ p # Original /\ Live' = Live \union {p}
      /\ original'[p] = vector /\ \A q \in Live : original'[q] = original[q]
      /\ Live \in SUBSET Patch
  BY <1>1, <1>3, RoutinesDiffer DEF Live
<1>5. Stack(vector', Live', original')
  BY <1>1, <1>3, <1>4, StackPushed
<1>6. ASSUME NEW q \in Driver, code'[q] = "thunk" PROVE Covered(q)'
  <2>1. code[q] = "thunk" /\ q \in Live
    BY <1>1, <1>3, <1>6, RoutinesDiffer DEF Live
  <2>2. PICK a \in Alien \intersect Live : Reaches(a, q, Live, original)
    BY <2>1 DEF PatchInv, Structure, Covered
  <2>3. Reaches(a, q, Live', original')
    BY <1>3, <1>4, <2>1, <2>2, ReachPushed
  <2> QED
    BY <1>4, <2>2, <2>3 DEF Covered
<1>7. Structure'
  <2>1. \A a \in Alien : code'[a] \in {"absent", "whole"}
    BY <1>1, <1>3, RoutinesDiffer DEF PatchInv, Structure
  <2>2. vector' \in Routine /\ original' \in [Patch -> Routine]
        /\ code' \in [Patch -> {"absent", "whole", "thunk", "freed"}]
    BY <1>1, <1>3, RoutinesDiffer
  <2> QED
    BY <1>5, <1>6, <2>1, <2>2 DEF Structure
<1>8. MachineTypes'
  BY <1>2 DEF PatchInv, MachineTypes
<1>9. CallInPatches'
  <2>1. \A i \in DOMAIN returns : code'[returns[i]] = "thunk"
    <3> SUFFICES ASSUME NEW i \in DOMAIN returns PROVE code'[returns[i]] = "thunk"
      OBVIOUS
    <3>1. code[returns[i]] = "thunk" /\ returns[i] \in Driver
      BY DEF PatchInv, CallInPatches, MachineTypes
    <3> QED
      BY <1>1, <1>3, <3>1, RoutinesDiffer
  <2> QED
    BY <1>1, <1>2, <2>1 DEF CallInPatches
<1>10. TopFirst'
  BY <1>1, <1>2 DEF TopFirst
<1>11. Once'
  <2> SUFFICES ASSUME \A q \in Driver : code'[q] # "thunk"
               PROVE  /\ \A q \in Driver : hooked[q] = IF code'[q] = "freed" \/ at = <<q, "uninstall">>
                                                       THEN 1 ELSE 0
                      /\ reached = 1
    BY <1>1, <1>2 DEF Once
  <2>1. \A q \in Driver : code[q] # "thunk" /\ (code'[q] = "freed" <=> code[q] = "freed")
    BY <1>1, <1>3, RoutinesDiffer
  <2> QED
    BY <1>1, <2>1 DEF PatchInv, Once
<1> QED
  BY <1>7, <1>8, <1>9, <1>10, <1>11 DEF PatchInv

LEMMA PatchesKept ==
  ASSUME PatchInv, UNCHANGED patchVars
  PROVE  PatchInv'
<1>1. /\ vector' = vector /\ original' = original /\ code' = code /\ at' = at
      /\ returns' = returns /\ osCall' = osCall /\ reached' = reached /\ hooked' = hooked
  BY DEF patchVars, machine
<1>2. Structure' /\ Live' = Live
  BY <1>1, StructureKept DEF PatchInv
<1> QED
  BY <1>1, <1>2 DEF PatchInv, MachineTypes, CallInPatches, TopFirst, Once

-----------------------------------------------------------------------------
(* Patches: the steps of a call *)

Machine == MachineTypes /\ CallInPatches /\ TopFirst /\ Once

LEMMA MinOfTwo ==
  ASSUME NEW a \in Int, NEW b \in Int
  PROVE  Min({a, b}) = IF a <= b THEN a ELSE b
<1>1. \E x \in {a, b} : \A y \in {a, b} : x <= y
  OBVIOUS
<1>2. Min({a, b}) \in {a, b} /\ \A y \in {a, b} : Min({a, b}) <= y
  BY <1>1 DEF Min
<1> QED
  BY <1>2

LEMMA CallStarts ==
  ASSUME PatchInv, NEW registers \in BOOLEAN, GestaltCalled(registers)
  PROVE  PatchInv'
<1>1. /\ vector' = vector /\ original' = original /\ code' = code /\ returns' = returns
      /\ hooked' = hooked /\ at' = <<vector, "start">> /\ osCall' = registers /\ reached' = 0
      /\ at = <<Original, "resting">>
  BY DEF GestaltCalled, Resting
<1>2. Structure' /\ Live' = Live /\ vector \in Live \union {Original} /\ vector \in Routine
  BY <1>1, StructureKept DEF PatchInv, Structure, Stack
<1>3. MachineTypes'
  BY <1>1, <1>2 DEF PatchInv, MachineTypes
<1>4. CallInPatches'
  BY <1>1, <1>2 DEF PatchInv, CallInPatches
<1>5. TopFirst'
  BY <1>1 DEF TopFirst
<1>6. Once'
  BY <1>1 DEF PatchInv, Once
<1> QED
  BY <1>2, <1>3, <1>4, <1>5, <1>6 DEF PatchInv

LEMMA OriginalRuns ==
  ASSUME PatchInv, RunOriginal
  PROVE  PatchInv'
<1>1. /\ vector' = vector /\ original' = original /\ code' = code /\ hooked' = hooked
      /\ at = <<Original, "start">> /\ reached' = reached + 1
      /\ IF returns = <<>> THEN at' = <<Original, "resting">> /\ osCall' = FALSE /\ returns' = returns
         ELSE /\ at' = <<Last(returns), "behind">> /\ returns' = Front(returns)
              /\ osCall' = osCall
  BY DEF RunOriginal, Goto, Resting
<1>2. Structure' /\ Live' = Live
  BY <1>1, StructureKept DEF PatchInv
<1>3. CASE returns = <<>>
  <2>1. MachineTypes'
    <3>1. at' = <<Original, "resting">> /\ osCall' = FALSE /\ returns' = returns
      BY <1>1, <1>3
    <3>2. at' \in Routine \X {"start", "behind", "hook", "uninstall", "resting"}
      BY <3>1, RoutinesDiffer
    <3>3. reached' \in Nat
      BY <1>1 DEF PatchInv, MachineTypes
    <3> QED
      BY <1>1, <3>1, <3>2, <3>3 DEF PatchInv, MachineTypes
  <2>2. CallInPatches' /\ TopFirst'
    BY <1>1, <1>2, <1>3 DEF PatchInv, CallInPatches, TopFirst
  <2>3. Once'
    <3>1. \A p \in Driver : at # <<p, "uninstall">> /\ at' # <<p, "uninstall">>
      BY <1>1, <1>3
    <3>2. 0 + 1 = 1
      OBVIOUS
    <3> QED
      BY <1>1, <1>3, <3>1, <3>2 DEF PatchInv, Once
  <2> QED
    BY <1>2, <2>1, <2>2, <2>3 DEF PatchInv
<1>4. CASE returns # <<>>
  <2> DEFINE p == Last(returns)
  <2>1. returns \in Seq(Driver) /\ Len(returns) \in Nat /\ Len(returns) > 0
    BY <1>4, EmptySeq DEF PatchInv, MachineTypes
  <2>2. /\ Len(returns) \in DOMAIN returns /\ p = returns[Len(returns)] /\ p \in Driver
        /\ Front(returns) \in Seq(Driver)
        /\ \A i \in DOMAIN Front(returns) : i \in DOMAIN returns /\ Front(returns)[i] = returns[i]
    BY <2>1 DEF Last, Front
  <2>3. code[p] = "thunk" /\ p \in Live /\ p # vector
    BY <2>2, ThunkIsNotTop DEF PatchInv, CallInPatches
  <2>4. at' = <<p, "behind">> /\ returns' = Front(returns) /\ osCall' = osCall
    BY <1>1, <1>4
  <2> HIDE DEF p
  <2>5. MachineTypes'
    BY <1>1, <2>2, <2>4, RoutinesDiffer DEF PatchInv, MachineTypes
  <2>6. CallInPatches'
    BY <1>1, <1>2, <2>2, <2>3, <2>4 DEF PatchInv, CallInPatches
  <2>7. TopFirst'
    BY <1>1, <2>4, RoutinesDiffer DEF PatchInv, TopFirst
  <2>8. Once'
    BY <1>1, <2>2, <2>3 DEF Once
  <2> QED
    BY <1>2, <2>5, <2>6, <2>7, <2>8 DEF PatchInv
<1> QED
  BY <1>3, <1>4

(* From a patch that stays the call goes on to the one before it.           *)
LEMMA CallGoesOn ==
  ASSUME PatchInv, at[1] \in Live, at[2] # "resting", at' = <<original[at[1]], "start">>,
         osCall = TRUE => at[1] # vector \/ vector \in Alien,
         \/ returns' = returns
         \/ at[1] \in Driver /\ code[at[1]] = "thunk" /\ returns' = Append(returns, at[1]),
         \A p \in Driver : at # <<p, "uninstall">>,
         UNCHANGED <<vector, original, code, osCall, reached, hooked>>
  PROVE  PatchInv'
<1>1. Structure' /\ Live' = Live
  BY StructureKept DEF PatchInv
<1>2. original[at[1]] \in Live \union {Original} /\ original[at[1]] \in Routine
  BY RoutinesDiffer DEF PatchInv, Structure, Stack, Live
<1>3. MachineTypes'
  <2>1. returns \in Seq(Driver)
    BY DEF PatchInv, MachineTypes
  <2>2. at[1] \in Driver => Append(returns, at[1]) \in Seq(Driver)
    BY <2>1
  <2>3. returns' \in Seq(Driver)
    BY <2>1, <2>2
  <2>4. at' \in Routine \X {"start", "behind", "hook", "uninstall", "resting"}
    BY <1>2
  <2> QED
    BY <2>3, <2>4 DEF PatchInv, MachineTypes
<1>4. CallInPatches'
  <2>1. \A i \in DOMAIN returns' : code[returns'[i]] = "thunk"
    <3>1. \A i \in DOMAIN returns : code[returns[i]] = "thunk"
      BY DEF PatchInv, CallInPatches
    <3>2. returns \in Seq(Driver)
      BY DEF PatchInv, MachineTypes
    <3> QED
      BY <3>1, <3>2
  <2> QED
    BY <1>1, <1>2, <2>1 DEF PatchInv, CallInPatches
<1>5. TopFirst'
  BY DEF PatchInv, TopFirst
<1>6. Once'
  BY DEF PatchInv, Once
<1> QED
  BY <1>1, <1>3, <1>4, <1>5, <1>6 DEF PatchInv

LEMMA AlienRuns ==
  ASSUME PatchInv, RunAlien
  PROVE  PatchInv'
<1>1. /\ at[1] \in Alien /\ at' = <<original[at[1]], "start">>
      /\ UNCHANGED <<vector, original, code, returns, osCall, reached, hooked>>
  BY DEF RunAlien, Goto
<1>2. at[1] \in Live /\ at[2] # "resting" /\ \A p \in Driver : at # <<p, "uninstall">>
  BY <1>1, RoutinesDiffer DEF PatchInv, CallInPatches
<1> QED
  BY <1>1, <1>2, CallGoesOn

LEMMA PatchRuns ==
  ASSUME PatchInv, NEW p \in Driver, RunPatch(p)
  PROVE  PatchInv'
<1>1. /\ at = <<p, "start">> /\ code[p] = "whole"
      /\ at' = IF osCall THEN <<p, "hook">> ELSE <<original[p], "start">>
      /\ UNCHANGED <<vector, original, code, returns, osCall, reached, hooked>>
  BY DEF RunPatch, JmpOriginal
<1>2. p \in Live /\ p \in Routine
  BY <1>1, RoutinesDiffer DEF Live
<1>3. CASE osCall = FALSE
  BY <1>1, <1>2, <1>3, CallGoesOn
<1>4. CASE osCall = TRUE
  <2>1. at' = <<p, "hook">>
    BY <1>1, <1>4
  <2>2. Structure' /\ Live' = Live
    BY <1>1, StructureKept DEF PatchInv
  <2>3. MachineTypes'
    BY <1>1, <1>2, <2>1 DEF PatchInv, MachineTypes
  <2>4. CallInPatches'
    BY <1>1, <1>2, <1>4, <2>1, <2>2 DEF PatchInv, CallInPatches
  <2>5. TopFirst'
    BY <1>1, <2>1 DEF PatchInv, TopFirst
  <2>6. Once'
    BY <1>1, <2>1 DEF PatchInv, Once
  <2> QED
    BY <2>2, <2>3, <2>4, <2>5, <2>6 DEF PatchInv
<1>5. osCall \in BOOLEAN
  BY DEF PatchInv, MachineTypes
<1> QED
  BY <1>3, <1>4, <1>5

LEMMA ThunkRuns ==
  ASSUME PatchInv, NEW p \in Driver, RunThunk(p)
  PROVE  PatchInv'
<1>1. /\ at = <<p, "start">> /\ code[p] = "thunk" /\ at' = <<original[p], "start">>
      /\ returns' = Append(returns, p)
      /\ UNCHANGED <<vector, original, code, osCall, reached, hooked>>
  BY DEF RunThunk, Goto
<1>2. p \in Live /\ p # vector
  BY <1>1, ThunkIsNotTop DEF PatchInv
<1> QED
  BY <1>1, <1>2, CallGoesOn

LEMMA RestRuns ==
  ASSUME PatchInv, NEW p \in Driver, RunBehind(p)
  PROVE  PatchInv'
<1>1. /\ at = <<p, "behind">>
      /\ UNCHANGED <<vector, original, code, returns, osCall, reached, hooked>>
      /\ at' = <<p, "hook">> \/ at' = <<original[p], "start">>
  BY DEF RunBehind, Goto
<1>2. code[p] = "thunk"
  BY <1>1 DEF PatchInv, CallInPatches
<1>3. p \in Live /\ p # vector /\ p \in Routine
  BY <1>2, ThunkIsNotTop, RoutinesDiffer DEF PatchInv
<1>4. CASE at' = <<original[p], "start">>
  BY <1>1, <1>3, <1>4, CallGoesOn
<1>5. CASE at' = <<p, "hook">>
  <2>1. Structure' /\ Live' = Live
    BY <1>1, StructureKept DEF PatchInv
  <2>2. MachineTypes'
    BY <1>1, <1>3, <1>5 DEF PatchInv, MachineTypes
  <2>3. CallInPatches'
    BY <1>1, <1>2, <1>3, <1>5, <2>1 DEF PatchInv, CallInPatches
  <2>4. TopFirst'
    BY <1>1, <1>5 DEF PatchInv, TopFirst
  <2>5. Once'
    BY <1>1, <1>2 DEF Once
  <2> QED
    BY <2>1, <2>2, <2>3, <2>4, <2>5 DEF PatchInv
<1> QED
  BY <1>1, <1>4, <1>5

LEMMA HookRuns ==
  ASSUME PatchInv, NEW p \in Driver, RunHook(p)
  PROVE  PatchInv'
<1>1. /\ at = <<p, "hook">> /\ at' = <<p, "uninstall">>
      /\ hooked' = [hooked EXCEPT ![p] = Min({hooked[p] + 1, 2})]
      /\ UNCHANGED <<vector, original, code, returns, osCall, reached>>
  BY DEF RunHook, Goto
<1>2. Structure' /\ Live' = Live /\ p \in Routine
  BY <1>1, StructureKept, RoutinesDiffer DEF PatchInv
<1>3. hooked \in [Driver -> Nat]
  BY DEF PatchInv, MachineTypes
<1>4. Min({hooked[p] + 1, 2}) \in Nat /\ (hooked[p] = 0 => Min({hooked[p] + 1, 2}) = 1)
  <2>1. hooked[p] + 1 \in Int /\ hooked[p] \in Nat /\ 2 \in Int
    BY <1>3
  <2>2. Min({hooked[p] + 1, 2}) = IF hooked[p] + 1 <= 2 THEN hooked[p] + 1 ELSE 2
    BY <2>1, MinOfTwo
  <2> QED
    BY <2>1, <2>2
<1>5. MachineTypes'
  <2>1. hooked' \in [Driver -> Nat]
    BY <1>1, <1>3, <1>4
  <2> QED
    BY <1>1, <1>2, <2>1 DEF PatchInv, MachineTypes
<1>6. CallInPatches'
  BY <1>1, <1>2 DEF PatchInv, CallInPatches
<1>7. TopFirst'
  BY <1>1 DEF PatchInv, TopFirst
<1>8. Once'
  <2> SUFFICES ASSUME \A q \in Driver : code[q] # "thunk"
               PROVE  /\ \A q \in Driver : hooked'[q] = IF code[q] = "freed" \/ at' = <<q, "uninstall">>
                                                        THEN 1 ELSE 0
                      /\ reached = 0
    BY <1>1 DEF Once
  <2>1. /\ \A q \in Driver : hooked[q] = IF code[q] = "freed" THEN 1 ELSE 0
        /\ reached = 0
    BY <1>1 DEF PatchInv, Once
  <2>2. code[p] # "freed"
    BY <1>1, RoutinesDiffer DEF PatchInv, CallInPatches, Live
  <2>3. hooked'[p] = 1
    BY <1>1, <1>3, <1>4, <2>1, <2>2
  <2>4. \A q \in Driver \ {p} : hooked'[q] = hooked[q]
    BY <1>1, <1>3
  <2> QED
    BY <1>1, <2>1, <2>3, <2>4
<1> QED
  BY <1>2, <1>5, <1>6, <1>7, <1>8 DEF PatchInv

LEMMA PatchLeaves ==
  ASSUME PatchInv, NEW p \in Driver, Unpatch68k(p)
  PROVE  PatchInv'
<1>1. /\ at = <<p, "uninstall">> /\ at' = <<original[p], "start">>
      /\ UNCHANGED <<original, returns, osCall, reached, hooked>>
      /\ IF p = vector
         THEN vector' = original[p] /\ code' = [code EXCEPT ![p] = "freed"]
         ELSE vector' = vector /\ code' = [code EXCEPT ![p] = "thunk"]
  BY DEF Unpatch68k, Goto, OnTop, Overwritten
<1>2. /\ vector \in Routine /\ original \in [Patch -> Routine]
      /\ code \in [Patch -> {"absent", "whole", "thunk", "freed"}]
      /\ Stack(vector, Live, original)
      /\ p \in Live /\ p \in Patch /\ Live \in SUBSET Patch /\ Original \notin Live
      /\ code[p] \in {"whole", "thunk"}
  BY <1>1, RoutinesDiffer DEF PatchInv, Structure, CallInPatches, Live
<1>3. original[p] \in (Live \ {p}) \union {Original} \/ p # vector
  BY <1>2 DEF Stack
<1>4. original[p] \in Live \union {Original} /\ original[p] \in Routine
  BY <1>2, RoutinesDiffer DEF Stack
<1>5. ASSUME NEW i \in DOMAIN returns
      PROVE  returns[i] \in Driver /\ code[returns[i]] = "thunk" /\ code'[returns[i]] = "thunk"
  <2>1. code[returns[i]] = "thunk" /\ returns[i] \in Driver
    BY DEF PatchInv, CallInPatches, MachineTypes
  <2>2. returns[i] # vector
    BY <2>1, ThunkIsNotTop DEF PatchInv
  <2> QED
    BY <1>1, <1>2, <2>1, <2>2, RoutinesDiffer
<1>6. \A a \in Alien : code'[a] = code[a] /\ code[a] \in {"absent", "whole"}
  BY <1>1, <1>2, RoutinesDiffer DEF PatchInv, Structure
<1>7. MachineTypes'
  <2>1. at' \in Routine \X {"start", "behind", "hook", "uninstall", "resting"}
    BY <1>1, <1>4
  <2> QED
    BY <1>1, <2>1 DEF PatchInv, MachineTypes
<1>8. CASE p = vector
  <2>1. vector' = original[p] /\ code' = [code EXCEPT ![p] = "freed"] /\ original' = original
    BY <1>1, <1>8
  <2>2. Live' = Live \ {p}
    BY <1>2, <2>1 DEF Live
  <2>3. Stack(vector', Live', original')
    BY <1>2, <1>8, <2>1, <2>2, StackPopped
  <2>4. ASSUME NEW q \in Driver, code'[q] = "thunk" PROVE Covered(q)'
    <3>1. code[q] = "thunk" /\ q \in Live
      BY <1>2, <2>1, <2>4, RoutinesDiffer DEF Live
    <3>2. PICK a \in Alien \intersect Live : Reaches(a, q, Live, original)
      BY <3>1 DEF PatchInv, Structure, Covered
    <3>3. a # vector
      BY <1>8, RoutinesDiffer
    <3>4. Reaches(a, q, Live', original')
      BY <1>2, <1>8, <2>1, <2>2, <3>1, <3>2, <3>3, ReachPopped
    <3> QED
      BY <1>8, <2>2, <3>2, <3>3, <3>4 DEF Covered
  <2>5. Structure'
    <3>1. vector' \in Routine /\ original' \in [Patch -> Routine]
          /\ code' \in [Patch -> {"absent", "whole", "thunk", "freed"}]
      BY <1>2, <1>4, <2>1
    <3> QED
      BY <1>6, <2>3, <2>4, <3>1 DEF Structure
  <2>6. CallInPatches'
    <3>1. original[p] \in Live' \union {Original}
      BY <1>3, <1>8, <2>2
    <3> QED
      BY <1>1, <1>5, <3>1 DEF CallInPatches
  <2>7. TopFirst'
    BY <1>1, <2>1 DEF TopFirst
  <2>8. Once'
    <3> SUFFICES ASSUME \A q \in Driver : code'[q] # "thunk"
                 PROVE  /\ \A q \in Driver : hooked[q] = IF code'[q] = "freed" \/ at' = <<q, "uninstall">>
                                                         THEN 1 ELSE 0
                        /\ reached = 0
      BY <1>1 DEF Once
    <3>1. code[p] # "thunk"
      BY <1>8, ThunkIsNotTop DEF PatchInv
    <3>2. \A q \in Driver \ {p} : code'[q] = code[q]
      BY <1>2, <2>1, RoutinesDiffer
    <3>3. \A q \in Driver : code[q] # "thunk"
      BY <3>1, <3>2
    <3>4. /\ \A q \in Driver : hooked[q] = IF code[q] = "freed" \/ at = <<q, "uninstall">> THEN 1 ELSE 0
          /\ reached = 0
      BY <1>1, <3>3 DEF PatchInv, Once
    <3>5. code'[p] = "freed"
      BY <1>2, <2>1
    <3> QED
      BY <1>1, <3>2, <3>4, <3>5
  <2> QED
    BY <1>7, <2>5, <2>6, <2>7, <2>8 DEF PatchInv
<1>9. CASE p # vector
  <2>1. vector' = vector /\ code' = [code EXCEPT ![p] = "thunk"] /\ original' = original
    BY <1>1, <1>9
  <2>2. Live' = Live
    BY <1>2, <2>1 DEF Live
  <2>3. Stack(vector', Live', original')
    BY <1>2, <2>1, <2>2
  <2>4. ASSUME NEW q \in Driver, code'[q] = "thunk" PROVE Covered(q)'
    <3>1. CASE code[q] = "thunk"
      BY <2>1, <2>2, <3>1 DEF PatchInv, Structure, Covered
    <3>2. CASE code[q] # "thunk"
      <4>1. q = p /\ code[p] = "whole"
        BY <1>2, <2>1, <2>4, <3>2, RoutinesDiffer
      <4>2. osCall = TRUE
        BY <1>1, <4>1 DEF PatchInv, CallInPatches
      <4>3. vector \in Alien \union {Original}
        BY <1>1, <1>9, <4>2 DEF PatchInv, TopFirst
      <4>4. vector # Original
        <5> SUFFICES ASSUME vector = Original PROVE FALSE
          OBVIOUS
        <5>1. ClosedUnder({Original}, Live, original)
          BY <1>2 DEF ClosedUnder
        <5>2. {Original} = Live \union {Original}
          BY <1>2, <5>1 DEF Stack
        <5> QED
          BY <1>2, <5>2
      <4>5. vector \in Alien \intersect Live
        BY <1>2, <4>3, <4>4 DEF Stack
      <4>6. Reaches(vector, p, Live, original)
        BY <1>2, TopReaches
      <4> QED
        BY <2>1, <2>2, <4>1, <4>5, <4>6 DEF Covered
    <3> QED
      BY <3>1, <3>2
  <2>5. Structure'
    <3>1. code' \in [Patch -> {"absent", "whole", "thunk", "freed"}]
      BY <1>2, <2>1
    <3> QED
      BY <1>2, <1>6, <2>1, <2>3, <2>4, <3>1 DEF Structure
  <2>6. CallInPatches'
    BY <1>1, <1>4, <1>5, <2>2 DEF CallInPatches
  <2>7. TopFirst'
    BY <1>1, <1>9, <2>1 DEF PatchInv, TopFirst
  <2>8. Once'
    <3>1. code'[p] = "thunk"
      BY <1>2, <2>1
    <3> QED
      BY <3>1 DEF Once
  <2> QED
    BY <1>7, <2>5, <2>6, <2>7, <2>8 DEF PatchInv
<1> QED
  BY <1>8, <1>9

-----------------------------------------------------------------------------
(* Drives and volumes: the queues *)

Drive == [num : Nat, owner : Driver \union {Else}, ours : BOOLEAN]
Volume == [ref : Int, owner : Driver \union {Else}]

Has(queue, o) == \E n \in DOMAIN queue : queue[n].owner = o

(* A drive shows the drivers' FSID until its volume is mounted; no owner    *)
(* has two drives, or a volume without a drive.                             *)
InOrder(ds, vs) ==
  /\ ds \in Seq(Drive) /\ vs \in Seq(Volume)
  /\ \A m, n \in DOMAIN ds : m # n => ds[m].owner # ds[n].owner /\ ds[m].num # ds[n].num
  /\ \A m, n \in DOMAIN vs : m # n => vs[m].owner # vs[n].owner /\ vs[m].ref # vs[n].ref
  /\ \A n \in DOMAIN ds : ds[n].ours = TRUE <=> (ds[n].owner \in Driver /\ ~Has(vs, ds[n].owner))
  /\ \A n \in DOMAIN vs : Has(ds, vs[n].owner)

LEMMA Appended ==
  ASSUME NEW T, NEW s \in Seq(T), NEW x \in T
  PROVE  /\ Append(s, x) \in Seq(T)
         /\ DOMAIN Append(s, x) = DOMAIN s \union {Len(s) + 1}
         /\ Len(s) + 1 \notin DOMAIN s
         /\ Append(s, x)[Len(s) + 1] = x
         /\ \A i \in DOMAIN s : Append(s, x)[i] = s[i]
OBVIOUS

(* n values leave one of more than n numbers free.                          *)
LEMMA FreshExists ==
  ASSUME NEW n \in Nat, NEW g, NEW T, IsFiniteSet(T), Cardinality(T) > n
  PROVE  \E t \in T : \A i \in 1 .. n : g[i] # t
<1> SUFFICES ASSUME \A t \in T : \E i \in 1 .. n : g[i] = t PROVE FALSE
  OBVIOUS
<1> DEFINE f == [t \in T |-> CHOOSE i \in 1 .. n : g[i] = t]
<1>1. \A t \in T : f[t] \in 1 .. n /\ g[f[t]] = t
  OBVIOUS
<1>2. f \in [T -> 1 .. n]
  BY <1>1
<1> HIDE DEF f
<1>3. IsFiniteSet(1 .. n) /\ Cardinality(1 .. n) = n
  BY FS_Interval
<1>4. Cardinality(1 .. n) < Cardinality(T)
  BY <1>3, FS_CardinalityType
<1>5. PICK x \in T, y \in T : x # y /\ f[x] = f[y]
  BY <1>2, <1>3, <1>4, FS_PigeonHole
<1> QED
  BY <1>1, <1>5

LEMMA IntervalSize ==
  ASSUME NEW a \in Int, NEW b \in Int, a <= b
  PROVE  IsFiniteSet(a .. b) /\ Cardinality(a .. b) = b - a + 1
BY FS_Interval

LEMMA NumberIsNew ==
  ASSUME drives \in Seq(Drive), Len(drives) < MaxDrives
  PROVE  NewDriveNumber \in Nat /\ NewDriveNumber \notin Numbers
<1> DEFINE T == 8 .. 8 + MaxDrives
           free == {n \in T : n \notin Numbers}
           g == [i \in DOMAIN drives |-> drives[i].num]
<1>1. Len(drives) \in Nat /\ MaxDrives \in Nat /\ DOMAIN drives = 1 .. Len(drives)
  BY StartupAssumption
<1>2. IsFiniteSet(T) /\ Cardinality(T) = MaxDrives + 1
  <2> DEFINE last == 8 + MaxDrives
  <2>1. last \in Int /\ 8 <= last /\ last - 8 + 1 = MaxDrives + 1
    BY <1>1
  <2> HIDE DEF last
  <2>2. IsFiniteSet(8 .. last) /\ Cardinality(8 .. last) = last - 8 + 1
    BY <2>1, IntervalSize
  <2> QED
    BY <2>1, <2>2 DEF last
<1>3. \E t \in T : \A i \in 1 .. Len(drives) : g[i] # t
  <2>1. Cardinality(T) > Len(drives)
    BY <1>1, <1>2
  <2> HIDE DEF T, g
  <2> QED
    BY <1>1, <1>2, <2>1, FreshExists
<1>4. T \in SUBSET Nat
  BY <1>1
<1> HIDE DEF T
<1>5. free # {} /\ free \in SUBSET Nat
  BY <1>1, <1>3, <1>4 DEF Numbers
<1> HIDE DEF free
<1>6. \E x \in free : \A y \in free : x <= y
  BY <1>5, LeastExists
<1>7. Min(free) \in free
  BY <1>6 DEF Min
<1>8. NewDriveNumber = Min(free)
  BY DEF NewDriveNumber, free, T
<1> QED
  BY <1>5, <1>7, <1>8 DEF free

LEMMA VRefIsNew ==
  ASSUME vcbs \in Seq(Volume)
  PROVE  NewVRefNum \in Int /\ NewVRefNum \notin VRefNums
<1> DEFINE T == -(Len(vcbs) + 1) .. -1
           free == {v \in T : v \notin VRefNums}
           g == [i \in DOMAIN vcbs |-> vcbs[i].ref]
           flip == {0 - v : v \in free}
<1>1. Len(vcbs) \in Nat /\ DOMAIN vcbs = 1 .. Len(vcbs)
  OBVIOUS
<1>2. IsFiniteSet(T) /\ Cardinality(T) = Len(vcbs) + 1
  <2>1. /\ -(Len(vcbs) + 1) \in Int /\ -1 \in Int /\ -(Len(vcbs) + 1) <= -1
        /\ -1 - (-(Len(vcbs) + 1)) + 1 = Len(vcbs) + 1
    BY <1>1
  <2> QED
    BY <2>1, IntervalSize
<1>3. \E t \in T : \A i \in 1 .. Len(vcbs) : g[i] # t
  <2>1. Cardinality(T) > Len(vcbs)
    BY <1>1, <1>2
  <2> HIDE DEF T, g
  <2> QED
    BY <1>1, <1>2, <2>1, FreshExists
<1>4. \A v \in T : v \in Int /\ v < 0
  BY <1>1
<1> HIDE DEF T
<1>5. free # {} /\ \A v \in free : v \in Int /\ v < 0
  BY <1>1, <1>3, <1>4 DEF VRefNums
<1>6. flip # {} /\ flip \in SUBSET Nat
  <2> HIDE DEF free
  <2> QED
    BY <1>5
<1>7. \E x \in flip : \A y \in flip : x <= y
  <2> HIDE DEF flip
  <2> QED
    BY <1>6, LeastExists
<1>8. \E x \in free : \A y \in free : x >= y
  <2> HIDE DEF free
  <2>1. PICK v \in free : \A y \in flip : 0 - v <= y
    BY <1>7
  <2>2. ASSUME NEW y \in free PROVE v >= y
    <3>1. 0 - y \in flip /\ v \in Int /\ y \in Int
      BY <1>5, <2>1
    <3>2. 0 - v <= 0 - y
      BY <2>1, <3>1
    <3> QED
      BY <3>1, <3>2
  <2> QED
    BY <2>1, <2>2
<1>9. Max(free) \in free
  <2> HIDE DEF free
  <2> QED
    BY <1>8 DEF Max
<1>10. NewVRefNum = Max(free)
  BY DEF NewVRefNum, T
<1> QED
  BY <1>5, <1>9, <1>10

LEMMA DriveAppended ==
  ASSUME NEW ds, NEW vs, InOrder(ds, vs), NEW x \in Drive,
         \A n \in DOMAIN ds : ds[n].num # x.num, ~Has(ds, x.owner),
         x.ours = TRUE <=> x.owner \in Driver
  PROVE  /\ InOrder(Append(ds, x), vs)
         /\ \A o : Has(Append(ds, x), o) <=> Has(ds, o) \/ o = x.owner
<1> DEFINE es == Append(ds, x)
           k == Len(ds) + 1
<1>1. /\ es \in Seq(Drive) /\ DOMAIN es = DOMAIN ds \union {k} /\ k \notin DOMAIN ds
      /\ es[k] = x /\ \A i \in DOMAIN ds : es[i] = ds[i]
  BY Appended DEF InOrder
<1> HIDE DEF es, k
<1>2. \A o : Has(es, o) <=> Has(ds, o) \/ o = x.owner
  BY <1>1 DEF Has
<1>3. ~Has(vs, x.owner)
  BY DEF InOrder, Has
<1>4. \A n \in DOMAIN ds : ds[n].owner # x.owner /\ ds[n].num # x.num
  BY DEF Has
<1>5. \A m, n \in DOMAIN es : m # n => es[m].owner # es[n].owner /\ es[m].num # es[n].num
  BY <1>1, <1>4 DEF InOrder
<1>6. \A n \in DOMAIN es : es[n].ours = TRUE <=> (es[n].owner \in Driver /\ ~Has(vs, es[n].owner))
  BY <1>1, <1>3 DEF InOrder
<1>7. \A n \in DOMAIN vs : Has(es, vs[n].owner)
  BY <1>2 DEF InOrder
<1>8. InOrder(es, vs)
  BY <1>1, <1>5, <1>6, <1>7 DEF InOrder
<1> QED
  BY <1>2, <1>8 DEF es

(* The drives but for o's, which shows the drivers' FSID no more.           *)
TakenFrom(ds, o, es) ==
  /\ es \in Seq(Drive) /\ DOMAIN es = DOMAIN ds
  /\ \A n \in DOMAIN ds :
       /\ es[n].owner = ds[n].owner /\ es[n].num = ds[n].num
       /\ es[n].ours = IF ds[n].owner = o THEN FALSE ELSE ds[n].ours

LEMMA VolumeAppended ==
  ASSUME NEW ds, NEW vs, InOrder(ds, vs), NEW x \in Volume,
         \A n \in DOMAIN vs : vs[n].ref # x.ref, Has(ds, x.owner), ~Has(vs, x.owner),
         NEW es, TakenFrom(ds, x.owner, es)
  PROVE  /\ InOrder(es, Append(vs, x))
         /\ \A o : Has(es, o) <=> Has(ds, o)
         /\ \A o : Has(Append(vs, x), o) <=> Has(vs, o) \/ o = x.owner
<1> DEFINE ws == Append(vs, x)
           k == Len(vs) + 1
<1>1. /\ ws \in Seq(Volume) /\ DOMAIN ws = DOMAIN vs \union {k} /\ k \notin DOMAIN vs
      /\ ws[k] = x /\ \A i \in DOMAIN vs : ws[i] = vs[i]
  BY Appended DEF InOrder
<1> HIDE DEF ws, k
<1>2. \A o : Has(ws, o) <=> Has(vs, o) \/ o = x.owner
  BY <1>1 DEF Has
<1>0. /\ es \in Seq(Drive) /\ DOMAIN es = DOMAIN ds
      /\ \A n \in DOMAIN ds :
           /\ es[n].owner = ds[n].owner /\ es[n].num = ds[n].num
           /\ es[n].ours = IF ds[n].owner = x.owner THEN FALSE ELSE ds[n].ours
  BY DEF TakenFrom
<1>3. \A o : Has(es, o) <=> Has(ds, o)
  BY <1>0 DEF Has
<1>4. \A n \in DOMAIN vs : vs[n].owner # x.owner /\ vs[n].ref # x.ref
  BY DEF Has
<1>5. \A m, n \in DOMAIN ws : m # n => ws[m].owner # ws[n].owner /\ ws[m].ref # ws[n].ref
  BY <1>1, <1>4 DEF InOrder
<1>6. \A n \in DOMAIN es : es[n].ours = TRUE <=> (es[n].owner \in Driver /\ ~Has(ws, es[n].owner))
  <2> SUFFICES ASSUME NEW n \in DOMAIN ds
               PROVE es[n].ours = TRUE <=> (ds[n].owner \in Driver /\ ~Has(ws, ds[n].owner))
    BY <1>0
  <2>1. ds[n].ours = TRUE <=> (ds[n].owner \in Driver /\ ~Has(vs, ds[n].owner))
    BY DEF InOrder
  <2>2. Has(ws, ds[n].owner) <=> (Has(vs, ds[n].owner) \/ ds[n].owner = x.owner)
    BY <1>2
  <2> QED
    BY <1>0, <2>1, <2>2
<1>7. \A n \in DOMAIN ws : Has(es, ws[n].owner)
  BY <1>1, <1>3 DEF InOrder
<1>8. \A m, n \in DOMAIN es : m # n => es[m].owner # es[n].owner /\ es[m].num # es[n].num
  <2> SUFFICES ASSUME NEW m \in DOMAIN ds, NEW n \in DOMAIN ds, m # n
               PROVE  es[m].owner # es[n].owner /\ es[m].num # es[n].num
    BY <1>0, Zenon
  <2>1. ds[m].owner # ds[n].owner /\ ds[m].num # ds[n].num
    BY DEF InOrder
  <2>2. /\ es[m].owner = ds[m].owner /\ es[m].num = ds[m].num
        /\ es[n].owner = ds[n].owner /\ es[n].num = ds[n].num
    BY <1>0, Zenon
  <2> QED
    BY <2>1, <2>2
<1>9. InOrder(es, ws)
  BY <1>0, <1>1, <1>5, <1>6, <1>7, <1>8 DEF InOrder
<1> QED
  BY <1>2, <1>3, <1>9 DEF ws

-----------------------------------------------------------------------------
(* Drives and volumes: the steps *)

Queues == InOrder(drives, vcbs)

(* The drives and volumes there are stay.                                   *)
Grown ==
  /\ Queues'
  /\ \A o : Has(drives, o) => Has(drives', o)
  /\ \A o : Has(vcbs, o) => Has(vcbs', o)

LEMMA QueuesKept == ASSUME Queues, drives' = drives, vcbs' = vcbs PROVE Grown
BY DEF Queues, Grown

LEMMA DriveAdded ==
  ASSUME Queues, NEW num \in Nat, num \notin Numbers, NEW o \in Driver \union {Else}, ~Added(o),
         NEW ours \in BOOLEAN, ours = TRUE <=> o \in Driver,
         drives' = Append(drives, [num |-> num, owner |-> o, ours |-> ours]), vcbs' = vcbs
  PROVE  Grown /\ Has(drives', o)
<1> DEFINE x == [num |-> num, owner |-> o, ours |-> ours]
<1>1. x \in Drive /\ x.num = num /\ x.owner = o /\ (x.ours = TRUE <=> x.owner \in Driver)
  BY DEF Drive
<1>2. drives' = Append(drives, x)
  OBVIOUS
<1> HIDE DEF x
<1>3. ~Has(drives, x.owner) /\ \A n \in DOMAIN drives : drives[n].num # x.num
  BY <1>1 DEF Added, Has, Numbers
<1>4. /\ InOrder(Append(drives, x), vcbs)
      /\ \A p : Has(Append(drives, x), p) <=> Has(drives, p) \/ p = x.owner
  BY <1>1, <1>3, DriveAppended DEF Queues
<1>5. Queues'
  BY <1>2, <1>4 DEF Queues
<1> QED
  BY <1>1, <1>2, <1>4, <1>5 DEF Grown

(* A volume without a drive that shows the drivers' FSID.                   *)
LEMMA OthersVolumeMounted ==
  ASSUME Queues, NEW o \in Driver \union {Else}, o \notin Driver, Added(o), ~Mounted(o),
         drives' = drives, vcbs' = Append(vcbs, [ref |-> NewVRefNum, owner |-> o])
  PROVE  Grown
<1> DEFINE x == [ref |-> NewVRefNum, owner |-> o]
<1>1. drives \in Seq(Drive) /\ vcbs \in Seq(Volume)
  BY DEF Queues, InOrder
<1>2. x \in Volume /\ x.ref = NewVRefNum /\ x.owner = o
  BY <1>1, VRefIsNew DEF Volume
<1>3. vcbs' = Append(vcbs, x)
  OBVIOUS
<1> HIDE DEF x
<1>4. /\ Has(drives, x.owner) /\ ~Has(vcbs, x.owner)
      /\ \A n \in DOMAIN vcbs : vcbs[n].ref # x.ref
  BY <1>1, <1>2, VRefIsNew DEF Added, Mounted, Has, VRefNums
<1>5. \A n \in DOMAIN drives : drives[n].owner = x.owner => drives[n].ours = FALSE
  <2>1. drives \in [1 .. Len(drives) -> Drive]
    BY <1>1
  <2>2. \A n \in DOMAIN drives : drives[n].ours \in BOOLEAN
    BY <2>1 DEF Drive
  <2> QED
    BY <1>2, <2>2 DEF Queues, InOrder
<1>6. \A n \in DOMAIN drives :
        drives[n].ours = IF drives[n].owner = x.owner THEN FALSE ELSE drives[n].ours
  BY <1>5, Zenon
<1>7. TakenFrom(drives, x.owner, drives)
  BY <1>1, <1>6, Zenon DEF TakenFrom
<1>8. /\ InOrder(drives, Append(vcbs, x))
      /\ \A p : Has(Append(vcbs, x), p) <=> Has(vcbs, p) \/ p = x.owner
  BY <1>2, <1>4, <1>7, VolumeAppended DEF Queues
<1> QED
  BY <1>3, <1>8 DEF Queues, Grown

(* Whoever asks for it: a drive with a volume to be mounted has it mounted. *)
LEMMA Mounts ==
  ASSUME Queues, NEW num, MountVol(num)
  PROVE  /\ Grown
         /\ \A n \in DOMAIN drives :
              extFS = TRUE /\ drives[n].num = num /\ drives[n].owner \in Driver =>
                Has(vcbs', drives[n].owner)
<1> DEFINE found == {n \in DOMAIN drives : drives[n].num = num}
           Mounting == extFS /\ found # {} /\ drives[Min(found)].ours
<1>1. drives \in Seq(Drive) /\ vcbs \in Seq(Volume) /\ DOMAIN drives \in SUBSET Nat
  BY DEF Queues, InOrder
<1>2. ASSUME NEW n \in found PROVE found = {n} /\ Min(found) = n
  <2>1. found = {n} /\ n \in Nat
    BY <1>1, <1>2 DEF Queues, InOrder
  <2> HIDE DEF found
  <2>2. \E y \in {n} : \A z \in {n} : y <= z
    BY <2>1
  <2>3. Min({n}) \in {n}
    BY <2>2 DEF Min
  <2> QED
    BY <2>1, <2>3
<1>3. CASE ~Mounting
  <2>1. drives' = drives /\ vcbs' = vcbs
    BY <1>3, Zenon DEF MountVol
  <2>2. Grown
    BY <2>1, QueuesKept
  <2>3. ASSUME NEW n \in DOMAIN drives, extFS = TRUE, drives[n].num = num, drives[n].owner \in Driver
        PROVE  Has(vcbs, drives[n].owner)
    <3>1. n \in found
      BY <2>3
    <3>2. found # {} /\ Min(found) = n
      BY <1>2, <3>1
    <3> HIDE DEF found
    <3>3. drives[n].ours # TRUE
      BY <1>3, <2>3, <3>2
    <3> QED
      BY <2>3, <3>3 DEF Queues, InOrder
  <2> QED
    BY <2>1, <2>2, <2>3
<1>4. CASE Mounting
  <2>1. PICK n \in found : TRUE
    BY <1>4
  <2>2. Min(found) = n /\ n \in DOMAIN drives /\ drives[n].num = num
    BY <1>2, <2>1
  <2>3. drives[n].ours = TRUE /\ fsMountVol(n)
    <3>1. IF Mounting THEN fsMountVol(Min(found)) ELSE UNCHANGED <<drives, vcbs, wdVars>>
      BY DEF MountVol
    <3> HIDE DEF found
    <3>2. drives[n] \in Drive
      BY <1>1, <2>2
    <3>3. drives[n].ours \in BOOLEAN
      BY <3>2 DEF Drive
    <3> QED
      BY <1>4, <2>2, <3>1, <3>3
  <2> HIDE DEF found, Mounting
  <2> DEFINE o == drives[n].owner
             x == [ref |-> NewVRefNum, owner |-> o]
  <2>4. vcbs' = Append(vcbs, x) /\ drives' = [drives EXCEPT ![n].ours = FALSE]
    BY <2>3 DEF fsMountVol, NoLongerOurs
  <2>5. drives[n] \in Drive /\ n \in 1 .. Len(drives)
    BY <1>1, <2>2
  <2>6. o \in Driver /\ ~Has(vcbs, o) /\ Has(drives, o) /\ o \in Driver \union {Else}
    BY <2>2, <2>3 DEF Queues, InOrder, Has
  <2>7. x \in Volume /\ x.ref = NewVRefNum /\ x.owner = o
    BY <1>1, <2>6, VRefIsNew DEF Volume
  <2>8. \A m \in DOMAIN vcbs : vcbs[m].ref # x.ref
    BY <1>1, <2>7, VRefIsNew DEF VRefNums
  <2>9. \A m \in DOMAIN drives : drives[m] \in Drive /\ (drives[m].owner = o <=> m = n)
    BY <1>1, <2>2 DEF Queues, InOrder
  <2> HIDE DEF x, o
  <2>10. drives' \in Seq(Drive) /\ DOMAIN drives' = DOMAIN drives
    <3>1. [drives[n] EXCEPT !.ours = FALSE] \in Drive
      BY <2>5 DEF Drive
    <3>2. drives' = [drives EXCEPT ![n] = [drives[n] EXCEPT !.ours = FALSE]]
      BY <2>4
    <3> QED
      BY <1>1, <2>5, <3>1, <3>2
  <2>11. \A m \in DOMAIN drives :
          /\ drives'[m].owner = drives[m].owner /\ drives'[m].num = drives[m].num
          /\ drives'[m].ours = IF drives[m].owner = o THEN FALSE ELSE drives[m].ours
    <3>1. drives'[n] = [drives[n] EXCEPT !.ours = FALSE]
      BY <2>4, <2>2
    <3>2. \A m \in DOMAIN drives \ {n} : drives'[m] = drives[m]
      BY <2>4
    <3>3. drives'[n].owner = drives[n].owner /\ drives'[n].num = drives[n].num /\ drives'[n].ours = FALSE
      BY <2>5, <3>1 DEF Drive
    <3> QED
      BY <2>9, <3>2, <3>3
  <2>12. TakenFrom(drives, x.owner, drives')
    BY <2>7, <2>10, <2>11, Zenon DEF TakenFrom
  <2>13. /\ InOrder(drives', Append(vcbs, x))
         /\ \A p : Has(drives', p) <=> Has(drives, p)
         /\ \A p : Has(Append(vcbs, x), p) <=> Has(vcbs, p) \/ p = x.owner
    BY <2>6, <2>7, <2>8, <2>12, VolumeAppended DEF Queues
  <2>14. Grown
    BY <2>4, <2>13 DEF Queues, Grown
  <2>15. \A m \in DOMAIN drives : drives[m].num = num => drives[m].owner = o
    BY <2>2, <2>9 DEF Queues, InOrder
  <2> QED
    BY <2>4, <2>7, <2>13, <2>14, <2>15
<1> QED
  BY <1>3, <1>4

-----------------------------------------------------------------------------
(* Working directories *)

(* The first two WDCBs are never opened, the others by drivers' volumes as  *)
(* what `held' says.                                                        *)
Dirs ==
  /\ DOMAIN wdcb = Slot /\ DOMAIN held = Slot
  /\ held[1] = Closed /\ wdcb[1] = current
  /\ \A s \in Slot : held[s] # Closed => wdcb[s] = held[s] /\ held[s].owner \in Driver

Boots ==
  /\ booting \in [driver : Driver \union {Else}, stage : {"no", "mount", "open", "set", "done"}]
  /\ booting.stage # "no" => booting.driver \in Driver

LEMMA SlotNumbers ==
  1 \in Slot /\ \A s \in 3 .. Slots : s \in Slot /\ s # 1 /\ s # 0 /\ s \in Nat
BY StartupAssumption DEF Slot

LEMMA DirsKept == ASSUME Dirs, UNCHANGED <<wdcb, current, held>> PROVE Dirs'
BY DEF Dirs

LEMMA DefaultSet ==
  ASSUME Dirs, NEW place, wdcb' = [wdcb EXCEPT ![1] = place], current' = place, held' = held
  PROVE  Dirs'
<1>1. DOMAIN wdcb' = Slot /\ wdcb'[1] = place /\ \A s \in Slot \ {1} : wdcb'[s] = wdcb[s]
  BY SlotNumbers DEF Dirs
<1> QED
  BY <1>1, SlotNumbers DEF Dirs

LEMMA SlotSet ==
  ASSUME Dirs, NEW s \in 3 .. Slots, NEW place, place = Closed \/ place.owner \in Driver,
         wdcb' = [wdcb EXCEPT ![s] = place], held' = [held EXCEPT ![s] = place], current' = current
  PROVE  Dirs'
<1>1. /\ DOMAIN wdcb' = Slot /\ wdcb'[s] = place /\ \A r \in Slot \ {s} : wdcb'[r] = wdcb[r]
      /\ DOMAIN held' = Slot /\ held'[s] = place /\ \A r \in Slot \ {s} : held'[r] = held[r]
  BY SlotNumbers DEF Dirs
<1> QED
  BY <1>1, SlotNumbers DEF Dirs

LEMMA OthersSlotSet ==
  ASSUME Dirs, NEW s \in 3 .. Slots, NEW place, held[s] = Closed,
         wdcb' = [wdcb EXCEPT ![s] = place], held' = held, current' = current
  PROVE  Dirs'
<1>1. DOMAIN wdcb' = Slot /\ \A r \in Slot \ {s} : wdcb'[r] = wdcb[r]
  BY SlotNumbers DEF Dirs
<1> QED
  BY <1>1, SlotNumbers DEF Dirs

LEMMA LeastUsable ==
  ASSUME NEW S \in SUBSET (3 .. Slots), S # {}
  PROVE  Min(S) \in 3 .. Slots
<1>1. S \in SUBSET Nat
  BY SlotNumbers
<1>2. \E x \in S : \A y \in S : x <= y
  BY <1>1, LeastExists
<1>3. Min(S) \in S
  BY <1>2 DEF Min
<1> QED
  BY <1>3

LEMMA WDOpened ==
  ASSUME Dirs, NEW d \in Driver, NEW dir, fsOpenWD(Place(d, dir)), current' = current
  PROVE  Dirs'
<1> DEFINE place == Place(d, dir)
           s == OpenedSlot(place)
           same == {t \in Usable : wdcb[t] = place}
           free == {t \in Usable : wdcb[t] = Closed}
<1>1. s = 0 \/ s \in 3 .. Slots
  <2>1. same \in SUBSET (3 .. Slots) /\ free \in SUBSET (3 .. Slots)
    BY DEF Usable
  <2>2. s = IF place.dir = RootDir THEN 0
            ELSE IF same # {} THEN Min(same) ELSE IF free # {} THEN Min(free) ELSE 0
    BY DEF OpenedSlot
  <2> HIDE DEF same, free, s
  <2> QED
    BY <2>1, <2>2, LeastUsable
<1>2. IF s = 0 THEN UNCHANGED <<wdcb, held>>
      ELSE wdcb' = [wdcb EXCEPT ![s] = place] /\ held' = [held EXCEPT ![s] = place]
  BY DEF fsOpenWD
<1>3. place.owner \in Driver
  BY DEF Place
<1> HIDE DEF s, place
<1>4. CASE s = 0
  BY <1>2, <1>4, DirsKept
<1>5. CASE s # 0
  BY <1>1, <1>2, <1>3, <1>5, SlotSet
<1> QED
  BY <1>4, <1>5

LEMMA WDClosed ==
  ASSUME Dirs, NEW s \in Slot, held[s].owner \in Driver, fsCloseWD(s),
         current' = current
  PROVE  Dirs'
<1>1. held[s] # Closed
  BY StartupAssumption DEF Closed, Place
<1>2. s # 1
  BY <1>1 DEF Dirs
<1>3. /\ DOMAIN wdcb' = Slot /\ wdcb'[s] = Closed /\ \A r \in Slot \ {s} : wdcb'[r] = wdcb[r]
      /\ DOMAIN held' = Slot /\ held'[s] = Closed /\ \A r \in Slot \ {s} : held'[r] = held[r]
  BY DEF Dirs, fsCloseWD
<1> QED
  BY <1>2, <1>3, SlotNumbers DEF Dirs

LEMMA BecameDefault ==
  ASSUME Dirs, NEW ref, NEW d, BecomesDefault(ref, d), held' = held
  PROVE  Dirs'
<1>1. CASE vcbs = <<>>
  <2>1. wdcb' = [wdcb EXCEPT ![1] = Place(d, RootDir)] /\ current' = Place(d, RootDir)
    BY <1>1, Zenon DEF BecomesDefault
  <2> QED
    BY <2>1, DefaultSet
<1>2. CASE vcbs # <<>>
  <2>1. UNCHANGED <<wdcb, current, held>>
    BY <1>2 DEF BecomesDefault
  <2> QED
    BY <2>1, DirsKept
<1> QED
  BY <1>1, <1>2

LEMMA MountsKeepDirs ==
  ASSUME Dirs, NEW num, MountVol(num)
  PROVE  Dirs'
<1>1. CASE UNCHANGED <<drives, vcbs, wdVars>>
  <2>1. UNCHANGED <<wdcb, current, held>>
    BY <1>1 DEF wdVars
  <2> QED
    BY <2>1, DirsKept
<1>2. ASSUME NEW n, fsMountVol(n) PROVE Dirs'
  <2>1. BecomesDefault(NewVRefNum, drives[n].owner) /\ held' = held
    BY <1>2, Zenon DEF fsMountVol
  <2> QED
    BY <2>1, BecameDefault
<1> QED
  BY <1>1, <1>2, Zenon DEF MountVol

LEMMA DirsStep ==
  ASSUME Dirs, Boots, Next
  PROVE  Dirs'
<1>1. CASE UNCHANGED wdVars
  <2>1. UNCHANGED <<wdcb, current, held>>
    BY <1>1 DEF wdVars
  <2> QED
    BY <2>1, DirsKept
<1>2. ASSUME NEW d \in Driver, lateBootHook(d) PROVE Dirs'
  BY <1>2, MountsKeepDirs, Zenon DEF lateBootHook
<1>3. ASSUME NEW num, DiskEvent(num) PROVE Dirs'
  <2>1. MountVol(num) \/ UNCHANGED wdVars
    BY <1>3 DEF DiskEvent
  <2> QED
    BY <1>1, <2>1, MountsKeepDirs
<1>4. CASE BootMounts
  BY <1>4, MountsKeepDirs, Zenon DEF BootMounts
<1>5. CASE BootOpensWD
  <2>1. booting.driver \in Driver /\ current' = current
    BY <1>5 DEF BootOpensWD, Boots
  <2>2. PICK folder \in Dir : fsOpenWD(Place(booting.driver, folder))
    BY <1>5, Zenon DEF BootOpensWD
  <2> QED
    BY <2>1, <2>2, WDOpened
<1>6. ASSUME NEW ref, NEW place, fsSetVol(ref, place), held' = held PROVE Dirs'
  BY <1>6, DefaultSet DEF fsSetVol
<1>7. CASE BootSetsVol
  <2>1. PICK s \in Slot : fsSetVol(WDRef(s), wdcb[s])
    BY <1>7, Zenon DEF BootSetsVol
  <2>2. held' = held
    BY <1>7 DEF BootSetsVol
  <2> QED
    BY <1>6, <2>1, <2>2
<1>8. CASE Program
  <2>1. ASSUME NEW d \in Driver, NEW dir, fsOpenWD(Place(d, dir)), UNCHANGED <<defVRefNum, current>>
        PROVE Dirs'
    BY <2>1, WDOpened
  <2>2. ASSUME NEW s \in Slot, held[s].owner \in Driver, fsCloseWD(s), UNCHANGED <<defVRefNum, current>>
        PROVE Dirs'
    BY <2>2, WDClosed
  <2> QED
    BY <1>6, <1>8, <2>1, <2>2, Zenon DEF Program
<1>9. CASE ElseMounts
  <2>1. BecomesDefault(NewVRefNum, Else) /\ held' = held
    BY <1>9 DEF ElseMounts
  <2> QED
    BY <2>1, BecameDefault
<1>10. CASE ElseOpensWD
  <2>1. /\ held' = held /\ current' = current
        /\ \E s \in 3 .. Slots :
             \/ wdcb[s] = Closed /\ wdcb' = [wdcb EXCEPT ![s] = Place(Else, RootDir)]
             \/ wdcb[s].owner = Else /\ wdcb' = [wdcb EXCEPT ![s] = Closed]
    BY <1>10 DEF ElseOpensWD
  <2>2. PICK s \in 3 .. Slots :
          \/ wdcb[s] = Closed /\ wdcb' = [wdcb EXCEPT ![s] = Place(Else, RootDir)]
          \/ wdcb[s].owner = Else /\ wdcb' = [wdcb EXCEPT ![s] = Closed]
    BY <2>1
  <2>3. held[s] = Closed
    BY <2>2, SlotNumbers, StartupAssumption DEF Dirs
  <2> QED
    BY <2>1, <2>2, <2>3, OthersSlotSet
<1>11. ASSUME NEW d \in Driver, initialize(d) \/ BootFrom(d) PROVE Dirs'
  <2>1. UNCHANGED wdVars
    BY <1>11, Zenon DEF initialize, BootFrom
  <2> QED
    BY <1>1, <2>1
<1>12. CASE InitFS \/ AfterInitFS \/ ElseDrive \/ Gestalt \/ (\E p \in Alien : PatchedOver(p))
            \/ (CallProceeds /\ UNCHANGED <<fmVars, wdVars>>)
  <2>1. UNCHANGED wdVars
    BY <1>12, Zenon DEF InitFS, AfterInitFS, ElseDrive, Gestalt, PatchedOver
  <2> QED
    BY <1>1, <2>1
<1> QED
  BY <1>2, <1>3, <1>4, <1>5, <1>7, <1>8, <1>9, <1>10, <1>11, <1>12, Zenon DEF Next

LEMMA BootsStep ==
  ASSUME Boots, Next
  PROVE  Boots'
<1>1. CASE UNCHANGED booting
  BY <1>1 DEF Boots
<1>2. ASSUME NEW d \in Driver, BootFrom(d) PROVE Boots'
  BY <1>2 DEF BootFrom, Boots
<1>3. CASE BootMounts
  BY <1>3 DEF BootMounts, Boots
<1>4. CASE BootOpensWD
  BY <1>4 DEF BootOpensWD, Boots
<1>5. CASE BootSetsVol
  BY <1>5 DEF BootSetsVol, Boots
<1>6. ASSUME fmVars' = fmVars PROVE Boots'
  <2>1. UNCHANGED booting
    BY <1>6 DEF fmVars
  <2> QED
    BY <1>1, <2>1
<1>7. ASSUME NEW d \in Driver, initialize(d) \/ lateBootHook(d) PROVE Boots'
  <2>1. UNCHANGED booting
    BY <1>7 DEF initialize, lateBootHook
  <2> QED
    BY <1>1, <2>1
<1>8. ASSUME NEW num, DiskEvent(num) PROVE Boots'
  BY <1>1, <1>8 DEF DiskEvent
<1>9. CASE InitFS \/ AfterInitFS \/ ElseDrive \/ ElseMounts
  <2>1. UNCHANGED booting
    BY <1>9 DEF InitFS, AfterInitFS, ElseDrive, ElseMounts
  <2> QED
    BY <1>1, <2>1
<1>10. CASE Program \/ ElseOpensWD \/ Gestalt \/ (\E p \in Alien : PatchedOver(p))
            \/ (CallProceeds /\ UNCHANGED <<fmVars, wdVars>>)
  <2>1. fmVars' = fmVars
    BY <1>10, Zenon DEF Program, ElseOpensWD, Gestalt, PatchedOver
  <2> QED
    BY <1>6, <2>1
<1> QED
  BY <1>2, <1>3, <1>4, <1>5, <1>7, <1>8, <1>9, <1>10, Zenon DEF Next

-----------------------------------------------------------------------------
(* Patches, drives and volumes together *)

(* A patch has a drive, whose volume is mounted before the patch is gone.   *)
Attached ==
  /\ waiting \in Seq(Driver)
  /\ \A i \in DOMAIN waiting : Has(drives, waiting[i])
  /\ \A d \in Driver : code[d] # "absent" => Has(drives, d) /\ extFS = TRUE
  /\ \A d \in Driver : code[d] \in {"freed", "thunk"} \/ at = <<d, "uninstall">> => Has(vcbs, d)

FmInv == PatchInv /\ Queues /\ Attached

(* Patch68k of d, if it is a driver, leaves d attached.                     *)
LEMMA AttachedPatched ==
  ASSUME FmInv, Grown, NEW p \in Patch, Patch68k(p), p \in Driver => Has(drives', p) /\ extFS' = TRUE,
         extFS = TRUE => extFS' = TRUE, waiting' \in Seq(Driver),
         \A i \in DOMAIN waiting' : Has(drives', waiting'[i])
  PROVE  FmInv'
<1>1. PatchInv' /\ Queues'
  BY PatchPut DEF FmInv, Grown
<1>2. /\ at = <<Original, "resting">> /\ at' = at /\ code[p] = "absent"
      /\ code' = [code EXCEPT ![p] = "whole"] /\ code \in [Patch -> {"absent", "whole", "thunk", "freed"}]
  BY DEF Patch68k, machine, Resting, FmInv, PatchInv, Structure
<1>3. ASSUME NEW d \in Driver, code'[d] # "absent" PROVE Has(drives', d) /\ extFS' = TRUE
  <2>1. d = p \/ code[d] # "absent"
    BY <1>2, <1>3, RoutinesDiffer
  <2> QED
    BY <2>1 DEF FmInv, Attached, Grown
<1>4. ASSUME NEW d \in Driver, code'[d] \in {"freed", "thunk"} \/ at' = <<d, "uninstall">>
      PROVE  Has(vcbs', d)
  <2>1. code[d] \in {"freed", "thunk"}
    BY <1>2, <1>4, RoutinesDiffer
  <2> QED
    BY <2>1 DEF FmInv, Attached, Grown
<1> QED
  BY <1>1, <1>3, <1>4 DEF FmInv, Attached

LEMMA AttachedKept ==
  ASSUME FmInv, Grown, UNCHANGED patchVars, extFS = TRUE => extFS' = TRUE, waiting' \in Seq(Driver),
         \A i \in DOMAIN waiting' : Has(drives', waiting'[i])
  PROVE  FmInv'
<1>1. PatchInv' /\ Queues'
  BY PatchesKept DEF FmInv, Grown
<1>2. at' = at /\ code' = code
  BY DEF patchVars, machine
<1> QED
  BY <1>1, <1>2 DEF FmInv, Attached, Grown

LEMMA WaitingKept ==
  ASSUME FmInv, Grown, waiting' = waiting
  PROVE  waiting' \in Seq(Driver) /\ \A i \in DOMAIN waiting' : Has(drives', waiting'[i])
BY DEF FmInv, Attached, Grown

LEMMA Initialized ==
  ASSUME FmInv, NEW d \in Driver, initialize(d)
  PROVE  FmInv'
<1>1. /\ ~Added(d) /\ Len(drives) < MaxDrives /\ vcbs' = vcbs
      /\ drives' = Append(drives, [num |-> NewDriveNumber, owner |-> d, ours |-> TRUE])
  BY DEF initialize
<1>2. NewDriveNumber \in Nat /\ NewDriveNumber \notin Numbers
  BY <1>1, NumberIsNew DEF FmInv, Queues, InOrder
<1>3. Grown /\ Has(drives', d)
  BY <1>1, <1>2, DriveAdded DEF FmInv
<1>4. CASE fileMgr
  <2>1. extFS' = TRUE /\ Patch68k(d) /\ waiting' = waiting
    BY <1>4, Zenon DEF initialize, installExtFS, ensureFutureMount
  <2>2. waiting' \in Seq(Driver) /\ \A i \in DOMAIN waiting' : Has(drives', waiting'[i])
    BY <1>3, <2>1, WaitingKept
  <2> QED
    BY <1>3, <2>1, <2>2, RoutinesDiffer, AttachedPatched
<1>5. CASE ~fileMgr
  <2>1. waiting' = Append(waiting, d) /\ extFS' = extFS /\ UNCHANGED patchVars
    BY <1>5 DEF initialize
  <2>2. waiting \in Seq(Driver)
    BY DEF FmInv, Attached
  <2>3. waiting' \in Seq(Driver)
    BY <2>1, <2>2
  <2>4. \A i \in DOMAIN waiting' : waiting'[i] = d \/ (i \in DOMAIN waiting /\ waiting'[i] = waiting[i])
    BY <2>1, <2>2
  <2>5. \A i \in DOMAIN waiting' : Has(drives', waiting'[i])
    BY <1>3, <2>4 DEF FmInv, Attached, Grown
  <2> QED
    BY <1>3, <2>1, <2>3, <2>5, AttachedKept
<1> QED
  BY <1>4, <1>5

LEMMA FileManagerStarted ==
  ASSUME FmInv, AfterInitFS
  PROVE  FmInv'
<1>1. /\ extFS' = TRUE /\ Patch68k(Head(waiting)) /\ waiting # <<>> /\ waiting' = Tail(waiting)
      /\ drives' = drives /\ vcbs' = vcbs
  BY DEF AfterInitFS, installExtFS, ensureFutureMount
<1>2. waiting \in Seq(Driver) /\ \A i \in DOMAIN waiting : Has(drives, waiting[i])
  BY DEF FmInv, Attached
<1>3. Grown
  BY <1>1, QueuesKept DEF FmInv
<1>4. /\ Head(waiting) \in Driver /\ Has(drives, Head(waiting)) /\ Tail(waiting) \in Seq(Driver)
      /\ \A i \in DOMAIN Tail(waiting) : i + 1 \in DOMAIN waiting /\ Tail(waiting)[i] = waiting[i + 1]
  BY <1>1, <1>2
<1>5. \A i \in DOMAIN waiting' : Has(drives', waiting'[i])
  BY <1>1, <1>2, <1>4
<1>6. Head(waiting) \in Patch
  BY <1>4, RoutinesDiffer
<1> DEFINE d == Head(waiting)
<1>7. Patch68k(d) /\ d \in Patch /\ Has(drives', d)
  BY <1>1, <1>4, <1>6
<1>8. waiting' \in Seq(Driver)
  BY <1>1, <1>4
<1> HIDE DEF d
<1> QED
  BY <1>1, <1>3, <1>5, <1>7, <1>8, AttachedPatched

LEMMA HookMounts ==
  ASSUME FmInv, NEW d \in Driver, lateBootHook(d)
  PROVE  FmInv'
<1>1. RunHook(d) /\ MountVol(drives[DriveOf(d)].num) /\ extFS' = extFS /\ waiting' = waiting
  BY DEF lateBootHook
<1>2. PatchInv'
  BY <1>1, HookRuns DEF FmInv
<1>3. at = <<d, "hook">> /\ at' = <<d, "uninstall">> /\ code' = code
  BY <1>1 DEF RunHook, Goto
<1>4. code[d] # "absent"
  BY <1>3, RoutinesDiffer DEF FmInv, PatchInv, CallInPatches, Live
<1>5. Has(drives, d) /\ extFS = TRUE
  BY <1>4 DEF FmInv, Attached
<1>6. DriveOf(d) \in DOMAIN drives /\ drives[DriveOf(d)].owner = d
  BY <1>5 DEF Has, DriveOf
<1>7. Grown /\ Has(vcbs', d)
  <2> DEFINE n == DriveOf(d)
             num == drives[n].num
  <2>1. MountVol(num) /\ n \in DOMAIN drives /\ drives[n].owner = d
    BY <1>1, <1>6
  <2>2. drives[n].num = num
    OBVIOUS
  <2> HIDE DEF n, num
  <2> QED
    BY <1>5, <2>1, <2>2, Mounts DEF FmInv
<1>8. waiting' \in Seq(Driver) /\ \A i \in DOMAIN waiting' : Has(drives', waiting'[i])
  BY <1>1, <1>7, WaitingKept
<1>9. ASSUME NEW e \in Driver, code'[e] \in {"freed", "thunk"} \/ at' = <<e, "uninstall">>
      PROVE  Has(vcbs', e)
  BY <1>3, <1>7, <1>9 DEF FmInv, Attached, Grown
<1>10. \A e \in Driver : code'[e] # "absent" => Has(drives', e) /\ extFS' = TRUE
  BY <1>1, <1>3, <1>7 DEF FmInv, Attached, Grown
<1> QED
  BY <1>2, <1>7, <1>8, <1>9, <1>10 DEF FmInv, Attached, Grown

LEMMA CallKeeps ==
  ASSUME FmInv, drives' = drives, vcbs' = vcbs, extFS' = extFS, waiting' = waiting,
         (\E registers \in BOOLEAN : GestaltCalled(registers)) \/ CallProceeds
  PROVE  FmInv'
<1>1. PatchInv'
  <2>1. CASE \E registers \in BOOLEAN : GestaltCalled(registers)
    BY <2>1, CallStarts DEF FmInv
  <2>2. CASE CallProceeds
    BY <2>2, OriginalRuns, AlienRuns, PatchRuns, ThunkRuns, RestRuns, PatchLeaves, Zenon
       DEF CallProceeds, FmInv
  <2> QED
    BY <2>1, <2>2
<1>2. Grown
  BY QueuesKept DEF FmInv
<1>3. ASSUME NEW d \in Driver
      PROVE  /\ at' # <<d, "uninstall">>
             /\ code'[d] = code[d] \/ at = <<d, "uninstall">>
             /\ code'[d] # "absent" => code[d] # "absent"
  <2>1. CASE (\E registers \in BOOLEAN : GestaltCalled(registers)) \/ RunOriginal \/ RunAlien
             \/ \E p \in Driver : RunPatch(p) \/ RunThunk(p) \/ RunBehind(p)
    <3>1. code' = code /\ at'[2] # "uninstall"
      BY <2>1 DEF GestaltCalled, RunOriginal, RunAlien, RunPatch, RunThunk, RunBehind, Goto,
                  JmpOriginal, Resting
    <3> QED
      BY <3>1
  <2>2. ASSUME NEW p \in Driver, Unpatch68k(p)
        PROVE  /\ at' # <<d, "uninstall">>
               /\ code'[d] = code[d] \/ at = <<d, "uninstall">>
               /\ code'[d] # "absent" => code[d] # "absent"
    <3>1. /\ at = <<p, "uninstall">> /\ at' = <<original[p], "start">>
          /\ code' = [code EXCEPT ![p] = "freed"] \/ code' = [code EXCEPT ![p] = "thunk"]
      BY <2>2 DEF Unpatch68k, Goto, Overwritten
    <3>2. code[p] # "absent"
      BY <3>1, RoutinesDiffer DEF FmInv, PatchInv, CallInPatches, Live
    <3>3. code \in [Patch -> {"absent", "whole", "thunk", "freed"}] /\ d \in Patch
      BY RoutinesDiffer DEF FmInv, PatchInv, Structure
    <3> QED
      BY <3>1, <3>2, <3>3
  <2> QED
    BY <2>1, <2>2, Zenon DEF CallProceeds
<1>4. \A d \in Driver : code'[d] # "absent" => Has(drives', d) /\ extFS' = TRUE
  BY <1>3 DEF FmInv, Attached
<1>5. ASSUME NEW d \in Driver, code'[d] \in {"freed", "thunk"} \/ at' = <<d, "uninstall">>
      PROVE  Has(vcbs', d)
  BY <1>3, <1>5 DEF FmInv, Attached
<1> QED
  BY <1>1, <1>2, <1>4, <1>5 DEF FmInv, Attached, Grown

LEMMA FmStep ==
  ASSUME FmInv, Next
  PROVE  FmInv'
<1>1. ASSUME Grown, UNCHANGED patchVars, waiting' = waiting, extFS' = extFS PROVE FmInv'
  BY <1>1, WaitingKept, AttachedKept
<1>2. ASSUME UNCHANGED fmVars
      PROVE  drives' = drives /\ vcbs' = vcbs /\ extFS' = extFS /\ waiting' = waiting /\ Grown
  BY <1>2, QueuesKept DEF fmVars, FmInv
<1>3. CASE InitFS \/ (\E d \in Driver : BootFrom(d)) \/ BootOpensWD \/ BootSetsVol
  <2>1. UNCHANGED <<patchVars, drives, vcbs, extFS, waiting>>
    BY <1>3, Zenon DEF InitFS, BootFrom, BootOpensWD, BootSetsVol
  <2> QED
    BY <1>1, <2>1, QueuesKept DEF FmInv
<1>4. ASSUME NEW num, DiskEvent(num) PROVE FmInv'
  <2>1. UNCHANGED <<patchVars, extFS, waiting>>
    BY <1>4 DEF DiskEvent
  <2>2. MountVol(num) \/ UNCHANGED <<drives, vcbs>>
    BY <1>4 DEF DiskEvent
  <2>3. Grown
    BY <2>2, Mounts, QueuesKept DEF FmInv
  <2> QED
    BY <1>1, <2>1, <2>3
<1>5. CASE BootMounts
  <2>1. UNCHANGED <<patchVars, extFS, waiting>> /\ MountVol(drives[DriveOf(booting.driver)].num)
    BY <1>5 DEF BootMounts
  <2>2. Grown
    BY <2>1, Mounts DEF FmInv
  <2> QED
    BY <1>1, <2>1, <2>2
<1>6. CASE ElseDrive
  <2>1. UNCHANGED <<patchVars, extFS, waiting>> /\ vcbs' = vcbs /\ ~Added(Else)
    BY <1>6 DEF ElseDrive
  <2>2. PICK num \in 8 .. 7 + MaxDrives :
          num \notin Numbers /\ drives' = Append(drives, [num |-> num, owner |-> Else, ours |-> FALSE])
    BY <1>6 DEF ElseDrive
  <2>3. num \in Nat /\ (FALSE = TRUE <=> Else \in Driver)
    BY StartupAssumption
  <2>4. Grown
    BY <2>1, <2>2, <2>3, DriveAdded DEF FmInv
  <2> QED
    BY <1>1, <2>1, <2>4
<1>7. CASE ElseMounts
  <2>1. /\ UNCHANGED <<patchVars, extFS, waiting>> /\ drives' = drives
        /\ Added(Else) /\ ~Mounted(Else)
        /\ vcbs' = Append(vcbs, [ref |-> NewVRefNum, owner |-> Else])
    BY <1>7 DEF ElseMounts
  <2>2. Grown
    BY <2>1, StartupAssumption, OthersVolumeMounted DEF FmInv
  <2> QED
    BY <1>1, <2>1, <2>2
<1>8. CASE Program \/ ElseOpensWD
  <2>1. UNCHANGED patchVars /\ UNCHANGED fmVars
    BY <1>8, Zenon DEF Program, ElseOpensWD
  <2> QED
    BY <1>1, <1>2, <2>1
<1>9. ASSUME NEW p \in Alien, PatchedOver(p) PROVE FmInv'
  <2>1. Patch68k(p) /\ UNCHANGED fmVars
    BY <1>9 DEF PatchedOver
  <2>2. Grown /\ extFS' = extFS /\ waiting' = waiting
    BY <1>2, <2>1
  <2>3. waiting' \in Seq(Driver) /\ \A i \in DOMAIN waiting' : Has(drives', waiting'[i])
    BY <2>2, WaitingKept
  <2> QED
    BY <2>1, <2>2, <2>3, RoutinesDiffer, AttachedPatched
<1>10. CASE Gestalt
  <2>1. UNCHANGED fmVars /\ \E registers \in BOOLEAN : GestaltCalled(registers)
    BY <1>10, Zenon DEF Gestalt
  <2> QED
    BY <1>2, <2>1, CallKeeps
<1>11. CASE CallProceeds /\ UNCHANGED <<fmVars, wdVars>>
  BY <1>2, <1>11, CallKeeps
<1> QED
  BY <1>3, <1>4, <1>5, <1>6, <1>7, <1>8, <1>9, <1>10, <1>11, Initialized, FileManagerStarted,
     HookMounts, Zenon DEF Next

-----------------------------------------------------------------------------
(* The theorems *)

Invariant == FmInv /\ Dirs /\ Boots

LEMMA Initially == Init => Invariant
<1> SUFFICES ASSUME Init PROVE Invariant
  OBVIOUS
<1>1. PatchInv
  BY PatchInit DEF Init
<1>2. /\ drives = <<>> /\ vcbs = <<>> /\ waiting = <<>>
      /\ booting = [driver |-> Else, stage |-> "no"]
      /\ wdcb = [s \in Slot |-> Closed] /\ current = Closed /\ held = [s \in Slot |-> Closed]
      /\ code = [p \in Patch |-> "absent"] /\ at = <<Original, "resting">>
  BY DEF Init, PatchesInit, Resting
<1>3. Queues
  BY <1>2, EmptySeq DEF Queues, InOrder
<1>4. Attached
  <2>1. \A d \in Driver : code[d] = "absent"
    BY <1>2, RoutinesDiffer
  <2> QED
    BY <1>2, <2>1, EmptySeq DEF Attached
<1>5. Dirs
  BY <1>2, SlotNumbers DEF Dirs
<1>6. Boots
  BY <1>2 DEF Boots
<1> QED
  BY <1>1, <1>3, <1>4, <1>5, <1>6 DEF Invariant, FmInv

LEMMA InvariantHolds == Spec => []Invariant
<1>1. Invariant /\ [Next]_vars => Invariant'
  <2>1. ASSUME Invariant, Next PROVE Invariant'
    BY <2>1, FmStep, DirsStep, BootsStep DEF Invariant
  <2>2. ASSUME Invariant, UNCHANGED vars PROVE Invariant'
    <3>1. /\ UNCHANGED patchVars /\ drives' = drives /\ vcbs' = vcbs /\ waiting' = waiting
          /\ extFS' = extFS /\ booting' = booting /\ UNCHANGED <<wdcb, current, held>>
      BY <2>2 DEF vars, fmVars, wdVars
    <3>2. FmInv'
      BY <2>2, <3>1, QueuesKept, WaitingKept, AttachedKept DEF Invariant, FmInv
    <3> QED
      BY <2>2, <3>1, <3>2, DirsKept DEF Invariant, Boots
  <2> QED
    BY <2>1, <2>2
<1> QED
  BY <1>1, Initially, PTL DEF Spec

(* Patch68k and Unpatch68k, whoever patches the trap over whom and however  *)
(* often it is called: other patches stay, nothing freed is reached, and    *)
(* each hook runs once.                                                     *)
THEOREM PatchesAlwaysInOrder == Spec => []PatchesInOrder
<1>1. Invariant => PatchesInOrder
  <2> SUFFICES ASSUME PatchInv PROVE PatchesInOrder
    BY DEF Invariant, FmInv
  <2>1. Live \in SUBSET Patch /\ Chain = Live \union {Original}
    BY ChainIsStack DEF PatchInv, Structure, Live
  <2>2. OthersKept
    BY <2>1, RoutinesDiffer DEF OthersKept, PatchInv, Structure, Live
  <2>3. NothingFreedIsCalled
    BY <2>1 DEF NothingFreedIsCalled, Live
  <2>4. HookedOnce
    <3> SUFFICES ASSUME \A p \in Driver : code[p] # "thunk"
                 PROVE  /\ \A p \in Driver : hooked[p] = IF code[p] = "freed" THEN 1
                                                         ELSE IF at = <<p, "uninstall">> THEN 1 ELSE 0
                        /\ at = Resting => reached = 1
      BY DEF HookedOnce
    <3>1. /\ \A p \in Driver : hooked[p] = IF code[p] = "freed" \/ at = <<p, "uninstall">> THEN 1 ELSE 0
          /\ reached = IF at[2] = "resting" THEN 1 ELSE 0
      BY DEF PatchInv, Once
    <3> QED
      BY <3>1 DEF Resting
  <2> QED
    BY <2>2, <2>3, <2>4 DEF PatchesInOrder
<1> QED
  BY <1>1, InvariantHolds, PTL

(* The disk event, boot and lateBootHook between them have fsMountVol mount *)
(* each driver's volume, and never twice.                                   *)
THEOREM VolumesAlwaysMounted == Spec => []VolumesMounted
<1>1. Invariant => VolumesMounted
  BY DEF Invariant, FmInv, Queues, InOrder, Attached, VolumesMounted, MountedOnce,
         MountedAfterStartup, Mounted, Has
<1> QED
  BY <1>1, InvariantHolds, PTL

(* fsOpenWD, fsCloseWD, fsSetVol and boot share the table of WDCBs with     *)
(* each other and with other file systems.                                  *)
THEOREM DirectoriesAlwaysKept == Spec => []DirectoriesKept
<1>1. Invariant => DirectoriesKept
  BY DEF Invariant, Dirs, DirectoriesKept
<1> QED
  BY <1>1, InvariantHolds, PTL

=============================================================================
