------------------------------ MODULE HashTab ------------------------------
(***************************************************************************)
(* The hash table of the 9P driver (hashtab.c): an open-addressed table    *)
(* whose larger values lie in a second block, filled from its start and    *)
(* never compacted.  File Manager calls may not move memory, so the blocks *)
(* grow only when a synchronous Open comes by or in a Notification Manager *)
(* task that an earlier call posted; until then installing must do with    *)
(* the room there is, and panics when there is none.                       *)
(*                                                                         *)
(* Keys fit in the entry, as those of setDB do.  The second block is       *)
(* counted in the 8-byte words that store aligns to.                       *)
(***************************************************************************)
EXTENDS Integers, FiniteSets, FiniteSetsExt

CONSTANTS
  Key,
  Hash,       (* Hash[k]: the hash of a key with its tag                   *)
  Value,
  Length,     (* Length[v]: bytes                                          *)
  MinSlots,   (* 4096 in the code                                          *)
  MinWords,   (* 64 * 1024 bytes in the code                               *)
  MaxSlots,   (* bounds: the system heap has room for no more than this    *)
  MaxWords,
  MaxInstalls (* bound: installs in one call                               *)

ASSUME TableAssumption ==
  /\ Hash \in [Key -> Nat] /\ Length \in [Value -> Nat \ {0}]
  /\ MinSlots \in Nat \ {0} /\ MinWords \in Nat \ {0}
  /\ MaxSlots \in Nat /\ MaxWords \in Nat /\ MaxInstalls \in Nat

Absent == [absent |-> TRUE]
ASSUME AbsentAssumption == Absent \notin Key \union Value

Free == [key |-> Absent, len |-> 0, val |-> 0]     \* klen == 0
NoWord == [of |-> Absent, part |-> 0]

VARIABLES
  table,      (* tablesize slots, numbered from 0                          *)
  tableused,
  blob,       (* blob[w]: whose value, and which part of it, fills word w  *)
  blobused,
  notificationPending,
  posted,     (* notification requests in the system's queue               *)
  installs,   (* what the call in progress may still install               *)
  phase,      (* driver off; booting, CurApName not yet set; up            *)
  panicked,
  installed   (* history: the value installed last under each key          *)

blocks == <<table, tableused, blob, blobused>>
notes == <<notificationPending, posted>>
tabVars == <<blocks, notes, installs, phase, panicked, installed>>

TableSize == Cardinality(DOMAIN table)
BlobSize == Cardinality(DOMAIN blob)

Inline(v) == Length[v] <= 4
Words(v) == (Length[v] + 7) \div 8

-----------------------------------------------------------------------------
(* Growing. *)

(* The least doubling of a size whose half is above what is used.  It takes *)
(* used + 1 turns at most.                                                  *)
Sufficient(least, used) ==
  LET s[n \in 0 .. used + 1] ==
        IF n = 0 THEN least
        ELSE IF s[n - 1] \div 2 <= used THEN 2 * s[n - 1] ELSE s[n - 1]
  IN  s[used + 1]

ChooseTableSize == Sufficient(MinSlots, tableused)
ChooseBlobSize == Sufficient(MinWords, blobused)

(* Probing starts at the hash and goes around. *)
Slot(k, i, size) == (Hash[k] + i) % size

(* The slots of a cleared block of some size. *)
Cleared(size) == [s \in 0 .. size - 1 |-> Free]

(* An entry goes to the first free slot of the new table. *)
Moved(new, e) ==
  LET size == Cardinality(DOMAIN new)
      first == Min({i \in 0 .. size - 1 : new[Slot(e.key, i, size)] = Free})
  IN  [new EXCEPT ![Slot(e.key, first, size)] = e]

(* Slip: each entry keeps its number in the larger table. *)
CopiedOver(size) ==
  [s \in 0 .. size - 1 |-> IF s \in DOMAIN table THEN table[s] ELSE Free]

(* The old table's slots in order; a free one changes nothing when copied.  *)
Rehashed(size) ==
  LET new[n \in 0 .. TableSize] ==
        IF n = 0 THEN Cleared(size)
        ELSE IF table[n - 1] = Free THEN new[n - 1] ELSE Moved(new[n - 1], table[n - 1])
  IN  new[TableSize]

(* Memory is found for a block or not.  A handle that cannot grow stays.    *)
Outcomes(size, limit) == IF size <= limit THEN {TRUE, FALSE} ELSE {FALSE}

HTallocate ==
  /\ LET n == ChooseTableSize
     IN  \E found \in Outcomes(n, MaxSlots) :
           table' = IF n > TableSize /\ found THEN Rehashed(n) ELSE table
  /\ LET n == ChooseBlobSize
     IN  \E found \in Outcomes(n, MaxWords) :
           blob' = IF n > BlobSize /\ found
                   THEN [w \in 0 .. n - 1 |-> IF w \in DOMAIN blob THEN blob[w] ELSE NoWord]
                   ELSE blob
  /\ UNCHANGED <<tableused, blobused>>

(* Whether there is reason to ask for time to grow.  The two tests are      *)
(* joined so that there is none when either block is large enough.          *)
Short(slots, words) ==
  phase = "up" /\ ~(ChooseTableSize <= slots \/ ChooseBlobSize <= words)

(* Slip: a request is posted although one is pending. *)
PostAgain == Short(TableSize, BlobSize)

MustPost == ~notificationPending /\ Short(TableSize, BlobSize)

HTallocatelater ==
  IF MustPost THEN posted' = posted + 1 /\ notificationPending' = TRUE
  ELSE UNCHANGED notes

-----------------------------------------------------------------------------
(* Installing and looking up. *)

None == -1

(* Slip: the probe does not go on past the first slot. *)
FirstSlot(k) == IF TableSize = 0 THEN None ELSE Slot(k, 0, TableSize)

(* The slot of a key, or the one to put it in; None in a full table. *)
Find(k) ==
  LET size == TableSize
      hits == {i \in 0 .. size - 1 :
                 LET e == table[Slot(k, i, size)] IN e = Free \/ e.key = k}
  IN  IF hits = {} THEN None ELSE Slot(k, Min(hits), size)

(* store: the words go to the end of those used, if there is room. *)
HasRoom(v) == blobused * 8 + Length[v] <= BlobSize * 8

Written(v, at) ==
  [w \in DOMAIN blob |-> IF w \in at .. at + Words(v) - 1
                         THEN [of |-> v, part |-> w - at] ELSE blob[w]]

(* Slip: the new words are not counted as used. *)
NotBumped(v) == blobused

Bumped(v) == blobused + Words(v)

(* Slip: any longer value is put where the old one is. *)
FitsAnyway(e, v) == e.len > 4 \/ Length[v] <= 8

(* Overwriting where the value lies: "out of line but shorter". *)
Fits(e, v) == Length[v] <= ((e.len + 7) \div 8) * 8

(* The places that a value's offset may mean: a number that was never an    *)
(* offset, because the bytes of a short value lie in the entry, may mean    *)
(* any.                                                                     *)
Offsets(e) == IF e.len > 4 THEN {e.val} ELSE 0 .. BlobSize

Put(s, k, v, val) == table' = [table EXCEPT ![s] = [key |-> k, len |-> Length[v], val |-> val]]

InstallInline(s, k, v) ==
  /\ Inline(v)
  /\ Put(s, k, v, v)
  /\ UNCHANGED <<blob, blobused, panicked>>

InstallInPlace(s, k, v) ==
  /\ table[s] # Free /\ ~Inline(v) /\ Fits(table[s], v)
  /\ \E at \in Offsets(table[s]) : blob' = Written(v, at) /\ Put(s, k, v, at)
  /\ UNCHANGED <<blobused, panicked>>

InstallStored(s, k, v) ==
  /\ ~Inline(v) /\ ~(table[s] # Free /\ Fits(table[s], v))
  /\ IF HasRoom(v)
     THEN /\ blob' = Written(v, blobused) /\ blobused' = Bumped(v)
          /\ Put(s, k, v, blobused)
          /\ UNCHANGED panicked
     ELSE panicked' = TRUE /\ UNCHANGED <<table, blob, blobused>>

HTinstall(k, v) ==
  LET s == Find(k)
  IN  IF s = None
      THEN panicked' = TRUE /\ UNCHANGED blocks
      ELSE /\ tableused' = IF table[s] = Free THEN tableused + 1 ELSE tableused
           /\ InstallInline(s, k, v) \/ InstallInPlace(s, k, v) \/ InstallStored(s, k, v)

(* HTlookup: the value whose parts lie where the entry says, all of them    *)
(* and in order.  Torn stands for any other bytes.                          *)
Torn == [torn |-> TRUE]

Lying(v, at) ==
  \A p \in 0 .. Words(v) - 1 :
    at + p \in DOMAIN blob /\ blob[at + p] = [of |-> v, part |-> p]

EntryVal(e) ==
  IF e.len <= 4 THEN e.val
  ELSE LET whole == {v \in Value : Length[v] = e.len /\ Lying(v, e.val)}
       IN  IF whole = {} THEN Torn ELSE CHOOSE v \in whole : TRUE

HTlookup(k) ==
  LET s == Find(k)
  IN  IF s = None THEN Absent
      ELSE LET e == table[s] IN IF e = Free THEN Absent ELSE EntryVal(e)

-----------------------------------------------------------------------------
(* The 9P driver's use of the table.                                        *)

TabInit ==
  /\ table = <<>> /\ tableused = 0 /\ blob = <<>> /\ blobused = 0
  /\ notificationPending = FALSE /\ posted = 0
  /\ installs = 0 /\ phase = "off" /\ panicked = FALSE
  /\ installed = [k \in Key |-> Absent]

(* initialize: allocate, then a first browse, which installs. *)
Initialize ==
  /\ phase = "off"
  /\ HTallocate
  /\ phase' = "booting" /\ installs' = MaxInstalls
  /\ UNCHANGED <<notes, panicked, installed>>

(* The Finder has been launched, and CurApName set. *)
Booted ==
  /\ phase = "booting" /\ installs = 0
  /\ phase' = "up"
  /\ UNCHANGED <<blocks, notes, installs, panicked, installed>>

(* fsCall, between two others: ask for time to grow, before anything is     *)
(* installed.  If it is a synchronous Open, memory may move now.            *)
FsCall ==
  /\ ~panicked /\ phase # "off" /\ installs = 0
  /\ HTallocatelater
  /\ HTallocate \/ UNCHANGED blocks
  /\ installs' = MaxInstalls
  /\ UNCHANGED <<phase, panicked, installed>>

Install ==
  /\ ~panicked /\ installs > 0
  /\ installs' = installs - 1
  /\ \E k \in Key, v \in Value :
       /\ HTinstall(k, v)
       /\ installed' = IF panicked' THEN installed ELSE [installed EXCEPT ![k] = v]
  /\ UNCHANGED <<notes, phase>>

FsCallEnds ==
  /\ ~panicked /\ installs > 0
  /\ installs' = 0
  /\ UNCHANGED <<blocks, notes, phase, panicked, installed>>

(* Slip: the request stays in the system's queue. *)
NotRemoved == posted

Removed == posted - 1

(* The task runs at system task time, which no call is in.  It removes its  *)
(* request, allocates, and asks again if that was not enough.               *)
NotificationProc ==
  /\ ~panicked /\ posted > 0 /\ installs = 0
  /\ HTallocate
  /\ notificationPending' = Short(Cardinality(DOMAIN table'), Cardinality(DOMAIN blob'))
  /\ posted' = IF notificationPending' THEN Removed + 1 ELSE Removed
  /\ UNCHANGED <<installs, phase, panicked, installed>>

TabNext ==
  Initialize \/ Booted \/ FsCall \/ Install \/ FsCallEnds \/ NotificationProc

TabSpec == TabInit /\ [][TabNext]_tabVars

-----------------------------------------------------------------------------
(* Types; the blocks keep the sizes they are given. *)
TabTypeOK ==
  /\ DOMAIN table = 0 .. TableSize - 1 /\ tableused \in 0 .. TableSize
  /\ \A s \in DOMAIN table : table[s].key \in Key \union {Absent}
  /\ DOMAIN blob = 0 .. BlobSize - 1 /\ blobused \in 0 .. BlobSize
  /\ notificationPending \in BOOLEAN /\ posted \in Nat
  /\ installs \in 0 .. MaxInstalls
  /\ phase \in {"off", "booting", "up"} /\ panicked \in BOOLEAN

(* One notification record is used for every request, so it must never be   *)
(* put in the system's queue while it is there; and a request that is       *)
(* pending is there.                                                        *)
RecordPostedOnce == posted = IF notificationPending THEN 1 ELSE 0

(* HTlookup returns what was installed last under the key, whatever was     *)
(* installed under others and however often the blocks have grown.          *)
LastInstalledFound == \A k \in Key : HTlookup(k) = installed[k]

(* Both blocks and the record of the notification that lets them grow are   *)
(* in order, in whatever order calls, the task and the system run.          *)
GrowthInOrder == TabTypeOK /\ RecordPostedOnce
=============================================================================
