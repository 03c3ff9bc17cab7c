------------------------------- MODULE Startup ------------------------------
(***************************************************************************)
(* How the 9P drivers (device-9p.c) get from initialize to a mounted       *)
(* volume, and the working directories on it.                              *)
(*                                                                         *)
(* Each driver adds a drive.  All share one patch of ToExtFS, by which the *)
(* File Manager's calls for their drives and volumes reach them.  A driver *)
(* waits for the File Manager (patch of _InitFS), and then for the end of  *)
(* startup (patch of _Gestalt, module Patches) to mount its volume, unless *)
(* the disk event that it posts, or boot, has done so before.              *)
(*                                                                         *)
(* The queues of drives and volumes, the table of working directories      *)
(* (WDCBs) and the default volume belong to the File Manager, and other    *)
(* software has entries in them.                                           *)
(***************************************************************************)
EXTENDS Patches, Integers, FiniteSetsExt

CONSTANTS
  Else,       (* other software, as an owner of drives and volumes         *)
  Dir,        (* directories other than the root, the same on each volume  *)
  RootDir,
  Slots,      (* bound: WDCBs in the table                                 *)
  MaxDrives   (* bound: drives in the queue                                *)

ASSUME StartupAssumption ==
  /\ Else \notin Driver /\ "none" \notin Driver /\ RootDir \notin Dir
  /\ Slots \in Nat \ {0, 1} /\ MaxDrives \in Nat

VARIABLES
  drives,     (* the drive queue; ours: does dQFSID hold the drivers' FSID *)
  vcbs,       (* the VCB queue: numbers and owners of volumes              *)
  extFS,      (* ToExtFS is patched (and Gestalt tells)                    *)
  fileMgr,    (* _InitFS has been called                                   *)
  waiting,    (* drivers with a patch of _InitFS, oldest first             *)
  posted,     (* drives of the disk events in the event queue              *)
  booting,    (* the driver that the machine boots from, and how far       *)
  wdcb,       (* the table of WDCBs; the first is the default directory    *)
  defVRefNum, (* DefVRefNum                                                *)
  current,    (* history: the directory that was last made the default     *)
  held        (* history: what each open working directory was opened as   *)

fmVars == <<drives, vcbs, extFS, fileMgr, waiting, posted, booting>>
wdVars == <<wdcb, defVRefNum, current, held>>
vars == <<patchVars, fmVars, wdVars>>

Place(owner, dir) == [owner |-> owner, dir |-> dir]
Closed == Place("none", RootDir)

(* Numbers of working directories and of volumes do not overlap.            *)
WDLO == -32767
WDRef(slot) == WDLO + 2 + 16 * (slot - 1)
Slot == 1 .. Slots

Init ==
  /\ PatchesInit
  /\ drives = <<>> /\ vcbs = <<>> /\ extFS = FALSE
  /\ fileMgr \in BOOLEAN
  /\ waiting = <<>> /\ posted = {}
  /\ booting = [driver |-> Else, stage |-> "no"]
  /\ wdcb = [s \in Slot |-> Closed] /\ defVRefNum = 0
  /\ current = Closed /\ held = [s \in Slot |-> Closed]

Numbers == {drives[n].num : n \in DOMAIN drives}
DriveOf(d) == (CHOOSE n \in DOMAIN drives : drives[n].owner = d)
Added(d) == \E n \in DOMAIN drives : drives[n].owner = d
VRefNums == {vcbs[n].ref : n \in DOMAIN vcbs}
Mounted(d) == \E n \in DOMAIN vcbs : vcbs[n].owner = d
VolumeOf(d) == vcbs[CHOOSE n \in DOMAIN vcbs : vcbs[n].owner = d].ref

-----------------------------------------------------------------------------
(* The drivers start *)

(* installDrive: "conventional lowest number for HD".                       *)
NewDriveNumber == Min({n \in 8 .. 8 + MaxDrives : n \notin Numbers})

installExtFS == extFS' = TRUE

ensureFutureMount(d, num) == posted' = posted \union {num} /\ Patch68k(d)

initialize(d) ==
  /\ at = Resting /\ (waiting = <<>> \/ ~fileMgr)
  /\ ~Added(d) /\ Len(drives) < MaxDrives
  /\ drives' = Append(drives, [num |-> NewDriveNumber, owner |-> d, ours |-> TRUE])
  /\ IF fileMgr
     THEN installExtFS /\ ensureFutureMount(d, NewDriveNumber) /\ UNCHANGED waiting
     ELSE waiting' = Append(waiting, d) /\ UNCHANGED <<extFS, posted, patchVars>>
  /\ UNCHANGED <<vcbs, fileMgr, booting, wdVars>>

InitFS ==
  /\ at = Resting /\ ~fileMgr
  /\ fileMgr' = TRUE
  /\ UNCHANGED <<patchVars, drives, vcbs, extFS, waiting, posted, booting, wdVars>>

(* The patches of _InitFS go on when the original returns, oldest first.    *)
AfterInitFS ==
  /\ fileMgr /\ waiting # <<>>
  /\ installExtFS /\ ensureFutureMount(Head(waiting), drives[DriveOf(Head(waiting))].num)
  /\ waiting' = Tail(waiting)
  /\ UNCHANGED <<drives, vcbs, fileMgr, booting, wdVars>>

Settled == fileMgr /\ waiting = <<>>

-----------------------------------------------------------------------------
(* Mounting *)

(* Slip: the drive still shows the drivers' FSID. *)
StillOurs == TRUE

NoLongerOurs == FALSE

NewVRefNum == Max({v \in -(Len(vcbs) + 1) .. -1 : v \notin VRefNums})

(* Where volume 0 is: nothing has been mounted.                             *)
BecomesDefault(ref, d) ==
  IF vcbs = <<>>
  THEN /\ defVRefNum' = ref /\ current' = Place(d, RootDir)
       /\ wdcb' = [wdcb EXCEPT ![1] = Place(d, RootDir)]
  ELSE UNCHANGED <<defVRefNum, current, wdcb>>

(* dqe.qType, the guard at the head of fsMountVol, is never set.            *)
fsMountVol(n) ==
  /\ vcbs' = Append(vcbs, [ref |-> NewVRefNum, owner |-> drives[n].owner])
  /\ BecomesDefault(NewVRefNum, drives[n].owner)
  /\ drives' = [drives EXCEPT ![n].ours = NoLongerOurs]
  /\ UNCHANGED held

(* PBMountVol through ToExtFS: the first drive of this number, if its       *)
(* dQFSID is the drivers', else none of theirs.                             *)
MountVol(num) ==
  LET found == {n \in DOMAIN drives : drives[n].num = num}
  IN  IF extFS /\ found # {} /\ drives[Min(found)].ours
      THEN fsMountVol(Min(found))
      ELSE UNCHANGED <<drives, vcbs, wdVars>>

(* A disk event is answered with MountVol, or is lost.                      *)
DiskEvent(num) ==
  /\ Settled /\ at = Resting /\ num \in posted
  /\ posted' = posted \ {num}
  /\ \/ MountVol(num)
     \/ UNCHANGED <<drives, vcbs, wdVars>>
  /\ UNCHANGED <<patchVars, extFS, fileMgr, waiting, booting>>

lateBootHook(d) ==
  /\ RunHook(d)
  /\ MountVol(drives[DriveOf(d)].num)
  /\ UNCHANGED <<extFS, fileMgr, waiting, posted, booting>>

-----------------------------------------------------------------------------
(* Working directories *)

(* findWD: a slot of the table; 0 is the first.                             *)
IsWD(ref) == \E s \in Slot : ref = WDRef(s)
findWD(ref) == IF ref = 0 THEN 1 ELSE CHOOSE s \in Slot : ref = WDRef(s)

(* Slip: from the first WDCB on. *)
AllSlots == Slot

(* "never use 1st/2nd WDCB"                                                 *)
Usable == 3 .. Slots

(* fsOpenWD: the slot that is returned, 0 if the root or if the table is    *)
(* full.                                                                    *)
OpenedSlot(place) ==
  LET same == {s \in Usable : wdcb[s] = place}
      free == {s \in Usable : wdcb[s] = Closed}
  IN  IF place.dir = RootDir THEN 0
      ELSE IF same # {} THEN Min(same)
      ELSE IF free # {} THEN Min(free) ELSE 0

fsOpenWD(place) ==
  LET s == OpenedSlot(place)
  IN  IF s = 0 THEN UNCHANGED <<wdcb, held>>
      ELSE /\ wdcb' = [wdcb EXCEPT ![s] = place]
           /\ held' = [held EXCEPT ![s] = place]

fsCloseWD(s) ==
  /\ wdcb' = [wdcb EXCEPT ![s] = Closed]
  /\ held' = [held EXCEPT ![s] = Closed]

(* fsSetVol: the default becomes a place, under the number of its volume or *)
(* of a working directory.                                                  *)
fsSetVol(ref, place) ==
  /\ defVRefNum' = ref /\ current' = place
  /\ wdcb' = [wdcb EXCEPT ![1] = place]

(* boot, when a 9P drive is the startup disk: the File Manager, the volume, *)
(* then the System Folder as the default directory.                         *)
BootFrom(d) ==
  /\ at = Resting /\ ~fileMgr /\ Added(d) /\ booting.stage = "no"
  /\ booting' = [driver |-> d, stage |-> "mount"] /\ fileMgr' = TRUE
  /\ UNCHANGED <<patchVars, drives, vcbs, extFS, waiting, posted, wdVars>>

BootMounts ==
  /\ booting.stage = "mount" /\ Settled
  /\ MountVol(drives[DriveOf(booting.driver)].num)
  /\ booting' = [booting EXCEPT !.stage = "open"]
  /\ UNCHANGED <<patchVars, extFS, fileMgr, waiting, posted>>

BootOpensWD ==
  /\ booting.stage = "open"
  /\ \E folder \in Dir : fsOpenWD(Place(booting.driver, folder))
  /\ booting' = [booting EXCEPT !.stage = "set"]
  /\ UNCHANGED <<patchVars, drives, vcbs, extFS, fileMgr, waiting, posted, defVRefNum, current>>

BootSetsVol ==
  /\ booting.stage = "set"
  /\ \E s \in Slot : held[s] # Closed /\ fsSetVol(WDRef(s), wdcb[s])
  /\ booting' = [booting EXCEPT !.stage = "done"]
  /\ UNCHANGED <<patchVars, drives, vcbs, extFS, fileMgr, waiting, posted, held>>

(* Programs run from the end of startup on, when the disk events have been  *)
(* seen to.                                                                 *)
Programs == registered /\ posted = {}

Running == Settled /\ at = Resting /\ booting.stage \in {"no", "done"}

(* Calls of programs: OpenWD, CloseWD of what was opened, SetVol to a       *)
(* volume or a working directory, HSetVol to a directory.                   *)
Program ==
  /\ Running /\ Programs
  /\ \/ \E d \in Driver, dir \in Dir \union {RootDir} :
          Mounted(d) /\ fsOpenWD(Place(d, dir)) /\ UNCHANGED <<defVRefNum, current>>
     \/ \E s \in Slot : held[s].owner \in Driver /\ fsCloseWD(s) /\ UNCHANGED <<defVRefNum, current>>
     \/ \E s \in Slot : held[s].owner \in Driver /\ fsSetVol(WDRef(s), wdcb[s]) /\ UNCHANGED held
     \/ \E d \in Driver, dir \in Dir \union {RootDir} :
          Mounted(d) /\ fsSetVol(VolumeOf(d), Place(d, dir)) /\ UNCHANGED held
  /\ UNCHANGED <<patchVars, fmVars>>

(* Other software adds a drive, mounts a volume, opens or closes a working  *)
(* directory, makes itself the default, patches Gestalt or calls it.        *)
ElseDrive ==
  /\ at = Resting /\ Len(drives) < MaxDrives /\ ~Added(Else)
  /\ \E num \in 8 .. 7 + MaxDrives :
       num \notin Numbers /\ drives' = Append(drives, [num |-> num, owner |-> Else, ours |-> FALSE])
  /\ UNCHANGED <<patchVars, vcbs, extFS, fileMgr, waiting, posted, booting, wdVars>>

ElseMounts ==
  /\ Running /\ Added(Else) /\ ~Mounted(Else)
  /\ vcbs' = Append(vcbs, [ref |-> NewVRefNum, owner |-> Else])
  /\ BecomesDefault(NewVRefNum, Else)
  /\ UNCHANGED <<patchVars, drives, extFS, fileMgr, waiting, posted, booting, held>>

ElseOpensWD ==
  /\ Running /\ Programs /\ Mounted(Else)
  /\ \E s \in 3 .. Slots :
       \/ wdcb[s] = Closed /\ wdcb' = [wdcb EXCEPT ![s] = Place(Else, RootDir)]
       \/ wdcb[s].owner = Else /\ wdcb' = [wdcb EXCEPT ![s] = Closed]
  /\ UNCHANGED <<patchVars, fmVars, defVRefNum, current, held>>

PatchedOver(p) == Running /\ Patch68k(p) /\ UNCHANGED <<fmVars, wdVars>>

(* The end of startup comes once; programs run from then on.                *)
Gestalt ==
  /\ Running
  /\ \E registers \in BOOLEAN : GestaltCalled(registers)
  /\ UNCHANGED <<fmVars, wdVars>>

Next ==
  \/ InitFS \/ AfterInitFS
  \/ \E d \in Driver : initialize(d) \/ lateBootHook(d) \/ BootFrom(d)
  \/ \E num \in posted : DiskEvent(num)
  \/ BootMounts \/ BootOpensWD \/ BootSetsVol
  \/ Program
  \/ ElseDrive \/ ElseMounts \/ ElseOpensWD
  \/ \E p \in Alien : PatchedOver(p)
  \/ Gestalt
  \/ CallProceeds /\ UNCHANGED <<fmVars, wdVars>>

Spec == Init /\ [][Next]_vars

-----------------------------------------------------------------------------
(* No volume is in the queue twice, and numbers are unique, also when the   *)
(* disk event, boot and the hook all ask for the volume to be mounted.      *)
MountedOnce ==
  /\ \A m, n \in DOMAIN vcbs :
       m # n => vcbs[m].owner # vcbs[n].owner /\ vcbs[m].ref # vcbs[n].ref
  /\ \A m, n \in DOMAIN drives : m # n => drives[m].num # drives[n].num

(* When startup is complete, the volume of every driver is mounted, though  *)
(* disk events get lost.                                                    *)
MountedAfterStartup ==
  at = Resting => \A d \in Driver : code[d] \in {"freed", "thunk"} => Mounted(d)

(* A working directory denotes the directory it was opened for until it is  *)
(* closed, and volume 0 the one that was last made the default, whatever    *)
(* else is opened, closed or set.                                           *)
DirectoriesKept ==
  /\ \A s \in Slot : held[s] # Closed => wdcb[s] = held[s]
  /\ wdcb[1] = current

(* Every volume is mounted, once.                                           *)
VolumesMounted == MountedOnce /\ MountedAfterStartup
=============================================================================
