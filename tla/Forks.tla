-------------------------------- MODULE Forks -------------------------------
(***************************************************************************)
(* Open forks (device-9p.c, universalfcb.c): the File Manager's table of   *)
(* file control blocks, the fid of each (32 + its number), and the rings   *)
(* (fcb9Link) that keep the FCBs of one fork agreed on its length.         *)
(*                                                                         *)
(* The FCBs are the File Manager's own and other volumes' files are among  *)
(* them.  A fork is a pair of a CNID and a kind; the host keeps a data     *)
(* fork as the file and a resource fork as its sidecar, made when it is    *)
(* first opened.  The lengths are the host's, who may lengthen files too.  *)
(***************************************************************************)
EXTENDS Integers, FiniteSets, FiniteSetsExt

CONSTANTS
  File,       (* CNIDs of files                                            *)
  NoFile,     (* fcbFlNm of a free FCB                                     *)
  Refnum,     (* numbers of FCBs                                           *)
  Wanted,     (* bound: the forks that are opened                          *)
  MaxSize,    (* bound: the length of a fork                               *)
  Shared,     (* bound: the forks that the host lengthens, each once       *)
  Foreign     (* bound: CNIDs of the files that another volume opens       *)

ASSUME ForksAssumption ==
  /\ NoFile \notin File /\ Refnum \subseteq Nat \ {0} /\ IsFiniteSet(Refnum)
  /\ MaxSize \in Nat \ {0} /\ Foreign \subseteq File

Data == "data"
Rsrc == "rsrc"
Fork == File \X {Data, Rsrc}

ASSUME WantedAssumption == Wanted \union Shared \subseteq Fork

VARIABLES
  fcb,        (* the FCBs                                                  *)
  fid,        (* of each FCB: the fork that fid 32 + refn stands for, how  *)
              (* it is open                                                *)
  size,       (* the host's files: lengths of forks, Absent if none        *)
  grown       (* history: forks that the host has lengthened               *)

vars == <<fcb, fid, size, grown>>

Absent == -1
Nothing == <<NoFile, Data>>

Ours == "9p"
Other == "other"
Free == [file |-> NoFile, vol |-> Ours, rsrc |-> FALSE, write |-> FALSE,
         link |-> 0, eof |-> 0, mark |-> 0]
Unused == [at |-> Nothing, mode |-> "closed"]

Init ==
  /\ fcb = [r \in Refnum |-> Free]
  /\ fid = [r \in Refnum |-> Unused]
  /\ size \in {s \in [Fork -> {Absent, 0, 1}] :
                 \A f \in File : s[<<f, Data>>] = 1 /\ s[<<f, Rsrc>>] = Absent}
  /\ grown = {}

(* UnivIndexFCB with a volume: its FCBs in use.                             *)
Indexed == {r \in Refnum : fcb[r].file # NoFile /\ fcb[r].vol = Ours}

(* UnivAllocateFCB: the first that is free; nothing marks it until it is    *)
(* filled in.                                                               *)
Allocated(r) ==
  /\ fcb[r].file = NoFile
  /\ \A q \in Refnum : q < r => fcb[q].file # NoFile

ForkOf(r) == <<fcb[r].file, IF fcb[r].rsrc THEN Rsrc ELSE Data>>

Fellows(r, k) == {q \in Indexed \ {r} : ForkOf(q) = k}

(* The FCBs that following fcb9Link from r passes.                          *)
Ring(r) ==
  LET at[n \in 0 .. Cardinality(Refnum)] ==
        IF n = 0 THEN r
        ELSE IF at[n - 1] \in Refnum THEN fcb[at[n - 1]].link ELSE 0
  IN  {at[n] : n \in 0 .. Cardinality(Refnum)}

-----------------------------------------------------------------------------
(* The host's files, as 9p.c asks for them *)

(* The length; a file that is not there leaves the caller's 0.              *)
Getattr9(k) == Max({size[k], 0})

Setattr9(k, len) == size' = [size EXCEPT ![k] = len]

Lesser(a, b) == IF a < b THEN a ELSE b

(* Of count bytes, those that are there. *)
Read9(k, offset, count) == Max({Lesser(count, size[k] - offset), 0})

Write9(k, offset, count) == size' = [size EXCEPT ![k] = Max({@, offset + count})]

-----------------------------------------------------------------------------
(* fsOpen *)

(* Into the ring of the first fellow, behind it.                            *)
Linked(r, k, new) ==
  IF Fellows(r, k) = {} THEN [fcb EXCEPT ![r] = new]
  ELSE LET q == CHOOSE q \in Fellows(r, k) : \A p \in Fellows(r, k) : q <= p
       IN  [fcb EXCEPT ![r] = [new EXCEPT !.link = fcb[q].link], ![q].link = r]

(* The fid is clunked first, which a failed open may have left in use.      *)
(* grants is the best mode that the host allows.  Without fsRdPerm reading  *)
(* and writing is tried first.  The sidecar is made if it is not there; the *)
(* length is the host's.                                                    *)
FsOpen(k, perm, grants) ==
  LET f == k[1] IN
  \E r \in Refnum :
    /\ Allocated(r)
    /\ IF size[<<f, Data>>] = Absent
       THEN /\ fid' = [fid EXCEPT ![r] = Unused]
            /\ UNCHANGED <<fcb, size>>
       ELSE LET len == Getattr9(k)
                writes == perm = "any" /\ grants = "RDWR"
            IN  /\ size' = [size EXCEPT ![k] = len]
                /\ IF grants = "none"
                   THEN /\ fid' = [fid EXCEPT ![r] = [at |-> k, mode |-> "closed"]]
                        /\ UNCHANGED fcb
                   ELSE /\ fid' = [fid EXCEPT ![r] =
                                     [at |-> k, mode |-> IF writes THEN "RDWR" ELSE "RDONLY"]]
                        /\ fcb' = Linked(r, k,
                                    [file |-> f, vol |-> Ours, rsrc |-> k[2] = Rsrc, write |-> writes,
                                     link |-> r, eof |-> len, mark |-> 0])
    /\ UNCHANGED grown

-----------------------------------------------------------------------------
(* fsGetEOF, fsSetEOF, fsClose *)

GetEOF(r) == fcb[r].eof

Cut(r, len) ==
  LET ring == Ring(r)
  IN  [q \in Refnum |-> IF q \in ring
         THEN [fcb[q] EXCEPT !.eof = len, !.mark = IF @ > len THEN len ELSE @]
         ELSE fcb[q]]

(* The FCB's write permission is not asked for.                             *)
FsSetEOF(r, len) ==
  /\ Setattr9(fid[r].at, len)
  /\ fcb' = Cut(r, len)
  /\ UNCHANGED <<fid, grown>>

(* Slip: the FCB before it still points to it. *)
LeftInRing(r) == [fcb EXCEPT ![r] = Free]

(* The code clears the name only; the rest is not read before it is set.    *)
Unlinked(r) ==
  [q \in Refnum |->
     IF q = r THEN Free
     ELSE IF q \in Ring(r) /\ fcb[q].link = r THEN [fcb[q] EXCEPT !.link = fcb[r].link]
     ELSE fcb[q]]

FsClose(r) ==
  /\ fcb' = Unlinked(r)
  /\ fid' = [fid EXCEPT ![r] = Unused]
  /\ UNCHANGED <<size, grown>>

-----------------------------------------------------------------------------
(* fsReadWrite: Read, Write, GetFPos and SetFPos *)

Sought(r, seek, offset) ==
  CASE seek = "AtMark" -> fcb[r].mark
    [] seek = "FromStart" -> offset
    [] seek = "FromLEOF" -> fcb[r].eof + offset
    [] seek = "FromMark" -> fcb[r].mark + offset

(* Slip: only the caller's FCB learns that the fork is longer. *)
GrownOwn(r, mark) == [fcb EXCEPT ![r].mark = mark, ![r].eof = mark]

Grown(r, mark) ==
  LET ring == Ring(r)
  IN  [q \in Refnum |->
         IF q \in ring
         THEN [fcb[q] EXCEPT !.eof = mark, !.mark = IF q = r THEN mark ELSE @] ELSE fcb[q]]

(* got of req bytes are moved, in chunks until one is short.  ioPosOffset   *)
(* becomes the mark if anything is asked for; otherwise the caller's own    *)
(* offset, whatever it is from, is compared with the length.                *)
FsReadWrite(call, r, seek, offset, req) ==
  LET mark == Sought(r, seek, offset)
      got == IF call = "Write" THEN req ELSE Read9(fid[r].at, mark, req)
      pos == IF req = 0 THEN offset ELSE mark + got
  IN  /\ call = "GetFPos" => seek = "AtMark"
      /\ IF call = "Write" /\ ~fcb[r].write
         THEN UNCHANGED <<fcb, size>>
         ELSE IF mark < 0
         THEN fcb' = [fcb EXCEPT ![r].mark = 0] /\ UNCHANGED size
         ELSE /\ mark + got <= MaxSize
              /\ IF call = "Write" THEN Write9(fid[r].at, mark, req) ELSE UNCHANGED size
              /\ fcb' = IF pos <= fcb[r].eof THEN [fcb EXCEPT ![r].mark = mark + got]
                        ELSE IF got = 0 THEN [fcb EXCEPT ![r].mark = fcb[r].eof]
                        ELSE Grown(r, pos)
      /\ UNCHANGED <<fid, grown>>

-----------------------------------------------------------------------------
(* fsGetFileInfo, setFilePBInfo: of the FCBs of the file it is the last     *)
(* that is told, 0 if there are none.                                       *)
SetFilePBInfo(f) ==
  LET own == {r \in Indexed : fcb[r].file = f}
  IN  [refNum |-> Max(own \union {0}),
       rsrcOpen |-> \E r \in own : fcb[r].rsrc, dataOpen |-> \E r \in own : ~fcb[r].rsrc,
       lgLen |-> Getattr9(<<f, Data>>), rLgLen |-> Getattr9(<<f, Rsrc>>)]

-----------------------------------------------------------------------------
(* fsDelete, fsCreate, and what others do *)

(* Slip: only data forks are looked for. *)
BusyData(f) == \E r \in Indexed : fcb[r].file = f /\ ~fcb[r].rsrc

Busy(f) == \E r \in Indexed : fcb[r].file = f

(* The file's sidecars go with it.                                          *)
FsDelete(f) ==
  /\ size[<<f, Data>>] # Absent
  /\ ~Busy(f)
  /\ size' = [k \in Fork |-> IF k[1] = f THEN Absent ELSE size[k]]
  /\ UNCHANGED <<fcb, fid, grown>>

FsCreate(f) ==
  /\ size[<<f, Data>>] = Absent
  /\ size' = [size EXCEPT ![<<f, Data>>] = 0]
  /\ grown' = grown \ {<<f, Data>>, <<f, Rsrc>>}
  /\ UNCHANGED <<fcb, fid>>

(* The host appends to a file.                                              *)
HostGrows(k) ==
  /\ k \notin grown /\ size[k] \in 0 .. MaxSize - 1
  /\ size' = [size EXCEPT ![k] = @ + 1]
  /\ grown' = grown \union {k}
  /\ UNCHANGED <<fcb, fid>>

(* Another volume's files are opened and closed, with CNIDs of its own.     *)
OtherOpens(f) ==
  /\ f \in Foreign
  /\ \E r \in Refnum :
       Allocated(r) /\ fcb' = [fcb EXCEPT ![r] = [Free EXCEPT !.file = f, !.vol = Other]]
  /\ UNCHANGED <<fid, size, grown>>

OtherCloses(r) ==
  /\ fcb[r].vol = Other /\ fcb[r].file # NoFile
  /\ fcb' = [fcb EXCEPT ![r] = Free]
  /\ UNCHANGED <<fid, size, grown>>

(* What callers ask for: the offset of a transfer at the mark is not used.   *)
Asked(call) == IF call \in {"Read", "Write"} THEN 1 .. MaxSize ELSE {0}
Given(seek, call) ==
  IF seek = "AtMark" /\ call \in {"Read", "Write"} THEN {0} ELSE -1 .. MaxSize

Next ==
  \/ \E k \in Wanted, perm \in {"read", "any"}, grants \in {"none", "RDONLY", "RDWR"} :
       FsOpen(k, perm, grants)
  \/ \E r \in Indexed, len \in 0 .. MaxSize : FsSetEOF(r, len)
  \/ \E r \in Indexed : FsClose(r)
  \/ \E r \in Refnum : OtherCloses(r)
  \/ \E r \in Indexed, call \in {"Read", "Write", "GetFPos", "SetFPos"},
        seek \in {"AtMark", "FromStart", "FromLEOF", "FromMark"} :
       \E req \in Asked(call), offset \in Given(seek, call) :
         FsReadWrite(call, r, seek, offset, req)
  \/ \E f \in File : FsDelete(f) \/ FsCreate(f) \/ OtherOpens(f)
  \/ \E k \in Shared : HostGrows(k)

Spec == Init /\ [][Next]_vars

-----------------------------------------------------------------------------
(* Types. *)
TypeOK ==
  /\ fcb \in [Refnum -> [file : File \union {NoFile}, vol : {Ours, Other}, rsrc : BOOLEAN,
                         write : BOOLEAN, link : Refnum \union {0}, eof : 0 .. MaxSize,
                         mark : 0 .. 2 * MaxSize]]
  /\ fid \in [Refnum -> [at : Fork \union {Nothing}, mode : {"closed", "RDONLY", "RDWR"}]]
  /\ size \in [Fork -> Absent .. MaxSize]
  /\ grown \subseteq Fork

(* "Arrange FCBs of the same fork into a circular linked list": following   *)
(* fcb9Link from an open FCB one meets the open FCBs of its fork, all of    *)
(* them and no others, so that "FCB linked list broken" is never reached.   *)
RingsAreForks == \A r \in Indexed : Ring(r) = Fellows(r, ForkOf(r)) \union {r}

(* GetEOF tells the fork's length on the host, through whichever FCB it was *)
(* changed, and so agrees with GetFileInfo, as long as the host does not    *)
(* lengthen the file itself; and then it is never too long.                 *)
EofTrue ==
  \A r \in Indexed :
    LET info == SetFilePBInfo(fcb[r].file)
        length == IF fcb[r].rsrc THEN info.rLgLen ELSE info.lgLen
    IN  /\ GetEOF(r) <= length
        /\ ForkOf(r) \notin grown => GetEOF(r) = length

(* Reading and writing reach the right file: the fid of an open FCB is open *)
(* on the FCB's fork, for writing if the FCB lets one write, and the file   *)
(* has not been deleted.  GetFileInfo says that a fork is open if it is,    *)
(* with a reference number of that file's, and fsDelete refuses the file.   *)
ForksReachable ==
  \A r \in Indexed :
    /\ fid[r].at = ForkOf(r) /\ size[ForkOf(r)] # Absent
    /\ fid[r].mode = IF fcb[r].write THEN "RDWR" ELSE "RDONLY"
    /\ LET info == SetFilePBInfo(fcb[r].file)
       IN  /\ Busy(fcb[r].file) /\ (IF fcb[r].rsrc THEN info.rsrcOpen ELSE info.dataOpen)
           /\ info.refNum >= r /\ fcb[info.refNum].file = fcb[r].file

(* The lists of open forks are well formed after any order of openings and  *)
(* closings, by this driver and by other file systems.                      *)
RingsInOrder == TypeOK /\ RingsAreForks
=============================================================================
