------------------------------- MODULE Folders ------------------------------
(***************************************************************************)
(* Looking into directories by index (fsGetFileInfo, device-9p.c) through  *)
(* the listing that the driver keeps between calls: fid 22 open on a       *)
(* directory, a buffer of entries received (Readdir9), the number of the   *)
(* last entry given out.  Other calls, which use other fids (FidTable),    *)
(* make and remove files meanwhile.                                        *)
(*                                                                         *)
(* browse, which Catalog models, is here the walk from the root that it    *)
(* comes to when nothing has moved.  The host lists a directory in the     *)
(* order of Cookie, which stays what it is while files come and go.        *)
(***************************************************************************)
EXTENDS FidTable, FiniteSetsExt

CONSTANTS
  Cookie,     (* of each node, what Rreaddir says is its offset            *)
  Hidden,     (* names that visName conceals: sidecars and dot files       *)
  ListFid,    (* LISTFID                                                   *)
  MyFid,      (* MYFID                                                     *)
  InBuffer,   (* entries that one Treaddir brings                          *)
  MaxIndex    (* bound: the indices asked for                              *)

ASSUME FoldersAssumption ==
  /\ {ListFid, MyFid} \subseteq {f \in Fid \ {RootFid} : Tracked(f)} /\ ListFid # MyFid
  /\ Hidden \subseteq Name
  /\ \A m, n \in Node : Cookie[m] \in Nat \ {0} /\ (Cookie[m] = Cookie[n] => m = n)
  /\ InBuffer \in Nat \ {0} /\ MaxIndex \in Nat
  \* MaxNames bounds the paths of files, too
  /\ \A d \in Dirs : Exists(Tree, d) =>
       \E names \in BoundedSeq(Name, MaxNames - 1) : Denoted(Tree, Root, names) = d

VARIABLES
  lastCNID, lastIdx,    (* as in fsGetFileInfo; no directory: NoFile       *)
  scratch,              (* Readdir9's: entries not used, the next offset   *)
  since                 (* history, since the directory was listed: the    *)
                        (* calls of which kind, the entries that have been *)
                        (* there all the time, has any come or gone        *)

listVars == <<lastCNID, lastIdx, scratch, since>>
foldersVars == <<fidVars, listVars>>

GetFileInfo == "GetFileInfo"
GetCatInfo == "GetCatInfo"

InitReaddir9 == [unused |-> <<>>, next |-> 0]
NotListed == [traps |-> {}, stayed |-> {}, changed |-> FALSE]

FoldersInit ==
  /\ FidsInit
  /\ lastCNID = NoFile /\ lastIdx = 0
  /\ scratch = InitReaddir9 /\ since = NotListed

-----------------------------------------------------------------------------
(* Readdir9 *)

(* What Treaddir brings, a buffer at a time, from an offset to the end.     *)
FromHost(d, offset) ==
  LET entries == {[node |-> n, name |-> tree[n].name] :
                    n \in {c \in Children(tree, d) : Cookie[c] > offset}}
  IN  CHOOSE s \in [1 .. Cardinality(entries) -> entries] :
        \A i, j \in DOMAIN s : i < j => Cookie[s[i].node] < Cookie[s[j].node]

(* The offset of the request that follows when the buffer is used up.       *)
NextRequest(b) == IF b.unused = <<>> THEN b.next ELSE Cookie[Last(b.unused).node]

(* All that calls of Readdir9 will return.                                  *)
Readable(d, b) == b.unused \o FromHost(d, NextRequest(b))

(* Of those, how many have been received after k calls.                     *)
Received(b, k, all) ==
  LET requests == (Max({k - Len(b.unused), 0}) + InBuffer - 1) \div InBuffer
  IN  Min({Len(b.unused) + InBuffer * requests, all})

(* Slip: what was received and not used is lost between calls. *)
UsedUp(d, b, k) ==
  LET coming == Readable(d, b)
      received == Received(b, k, Len(coming))
  IN  [unused |-> <<>>, next |-> Cookie[coming[received].node]]

(* The buffer after k calls. *)
Used(d, b, k) ==
  LET coming == Readable(d, b)
  IN  [unused |-> SubSeq(coming, k + 1, Received(b, k, Len(coming))),
       next |-> Cookie[coming[k].node]]

visName(m) == m \notin Hidden

Counts(trap, e) == ~(trap = GetFileInfo /\ IsDir(e.node)) /\ visName(e.name)

-----------------------------------------------------------------------------
(* fsGetFileInfo with a positive index *)

(* The path of a file that is there, from the root.                         *)
PathTo(n) == CHOOSE names \in BoundedSeq(Name, MaxNames) : Denoted(tree, Root, names) = n

(* What browse comes to, without a name: the walk of the whole path, or, if *)
(* the directory has gone, a free fid.                                      *)
Browsed(s, f, d) ==
  IF Exists(tree, d) THEN Walk9(tree, s, RootFid, f, PathTo(d)).s ELSE Clunk9(s, f)

(* Slip: a call for the index just given out goes on from there. *)
NotBefore(d, idx) == d = lastCNID /\ idx >= lastIdx

Cached(d, idx) == d = lastCNID /\ idx > lastIdx

(* Where in a listing the call begins: the entries given out, the buffer.   *)
Listing(d, idx) ==
  IF Cached(d, idx) THEN [idx |-> lastIdx, buffer |-> scratch]
                    ELSE [idx |-> 0, buffer |-> InitReaddir9]

(* A new listing needs the directory to be opened.                          *)
Listable(d, idx) ==
  Cached(d, idx) \/ (Exists(tree, d) /\ OpensDir(tree, Browsed(session, ListFid, d), ListFid))

ListedFor(d, idx) ==
  IF Cached(d, idx) THEN session ELSE Opened(Browsed(session, ListFid, d), ListFid)

Coming(d, idx) == Readable(d, Listing(d, idx).buffer)

(* Where the fast-forward ends: how many entries it reads, 0 if there are   *)
(* too few.                                                                 *)
FastForward(trap, d, idx) ==
  LET coming == Coming(d, idx)
      Counted(k) == Listing(d, idx).idx + Cardinality({i \in 1 .. k : Counts(trap, coming[i])})
  IN  Min({k \in DOMAIN coming : Counted(k) = idx} \union {Len(coming) + 1}) % (Len(coming) + 1)

(* The entry that the call finds, if the directory can be listed.           *)
EntryFor(trap, d, idx) ==
  LET k == FastForward(trap, d, idx) IN IF k = 0 THEN NoFile ELSE Coming(d, idx)[k].node

(* setDirPBInfo, setFilePBInfo: MYFID is browsed to the entry; a directory  *)
(* is listed and clunked.  If the entry has gone, browse leaves MYFID in    *)
(* the directory, or free if that is the root, which the call ignores.      *)
Described(s, d, n) ==
  IF Exists(tree, n)
  THEN LET b == Browsed(s, MyFid, n) IN IF IsDir(n) THEN Clunk9(b, MyFid) ELSE b
  ELSE IF d = Root THEN Clunk9(s, MyFid) ELSE Browsed(s, MyFid, d)

Info(trap, d, idx) ==
  LET k == FastForward(trap, d, idx)
      again == Cached(d, idx)
  IN  /\ Listable(d, idx)
      /\ IF k = 0
         THEN /\ lastCNID' = NoFile /\ lastIdx' = 0 /\ scratch' = InitReaddir9
              /\ session' = Clunk9(ListedFor(d, idx), ListFid) /\ since' = NotListed
         ELSE /\ lastCNID' = d /\ lastIdx' = idx
              /\ scratch' = Used(d, Listing(d, idx).buffer, k)
              /\ session' = Described(ListedFor(d, idx), d, EntryFor(trap, d, idx))
              /\ since' = [traps |-> {trap} \union (IF again THEN since.traps ELSE {}),
                           stayed |-> IF again THEN since.stayed ELSE Children(tree, d),
                           changed |-> again /\ since.changed]
      /\ UNCHANGED tree

Invalid == NoFile

(* The directory has gone (or cannot be opened).                            *)
NoInfo(d, idx) ==
  /\ ~Listable(d, idx)
  /\ lastCNID' = Invalid /\ lastIdx' = 0 /\ since' = NotListed
  /\ session' = Clunk9(session, ListFid)
  /\ UNCHANGED <<tree, scratch>>

(* All other calls.                                                         *)
OtherCalls ==
  /\ FidsNext(Fid \ {RootFid, ListFid})
  /\ since' = IF lastCNID = NoFile THEN since
              ELSE [since EXCEPT !.stayed = @ \intersect Children(tree', lastCNID),
                                 !.changed = @ \/ Children(tree, lastCNID) # Children(tree', lastCNID)]
  /\ UNCHANGED <<lastCNID, lastIdx, scratch>>

Indices == 1 .. MaxIndex
Traps == {GetFileInfo, GetCatInfo}

FoldersNext ==
  \/ OtherCalls
  \/ \E trap \in Traps, d \in Dirs, idx \in Indices : Info(trap, d, idx)
  \/ \E d \in Dirs, idx \in Indices : NoInfo(d, idx)

FoldersSpec == FoldersInit /\ [][FoldersNext]_foldersVars

-----------------------------------------------------------------------------
FoldersTypeOK ==
  /\ lastCNID \in Dirs \union {NoFile} /\ lastIdx \in 0 .. MaxIndex
  /\ Len(scratch.unused) < InBuffer

(* The calls that a listing would serve, without being mixed up: all of one *)
(* kind, on a directory in which nothing has come or gone.                  *)
Served(trap, d, idx) == Cached(d, idx) /\ since.traps \subseteq {trap}

Visible(trap, nodes) == {n \in nodes : Counts(trap, [node |-> n, name |-> tree[n].name])}
Before(nodes, n) == {m \in nodes : Cookie[m] < Cookie[n]}

(* "Cache Readdir9 to avoid quadratically relisting the directory           *)
(* per-call": what a call finds is what the directory has at its index, as  *)
(* if it were listed for this call.                                         *)
FoundAt(trap, d, idx) ==
  LET e == EntryFor(trap, d, idx)
      there == Visible(trap, Children(tree, d))
  IN  IF e = NoFile THEN Cardinality(there) < idx
      ELSE e \in there /\ Cardinality(Before(there, e)) = idx - 1

AsRelisted ==
  \A trap \in Traps, d \in Dirs, idx \in Indices :
    Exists(tree, d) /\ (Cached(d, idx) => ~since.changed) => FoundAt(trap, d, idx)

(* The same, of programs that ask for all entries of a directory by calls   *)
(* of one kind, whatever else is called in between.                         *)
OneKindAsRelisted ==
  \A trap \in Traps, d \in Dirs, idx \in Indices :
    /\ Exists(tree, d)
    /\ Cached(d, idx) => Served(trap, d, idx) /\ ~since.changed
    => FoundAt(trap, d, idx)

(* While files come and go, a program that asks for one index after the     *)
(* other until there are no more misses none of those that are there all    *)
(* the time: never do more of them come before an entry than its index lets.*)
NoneMissed ==
  \A trap \in Traps, d \in Dirs, idx \in Indices :
    Served(trap, d, idx) =>
      LET e == EntryFor(trap, d, idx)
          stayed == Visible(trap, since.stayed)
      IN  Cardinality(IF e = NoFile THEN stayed ELSE Before(stayed, e)) < idx

(* The kept listing is that of its directory: nothing that other calls do   *)
(* with fids of their own closes fid 22 or moves it.                        *)
ListingKept ==
  lastCNID # NoFile => session.at[ListFid] = lastCNID /\ ListFid \in session.opened

(* The kept listing stays in order while files come and go and other calls  *)
(* are made: it is still its directory's, and it skips no entry.            *)
ListingInOrder == FoldersTypeOK /\ ListingKept /\ NoneMissed
=============================================================================
