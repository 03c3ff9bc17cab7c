------------------------------- MODULE Catalog -----------------------------
(***************************************************************************)
(* How the 9P driver finds files (browse and its callers, device-9p.c).    *)
(* The File Manager names a file by the number of a directory, its CNID,   *)
(* and a path from there.  9P names it by a path from the root.  The       *)
(* driver therefore notes the parent and the name of every CNID it gives   *)
(* out, and to find one again walks the noted path, checks on the way that *)
(* the expected CNIDs are met, and where they are not lists the directory. *)
(*                                                                         *)
(* Someone else, the host, may rename, move, make and remove files: between*)
(* two calls, or during one.  A CNID is computed from the qid, so here a   *)
(* node is its own CNID.  Names are compared as the server does.           *)
(*                                                                         *)
(* File Manager calls are synchronous and run one at a time; a step is one *)
(* exchange with the server, or several that the host cannot tell apart.   *)
(***************************************************************************)
EXTENDS NineP, FiniteSetsExt

CONSTANTS
  Known,      (* those whose CNIDs the driver has given out before         *)
  Worlds      (* what a behaviour may hold: [rel, calls, moves] bound the  *)
              (* components of a relative path, the calls and what the     *)
              (* host does; dots: paths have empty components, which mean  *)
              (* ".."; interferes: the host acts during calls too          *)

Errors == {"none", "fnfErr", "dirNFErr"}

ASSUME CatalogAssumption ==
  /\ Known \subseteq Node /\ \A n \in Known \ {Root} : Tree[n].dir \in Known
  /\ Worlds \subseteq [rel : Nat, calls : Nat, moves : Nat,
                         dots : BOOLEAN, interferes : BOOLEAN]
  /\ {9, 10, 11, 12, 27} \subseteq Fid \ {RootFid} /\ Node \intersect Errors = {}

VARIABLES
  db,         (* the CNID database: the noted directory and name of each   *)
  pc, op,     (* where the call in progress is, and what it is for         *)
  asked,      (* the CNID and the relative path of the latest browse       *)
  fid, comps, progress, tip, qids,    (* as in browse                      *)
  back,       (* components to climb back after a wrong CNID               *)
  listed,     (* the name that listing the directory found                 *)
  result,     (* what browse returns, a CNID or an error                   *)
  child, newName,                     (* as in fsRename                    *)
  calls, moves,                       (* counted for the bounds            *)
  world                               (* which of Worlds this is           *)

browseVars == <<comps, progress, tip, qids, back, listed>>
callVars == <<op, asked, fid, child, newName>>
vars == <<tree, session, db, pc, browseVars, callVars, result, calls, moves, world>>

Found == result \in Node
Names(path) == [i \in DOMAIN path |-> path[i].name]

-----------------------------------------------------------------------------
(* The database. *)

(* From a CNID upwards through noted parents; NoFile if one is not noted.   *)
Upwards(c) ==
  LET up[i \in 0 .. Cardinality(Node)] ==
        IF i = 0 THEN c
        ELSE LET n == up[i - 1] IN IF n \in {Root, NoFile} THEN n ELSE db[n].dir
  IN  up

Ends(c) == {i \in DOMAIN Upwards(c) : Upwards(c)[i] \in {Root, NoFile}}
Endless(c) == Ends(c) = {}

(* setPath: the components from the root down to a CNID, each with the      *)
(* CNID expected there.                                                     *)
BadCNID(c) == Upwards(c)[Min(Ends(c))] = NoFile
PathOf(c) ==
  LET depth == Min(Ends(c))
      at(i) == Upwards(c)[depth - i]
  IN  [i \in 1 .. depth |-> [name |-> db[at(i)].name, expect |-> at(i)]]

(* appendRelativePath: components of which nothing is expected. *)
Unexpected(rel) == [i \in DOMAIN rel |-> [name |-> rel[i], expect |-> NoFile]]

(* The trail of names and nodes with ".." removed, grown by a component. *)
Trailed(trail, name, node) ==
  IF name = DotDot THEN Front(trail) ELSE Append(trail, [name |-> name, node |-> node])

Trails(path, nodes) ==
  LET trail[i \in 0 .. Len(path)] ==
        IF i = 0 THEN <<>> ELSE Trailed(trail[i - 1], path[i].name, nodes[i])
  IN  trail

(* Slip: nothing is noted. *)
NothingNoted(c) == FALSE

(* What the database holds already is left alone. *)
NotedFor(c) == c.expect = NoFile

(* setDB for each component that was not expected, along the trail.         *)
Noting(path, nodes) ==
  LET noted[i \in 0 .. Len(path)] ==
        LET trail == Trails(path, nodes)[i]
            dir == IF Len(trail) = 1 THEN Root ELSE trail[Len(trail) - 1].node
        IN  IF i = 0 THEN db
            ELSE IF NotedFor(path[i])
            THEN [noted[i - 1] EXCEPT ![Last(trail).node] = [dir |-> dir, name |-> Last(trail).name]]
            ELSE noted[i - 1]
  IN  noted[Len(path)]

-----------------------------------------------------------------------------
(* browse *)

Return(r) == pc' = "returned" /\ result' = r

NoPath ==
  /\ comps' = <<>> /\ progress' = 0 /\ tip' = RootFid
  /\ qids' = <<>> /\ back' = 0 /\ listed' = NoName

Browse(f, cnid, rel) ==
  /\ asked' = [cnid |-> cnid, rel |-> rel] /\ fid' = f
  /\ IF Endless(cnid)
     THEN pc' = "hung" /\ NoPath /\ UNCHANGED <<session, result>>
     ELSE IF BadCNID(cnid)
     THEN Return("dirNFErr") /\ NoPath /\ UNCHANGED session
     ELSE IF PathOf(cnid) \o rel = <<>>
     THEN /\ session' = Walk9(tree, session, RootFid, f, <<>>).s
          /\ Return(Root) /\ NoPath
     ELSE /\ pc' = "walk" /\ progress' = 0 /\ tip' = RootFid
          /\ comps' = PathOf(cnid) \o Unexpected(rel)
          /\ qids' = <<>> /\ back' = 0 /\ listed' = NoName
          /\ result' = "none" /\ UNCHANGED session

TryDepth == Min({Len(comps), progress + ChunkMax})

Onward(depth) == IF depth < Len(comps) THEN "walk" ELSE "found"

(* The components whose CNIDs are not those expected. *)
Wrong(from, to, nodes) ==
  {i \in from + 1 .. to : comps[i].expect # NoFile /\ comps[i].expect # nodes[i]}

(* As many components as one request may have.  If they are there, the tip  *)
(* of the path moves; what follows a wrong CNID is discarded.               *)
BrowseWalk ==
  /\ pc = "walk"
  /\ \E w \in {Walk9(tree, session, tip, fid, Names(SubSeq(comps, progress + 1, TryDepth)))} :
       LET nodes == qids \o w.qids
           whole == Len(nodes) = TryDepth
           wrong == IF whole THEN Wrong(progress, TryDepth, nodes) ELSE {}
           keep == IF ~whole THEN progress ELSE Min(wrong \union {TryDepth + 1}) - 1
       IN  /\ session' = w.s
           /\ tip' = IF whole THEN fid ELSE tip
           /\ progress' = keep /\ qids' = SubSeq(nodes, 1, keep)
           /\ back' = IF whole THEN TryDepth - keep ELSE 0
           /\ pc' = IF wrong # {} THEN "back" ELSE IF whole THEN Onward(keep) ELSE "search"
  /\ UNCHANGED <<tree, db, comps, listed, callVars, result, calls, moves, world>>

(* Slip: the tip stays where the walk has led. *)
NoWayBack(n) == <<>>

WayBack(n) == [i \in 1 .. n |-> DotDot]

BrowseBack ==
  /\ pc = "back"
  /\ session' = Walk9(tree, session, tip, fid, WayBack(back)).s
  /\ back' = 0 /\ pc' = "search"
  /\ UNCHANGED <<tree, db, comps, progress, tip, qids, listed, callVars, result, calls, moves, world>>

Listed(s) == Clunk9(Opened(s, 27), 27)

(* List the directory at the tip for the CNID expected next; there is no    *)
(* match for a component that has only a name.                              *)
BrowseSearch ==
  /\ pc = "search"
  /\ LET s == Walk9(tree, session, tip, 27, <<>>).s
         want == comps[progress + 1].expect
     IN  IF ~OpensDir(tree, s, 27)
         THEN session' = s /\ Return("fnfErr") /\ UNCHANGED listed
         ELSE /\ session' = Listed(s)
              /\ IF want # NoFile /\ want \in Children(tree, s.at[27])
                 THEN pc' = "enter" /\ listed' = tree[want].name /\ UNCHANGED result
                 ELSE Return("fnfErr") /\ UNCHANGED listed
  /\ UNCHANGED <<tree, db, comps, progress, tip, qids, back, callVars, calls, moves, world>>

(* Slip: the component entered is not counted. *)
NotCounted == progress

Counted == progress + 1

BrowseEnter ==
  /\ pc = "enter"
  /\ LET w == Walk9(tree, session, tip, fid, <<listed>>)
     IN  /\ session' = w.s
         /\ IF w.err
            THEN Return("fnfErr") /\ UNCHANGED <<tip, qids, progress>>
            ELSE /\ tip' = fid /\ progress' = Counted
                 /\ qids' = Append(qids, comps[progress + 1].expect)
                 /\ pc' = Onward(Counted) /\ UNCHANGED result
  /\ UNCHANGED <<tree, db, comps, back, listed, callVars, calls, moves, world>>

BrowseFound ==
  /\ pc = "found"
  /\ db' = Noting(comps, qids)
  /\ Return(Last(qids))
  /\ UNCHANGED <<tree, session, browseVars, callVars, calls, moves, world>>

-----------------------------------------------------------------------------
(* The calls.  Each begins with browse, and what it does next is up to the  *)
(* result.                                                                  *)

RelPaths == BoundedSeq(Name \union (IF world.dots THEN {DotDot} ELSE {}), world.rel)

(* The trail of a path is empty somewhere.  The code then reads before the  *)
(* start of its arrays (device-9p.c:1563), so such paths are left out.       *)
IsClimb(path) ==
  \E n \in DOMAIN path :
    2 * Cardinality({i \in 1 .. n : path[i].name = DotDot}) >= n

Sensible(cnid, rel) ==
  Endless(cnid) \/ BadCNID(cnid) \/ ~IsClimb(PathOf(cnid) \o Unexpected(rel))

(* The driver serves one call at a time; so many are made. *)
NextCall == pc = "idle" /\ calls < world.calls

Call(o, cnid, rel, new) ==
  /\ Sensible(cnid, rel)
  /\ calls' = calls + 1 /\ op' = o /\ newName' = new
  /\ Browse(10, cnid, rel)
  /\ UNCHANGED <<tree, db, child, moves, world>>

(* fsGetFileInfo, fsSetVol, fsMakeFSSpec, fsOpenWD and others, with fids of *)
(* their own. *)
Lookup == NextCall /\ \E c \in Node, rel \in RelPaths : Call("lookup", c, rel, NoName)
FsCreate == NextCall /\ \E c \in Node, rel \in RelPaths : Call("create", c, rel, NoName)
FsDelete == NextCall /\ \E c \in Node, rel \in RelPaths : Call("delete", c, rel, NoName)
FsRename ==
  NextCall /\ \E c \in Node, rel \in RelPaths, new \in Name : Call("rename", c, rel, new)

HasLeaf(path) == path # <<>> /\ Last(path) # DotDot

(* pathSplitLeaf *)
PathSplitLeaf(path) == [dir |-> Front(path), name |-> Last(path)]

(* The call returns, and its variables with it. *)
Idle ==
  /\ pc' = "idle" /\ op' = "none" /\ asked' = [cnid |-> Root, rel |-> <<>>]
  /\ fid' = RootFid /\ NoPath /\ result' = "none"
  /\ child' = Root /\ newName' = NoName

Finished ==
  /\ pc = "returned"
  /\ \/ op = "lookup"
     \/ op \in {"delete", "rename", "createIn"} /\ ~Found
     \/ op = "create" /\ ~(result = "fnfErr" /\ HasLeaf(asked.rel))
     \/ op = "rename" /\ result = Root                 \* renames the disk
     \/ op = "dupcheck" /\ Found
  /\ Idle
  /\ UNCHANGED <<tree, session, db, calls, moves, world>>

(* fsCreate: the name is new, so find the directory that it will be in. *)
FsCreateIn ==
  /\ pc = "returned" /\ op = "create" /\ result = "fnfErr" /\ HasLeaf(asked.rel)
  /\ op' = "createIn" /\ newName' = PathSplitLeaf(asked.rel).name
  /\ Browse(10, asked.cnid, PathSplitLeaf(asked.rel).dir)
  /\ UNCHANGED <<tree, db, child, calls, moves, world>>

(* Lcreate9 or Mkdir9, then Clunk9.  Of the new node only a directory's     *)
(* CNID is given out, and noted.                                            *)
FsCreateMake ==
  /\ pc = "returned" /\ op = "createIn" /\ Found
  /\ \E new \in Node \ {Root} :
       LET place == [dir |-> session.at[10], name |-> newName]
       IN  /\ ~Exists(tree, new) /\ Creates(tree, session, 10, newName)
           /\ tree' = [tree EXCEPT ![new] = place]
           /\ session' = Clunk9(IF IsDir(new) THEN session ELSE Lcreate9(session, 10, new), 10)
           /\ db' = IF IsDir(new)
                    THEN [db EXCEPT ![new] = [dir |-> result, name |-> newName]] ELSE db
  /\ Idle
  /\ UNCHANGED <<calls, moves, world>>

(* The server need not make it: ioErr. *)
FsCreateFails ==
  /\ pc = "returned" /\ op = "createIn" /\ Found
  /\ Idle
  /\ UNCHANGED <<tree, session, db, calls, moves, world>>

(* fsDelete: the fid of the directory is wanted for the sidecars. *)
FsDeleteRemove ==
  /\ pc = "returned" /\ op = "delete" /\ Found
  /\ LET s == Walk9(tree, session, 10, 9, <<DotDot>>).s
     IN  /\ tree' = IF Removes(tree, s, 10) THEN [tree EXCEPT ![s.at[10]] = Nowhere] ELSE tree
         /\ session' = Remove9(s, 10)
  /\ Idle
  /\ UNCHANGED <<db, calls, moves, world>>

(* fsRename: no file may have the new name yet.                             *)
FsRenameCheck ==
  /\ pc = "returned" /\ op = "rename" /\ Found /\ result # Root
  /\ op' = "dupcheck" /\ child' = result
  /\ Browse(12, db[result].dir, <<newName>>)
  /\ UNCHANGED <<tree, db, newName, calls, moves, world>>

(* Slip: the error of the check is not looked at. *)
AnyName == TRUE

NewNameFree == ~Found

(* The name to rename is the noted one. *)
FsRenameCommit ==
  /\ pc = "returned" /\ op = "dupcheck" /\ NewNameFree
  /\ LET s == Walk9(tree, session, 10, 11, <<DotDot>>).s
         old == db[child].name
     IN  /\ session' = s
         /\ IF Renames(tree, s.at[11], old, newName)
            THEN /\ tree' = Renameat9(tree, s.at[11], old, newName)
                 /\ db' = [db EXCEPT ![child] = [dir |-> db[child].dir, name |-> newName]]
            ELSE UNCHANGED <<tree, db>>
  /\ Idle
  /\ UNCHANGED <<calls, moves, world>>

(* setPath follows the noted parents for ever. *)
Hangs == pc = "hung" /\ UNCHANGED vars

-----------------------------------------------------------------------------
(* The host. *)

Below(n) ==     \* n and all that is in it
  {m \in Node : \E i \in 0 .. Cardinality(Node) :
     LET up[j \in 0 .. Cardinality(Node)] == IF j = 0 THEN m ELSE tree[up[j - 1]].dir
     IN  m # Root /\ Exists(tree, m) /\ (\A j \in 0 .. i - 1 : up[j] # Root) /\ up[i] = n}

Vacant(d, m) == Named(tree, d, m) = {}
Present(d) == IsDir(d) /\ Exists(tree, d)

HostActs ==
  /\ moves < world.moves /\ (world.interferes \/ pc = "idle")
  /\ moves' = moves + 1
  /\ UNCHANGED <<session, db, pc, browseVars, callVars, result, calls, world>>

(* Renames or moves a file, or makes one that was not there, perhaps with   *)
(* the inode number of one that was. *)
HostPlaces ==
  /\ HostActs
  /\ \E n \in Node \ {Root}, d \in Dirs, m \in Name :
       /\ Present(d) /\ Vacant(d, m) /\ d \notin Below(n)
       /\ tree' = [tree EXCEPT ![n] = [dir |-> d, name |-> m]]

HostRemoves ==
  /\ HostActs
  /\ \E n \in Node \ {Root} :
       /\ Exists(tree, n) /\ Children(tree, n) = {}
       /\ tree' = [tree EXCEPT ![n] = Nowhere]

-----------------------------------------------------------------------------
Init ==
  /\ tree = Tree /\ session = Attached
  /\ db = [n \in Node |-> IF n \in Known THEN Tree[n] ELSE Nowhere]
  /\ pc = "idle" /\ op = "none" /\ asked = [cnid |-> Root, rel |-> <<>>]
  /\ fid = RootFid /\ comps = <<>> /\ progress = 0 /\ tip = RootFid /\ qids = <<>>
  /\ back = 0 /\ listed = NoName /\ result = "none"
  /\ child = Root /\ newName = NoName
  /\ calls = 0 /\ moves = 0 /\ world \in Worlds

Driver ==
  \/ BrowseWalk \/ BrowseBack \/ BrowseSearch \/ BrowseEnter \/ BrowseFound
  \/ Finished \/ FsCreateIn \/ FsCreateMake \/ FsCreateFails
  \/ FsDeleteRemove \/ FsRenameCheck \/ FsRenameCommit

Next ==
  \/ Lookup \/ FsCreate \/ FsDelete \/ FsRename
  \/ Driver \/ Hangs
  \/ HostPlaces \/ HostRemoves

Spec == Init /\ [][Next]_vars

-----------------------------------------------------------------------------
(* Types; how far a path has been followed; and nothing is left open.       *)
TypeOK ==
  /\ \A n \in Node : tree[n].dir \in Dirs \union {NoFile}
  /\ \A n \in Node : db[n].dir \in Node \union {NoFile} /\ db[n].name \in Name \union {NoName}
  /\ result \in Node \union Errors
  /\ progress \in 0 .. Len(comps) /\ tip \in {RootFid, fid}
  /\ Len(qids) = progress /\ progress + back <= Len(comps)
  /\ session.opened = {}

(* All noted parents of a CNID, up to the root, are where it really is.     *)
Connected(c) ==
  ~Endless(c) /\ \A i \in DOMAIN Upwards(c) :
                   LET n == Upwards(c)[i] IN n = Root \/ (n # NoFile /\ db[n].dir = tree[n].dir)

Returned == pc = "returned"

(* The host lets a call finish before it acts. *)
HostWaits == ~world.interferes

(* A CNID that browse returns is that of the file asked for, even if the    *)
(* host has since moved the directory asked from and put others in the      *)
(* place of those on the path; and the fid stands for it.                   *)
FoundIsMeant ==
  Returned /\ Found /\ HostWaits =>
    result = Denoted(tree, asked.cnid, asked.rel) /\ session.at[fid] = result

(* No file is reported missing that is there, if only names have changed on *)
(* the noted path.                                                          *)
MissingIsMissing ==
  Returned /\ ~Found /\ HostWaits /\ Connected(asked.cnid) =>
    Denoted(tree, asked.cnid, asked.rel) = NoFile

(* browse: "We are about to return a CNID to the caller, which MUST be      *)
(* connected to the root by the hash-table CNID database, otherwise         *)
(* attempts to use it will fnfErr".                                         *)
ReturnedIsConnected == Returned /\ Found /\ HostWaits => Connected(result)

(* The noted parents never go around in a circle, in which setPath would    *)
(* run for ever.                                                            *)
NoCircle == HostWaits => \A n \in Node : ~Endless(n)

(* "Unlike Unix rename, this is not permitted to overwrite an existing      *)
(* file", nor does any other call but Delete make a file vanish.            *)
NothingOverwritten ==
  [][pc = "returned" /\ op # "delete" /\ HostWaits =>
       \A n \in Node : Exists(tree, n) => Exists(tree', n)]_vars

(* fsRename: "The old name is already in Unicode, and correct thanks to     *)
(* browse()".  So if a file is renamed, it is the one asked for.            *)
RenamesTheChild ==
  [][pc = "returned" /\ op = "dupcheck" /\ tree' # tree => tree'[child] # tree[child]]_vars

(* Delete removes the file asked for and no other. *)
DeletesTheNamed ==
  [][pc = "returned" /\ op = "delete" /\ HostWaits /\ tree' # tree =>
       LET n == Denoted(tree, asked.cnid, asked.rel)
       IN  n \in Node /\ tree' = [tree EXCEPT ![n] = Nowhere]]_vars

(* Every call comes back, whatever the host does meanwhile, though a request*)
(* advances the path by a part only and browse may have to go back and      *)
(* list: no step of browse is without progress along the path or within the *)
(* round of walk, way back and listing for one component.                   *)
Round == <<"walk", "back", "search", "enter", "found">>

BrowseAdvances ==
  [][\A i, j \in DOMAIN Round :
       pc = Round[i] /\ pc' = Round[j] /\ moves' = moves =>
         progress' > progress \/ (progress' = progress /\ j > i)]_vars

(* What browse finds, and what it does not, is true of the directory tree;  *)
(* and it leaves no directory open.                                         *)
BrowseTrue == TypeOK /\ FoundIsMeant /\ MissingIsMissing

(* The noted parents lead from every CNID given out to the root.            *)
DatabaseLeadsToRoot == ReturnedIsConnected /\ NoCircle

(* A file vanishes only by a Delete that names it.                          *)
OnlyDeleteRemoves == NothingOverwritten /\ DeletesTheNamed
=============================================================================
