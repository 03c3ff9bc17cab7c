------------------------------- MODULE NineP -------------------------------
(***************************************************************************)
(* The 9P client (9p.c) and what the driver sees of the server: a tree of  *)
(* files, and "fids", numbers that the client chooses for files of it.     *)
(*                                                                         *)
(* The state is the tree and a session, which is a record of the fids: the *)
(* file each stands for, those opened, and openfids, the client's own note *)
(* of which it must clunk before it can use them anew.  transact is        *)
(* synchronous, so a call of the client is an operator from a session (and *)
(* the tree) to what follows.                                              *)
(***************************************************************************)
EXTENDS Integers, Sequences, SequencesExt, FiniteSets

CONSTANTS
  Node,       (* files and directories that ever exist; a node is its qid  *)
  Dirs,       (* those that are directories                                *)
  Root,
  NoFile,
  Name,
  NoName,     (* the name of the root and of what is nowhere               *)
  DotDot,
  Tree,       (* the files that are there at first                         *)
  Fid,
  RootFid,    (* ROOTFID, which Attach9 has given to the root              *)
  ChunkMax    (* 16 components to a Twalk                                  *)

ASSUME NinePAssumption ==
  /\ Root \in Dirs /\ Dirs \subseteq Node /\ NoFile \notin Node
  /\ NoName \notin Name /\ DotDot \notin Name \union {NoName}
  /\ RootFid \in Fid /\ Fid \subseteq Nat
  /\ ChunkMax \in Nat \ {0}

VARIABLES
  tree,       (* the directory and the name of each node                   *)
  session

Nowhere == [dir |-> NoFile, name |-> NoName]
AtRoot == [dir |-> Root, name |-> NoName]

Exists(t, n) == t[n] # Nowhere
Children(t, d) == {n \in Node \ {Root} : t[n].dir = d}
Named(t, d, m) == {n \in Children(t, d) : t[n].name = m}
IsDir(n) == n \in Dirs

(* One component: the parent, or a child of the name if there is one.       *)
Component(t, n, m) ==
  IF n = NoFile THEN NoFile
  ELSE IF m = DotDot THEN t[n].dir
  ELSE IF Named(t, n, m) = {} THEN NoFile ELSE CHOOSE c \in Named(t, n, m) : TRUE

(* The nodes that a path of names passes, NoFile from where it is broken.   *)
Route(t, from, names) ==
  LET at[i \in 0 .. Len(names)] ==
        IF i = 0 THEN from
        ELSE LET before == at[i - 1] IN Component(t, before, names[i])
  IN  at

Denoted(t, from, names) == Route(t, from, names)[Len(names)]

-----------------------------------------------------------------------------
(* A tree: a file is in a directory that is there, under a name of its own, *)
(* and no directories are in one another.                                   *)
Place == [dir : Dirs \union {NoFile}, name : Name \union {NoName}]

IsTree(t) ==
  /\ t \in [Node -> Place] /\ t[Root] = AtRoot
  /\ \A n \in Node \ {Root} : Exists(t, n) => t[n].dir \in Dirs /\ Exists(t, t[n].dir) /\ t[n].name \in Name
  /\ \A m, n \in Node \ {Root} : Exists(t, m) /\ t[m] = t[n] => m = n
  /\ \A S \in (SUBSET (Node \ {Root})) \ {{}} : \E n \in S : t[n].dir \notin S

ASSUME TreeAssumption == IsTree(Tree) /\ IsFiniteSet(Node)

-----------------------------------------------------------------------------
(* What the server does. *)

Attached == [at |-> [f \in Fid |-> IF f = RootFid THEN Root ELSE NoFile],
             opened |-> {}, openfids |-> {}]

InUse(s, fid) == s.at[fid] # NoFile

Forgotten(s, fid) ==
  [s EXCEPT !.at[fid] = NoFile, !.opened = @ \ {fid}]

Failed(s) == [s |-> s, err |-> TRUE, qids |-> <<>>]

(* Twalk: newfid must be free unless it is fid, and an open fid cannot move.*)
(* It becomes the last node if the whole path is there.  A path that is     *)
(* broken later than at its first component is not an error.                *)
Twalk(t, s, fid, newfid, names) ==
  LET at == Route(t, s.at[fid], names)
      ok == Cardinality({i \in 1 .. Len(names) : at[i] # NoFile})
  IN  IF \/ ~InUse(s, fid)
         \/ newfid # fid /\ InUse(s, newfid)
         \/ newfid = fid /\ fid \in s.opened
         \/ names # <<>> /\ ok = 0
      THEN Failed(s)
      ELSE [s |-> IF ok = Len(names) THEN [s EXCEPT !.at[newfid] = at[ok]] ELSE s,
            err |-> FALSE, qids |-> [i \in 1 .. ok |-> at[i]]]

-----------------------------------------------------------------------------
(* The client. *)

Tracked(fid) == fid < 32

Clunk9(s, fid) == [Forgotten(s, fid) EXCEPT !.openfids = @ \ {fid}]

(* Slip: no clunk before a reuse. *)
Unprepared(s, fid, newfid) == s

(* The fid is clunked if it is noted, and is not the one walked from.       *)
Prepared(s, fid, newfid) ==
  IF Tracked(newfid) /\ fid # newfid /\ newfid \in s.openfids
  THEN Clunk9(s, newfid) ELSE s

Noted(s, newfid) ==
  IF Tracked(newfid) THEN [s EXCEPT !.openfids = @ \union {newfid}] ELSE s

Chunks(names) ==
  [n \in 1 .. (IF names = <<>> THEN 1 ELSE (Len(names) + ChunkMax - 1) \div ChunkMax) |->
     SubSeq(names, (n - 1) * ChunkMax + 1,
            IF n * ChunkMax < Len(names) THEN n * ChunkMax ELSE Len(names))]

(* Each chunk is walked from fid to newfid.  An error, or fewer nodes than  *)
(* names, is the end.                                                       *)
Walking(t, s, fid, newfid, chunks) ==
  LET after[n \in 0 .. Len(chunks)] ==
        IF n = 0 THEN [s |-> Prepared(s, fid, newfid), err |-> FALSE, qids |-> <<>>]
        ELSE LET r == after[n - 1]
                 w == Twalk(t, r.s, fid, newfid, chunks[n])
             IN  IF r.err THEN r
                 ELSE [s |-> w.s, err |-> w.err \/ Len(w.qids) < Len(chunks[n]),
                       qids |-> r.qids \o w.qids]
  IN  after

(* newfid is noted if the whole path is there. *)
Walk9(t, s, fid, newfid, names) ==
  LET r == Walking(t, s, fid, newfid, Chunks(names))[Len(Chunks(names))]
  IN  IF r.err THEN r ELSE [r EXCEPT !.s = Noted(@, newfid)]

(* Lopen9 of a directory to list it. *)
OpensDir(t, s, fid) ==
  InUse(s, fid) /\ fid \notin s.opened /\ Exists(t, s.at[fid]) /\ IsDir(s.at[fid])

Opened(s, fid) == [s EXCEPT !.opened = @ \union {fid}]

(* Remove9: the server forgets the fid even if the file stays; openfids is  *)
(* not touched.                                                             *)
Removes(t, s, fid) ==
  /\ InUse(s, fid) /\ s.at[fid] # Root
  /\ Exists(t, s.at[fid]) /\ Children(t, s.at[fid]) = {}

Remove9(s, fid) == Forgotten(s, fid)

(* Lcreate9 and Mkdir9: a new node in the directory of the fid, under a     *)
(* name that is free.  Lcreate9 turns the fid into the new open file.       *)
Creates(t, s, fid, m) ==
  /\ InUse(s, fid) /\ fid \notin s.opened
  /\ Exists(t, s.at[fid]) /\ IsDir(s.at[fid])
  /\ Named(t, s.at[fid], m) = {}

Lcreate9(s, fid, new) == Opened([s EXCEPT !.at[fid] = new], fid)

(* Renameat9 within one directory.  What bears the new name is replaced, if *)
(* it is of the same kind and empty.                                        *)
Renames(t, d, old, new) ==
  /\ d \in Dirs /\ Named(t, d, old) # {}
  /\ \A n \in Named(t, d, old), o \in Named(t, d, new) :
       IsDir(o) = IsDir(n) /\ Children(t, o) = {}

Renameat9(t, d, old, new) ==
  [n \in Node |-> IF n \in Named(t, d, old) THEN [dir |-> d, name |-> new]
                  ELSE IF n \in Named(t, d, new) THEN Nowhere ELSE t[n]]
=============================================================================
