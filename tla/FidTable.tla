------------------------------ MODULE FidTable -----------------------------
(***************************************************************************)
(* The fids of 9p.c under any sequence of its calls, as a user of 9p.h may *)
(* make them: "Track use of FID 0-31 and automatically clunk when reuse is *)
(* attempted".  So a walk to a tracked fid never fails because the fid is  *)
(* in use, and the user need not clunk.                                    *)
(***************************************************************************)
EXTENDS NineP

CONSTANT
  MaxNames    (* bound: components in a walk                               *)

ASSUME FidTableAssumption == MaxNames \in Nat

fidVars == <<tree, session>>

FidsInit == tree = Tree /\ session = Attached

Paths == BoundedSeq(Name \union {DotDot}, MaxNames)

(* fids are walked from those in use; the root's stays where it is.         *)
Walk(fid, newfid, names) ==
  /\ InUse(session, fid) /\ newfid # RootFid
  /\ session' = Walk9(tree, session, fid, newfid, names).s
  /\ UNCHANGED tree

Clunk(fid) ==
  /\ fid # RootFid
  /\ session' = Clunk9(session, fid) /\ UNCHANGED tree

OpenDir(fid) ==
  /\ fid # RootFid /\ OpensDir(tree, session, fid)
  /\ session' = Opened(session, fid) /\ UNCHANGED tree

CreateFile(fid, m, new) ==
  /\ fid # RootFid /\ Creates(tree, session, fid, m) /\ ~Exists(tree, new) /\ ~IsDir(new)
  /\ tree' = [tree EXCEPT ![new] = [dir |-> session.at[fid], name |-> m]]
  /\ session' = Lcreate9(session, fid, new)

RemoveFile(fid) ==
  /\ fid # RootFid /\ InUse(session, fid)
  /\ tree' = IF Removes(tree, session, fid)
             THEN [tree EXCEPT ![session.at[fid]] = Nowhere] ELSE tree
  /\ session' = Remove9(session, fid)

(* Any call on these fids. *)
FidsNext(fids) ==
  \/ \E fid \in fids \union {RootFid}, newfid \in fids, names \in Paths : Walk(fid, newfid, names)
  \/ \E fid \in fids : Clunk(fid) \/ OpenDir(fid) \/ RemoveFile(fid)
  \/ \E fid \in fids, m \in Name, new \in Node \ {Root} : CreateFile(fid, m, new)

-----------------------------------------------------------------------------
(* Types; the bits of openfids are those of fids below 32, and what is open *)
(* is in use.                                                               *)
FidsTypeOK ==
  /\ session.at \in [Fid -> Node \union {NoFile}]
  /\ session.opened \subseteq {f \in Fid : InUse(session, f)}
  /\ session.openfids \subseteq {f \in Fid : Tracked(f)}

(* Only fids below 32 are tracked; those are clunked when they are reused,  *)
(* so that a walk to one, from whichever fid, would not be refused because  *)
(* it is in use.                                                            *)
NeverInUse ==
  \A fid, newfid \in Fid \ {RootFid} :
    InUse(session, fid) /\ Tracked(newfid) /\ newfid # fid =>
      ~InUse(Prepared(session, fid, newfid), newfid)

(* A walk to a tracked fid does as a path says: it succeeds if the whole    *)
(* path is there, and then the new fid stands for its end.  ("Respects the  *)
(* protocol's 16-component maximum", so a path may be longer.)              *)
WalksLand ==
  \A fid \in Fid, newfid \in Fid \ {RootFid}, names \in Paths :
    InUse(session, fid) /\ Tracked(newfid) =>
      LET r == Walk9(tree, session, fid, newfid, names)
          to == Denoted(tree, session.at[fid], names)
      IN  /\ ~r.err => r.s.at[newfid] = to
          /\ r.err => to = NoFile \/ newfid = fid

(* Walks are neither refused nor led astray by what was done before with    *)
(* the fids, although only some are tracked and some are reused.            *)
FidsReusable == FidsTypeOK /\ NeverInUse /\ WalksLand
=============================================================================
