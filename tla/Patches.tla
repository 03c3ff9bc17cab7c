------------------------------- MODULE Patches ------------------------------
(***************************************************************************)
(* Patches of a trap that remove themselves (patch68k.c): the drivers'     *)
(* patches of _Gestalt, which wait for the Process Manager to register     *)
(* 'os  ' at the end of startup, run lateBootHook once and are gone.       *)
(*                                                                         *)
(* The vector leads to the newest patch, each patch to the one before.     *)
(* Other software patches the trap too, and no one can take out a patch    *)
(* that another leads to: its code becomes a thunk instead.  A call is     *)
(* executed jump by jump.                                                  *)
(***************************************************************************)
EXTENDS Naturals, Sequences, SequencesExt, FiniteSetsExt

CONSTANTS
  Driver,     (* the drivers, each with a patch                            *)
  Alien,      (* patches of other software                                 *)
  Original    (* the routine in ROM                                        *)

ASSUME PatchesAssumption ==
  /\ Driver \intersect Alien = {} /\ Original \notin Driver \union Alien
  /\ IsFiniteSet(Driver \union Alien)

Patch == Driver \union Alien
Routine == Patch \union {Original}

VARIABLES
  vector,     (* where the trap leads                                      *)
  original,   (* block->original of each patch                             *)
  code,       (* of each patch: absent, whole, a thunk, or freed           *)
  at,         (* the routine that runs and where it is in it               *)
  returns,    (* return addresses: the thunks that wait for a JSR          *)
  osCall,     (* is the call the registration of 'os  '                    *)
  registered, (* has that call been made                                   *)
  reached,    (* history: how often the call has reached the original      *)
  hooked      (* history: how often lateBootHook has run, up to twice      *)

machine == <<at, returns, osCall, registered, reached>>
patchVars == <<vector, original, code, machine, hooked>>

Resting == <<Original, "resting">>

PatchesInit ==
  /\ vector = Original
  /\ original = [p \in Patch |-> Original]
  /\ code = [p \in Patch |-> "absent"]
  /\ at = Resting /\ returns = <<>> /\ osCall = FALSE /\ registered = FALSE
  /\ reached = 1
  /\ hooked = [p \in Driver |-> 0]

(* Patch68k: block->original, the code with its end that removes it, and    *)
(* the vector last.                                                         *)
Patch68k(p) ==
  /\ at = Resting /\ code[p] = "absent"
  /\ original' = [original EXCEPT ![p] = vector]
  /\ code' = [code EXCEPT ![p] = "whole"]
  /\ vector' = p
  /\ UNCHANGED <<machine, hooked>>

-----------------------------------------------------------------------------
(* A call *)

GestaltCalled(registers) ==
  /\ at = Resting /\ ~(registers /\ registered)
  /\ at' = <<vector, "start">> /\ osCall' = registers /\ reached' = 0
  /\ registered' = (registered \/ registers)
  /\ UNCHANGED <<vector, original, code, returns, hooked>>

Goto(r, place) == at' = <<r, place>>

(* The original returns: to the caller, or behind the JSR of a thunk.       *)
RunOriginal ==
  /\ at = <<Original, "start">>
  /\ reached' = reached + 1
  /\ IF returns = <<>> THEN at' = Resting /\ osCall' = FALSE /\ UNCHANGED returns
     ELSE Goto(Last(returns), "behind") /\ returns' = Front(returns) /\ UNCHANGED osCall
  /\ UNCHANGED <<vector, original, code, registered, hooked>>

RunAlien ==
  /\ at[1] \in Alien
  /\ Goto(original[at[1]], "start")
  /\ UNCHANGED <<vector, original, code, returns, osCall, registered, reached, hooked>>

JmpOriginal(p) == <<original[p], "start">>

(* The patch's test of d0 and d1, then to its hook or to the original.      *)
RunPatch(p) ==
  /\ at = <<p, "start">> /\ code[p] = "whole"
  /\ at' = IF osCall THEN <<p, "hook">> ELSE JmpOriginal(p)
  /\ UNCHANGED <<vector, original, code, returns, osCall, registered, reached, hooked>>

(* "// JMP", but 4eb9 is the JSR.                                           *)
RunThunk(p) ==
  /\ at = <<p, "start">> /\ code[p] = "thunk"
  /\ Goto(original[p], "start") /\ returns' = Append(returns, p)
  /\ UNCHANGED <<vector, original, code, osCall, registered, reached, hooked>>

(* Behind the six bytes is the rest of the patch's test.  Where it branches *)
(* depends on what the original has left in the condition codes and in d1.  *)
RunBehind(p) ==
  /\ at = <<p, "behind">>
  /\ \/ Goto(p, "hook")
     \/ Goto(original[p], "start")
  /\ UNCHANGED <<vector, original, code, returns, osCall, registered, reached, hooked>>

RunHook(p) ==
  /\ at = <<p, "hook">>
  /\ hooked' = [hooked EXCEPT ![p] = Min({@ + 1, 2})]
  /\ Goto(p, "uninstall")
  /\ UNCHANGED <<vector, original, code, returns, osCall, registered, reached>>

(* Slip: the vector is restored without a look at it. *)
Always(p) == TRUE

OnTop(p) == vector = p

Overwritten == "thunk"

(* Unpatch68k, then the jump to the original, from a block that may be free.*)
Unpatch68k(p) ==
  /\ at = <<p, "uninstall">>
  /\ IF OnTop(p)
     THEN vector' = original[p] /\ code' = [code EXCEPT ![p] = "freed"]
     ELSE UNCHANGED vector /\ code' = [code EXCEPT ![p] = Overwritten]
  /\ Goto(original[p], "start")
  /\ UNCHANGED <<original, returns, osCall, registered, reached, hooked>>

CallProceeds ==
  \/ RunOriginal \/ RunAlien
  \/ \E p \in Driver : RunPatch(p) \/ RunThunk(p) \/ RunBehind(p) \/ Unpatch68k(p)

-----------------------------------------------------------------------------
(* The routines that a call of the trap passes. *)
Chain ==
  LET link[n \in 0 .. Cardinality(Patch)] ==
        IF n = 0 THEN vector
        ELSE IF link[n - 1] = Original THEN Original ELSE original[link[n - 1]]
  IN  {link[n] : n \in 0 .. Cardinality(Patch)}

(* A patch that removes itself takes no other software's patch with it, and *)
(* the way to the original is never cut.                                    *)
OthersKept == {p \in Alien : code[p] # "absent"} \union {Original} \subseteq Chain

(* Between calls nothing leads to memory that has been given back.          *)
NothingFreedIsCalled == at = Resting => \A p \in Chain : p # Original => code[p] # "freed"

(* While no one has patched over the drivers, each hook runs once and each  *)
(* call reaches the original once.                                          *)
HookedOnce ==
  (\A p \in Driver : code[p] # "thunk") =>
    /\ \A p \in Driver : hooked[p] = IF code[p] = "freed" THEN 1
                                     ELSE IF at = <<p, "uninstall">> THEN 1 ELSE 0
    /\ at = Resting => reached = 1

(* "JMP": a call reaches the original once, patched over or not.            *)
CalledOnce == reached <= 1

(* Patches come and go without harm to each other, whoever patched last,    *)
(* and each does its work once.                                             *)
PatchesInOrder == OthersKept /\ NothingFreedIsCalled /\ HookedOnce
=============================================================================
