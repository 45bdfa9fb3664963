-------------------------- MODULE RegisterAllocation --------------------------
(***************************************************************************)
(* What an allocator promises to the code generator, whatever its           *)
(* strategy: the intervals are considered one after the other; each one is  *)
(* given a register that may hold it or is left in memory; a decision may   *)
(* send earlier Temps back to memory, but never moves one to another        *)
(* register; and at every moment the Temps in registers do not disturb each *)
(* other.                                                                   *)
(***************************************************************************)
EXTENDS Intervals

VARIABLES ivs, pos, assignment, calleeUsed

avars == <<ivs, pos, assignment, calleeUsed>>

InRegister(k) == assignment[k] # Spilled

(* No two Temps that are needed together share a register.                  *)
ConflictFree ==
  \A k, l \in DOMAIN ivs :
    /\ k # l
    /\ InRegister(k)
    /\ assignment[k] = assignment[l]
    => ~Overlap(ivs[k], ivs[l])

(* A Temp is only in a register that survives every call and every asm      *)
(* statement inside its interval.                                           *)
SurvivesCrossings ==
  \A k \in DOMAIN ivs : InRegister(k) => MayHold(assignment[k], ivs[k])

(* Every callee-saved register that holds a Temp will be saved by the       *)
(* prologue and restored by the epilogue.                                   *)
SavesComplete ==
  \A k \in DOMAIN ivs :
    assignment[k] \in CalleeSaved => assignment[k] \in calleeUsed

Valid == ConflictFree /\ SurvivesCrossings /\ SavesComplete

AInit ==
  /\ pos = 1
  /\ assignment = [k \in DOMAIN ivs |-> Spilled]
  /\ calleeUsed = {}

Decide ==
  /\ pos \in DOMAIN ivs
  /\ pos' = pos + 1
  /\ UNCHANGED ivs
  /\ assignment' \in [DOMAIN ivs -> Reg \cup {Spilled}]
  /\ \A k \in DOMAIN ivs : k # pos => assignment'[k] \in {assignment[k], Spilled}
  /\ calleeUsed \subseteq calleeUsed'
  /\ Valid'

ASpec == AInit /\ [][Decide]_avars
=============================================================================
