------------------------------ MODULE Intervals ------------------------------
(***************************************************************************)
(* The vocabulary of compiler/regalloc.py: physical registers, the live    *)
(* interval of a Temp, and what it means for a Temp to sit safely in a      *)
(* register.  A register rN is modelled by the number N, so the preference  *)
(* orders of the allocator (r10..r18, r19..r29) are the natural order.      *)
(***************************************************************************)
EXTENDS Integers, Sequences

CONSTANTS
  CallerSaved,   \* registers a call may destroy       (r10..r18 in the code)
  CalleeSaved    \* registers every function preserves (r19..r29 in the code)

ASSUME RegisterAssumption ==
  /\ CallerSaved \subseteq Nat
  /\ CalleeSaved \subseteq Nat
  /\ CallerSaved \cap CalleeSaved = {}

Reg == CallerSaved \cup CalleeSaved

(* RegMap.reg(tid) is None: the Temp lives in a stack slot.                 *)
Spilled == -1

Interval ==
  [start     : Nat,        \* index of the first instruction defining the Temp
   end       : Nat,        \* index of the last instruction using it
   crosses   : BOOLEAN,    \* a call lies strictly inside the range
   forbidden : SUBSET Nat, \* clobbers of the asm statements strictly inside
   uses      : Nat]        \* number of uses, the numerator of the spill cost

(* Both Temps are needed at some common instruction.  The bounds are        *)
(* closed: an instruction that reads one Temp and writes the other needs    *)
(* both, because a two-word operation writes its low half before it reads   *)
(* its high operands.                                                       *)
Overlap(a, b) == a.start <= b.end /\ b.start <= a.end

(* Register r keeps its value over the whole of interval a.                 *)
MayHold(r, a) ==
  /\ r \in Reg \ a.forbidden
  /\ a.crosses => r \in CalleeSaved

Sorted(ivs) ==
  \A i, j \in DOMAIN ivs : i < j => ivs[i].start <= ivs[j].start
=============================================================================
