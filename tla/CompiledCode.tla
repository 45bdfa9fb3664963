----------------------------- MODULE CompiledCode -----------------------------
(***************************************************************************)
(* The allocator and the code it allocates for, composed: the scan of       *)
(* LinearScan works through the live intervals of a function, and then the  *)
(* function of AllocatedCode runs with the registers the scan chose.        *)
(* codegen._gen_func calls allocate(fn) and emits code that uses the map.   *)
(***************************************************************************)
EXTENDS AllocatedCode

(* Temps are numbered in the order of their first definitions, so the list  *)
(* of intervals is sorted (allocate sorts it by start).                     *)
ASSUME NumberingAssumption ==
  \A c \in Programs :
    /\ \E n \in {0} \cup Temp : Defined(c) = 1 .. n
    /\ \A t, u \in Defined(c) : t < u => FirstDef(c, t) <= FirstDef(c, u)

VARIABLES pos, active, callerFree, calleeFree, calleeUsed

Allocator == INSTANCE LinearScan
               WITH assignment <- home, Inputs <- {LiveRanges(c) : c \in Programs}

scanVars == <<pos, active, callerFree, calleeFree, calleeUsed>>
runVars == <<code, pc, part, holder, written>>

CompileInit ==
  /\ code \in Programs
  /\ ivs = LiveRanges(code)
  /\ Allocator!ScanInit
  /\ ExecInit

Scan == Allocator!Next /\ UNCHANGED runVars

Run ==
  /\ pos = Len(ivs) + 1
  /\ Next
  /\ UNCHANGED scanVars

CompileNext == Scan \/ Run

CompileSpec == CompileInit /\ [][CompileNext]_<<vars, scanVars>>

-----------------------------------------------------------------------------
(* A Temp that is read after a call is in a register the call preserves     *)
(* (regalloc.py, "The Temp must reside in a callee-saved register"): what   *)
(* it is read from was not destroyed.                                       *)
SurvivesCalls ==
  pos = Len(ivs) + 1 /\ Running =>
    \A t \in Now.reads \cap written :
      home[t] # Spilled => holder[home[t]] # Nobody
=============================================================================
