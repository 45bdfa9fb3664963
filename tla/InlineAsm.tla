------------------------------- MODULE InlineAsm -------------------------------
(***************************************************************************)
(* codegen._gen_inline_asm: an asm statement's operands go to fixed         *)
(* registers, operand %i to the i-th target.  Some operands already sit in  *)
(* registers that are targets of others, so the loads are a parallel        *)
(* assignment: operands whose target nobody still needs are loaded first,   *)
(* and a cycle is broken by parking one register elsewhere.  After the text *)
(* of the statement the output registers are copied to the output Temps.    *)
(*                                                                          *)
(* A register holds the number of the register whose content it was when    *)
(* the statement began; InMemory(i) is operand i's value in memory, and     *)
(* Output(i) is what the text leaves in the i-th target.                    *)
(***************************************************************************)
EXTENDS Intervals, SequencesExt

CONSTANTS
  Targets,      \* ASM_REGS, r7..r16, in operand order
  Parking,      \* r17, r18, r19, r20, r21
  Shapes,       \* <<operands, outputs>> of the statements considered
  Explicit      \* the register sets a statement may name as clobbers

ASSUME TargetsAssumption ==
  /\ Targets \in Seq(Nat) /\ Parking \in Seq(Reg)
  /\ IsInjective(Targets)
  /\ \A s \in Shapes : s[1] \in 1 .. Len(Targets) /\ s[2] \in 0 .. s[1]
  /\ \E r \in ToSet(Parking) : r \notin ToSet(Targets)
  /\ \A r \in Reg \cup ToSet(Targets) : r > 0
  /\ Explicit \subseteq SUBSET Reg

Machine == Reg \cup ToSet(Targets)
Memory == 0
InMemory(i) == 0 - i
Output(i) == -100 - i
Junk == -200

VARIABLES
  count,      \* number of operands; outputs come first
  loads,      \* operands with a value to load: inputs, and outputs marked "+r"
  src,        \* where the value of each is at first: a register, or Memory
  home,       \* the home of each output Temp: a register, or Spilled
  clobbers,   \* IInlineAsm.clobbers
  reg, slot,  \* what each register, and each output Temp's slot, holds
  cur,        \* where the value of each operand is now
  done,       \* operands loaded
  at,         \* the operand that _try_safe_loads looks at next
  progress,   \* whether its current pass loaded one
  stored,     \* output Temps stored so far
  phase       \* "load", "text", "store", "end"

statement == <<count, loads, src, home, clobbers>>
vars == <<statement, reg, slot, cur, done, at, progress, stored, phase>>

Outputs == DOMAIN home

(* irgen: ASM_REGS[:operand_count]; and what it would be for outputs alone.  *)
OperandRegsOutputs(operands, outputs) == {Targets[i] : i \in 1 .. outputs}   \* mutant
OperandRegs(operands, outputs) == {Targets[i] : i \in 1 .. operands}

(* The registers the allocator can have given to the Temps of a statement:  *)
(* an output Temp shares its register neither with another nor with an      *)
(* operand.                                                                 *)
Init ==
  /\ \E s \in Shapes :
       /\ count = s[1]
       /\ loads \in {(s[2] + 1 .. s[1]) \cup rw : rw \in SUBSET (1 .. s[2])}
       /\ home \in [1 .. s[2] -> Reg \cup {Spilled}]
  /\ src \in [loads -> Reg \cup {Memory}]
  /\ \A i, j \in DOMAIN home :
       i # j /\ home[i] = home[j] => home[i] = Spilled
  /\ \A i \in DOMAIN home : home[i] \notin Range(src)
  /\ clobbers \in {OperandRegs(count, Cardinality(Outputs)) \cup x : x \in Explicit}
  /\ reg = [r \in Machine |-> r]
  /\ slot = [i \in DOMAIN home |-> Junk]
  /\ cur = src
  /\ done = {}
  /\ at = 1
  /\ progress = FALSE
  /\ stored = 0
  /\ phase = "load"

-----------------------------------------------------------------------------
(* No other unfinished operand's value is in the register operand i goes to.*)
SafeAlways(i) == TRUE                                               \* mutant
Safe(i) == \A j \in loads \ {i} : j \in done \/ cur[j] # Targets[i]

LookingPastEnd == phase = "load" /\ at <= count + 1                  \* mutant
Looking == phase = "load" /\ at <= count
Loadable == at \in loads \ done /\ Safe(at)

Load ==                                            \* _emit_load
  /\ Looking /\ Loadable
  /\ reg' = [reg EXCEPT ![Targets[at]] =
               IF cur[at] = Memory THEN InMemory(at) ELSE reg[cur[at]]]
  /\ done' = done \cup {at}
  /\ progress' = TRUE
  /\ at' = at + 1
  /\ UNCHANGED <<statement, slot, cur, stored, phase>>

PassBy ==
  /\ Looking /\ ~Loadable
  /\ at' = at + 1
  /\ UNCHANGED <<statement, reg, slot, cur, done, progress, stored, phase>>

PassEnd == phase = "load" /\ at = count + 1

NextPass ==
  /\ PassEnd /\ progress
  /\ at' = 1
  /\ progress' = FALSE
  /\ UNCHANGED <<statement, reg, slot, cur, done, stored, phase>>

(* Only cycles are left: free the target of the first unfinished operand.   *)
ParkingReg ==
  Parking[CHOOSE k \in DOMAIN Parking :
            /\ Parking[k] \notin {Targets[i] : i \in 1 .. count}
            /\ \A l \in 1 .. k - 1 : Parking[l] \in {Targets[i] : i \in 1 .. count}]

ParkCopy ==                                                         \* mutant
  /\ PassEnd /\ ~progress /\ done # loads
  /\ \E i \in loads \ done :
       /\ \A j \in loads \ done : i <= j
       /\ reg' = [reg EXCEPT ![ParkingReg] = reg[Targets[i]]]
  /\ at' = 1
  /\ UNCHANGED <<statement, slot, cur, done, progress, stored, phase>>

Park ==
  /\ PassEnd /\ ~progress /\ done # loads
  /\ \E i \in loads \ done :
       /\ \A j \in loads \ done : i <= j
       /\ reg' = [reg EXCEPT ![ParkingReg] = reg[Targets[i]]]
       /\ cur' = [j \in loads |->
                    IF j \notin done /\ cur[j] = Targets[i] THEN ParkingReg ELSE cur[j]]
  /\ at' = 1
  /\ UNCHANGED <<statement, slot, done, progress, stored, phase>>

AllLoaded ==
  /\ PassEnd /\ ~progress /\ done = loads
  /\ phase' = "text"
  /\ UNCHANGED <<statement, reg, slot, cur, done, at, progress, stored>>

(* The text sets its outputs and may destroy what it declares.              *)
Text ==
  /\ phase = "text"
  /\ reg' = [r \in Machine |->
       IF \E i \in Outputs : Targets[i] = r
         THEN Output(CHOOSE i \in Outputs : Targets[i] = r)
         ELSE IF r \in clobbers THEN Junk ELSE reg[r]]
  /\ phase' = "store"
  /\ UNCHANGED <<statement, slot, cur, done, at, progress, stored>>

(* Mutant: the text's outputs are taken from the wrong end.                 *)
StoreOutputReversed ==
  /\ phase = "store" /\ stored + 1 \in Outputs
  /\ stored' = stored + 1
  /\ LET i == Cardinality(Outputs) - stored
         h == home[i]
     IN  IF h = Spilled
           THEN slot' = [slot EXCEPT ![i] = reg[Targets[i]]] /\ UNCHANGED reg
           ELSE reg' = [reg EXCEPT ![h] = reg[Targets[i]]] /\ UNCHANGED slot
  /\ UNCHANGED <<statement, cur, done, at, progress, phase>>

StoreOutput ==                                     \* _store_op(reg, out.dst)
  /\ phase = "store" /\ stored + 1 \in Outputs
  /\ stored' = stored + 1
  /\ LET h == home[stored'] IN
       IF h = Spilled
         THEN slot' = [slot EXCEPT ![stored'] = reg[Targets[stored']]] /\ UNCHANGED reg
         ELSE reg' = [reg EXCEPT ![h] = reg[Targets[stored']]] /\ UNCHANGED slot
  /\ UNCHANGED <<statement, cur, done, at, progress, phase>>

Finish ==
  /\ phase = "store" /\ stored + 1 \notin Outputs
  /\ phase' = "end"
  /\ UNCHANGED <<statement, reg, slot, cur, done, at, progress, stored>>

Next ==
  \/ Load \/ PassBy \/ NextPass \/ Park \/ AllLoaded
  \/ Text \/ StoreOutput \/ Finish

(* Straight-line code of the compiler; nothing else runs.                   *)
Spec == Init /\ [][Next]_vars
FairSpec == Spec /\ WF_vars(Next)

-----------------------------------------------------------------------------
TypeOK ==
  /\ count \in 1 .. Len(Targets)
  /\ loads \subseteq 1 .. count
  /\ src \in [loads -> Reg \cup {Memory}]
  /\ cur \in [loads -> Reg \cup {Memory}]
  /\ DOMAIN home = 1 .. Cardinality(Outputs) /\ Range(home) \subseteq Reg \cup {Spilled}
  /\ done \subseteq loads
  /\ at \in 1 .. count + 1
  /\ progress \in BOOLEAN
  /\ stored \in 0 .. Cardinality(Outputs)
  /\ phase \in {"load", "text", "store", "end"}

Original(i) == IF src[i] = Memory THEN InMemory(i) ELSE src[i]

(* When the text begins, every operand's target holds the value the operand *)
(* had when the statement began, however the loads had to be ordered: until *)
(* an operand is loaded, its value is at `cur`.                             *)
OperandsLoaded ==
  /\ phase = "load" => \A i \in loads \ done : cur[i] # Memory => reg[cur[i]] = Original(i)
  /\ phase = "text" => \A i \in loads : reg[Targets[i]] = Original(i)

(* The loop always ends: parking breaks every cycle.                        *)
Emitted == <>(phase = "end")

(* Registers outside the declared clobbers and the output Temps' homes keep *)
(* their contents, but for the parking register, which is not declared      *)
(* although a Temp may be in it.                                            *)
OthersUndisturbed ==
  \A r \in Machine :
    reg[r] # r => r \in clobbers \cup Range(home) \cup {ParkingReg}

(* What an output Temp holds after the statement.                           *)
Received(i) == IF home[i] = Spilled THEN slot[i] ELSE reg[home[i]]

(* Outputs arrive when no output Temp sits in a register that one of the    *)
(* outputs stored after it is still in; otherwise the later one is lost.    *)
OutputsArrive ==
  /\ phase = "end"
  /\ \A i, j \in Outputs : i < j => home[i] # Targets[j]
  => \A i \in Outputs : Received(i) = Output(i)
=============================================================================
