---------------------------- MODULE AllocatedCode ----------------------------
(***************************************************************************)
(* The code of one function running with its Temps in the registers an      *)
(* allocation gave them.  The first half derives the live intervals from    *)
(* the instruction list (regalloc.allocate, steps 1 and 2); the second half *)
(* executes the instructions in control-flow order and tracks whose value   *)
(* each register holds.                                                     *)
(*                                                                          *)
(* An instruction is reduced to what it reads, writes and destroys.  Most   *)
(* have one part; a long operation has two, because its low half is written *)
(* before its high operands are read.                                       *)
(***************************************************************************)
EXTENDS Intervals, FiniteSets, FiniteSetsExt

CONSTANTS
  Temp,       \* IR temporaries
  Programs    \* instruction lists

Part == [reads : SUBSET Temp, writes : SUBSET Temp]

Instr ==
  [kind     : {"op", "call", "asm"},
   parts    : Seq(Part),
   clobbers : SUBSET Reg,   \* of an asm statement
   next     : SUBSET Nat]   \* where control may go afterwards

-----------------------------------------------------------------------------
(* regalloc.allocate, step 1: live intervals [first_def, last_use].         *)
Reads(ins) == UNION {ins.parts[p].reads : p \in DOMAIN ins.parts}
Writes(ins) == UNION {ins.parts[p].writes : p \in DOMAIN ins.parts}

DefSites(c, t) == {i \in DOMAIN c : t \in Writes(c[i])}
UseSites(c, t) == {i \in DOMAIN c : t \in Reads(c[i])}

FirstDef(c, t) == Min(DefSites(c, t))
LastUse(c, t) ==
  IF UseSites(c, t) = {} THEN FirstDef(c, t) ELSE Max(UseSites(c, t))

(* Step 2: the sites strictly inside the range.                             *)
Inside(c, t) == {i \in DOMAIN c : FirstDef(c, t) < i /\ i < LastUse(c, t)}

IntervalOf(c, t) ==
  [start     |-> FirstDef(c, t),
   end       |-> LastUse(c, t),
   crosses   |-> \E i \in Inside(c, t) : c[i].kind = "call",
   forbidden |-> UNION {c[i].clobbers : i \in Inside(c, t)},
   uses      |-> Cardinality(UseSites(c, t))]

Defined(c) == {t \in Temp : DefSites(c, t) # {}}
LiveRanges(c) == [t \in Defined(c) |-> IntervalOf(c, t)]

(* What irgen and the passes after it guarantee of an instruction list.     *)
WellFormed(c) ==
  /\ \A i \in DOMAIN c :
       /\ c[i].kind # "op" => Len(c[i].parts) = 1
       /\ c[i].kind # "asm" => c[i].clobbers = {}
       /\ c[i].parts # <<>>
  /\ \A t \in Defined(c) : \A d \in DefSites(c, t) : d <= LastUse(c, t)

(* Control never returns to an earlier instruction.                         *)
Forward(c) == \A i \in DOMAIN c : \A j \in c[i].next : i < j

ASSUME ProgramsAssumption ==
  /\ Temp \subseteq Nat \ {0}
  /\ \A c \in Programs : c \in Seq(Instr) /\ WellFormed(c)

-----------------------------------------------------------------------------
VARIABLES
  code,
  ivs,       \* the live interval of each Temp
  home,      \* Temp -> register, or Spilled
  pc, part,  \* the part of the instruction to execute next
  holder,    \* register -> the Temp whose value it holds, or Nobody
  written    \* Temps that have a value

vars == <<code, ivs, home, pc, part, holder, written>>

Nobody == 0

RA == INSTANCE RegisterAllocation
        WITH assignment <- home, calleeUsed <- CalleeSaved, pos <- 1

ExecInit ==
  /\ pc = 1
  /\ part = 1
  /\ holder = [r \in Reg |-> Nobody]
  /\ written = {}

Init ==
  /\ code \in Programs
  /\ ivs = LiveRanges(code)
  /\ home \in [DOMAIN ivs -> Reg \cup {Spilled}]
  /\ RA!ConflictFree
  /\ RA!SurvivesCrossings
  /\ ExecInit

Running == pc \in DOMAIN code
Now == code[pc].parts[part]

(* What a call or an asm statement destroys once its operands are read.     *)
Destroyed == IF code[pc].kind = "call" THEN CallerSaved ELSE code[pc].clobbers

Execute ==
  /\ Running
  /\ holder' = [r \in Reg |->
       IF \E t \in Now.writes : home[t] = r
         THEN CHOOSE t \in Now.writes : home[t] = r
         ELSE IF r \in Destroyed THEN Nobody ELSE holder[r]]
  /\ written' = written \cup Now.writes
  /\ UNCHANGED <<code, ivs, home>>

NextPart ==
  /\ Execute
  /\ part < Len(code[pc].parts)
  /\ part' = part + 1
  /\ UNCHANGED pc

NextInstrSamePart ==                                                \* mutant
  /\ Execute
  /\ part = Len(code[pc].parts)
  /\ UNCHANGED part
  /\ pc' \in code[pc].next

NextInstr ==
  /\ Execute
  /\ part = Len(code[pc].parts)
  /\ part' = 1
  /\ pc' \in code[pc].next

Next == NextPart \/ NextInstr

Spec == Init /\ [][Next]_vars

-----------------------------------------------------------------------------
TypeOK ==
  /\ code \in Seq(Instr) /\ WellFormed(code)
  /\ ivs = LiveRanges(code)
  /\ home \in [DOMAIN ivs -> Reg \cup {Spilled}]
  /\ pc \in Nat
  /\ Running => part \in DOMAIN code[pc].parts
  /\ holder \in [Reg -> Temp \cup {Nobody}]
  /\ written \subseteq DOMAIN ivs

(* Whenever an instruction reads a Temp from a register, the register still *)
(* holds that Temp's value.                                                 *)
ReadsOwnValue ==
  Running =>
    \A t \in Now.reads \cap written :
      home[t] # Spilled => holder[home[t]] = t
=============================================================================
