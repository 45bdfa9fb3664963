-------------------------- MODULE CompiledCodeProofs --------------------------
(***************************************************************************)
(* Code whose control only moves forward runs correctly under every valid   *)
(* allocation: whatever registers the Temps got, no instruction reads a     *)
(* register that another Temp took or a call destroyed (Spec).              *)
(*                                                                          *)
(* And the linear scan and the code it allocates for, together              *)
(* (CompileSpec): such code runs correctly with the registers the scan      *)
(* chose.  The invariant of the scan comes from its own module; what joins  *)
(* the two is that nothing runs before the scan is done, and that every     *)
(* allocation on the way is valid already.                                  *)
(***************************************************************************)
EXTENDS CompiledCode, WellFoundedInduction, FiniteSetTheorems, TLAPS

-----------------------------------------------------------------------------
(* First definitions and last uses exist.                                   *)
LEMMA LeastExists ==
  ASSUME NEW S, S \subseteq Nat, S # {}
  PROVE  \E x \in S : \A y \in S : x <= y
<1> DEFINE R == OpToRel(<, Nat)
<1>1. IsWellFoundedOn(R, Nat)
  BY NatLessThanWellFounded
<1> HIDE DEF R
<1>2. PICK x \in S : \A y \in S : <<y, x>> \notin R
  BY <1>1, WFMin
<1>3. ASSUME NEW y \in S PROVE x <= y
  <2>1. <<y, x>> \notin {ss \in Nat \X Nat : ss[1] < ss[2]}
    BY <1>2, <1>3 DEF R, OpToRel
  <2> QED
    BY <2>1
<1> QED
  BY <1>3

LEMMA MinIsLeast ==
  ASSUME NEW S, S \subseteq Nat, S # {}
  PROVE  Min(S) \in S /\ \A y \in S : Min(S) <= y
BY LeastExists DEF Min

LEMMA MaxIsGreatest ==
  ASSUME NEW n \in Nat, NEW S, S \subseteq 0 .. n, S # {}
  PROVE  Max(S) \in S /\ \A y \in S : y <= Max(S)
<1> DEFINE T == {n - x : x \in S}
<1>1. T \subseteq Nat /\ T # {}
  <2>1. \A x \in S : n - x \in Nat
    OBVIOUS
  <2>2. PICK x \in S : TRUE
    OBVIOUS
  <2>3. n - x \in T
    OBVIOUS
  <2> QED
    BY <2>1, <2>3
<1>2. PICK t \in T : \A y \in T : t <= y
  <2> HIDE DEF T
  <2> QED
    BY <1>1, LeastExists
<1>3. PICK m \in S : t = n - m
  OBVIOUS
<1>4. \A y \in S : m >= y
  <2> TAKE y \in S
  <2>1. n - m <= n - y
    BY <1>2, <1>3
  <2> QED
    BY <2>1
<1>5. Max(S) \in S /\ \A y \in S : Max(S) >= y
  BY <1>4 DEF Max
<1> QED
  BY <1>5

(* The live range of a Temp spans all its definitions and uses.             *)
LEMMA RangeSpansSites ==
  ASSUME NEW c \in Seq(Instr), WellFormed(c), NEW t \in Defined(c)
  PROVE  /\ FirstDef(c, t) \in DefSites(c, t)
         /\ FirstDef(c, t) \in Nat /\ LastUse(c, t) \in Nat
         /\ \A d \in DefSites(c, t) : FirstDef(c, t) <= d /\ d <= LastUse(c, t)
         /\ \A u \in UseSites(c, t) : u <= LastUse(c, t)
<1>1. Len(c) \in Nat /\ DOMAIN c = 1 .. Len(c)
  OBVIOUS
<1>2. /\ DefSites(c, t) \subseteq Nat /\ DefSites(c, t) # {}
      /\ UseSites(c, t) \subseteq 0 .. Len(c)
  BY <1>1 DEF DefSites, UseSites, Defined
<1>3. /\ FirstDef(c, t) \in DefSites(c, t)
      /\ \A d \in DefSites(c, t) : FirstDef(c, t) <= d
  BY <1>2, MinIsLeast DEF FirstDef
<1>4. CASE UseSites(c, t) = {}
  BY <1>1, <1>2, <1>3, <1>4 DEF WellFormed, LastUse
<1>5. CASE UseSites(c, t) # {}
  <2>1. /\ LastUse(c, t) \in UseSites(c, t)
        /\ \A u \in UseSites(c, t) : u <= LastUse(c, t)
    BY <1>1, <1>2, <1>5, MaxIsGreatest DEF LastUse
  <2> QED
    BY <2>1, <1>1, <1>2, <1>3 DEF WellFormed
<1> QED
  BY <1>4, <1>5

-----------------------------------------------------------------------------
(* A Temp has a value only from its first definition on.                    *)
Started == \A t \in written : ivs[t].start <= pc

(* Until its last use, a Temp that has a value is in its register.          *)
InHome ==
  \A t \in written :
    home[t] # Spilled /\ pc <= ivs[t].end => holder[home[t]] = t

IInv ==
  /\ TypeOK
  /\ Forward(code)
  /\ RA!ConflictFree
  /\ RA!SurvivesCrossings
  /\ Started
  /\ InHome

(* What the promise of the allocator says of two Temps, and of one.         *)
LEMMA Promise ==
  ASSUME RA!ConflictFree, RA!SurvivesCrossings
  PROVE  /\ \A t, u \in DOMAIN ivs :
              t # u /\ home[t] # Spilled /\ home[t] = home[u]
                => ~(ivs[t].start <= ivs[u].end /\ ivs[u].start <= ivs[t].end)
         /\ \A t \in DOMAIN ivs :
              home[t] # Spilled
                => /\ home[t] \in Reg /\ home[t] \notin ivs[t].forbidden
                   /\ ivs[t].crosses => home[t] \in CalleeSaved
BY DEF RA!ConflictFree, RA!SurvivesCrossings, RA!InRegister, RA!Overlap,
       RA!MayHold, RA!Spilled, RA!Reg, Spilled, Reg

(* What the live ranges say of the instruction being executed.              *)
LEMMA AtSite ==
  ASSUME TypeOK, Running
  PROVE  /\ pc \in Nat /\ code[pc] \in Instr /\ Now \in Part
         /\ DOMAIN ivs = Defined(code)
         /\ Now.writes \subseteq DOMAIN ivs
         /\ \A t \in DOMAIN ivs : ivs[t].start \in Nat /\ ivs[t].end \in Nat
         /\ \A t \in Now.writes : ivs[t].start <= pc /\ pc <= ivs[t].end
         /\ \A t \in Now.reads \cap DOMAIN ivs : pc <= ivs[t].end
         /\ \A t \in DOMAIN ivs : ivs[t].start = pc => t \in Writes(code[pc])
         /\ \A t \in DOMAIN ivs :
              ivs[t].start < pc /\ pc < ivs[t].end
                => /\ code[pc].kind = "call" => ivs[t].crosses
                   /\ code[pc].clobbers \subseteq ivs[t].forbidden
<1>1. /\ pc \in Nat /\ pc \in DOMAIN code /\ code \in Seq(Instr)
      /\ code[pc] \in Instr /\ part \in DOMAIN code[pc].parts
  BY DEF TypeOK, Running
<1>2. Now \in Part
  BY <1>1 DEF Now, Instr
<1>3. DOMAIN ivs = Defined(code) /\ WellFormed(code)
  BY DEF TypeOK, LiveRanges
<1>4. \A t \in DOMAIN ivs :
        /\ ivs[t].start = FirstDef(code, t)
        /\ ivs[t].end = LastUse(code, t)
        /\ ivs[t].crosses = (\E i \in Inside(code, t) : code[i].kind = "call")
        /\ ivs[t].forbidden = UNION {code[i].clobbers : i \in Inside(code, t)}
  BY <1>3 DEF TypeOK, LiveRanges, IntervalOf
<1>5. ASSUME NEW t \in Now.writes
      PROVE  t \in DOMAIN ivs /\ pc \in DefSites(code, t)
  <2>1. t \in Writes(code[pc])
    BY <1>1 DEF Writes, Now
  <2>2. t \in Temp
    BY <1>2 DEF Part
  <2>3. pc \in DefSites(code, t)
    BY <1>1, <2>1 DEF DefSites
  <2> QED
    BY <2>2, <2>3, <1>3 DEF Defined
<1>6. ASSUME NEW t \in Now.reads
      PROVE  pc \in UseSites(code, t)
  <2>1. t \in Reads(code[pc])
    BY <1>1 DEF Reads, Now
  <2> QED
    BY <1>1, <2>1 DEF UseSites
<1>7. \A t \in DOMAIN ivs : ivs[t].start \in Nat /\ ivs[t].end \in Nat
  BY <1>1, <1>3, <1>4, RangeSpansSites
<1>8. ASSUME NEW t \in Now.writes
      PROVE  ivs[t].start <= pc /\ pc <= ivs[t].end
  <2>1. t \in Defined(code) /\ pc \in DefSites(code, t)
    BY <1>3, <1>5
  <2>2. FirstDef(code, t) <= pc /\ pc <= LastUse(code, t)
    BY <1>1, <1>3, <2>1, RangeSpansSites
  <2> QED
    BY <1>3, <1>4, <2>1, <2>2
<1>9. \A t \in Now.reads \cap DOMAIN ivs : pc <= ivs[t].end
  BY <1>1, <1>3, <1>4, <1>6, RangeSpansSites
<1>10. \A t \in DOMAIN ivs : ivs[t].start = pc => t \in Writes(code[pc])
  BY <1>1, <1>3, <1>4, RangeSpansSites DEF DefSites
<1>11. ASSUME NEW t \in DOMAIN ivs, ivs[t].start < pc, pc < ivs[t].end
       PROVE  /\ code[pc].kind = "call" => ivs[t].crosses
              /\ code[pc].clobbers \subseteq ivs[t].forbidden
  <2>1. pc \in Inside(code, t)
    BY <1>1, <1>4, <1>11 DEF Inside
  <2> QED
    BY <2>1, <1>4
<1> QED
  BY <1>1, <1>2, <1>3, <1>5, <1>7, <1>8, <1>9, <1>10, <1>11

(* One part of an instruction leaves every Temp that is still needed in its *)
(* register; q is where control is afterwards.                              *)
LEMMA KeepsHome ==
  ASSUME IInv, Execute,
         NEW q \in Nat, pc <= q, part = Len(code[pc].parts) => pc < q,
         NEW t \in written', home[t] # Spilled, q <= ivs[t].end
  PROVE  holder'[home[t]] = t
<1>1. /\ Running /\ TypeOK
      /\ holder' = [r \in Reg |->
            IF \E u \in Now.writes : home[u] = r
              THEN CHOOSE u \in Now.writes : home[u] = r
              ELSE IF r \in Destroyed THEN Nobody ELSE holder[r]]
      /\ written' = written \cup Now.writes
  BY DEF Execute, IInv
<1>2. t \in DOMAIN ivs /\ home[t] \in Reg
  BY <1>1, AtSite, Promise DEF IInv, TypeOK
<1>3. ASSUME NEW u \in Now.writes, home[u] = home[t] PROVE u = t
  <2>1. u \in DOMAIN ivs /\ ivs[u].start <= pc /\ pc <= ivs[u].end
    BY <1>1, AtSite
  <2>2. ivs[t].start <= pc
    BY <1>1, AtSite DEF IInv, Started
  <2>3. ivs[t].start <= ivs[u].end /\ ivs[u].start <= ivs[t].end
    BY <2>1, <2>2, <1>1, <1>2, AtSite
  <2> QED
    BY <2>1, <2>3, <1>2, <1>3, Promise DEF IInv
<1>4. CASE t \in Now.writes
  BY <1>1, <1>2, <1>3, <1>4
<1>5. CASE t \notin Now.writes
  <2>1. t \in written /\ ~\E u \in Now.writes : home[u] = home[t]
    BY <1>1, <1>3, <1>5
  <2>2. holder[home[t]] = t
    BY <2>1, <1>1, <1>2, AtSite DEF IInv, InHome
  <2>3. home[t] \notin Destroyed
    <3>1. CASE code[pc].kind = "op"
      BY <3>1, <1>1 DEF TypeOK, WellFormed, Destroyed, Running
    <3>2. CASE code[pc].kind # "op"
      <4>1. Len(code[pc].parts) = 1
        BY <3>2, <1>1 DEF TypeOK, WellFormed, Running
      <4>2. part = 1 /\ Writes(code[pc]) = Now.writes
        BY <4>1, <1>1, AtSite DEF TypeOK, Writes, Now, Instr
      <4>3. ivs[t].start < pc /\ pc < ivs[t].end
        <5>1. ivs[t].start <= pc /\ ivs[t].start # pc
          BY <4>2, <2>1, <1>1, <1>2, <1>5, AtSite DEF IInv, Started
        <5>2. pc < q
          BY <4>1, <4>2
        <5> QED
          BY <5>1, <5>2, <1>1, <1>2, AtSite
      <4>4. /\ code[pc].kind = "call" => home[t] \in CalleeSaved
            /\ home[t] \notin code[pc].clobbers
        BY <4>3, <1>1, <1>2, AtSite, Promise DEF IInv
      <4> QED
        BY <4>4, RegisterAssumption DEF Destroyed
    <3> QED
      BY <3>1, <3>2
  <2> QED
    BY <2>1, <2>2, <2>3, <1>1, <1>2
<1> QED
  BY <1>4, <1>5

(* Every instruction has a first part.                                      *)
LEMMA FirstPart ==
  ASSUME NEW c \in Seq(Instr), WellFormed(c), NEW i \in DOMAIN c
  PROVE  1 \in DOMAIN c[i].parts
<1>1. c[i] \in Instr
  OBVIOUS
<1>2. c[i].parts \in Seq(Part)
  BY <1>1 DEF Instr
<1>3. c[i].parts # <<>>
  BY DEF WellFormed
<1> HIDE DEF Part
<1> QED
  BY <1>2, <1>3

LEMMA InitInv ==
  ASSUME \A c \in Programs : Forward(c), Init
  PROVE  IInv
<1>1. code \in Seq(Instr) /\ WellFormed(code) /\ Forward(code)
  BY ProgramsAssumption DEF Init
<1>2. Running => part \in DOMAIN code[pc].parts
  BY <1>1, FirstPart DEF Init, ExecInit, Running
<1>3. TypeOK
  BY <1>1, <1>2 DEF Init, ExecInit, TypeOK
<1>4. Started /\ InHome
  BY DEF Init, ExecInit, Started, InHome
<1> QED
  BY <1>1, <1>3, <1>4 DEF IInv, Init

(* What both actions have in common; q is where control is afterwards.      *)
LEMMA ExecuteInv ==
  ASSUME IInv, Execute, pc' \in Nat, pc <= pc',
         part = Len(code[pc].parts) => pc < pc'
  PROVE  /\ holder' \in [Reg -> Temp \cup {Nobody}]
         /\ written' \subseteq DOMAIN ivs'
         /\ Started' /\ InHome'
         /\ RA!ConflictFree' /\ RA!SurvivesCrossings'
<1>1. /\ Running /\ TypeOK
      /\ holder' = [r \in Reg |->
            IF \E u \in Now.writes : home[u] = r
              THEN CHOOSE u \in Now.writes : home[u] = r
              ELSE IF r \in Destroyed THEN Nobody ELSE holder[r]]
      /\ written' = written \cup Now.writes
      /\ UNCHANGED <<code, ivs, home>>
  BY DEF Execute, IInv
<1>2. Now.writes \subseteq DOMAIN ivs /\ Now.writes \subseteq Temp
  BY <1>1, AtSite DEF Part
<1>3. holder' \in [Reg -> Temp \cup {Nobody}]
  BY <1>1, <1>2 DEF TypeOK
<1>4. written' \subseteq DOMAIN ivs'
  BY <1>1, <1>2 DEF TypeOK
<1>5. Started'
  <2>1. ASSUME NEW t \in written \cup Now.writes PROVE ivs[t].start <= pc'
    <3>1. t \in DOMAIN ivs /\ ivs[t].start \in Nat /\ ivs[t].start <= pc
      BY <1>1, <1>2, <2>1, AtSite DEF IInv, Started, TypeOK
    <3> QED
      BY <3>1, <1>1, AtSite
  <2> QED
    BY <1>1, <2>1 DEF Started
<1>6. InHome'
  <2>1. \A t \in written' :
          home[t] # Spilled /\ pc' <= ivs[t].end => holder'[home[t]] = t
    BY KeepsHome
  <2> QED
    BY <1>1, <2>1 DEF InHome
<1>7. RA!ConflictFree' /\ RA!SurvivesCrossings'
  BY <1>1 DEF IInv, RA!ConflictFree, RA!SurvivesCrossings, RA!InRegister
<1> QED
  BY <1>3, <1>4, <1>5, <1>6, <1>7

LEMMA StepInv ==
  ASSUME IInv, [Next]_vars
  PROVE  IInv'
<1>1. CASE NextPart
  <2>1. /\ Execute /\ part < Len(code[pc].parts)
        /\ part' = part + 1 /\ pc' = pc /\ code' = code /\ ivs' = ivs
        /\ home' = home /\ Running
    BY <1>1 DEF NextPart, Execute
  <2>2. code[pc].parts \in Seq(Part) /\ part \in DOMAIN code[pc].parts /\ pc \in Nat
    BY <2>1, AtSite DEF IInv, TypeOK, Instr
  <2>3. pc' \in Nat /\ pc <= pc' /\ part # Len(code[pc].parts)
    BY <2>1, <2>2
  <2>4. /\ holder' \in [Reg -> Temp \cup {Nobody}]
        /\ written' \subseteq DOMAIN ivs'
        /\ Started' /\ InHome'
        /\ RA!ConflictFree' /\ RA!SurvivesCrossings'
    BY <2>1, <2>3, ExecuteInv
  <2>5. part' \in DOMAIN code[pc].parts
    BY <2>1, <2>2
  <2>6. TypeOK'
    BY <2>1, <2>2, <2>4, <2>5 DEF IInv, TypeOK, Running
  <2> QED
    BY <2>1, <2>4, <2>6 DEF IInv, Forward
<1>2. CASE NextInstr
  <2>1. /\ Execute /\ part = Len(code[pc].parts)
        /\ part' = 1 /\ pc' \in code[pc].next /\ code' = code /\ ivs' = ivs
        /\ home' = home /\ Running
    BY <1>2 DEF NextInstr, Execute
  <2>2. code[pc] \in Instr /\ pc \in Nat /\ pc \in DOMAIN code
    BY <2>1, AtSite DEF IInv, Running
  <2>3. pc' \in Nat /\ pc < pc' /\ pc <= pc'
    BY <2>1, <2>2 DEF IInv, Forward, Instr
  <2>4. /\ holder' \in [Reg -> Temp \cup {Nobody}]
        /\ written' \subseteq DOMAIN ivs'
        /\ Started' /\ InHome'
        /\ RA!ConflictFree' /\ RA!SurvivesCrossings'
    BY <2>1, <2>3, ExecuteInv
  <2>5. Running' => part' \in DOMAIN code'[pc'].parts
    <3>1. pc' \in DOMAIN code => 1 \in DOMAIN code[pc'].parts
      BY FirstPart DEF IInv, TypeOK
    <3> QED
      BY <2>1, <3>1 DEF Running
  <2>6. TypeOK'
    BY <2>1, <2>3, <2>4, <2>5 DEF IInv, TypeOK
  <2> QED
    BY <2>1, <2>4, <2>6 DEF IInv, Forward
<1>3. CASE UNCHANGED vars
  BY <1>3 DEF vars, IInv, TypeOK, Forward, Started, InHome, Running,
       RA!ConflictFree, RA!SurvivesCrossings, RA!InRegister
<1> QED
  BY <1>1, <1>2, <1>3 DEF Next

LEMMA InvReadsOwn ==
  ASSUME IInv
  PROVE  TypeOK /\ ReadsOwnValue
<1>1. ASSUME Running, NEW t \in Now.reads \cap written, home[t] # Spilled
      PROVE  holder[home[t]] = t
  <2>1. t \in DOMAIN ivs
    BY <1>1 DEF IInv, TypeOK
  <2>2. pc <= ivs[t].end
    BY <1>1, <2>1, AtSite DEF IInv
  <2> QED
    BY <1>1, <2>2 DEF IInv, InHome
<1> QED
  BY <1>1 DEF ReadsOwnValue, IInv

-----------------------------------------------------------------------------
(* The execution stays inside its types, whatever the programs: control is  *)
(* always at an instruction the list has, at a part the instruction has.    *)
THEOREM ExecutionTypeCorrect ==
  ASSUME \A c \in Programs : Forward(c)
  PROVE  Spec => []TypeOK
<1>1. Init => IInv
  BY InitInv
<1>2. IInv /\ [Next]_vars => IInv'
  BY StepInv
<1>3. IInv => TypeOK
  BY InvReadsOwn
<1> QED
  BY <1>1, <1>2, <1>3, PTL DEF Spec

(* For every set of forward-only instruction lists, every number of         *)
(* registers and every valid allocation: no instruction ever reads a        *)
(* register that holds something other than its operand's value.            *)
THEOREM ValidAllocationsRunCorrectly ==
  ASSUME \A c \in Programs : Forward(c)
  PROVE  Spec => []ReadsOwnValue
<1>1. Init => IInv
  BY InitInv
<1>2. IInv /\ [Next]_vars => IInv'
  BY StepInv
<1>3. IInv => ReadsOwnValue
  BY InvReadsOwn
<1> QED
  BY <1>1, <1>2, <1>3, PTL DEF Spec

-----------------------------------------------------------------------------
(* The scan, then the code.                                                 *)
Scanned == INSTANCE LinearScanProofs
             WITH assignment <- home, Inputs <- {LiveRanges(c) : c \in Programs}

CompileInv ==
  /\ IInv
  /\ Scanned!IInv
  /\ pos \in DOMAIN ivs => ExecInit

(* The live ranges of a function are what the scan takes: a list of         *)
(* intervals sorted by their starts.                                        *)
LEMMA RangesSorted ==
  ASSUME NEW c \in Programs
  PROVE  LiveRanges(c) \in Seq(Interval) /\ Sorted(LiveRanges(c))
<1>1. c \in Seq(Instr) /\ WellFormed(c)
  BY ProgramsAssumption
<1>2. PICK n \in Nat : Defined(c) = 1 .. n
  BY NumberingAssumption, ProgramsAssumption
<1>3. ASSUME NEW t \in Defined(c)
      PROVE  IntervalOf(c, t) \in Interval
  <2>1. FirstDef(c, t) \in Nat /\ LastUse(c, t) \in Nat
    BY <1>1, RangeSpansSites
  <2>2. UNION {c[i].clobbers : i \in Inside(c, t)} \in SUBSET Nat
    <3>1. ASSUME NEW i \in DOMAIN c PROVE c[i].clobbers \in SUBSET Reg
      <4>1. c[i] \in Instr
        BY <1>1
      <4> QED
        BY <4>1 DEF Instr
    <3>2. Reg \subseteq Nat
      BY RegisterAssumption DEF Reg
    <3> QED
      BY <3>1, <3>2 DEF Inside
  <2>3. Cardinality(UseSites(c, t)) \in Nat
    <3>1. Len(c) \in Nat /\ DOMAIN c = 1 .. Len(c)
      BY <1>1
    <3>2. IsFiniteSet(1 .. Len(c))
      BY <3>1, FS_Interval
    <3>3. UseSites(c, t) \subseteq 1 .. Len(c)
      BY <3>1 DEF UseSites
    <3> QED
      BY <3>2, <3>3, FS_Subset, FS_CardinalityType
  <2>4. (\E i \in Inside(c, t) : c[i].kind = "call") \in BOOLEAN
    OBVIOUS
  <2> QED
    BY <2>1, <2>2, <2>3, <2>4 DEF IntervalOf, Interval
<1>4. LiveRanges(c) \in [1 .. n -> Interval]
  BY <1>2, <1>3 DEF LiveRanges
<1>5. LiveRanges(c) \in Seq(Interval) /\ DOMAIN LiveRanges(c) = 1 .. n
  BY <1>4
<1>6. ASSUME NEW t \in 1 .. n, NEW u \in 1 .. n, t < u
      PROVE  LiveRanges(c)[t].start <= LiveRanges(c)[u].start
  BY <1>2, <1>6, NumberingAssumption DEF LiveRanges, IntervalOf
<1> QED
  BY <1>5, <1>6 DEF Sorted

LEMMA InputsSorted ==
  \A s \in {LiveRanges(c) : c \in Programs} :
    s \in Seq(Scanned!Interval) /\ Scanned!Sorted(s)
BY RangesSorted DEF Scanned!Interval, Scanned!Sorted, Interval, Sorted

(* The allocator's promise is said in the same words on both sides.         *)
LEMMA SamePromise ==
  Scanned!IInv => /\ RA!ConflictFree /\ RA!SurvivesCrossings
                  /\ home \in [DOMAIN ivs -> Reg \cup {Spilled}]
BY DEF Scanned!IInv, Scanned!TypeOK, Scanned!RA!Valid, Scanned!RA!ConflictFree,
       Scanned!RA!SurvivesCrossings, Scanned!RA!InRegister, Scanned!RA!Overlap,
       Scanned!RA!MayHold, Scanned!RA!Spilled, Scanned!RA!Reg, Scanned!Reg, Scanned!Spilled,
       RA!ConflictFree, RA!SurvivesCrossings, RA!InRegister, RA!Overlap,
       RA!MayHold, RA!Spilled, RA!Reg, Reg, Spilled

LEMMA SamePromiseNext ==
  Scanned!IInv' => /\ RA!ConflictFree' /\ RA!SurvivesCrossings'
                   /\ home' \in [DOMAIN ivs' -> Reg \cup {Spilled}]
BY DEF Scanned!IInv, Scanned!TypeOK, Scanned!RA!Valid, Scanned!RA!ConflictFree,
       Scanned!RA!SurvivesCrossings, Scanned!RA!InRegister, Scanned!RA!Overlap,
       Scanned!RA!MayHold, Scanned!RA!Spilled, Scanned!RA!Reg, Scanned!Reg, Scanned!Spilled,
       RA!ConflictFree, RA!SurvivesCrossings, RA!InRegister, RA!Overlap,
       RA!MayHold, RA!Spilled, RA!Reg, Reg, Spilled

(* ... and the scan takes the same steps.                                   *)
LEMMA SameStep == Allocator!Next => Scanned!Next
BY DEF Allocator!Next, Allocator!TakeFree, Allocator!Evict, Allocator!LeaveSpilled,
       Allocator!Candidates, Allocator!CallerPool, Allocator!CalleePool, Allocator!Returned,
       Allocator!Expired, Allocator!StillActive, Allocator!Evictable, Allocator!Victims,
       Allocator!Cheapest, Allocator!Cheaper, Allocator!Span, Allocator!Before,
       Allocator!MayHold, Allocator!Reg, Allocator!Spilled,
       Scanned!Next, Scanned!TakeFree, Scanned!Evict, Scanned!LeaveSpilled,
       Scanned!Candidates, Scanned!CallerPool, Scanned!CalleePool, Scanned!Returned,
       Scanned!Expired, Scanned!StillActive, Scanned!Evictable, Scanned!Victims,
       Scanned!Cheapest, Scanned!Cheaper, Scanned!Span, Scanned!Before,
       Scanned!MayHold, Scanned!Reg, Scanned!Spilled

LEMMA CompileInitInv ==
  ASSUME \A c \in Programs : Forward(c), CompileInit
  PROVE  CompileInv
<1>1. code \in Programs /\ ivs = LiveRanges(code) /\ ExecInit /\ Allocator!ScanInit
  BY DEF CompileInit
<1>2. ivs \in Seq(Interval) /\ Sorted(ivs)
  BY <1>1, RangesSorted
<1>3. Scanned!ScanInit /\ ivs \in Seq(Scanned!Interval) /\ Scanned!Sorted(ivs)
  BY <1>1, <1>2 DEF Allocator!ScanInit, Scanned!ScanInit, Scanned!Interval, Scanned!Sorted,
       Scanned!Spilled, Allocator!Spilled, Interval, Sorted
<1>4. Scanned!IInv
  BY <1>3, RegisterAssumption, InputsSorted, Scanned!StartInv
<1>5. Init
  BY <1>1, <1>4, SamePromise DEF Init
<1> QED
  BY <1>1, <1>4, <1>5, InitInv DEF CompileInv

-----------------------------------------------------------------------------
(* A step of the scan: the promise holds for the new allocation, and no     *)
(* Temp has a value yet.                                                    *)
LEMMA ScanInv ==
  ASSUME CompileInv, Scan
  PROVE  CompileInv'
<1>1. Allocator!Next /\ pos \in DOMAIN ivs /\ ivs' = ivs /\ UNCHANGED runVars
  BY DEF Scan, Allocator!Next, Allocator!TakeFree, Allocator!Evict, Allocator!LeaveSpilled
<1>2. Scanned!Next
  BY <1>1, SameStep
<1>3. Scanned!IInv'
  BY <1>2, RegisterAssumption, InputsSorted, Scanned!StepInv DEF CompileInv
<1>4. /\ RA!ConflictFree' /\ RA!SurvivesCrossings'
      /\ home' \in [DOMAIN ivs' -> Reg \cup {Spilled}]
  BY <1>3, SamePromiseNext
<1>5. ExecInit /\ ExecInit'
  BY <1>1 DEF CompileInv, ExecInit, runVars
<1>6. TypeOK' /\ Forward(code)'
  BY <1>1, <1>4 DEF CompileInv, IInv, TypeOK, Forward, runVars, Running
<1>7. Started' /\ InHome'
  BY <1>5 DEF ExecInit, Started, InHome
<1> QED
  BY <1>3, <1>4, <1>5, <1>6, <1>7 DEF CompileInv, IInv

(* A step of the code, once the scan is done: the allocation stays.         *)
LEMMA RunInv ==
  ASSUME CompileInv, Run
  PROVE  CompileInv'
<1>1. Next /\ pos = Len(ivs) + 1 /\ UNCHANGED scanVars /\ ivs' = ivs /\ home' = home
  BY DEF Run, Next, NextPart, NextInstr, Execute
<1>2. IInv'
  BY <1>1, StepInv DEF CompileInv
<1>3. UNCHANGED Scanned!vars
  BY <1>1 DEF scanVars, Scanned!vars
<1>4. Scanned!IInv'
  BY <1>3, RegisterAssumption, InputsSorted, Scanned!StepInv DEF CompileInv
<1>5. pos' \notin DOMAIN ivs'
  BY <1>1 DEF scanVars, CompileInv, Scanned!IInv, Scanned!TypeOK
<1> QED
  BY <1>2, <1>4, <1>5 DEF CompileInv

LEMMA CompileStepInv ==
  ASSUME CompileInv, [CompileNext]_<<vars, scanVars>>
  PROVE  CompileInv'
<1>1. CASE UNCHANGED <<vars, scanVars>>
  <2>1. IInv'
    BY <1>1, StepInv DEF CompileInv
  <2>2. UNCHANGED Scanned!vars
    BY <1>1 DEF vars, scanVars, Scanned!vars
  <2>3. Scanned!IInv'
    BY <2>2, RegisterAssumption, InputsSorted, Scanned!StepInv DEF CompileInv
  <2>4. (pos \in DOMAIN ivs => ExecInit)'
    BY <1>1 DEF CompileInv, vars, scanVars, ExecInit
  <2> QED
    BY <2>1, <2>3, <2>4 DEF CompileInv
<1> QED
  BY <1>1, ScanInv, RunInv DEF CompileNext

(* Every register the execution looks at is one the scan can have given,    *)
(* and control stays inside the function, whatever the programs.            *)
THEOREM CompiledCodeTypeCorrect ==
  ASSUME \A c \in Programs : Forward(c)
  PROVE  CompileSpec => []TypeOK
<1>1. CompileInit => CompileInv
  BY CompileInitInv
<1>2. CompileInv /\ [CompileNext]_<<vars, scanVars>> => CompileInv'
  BY CompileStepInv
<1>3. CompileInv => TypeOK
  BY DEF CompileInv, IInv
<1> QED
  BY <1>1, <1>2, <1>3, PTL DEF CompileSpec

(* For every set of forward-only functions and every pair of register       *)
(* pools: with the registers that allocate chose, no instruction reads a    *)
(* register that holds something other than its operand's value.            *)
THEOREM CompiledCodeRunsCorrectly ==
  ASSUME \A c \in Programs : Forward(c)
  PROVE  CompileSpec => []ReadsOwnValue
<1>1. CompileInit => CompileInv
  BY CompileInitInv
<1>2. CompileInv /\ [CompileNext]_<<vars, scanVars>> => CompileInv'
  BY CompileStepInv
<1>3. CompileInv => ReadsOwnValue
  BY InvReadsOwn DEF CompileInv
<1> QED
  BY <1>1, <1>2, <1>3, PTL DEF CompileSpec

(* In particular a Temp read after a call was in a register that the call   *)
(* preserves (regalloc.py, crosses_call); compiled_loops shows that control *)
(* has to go forward for it.                                                *)
THEOREM ForwardCodeSurvivesCalls ==
  ASSUME \A c \in Programs : Forward(c)
  PROVE  CompileSpec => []SurvivesCalls
<1>1. CompileInit => CompileInv
  BY CompileInitInv
<1>2. CompileInv /\ [CompileNext]_<<vars, scanVars>> => CompileInv'
  BY CompileStepInv
<1>3. ASSUME CompileInv PROVE SurvivesCalls
  <2>1. ReadsOwnValue
    BY <1>3, InvReadsOwn DEF CompileInv
  <2>2. Running => Now.reads \subseteq Temp
    BY <1>3, AtSite DEF CompileInv, IInv, Part
  <2>3. Nobody \notin Temp
    BY ProgramsAssumption DEF Nobody
  <2> QED
    BY <2>1, <2>2, <2>3 DEF ReadsOwnValue, SurvivesCalls
<1> QED
  BY <1>1, <1>2, <1>3, PTL DEF CompileSpec
=============================================================================
