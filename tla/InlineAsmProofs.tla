---------------------------- MODULE InlineAsmProofs ----------------------------
(***************************************************************************)
(* Proofs about the operands of an asm statement, for every number of       *)
(* operands, every assignment of registers to Temps and every order of      *)
(* targets: the loads are a parallel assignment, and the outputs arrive     *)
(* under the condition OutputsArrive names.                                 *)
(***************************************************************************)
EXTENDS InlineAsm, FiniteSetTheorems, WellFoundedInduction, TLAPS

OutputCount == Cardinality(Outputs)

(* What a statement is, and what its registers and slots hold.              *)
Registers ==
  /\ Outputs = 1 .. OutputCount /\ OutputCount \in 0 .. count
  /\ \A i, j \in Outputs : i # j /\ home[i] = home[j] => home[i] = Spilled
  /\ OperandRegs(count, OutputCount) \subseteq clobbers
  /\ reg \in [Machine -> Int]
  /\ slot \in [Outputs -> Int]

(* A pass that loads nothing finds every operand it has looked at in the    *)
(* way of another.                                                          *)
Refused ==
  phase = "load" /\ ~progress => \A i \in loads \ done : i < at => ~Safe(i)

(* The value of an operand is where `cur` says until it is loaded, and in   *)
(* its target from then on.                                                 *)
Located ==
  /\ phase = "load" =>
       \A i \in loads \ done :
         IF cur[i] = Memory THEN src[i] = Memory ELSE reg[cur[i]] = Original(i)
  /\ phase \in {"load", "text"} => \A i \in done : reg[Targets[i]] = Original(i)
  /\ phase = "text" => done = loads

(* No output Temp sits in a register that a later output is still in.       *)
Unhindered == \A i, j \in Outputs : i < j => home[i] # Targets[j]

(* Of the outputs, the first `stored` are in their Temps and the others in  *)
(* their targets.                                                           *)
Delivered ==
  phase \in {"store", "end"} /\ Unhindered =>
    \A i \in Outputs :
      IF i <= stored THEN Received(i) = Output(i) ELSE reg[Targets[i]] = Output(i)

NoneStored == phase \in {"load", "text"} => stored = 0
AllStored == phase = "end" => stored = OutputCount

IInv ==
  /\ TypeOK /\ Registers /\ Refused /\ Located
  /\ NoneStored /\ Delivered /\ AllStored /\ OthersUndisturbed

-----------------------------------------------------------------------------
(* A target is a register of the machine and no two operands share one.     *)
LEMMA TargetsDiffer ==
  ASSUME count \in 1 .. Len(Targets)
  PROVE  /\ \A i \in 1 .. count : Targets[i] \in Machine \cap Nat /\ Targets[i] > 0
         /\ \A i, j \in 1 .. count : Targets[i] = Targets[j] => i = j
<1>1. Len(Targets) \in Nat /\ DOMAIN Targets = 1 .. Len(Targets)
  BY TargetsAssumption
<1>2. \A i \in 1 .. count : i \in DOMAIN Targets
  BY <1>1
<1>3. ASSUME NEW i \in 1 .. count PROVE Targets[i] \in ToSet(Targets) /\ Targets[i] \in Nat
  BY <1>2, TargetsAssumption DEF ToSet
<1> QED
  BY <1>2, <1>3, TargetsAssumption DEF Machine, IsInjective

(* Among the operands that can be loaded there is a first one.              *)
LEMMA LeastExists ==
  ASSUME NEW S, S \subseteq Nat, S # {}
  PROVE  \E x \in S : \A y \in S : x <= y
<1> DEFINE R == OpToRel(<, Nat)
<1>1. IsWellFoundedOn(R, Nat)
  BY NatLessThanWellFounded
<1> HIDE DEF R
<1>2. PICK x \in S : \A y \in S : <<y, x>> \notin R
  BY <1>1, WFMin
<1>3. ASSUME NEW y \in S PROVE x <= y
  <2>1. <<y, x>> \notin {ss \in Nat \X Nat : ss[1] < ss[2]}
    BY <1>2, <1>3 DEF R, OpToRel
  <2> QED
    BY <2>1
<1> QED
  BY <1>3

(* The register a cycle is parked in exists and is no operand's target.     *)
LEMMA ParkingFree ==
  ASSUME count \in 1 .. Len(Targets)
  PROVE  /\ ParkingReg \in Reg
         /\ \A i \in 1 .. count : Targets[i] # ParkingReg
<1> DEFINE Used == {Targets[i] : i \in 1 .. count}
           Good == {k \in DOMAIN Parking : Parking[k] \notin Used}
<1>1. Used \subseteq ToSet(Targets)
  BY TargetsAssumption DEF ToSet
<1>2. Good \subseteq Nat /\ Good # {}
  BY <1>1, TargetsAssumption DEF ToSet
<1>3. PICK k \in Good : \A l \in Good : k <= l
  BY <1>2, LeastExists
<1>4. /\ k \in DOMAIN Parking
      /\ Parking[k] \notin Used
      /\ \A l \in 1 .. k - 1 : Parking[l] \in Used
  <2>1. ASSUME NEW l \in 1 .. k - 1 PROVE l \in DOMAIN Parking /\ ~(k <= l)
    BY TargetsAssumption
  <2> QED
    BY <1>3, <2>1
<1> DEFINE P(m) == /\ Parking[m] \notin Used
                   /\ \A l \in 1 .. m - 1 : Parking[l] \in Used
           c == CHOOSE m \in DOMAIN Parking : P(m)
<1>5. c \in DOMAIN Parking /\ P(c)
  <2>1. k \in DOMAIN Parking /\ P(k)
    BY <1>4
  <2> HIDE DEF P
  <2> QED
    BY <2>1
<1>6. ParkingReg = Parking[c]
  BY DEF ParkingReg
<1>7. Parking[c] \in Reg
  <2> HIDE DEF c, P
  <2> QED
    BY <1>5, TargetsAssumption
<1> QED
  BY <1>5, <1>6, <1>7

(* When each of the remaining operands is in the way of another, the values *)
(* of the remaining operands are in the remaining targets, one in each.     *)
LEMMA OnlyCyclesLeft ==
  ASSUME TypeOK, \A i \in loads \ done : ~Safe(i)
  PROVE  \A j \in loads \ done : \E i \in loads \ done : cur[j] = Targets[i]
<1> DEFINE U == loads \ done
           f == [i \in U |-> CHOOSE j \in U : cur[j] = Targets[i]]
<1>1. U \subseteq 1 .. count /\ count \in Nat
  BY TargetsAssumption DEF TypeOK
<1>2. IsFiniteSet(U)
  <2>1. IsFiniteSet(1 .. count)
    BY <1>1, FS_Interval
  <2> HIDE DEF U
  <2> QED
    BY <1>1, <2>1, FS_Subset
<1>3. ASSUME NEW i \in U PROVE f[i] \in U /\ cur[f[i]] = Targets[i]
  <2>1. \E j \in U : cur[j] = Targets[i]
    BY DEF Safe
  <2> QED
    BY <2>1
<1>4. \A i, k \in U : f[i] = f[k] => i = k
  <2> HIDE DEF f
  <2> TAKE i, k \in U
  <2> HAVE f[i] = f[k]
  <2>1. Targets[i] = Targets[k]
    BY <1>3
  <2> QED
    BY <1>1, <2>1, TargetsDiffer DEF TypeOK
<1>5. f \in Injection(U, U)
  <2>1. f \in [U -> U]
    BY <1>3
  <2> HIDE DEF f
  <2> QED
    BY <1>4, <2>1 DEF Injection, IsInjective
<1>6. f \in Surjection(U, U)
  <2> HIDE DEF f, U
  <2> QED
    BY <1>2, <1>5, FS_Injection
<1>7. \A j \in U : \E i \in U : f[i] = j
  <2> HIDE DEF f, U
  <2> QED
    BY <1>6 DEF Surjection
<1> QED
  <2> HIDE DEF f
  <2> QED
    BY <1>3, <1>7

-----------------------------------------------------------------------------
(* A statement about to be emitted satisfies the invariant.                 *)
LEMMA InitInv == Init => IInv
<1> SUFFICES ASSUME Init PROVE IInv
  OBVIOUS
<1>1. PICK s \in Shapes :
        /\ count = s[1]
        /\ loads \in {(s[2] + 1 .. s[1]) \cup rw : rw \in SUBSET (1 .. s[2])}
        /\ home \in [1 .. s[2] -> Reg \cup {Spilled}]
  BY DEF Init
<1>2. /\ count \in 1 .. Len(Targets) /\ count \in Nat
      /\ s[2] \in 0 .. count /\ loads \subseteq 1 .. count
  <2>1. s[1] \in 1 .. Len(Targets) /\ s[2] \in 0 .. s[1] /\ Len(Targets) \in Nat
    BY TargetsAssumption
  <2>2. PICK rw \in SUBSET (1 .. s[2]) : loads = (s[2] + 1 .. s[1]) \cup rw
    BY <1>1
  <2>3. s[2] + 1 .. s[1] \subseteq 1 .. count /\ 1 .. s[2] \subseteq 1 .. count
    BY <1>1, <2>1
  <2>4. count \in 1 .. Len(Targets) /\ s[2] \in 0 .. count
    BY <1>1, <2>1
  <2>5. count \in Nat
    BY <2>1, <2>4
  <2>6. loads \subseteq 1 .. count
    <3>1. rw \subseteq 1 .. count
      BY <2>2, <2>3
    <3> QED
      BY <2>2, <2>3, <3>1
  <2> QED
    BY <2>4, <2>5, <2>6
<1>3. Outputs = 1 .. s[2] /\ OutputCount = s[2]
  <2>1. Cardinality(1 .. s[2]) = s[2]
    <3>1. s[2] \in Nat
      BY <1>2
    <3>2. Cardinality(1 .. s[2]) = IF 1 > s[2] THEN 0 ELSE s[2] - 1 + 1
      BY <3>1, FS_Interval
    <3> QED
      BY <3>1, <3>2
  <2> QED
    BY <1>1, <2>1 DEF Outputs, OutputCount
<1>4. TypeOK
  <2>1. DOMAIN home = 1 .. Cardinality(Outputs) /\ Range(home) \subseteq Reg \cup {Spilled}
    BY <1>1, <1>3 DEF Outputs, OutputCount, Range
  <2>2. src \in [loads -> Reg \cup {Memory}] /\ cur = src
    BY DEF Init
  <2>3. 1 \in 1 .. count + 1 /\ 0 \in 0 .. Cardinality(Outputs)
    BY <1>2, <1>3 DEF OutputCount
  <2> QED
    BY <1>2, <2>1, <2>2, <2>3 DEF Init, TypeOK
<1>5. Registers
  <2>1. OperandRegs(count, OutputCount) \subseteq clobbers
    BY DEF Init, OutputCount
  <2>2. reg \in [Machine -> Int]
    <3>1. Machine \subseteq Int
      <4>1. Reg \subseteq Int
        BY RegisterAssumption DEF Reg
      <4>2. ToSet(Targets) \subseteq Int
        BY TargetsAssumption DEF ToSet
      <4> QED
        BY <4>1, <4>2 DEF Machine
    <3> QED
      BY <3>1 DEF Init
  <2>3. slot \in [Outputs -> Int]
    BY DEF Init, Outputs, Junk
  <2> QED
    BY <1>2, <1>3, <2>1, <2>2, <2>3 DEF Registers, Init, Outputs
<1>6. Refused
  BY <1>2 DEF Refused, Init
<1>7. Located
  <2> SUFFICES ASSUME NEW i \in loads, src[i] # Memory PROVE reg[src[i]] = src[i]
    BY DEF Located, Init, Original
  <2> QED
    BY DEF Init, Machine
<1>8. NoneStored /\ Delivered /\ AllStored
  BY DEF NoneStored, Delivered, AllStored, Init
<1>9. OthersUndisturbed
  BY DEF OthersUndisturbed, Init
<1> QED
  BY <1>4, <1>5, <1>6, <1>7, <1>8, <1>9 DEF IInv

-----------------------------------------------------------------------------
(* What the statement is does not change while its code is emitted.         *)
LEMMA SameStatement ==
  ASSUME UNCHANGED statement
  PROVE  /\ Outputs' = Outputs /\ OutputCount' = OutputCount
         /\ ParkingReg' = ParkingReg
         /\ \A i : Original(i)' = Original(i)
         /\ Unhindered' <=> Unhindered
BY DEF statement, Outputs, OutputCount, ParkingReg, Original, Unhindered

(* The statement stays one of at most Len(Targets) operands.                *)
LEMMA TypeInv == IInv /\ [Next]_vars => TypeOK'
<1> SUFFICES ASSUME IInv, [Next]_vars PROVE TypeOK'
  OBVIOUS
<1> USE DEF IInv
<1>1. count \in Nat /\ OutputCount \in Nat
  BY TargetsAssumption DEF TypeOK, Registers
<1>2. CASE Load
  BY <1>1, <1>2 DEF Load, Looking, Loadable, TypeOK, statement, Outputs
<1>3. CASE PassBy
  BY <1>1, <1>3 DEF PassBy, Looking, TypeOK, statement, Outputs
<1>4. CASE NextPass
  <2>1. 1 \in 1 .. count + 1
    BY <1>1
  <2> QED
    BY <1>4, <2>1 DEF NextPass, TypeOK, statement, Outputs
<1>5. CASE Park
  <2>1. cur' \in [loads -> Reg \cup {Memory}]
    BY <1>5, ParkingFree DEF Park, TypeOK
  <2> QED
    BY <1>1, <1>5, <2>1 DEF Park, TypeOK, statement, Outputs
<1>6. CASE AllLoaded
  BY <1>6 DEF AllLoaded, TypeOK, statement, Outputs
<1>7. CASE Text
  BY <1>7 DEF Text, TypeOK, statement, Outputs
<1>8. CASE StoreOutput
  <2>1. stored' \in 0 .. OutputCount
    BY <1>1, <1>8 DEF StoreOutput, Registers, TypeOK
  <2> QED
    BY <1>8, <2>1 DEF StoreOutput, TypeOK, statement, Outputs, OutputCount
<1>9. CASE Finish
  BY <1>9 DEF Finish, TypeOK, statement, Outputs
<1>10. CASE UNCHANGED vars
  BY <1>10 DEF vars, TypeOK, statement, Outputs
<1> QED
  BY <1>2, <1>3, <1>4, <1>5, <1>6, <1>7, <1>8, <1>9, <1>10 DEF Next

(* The registers of the operands stay those of the statement.                *)
LEMMA RegistersInv == IInv /\ [Next]_vars => Registers'
<1> SUFFICES ASSUME IInv, [Next]_vars PROVE Registers'
  OBVIOUS
<1> USE DEF IInv
<1>1. UNCHANGED statement
  BY DEF Next, Load, PassBy, NextPass, Park, AllLoaded, Text, StoreOutput, Finish, vars
<1>2. reg' \in [Machine -> Int]
  <2>1. CASE Load
    <3>1. cur[at] \in Reg \cup {Memory} /\ InMemory(at) \in Int
      BY <2>1, TargetsAssumption DEF Load, Loadable, TypeOK, InMemory
    <3>2. (IF cur[at] = Memory THEN InMemory(at) ELSE reg[cur[at]]) \in Int
      BY <3>1 DEF Registers, Machine
    <3> QED
      BY <2>1, <3>2 DEF Load, Registers
  <2>2. CASE Park
    <3>1. PICK i \in loads \ done :
            reg' = [reg EXCEPT ![ParkingReg] = reg[Targets[i]]]
      BY <2>2 DEF Park
    <3>2. reg[Targets[i]] \in Int
      BY TargetsDiffer DEF TypeOK, Registers
    <3> QED
      BY <3>1, <3>2 DEF Registers
  <2>3. CASE Text
    <3>1. \A i \in Outputs : Output(i) \in Int
      BY TargetsAssumption DEF Registers, TypeOK, Output
    <3>2. ASSUME NEW r \in Machine, \E i \in Outputs : Targets[i] = r
          PROVE  Output(CHOOSE i \in Outputs : Targets[i] = r) \in Int
      BY <3>1, <3>2
    <3> QED
      BY <2>3, <3>2 DEF Text, Registers, Junk
  <2>4. CASE StoreOutput
    <3>1. stored' \in 1 .. count
      BY <2>4, TargetsAssumption DEF StoreOutput, Registers, TypeOK
    <3>2. reg[Targets[stored']] \in Int
      BY <3>1, TargetsDiffer DEF TypeOK, Registers
    <3> QED
      BY <2>4, <3>2 DEF StoreOutput, Registers
  <2>5. CASE UNCHANGED reg
    BY <2>5 DEF Registers
  <2> QED
    BY <2>1, <2>2, <2>3, <2>4, <2>5
    DEF Next, PassBy, NextPass, AllLoaded, Finish, vars
<1>3. slot' \in [Outputs -> Int]
  <2>1. CASE StoreOutput
    <3>1. stored' \in 1 .. count
      BY <2>1, TargetsAssumption DEF StoreOutput, Registers, TypeOK
    <3>2. reg[Targets[stored']] \in Int
      BY <3>1, TargetsDiffer DEF TypeOK, Registers
    <3> QED
      BY <2>1, <3>2 DEF StoreOutput, Registers
  <2>2. CASE UNCHANGED slot
    BY <2>2 DEF Registers
  <2> QED
    BY <2>1, <2>2
    DEF Next, Load, PassBy, NextPass, Park, AllLoaded, Text, Finish, vars
<1> QED
  BY <1>1, <1>2, <1>3, SameStatement DEF Registers, statement, Outputs, OperandRegs

(* An operand that a pass has left out stays in the way of another.         *)
LEMMA RefusedInv == IInv /\ [Next]_vars => Refused'
<1> SUFFICES ASSUME IInv, [Next]_vars PROVE Refused'
  OBVIOUS
<1> USE DEF IInv
<1>1. loads \subseteq Nat /\ at \in Nat
  BY TargetsAssumption DEF TypeOK
<1>2. CASE Load
  BY <1>2 DEF Load, Refused
<1>3. CASE PassBy
  <2>1. /\ loads' = loads /\ done' = done /\ progress' = progress /\ phase' = phase
        /\ \A i : Safe(i)' <=> Safe(i)
    BY <1>3 DEF PassBy, statement, Safe
  <2>2. at' = at + 1 /\ (at \in loads \ done => ~Safe(at))
    BY <1>3 DEF PassBy, Loadable
  <2>3. \A i \in loads \ done : i < at' => i < at \/ i = at
    BY <1>1, <2>2
  <2> QED
    BY <2>1, <2>2, <2>3 DEF Refused
<1>4. CASE NextPass \/ Park
  <2>1. at' = 1 /\ loads' = loads
    BY <1>4 DEF NextPass, Park, statement
  <2>2. \A i \in loads : ~(i < 1)
    BY TargetsAssumption DEF TypeOK
  <2> QED
    BY <2>1, <2>2 DEF Refused
<1>5. CASE AllLoaded \/ Text \/ StoreOutput \/ Finish
  BY <1>5 DEF AllLoaded, Text, StoreOutput, Finish, Refused
<1>6. CASE UNCHANGED vars
  BY <1>6 DEF vars, statement, Refused, Safe
<1> QED
  BY <1>2, <1>3, <1>4, <1>5, <1>6 DEF Next

(* An operand not yet loaded is still where the bookkeeping says it is.     *)
LEMMA LocatedInv == IInv /\ [Next]_vars => Located'
<1> SUFFICES ASSUME IInv, [Next]_vars PROVE Located'
  OBVIOUS
<1> USE DEF IInv
<1>1. CASE Load
  <2>1. /\ loads' = loads /\ cur' = cur /\ src' = src /\ phase' = "load" /\ phase = "load"
        /\ at \in loads \ done /\ Safe(at) /\ done' = done \cup {at}
        /\ \A i : Original(i)' = Original(i)
    BY <1>1 DEF Load, Looking, Loadable, statement, Original
  <2>2. at \in 1 .. count /\ Targets[at] \in Machine
    BY <2>1, TargetsDiffer DEF TypeOK
  <2>3. reg'[Targets[at]] = Original(at)
    BY <1>1, <2>1, <2>2 DEF Load, Located, Registers, Original
  <2>4. \A r \in Machine : r # Targets[at] => reg'[r] = reg[r]
    BY <1>1, <2>2 DEF Load, Registers
  <2>5. ASSUME NEW i \in loads \ done'
        PROVE  IF cur[i] = Memory THEN src[i] = Memory ELSE reg'[cur[i]] = Original(i)
    <3>1. cur[i] # Targets[at] /\ cur[i] \in Reg \cup {Memory}
      BY <2>1, <2>5 DEF Safe, TypeOK
    <3> QED
      BY <2>1, <2>4, <2>5, <3>1 DEF Located, Machine
  <2>6. ASSUME NEW i \in done' PROVE reg'[Targets[i]] = Original(i)
    <3>1. CASE i = at
      BY <2>3, <3>1
    <3>2. CASE i # at
      <4>1. i \in done /\ i \in 1 .. count
        BY <2>1, <2>6, <3>2 DEF TypeOK
      <4>2. Targets[i] \in Machine /\ Targets[i] # Targets[at]
        BY <2>2, <3>2, <4>1, TargetsDiffer DEF TypeOK
      <4> QED
        BY <2>1, <2>4, <4>1, <4>2 DEF Located
    <3> QED
      BY <3>1, <3>2
  <2> QED
    BY <2>1, <2>5, <2>6 DEF Located
<1>2. CASE PassBy \/ NextPass
  BY <1>2 DEF PassBy, NextPass, statement, Located, Original
<1>3. CASE Park
  <2>1. PICK i \in loads \ done :
          /\ reg' = [reg EXCEPT ![ParkingReg] = reg[Targets[i]]]
          /\ cur' = [j \in loads |->
                       IF j \notin done /\ cur[j] = Targets[i] THEN ParkingReg ELSE cur[j]]
    BY <1>3 DEF Park
  <2>2. /\ loads' = loads /\ done' = done /\ src' = src /\ phase = "load" /\ phase' = "load"
        /\ \A j : Original(j)' = Original(j)
    BY <1>3 DEF Park, PassEnd, statement, Original
  <2>3. \A j \in loads \ done : ~Safe(j)
    <3>1. ~progress /\ at = count + 1
      BY <1>3 DEF Park, PassEnd
    <3>2. \A j \in loads : j < at
      BY <3>1, TargetsAssumption DEF TypeOK
    <3> QED
      BY <2>2, <3>1, <3>2 DEF Refused
  <2>4. /\ ParkingReg \in Reg /\ ParkingReg # Memory
        /\ \A j \in 1 .. count : Targets[j] # ParkingReg
    BY ParkingFree, TargetsAssumption DEF TypeOK, Memory
  <2>5. \A j \in loads \ done : cur[j] # ParkingReg
    <3>1. \A k \in loads \ done : k \in 1 .. count
      BY DEF TypeOK
    <3> QED
      BY <2>3, <2>4, <3>1, OnlyCyclesLeft
  <2>6. /\ reg'[ParkingReg] = reg[Targets[i]]
        /\ \A r \in Machine : r # ParkingReg => reg'[r] = reg[r]
    BY <2>1, <2>4 DEF Registers, Machine
  <2>7. ASSUME NEW j \in loads \ done
        PROVE  IF cur'[j] = Memory THEN src[j] = Memory ELSE reg'[cur'[j]] = Original(j)
    <3>1. Targets[i] > 0 /\ Targets[i] # Memory
      BY TargetsDiffer DEF TypeOK, Memory
    <3>2. CASE cur[j] = Targets[i]
      <4>1. cur'[j] = ParkingReg /\ reg[Targets[i]] = Original(j)
        BY <2>1, <2>2, <3>1, <3>2 DEF Located
      <4> QED
        BY <2>4, <2>6, <4>1
    <3>3. CASE cur[j] # Targets[i]
      <4>1. cur'[j] = cur[j] /\ cur[j] \in Reg \cup {Memory}
        BY <2>1, <3>3 DEF TypeOK
      <4> QED
        BY <2>2, <2>5, <2>6, <4>1 DEF Located, Machine
    <3> QED
      BY <3>2, <3>3
  <2>8. ASSUME NEW j \in done PROVE reg'[Targets[j]] = Original(j)
    <3>1. j \in 1 .. count
      BY DEF TypeOK
    <3>2. Targets[j] \in Machine /\ Targets[j] # ParkingReg
      BY <2>4, <3>1, TargetsDiffer DEF TypeOK
    <3> QED
      BY <2>2, <2>6, <3>2 DEF Located
  <2> QED
    BY <2>2, <2>7, <2>8 DEF Located
<1>4. CASE AllLoaded
  BY <1>4 DEF AllLoaded, PassEnd, statement, Located, Original
<1>5. CASE Text \/ StoreOutput \/ Finish
  BY <1>5 DEF Text, StoreOutput, Finish, Located
<1>6. CASE UNCHANGED vars
  BY <1>6 DEF vars, statement, Located, Original
<1> QED
  BY <1>1, <1>2, <1>3, <1>4, <1>5, <1>6 DEF Next

(* A stored output stays stored, and at the end all of them are.            *)
LEMMA DeliveredInv == IInv /\ [Next]_vars => Delivered' /\ AllStored'
<1> SUFFICES ASSUME IInv, [Next]_vars PROVE Delivered' /\ AllStored'
  OBVIOUS
<1> USE DEF IInv
<1>1. OutputCount \in Nat /\ count \in Nat /\ stored \in 0 .. OutputCount
  BY TargetsAssumption DEF TypeOK, Registers, OutputCount
<1>2. CASE Load \/ PassBy \/ NextPass \/ Park \/ AllLoaded
  BY <1>2
  DEF Load, Looking, PassBy, NextPass, Park, PassEnd, AllLoaded, Delivered, AllStored
<1>3. CASE Text
  <2>1. /\ UNCHANGED statement /\ stored' = stored /\ phase' = "store" /\ phase = "text"
        /\ Outputs' = Outputs
    BY <1>3, SameStatement DEF Text
  <2>2. stored = 0
    BY <2>1 DEF NoneStored
  <2>3. ASSUME NEW i \in Outputs PROVE reg'[Targets[i]] = Output(i) /\ ~(i <= stored)
    <3>1. i \in 1 .. count /\ Outputs \subseteq 1 .. count
      BY <1>1 DEF Registers
    <3>2. Targets[i] \in Machine /\ \A k \in Outputs : Targets[k] = Targets[i] => k = i
      BY <3>1, TargetsDiffer DEF TypeOK
    <3>3. (CHOOSE k \in Outputs : Targets[k] = Targets[i]) = i
      BY <3>2
    <3>4. reg'[Targets[i]] = Output(i)
      BY <1>3, <3>2, <3>3 DEF Text
    <3> QED
      BY <2>2, <3>1, <3>4
  <2> QED
    BY <2>1, <2>3 DEF Delivered, AllStored
<1>4. CASE StoreOutput
  <2> DEFINE k == stored + 1
             h == home[k]
  <2>1. /\ k \in Outputs /\ stored' = k /\ phase = "store" /\ phase' = "store"
        /\ UNCHANGED statement
        /\ IF h = Spilled
             THEN slot' = [slot EXCEPT ![k] = reg[Targets[k]]] /\ UNCHANGED reg
             ELSE reg' = [reg EXCEPT ![h] = reg[Targets[k]]] /\ UNCHANGED slot
    BY <1>4 DEF StoreOutput
  <2>2. Outputs' = Outputs /\ home' = home /\ (Unhindered' <=> Unhindered)
    BY <2>1, SameStatement DEF statement
  <2>3. SUFFICES ASSUME Unhindered, NEW i \in Outputs
                 PROVE  IF i <= k THEN Received(i)' = Output(i)
                                  ELSE reg'[Targets[i]] = Output(i)
    BY <2>1, <2>2 DEF Delivered, AllStored
  <2>4. k \in Nat /\ i \in Nat /\ i \in 1 .. count /\ k \in 1 .. count
    BY <1>1, <2>1 DEF Registers
  <2>5. \A j \in Outputs :
          IF j <= stored THEN Received(j) = Output(j) ELSE reg[Targets[j]] = Output(j)
    BY <2>1, <2>3 DEF Delivered
  <2>6. ~(k <= stored) /\ reg[Targets[k]] = Output(k)
    BY <1>1, <2>1, <2>5
  <2>7. h = Spilled \/ h \in Machine
    BY <2>1 DEF TypeOK, Range, Outputs, Machine
  <2>8. Targets[i] \in Machine
    BY <2>4, TargetsDiffer DEF TypeOK
  <2>9. CASE i = k
    BY <2>1, <2>2, <2>6, <2>7, <2>9 DEF Received, Registers
  <2>10. CASE i > k
    <3>1. ~(i <= k) /\ ~(i <= stored) /\ h # Targets[i]
      BY <1>1, <2>1, <2>3, <2>4, <2>10 DEF Unhindered
    <3>2. reg'[Targets[i]] = reg[Targets[i]]
      BY <2>1, <2>7, <2>8, <3>1 DEF Registers
    <3> QED
      BY <2>5, <3>1, <3>2
  <2>11. CASE i < k
    <3>1. i <= k /\ i <= stored /\ i # k
      BY <1>1, <2>4, <2>11
    <3>2. home[i] = h => home[i] = Spilled
      BY <2>1, <3>1 DEF Registers
    <3>3. home[i] = Spilled \/ home[i] \in Machine
      BY DEF TypeOK, Range, Outputs, Machine
    <3>4. Received(i)' = Received(i)
      BY <2>1, <2>2, <2>7, <3>1, <3>2, <3>3 DEF Received, Registers
    <3> QED
      BY <2>5, <3>1, <3>4
  <2> QED
    BY <2>4, <2>9, <2>10, <2>11
<1>5. CASE Finish
  <2>1. /\ UNCHANGED <<statement, reg, slot, stored>>
        /\ phase = "store" /\ phase' = "end" /\ stored + 1 \notin Outputs
    BY <1>5 DEF Finish
  <2>2. stored = OutputCount /\ OutputCount' = OutputCount
    BY <1>1, <2>1, SameStatement DEF Registers
  <2> QED
    BY <2>1, <2>2, SameStatement DEF Delivered, AllStored, Received, statement
<1>6. CASE UNCHANGED vars
  BY <1>6, SameStatement DEF vars, Delivered, AllStored, Received, statement
<1> QED
  BY <1>2, <1>3, <1>4, <1>5, <1>6 DEF Next

(* Only operands' targets, the parking register and outputs are written.    *)
LEMMA OthersInv == IInv /\ [Next]_vars => OthersUndisturbed'
<1> SUFFICES ASSUME IInv, [Next]_vars PROVE OthersUndisturbed'
  OBVIOUS
<1> USE DEF IInv
<1> DEFINE Allowed == clobbers \cup Range(home) \cup {ParkingReg}
<1>1. Allowed' = Allowed
  <2>1. UNCHANGED statement
    BY DEF Next, Load, PassBy, NextPass, Park, AllLoaded, Text, StoreOutput, Finish, vars
  <2> QED
    BY <2>1, SameStatement DEF statement
<1>2. \A i \in 1 .. count : Targets[i] \in clobbers
  BY DEF Registers, OperandRegs
<1>3. \A r \in Machine : reg[r] # r => r \in Allowed
  BY DEF OthersUndisturbed
<1>4. SUFFICES ASSUME NEW r \in Machine, reg'[r] # reg[r] PROVE r \in Allowed
  <2> HIDE DEF Allowed
  <2>1. \A r \in Machine : reg'[r] # r => r \in Allowed
    BY <1>3, <1>4
  <2> QED
    BY <1>1, <2>1 DEF OthersUndisturbed, Allowed
<1>5. CASE Load
  <2>1. at \in 1 .. count /\ r = Targets[at]
    BY <1>4, <1>5 DEF Load, Loadable, TypeOK, Registers
  <2> QED
    BY <1>2, <2>1
<1>6. CASE Park
  <2>1. r = ParkingReg
    BY <1>4, <1>6 DEF Park, Registers
  <2> QED
    BY <2>1
<1>7. CASE Text
  <2>1. Outputs \subseteq 1 .. count
    BY TargetsAssumption DEF Registers, TypeOK
  <2> QED
    BY <1>2, <1>4, <1>7, <2>1 DEF Text
<1>8. CASE StoreOutput
  <2>1. stored' \in Outputs /\ r = home[stored']
    BY <1>4, <1>8 DEF StoreOutput, Registers
  <2> QED
    BY <2>1 DEF Range, Outputs
<1>9. CASE UNCHANGED reg
  BY <1>4, <1>9
<1> QED
  BY <1>5, <1>6, <1>7, <1>8, <1>9 DEF Next, PassBy, NextPass, AllLoaded, Finish, vars

(* No output is stored before the assembly text has run.                    *)
LEMMA NoneStoredInv == IInv /\ [Next]_vars => NoneStored'
BY DEF IInv, NoneStored, Next, Load, Looking, PassBy, NextPass, Park, PassEnd,
   AllLoaded, Text, StoreOutput, Finish, vars

(* The parts of the invariant hold together.                                *)
LEMMA StepInv == IInv /\ [Next]_vars => IInv'
BY TypeInv, RegistersInv, RefusedInv, LocatedInv, NoneStoredInv, DeliveredInv, OthersInv
   DEF IInv

(* Every reachable state of a statement's code satisfies the invariant.     *)
THEOREM Inductive == Spec => []IInv
<1>1. Init => IInv
  BY InitInv
<1>2. IInv /\ [Next]_vars => IInv'
  BY StepInv
<1> QED
  BY <1>1, <1>2, PTL DEF Spec

(* At most Len(Targets) operands, each in a register or in memory.          *)
THEOREM TypeCorrect == Spec => []TypeOK
<1>1. IInv => TypeOK
  BY DEF IInv
<1> QED
  BY <1>1, Inductive, PTL

(* However many cycles the operands form, when the statement's text begins  *)
(* every operand's register holds the value the operand had before, and     *)
(* until then no load destroys the value of an operand not yet loaded.      *)
THEOREM LoadsAreParallel == Spec => []OperandsLoaded
<1>1. IInv => OperandsLoaded
  BY DEF IInv, Located, OperandsLoaded
<1> QED
  BY <1>1, Inductive, PTL

(* Only declared clobbers, output Temps' homes and the parking register     *)
(* change.                                                                  *)
THEOREM OthersKept == Spec => []OthersUndisturbed
<1>1. IInv => OthersUndisturbed
  BY DEF IInv
<1> QED
  BY <1>1, Inductive, PTL

(* Every output Temp receives its output, unless it sits in the register of *)
(* an output stored later.                                                  *)
THEOREM OutputsDelivered == Spec => []OutputsArrive
<1>1. IInv => OutputsArrive
  <2> SUFFICES ASSUME IInv, phase = "end", Unhindered, NEW i \in Outputs
               PROVE  Received(i) = Output(i)
    BY DEF OutputsArrive, Unhindered
  <2>1. i <= stored
    BY DEF IInv, AllStored, Registers
  <2> QED
    BY <2>1 DEF IInv, Delivered
<1> QED
  BY <1>1, Inductive, PTL
=============================================================================
