--------------------------- MODULE LinearScanProofs ---------------------------
(***************************************************************************)
(* Proofs that the linear scan of LinearScan keeps its promise for every    *)
(* set of registers and every list of intervals.                            *)
(***************************************************************************)
EXTENDS LinearScan, TLAPS

(* Intervals that gave their register back ended before every interval      *)
(* still to come, because the list is sorted by start.                      *)
Retired ==
  \A k \in (1 .. pos - 1) \ active :
    assignment[k] # Spilled
      => \A l \in pos .. Len(ivs) : ivs[k].end < ivs[l].start

(* Nothing is assigned ahead of the scan.                                   *)
Future == \A k \in pos .. Len(ivs) : assignment[k] = Spilled

IInv == TypeOK /\ PoolsExact /\ Retired /\ Future /\ RA!Valid

-----------------------------------------------------------------------------
(* The promise of RegisterAllocation, in this module's own vocabulary.      *)
Disjoint(a) ==
  \A k, l \in DOMAIN ivs :
    k # l /\ a[k] # Spilled /\ a[k] = a[l] => ~Overlap(ivs[k], ivs[l])
Held(a) == \A k \in DOMAIN ivs : a[k] # Spilled => MayHold(a[k], ivs[k])
Saved(a, used) ==
  \A k \in DOMAIN ivs : a[k] \in CalleeSaved => a[k] \in used

LEMMA ValidMeans ==
  RA!Valid <=> Disjoint(assignment) /\ Held(assignment) /\ Saved(assignment, calleeUsed)
BY DEF RA!Valid, RA!ConflictFree, RA!SurvivesCrossings, RA!SavesComplete,
   RA!InRegister, RA!Overlap, RA!MayHold, RA!Spilled, RA!Reg,
   Disjoint, Held, Saved, Overlap, MayHold, Spilled, Reg

LEMMA ValidMeansNext ==
  RA!Valid' <=> (Disjoint(assignment) /\ Held(assignment) /\ Saved(assignment, calleeUsed))'
BY DEF RA!Valid, RA!ConflictFree, RA!SurvivesCrossings, RA!SavesComplete,
   RA!InRegister, RA!Overlap, RA!MayHold, RA!Spilled, RA!Reg,
   Disjoint, Held, Saved, Overlap, MayHold, Spilled, Reg

(* The inductive invariant holds when the scan of a sorted list begins.     *)
LEMMA StartInv ==
  ASSUME ScanInit, ivs \in Seq(Interval), Sorted(ivs)
  PROVE  IInv
<1> USE DEF ScanInit
<1>1. TypeOK
  <2>1. Len(ivs) \in Nat /\ DOMAIN ivs = 1 .. Len(ivs)
    OBVIOUS
  <2> QED
    BY <2>1 DEF TypeOK
<1>2. PoolsExact
  BY DEF PoolsExact
<1>3. Retired
  BY DEF Retired
<1>4. Future
  BY <1>1 DEF Future, TypeOK
<1>5. RA!Valid
  <2>1. \A k \in DOMAIN ivs : assignment[k] = Spilled
    OBVIOUS
  <2>2. Spilled \notin CalleeSaved
    BY RegisterAssumption DEF Spilled
  <2> QED
    BY <2>1, <2>2, ValidMeans DEF Disjoint, Held, Saved
<1> QED
  BY <1>1, <1>2, <1>3, <1>4, <1>5 DEF IInv

LEMMA InitInv == Init => IInv
BY StartInv, InputsAssumption DEF Init

-----------------------------------------------------------------------------
(* What every iteration may rely on after its call of _expire.              *)
LEMMA AfterExpire ==
  ASSUME IInv, pos \in DOMAIN ivs
  PROVE  /\ DOMAIN ivs = 1 .. Len(ivs) /\ Len(ivs) \in Nat /\ pos \in 1 .. Len(ivs)
         /\ ivs[pos] \in Interval
         /\ StillActive \subseteq 1 .. pos - 1
         /\ \A k \in StillActive : assignment[k] \in Reg
         /\ \A k, l \in StillActive : assignment[k] = assignment[l] => k = l
         /\ CallerPool = CallerSaved \ {assignment[k] : k \in StillActive}
         /\ CalleePool = CalleeSaved \ {assignment[k] : k \in StillActive}
         /\ \A k \in (1 .. pos - 1) \ StillActive :
              assignment[k] # Spilled
                => \A l \in pos .. Len(ivs) : ivs[k].end < ivs[l].start
<1> USE DEF IInv, TypeOK
<1>1. DOMAIN ivs = 1 .. Len(ivs) /\ Len(ivs) \in Nat /\ pos \in 1 .. Len(ivs)
  OBVIOUS
<1>2. ivs[pos] \in Interval
  BY <1>1
<1>3. StillActive \subseteq 1 .. pos - 1 /\ Expired \subseteq active
  BY DEF StillActive, Expired
<1>4. /\ \A k \in active : assignment[k] \in Reg
      /\ \A k, l \in active : assignment[k] = assignment[l] => k = l
  BY DEF PoolsExact
<1>5. CallerPool = CallerSaved \ {assignment[k] : k \in StillActive}
  BY <1>3, <1>4 DEF PoolsExact, CallerPool, Returned, StillActive
<1>6. CalleePool = CalleeSaved \ {assignment[k] : k \in StillActive}
  BY <1>3, <1>4 DEF PoolsExact, CalleePool, Returned, StillActive
<1>7. ASSUME NEW k \in (1 .. pos - 1) \ StillActive, assignment[k] # Spilled,
             NEW l \in pos .. Len(ivs)
      PROVE  ivs[k].end < ivs[l].start
  <2>1. ivs[k] \in Interval /\ ivs[l] \in Interval
    BY <1>1
  <2>2. CASE k \notin active
    BY <2>2, <1>7 DEF Retired
  <2>3. CASE k \in active
    <3>1. ivs[k].end < ivs[pos].start
      BY <2>3, <1>7 DEF StillActive, Expired
    <3>2. ivs[pos].start <= ivs[l].start
      <4>1. CASE l = pos
        BY <4>1, <1>2 DEF Interval
      <4>2. CASE l # pos
        BY <4>2, <1>1 DEF Sorted
      <4> QED
        BY <4>1, <4>2
    <3> HIDE DEF IInv, TypeOK
    <3>3. \A iv \in Interval : iv.start \in Int /\ iv.end \in Int
      BY DEF Interval
    <3> QED
      BY <3>1, <3>2, <3>3, <2>1, <1>2
  <2> QED
    BY <2>2, <2>3
<1> QED
  BY <1>1, <1>2, <1>3, <1>4, <1>5, <1>6, <1>7 DEF StillActive

(* A register that no active interval holds conflicts with no earlier one.  *)
LEMMA NoConflictWithPast ==
  ASSUME IInv, pos \in DOMAIN ivs, NEW r \in Reg,
         NEW k \in DOMAIN ivs, k # pos, assignment[k] = r, k \notin StillActive
  PROVE  ~Overlap(ivs[k], ivs[pos]) /\ ~Overlap(ivs[pos], ivs[k])
<1>1. r # Spilled
  BY RegisterAssumption DEF Reg, Spilled
<1>2. k \in 1 .. pos - 1
  BY <1>1, AfterExpire DEF IInv, Future
<1>3. ivs[k].end < ivs[pos].start
  BY <1>1, <1>2, AfterExpire
<1>4. ivs[k] \in Interval /\ ivs[pos] \in Interval
  BY AfterExpire DEF IInv, TypeOK
<1> QED
  BY <1>3, <1>4 DEF Overlap, Interval

-----------------------------------------------------------------------------
(* Taking the first free register of the preferred pool keeps everything.   *)
LEMMA TakeFreeInv ==
  ASSUME IInv, TakeFree
  PROVE  IInv'
<1>1. PICK r \in Candidates :
        /\ assignment' = [assignment EXCEPT ![pos] = r]
        /\ callerFree' = CallerPool \ {r}
        /\ calleeFree' = CalleePool \ {r}
        /\ calleeUsed' = calleeUsed \cup ({r} \cap CalleeSaved)
  BY DEF TakeFree
<1>2. /\ pos \in DOMAIN ivs /\ pos' = pos + 1 /\ ivs' = ivs
      /\ active' = StillActive \cup {pos}
  BY DEF TakeFree
<1>3. r \in Reg /\ MayHold(r, ivs[pos]) /\ r # Spilled
  BY AfterExpire, <1>2, RegisterAssumption DEF Candidates, MayHold, Reg, Spilled
<1>4. \A k \in StillActive : assignment[k] # r
  BY <1>2, AfterExpire, RegisterAssumption DEF Candidates
<1>5. /\ assignment'[pos] = r
      /\ \A k \in DOMAIN ivs : k # pos => assignment'[k] = assignment[k]
      /\ assignment' \in [DOMAIN ivs -> Reg \cup {Spilled}]
  BY <1>1, <1>2, <1>3 DEF IInv, TypeOK
<1>6. TypeOK'
  <2>1. active' \subseteq 1 .. pos' - 1
    BY <1>2, AfterExpire
  <2>2. callerFree' \subseteq CallerSaved /\ calleeFree' \subseteq CalleeSaved
    BY <1>1, <1>2, AfterExpire
  <2>3. calleeUsed' \subseteq CalleeSaved
    BY <1>1 DEF IInv, TypeOK
  <2>4. pos' \in 1 .. Len(ivs') + 1
    BY <1>2, AfterExpire
  <2> QED
    BY <2>1, <2>2, <2>3, <2>4, <1>2, <1>5 DEF IInv, TypeOK
<1>7. PoolsExact'
  <2>1. {assignment'[k] : k \in active'} = {assignment[k] : k \in StillActive} \cup {r}
    BY <1>2, <1>5, AfterExpire
  <2>2. callerFree' = CallerSaved \ {assignment'[k] : k \in active'}
    BY <2>1, <1>1, <1>2, AfterExpire
  <2>3. calleeFree' = CalleeSaved \ {assignment'[k] : k \in active'}
    BY <2>1, <1>1, <1>2, AfterExpire
  <2>4. {assignment'[k] : k \in active'} \subseteq Reg
    BY <2>1, <1>2, <1>3, AfterExpire
  <2>5. \A k, l \in active' : assignment'[k] = assignment'[l] => k = l
    BY <1>2, <1>4, <1>5, AfterExpire
  <2> QED
    BY <2>2, <2>3, <2>4, <2>5 DEF PoolsExact
<1>8. Retired'
  BY <1>2, <1>5, AfterExpire DEF Retired
<1>9. Future'
  BY <1>2, <1>5, AfterExpire DEF Future, IInv
<1>10. RA!Valid'
  <2>1. ASSUME NEW k \in DOMAIN ivs, k # pos, assignment[k] = r
        PROVE  ~Overlap(ivs[k], ivs[pos]) /\ ~Overlap(ivs[pos], ivs[k])
    BY <2>1, <1>2, <1>3, <1>4, NoConflictWithPast
  <2>2. Disjoint(assignment)'
    BY <2>1, <1>2, <1>5, ValidMeans DEF Disjoint, IInv
  <2>3. Held(assignment)'
    BY <1>2, <1>3, <1>5, ValidMeans DEF Held, IInv
  <2>4. Saved(assignment, calleeUsed)'
    BY <1>1, <1>2, <1>5, ValidMeans DEF Saved, IInv
  <2> QED
    BY <2>2, <2>3, <2>4, ValidMeansNext
<1> QED
  BY <1>6, <1>7, <1>8, <1>9, <1>10 DEF IInv

(* Evicting the cheapest active interval hands its register over and        *)
(* nothing else changes.                                                    *)
LEMMA EvictInv ==
  ASSUME IInv, Evict
  PROVE  IInv'
<1>1. PICK v \in Evictable :
        /\ assignment' = [assignment EXCEPT ![pos] = assignment[v], ![v] = Spilled]
        /\ calleeUsed' = calleeUsed \cup ({assignment[v]} \cap CalleeSaved)
        /\ active' = (StillActive \ {v}) \cup {pos}
  BY DEF Evict
<1>2. /\ pos \in DOMAIN ivs /\ pos' = pos + 1 /\ ivs' = ivs
      /\ callerFree' = CallerPool /\ calleeFree' = CalleePool
  BY DEF Evict
<1> DEFINE r == assignment[v]
<1>3. /\ v \in StillActive /\ v \in 1 .. pos - 1 /\ v # pos /\ v \in DOMAIN ivs
      /\ r \in Reg /\ r # Spilled /\ MayHold(r, ivs[pos])
  <2>1. v \in StillActive /\ MayHold(r, ivs[pos])
    BY DEF Evictable, Victims
  <2>2. v \in 1 .. pos - 1 /\ r \in Reg
    BY <2>1, <1>2, AfterExpire
  <2> QED
    BY <2>1, <2>2, <1>2, AfterExpire, RegisterAssumption DEF Reg, Spilled
<1>4. \A k \in StillActive : k # v => assignment[k] # r
  BY <1>2, <1>3, AfterExpire
<1>5. /\ assignment'[pos] = r
      /\ assignment'[v] = Spilled
      /\ \A k \in DOMAIN ivs : k # pos /\ k # v => assignment'[k] = assignment[k]
      /\ assignment' \in [DOMAIN ivs -> Reg \cup {Spilled}]
  BY <1>1, <1>2, <1>3 DEF IInv, TypeOK
<1>6. TypeOK'
  <2>1. active' \subseteq 1 .. pos' - 1
    BY <1>1, <1>2, AfterExpire
  <2>2. callerFree' \subseteq CallerSaved /\ calleeFree' \subseteq CalleeSaved
    BY <1>2, AfterExpire
  <2>3. calleeUsed' \subseteq CalleeSaved
    BY <1>1 DEF IInv, TypeOK
  <2>4. pos' \in 1 .. Len(ivs') + 1
    BY <1>2, AfterExpire
  <2> QED
    BY <2>1, <2>2, <2>3, <2>4, <1>2, <1>5 DEF IInv, TypeOK
<1>7. PoolsExact'
  <2>1. \A k \in active' : k # pos => k \in StillActive /\ k # v /\ k \in DOMAIN ivs
    BY <1>1, <1>2, AfterExpire
  <2>2. {assignment'[k] : k \in active'} = {assignment[k] : k \in StillActive}
    BY <2>1, <1>1, <1>2, <1>3, <1>5, AfterExpire
  <2>3. \A k, l \in active' : assignment'[k] = assignment'[l] => k = l
    BY <2>1, <1>2, <1>4, <1>5, AfterExpire
  <2>4. \A k \in StillActive : assignment[k] \in Reg
    BY <1>2, AfterExpire
  <2>5. {assignment'[k] : k \in active'} \subseteq Reg
    BY <2>2, <2>4
  <2> QED
    BY <2>2, <2>3, <2>5, <1>2, AfterExpire DEF PoolsExact
<1>8. Retired'
  <2> SUFFICES ASSUME NEW k \in (1 .. pos' - 1) \ active', assignment'[k] # Spilled,
                      NEW l \in pos' .. Len(ivs')
               PROVE  ivs'[k].end < ivs'[l].start
    BY DEF Retired
  <2>1. k \in 1 .. pos - 1 /\ k # v /\ k \notin StillActive /\ k \in DOMAIN ivs
    BY <1>1, <1>2, <1>5, AfterExpire
  <2>2. assignment[k] # Spilled
    BY <2>1, <1>5
  <2>3. l \in pos .. Len(ivs)
    BY <1>2, AfterExpire
  <2> QED
    BY <2>1, <2>2, <2>3, <1>2, AfterExpire
<1>9. Future'
  BY <1>2, <1>3, <1>5, AfterExpire DEF Future, IInv
<1>10. RA!Valid'
  <2>1. ASSUME NEW k \in DOMAIN ivs, k # pos, k # v, assignment[k] = r
        PROVE  ~Overlap(ivs[k], ivs[pos]) /\ ~Overlap(ivs[pos], ivs[k])
    BY <2>1, <1>2, <1>3, <1>4, NoConflictWithPast
  <2>2. Disjoint(assignment)'
    BY <2>1, <1>2, <1>3, <1>5, ValidMeans DEF Disjoint, IInv
  <2>3. Held(assignment)'
    BY <1>2, <1>3, <1>5, ValidMeans DEF Held, IInv
  <2>4. Saved(assignment, calleeUsed)'
    <3>1. Spilled \notin CalleeSaved
      BY RegisterAssumption DEF Spilled
    <3> QED
      BY <3>1, <1>1, <1>2, <1>5, ValidMeans DEF Saved, IInv
  <2> QED
    BY <2>2, <2>3, <2>4, ValidMeansNext
<1> QED
  BY <1>6, <1>7, <1>8, <1>9, <1>10 DEF IInv

(* An interval left in memory changes nothing but the pools.                *)
LEMMA LeaveSpilledInv ==
  ASSUME IInv, LeaveSpilled
  PROVE  IInv'
<1>1. /\ pos \in DOMAIN ivs /\ pos' = pos + 1 /\ ivs' = ivs
      /\ callerFree' = CallerPool /\ calleeFree' = CalleePool
      /\ active' = StillActive /\ assignment' = assignment /\ calleeUsed' = calleeUsed
  BY DEF LeaveSpilled
<1>2. TypeOK'
  <2>1. active' \subseteq 1 .. pos' - 1
    BY <1>1, AfterExpire
  <2>2. callerFree' \subseteq CallerSaved /\ calleeFree' \subseteq CalleeSaved
    BY <1>1, AfterExpire
  <2>3. pos' \in 1 .. Len(ivs') + 1
    BY <1>1, AfterExpire
  <2> QED
    BY <2>1, <2>2, <2>3, <1>1 DEF IInv, TypeOK
<1>3. PoolsExact'
  <2>1. {assignment[k] : k \in StillActive} \subseteq Reg
    BY <1>1, AfterExpire
  <2> QED
    BY <2>1, <1>1, AfterExpire DEF PoolsExact
<1>4. Retired'
  <2>1. assignment[pos] = Spilled
    BY <1>1, AfterExpire DEF IInv, Future
  <2> QED
    BY <2>1, <1>1, AfterExpire DEF Retired
<1>5. Future'
  BY <1>1, AfterExpire DEF Future, IInv
<1>6. RA!Valid'
  BY <1>1, ValidMeans, ValidMeansNext DEF IInv, Disjoint, Held, Saved
<1> QED
  BY <1>2, <1>3, <1>4, <1>5, <1>6 DEF IInv

(* Every step of the scan, and every stuttering step, keeps the invariant.  *)
LEMMA StepInv ==
  ASSUME IInv, [Next]_vars
  PROVE  IInv'
<1>1. CASE TakeFree
  BY <1>1, TakeFreeInv
<1>2. CASE Evict
  BY <1>2, EvictInv
<1>3. CASE LeaveSpilled
  BY <1>3, LeaveSpilledInv
<1>4. CASE UNCHANGED vars
  <2>1. TypeOK' /\ PoolsExact' /\ Retired' /\ Future'
    BY <1>4 DEF vars, IInv, TypeOK, PoolsExact, Retired, Future
  <2>2. RA!Valid'
    BY <1>4, ValidMeans, ValidMeansNext DEF vars, IInv, Disjoint, Held, Saved
  <2> QED
    BY <2>1, <2>2 DEF IInv
<1> QED
  BY <1>1, <1>2, <1>3, <1>4 DEF Next

-----------------------------------------------------------------------------
(* The inductive invariant holds in every reachable state of the scan.      *)
THEOREM Invariance == Spec => []IInv
<1>1. Init => IInv
  BY InitInv
<1>2. IInv /\ [Next]_vars => IInv'
  BY StepInv
<1> QED
  BY <1>1, <1>2, PTL DEF Spec

(* regalloc.allocate keeps its state well formed for every list of          *)
(* intervals and every pair of register pools.                              *)
THEOREM TypeCorrect == Spec => []TypeOK
<1>1. IInv => TypeOK
  BY DEF IInv
<1> QED
  BY <1>1, Invariance, PTL

(* The registers regalloc.allocate hands out: no two overlapping Temps share *)
(* one, none is in a register a call or asm inside its interval may destroy, *)
(* every callee-saved one is recorded for the prologue.                      *)
THEOREM AllocationIsValid == Spec => []AllocationValid
<1>1. IInv => AllocationValid
  BY DEF IInv, AllocationValid
<1> QED
  BY <1>1, Invariance, PTL

(* _expire, _assign and _evict never leak a register nor free one twice.    *)
THEOREM PoolsAreExact == Spec => []PoolsExact
<1>1. IInv => PoolsExact
  BY DEF IInv
<1> QED
  BY <1>1, Invariance, PTL

-----------------------------------------------------------------------------
(* A Temp goes to memory only when no free register would have done, and    *)
(* only the cheaper of the two candidates goes: regalloc._pick and _evict.  *)
THEOREM SpillsAreJustified == Spec => NoNeedlessSpill
<1>1. ASSUME IInv, Next PROVE SpillJustified
  <2> USE DEF SpillJustified
  <2> SUFFICES ASSUME NEW k \in 1 .. pos, assignment'[k] = Spilled,
                      k = pos \/ assignment[k] # Spilled
               PROVE  /\ \A r \in CallerPool \cup CalleePool : ~MayHold(r, ivs[pos])
                      /\ k # pos => assignment'[pos] = assignment[k] /\ Cheaper(k, pos)
                      /\ k = pos => \A v \in StillActive :
                                      MayHold(assignment[v], ivs[pos]) => ~Cheaper(v, pos)
    OBVIOUS
  <2>1. pos \in DOMAIN ivs
    BY <1>1 DEF Next, TakeFree, Evict, LeaveSpilled
  <2>2. k \in DOMAIN ivs
    BY <1>1, <2>1, AfterExpire
  <2>3. Candidates = {} => \A r \in CallerPool \cup CalleePool : ~MayHold(r, ivs[pos])
    BY <1>1, <2>1, AfterExpire, RegisterAssumption DEF Candidates, MayHold
  <2>4. CASE TakeFree
    <3>1. PICK r \in Candidates : assignment' = [assignment EXCEPT ![pos] = r]
      BY <2>4 DEF TakeFree
    <3>2. r # Spilled
      BY <3>1, <1>1, <2>1, AfterExpire, RegisterAssumption DEF Candidates, Spilled
    <3> QED
      BY <3>1, <3>2, <2>1, <2>2, <1>1 DEF IInv, TypeOK
  <2>5. CASE Evict
    <3>1. PICK v \in Evictable :
            assignment' = [assignment EXCEPT ![pos] = assignment[v], ![v] = Spilled]
      BY <2>5 DEF Evict
    <3>2. Candidates = {} /\ v \in StillActive /\ Cheaper(v, pos)
      BY <2>5, <3>1 DEF Evict, Evictable, Victims
    <3>3. v # pos /\ v \in DOMAIN ivs /\ assignment[v] # Spilled
      BY <3>2, <1>1, <2>1, AfterExpire, RegisterAssumption DEF Reg, Spilled
    <3>4. k = v /\ assignment'[pos] = assignment[v]
      BY <3>1, <3>3, <2>1, <2>2, <1>1 DEF IInv, TypeOK
    <3> QED
      BY <3>2, <3>3, <3>4, <2>3
  <2>6. CASE LeaveSpilled
    <3>1. /\ Candidates = {} /\ assignment' = assignment
          /\ \A v \in Victims : ~Cheaper(v, pos)
      BY <2>6 DEF LeaveSpilled
    <3>2. k = pos
      BY <3>1
    <3> QED
      BY <3>1, <3>2, <2>3 DEF Victims
  <2> QED
    BY <2>4, <2>5, <2>6, <1>1 DEF Next
<1>2. ASSUME UNCHANGED vars PROVE SpillJustified
  BY <1>2 DEF vars, SpillJustified
<1> QED
  BY <1>1, Invariance, PTL DEF Spec, NoNeedlessSpill

(* Every run of the scan is a run of the abstract allocator: a decision per *)
(* interval that keeps the promise, and Temps that only ever move to memory. *)
THEOREM Implements == Spec => Refinement
<1>1. Init => RA!AInit
  BY DEF Init, ScanInit, RA!AInit, Spilled, RA!Spilled
<1>2. ASSUME IInv, IInv', Next PROVE RA!Decide
  <2>1. pos \in DOMAIN ivs /\ pos' = pos + 1 /\ UNCHANGED ivs
    BY <1>2 DEF Next, TakeFree, Evict, LeaveSpilled
  <2>2. assignment' \in [DOMAIN ivs -> Reg \cup {Spilled}]
    BY <1>2, <2>1 DEF IInv, TypeOK
  <2>3. \A k \in DOMAIN ivs : k # pos => assignment'[k] \in {assignment[k], Spilled}
    BY <1>2 DEF Next, TakeFree, Evict, LeaveSpilled, IInv, TypeOK
  <2>4. calleeUsed \subseteq calleeUsed'
    BY <1>2 DEF Next, TakeFree, Evict, LeaveSpilled
  <2>5. RA!Valid'
    BY <1>2 DEF IInv
  <2> QED
    BY <2>1, <2>2, <2>3, <2>4, <2>5 DEF RA!Decide, RA!Reg, RA!Spilled, Reg, Spilled
<1>3. UNCHANGED vars => UNCHANGED RA!avars
  BY DEF vars, RA!avars
<1> QED
  BY <1>1, <1>2, <1>3, Invariance, PTL DEF Spec, Refinement, RA!ASpec
=============================================================================
