------------------------------ MODULE LinearScan ------------------------------
(***************************************************************************)
(* regalloc.allocate, step 3: the linear scan over the sorted intervals.    *)
(* One step is one iteration of its loop: expire the intervals that ended,  *)
(* then take a free register, evict a cheaper interval, or give up.         *)
(*                                                                          *)
(* The list `active` is a set here: an entry (end, tid, reg) is determined  *)
(* by the index of its interval, and the list order (by end, then by        *)
(* insertion) is Before.                                                    *)
(***************************************************************************)
EXTENDS Intervals

CONSTANT Inputs   \* the interval lists to allocate

ASSUME InputsAssumption ==
  \A s \in Inputs : s \in Seq(Interval) /\ Sorted(s)

VARIABLES
  ivs,          \* the sorted intervals
  pos,          \* the interval to allocate next
  active,       \* indices of the intervals that hold a register now
  callerFree, calleeFree,
  assignment,   \* index -> register, or Spilled
  calleeUsed

vars == <<ivs, pos, active, callerFree, calleeFree, assignment, calleeUsed>>

ScanInit ==
  /\ pos = 1
  /\ active = {}
  /\ callerFree = CallerSaved
  /\ calleeFree = CalleeSaved
  /\ assignment = [k \in DOMAIN ivs |-> Spilled]
  /\ calleeUsed = {}

Init == ivs \in Inputs /\ ScanInit

-----------------------------------------------------------------------------
(* _expire(iv.start): intervals that ended strictly before this one begins  *)
(* give their registers back to the pool of their class.                    *)
ExpiredAtUse == {k \in active : ivs[k].end <= ivs[pos].start}   \* mutant
Expired == {k \in active : ivs[k].end < ivs[pos].start}
StillActive == active \ Expired
Returned == {assignment[k] : k \in Expired}
CallerPoolUnsorted == callerFree \cup Returned                  \* mutant
CallerPool == callerFree \cup (Returned \cap CallerSaved)
CalleePoolLeaking == calleeFree                                 \* mutant
CalleePool == calleeFree \cup (Returned \cap CalleeSaved)

(* Mutant: the registers an asm statement destroys are not excluded.        *)
CandidatesOfClass ==
  IF ~ivs[pos].crosses /\ CallerPool # {} THEN CallerPool ELSE CalleePool

(* The pool _pick searches: callee-saved registers only for an interval     *)
(* that crosses a call; otherwise caller-saved ones first.                  *)
Candidates ==
  LET iv == ivs[pos]
      caller == CallerPool \ iv.forbidden
      callee == CalleePool \ iv.forbidden
  IN  IF ~iv.crosses /\ caller # {} THEN caller ELSE callee

(* _spill_cost(a) < _spill_cost(b), the quotients cross-multiplied.         *)
Span(k) == LET n == ivs[k].end - ivs[k].start IN IF n < 1 THEN 1 ELSE n
Cheaper(a, b) == ivs[a].uses * Span(b) < ivs[b].uses * Span(a)

Before(a, b) ==
  \/ ivs[a].end < ivs[b].end
  \/ ivs[a].end = ivs[b].end /\ a < b

(* _evict's loop: the active entries whose register would do.               *)
Victims == {k \in StillActive : MayHold(assignment[k], ivs[pos])}
CheapestOfAll(v) == \A w \in Victims \ {v} : Cheaper(v, w)        \* mutant
Cheapest(v) ==
  \A w \in Victims \ {v} :
    Cheaper(v, w) \/ (~Cheaper(w, v) /\ Before(v, w))

EvictableAtAnyCost == {v \in Victims : Cheapest(v)}              \* mutant
Evictable == {v \in Victims : Cheapest(v) /\ Cheaper(v, pos)}

(* _assign, with the bookkeeping of the pools around it.                    *)
TakeFree ==
  /\ pos \in DOMAIN ivs
  /\ \E r \in Candidates :
       /\ \A q \in Candidates : r <= q
       /\ assignment' = [assignment EXCEPT ![pos] = r]
       /\ callerFree' = CallerPool \ {r}
       /\ calleeFree' = CalleePool \ {r}
       /\ calleeUsed' = calleeUsed \cup ({r} \cap CalleeSaved)
  /\ active' = StillActive \cup {pos}
  /\ pos' = pos + 1
  /\ UNCHANGED ivs

Evict ==
  /\ pos \in DOMAIN ivs
  /\ Candidates = {}
  /\ \E v \in Evictable :
       /\ assignment' = [assignment EXCEPT ![pos] = assignment[v], ![v] = Spilled]
       /\ calleeUsed' = calleeUsed \cup ({assignment[v]} \cap CalleeSaved)
       /\ active' = (StillActive \ {v}) \cup {pos}
  /\ callerFree' = CallerPool
  /\ calleeFree' = CalleePool
  /\ pos' = pos + 1
  /\ UNCHANGED ivs

LeaveSpilled ==
  /\ pos \in DOMAIN ivs
  /\ Candidates = {}
  /\ \A v \in Victims : ~Cheaper(v, pos)
  /\ active' = StillActive
  /\ callerFree' = CallerPool
  /\ calleeFree' = CalleePool
  /\ pos' = pos + 1
  /\ UNCHANGED <<ivs, assignment, calleeUsed>>

Next == TakeFree \/ Evict \/ LeaveSpilled

Spec == Init /\ [][Next]_vars

(* The loop is sequential code that nothing interrupts.                     *)
FairSpec == Spec /\ WF_vars(Next)

-----------------------------------------------------------------------------
TypeOK ==
  /\ ivs \in Seq(Interval)
  /\ Sorted(ivs)
  /\ pos \in 1 .. Len(ivs) + 1
  /\ active \subseteq 1 .. pos - 1
  /\ callerFree \subseteq CallerSaved
  /\ calleeFree \subseteq CalleeSaved
  /\ assignment \in [DOMAIN ivs -> Reg \cup {Spilled}]
  /\ calleeUsed \subseteq CalleeSaved

RA == INSTANCE RegisterAllocation

(* The promise to the code generator: Temps that are needed together never  *)
(* share a register, and no Temp sits in a register that a call or an asm   *)
(* statement inside its interval may destroy.                               *)
AllocationValid == RA!Valid

(* Every register is in exactly one place: free in the pool of its class,   *)
(* or held by exactly one active interval.  A register leaked by an         *)
(* eviction or returned twice by _expire would break it.                    *)
PoolsExact ==
  LET held == {assignment[k] : k \in active}
  IN  /\ callerFree = CallerSaved \ held
      /\ calleeFree = CalleeSaved \ held
      /\ held \subseteq Reg
      /\ \A k, l \in active : assignment[k] = assignment[l] => k = l

(* A Temp goes to memory, on arrival or by eviction, only for a reason: no  *)
(* free register would have done for the arriving interval; an evicted one  *)
(* was strictly cheaper to spill than the interval taking its register; and *)
(* an interval left out was no dearer than any active one in a register it  *)
(* could have used.                                                         *)
SpillJustified ==
  \A k \in 1 .. pos :
    /\ pos' # pos
    /\ assignment'[k] = Spilled
    /\ k = pos \/ assignment[k] # Spilled
    => /\ \A r \in CallerPool \cup CalleePool : ~MayHold(r, ivs[pos])
       /\ k # pos => assignment'[pos] = assignment[k] /\ Cheaper(k, pos)
       /\ k = pos => \A v \in StillActive :
                       MayHold(assignment[v], ivs[pos]) => ~Cheaper(v, pos)
NoNeedlessSpill == [][SpillJustified]_vars

(* Every interval gets a decision.  The scan would get stuck on an interval  *)
(* if _evict could prefer none of several equally cheap victims.            *)
AllDecided == <>(pos = Len(ivs) + 1)

(* The scan implements the abstract allocator.                              *)
Refinement == RA!ASpec
=============================================================================
