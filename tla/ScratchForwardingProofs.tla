----------------------- MODULE ScratchForwardingProofs -----------------------
(***************************************************************************)
(* The loads _load_op leaves out are not needed: in straight-line code of   *)
(* any length, every operand an instruction reads is the one the IR names.  *)
(*                                                                          *)
(* The invariant says what is true between two instructions: the tracked    *)
(* scratch registers hold what they are tracked for, each Temp needed is in *)
(* its home, and no two of them share one.  A helper of the emitter is      *)
(* described by the registers it may change (Only) and by what it keeps     *)
(* true (Right), with the scratch registers U whose tracking is behind;     *)
(* a handler composes such steps (Reach) and ends with U empty and its      *)
(* destination's value in place (Emits).                                    *)
(***************************************************************************)
EXTENDS ScratchForwarding, WellFoundedInduction, TLAPS

(* What is true of the machine when Temps L have their values, and scratch  *)
(* registers U may hold another Temp than the emitter believes.             *)
Tracks(s, U) ==
  /\ s.a # NoTemp /\ A \notin s.stale \cup U => s.reg[A] = s.a
  /\ s.c # NoTemp /\ C \notin s.stale \cup U => s.reg[C] = s.c
At(s, t) == IF s.home[t] = Spilled THEN s.mem[t] = t ELSE s.reg[s.home[t]] = t
Right(s, L, U) ==
  ~s.misled =>
    /\ s.ok
    /\ Tracks(s, U)
    /\ \A t \in L : At(s, t)
    /\ \A x \in Var : s.mem[x] = x

(* No two Temps share a register, and one that is not needed has none.      *)
Apart == \A t, u \in live : e.home[t] = e.home[u] => t = u \/ e.home[t] = Spilled
Unassigned == \A t \in Temp \ live : e.home[t] = Spilled

(* The Temp in due is in r7 and nowhere else.                               *)
DueInA == due # NoTemp => e.home[due] = Spilled /\ e.a = due /\ A \notin e.stale

IInv ==
  /\ TypeOK /\ Right(e, live \ {due}, {}) /\ Apart /\ Unassigned /\ DueInA

-----------------------------------------------------------------------------
(* Registers are told apart by their numbers.                               *)
LEMMA Machine ==
  /\ A \in PhysReg /\ B \in PhysReg /\ C \in PhysReg
  /\ 1 .. NumArgRegs \subseteq PhysReg /\ Reg \subseteq PhysReg
  /\ A \notin Reg /\ B \notin Reg /\ C \notin Reg /\ Reg \cap 1 .. NumArgRegs = {}
  /\ A \notin 1 .. NumArgRegs /\ B \notin 1 .. NumArgRegs /\ C \notin 1 .. NumArgRegs
  /\ A # B /\ A # C /\ B # C
  /\ Spilled \notin PhysReg
<1>1. NumArgRegs \in 2 .. 6 /\ \A r \in Reg : r \in Nat /\ r > 9
  BY MachineAssumption, RegisterAssumption DEF Reg
<1> QED
  BY <1>1 DEF PhysReg, Scratch, A, B, C, Spilled

LEMMA PutFields ==
  ASSUME NEW s \in State, NEW r \in PhysReg, NEW tok \in Token
  PROVE  /\ Put(s, r, tok) \in State
         /\ Put(s, r, tok).reg[r] = tok
         /\ \A q \in PhysReg : q # r => Put(s, r, tok).reg[q] = s.reg[q]
         /\ Put(s, r, tok).mem = s.mem /\ Put(s, r, tok).home = s.home
         /\ Put(s, r, tok).a = s.a /\ Put(s, r, tok).c = s.c
         /\ Put(s, r, tok).stale = s.stale
         /\ Put(s, r, tok).misled = s.misled /\ Put(s, r, tok).ok = s.ok
  BY DEF Put, State

LEMMA TrackFields ==
  ASSUME NEW s \in State, NEW r, NEW t \in Temp \cup {NoTemp}
  PROVE  /\ Track(s, r, t) \in State
         /\ Track(s, r, t).reg = s.reg
         /\ Track(s, r, t).mem = s.mem /\ Track(s, r, t).home = s.home
         /\ Track(s, r, t).a = IF r = A THEN t ELSE s.a
         /\ Track(s, r, t).c = IF r = C THEN t ELSE s.c
         /\ Track(s, r, t).stale = s.stale \ ({r} \cap {A, C})
         /\ Track(s, r, t).misled = s.misled /\ Track(s, r, t).ok = s.ok
  BY Machine DEF Track, State

LEMMA UntrackedFields ==
  ASSUME NEW s \in State, NEW r
  PROVE  /\ Untracked(s, r) \in State
         /\ Untracked(s, r).reg = s.reg
         /\ Untracked(s, r).mem = s.mem /\ Untracked(s, r).home = s.home
         /\ Untracked(s, r).a = s.a /\ Untracked(s, r).c = s.c
         /\ r = A /\ s.a # NoTemp => A \in Untracked(s, r).stale
         /\ r = C /\ s.c # NoTemp => C \in Untracked(s, r).stale
         /\ s.stale \subseteq Untracked(s, r).stale
         /\ Untracked(s, r).stale \subseteq s.stale \cup {r}
         /\ Untracked(s, r).misled = s.misled /\ Untracked(s, r).ok = s.ok
  BY DEF Untracked, State

LEMMA UsesFields ==
  ASSUME NEW s \in State, NEW r \in PhysReg, NEW op
  PROVE  /\ Uses(s, r, op) \in State
         /\ Uses(s, r, op).reg = s.reg
         /\ Uses(s, r, op).mem = s.mem /\ Uses(s, r, op).home = s.home
         /\ Uses(s, r, op).a = s.a /\ Uses(s, r, op).c = s.c
         /\ Uses(s, r, op).stale = s.stale
         /\ Uses(s, r, op).misled = s.misled
         /\ Uses(s, r, op).ok <=> s.ok /\ s.reg[r] = op
  BY DEF Uses, State

-----------------------------------------------------------------------------
(* s2 differs from s in registers W at most, and loads left out for a stale *)
(* register are not forgotten.                                              *)
Only(s, s2, W) ==
  /\ s2.home = s.home
  /\ s.misled => s2.misled
  /\ \A q \in PhysReg \ W : s2.reg[q] = s.reg[q]
  /\ A \notin W => s2.a = s.a
  /\ C \notin W => s2.c = s.c /\ (C \in s.stale => C \in s2.stale)

Reach(s, s2, L, U, W) == s2 \in State /\ Right(s2, L, U) /\ Only(s, s2, W)

Holds(s, r, op) == s.misled \/ s.reg[r] = op
Homes(s, L) == {s.home[t] : t \in L}

(* An operand whose value can be had: it has a place, or only r7 holds it.  *)
Source(L) == L \cup Var \cup Label \cup {Imm}
Readable(s, op, L) ==
  \/ op \in Source(L)
  \/ op \in Temp /\ s.home[op] = Spilled /\ op = s.a

(* A destination whose register, if it has one, no Temp of L has.           *)
Writable(s, d, L) ==
  \/ d \in Var
  \/ /\ d \in Temp \ L
     /\ s.home[d] = Spilled \/ s.home[d] \notin Homes(s, L)

Known(L, d) == L \cup ({d} \cap Temp)

LEMMA OnlyTransitive ==
  ASSUME NEW s, NEW s1, NEW s2, NEW V, NEW W, Only(s, s1, V), Only(s1, s2, W)
  PROVE  Only(s, s2, V \cup W)
  BY DEF Only

LEMMA OnlyMore ==
  ASSUME NEW s, NEW s2, NEW V, NEW W, Only(s, s2, V), V \subseteq W
  PROVE  Only(s, s2, W)
  BY DEF Only

LEMMA HoldsKept ==
  ASSUME NEW s, NEW s2, NEW W, NEW r \in PhysReg \ W, NEW op,
         Only(s, s2, W), Holds(s, r, op)
  PROVE  Holds(s2, r, op)
  BY DEF Only, Holds

LEMMA RightLess ==
  ASSUME NEW s, NEW L, NEW U, Right(s, L, U), NEW K \in SUBSET L, NEW V, U \subseteq V
  PROVE  Right(s, K, V)
  BY DEF Right, Tracks

(* What is asked of the allocation only is the same in both.                *)
LEMMA SameHome ==
  ASSUME NEW s, NEW s2, s2.home = s.home
  PROVE  /\ \A op : InPreg(s2, op) = InPreg(s, op)
         /\ \A op : DstReg(s2, op) = DstReg(s, op)
         /\ \A op, r : SrcReg(s2, op, r) = SrcReg(s, op, r)
         /\ \A L : Homes(s2, L) = Homes(s, L)
         /\ \A d, L : Writable(s2, d, L) = Writable(s, d, L)
<1>1. \A L : Homes(s2, L) = Homes(s, L)
  BY DEF Homes
<1>2. \A op : InPreg(s2, op) = InPreg(s, op)
  BY DEF InPreg
<1> QED
  BY <1>1, <1>2 DEF DstReg, SrcReg, Writable

LEMMA HomesApart ==
  ASSUME NEW s \in State, NEW L \in SUBSET Temp
  PROVE  /\ A \notin Homes(s, L) /\ B \notin Homes(s, L) /\ C \notin Homes(s, L)
         /\ \A i \in 1 .. NumArgRegs : i \notin Homes(s, L)
<1>1. \A t \in L : s.home[t] \in Reg \cup {Spilled}
  BY DEF State
<1> QED
  BY <1>1, Machine DEF Homes

LEMMA DstRegPlace ==
  ASSUME NEW s \in State, NEW L \in SUBSET Temp, NEW d, Writable(s, d, L)
  PROVE  /\ DstReg(s, d) \in Reg \cup {A} /\ DstReg(s, d) \in PhysReg
         /\ DstReg(s, d) \notin Homes(s, L)
         /\ DstReg(s, d) # B /\ DstReg(s, d) # C
         /\ InPreg(s, d) <=> DstReg(s, d) # A
         /\ InPreg(s, d) => d \in Temp /\ DstReg(s, d) = s.home[d]
<1>1. CASE InPreg(s, d)
  <2>1. d \in Temp /\ s.home[d] # Spilled /\ s.home[d] \in Reg
    BY <1>1 DEF InPreg, State
  <2>2. s.home[d] \notin Homes(s, L)
    BY <2>1, MachineAssumption DEF Writable
  <2> QED
    BY <1>1, <2>1, <2>2, Machine DEF DstReg
<1>2. CASE ~InPreg(s, d)
  BY <1>2, HomesApart, Machine DEF DstReg
<1> QED
  BY <1>1, <1>2

-----------------------------------------------------------------------------
(* A register that is no Temp's takes a value.                              *)
LEMMA PutRight ==
  ASSUME NEW s \in State, NEW L \in SUBSET Temp, NEW U, Right(s, L, U),
         NEW r \in PhysReg, r \notin Homes(s, L), NEW tok \in Token
  PROVE  /\ Reach(s, Put(s, r, tok), L, U \cup {r}, {r})
         /\ Put(s, r, tok).reg[r] = tok
<1> DEFINE s1 == Put(s, r, tok)
<1>1. /\ s1 \in State /\ s1.reg[r] = tok
      /\ \A q \in PhysReg : q # r => s1.reg[q] = s.reg[q]
      /\ s1.mem = s.mem /\ s1.home = s.home /\ s1.a = s.a /\ s1.c = s.c
      /\ s1.stale = s.stale /\ s1.misled = s.misled /\ s1.ok = s.ok
  BY PutFields
<1> HIDE DEF s1
<1>2. ASSUME ~s1.misled
      PROVE  Right(s1, L, U \cup {r})
  <2>1. /\ s.ok /\ Tracks(s, U) /\ \A u \in L : At(s, u)
        /\ \A x \in Var : s.mem[x] = x
    BY <1>1, <1>2 DEF Right
  <2>2. Tracks(s1, U \cup {r})
    BY <1>1, <2>1, Machine DEF Tracks
  <2>3. ASSUME NEW u \in L PROVE At(s1, u)
    <3>1. s.home[u] # r
      BY DEF Homes
    <3>2. s.home[u] \in Reg \cup {Spilled}
      BY DEF State
    <3> QED
      BY <1>1, <2>1, <3>1, <3>2, Machine DEF At
  <2> QED
    BY <1>1, <2>1, <2>2, <2>3 DEF Right
<1>3. Right(s1, L, U \cup {r})
  BY <1>2 DEF Right
<1>4. Only(s, s1, {r})
  BY <1>1 DEF Only
<1> QED
  BY <1>1, <1>3, <1>4 DEF Reach, s1

(* And the tracking may be told what it holds, or that it holds no Temp.    *)
LEMMA TrackRight ==
  ASSUME NEW s \in State, NEW L \in SUBSET Temp, NEW U, Right(s, L, U),
         NEW r, NEW t \in Temp \cup {NoTemp}, t = NoTemp \/ Holds(s, r, t)
  PROVE  /\ Reach(s, Track(s, r, t), L, U \ {r}, {r})
         /\ Track(s, r, t).reg = s.reg
<1> DEFINE s1 == Track(s, r, t)
<1>1. /\ s1 \in State /\ s1.reg = s.reg /\ s1.mem = s.mem /\ s1.home = s.home
      /\ s1.a = IF r = A THEN t ELSE s.a
      /\ s1.c = IF r = C THEN t ELSE s.c
      /\ s1.stale = s.stale \ ({r} \cap {A, C})
      /\ s1.misled = s.misled /\ s1.ok = s.ok
  BY TrackFields
<1> HIDE DEF s1
<1>2. ASSUME ~s1.misled
      PROVE  Right(s1, L, U \ {r})
  <2>1. /\ s.ok /\ Tracks(s, U) /\ \A u \in L : At(s, u)
        /\ \A x \in Var : s.mem[x] = x
    BY <1>1, <1>2 DEF Right
  <2>2. t = NoTemp \/ s.reg[r] = t
    BY <1>1, <1>2 DEF Holds
  <2>3. Tracks(s1, U \ {r})
    BY <1>1, <2>1, <2>2, Machine DEF Tracks
  <2> QED
    BY <1>1, <2>1, <2>3 DEF Right, At
<1>3. Right(s1, L, U \ {r})
  BY <1>2 DEF Right
<1>4. Only(s, s1, {r})
  BY <1>1 DEF Only
<1> QED
  BY <1>1, <1>3, <1>4 DEF Reach, s1

(* A register takes a value and the tracking is told.                       *)
LEMMA PutTracked ==
  ASSUME NEW s \in State, NEW L \in SUBSET Temp, Right(s, L, {}),
         NEW r \in PhysReg, r \notin Homes(s, L), NEW tok \in Token,
         NEW t \in Temp \cup {NoTemp}, s.misled \/ t = NoTemp \/ t = tok
  PROVE  /\ Reach(s, Track(Put(s, r, tok), r, t), L, {}, {r})
         /\ Track(Put(s, r, tok), r, t).reg[r] = tok
<1> DEFINE s1 == Put(s, r, tok)
<1>1. Reach(s, s1, L, {} \cup {r}, {r}) /\ s1.reg[r] = tok
  BY PutRight
<1> HIDE DEF s1
<1>2. t = NoTemp \/ Holds(s1, r, t)
  BY <1>1 DEF Holds, Reach, Only
<1>3. /\ Reach(s1, Track(s1, r, t), L, ({} \cup {r}) \ {r}, {r})
      /\ Track(s1, r, t).reg = s1.reg
  BY <1>1, <1>2, TrackRight DEF Reach
<1>4. Only(s, Track(s1, r, t), {r} \cup {r})
  BY <1>1, <1>3, OnlyTransitive DEF Reach
<1>5. ({} \cup {r}) \ {r} = {} /\ {r} \cup {r} = {r}
  OBVIOUS
<1> QED
  BY <1>1, <1>3, <1>4, <1>5 DEF Reach, s1

(* Or it is not told, and remembers that.                                   *)
LEMMA PutUntracked ==
  ASSUME NEW s \in State, NEW L \in SUBSET Temp, Right(s, L, {}),
         NEW r \in PhysReg, r \notin Homes(s, L), NEW tok \in Token
  PROVE  /\ Reach(s, Untracked(Put(s, r, tok), r), L, {}, {r})
         /\ Untracked(Put(s, r, tok), r).reg[r] = tok
<1> DEFINE s1 == Put(s, r, tok)
           s2 == Untracked(s1, r)
<1>1. Reach(s, s1, L, {} \cup {r}, {r}) /\ s1.reg[r] = tok
  BY PutRight
<1> HIDE DEF s1
<1>2. /\ s2 \in State /\ s2.reg = s1.reg /\ s2.mem = s1.mem /\ s2.home = s1.home
      /\ s2.a = s1.a /\ s2.c = s1.c
      /\ r = A /\ s1.a # NoTemp => A \in s2.stale
  BY <1>1, UntrackedFields DEF Reach
<1>3. /\ r = C /\ s1.c # NoTemp => C \in s2.stale
      /\ s1.stale \subseteq s2.stale /\ s2.misled = s1.misled
      /\ s2.ok = s1.ok
  BY <1>1, UntrackedFields DEF Reach
<1> HIDE DEF s2
<1>4. ASSUME ~s2.misled
      PROVE  Right(s2, L, {})
  <2>1. /\ s1.ok /\ Tracks(s1, {} \cup {r}) /\ \A u \in L : At(s1, u)
        /\ \A x \in Var : s1.mem[x] = x
    BY <1>1, <1>3, <1>4 DEF Reach, Right
  <2>2. Tracks(s2, {})
    BY <1>2, <1>3, <2>1 DEF Tracks
  <2> QED
    BY <1>2, <1>3, <2>1, <2>2 DEF Right, At
<1>5. Right(s2, L, {})
  BY <1>4 DEF Right
<1>6. Only(s, s2, {r})
  BY <1>1, <1>2, <1>3 DEF Reach, Only
<1> QED
  BY <1>1, <1>2, <1>5, <1>6 DEF Reach, s2, s1

-----------------------------------------------------------------------------
(* A load is left out because a scratch register is thought to hold t.      *)
LEMMA ForwardedRight ==
  ASSUME NEW s \in State, NEW L \in SUBSET Temp, Right(s, L, {}),
         NEW r \in PhysReg, r \notin Homes(s, L), NEW from \in {A, C}, NEW t \in Temp,
         from = A => s.a = t, from = C => s.c = t
  PROVE  /\ Reach(s, Forwarded(s, r, from, t), L, {}, {r})
         /\ Holds(Forwarded(s, r, from, t), r, t)
<1> DEFINE tok == s.reg[from]
           moved == IF r = from THEN s ELSE Put(s, r, tok)
           noted == IF r # from /\ r \in {A, C} THEN Track(moved, r, t) ELSE moved
           s2 == [noted EXCEPT !.misled = @ \/ from \in s.stale]
<1>1. from \in PhysReg /\ tok \in Token /\ NoTemp \notin Temp
  BY Machine, MachineAssumption DEF State
<1>2. noted = IF r = from THEN s ELSE Track(Put(s, r, tok), r, t)
  BY DEF Track
<1> HIDE DEF tok, noted
<1>3. noted \in State /\ Only(s, noted, {r}) /\ noted.misled = s.misled
  <2>1. CASE r = from
    BY <1>2, <2>1 DEF Only
  <2>2. CASE r # from
    <3>1. Put(s, r, tok) \in State
      BY <1>1, PutFields
    <3> QED
      BY <1>1, <1>2, <2>2, <3>1, PutFields, TrackFields DEF Only
  <2> QED
    BY <2>1, <2>2
<1>4. ASSUME ~(s.misled \/ from \in s.stale)
      PROVE  Right(noted, L, {}) /\ noted.reg[r] = t
  <2>1. tok = t
    BY <1>1, <1>4 DEF Right, Tracks, tok
  <2>2. CASE r = from
    BY <1>2, <2>1, <2>2 DEF tok
  <2>3. CASE r # from
    <3>1. noted = Track(Put(s, r, tok), r, t)
      BY <1>2, <2>3
    <3>2. /\ Reach(s, Track(Put(s, r, tok), r, t), L, {}, {r})
          /\ Track(Put(s, r, tok), r, t).reg[r] = tok
      BY <1>1, <2>1, PutTracked
    <3> QED
      BY <2>1, <3>1, <3>2 DEF Reach
  <2> QED
    BY <2>2, <2>3
<1>5. /\ s2 \in State /\ s2.reg = noted.reg /\ s2.mem = noted.mem
      /\ s2.home = noted.home /\ s2.a = noted.a /\ s2.c = noted.c
      /\ s2.stale = noted.stale /\ s2.ok = noted.ok
      /\ s2.misled <=> s.misled \/ from \in s.stale
  BY <1>3 DEF State
<1>6. s2 = Forwarded(s, r, from, t)
  BY DEF Forwarded, noted, tok
<1> HIDE DEF s2
<1>7. Right(s2, L, {}) /\ Holds(s2, r, t)
  BY <1>3, <1>4, <1>5 DEF Right, Tracks, At, Holds
<1>8. Only(s, s2, {r})
  BY <1>3, <1>5 DEF Only
<1> QED
  BY <1>5, <1>6, <1>7, <1>8 DEF Reach

(* _load_op brings a readable operand into any register that is no Temp's.  *)
LEMMA LoadRight ==
  ASSUME NEW s \in State, NEW L \in SUBSET Temp, Right(s, L, {}),
         NEW op, Readable(s, op, L), NEW r \in PhysReg, r \notin Homes(s, L)
  PROVE  Reach(s, LoadOp(s, op, r), L, {}, {r}) /\ Holds(LoadOp(s, op, r), r, op)
<1>1. ASSUME NEW tok \in Token, NEW t \in Temp \cup {NoTemp},
             s.misled \/ t = NoTemp \/ t = tok, s.misled \/ tok = op
      PROVE  /\ Reach(s, Track(Put(s, r, tok), r, t), L, {}, {r})
             /\ Holds(Track(Put(s, r, tok), r, t), r, op)
  <2> DEFINE z == Track(Put(s, r, tok), r, t)
  <2>1. Reach(s, z, L, {}, {r}) /\ z.reg[r] = tok
    BY <1>1, PutTracked
  <2> HIDE DEF z
  <2>2. Holds(z, r, op)
    BY <1>1, <2>1 DEF Holds, Reach, Only
  <2> QED
    BY <2>1, <2>2 DEF z
<1>2. CASE op = Imm
  <2>1. op \in Token /\ LoadOp(s, op, r) = Track(Put(s, r, op), r, NoTemp)
    BY <1>2 DEF LoadOp, Token, Operand
  <2> QED
    BY <1>1, <2>1
<1>3. CASE op \in Label
  <2>1. op # Imm /\ op \in Token
    BY <1>3, MachineAssumption DEF Token, Operand
  <2>2. LoadOp(s, op, r) = Untracked(Put(s, r, op), r)
    BY <1>3, <2>1 DEF LoadOp
  <2> QED
    BY <2>1, <2>2, PutUntracked DEF Holds
<1>4. CASE op \in Temp \cup Var
  <2>1. op # Imm /\ op \notin Label /\ op \in Token /\ NoTemp \notin Temp \cup Var
    BY <1>4, MachineAssumption DEF Token, Operand
  <2>2. op \in L \/ op \in Var \/ (op \in Temp /\ s.home[op] = Spilled /\ op = s.a)
    BY <2>1 DEF Readable, Source
  <2>3. CASE InPreg(s, op)
    <3>1. op \in Temp /\ s.home[op] # Spilled /\ op \in L
      BY <2>2, <2>3, MachineAssumption DEF InPreg
    <3>2. s.home[op] \in PhysReg /\ s.reg[s.home[op]] \in Token
      BY <3>1, Machine DEF State
    <3>3. s.misled \/ s.reg[s.home[op]] = op
      BY <3>1 DEF Right, At
    <3>4. LoadOp(s, op, r) = Track(Put(s, r, s.reg[s.home[op]]), r, NoTemp)
      BY <2>1, <2>3 DEF LoadOp
    <3> QED
      BY <1>1, <3>2, <3>3, <3>4
  <2>4. CASE ~InPreg(s, op) /\ op = s.a
    <3>1. s.a \in Temp \cup {NoTemp}
      BY DEF State
    <3>2. op \in Temp
      BY <2>1, <2>4, <3>1, <1>4
    <3>3. LoadOp(s, op, r) = Forwarded(s, r, A, op)
      BY <2>1, <2>4 DEF LoadOp
    <3> QED
      BY <2>4, <3>2, <3>3, ForwardedRight, Machine
  <2>5. CASE ~InPreg(s, op) /\ op # s.a /\ op = s.c
    <3>1. s.c \in Temp \cup {NoTemp}
      BY DEF State
    <3>2. op \in Temp
      BY <2>1, <2>5, <3>1, <1>4
    <3>3. LoadOp(s, op, r) = Forwarded(s, r, C, op)
      BY <2>1, <2>5 DEF LoadOp
    <3> QED
      BY <2>5, <3>2, <3>3, ForwardedRight, Machine
  <2>6. CASE ~InPreg(s, op) /\ op # s.a /\ op # s.c
    <3> DEFINE t == IF op \in Temp THEN op ELSE NoTemp
    <3>1. op \in Var \/ (op \in L /\ s.home[op] = Spilled)
      BY <2>2, <2>6 DEF InPreg
    <3>2. s.misled \/ s.mem[op] = op
      BY <3>1 DEF Right, At
    <3>3. s.mem[op] \in Token
      BY <3>1 DEF State
    <3>4. t \in Temp \cup {NoTemp} /\ (t = NoTemp \/ t = op)
      OBVIOUS
    <3>5. LoadOp(s, op, r) = Track(Put(s, r, s.mem[op]), r, t)
      BY <2>1, <2>6 DEF LoadOp
    <3> HIDE DEF t
    <3> QED
      BY <1>1, <3>2, <3>3, <3>4, <3>5
  <2> QED
    BY <2>3, <2>4, <2>5, <2>6
<1> QED
  BY <1>2, <1>3, <1>4 DEF Readable, Source

(* Reading a register that holds the operand changes nothing.               *)
LEMMA UsesRight ==
  ASSUME NEW s \in State, NEW L \in SUBSET Temp, NEW U, Right(s, L, U),
         NEW r \in PhysReg, NEW op, Holds(s, r, op)
  PROVE  Reach(s, Uses(s, r, op), L, U, {})
<1> DEFINE s1 == Uses(s, r, op)
<1>1. /\ s1 \in State /\ s1.reg = s.reg /\ s1.mem = s.mem /\ s1.home = s.home
      /\ s1.a = s.a /\ s1.c = s.c /\ s1.stale = s.stale /\ s1.misled = s.misled
      /\ s1.ok <=> s.ok /\ s.reg[r] = op
  BY UsesFields
<1> HIDE DEF s1
<1>2. Right(s1, L, U)
  BY <1>1 DEF Right, Tracks, At, Holds
<1>3. Only(s, s1, {})
  BY <1>1 DEF Only
<1> QED
  BY <1>1, <1>2, <1>3 DEF Reach, s1

(* An operand is read from its own register or, loaded, from a scratch one. *)
LEMMA SrcLoadRight ==
  ASSUME NEW s \in State, NEW L \in SUBSET Temp, Right(s, L, {}),
         NEW op, Readable(s, op, L), NEW r \in PhysReg, r \notin Homes(s, L)
  PROVE  /\ Reach(s, SrcLoad(s, op, r), L, {}, {r})
         /\ Holds(SrcLoad(s, op, r), SrcReg(s, op, r), op)
         /\ SrcReg(s, op, r) \in PhysReg
         /\ SrcReg(s, op, r) \in Homes(s, L) \cup {r}
<1>1. CASE InPreg(s, op)
  <2>1. op \in Temp /\ s.home[op] # Spilled /\ op \in L
    BY <1>1, MachineAssumption DEF InPreg, Readable, Source
  <2>2. s.home[op] \in PhysReg /\ s.home[op] \in Homes(s, L)
    BY <2>1, Machine DEF State, Homes
  <2>3. Holds(s, s.home[op], op)
    BY <2>1 DEF Right, At, Holds
  <2>4. Only(s, s, {r})
    BY DEF Only
  <2> QED
    BY <1>1, <2>2, <2>3, <2>4 DEF SrcLoad, SrcReg, Reach
<1>2. CASE ~InPreg(s, op)
  BY <1>2, LoadRight DEF SrcLoad, SrcReg
<1> QED
  BY <1>1, <1>2

-----------------------------------------------------------------------------
(* _store_op and the end of a handler: the destination has its value.       *)
LEMMA RightIgnores ==
  ASSUME NEW s, NEW L, NEW U, NEW r, r \notin {A, C}, Right(s, L, U \cup {r})
  PROVE  Right(s, L, U)
  BY DEF Right, Tracks

LEMMA RightKnown ==
  ASSUME NEW s, NEW L, NEW U, NEW d, Right(s, L, U), d \in Temp => s.misled \/ At(s, d)
  PROVE  Right(s, Known(L, d), U)
  BY DEF Right, Known

LEMMA StoreRight ==
  ASSUME NEW s \in State, NEW L \in SUBSET Temp, NEW U, Right(s, L, U),
         NEW r \in PhysReg, NEW d, Holds(s, r, d), Writable(s, d, L)
  PROVE  Reach(s, StoreOp(s, r, d), Known(L, d), U \ {r}, {r, DstReg(s, d)})
<1>1. s.reg[r] \in Token /\ d \in Var \cup Temp /\ Known(L, d) \in SUBSET Temp
  BY DEF State, Writable, Known
<1>2. CASE InPreg(s, d)
  <2> DEFINE q == s.home[d]
             s1 == Put(s, q, s.reg[r])
             s2 == Track(s1, r, NoTemp)
  <2>1. /\ d \in Temp /\ q # Spilled /\ q \in PhysReg /\ q \notin Homes(s, L)
        /\ q \notin {A, C} /\ DstReg(s, d) = q
    BY <1>2, DstRegPlace DEF InPreg
  <2> HIDE DEF q
  <2>2. Reach(s, s1, L, U \cup {q}, {q}) /\ s1.reg[q] = s.reg[r]
    BY <1>1, <2>1, PutRight
  <2> HIDE DEF s1
  <2>3. s1.misled \/ At(s1, d)
    BY <2>1, <2>2 DEF Reach, Only, At, Holds, q
  <2>4. Right(s1, Known(L, d), U)
    BY <2>1, <2>2, <2>3, RightIgnores, RightKnown DEF Reach
  <2>5. Reach(s1, s2, Known(L, d), U \ {r}, {r})
    BY <1>1, <2>2, <2>4, TrackRight DEF Reach
  <2> HIDE DEF s2
  <2>6. Only(s, s2, {q} \cup {r})
    BY <2>2, <2>5, OnlyTransitive DEF Reach
  <2>7. {q} \cup {r} = {r, DstReg(s, d)}
    BY <2>1
  <2>8. StoreOp(s, r, d) = s2
    BY <1>2 DEF StoreOp, s2, s1, q
  <2> QED
    BY <2>5, <2>6, <2>7, <2>8 DEF Reach
<1>3. CASE ~InPreg(s, d)
  <2> DEFINE s1 == [s EXCEPT !.mem[d] = s.reg[r]]
             t == IF d \in Temp THEN d ELSE NoTemp
             s2 == Track(s1, r, t)
  <2>1. /\ s1 \in State /\ s1.mem[d] = s.reg[r]
        /\ \A x \in (Temp \cup Var) \ {d} : s1.mem[x] = s.mem[x]
        /\ s1.reg = s.reg /\ s1.home = s.home /\ s1.a = s.a /\ s1.c = s.c
        /\ s1.stale = s.stale /\ s1.misled = s.misled /\ s1.ok = s.ok
    BY <1>1 DEF State
  <2> HIDE DEF s1
  <2>2. ASSUME ~s1.misled
        PROVE  Right(s1, Known(L, d), U)
    <3>1. /\ s.ok /\ Tracks(s, U) /\ \A u \in L : At(s, u)
          /\ \A x \in Var : s.mem[x] = x
      BY <2>1, <2>2 DEF Right
    <3>2. s.reg[r] = d
      BY <2>1, <2>2 DEF Holds
    <3>3. Tracks(s1, U)
      BY <2>1, <3>1 DEF Tracks
    <3>4. d \notin L
      BY MachineAssumption DEF Writable
    <3>5. ASSUME NEW u \in Known(L, d) PROVE At(s1, u)
      BY <1>3, <2>1, <3>1, <3>2, <3>4, <3>5 DEF At, Known, InPreg
    <3>6. \A x \in Var : s1.mem[x] = x
      BY <2>1, <3>1, <3>2
    <3> QED
      BY <2>1, <3>1, <3>3, <3>5, <3>6 DEF Right
  <2>3. Right(s1, Known(L, d), U)
    BY <2>2 DEF Right
  <2>4. t \in Temp \cup {NoTemp} /\ (t = NoTemp \/ Holds(s1, r, t))
    BY <2>1 DEF Holds
  <2>5. StoreOp(s, r, d) = s2
    BY <1>3 DEF StoreOp, s1
  <2> HIDE DEF t
  <2>6. Reach(s1, s2, Known(L, d), U \ {r}, {r})
    BY <1>1, <2>1, <2>3, <2>4, TrackRight
  <2> HIDE DEF s2
  <2>7. Only(s, s2, {r, DstReg(s, d)})
    BY <2>1, <2>6 DEF Reach, Only
  <2> QED
    BY <2>5, <2>6, <2>7 DEF Reach
<1> QED
  BY <1>2, <1>3

LEMMA ResultRight ==
  ASSUME NEW s \in State, NEW L \in SUBSET Temp, NEW U, Right(s, L, U),
         NEW d, Writable(s, d, L)
  PROVE  Reach(s, Result(s, d), Known(L, d), U, {DstReg(s, d)})
<1> DEFINE q == DstReg(s, d)
           s1 == Put(s, q, d)
<1>1. /\ q \in PhysReg /\ q \notin Homes(s, L) /\ q # C
      /\ InPreg(s, d) <=> q # A
      /\ InPreg(s, d) => d \in Temp /\ q = s.home[d]
  BY DstRegPlace
<1>2. d \in Token
  BY DEF Writable, Token, Operand
<1>3. q # A => s.home[d] # Spilled
  BY <1>1 DEF InPreg
<1> HIDE DEF q
<1>4. Reach(s, s1, L, U \cup {q}, {q}) /\ s1.reg[q] = d
  BY <1>1, <1>2, PutRight
<1>5. Result(s, d) = IF DstReg(s1, d) = A THEN StoreOp(s1, A, d) ELSE s1
  BY DEF Result, Finish, q
<1> HIDE DEF s1
<1>6. s1.home = s.home /\ DstReg(s1, d) = q /\ Writable(s1, d, L)
  BY <1>4, SameHome DEF Reach, Only, q
<1>7. CASE q = A
  <2>1. Holds(s1, A, d)
    BY <1>4, <1>7 DEF Holds
  <2>2. Reach(s1, StoreOp(s1, A, d), Known(L, d), (U \cup {A}) \ {A}, {A, A})
    BY <1>4, <1>6, <1>7, <2>1, StoreRight, Machine DEF Reach
  <2>3. Right(StoreOp(s1, A, d), Known(L, d), U)
    BY <2>2, RightLess DEF Reach
  <2>4. Only(s, StoreOp(s1, A, d), {A} \cup {A, A})
    BY <1>4, <1>7, <2>2, OnlyTransitive DEF Reach
  <2>5. {A} \cup {A, A} = {q}
    BY <1>7
  <2> QED
    BY <1>5, <1>6, <1>7, <2>2, <2>3, <2>4, <2>5 DEF Reach, q
<1>8. CASE q # A
  <2>1. Right(s1, L, U)
    BY <1>1, <1>4, <1>8, RightIgnores DEF Reach
  <2>2. At(s1, d)
    BY <1>1, <1>3, <1>4, <1>6, <1>8 DEF At
  <2>3. Right(s1, Known(L, d), U)
    BY <2>1, <2>2, RightKnown
  <2> QED
    BY <1>4, <1>5, <1>6, <1>8, <2>3 DEF Reach, q
<1> QED
  BY <1>7, <1>8

(* _invalidate_scratch_a, and _invalidate_scratch of both.                  *)
LEMMA ForgetRight ==
  ASSUME NEW s \in State, NEW L \in SUBSET Temp, NEW U \in SUBSET {A}, Right(s, L, U)
  PROVE  Reach(s, ForgetA(s), L, {}, {A})
<1>1. U \ {A} = {}
  OBVIOUS
<1> QED
  BY <1>1, TrackRight DEF ForgetA

LEMMA InvalidateRight ==
  ASSUME NEW s \in State, NEW L \in SUBSET Temp, NEW U \in SUBSET {A, C}, Right(s, L, U)
  PROVE  Reach(s, Invalidate(s), L, {}, {A, C})
<1>1. Reach(s, ForgetA(s), L, U \ {A}, {A})
  BY TrackRight DEF ForgetA
<1>2. Reach(ForgetA(s), Invalidate(s), L, (U \ {A}) \ {C}, {C})
  BY <1>1, TrackRight DEF Invalidate, Reach
<1>3. (U \ {A}) \ {C} = {} /\ {A} \cup {C} = {A, C}
  OBVIOUS
<1>4. Only(s, Invalidate(s), {A} \cup {C})
  BY <1>1, <1>2, OnlyTransitive DEF Reach
<1> QED
  BY <1>2, <1>3, <1>4 DEF Reach

LEMMA AddrRight ==
  ASSUME NEW s \in State, NEW L \in SUBSET Temp, Right(s, L, {}), NEW op \in Source(L)
  PROVE  /\ Reach(s, AddrLoad(s, op), L, {}, {C})
         /\ Holds(AddrLoad(s, op), AddrReg(s, op), AddrTok(op))
         /\ AddrReg(s, op) \in PhysReg /\ AddrReg(s, op) \in Homes(s, L) \cup {C}
<1>1. C \in PhysReg /\ C \notin Homes(s, L) /\ Address \in Token
  BY Machine, HomesApart DEF Token
<1>2. CASE op \in Var
  <2>1. ~InPreg(s, op)
    BY <1>2, MachineAssumption DEF InPreg
  <2>2. AddrReg(s, op) = C /\ AddrTok(op) = Address
        /\ AddrLoad(s, op) = Untracked(Put(s, C, Address), C)
    BY <1>2, <2>1 DEF AddrReg, SrcReg, AddrTok, AddrLoad
  <2> QED
    BY <1>1, <2>2, PutUntracked DEF Holds
<1>3. CASE op \notin Var
  <2>1. Readable(s, op, L)
    BY DEF Readable
  <2> QED
    BY <1>1, <1>3, <2>1, SrcLoadRight DEF AddrReg, AddrTok, AddrLoad
<1> QED
  BY <1>2, <1>3

LEMMA LoadBothRight ==
  ASSUME NEW s \in State, NEW L \in SUBSET Temp, Right(s, L, {}),
         NEW l \in Source(L), NEW r \in Source(L)
  PROVE  /\ Reach(s, LoadBoth(s, l, r), L, {}, {A, B})
         /\ Holds(LoadBoth(s, l, r), B, r)
<1> DEFINE s1 == LoadOp(s, l, A)
           s2 == LoadOp(s1, r, B)
           s3 == Uses(s2, A, l)
           s4 == Uses(s3, B, r)
<1>1. /\ A \in PhysReg /\ B \in PhysReg /\ A # B
      /\ \A z \in State : A \notin Homes(z, L) /\ B \notin Homes(z, L)
      /\ \A z : Readable(z, l, L) /\ Readable(z, r, L)
  BY Machine, HomesApart DEF Readable
<1>2. s4 = LoadBoth(s, l, r)
  BY DEF LoadBoth
<1>3. Reach(s, s1, L, {}, {A}) /\ Holds(s1, A, l)
  BY <1>1, LoadRight
<1> HIDE DEF s1
<1>4. Reach(s1, s2, L, {}, {B}) /\ Holds(s2, B, r)
  BY <1>1, <1>3, LoadRight DEF Reach
<1> HIDE DEF s2
<1>5. Holds(s2, A, l)
  BY <1>1, <1>3, <1>4, HoldsKept DEF Reach
<1>6. Reach(s2, s3, L, {}, {})
  BY <1>1, <1>4, <1>5, UsesRight DEF Reach
<1> HIDE DEF s3
<1>7. Holds(s3, B, r)
  BY <1>1, <1>4, <1>6, HoldsKept DEF Reach
<1>8. Reach(s3, s4, L, {}, {})
  BY <1>1, <1>6, <1>7, UsesRight DEF Reach
<1> HIDE DEF s4
<1>9. Holds(s4, B, r)
  BY <1>1, <1>7, <1>8, HoldsKept DEF Reach
<1>10. Only(s, s4, {A, B})
  BY <1>3, <1>4, <1>6, <1>8 DEF Reach, Only
<1> QED
  BY <1>2, <1>8, <1>9, <1>10 DEF Reach

-----------------------------------------------------------------------------
(* The forms in which handlers read their operands.                         *)
LEMMA ReachThen ==
  ASSUME NEW s, NEW s1, NEW s2, NEW K, NEW L, NEW U, NEW U2, NEW V, NEW W,
         Reach(s, s1, K, U, V), Reach(s1, s2, L, U2, W)
  PROVE  Reach(s, s2, L, U2, V \cup W)
  BY OnlyTransitive DEF Reach

LEMMA UsesTwice ==
  ASSUME NEW s \in State, NEW L \in SUBSET Temp, NEW U, Right(s, L, U),
         NEW p \in PhysReg, NEW l, Holds(s, p, l), NEW q \in PhysReg, NEW r, Holds(s, q, r)
  PROVE  Reach(s, Uses(Uses(s, p, l), q, r), L, U, {})
<1> DEFINE s1 == Uses(s, p, l)
<1>1. Reach(s, s1, L, U, {})
  BY UsesRight
<1> HIDE DEF s1
<1>2. Holds(s1, q, r)
  BY <1>1, HoldsKept DEF Reach
<1>3. Reach(s1, Uses(s1, q, r), L, U, {})
  BY <1>1, <1>2, UsesRight DEF Reach
<1>4. {} \cup {} = {}
  OBVIOUS
<1>5. Reach(s, Uses(s1, q, r), L, U, {} \cup {})
  BY <1>1, <1>3, ReachThen
<1> QED
  BY <1>4, <1>5 DEF s1

LEMMA LoadedRight ==
  ASSUME NEW s \in State, NEW L \in SUBSET Temp, Right(s, L, {}),
         NEW op, Readable(s, op, L), NEW r \in PhysReg, r \notin Homes(s, L)
  PROVE  /\ Reach(s, Uses(LoadOp(s, op, r), r, op), L, {}, {r})
         /\ Holds(Uses(LoadOp(s, op, r), r, op), r, op)
<1> DEFINE s1 == LoadOp(s, op, r)
<1>1. Reach(s, s1, L, {}, {r}) /\ Holds(s1, r, op)
  BY LoadRight
<1> HIDE DEF s1
<1>2. Reach(s1, Uses(s1, r, op), L, {}, {})
  BY <1>1, UsesRight DEF Reach
<1>3. Holds(Uses(s1, r, op), r, op)
  BY <1>1, <1>2, HoldsKept DEF Reach
<1>4. Reach(s, Uses(s1, r, op), L, {}, {r} \cup {})
  BY <1>1, <1>2, ReachThen
<1> QED
  BY <1>3, <1>4 DEF s1

LEMMA ReadRight ==
  ASSUME NEW s \in State, NEW L \in SUBSET Temp, Right(s, L, {}),
         NEW op, Readable(s, op, L), NEW r \in PhysReg, r \notin Homes(s, L)
  PROVE  Reach(s, Uses(SrcLoad(s, op, r), SrcReg(s, op, r), op), L, {}, {r})
<1> DEFINE s1 == SrcLoad(s, op, r)
<1>1. /\ Reach(s, s1, L, {}, {r}) /\ Holds(s1, SrcReg(s, op, r), op)
      /\ SrcReg(s, op, r) \in PhysReg
  BY SrcLoadRight
<1> HIDE DEF s1
<1>2. Reach(s1, Uses(s1, SrcReg(s, op, r), op), L, {}, {})
  BY <1>1, UsesRight DEF Reach
<1>3. Reach(s, Uses(s1, SrcReg(s, op, r), op), L, {}, {r} \cup {})
  BY <1>1, <1>2, ReachThen
<1> QED
  BY <1>3 DEF s1

LEMMA SrcLoadBoth ==
  ASSUME NEW s \in State, NEW L \in SUBSET Temp, Right(s, L, {}),
         NEW p \in PhysReg, NEW q \in PhysReg, p # q,
         p \notin Homes(s, L), q \notin Homes(s, L),
         NEW l, Readable(s, l, L), NEW r, Readable(s, r, L), p # A \/ r \in Source(L)
  PROVE  /\ Reach(s, SrcLoad(SrcLoad(s, l, p), r, q), L, {}, {p, q})
         /\ Holds(SrcLoad(SrcLoad(s, l, p), r, q), SrcReg(s, l, p), l)
         /\ Holds(SrcLoad(SrcLoad(s, l, p), r, q), SrcReg(s, r, q), r)
         /\ SrcReg(s, l, p) \in PhysReg /\ SrcReg(s, l, p) \in Homes(s, L) \cup {p}
         /\ SrcReg(s, r, q) \in PhysReg /\ SrcReg(s, r, q) \in Homes(s, L) \cup {q}
<1> DEFINE s1 == SrcLoad(s, l, p)
           s2 == SrcLoad(s1, r, q)
<1>1. /\ Reach(s, s1, L, {}, {p}) /\ Holds(s1, SrcReg(s, l, p), l)
      /\ SrcReg(s, l, p) \in PhysReg /\ SrcReg(s, l, p) \in Homes(s, L) \cup {p}
  BY SrcLoadRight
<1> HIDE DEF s1
<1>2. s1.home = s.home /\ Readable(s1, r, L)
  BY <1>1 DEF Reach, Only, Readable
<1>3. SrcReg(s1, r, q) = SrcReg(s, r, q) /\ Homes(s1, L) = Homes(s, L)
  BY <1>2, SameHome
<1>4. /\ Reach(s1, s2, L, {}, {q}) /\ Holds(s2, SrcReg(s1, r, q), r)
      /\ SrcReg(s1, r, q) \in PhysReg /\ SrcReg(s1, r, q) \in Homes(s1, L) \cup {q}
  BY <1>1, <1>2, <1>3, SrcLoadRight DEF Reach
<1> HIDE DEF s2
<1>5. Holds(s2, SrcReg(s, l, p), l)
  BY <1>1, <1>4, HoldsKept DEF Reach
<1>6. Reach(s, s2, L, {}, {p} \cup {q})
  BY <1>1, <1>4, ReachThen
<1>7. {p} \cup {q} = {p, q}
  OBVIOUS
<1> QED
  BY <1>1, <1>3, <1>4, <1>5, <1>6, <1>7 DEF s2, s1

-----------------------------------------------------------------------------
(* What a handler leaves: the Temps K have their values, where they belong. *)
Emits(s, s2, K) == s2 \in State /\ Right(s2, K, {}) /\ s2.home = s.home

LEMMA ReachEmits ==
  ASSUME NEW s, NEW s2, NEW K, NEW W, Reach(s, s2, K, {}, W)
  PROVE  Emits(s, s2, K)
  BY DEF Reach, Only, Emits

(* A handler that ends with its result, r7 forgotten or not.                *)
LEMMA EndsInResult ==
  ASSUME NEW s, NEW L \in SUBSET Temp, NEW W, NEW s1, NEW d,
         Reach(s, s1, L, {}, W), Writable(s, d, L)
  PROVE  Emits(s, Result(s1, d), Known(L, d))
<1>1. Writable(s1, d, L)
  BY SameHome DEF Reach, Only
<1>2. Reach(s1, Result(s1, d), Known(L, d), {}, {DstReg(s1, d)})
  BY <1>1, ResultRight DEF Reach
<1> QED
  BY <1>2 DEF Reach, Only, Emits

LEMMA EndsForgettingA ==
  ASSUME NEW s, NEW L \in SUBSET Temp, NEW U \in SUBSET {A}, NEW W, NEW s1, NEW d,
         Reach(s, s1, L, U, W), Writable(s, d, L)
  PROVE  Emits(s, Result(ForgetA(s1), d), Known(L, d))
<1>1. Reach(s1, ForgetA(s1), L, {}, {A})
  BY ForgetRight DEF Reach
<1>2. Reach(s, ForgetA(s1), L, {}, W \cup {A})
  BY <1>1, ReachThen
<1> QED
  BY <1>2, EndsInResult

LEMMA SourceReadable ==
  ASSUME NEW s, NEW L, NEW op \in Source(L)
  PROVE  Readable(s, op, L)
  BY DEF Readable

LEMMA ScratchFree ==
  /\ A \in PhysReg /\ B \in PhysReg /\ C \in PhysReg /\ A # B /\ A # C /\ B # C
  /\ \A s \in State, L \in SUBSET Temp :
       A \notin Homes(s, L) /\ B \notin Homes(s, L) /\ C \notin Homes(s, L)
  BY Machine, HomesApart

LEMMA Stays ==
  ASSUME NEW s \in State, NEW L, NEW U, Right(s, L, U)
  PROVE  Reach(s, s, L, U, {})
  BY DEF Reach, Only

LEMMA ConstRight ==
  ASSUME NEW s \in State, NEW L \in SUBSET Temp, Right(s, L, {}),
         NEW d, Writable(s, d, L)
  PROVE  Emits(s, GenConst(s, d), Known(L, d))
  BY Stays, EndsForgettingA DEF GenConst

LEMMA CopyRight ==
  ASSUME NEW s \in State, NEW L \in SUBSET Temp, Right(s, L, {}),
         NEW d, Writable(s, d, L), NEW src \in Source(L)
  PROVE  Emits(s, GenCopy(s, d, src), Known(L, d))
<1> DEFINE q == DstReg(s, d)
           s1 == Uses(LoadOp(s, src, q), q, src)
<1>1. q \in PhysReg /\ q \notin Homes(s, L)
  BY DstRegPlace
<1> HIDE DEF q
<1>2. Reach(s, s1, L, {}, {q})
  BY <1>1, LoadedRight, SourceReadable
<1>3. GenCopy(s, d, src) = Result(s1, d)
  BY DEF GenCopy, q
<1> QED
  BY <1>2, <1>3, EndsInResult

LEMMA LoadFromRight ==
  ASSUME NEW s \in State, NEW L \in SUBSET Temp, Right(s, L, {}),
         NEW d, Writable(s, d, L), NEW addr \in Source(L)
  PROVE  /\ Emits(s, GenLoad(s, d, addr), Known(L, d))
         /\ Emits(s, GenVaArg(s, d, addr), Known(L, d))
<1>1. Reach(s, Uses(SrcLoad(s, addr, C), AddrReg(s, addr), addr), L, {}, {C})
  BY ReadRight, ScratchFree, SourceReadable DEF AddrReg
<1>2. Reach(s, Uses(LoadOp(s, addr, C), C, addr), L, {}, {C})
  BY LoadedRight, ScratchFree, SourceReadable
<1> QED
  BY <1>1, <1>2, EndsForgettingA DEF GenLoad, GenVaArg

(* The next instruction takes due from r7, when there is one.               *)
LEMMA StoreVarRight ==
  ASSUME NEW s \in State, NEW L \in SUBSET Temp, Right(s, L, {}),
         NEW x \in Var, NEW src, Readable(s, src, L)
  PROVE  Emits(s, GenStoreVar(s, x, src), L)
<1> DEFINE s1 == Uses(LoadOp(s, src, A), A, src)
           s2 == [s1 EXCEPT !.mem[x] = x]
<1>1. Reach(s, s1, L, {}, {A}) /\ Holds(s1, A, src)
  BY LoadedRight, ScratchFree
<1>2. GenStoreVar(s, x, src) = IF src \in Temp THEN Track(s2, A, src) ELSE s2
  BY DEF GenStoreVar
<1> HIDE DEF s1
<1>3. /\ x \in Token /\ x \in Temp \cup Var
      /\ Temp \cap Var = {}
  BY MachineAssumption DEF Token, Operand
<1>4. /\ s2 \in State /\ s2.mem[x] = x
      /\ \A y \in (Temp \cup Var) \ {x} : s2.mem[y] = s1.mem[y]
      /\ s2.reg = s1.reg /\ s2.home = s1.home /\ s2.a = s1.a /\ s2.c = s1.c
      /\ s2.stale = s1.stale /\ s2.misled = s1.misled /\ s2.ok = s1.ok
  BY <1>1, <1>3 DEF Reach, State
<1> HIDE DEF s2
<1>5. ASSUME ~s2.misled
      PROVE  Right(s2, L, {})
  <2>1. /\ s1.ok /\ Tracks(s1, {}) /\ \A u \in L : At(s1, u)
        /\ \A y \in Var : s1.mem[y] = y
    BY <1>1, <1>4, <1>5 DEF Reach, Right
  <2> QED
    BY <1>3, <1>4, <2>1 DEF Right, Tracks, At
<1>6. Right(s2, L, {})
  BY <1>5 DEF Right
<1>7. Holds(s2, A, src) /\ s2.home = s.home
  BY <1>1, <1>4 DEF Holds, Reach, Only
<1>8. CASE src \in Temp
  <2>1. Reach(s2, Track(s2, A, src), L, {} \ {A}, {A})
    BY <1>4, <1>6, <1>7, <1>8, TrackRight
  <2>2. {} \ {A} = {}
    OBVIOUS
  <2> QED
    BY <1>2, <1>7, <1>8, <2>1, <2>2 DEF Reach, Only, Emits
<1>9. CASE src \notin Temp
  BY <1>2, <1>4, <1>6, <1>7, <1>9 DEF Emits
<1> QED
  BY <1>8, <1>9

LEMMA StoreToRight ==
  ASSUME NEW s \in State, NEW L \in SUBSET Temp, Right(s, L, {}),
         NEW addr, Readable(s, addr, L), NEW src, Readable(s, src, L)
  PROVE  Emits(s, GenStore(s, addr, src), L)
<1> DEFINE s1 == SrcLoad(SrcLoad(s, addr, C), src, A)
<1>1. /\ Reach(s, s1, L, {}, {C, A})
      /\ Holds(s1, SrcReg(s, addr, C), addr) /\ Holds(s1, SrcReg(s, src, A), src)
      /\ SrcReg(s, addr, C) \in PhysReg /\ SrcReg(s, src, A) \in PhysReg
  <2>1. C \in PhysReg /\ A \in PhysReg /\ C # A /\ C \notin Homes(s, L) /\ A \notin Homes(s, L)
    BY ScratchFree
  <2> QED
    BY <2>1, SrcLoadBoth
<1> HIDE DEF s1
<1>2. Reach(s1, Uses(Uses(s1, SrcReg(s, addr, C), addr), SrcReg(s, src, A), src), L, {}, {})
  BY <1>1, UsesTwice DEF Reach
<1> QED
  BY <1>1, <1>2 DEF GenStore, AddrReg, s1, Reach, Only, Emits

LEMMA BinopRight ==
  ASSUME NEW s \in State, NEW L \in SUBSET Temp, Right(s, L, {}),
         NEW d, Writable(s, d, L), NEW l \in Source(L), NEW r \in Source(L),
         NEW threeOp \in BOOLEAN
  PROVE  Emits(s, GenBinop(s, d, l, r, threeOp), Known(L, d))
<1> DEFINE dst == DstReg(s, d)
           lreg == SrcReg(s, l, A)
           rreg == SrcReg(s, r, B)
           acc == IF dst # rreg THEN dst ELSE A
           s1 == SrcLoad(SrcLoad(s, l, A), r, B)
           moved == Put(s1, acc, s1.reg[lreg])
           s2 == Uses(Uses(s1, lreg, l), rreg, r)
           s3 == Uses(Uses(moved, acc, l), rreg, r)
<1>1. /\ Reach(s, s1, L, {}, {A, B})
      /\ Holds(s1, lreg, l) /\ Holds(s1, rreg, r)
      /\ lreg \in PhysReg /\ rreg \in PhysReg /\ rreg \in Homes(s, L) \cup {B}
  <2>1. /\ A \in PhysReg /\ B \in PhysReg /\ A # B
        /\ A \notin Homes(s, L) /\ B \notin Homes(s, L)
        /\ Readable(s, l, L) /\ Readable(s, r, L)
    BY ScratchFree, SourceReadable
  <2> QED
    BY <2>1, SrcLoadBoth
<1>2. /\ dst \in PhysReg /\ dst \notin Homes(s, L) /\ dst # B /\ dst # C
  BY DstRegPlace
<1>3. acc = dst /\ acc # rreg
  BY <1>1, <1>2
<1>4. GenBinop(s, d, l, r, threeOp)
        = Result(ForgetA(IF threeOp /\ dst # rreg THEN s2 ELSE s3), d)
  BY DEF GenBinop
<1> HIDE DEF dst, lreg, rreg, acc, s1
<1>5. CASE threeOp /\ dst # rreg
  <2>1. Reach(s1, s2, L, {}, {})
    BY <1>1, UsesTwice DEF Reach
  <2>2. Reach(s, s2, L, {}, {A, B} \cup {})
    BY <1>1, <2>1, ReachThen
  <2> QED
    BY <1>4, <1>5, <2>2, EndsForgettingA
<1>6. CASE ~(threeOp /\ dst # rreg)
  <2>1. acc \in PhysReg /\ acc \notin Homes(s1, L) /\ s1.reg[lreg] \in Token
    BY <1>1, <1>2, <1>3, SameHome DEF Reach, Only, State
  <2>2. /\ Reach(s1, moved, L, {} \cup {acc}, {acc})
        /\ moved.reg[acc] = s1.reg[lreg]
    <3>1. s1 \in State /\ Right(s1, L, {})
      BY <1>1 DEF Reach
    <3> QED
      BY <2>1, <3>1, PutRight
  <2> HIDE DEF moved
  <2>3. Holds(moved, acc, l) /\ Holds(moved, rreg, r)
    BY <1>1, <1>3, <2>2, HoldsKept DEF Holds, Reach, Only
  <2>4. Right(moved, L, {A})
    <3>1. CASE acc = A
      BY <2>2, <3>1, RightLess DEF Reach
    <3>2. CASE acc # A
      <4>1. Right(moved, L, {})
        BY <1>2, <1>3, <2>2, <3>2, RightIgnores DEF Reach
      <4> QED
        BY <4>1, RightLess
    <3> QED
      BY <3>1, <3>2
  <2>5. Reach(moved, s3, L, {A}, {})
    BY <1>1, <2>1, <2>2, <2>3, <2>4, UsesTwice DEF Reach
  <2>6. Only(s, s3, {A, B, acc})
    BY <1>1, <2>2, <2>5 DEF Reach, Only
  <2>7. Reach(s, s3, L, {A}, {A, B, acc})
    BY <2>5, <2>6 DEF Reach
  <2> QED
    BY <1>4, <1>6, <2>7, EndsForgettingA
<1> QED
  BY <1>5, <1>6

LEMMA CompareRight ==
  ASSUME NEW s \in State, NEW L \in SUBSET Temp, Right(s, L, {}),
         NEW d, Writable(s, d, L), NEW l \in Source(L), NEW r \in Source(L)
  PROVE  Emits(s, GenCompare(s, d, l, r), Known(L, d))
<1> DEFINE left == IF InPreg(s, l) /\ s.home[l] # DstReg(s, d) THEN s.home[l] ELSE A
           s1 == IF left = A THEN LoadOp(s, l, A) ELSE s
           s2 == LoadOp(s1, r, B)
           s3 == Uses(Uses(s2, left, l), B, r)
<1>1. /\ Reach(s, s1, L, {}, {A}) /\ Holds(s1, left, l)
      /\ left \in PhysReg /\ left # B
  <2>1. CASE left = A
    BY <2>1, LoadRight, ScratchFree, SourceReadable
  <2>2. CASE left # A
    <3>1. InPreg(s, l) /\ left = s.home[l]
      BY <2>2
    <3>2. l \in L
      BY <3>1, MachineAssumption DEF InPreg, Source
    <3>3. left \in PhysReg /\ left # B /\ Holds(s, left, l)
      BY <3>1, <3>2, Machine DEF InPreg, State, Right, At, Holds
    <3>4. s1 = s /\ Only(s, s, {A})
      BY <2>2 DEF Only
    <3> QED
      BY <3>3, <3>4 DEF Reach
  <2> QED
    BY <2>1, <2>2
<1>2. GenCompare(s, d, l, r) = Result(ForgetA(s3), d)
  BY DEF GenCompare
<1> HIDE DEF left, s1
<1>3. B \in PhysReg /\ B \notin Homes(s1, L)
  BY <1>1, ScratchFree DEF Reach
<1>4. Reach(s1, s2, L, {}, {B}) /\ Holds(s2, B, r)
  BY <1>1, <1>3, LoadRight, SourceReadable DEF Reach
<1> HIDE DEF s2
<1>5. Holds(s2, left, l)
  BY <1>1, <1>4, HoldsKept DEF Reach
<1>6. Reach(s2, s3, L, {}, {})
  BY <1>1, <1>3, <1>4, <1>5, UsesTwice DEF Reach
<1>7. Reach(s, s2, L, {}, {A} \cup {B})
  BY <1>1, <1>4, ReachThen
<1>8. Reach(s, s3, L, {}, ({A} \cup {B}) \cup {})
  BY <1>6, <1>7, ReachThen
<1> QED
  BY <1>2, <1>8, EndsForgettingA

(* Branches forget both scratch registers.                                  *)
LEMMA EndsInvalidated ==
  ASSUME NEW s, NEW L \in SUBSET Temp, NEW W, NEW s1, Reach(s, s1, L, {}, W)
  PROVE  Emits(s, Invalidate(s1), L)
<1>1. Reach(s1, Invalidate(s1), L, {}, {A, C})
  BY InvalidateRight DEF Reach
<1> QED
  BY <1>1 DEF Reach, Only, Emits

LEMMA BranchesRight ==
  ASSUME NEW s \in State, NEW L \in SUBSET Temp, Right(s, L, {}),
         NEW l \in Source(L), NEW r \in Source(L)
  PROVE  Emits(s, GenFused(s, l, r), L) /\ Emits(s, GenJumpIf(s, l), L)
<1> DEFINE s1 == SrcLoad(SrcLoad(s, l, A), r, B)
           s2 == Uses(Uses(s1, SrcReg(s, l, A), l), SrcReg(s, r, B), r)
<1>1. /\ Reach(s, s1, L, {}, {A, B})
      /\ Holds(s1, SrcReg(s, l, A), l) /\ Holds(s1, SrcReg(s, r, B), r)
      /\ SrcReg(s, l, A) \in PhysReg /\ SrcReg(s, r, B) \in PhysReg
  <2>1. /\ A \in PhysReg /\ B \in PhysReg /\ A # B
        /\ A \notin Homes(s, L) /\ B \notin Homes(s, L)
        /\ Readable(s, l, L) /\ Readable(s, r, L)
    BY ScratchFree, SourceReadable
  <2> QED
    BY <2>1, SrcLoadBoth
<1>2. GenFused(s, l, r) = Invalidate(s2)
  BY DEF GenFused
<1> HIDE DEF s1
<1>3. Reach(s1, s2, L, {}, {})
  BY <1>1, UsesTwice DEF Reach
<1>4. Reach(s, s2, L, {}, {A, B} \cup {})
  BY <1>1, <1>3, ReachThen
<1>5. Reach(s, Uses(SrcLoad(s, l, A), SrcReg(s, l, A), l), L, {}, {A})
  BY ReadRight, ScratchFree, SourceReadable
<1> QED
  BY <1>2, <1>4, <1>5, EndsInvalidated DEF GenJumpIf

LEMMA UnaryRight ==
  ASSUME NEW s \in State, NEW L \in SUBSET Temp, Right(s, L, {}),
         NEW d, Writable(s, d, L), NEW src \in Source(L)
  PROVE  Emits(s, GenUnary(s, d, src), Known(L, d))
<1> DEFINE s1 == Uses(LoadOp(s, src, A), A, src)
           s2 == Put(s1, A, d)
           s3 == ForgetA(s2)
<1>1. Reach(s, s1, L, {}, {A})
  BY LoadedRight, ScratchFree, SourceReadable
<1> HIDE DEF s1
<1>2. d \in Token /\ A \in PhysReg /\ A \notin Homes(s1, L)
  BY <1>1, ScratchFree DEF Reach, Writable, Token, Operand
<1>3. Reach(s1, s2, L, {} \cup {A}, {A}) /\ s2.reg[A] = d
  BY <1>1, <1>2, PutRight DEF Reach
<1> HIDE DEF s2
<1>4. Reach(s2, s3, L, {}, {A}) /\ s3.reg = s2.reg
  <2>1. Right(s2, L, {A})
    BY <1>3, RightLess DEF Reach
  <2> QED
    BY <1>3, <2>1, ForgetRight, TrackFields DEF ForgetA, Reach
<1>5. GenUnary(s, d, src) =
        IF DstReg(s, d) = A THEN StoreOp(s3, A, d) ELSE Put(s3, DstReg(s, d), d)
  BY DEF GenUnary, s2, s1
<1> HIDE DEF s3
<1>6. s3.home = s.home /\ Writable(s3, d, L) /\ DstReg(s3, d) = DstReg(s, d)
  BY <1>1, <1>3, <1>4, SameHome DEF Reach, Only
<1>7. CASE DstReg(s, d) = A
  <2>1. Holds(s3, A, d)
    BY <1>3, <1>4 DEF Holds
  <2>2. Reach(s3, StoreOp(s3, A, d), Known(L, d), {} \ {A}, {A, DstReg(s3, d)})
    BY <1>2, <1>4, <1>6, <2>1, StoreRight DEF Reach
  <2>3. {} \ {A} = {}
    OBVIOUS
  <2> QED
    BY <1>5, <1>6, <1>7, <2>2, <2>3 DEF Reach, Only, Emits
<1>8. CASE DstReg(s, d) # A
  <2>1. Result(s3, d) = Put(s3, DstReg(s, d), d)
    <3> DEFINE z == Put(s3, DstReg(s, d), d)
    <3>1. z.home = s3.home
      <4>1. DstReg(s, d) \in PhysReg /\ s3 \in State
        BY <1>4, DstRegPlace DEF Reach
      <4> QED
        BY <1>2, <4>1, PutFields
    <3> HIDE DEF z
    <3>2. DstReg(z, d) = DstReg(s, d)
      BY <1>6, <3>1, SameHome
    <3>3. Finish(z, d) = z
      BY <1>8, <3>2 DEF Finish
    <3> QED
      BY <1>6, <3>3 DEF Result, z
  <2>2. Reach(s3, Result(s3, d), Known(L, d), {}, {DstReg(s3, d)})
    BY <1>4, <1>6, ResultRight DEF Reach
  <2> QED
    BY <1>5, <1>6, <1>8, <2>1, <2>2 DEF Reach, Only, Emits
<1> QED
  BY <1>7, <1>8

-----------------------------------------------------------------------------
(* Two-word instructions: the second result, after the first.               *)
LEMMA FirstResult ==
  ASSUME NEW s, NEW L \in SUBSET Temp, NEW W, NEW s1, NEW lo,
         Reach(s, s1, L, {}, W), Writable(s, lo, L)
  PROVE  /\ Reach(s, Result(s1, lo), Known(L, lo), {}, W \cup {DstReg(s, lo)})
         /\ Reach(s1, Result(s1, lo), Known(L, lo), {}, {DstReg(s, lo)})
         /\ Known(L, lo) \in SUBSET Temp
<1>1. Writable(s1, lo, L) /\ DstReg(s1, lo) = DstReg(s, lo)
  BY SameHome DEF Reach, Only
<1>2. Reach(s1, Result(s1, lo), Known(L, lo), {}, {DstReg(s, lo)})
  BY <1>1, ResultRight DEF Reach
<1>3. Reach(s, Result(s1, lo), Known(L, lo), {}, W \cup {DstReg(s, lo)})
  BY <1>2, ReachThen
<1> QED
  BY <1>2, <1>3 DEF Known

LEMMA LongLoadRight ==
  ASSUME NEW s \in State, NEW L \in SUBSET Temp, Right(s, L, {}),
         NEW lo, Writable(s, lo, L), NEW hi, Writable(s, hi, Known(L, lo)),
         NEW addr \in Source(L)
  PROVE  Emits(s, GenLongLoad(s, lo, hi, addr), Known(Known(L, lo), hi))
<1> DEFINE areg == AddrReg(s, addr)
           tok == AddrTok(addr)
           z0 == AddrLoad(s, addr)
           z1 == Uses(z0, areg, tok)
           s1 == ForgetA(z1)
           z2 == Result(s1, lo)
           s2 == Uses(z2, areg, tok)
<1>1. /\ Reach(s, z0, L, {}, {C}) /\ Holds(z0, areg, tok)
      /\ areg \in PhysReg /\ areg \in Homes(s, L) \cup {C}
  BY AddrRight
<1>2. areg # A /\ areg # DstReg(s, lo)
  BY <1>1, ScratchFree, DstRegPlace
<1>3. GenLongLoad(s, lo, hi, addr) = Result(s2, hi)
  BY DEF GenLongLoad
<1> HIDE DEF areg, tok, z0
<1>4. Reach(z0, z1, L, {}, {}) /\ Holds(z1, areg, tok)
  BY <1>1, UsesRight, HoldsKept DEF Reach
<1> HIDE DEF z1
<1>5. Reach(z1, s1, L, {}, {A})
  BY <1>4, ForgetRight DEF Reach
<1> HIDE DEF s1
<1>6. Holds(s1, areg, tok)
  BY <1>1, <1>2, <1>4, <1>5, HoldsKept DEF Reach
<1>7. Reach(s, s1, L, {}, ({C} \cup {}) \cup {A})
  BY <1>1, <1>4, <1>5, ReachThen
<1>8. /\ Reach(s, z2, Known(L, lo), {}, (({C} \cup {}) \cup {A}) \cup {DstReg(s, lo)})
      /\ Reach(s1, z2, Known(L, lo), {}, {DstReg(s, lo)})
      /\ Known(L, lo) \in SUBSET Temp
  BY <1>7, FirstResult
<1> HIDE DEF z2
<1>9. Holds(z2, areg, tok)
  BY <1>1, <1>2, <1>6, <1>8, HoldsKept DEF Reach
<1>10. Reach(z2, s2, Known(L, lo), {}, {})
  BY <1>1, <1>8, <1>9, UsesRight DEF Reach
<1> HIDE DEF s2
<1>11. Reach(s, s2, Known(L, lo), {}, PhysReg)
  BY <1>8, <1>10, Machine DEF Reach, Only
<1> QED
  BY <1>3, <1>8, <1>11, EndsInResult

LEMMA LongStoreRight ==
  ASSUME NEW s \in State, NEW L \in SUBSET Temp, Right(s, L, {}),
         NEW addr \in Source(L), NEW lo \in Source(L), NEW hi \in Source(L)
  PROVE  Emits(s, GenLongStore(s, addr, lo, hi), L)
<1> DEFINE areg == AddrReg(s, addr)
           tok == AddrTok(addr)
           z0 == AddrLoad(s, addr)
           s1 == SrcLoad(z0, lo, A)
           s2 == Uses(Uses(s1, SrcReg(s, lo, A), lo), areg, tok)
           s3 == SrcLoad(s2, hi, A)
           s4 == Uses(Uses(s3, SrcReg(s, hi, A), hi), areg, tok)
<1>1. /\ Reach(s, z0, L, {}, {C}) /\ Holds(z0, areg, tok)
      /\ areg \in PhysReg /\ areg \in Homes(s, L) \cup {C}
  BY AddrRight
<1>2. areg # A /\ A \in PhysReg /\ \A z \in State : A \notin Homes(z, L)
  BY <1>1, ScratchFree
<1>3. GenLongStore(s, addr, lo, hi) = s4
  BY DEF GenLongStore
<1> HIDE DEF areg, tok, z0
<1>4. SrcReg(z0, lo, A) = SrcReg(s, lo, A)
  BY <1>1, SameHome DEF Reach, Only
<1>5. /\ Reach(z0, s1, L, {}, {A}) /\ Holds(s1, SrcReg(s, lo, A), lo)
      /\ SrcReg(s, lo, A) \in PhysReg
  <2>1. z0 \in State /\ Right(z0, L, {}) /\ A \in PhysReg /\ A \notin Homes(z0, L)
    BY <1>1, <1>2 DEF Reach
  <2>2. Readable(z0, lo, L)
    BY SourceReadable
  <2> QED
    BY <1>4, <2>1, <2>2, SrcLoadRight
<1> HIDE DEF s1
<1>6. Holds(s1, areg, tok)
  BY <1>1, <1>2, <1>5, HoldsKept DEF Reach
<1>7. Reach(s1, s2, L, {}, {})
  BY <1>1, <1>5, <1>6, UsesTwice DEF Reach
<1> HIDE DEF s2
<1>8. Holds(s2, areg, tok) /\ SrcReg(s2, hi, A) = SrcReg(s, hi, A)
  <2>1. Holds(s2, areg, tok)
    BY <1>1, <1>6, <1>7, HoldsKept DEF Reach
  <2>2. s2.home = s.home
    BY <1>1, <1>5, <1>7 DEF Reach, Only
  <2> QED
    BY <2>1, <2>2, SameHome
<1>9. /\ Reach(s2, s3, L, {}, {A}) /\ Holds(s3, SrcReg(s, hi, A), hi)
      /\ SrcReg(s, hi, A) \in PhysReg
  <2>1. s2 \in State /\ Right(s2, L, {}) /\ A \in PhysReg /\ A \notin Homes(s2, L)
    BY <1>2, <1>7 DEF Reach
  <2>2. Readable(s2, hi, L)
    BY SourceReadable
  <2> QED
    BY <1>8, <2>1, <2>2, SrcLoadRight
<1> HIDE DEF s3
<1>10. Holds(s3, areg, tok)
  BY <1>1, <1>2, <1>8, <1>9, HoldsKept DEF Reach
<1>11. Reach(s3, s4, L, {}, {})
  BY <1>1, <1>9, <1>10, UsesTwice DEF Reach
<1> QED
  BY <1>1, <1>3, <1>5, <1>7, <1>9, <1>11 DEF Reach, Only, Emits

LEMMA LongBinopRight ==
  ASSUME NEW s \in State, NEW L \in SUBSET Temp, Right(s, L, {}),
         NEW lo, Writable(s, lo, L), NEW hi, Writable(s, hi, Known(L, lo)),
         NEW l, l.lo \in Source(L), l.hi \in Source(L),
         NEW r, r.lo \in Source(L), r.hi \in Source(L)
  PROVE  Emits(s, GenLongBinop(s, lo, hi, l, r), Known(Known(L, lo), hi))
<1> DEFINE z0 == LoadBoth(s, l.lo, r.lo)
           s1 == Result(z0, lo)
           s2 == LoadBoth(s1, l.hi, r.hi)
<1>1. Reach(s, z0, L, {}, {A, B})
  BY LoadBothRight
<1>2. GenLongBinop(s, lo, hi, l, r) = Result(ForgetA(s2), hi)
  BY DEF GenLongBinop
<1> HIDE DEF z0
<1>3. /\ Reach(s, s1, Known(L, lo), {}, {A, B} \cup {DstReg(s, lo)})
      /\ Known(L, lo) \in SUBSET Temp
  BY <1>1, FirstResult
<1> HIDE DEF s1
<1>4. l.hi \in Source(Known(L, lo)) /\ r.hi \in Source(Known(L, lo))
  BY DEF Source, Known
<1>5. Reach(s1, s2, Known(L, lo), {}, {A, B})
  BY <1>3, <1>4, LoadBothRight DEF Reach
<1> HIDE DEF s2
<1>6. Reach(s, s2, Known(L, lo), {}, ({A, B} \cup {DstReg(s, lo)}) \cup {A, B})
  BY <1>3, <1>5, ReachThen
<1> QED
  BY <1>2, <1>3, <1>6, EndsForgettingA

LEMMA LongUnaryRight ==
  ASSUME NEW s \in State, NEW L \in SUBSET Temp, Right(s, L, {}),
         NEW lo, Writable(s, lo, L), NEW hi, Writable(s, hi, Known(L, lo)),
         NEW src, src.lo \in Source(L), src.hi \in Source(L)
  PROVE  Emits(s, GenLongUnary(s, lo, hi, src), Known(Known(L, lo), hi))
<1> DEFINE z0 == LoadBoth(s, src.lo, src.hi)
           s1 == Result(z0, lo)
           s2 == Uses(s1, B, src.hi)
<1>1. Reach(s, z0, L, {}, {A, B}) /\ Holds(z0, B, src.hi)
  BY LoadBothRight
<1>2. GenLongUnary(s, lo, hi, src) = Result(ForgetA(s2), hi)
  BY DEF GenLongUnary
<1> HIDE DEF z0
<1>3. /\ Reach(s, s1, Known(L, lo), {}, {A, B} \cup {DstReg(s, lo)})
      /\ Reach(z0, s1, Known(L, lo), {}, {DstReg(s, lo)})
      /\ Known(L, lo) \in SUBSET Temp
  BY <1>1, FirstResult
<1> HIDE DEF s1
<1>4. Holds(s1, B, src.hi)
  BY <1>1, <1>3, DstRegPlace, ScratchFree, HoldsKept DEF Reach
<1>5. Reach(s1, s2, Known(L, lo), {}, {})
  BY <1>3, <1>4, ScratchFree, UsesRight DEF Reach
<1> HIDE DEF s2
<1>6. Reach(s, s2, Known(L, lo), {}, ({A, B} \cup {DstReg(s, lo)}) \cup {})
  BY <1>3, <1>5, ReachThen
<1> QED
  BY <1>2, <1>3, <1>6, EndsForgettingA

(* The branch taken decides what the registers hold, not what is tracked.   *)
LEMMA LongCompareRight ==
  ASSUME NEW s \in State, NEW L \in SUBSET Temp, Right(s, L, {}),
         NEW d, Writable(s, d, L),
         NEW l, l.lo \in Source(L), l.hi \in Source(L),
         NEW r, r.lo \in Source(L), r.hi \in Source(L), NEW highDecides \in BOOLEAN
  PROVE  Emits(s, GenLongCompare(s, d, l, r, highDecides), Known(L, d))
<1> DEFINE s1 == LoadBoth(s, l.hi, r.hi)
           s2 == LoadBoth(s1, l.lo, r.lo)
           ran == IF highDecides THEN s1 ELSE s2
           m == [s2 EXCEPT !.reg = ran.reg, !.ok = ran.ok]
<1>1. Reach(s, s1, L, {}, {A, B})
  BY LoadBothRight
<1>2. GenLongCompare(s, d, l, r, highDecides) = ForgetA(Result(m, d))
  BY DEF GenLongCompare
<1> HIDE DEF s1
<1>3. Reach(s1, s2, L, {}, {A, B})
  BY <1>1, LoadBothRight DEF Reach
<1> HIDE DEF s2
<1>4. /\ m \in State /\ m.reg = ran.reg /\ m.mem = s2.mem /\ m.home = s2.home
      /\ m.a = s2.a /\ m.c = s2.c /\ m.stale = s2.stale /\ m.misled = s2.misled
      /\ m.ok = ran.ok
  BY <1>1, <1>3 DEF Reach, State
<1> HIDE DEF m
<1>5. ASSUME ~m.misled
      PROVE  Right(m, L, {A})
  <2>1. /\ ~s1.misled /\ ~s2.misled
        /\ \A q \in PhysReg \ {A, B} : s1.reg[q] = s2.reg[q]
        /\ s1.c = s2.c /\ (C \in s1.stale => C \in s2.stale)
    BY <1>3, <1>4, <1>5, Machine DEF Reach, Only
  <2>2. s1.ok /\ Tracks(s1, {}) /\ \A u \in L : At(s1, u)
    BY <1>1, <2>1 DEF Reach, Right
  <2>3. /\ s2.ok /\ Tracks(s2, {}) /\ \A u \in L : At(s2, u)
        /\ \A x \in Var : s2.mem[x] = x
    BY <1>3, <2>1 DEF Reach, Right
  <2>4. Tracks(m, {A})
    BY <1>4, <2>1, <2>2, <2>3, Machine DEF Tracks
  <2>5. s1.home = s2.home
    BY <1>3 DEF Reach, Only
  <2>6. ASSUME NEW u \in L PROVE At(m, u)
    BY <1>4, <2>2, <2>3, <2>5 DEF At
  <2> QED
    BY <1>4, <2>2, <2>3, <2>4, <2>6 DEF Right
<1>6. Right(m, L, {A})
  BY <1>5 DEF Right
<1>7. m.home = s.home /\ Writable(m, d, L)
  <2>1. m.home = s.home
    BY <1>1, <1>3, <1>4 DEF Reach, Only
  <2> QED
    BY <2>1, SameHome
<1>8. Reach(m, Result(m, d), Known(L, d), {A}, {DstReg(m, d)})
  BY <1>4, <1>6, <1>7, ResultRight
<1>9. Reach(Result(m, d), ForgetA(Result(m, d)), Known(L, d), {}, {A})
  BY <1>8, ForgetRight DEF Reach, Writable, Known
<1> QED
  BY <1>2, <1>7, <1>8, <1>9 DEF Reach, Only, Emits

-----------------------------------------------------------------------------
(* Calls and asm statements go through their arguments and results one by   *)
(* one; what is true of the first and of the next is true of all.           *)
LEMMA UpTo ==
  ASSUME NEW n \in Nat, NEW P, 0 \in P, \A i \in 1 .. n : i - 1 \in P => i \in P
  PROVE  0 .. n \subseteq P
<1> DEFINE R == OpToRel(<, Nat)
           T == (0 .. n) \ P
<1>1. SUFFICES ASSUME T # {} PROVE FALSE
  BY <1>1
<1>2. T \subseteq Nat
  OBVIOUS
<1>3. IsWellFoundedOn(R, Nat)
  BY NatLessThanWellFounded
<1> HIDE DEF R, T
<1>4. PICK x \in T : \A y \in T : <<y, x>> \notin R
  BY <1>1, <1>2, <1>3, WFMin
<1>5. \A y \in T : y \in Nat /\ x \in Nat /\ ~(y < x)
  <2>1. \A y \in T : <<y, x>> \notin {ss \in Nat \X Nat : ss[1] < ss[2]}
    BY <1>4 DEF R, OpToRel
  <2> QED
    BY <1>2, <1>4, <2>1
<1>6. x \in 1 .. n
  BY <1>4 DEF T
<1>7. x - 1 \notin T
  <2>1. x - 1 < x
    BY <1>6
  <2> QED
    BY <1>5, <2>1
<1> QED
  BY <1>4, <1>6, <1>7 DEF T

LEMMA LoadArgsSteps ==
  ASSUME NEW s, NEW args, NEW n \in Nat, Len(args) = n
  PROVE  \E f :
           /\ f[0] = s
           /\ \A i \in 1 .. n : f[i] = LoadArg(f[i - 1], i, args[i])
           /\ LoadArgs(s, args) =
                [f[n] EXCEPT !.ok =
                   @ /\ \A i \in DOMAIN args \cap 1 .. NumArgRegs :
                          f[n].reg[ArgReg(i)] = args[i]]
<1> DEFINE Step(h, i) == IF i = 0 THEN s ELSE LoadArg(h[i - 1], i, args[i])
           P == {m \in 0 .. n : \E h : h = [i \in 0 .. m |-> Step(h, i)]}
           f == CHOOSE h : h = [i \in 0 .. n |-> Step(h, i)]
<1>1. 0 \in P
  <2>1. 0 .. 0 = {0}
    OBVIOUS
  <2> DEFINE h == [i \in 0 .. 0 |-> s]
  <2>2. h = [i \in 0 .. 0 |-> Step(h, i)]
    BY <2>1
  <2> HIDE DEF h
  <2> QED
    BY <2>2
<1>2. ASSUME NEW m \in 1 .. n, m - 1 \in P PROVE m \in P
  <2>1. PICK h : h = [i \in 0 .. m - 1 |-> Step(h, i)]
    BY <1>2
  <2> DEFINE g == [i \in 0 .. m |->
                     IF i < m THEN h[i] ELSE LoadArg(h[m - 1], m, args[m])]
  <2>2. ASSUME NEW i \in 0 .. m PROVE g[i] = Step(g, i)
    <3>1. CASE i = 0
      <4>1. 0 \in 0 .. m - 1 /\ 0 \in 0 .. m /\ 0 < m
        BY <1>2
      <4>2. g[0] = h[0]
        BY <4>1
      <4> HIDE DEF g
      <4>3. h[0] = s
        BY <2>1, <4>1
      <4> QED
        BY <3>1, <4>2, <4>3
    <3>2. CASE i # 0
      <4>1. i - 1 \in 0 .. m /\ i - 1 < m
        BY <1>2, <3>2
      <4>2. g[i - 1] = h[i - 1]
        BY <4>1
      <4>3. g[i] = LoadArg(h[i - 1], i, args[i])
        <5>1. CASE i < m
          <6>1. i \in 0 .. m - 1 /\ g[i] = h[i]
            BY <1>2, <5>1
          <6> HIDE DEF g
          <6>2. h[i] = Step(h, i)
            BY <2>1, <6>1
          <6> QED
            BY <3>2, <6>1, <6>2
        <5>2. CASE i = m
          BY <5>2
        <5> QED
          BY <1>2, <5>1, <5>2
      <4> HIDE DEF g
      <4> QED
        BY <3>2, <4>2, <4>3
    <3> QED
      BY <3>1, <3>2
  <2>3. g = [i \in 0 .. m |-> Step(g, i)]
    <3> HIDE DEF Step
    <3>1. g = [i \in 0 .. m |-> g[i]]
      OBVIOUS
    <3> HIDE DEF g
    <3> QED
      BY <2>2, <3>1
  <2> HIDE DEF g
  <2> QED
    BY <1>2, <2>3
<1>3. n \in P
  <2> HIDE DEF P
  <2>1. 0 .. n \subseteq P
    BY <1>1, <1>2, UpTo
  <2> QED
    BY <2>1
<1>4. f = [i \in 0 .. n |-> Step(f, i)]
  BY <1>3
<1>5. LoadArgs(s, args) =
        [f[n] EXCEPT !.ok = @ /\ \A i \in DOMAIN args \cap 1 .. NumArgRegs :
                                  f[n].reg[ArgReg(i)] = args[i]]
  BY DEF LoadArgs
<1> HIDE DEF f
<1>6. f[0] = s /\ \A i \in 1 .. n : f[i] = LoadArg(f[i - 1], i, args[i])
  BY <1>4
<1> QED
  BY <1>5, <1>6

LEMMA StoreResultsSteps ==
  ASSUME NEW s, NEW res, NEW first \in Nat, NEW n \in Nat, Len(res) = n
  PROVE  \E f :
           /\ f[0] = s
           /\ \A i \in 1 .. n : f[i] = StoreOp(f[i - 1], ResultReg(first, i), res[i])
           /\ StoreResults(s, res, first) = f[n]
<1> DEFINE Step(h, i) ==
             IF i = 0 THEN s ELSE StoreOp(h[i - 1], ResultReg(first, i), res[i])
           P == {m \in 0 .. n : \E h : h = [i \in 0 .. m |-> Step(h, i)]}
           f == CHOOSE h : h = [i \in 0 .. n |-> Step(h, i)]
<1>1. 0 \in P
  <2>1. 0 .. 0 = {0}
    OBVIOUS
  <2> DEFINE h == [i \in 0 .. 0 |-> s]
  <2>2. h = [i \in 0 .. 0 |-> Step(h, i)]
    BY <2>1
  <2> HIDE DEF h
  <2> QED
    BY <2>2
<1>2. ASSUME NEW m \in 1 .. n, m - 1 \in P PROVE m \in P
  <2>1. PICK h : h = [i \in 0 .. m - 1 |-> Step(h, i)]
    BY <1>2
  <2> DEFINE g == [i \in 0 .. m |->
                     IF i < m THEN h[i]
                     ELSE StoreOp(h[m - 1], ResultReg(first, m), res[m])]
  <2>2. ASSUME NEW i \in 0 .. m PROVE g[i] = Step(g, i)
    <3>1. CASE i = 0
      <4>1. 0 \in 0 .. m - 1 /\ 0 \in 0 .. m /\ 0 < m
        BY <1>2
      <4>2. g[0] = h[0]
        BY <4>1
      <4> HIDE DEF g
      <4>3. h[0] = s
        BY <2>1, <4>1
      <4> QED
        BY <3>1, <4>2, <4>3
    <3>2. CASE i # 0
      <4>1. i - 1 \in 0 .. m /\ i - 1 < m
        BY <1>2, <3>2
      <4>2. g[i - 1] = h[i - 1]
        BY <4>1
      <4>3. g[i] = StoreOp(h[i - 1], ResultReg(first, i), res[i])
        <5>1. CASE i < m
          <6>1. i \in 0 .. m - 1 /\ g[i] = h[i]
            BY <1>2, <5>1
          <6> HIDE DEF g
          <6>2. h[i] = Step(h, i)
            BY <2>1, <6>1
          <6> QED
            BY <3>2, <6>1, <6>2
        <5>2. CASE i = m
          BY <5>2
        <5> QED
          BY <1>2, <5>1, <5>2
      <4> HIDE DEF g
      <4> QED
        BY <3>2, <4>2, <4>3
    <3> QED
      BY <3>1, <3>2
  <2>3. g = [i \in 0 .. m |-> Step(g, i)]
    <3> HIDE DEF Step
    <3>1. g = [i \in 0 .. m |-> g[i]]
      OBVIOUS
    <3> HIDE DEF g
    <3> QED
      BY <2>2, <3>1
  <2> HIDE DEF g
  <2> QED
    BY <1>2, <2>3
<1>3. n \in P
  <2> HIDE DEF P
  <2>1. 0 .. n \subseteq P
    BY <1>1, <1>2, UpTo
  <2> QED
    BY <2>1
<1>4. f = [i \in 0 .. n |-> Step(f, i)]
  BY <1>3
<1>5. StoreResults(s, res, first) = f[n]
  BY DEF StoreResults
<1> HIDE DEF f
<1>6. f[0] = s /\ \A i \in 1 .. n : f[i] = StoreOp(f[i - 1], ResultReg(first, i), res[i])
  BY <1>4
<1> QED
  BY <1>5, <1>6

(* Each argument goes to its register and stays there, overflow arguments   *)
(* pass through r7.                                                         *)
LEMMA LoadArgsRight ==
  ASSUME NEW s \in State, NEW L \in SUBSET Temp, Right(s, L, {}),
         NEW n \in Nat, NEW args \in [1 .. n -> Source(L)], Len(args) = n
  PROVE  Reach(s, LoadArgs(s, args), L, {}, PhysReg)
<1>1. PICK f :
        /\ f[0] = s
        /\ \A i \in 1 .. n : f[i] = LoadArg(f[i - 1], i, args[i])
        /\ LoadArgs(s, args) =
             [f[n] EXCEPT !.ok =
                @ /\ \A i \in DOMAIN args \cap 1 .. NumArgRegs :
                       f[n].reg[ArgReg(i)] = args[i]]
  BY LoadArgsSteps
<1> DEFINE Loaded(i) ==
             /\ Reach(s, f[i], L, {}, PhysReg)
             /\ \A j \in 1 .. i : j \in 1 .. NumArgRegs => Holds(f[i], j, args[j])
           P == {i \in 0 .. n : Loaded(i)}
<1>2. 0 \in P
  BY <1>1 DEF Reach, Only
<1>3. ASSUME NEW i \in 1 .. n, i - 1 \in P PROVE i \in P
  <2> DEFINE r == IF i <= NumArgRegs THEN i ELSE A
             z == f[i - 1]
  <2>1. NumArgRegs \in Nat /\ i \in Nat
    BY MachineAssumption
  <2>2. /\ Reach(s, z, L, {}, PhysReg)
        /\ \A j \in 1 .. i - 1 : j \in 1 .. NumArgRegs => Holds(z, j, args[j])
    BY <1>3
  <2> HIDE DEF z
  <2>3. r \in PhysReg /\ r \notin Homes(z, L) /\ r \in {i, A}
    BY <2>1, <2>2, HomesApart, Machine DEF Reach
  <2>4. Readable(z, args[i], L)
    BY SourceReadable
  <2>5. f[i] = Uses(LoadOp(z, args[i], r), r, args[i])
    BY <1>1 DEF LoadArg, ArgReg, z
  <2>6. i <= NumArgRegs => r = i
    OBVIOUS
  <2> HIDE DEF r
  <2>7. Reach(z, f[i], L, {}, {r}) /\ Holds(f[i], r, args[i])
    BY <2>2, <2>3, <2>4, <2>5, LoadedRight DEF Reach
  <2>8. Reach(s, f[i], L, {}, PhysReg)
    <3>1. Reach(s, f[i], L, {}, PhysReg \cup {r})
      BY <2>2, <2>7, ReachThen
    <3>2. PhysReg \cup {r} = PhysReg
      BY <2>3
    <3> QED
      BY <3>1, <3>2
  <2>9. ASSUME NEW j \in 1 .. i, j \in 1 .. NumArgRegs PROVE Holds(f[i], j, args[j])
    <3>1. CASE j = i
      BY <2>1, <2>6, <2>7, <2>9, <3>1
    <3>2. CASE j # i
      <4>1. j \in 1 .. i - 1
        BY <2>1, <3>2
      <4>2. j \in PhysReg \ {r}
        BY <2>3, <2>9, <3>2, Machine
      <4> QED
        BY <2>2, <2>7, <2>9, <4>1, <4>2, HoldsKept DEF Reach
    <3> QED
      BY <3>1, <3>2
  <2> QED
    BY <2>8, <2>9
<1>4. n \in P
  <2> HIDE DEF P
  <2>1. 0 .. n \subseteq P
    BY <1>2, <1>3, UpTo
  <2> QED
    BY <2>1
<1> DEFINE z == f[n]
           s2 == [z EXCEPT !.ok = @ /\ \A i \in DOMAIN args \cap 1 .. NumArgRegs :
                                         z.reg[ArgReg(i)] = args[i]]
<1>5. /\ Reach(s, z, L, {}, PhysReg)
      /\ \A j \in 1 .. n : j \in 1 .. NumArgRegs => Holds(z, j, args[j])
  BY <1>4
<1>6. LoadArgs(s, args) = s2
  BY <1>1
<1> HIDE DEF z
<1>7. /\ s2 \in State /\ s2.reg = z.reg /\ s2.mem = z.mem /\ s2.home = z.home
      /\ s2.a = z.a /\ s2.c = z.c /\ s2.stale = z.stale /\ s2.misled = z.misled
      /\ s2.ok <=> z.ok /\ \A i \in DOMAIN args \cap 1 .. NumArgRegs :
                              z.reg[ArgReg(i)] = args[i]
  BY <1>5 DEF Reach, State
<1> HIDE DEF s2
<1>8. ~z.misled => (s2.ok <=> z.ok)
  BY <1>5, <1>7 DEF Holds, ArgReg
<1>9. Right(s2, L, {})
  BY <1>5, <1>7, <1>8 DEF Reach, Right, Tracks, At
<1>10. Only(s, s2, PhysReg)
  BY <1>5, <1>7 DEF Reach, Only
<1> QED
  BY <1>6, <1>7, <1>9, <1>10 DEF Reach

LEMMA LoadFuncRight ==
  ASSUME NEW s \in State, NEW L \in SUBSET Temp, Right(s, L, {}),
         NEW func \in L \cup {NoTemp}
  PROVE  Reach(s, LoadFunc(s, func), L, {}, PhysReg)
<1>1. Only(s, s, PhysReg)
  BY DEF Only
<1>2. CASE func \in Temp
  <2>1. func \in L
    BY <1>2, MachineAssumption
  <2>2. Reach(s, Uses(LoadOp(s, func, A), A, func), L, {}, {A})
    BY <2>1, LoadedRight, ScratchFree DEF Readable, Source
  <2>3. Only(s, Uses(LoadOp(s, func, A), A, func), PhysReg)
    BY <2>2, OnlyMore, ScratchFree DEF Reach
  <2> QED
    BY <1>2, <2>2, <2>3 DEF LoadFunc, Reach
<1>3. CASE func \notin Temp
  BY <1>1, <1>3 DEF LoadFunc, Reach
<1> QED
  BY <1>2, <1>3

-----------------------------------------------------------------------------
(* Results come back in consecutive registers, from the first argument      *)
(* register for a call and from r7 for an asm statement.                    *)
ResultRegs(k, first) ==
  \/ first = 1 /\ k \in 0 .. NumArgRegs
  \/ first = A /\ k \in 0 .. 3

LEMMA ResultRegPlace ==
  ASSUME NEW k \in Nat, NEW first \in Nat, ResultRegs(k, first), NEW i \in 1 .. k
  PROVE  /\ ResultReg(first, i) \in PhysReg /\ ResultReg(first, i) \notin Reg
         /\ \A j \in 1 .. k : j # i => ResultReg(first, j) # ResultReg(first, i)
         /\ \A j \in 1 .. i - 1 : ResultReg(first, i) # A
<1>1. NumArgRegs \in 2 .. 6 /\ \A r \in Reg : r > 9
  BY MachineAssumption
<1>2. k \in Nat /\ first \in Nat /\ ResultReg(first, i) \in Nat
  BY <1>1 DEF ResultRegs, ResultReg, A
<1>3. ResultReg(first, i) <= 9
  BY <1>1 DEF ResultRegs, ResultReg, A
<1>4. ResultReg(first, i) \in 1 .. NumArgRegs \cup {A, B, C}
  BY <1>1 DEF ResultRegs, ResultReg, A, B, C
<1>5. ResultReg(first, i) \in PhysReg
  BY <1>4 DEF PhysReg, Scratch
<1>6. ResultReg(first, i) \notin Reg
  <2>1. ~(ResultReg(first, i) > 9)
    BY <1>2, <1>3
  <2> QED
    BY <1>1, <2>1
<1>7. \A j \in 1 .. k : j # i => ResultReg(first, j) # ResultReg(first, i)
  BY <1>2 DEF ResultReg
<1>8. \A j \in 1 .. i - 1 : ResultReg(first, i) # A
  BY <1>1 DEF ResultRegs, ResultReg, A
<1> QED
  BY <1>2, <1>5, <1>6, <1>7, <1>8

(* What a callee or an asm text leaves of the Temps it does not disturb.    *)
LEMMA DestroyRight ==
  ASSUME NEW s \in State, NEW L \in SUBSET Temp, NEW U, Right(s, L, U),
         s.a = NoTemp \/ A \in U, s.c = NoTemp \/ C \in U,
         NEW lost, \A t \in L : s.home[t] \notin lost,
         NEW k \in Nat, NEW first \in Nat, ResultRegs(k, first),
         NEW res \in [1 .. k -> Temp]
  PROVE  /\ Reach(s, Destroy(s, lost, res, first), L, U, PhysReg)
         /\ \A i \in 1 .. k :
              Holds(Destroy(s, lost, res, first), ResultReg(first, i), res[i])
<1> DEFINE At1(r) == IF r - first + 1 \in DOMAIN res THEN res[r - first + 1]
                     ELSE IF r \in lost \cup Scratch \cup 1 .. NumArgRegs THEN Junk
                     ELSE s.reg[r]
           s2 == [s EXCEPT !.reg = [r \in PhysReg |-> At1(r)]]
<1>1. Destroy(s, lost, res, first) = s2
  BY DEF Destroy
<1>2. \A r \in PhysReg : At1(r) \in Token
  BY DEF State, Token, Operand
<1>3. ASSUME NEW r \in Reg, r \notin lost PROVE At1(r) = s.reg[r]
  <2>1. r \in Nat /\ r > 9 /\ NumArgRegs \in 2 .. 6
    BY MachineAssumption, RegisterAssumption DEF Reg
  <2>2. r - first + 1 \notin 1 .. k
    BY <2>1 DEF ResultRegs, A
  <2>3. r \notin lost \cup Scratch \cup 1 .. NumArgRegs
    BY <1>3, <2>1 DEF Scratch, A, B, C
  <2> QED
    BY <2>2, <2>3
<1>4. ASSUME NEW i \in 1 .. k PROVE At1(ResultReg(first, i)) = res[i]
  <2>1. first \in Int /\ i \in Int
    BY DEF ResultRegs, A
  <2>2. ResultReg(first, i) - first + 1 = i
    BY <2>1 DEF ResultReg
  <2> QED
    BY <2>2
<1> HIDE DEF At1
<1>5. /\ s2 \in State /\ \A r \in PhysReg : s2.reg[r] = At1(r)
      /\ s2.mem = s.mem /\ s2.home = s.home
      /\ s2.a = s.a /\ s2.c = s.c /\ s2.stale = s.stale /\ s2.misled = s.misled
      /\ s2.ok = s.ok
  BY <1>2 DEF State
<1> HIDE DEF s2
<1>6. ASSUME ~s2.misled PROVE Right(s2, L, U)
  <2>1. s.ok /\ (\A u \in L : At(s, u)) /\ \A x \in Var : s.mem[x] = x
    BY <1>5, <1>6 DEF Right
  <2>2. Tracks(s2, U)
    BY <1>5 DEF Tracks
  <2>3. ASSUME NEW u \in L PROVE At(s2, u)
    <3>1. s.home[u] \in Reg \cup {Spilled} /\ s.home[u] \notin lost
      BY DEF State
    <3>2. s.home[u] \in Reg => s2.reg[s.home[u]] = s.reg[s.home[u]]
      BY <1>3, <1>5, <3>1, Machine
    <3> QED
      BY <1>5, <2>1, <3>1, <3>2 DEF At
  <2> QED
    BY <1>5, <2>1, <2>2, <2>3 DEF Right
<1>7. Right(s2, L, U)
  BY <1>6 DEF Right
<1>8. Only(s, s2, PhysReg)
  BY <1>5, Machine DEF Only
<1>9. \A i \in 1 .. k : Holds(s2, ResultReg(first, i), res[i])
  BY <1>4, <1>5, ResultRegPlace DEF Holds
<1> QED
  BY <1>1, <1>5, <1>7, <1>8, <1>9 DEF Reach

(* Results that need no register of each other's nor of a Temp of L.        *)
Targets(s, res, k, L) ==
  /\ res \in [1 .. k -> Temp] /\ Len(res) = k
  /\ \A i \in 1 .. k : res[i] \notin L
  /\ \A i, j \in 1 .. k : i # j => res[i] # res[j]
  /\ \A i \in 1 .. k :
       \/ s.home[res[i]] = Spilled
       \/ /\ s.home[res[i]] \notin Homes(s, L)
          /\ \A j \in 1 .. k : j # i => s.home[res[j]] # s.home[res[i]]

KnownAll(L, res, k) == L \cup {res[i] : i \in 1 .. k}

LEMMA StoreResultsRight ==
  ASSUME NEW s \in State, NEW L \in SUBSET Temp, NEW U, Right(s, L, U),
         NEW k \in Nat, NEW first \in Nat, ResultRegs(k, first),
         NEW res, Targets(s, res, k, L),
         \A i \in 1 .. k : Holds(s, ResultReg(first, i), res[i])
  PROVE  /\ StoreResults(s, res, first) \in State
         /\ StoreResults(s, res, first).home = s.home
         /\ Right(StoreResults(s, res, first), KnownAll(L, res, k), U)
<1>1. Len(res) = k
  BY DEF Targets
<1>2. PICK f : /\ f[0] = s
               /\ \A i \in 1 .. k :
                    f[i] = StoreOp(f[i - 1], ResultReg(first, i), res[i])
               /\ StoreResults(s, res, first) = f[k]
  BY <1>1, StoreResultsSteps
<1> DEFINE Got(i) == KnownAll(L, res, i)
           Stored(i) == /\ f[i] \in State /\ f[i].home = s.home
                        /\ Right(f[i], Got(i), U)
                        /\ \A j \in 1 .. k :
                             j > i => Holds(f[i], ResultReg(first, j), res[j])
           P == {i \in 0 .. k : Stored(i)}
<1>3. 0 \in P
  <2>1. Got(0) = L
    BY DEF KnownAll
  <2> HIDE DEF Got
  <2> QED
    BY <1>1, <1>2, <2>1
<1>4. ASSUME NEW i \in 1 .. k, i - 1 \in P PROVE i \in P
  <2> DEFINE z == f[i - 1]
             r == ResultReg(first, i)
             K == Got(i - 1)
             s2 == StoreOp(z, r, res[i])
  <2>1. /\ z \in State /\ z.home = s.home /\ Right(z, K, U)
        /\ \A j \in 1 .. k : j > i - 1 => Holds(z, ResultReg(first, j), res[j])
    BY <1>4
  <2>2. f[i] = s2
    BY <1>2
  <2>3. /\ r \in PhysReg
        /\ \A j \in 1 .. k : j # i => ResultReg(first, j) # r
        /\ \A j \in 1 .. k : j > i => ResultReg(first, j) # A
        /\ \A j \in 1 .. k : j > i => ResultReg(first, j) \in PhysReg
        /\ \A j \in 1 .. k : j > i => ResultReg(first, j) \notin Reg
    <3>1. \A j \in 1 .. k : j > i => i \in 1 .. j - 1
      BY <1>1
    <3> QED
      BY <3>1, ResultRegPlace
  <2>4. K \in SUBSET Temp /\ res[i] \in Temp
    <3>1. \A j \in 1 .. i - 1 : j \in 1 .. k
      BY <1>1
    <3> QED
      BY <3>1 DEF Targets, KnownAll
  <2>5. Writable(z, res[i], K)
    <3>1. \A j \in 1 .. i - 1 : j \in 1 .. k /\ j # i
      BY <1>1
    <3>2. res[i] \notin K
      BY <3>1 DEF Targets, KnownAll
    <3>3. ASSUME z.home[res[i]] # Spilled
          PROVE  z.home[res[i]] \notin Homes(z, K)
      <4>1. /\ s.home[res[i]] \notin Homes(s, L)
            /\ \A j \in 1 .. k : j # i => s.home[res[j]] # s.home[res[i]]
        BY <2>1, <3>3 DEF Targets
      <4> QED
        BY <2>1, <3>1, <4>1 DEF Homes, KnownAll
    <3> QED
      BY <2>4, <3>2, <3>3 DEF Writable
  <2>6. i > i - 1 /\ Known(K, res[i]) = Got(i)
    <3>1. 1 .. i = (1 .. i - 1) \cup {i} /\ i > i - 1
      BY <1>1
    <3> QED
      BY <2>4, <3>1 DEF Known, KnownAll
  <2> HIDE DEF z, r, K, Got
  <2>7. Holds(z, r, res[i])
    BY <2>1, <2>6 DEF r
  <2>8. Reach(z, s2, Got(i), U \ {r}, {r, DstReg(z, res[i])})
    BY <2>1, <2>3, <2>4, <2>5, <2>6, <2>7, StoreRight
  <2> HIDE DEF s2
  <2>9. Right(s2, Got(i), U)
    BY <2>8, RightLess DEF Reach
  <2>10. ASSUME NEW j \in 1 .. k, j > i PROVE Holds(s2, ResultReg(first, j), res[j])
    <3>1. ResultReg(first, j) \in PhysReg \ {r, DstReg(z, res[i])}
      <4>1. DstReg(z, res[i]) \in Reg \cup {A}
        BY <2>1, <2>4, <2>5, DstRegPlace
      <4>2. j # i
        BY <1>1, <2>10
      <4> QED
        BY <2>3, <2>10, <4>1, <4>2
    <3>2. Holds(z, ResultReg(first, j), res[j])
      <4>1. j > i - 1
        BY <1>1, <2>10
      <4> QED
        BY <2>1, <4>1
    <3> QED
      BY <2>8, <3>1, <3>2, HoldsKept DEF Reach
  <2>11. s2 \in State /\ s2.home = s.home
    BY <2>1, <2>8 DEF Reach, Only
  <2>12. Stored(i)
    BY <2>2, <2>9, <2>10, <2>11
  <2> HIDE DEF Stored
  <2> QED
    BY <1>1, <2>12
<1>5. k \in P
  <2> HIDE DEF P
  <2>1. 0 .. k \subseteq P
    BY <1>1, <1>3, <1>4, UpTo
  <2> QED
    BY <1>1, <2>1
<1> QED
  BY <1>2, <1>5

LEMMA CallRight ==
  ASSUME NEW s \in State, NEW L \in SUBSET Temp, Right(s, L, {}),
         NEW n \in Nat, NEW args \in [1 .. n -> Source(L)], Len(args) = n,
         NEW func \in L \cup {NoTemp},
         NEW K \in SUBSET L, \A t \in K : s.home[t] \notin CallerSaved,
         NEW k \in Nat, ResultRegs(k, 1), NEW res, Targets(s, res, k, K)
  PROVE  Emits(s, GenCall(s, res, func, args), KnownAll(K, res, k))
<1> DEFINE z1 == LoadArgs(s, args)
           z2 == LoadFunc(z1, func)
           z3 == Destroy(z2, CallerSaved, res, 1)
           z4 == StoreResults(z3, res, 1)
           Got == KnownAll(K, res, k)
<1>1. Reach(s, z1, L, {}, PhysReg)
  BY LoadArgsRight
<1>2. GenCall(s, res, func, args) = Invalidate(z4)
  BY DEF GenCall
<1> HIDE DEF z1
<1>3. Reach(z1, z2, L, {}, PhysReg)
  BY <1>1, LoadFuncRight DEF Reach
<1> HIDE DEF z2
<1>4. Right(z2, K, {A, C}) /\ z2.home = s.home /\ z2 \in State
  BY <1>1, <1>3, RightLess DEF Reach, Only
<1>5. res \in [1 .. k -> Temp] /\ K \in SUBSET Temp
  BY DEF Targets
<1>6. /\ Reach(z2, z3, K, {A, C}, PhysReg)
      /\ \A i \in 1 .. k : Holds(z3, ResultReg(1, i), res[i])
  BY <1>4, <1>5, DestroyRight
<1> HIDE DEF z3
<1>7. z3 \in State /\ z3.home = s.home /\ Right(z3, K, {A, C})
  BY <1>4, <1>6 DEF Reach, Only
<1>8. Targets(z3, res, k, K)
  BY <1>7 DEF Targets, Homes
<1>9. z4 \in State /\ z4.home = s.home /\ Right(z4, Got, {A, C})
  BY <1>5, <1>6, <1>7, <1>8, StoreResultsRight
<1> HIDE DEF z4
<1>10. Got \in SUBSET Temp
  BY <1>5 DEF KnownAll
<1>11. Reach(z4, Invalidate(z4), Got, {}, {A, C})
  BY <1>9, <1>10, InvalidateRight
<1> QED
  BY <1>2, <1>9, <1>11 DEF Reach, Only, Emits

(* An asm statement starts with nothing tracked.                            *)
LEMMA InvalidateFields ==
  ASSUME NEW s \in State, NEW L \in SUBSET Temp, Right(s, L, {})
  PROVE  /\ Reach(s, Invalidate(s), L, {}, {A, C})
         /\ Invalidate(s).a = NoTemp /\ Invalidate(s).c = NoTemp
<1>1. ForgetA(s) \in State /\ ForgetA(s).a = NoTemp
  BY TrackFields DEF ForgetA
<1>2. Invalidate(s).a = NoTemp /\ Invalidate(s).c = NoTemp
  BY <1>1, TrackFields, Machine DEF Invalidate
<1> QED
  BY <1>2, InvalidateRight

LEMMA AsmRight ==
  ASSUME NEW s \in State, NEW L \in SUBSET Temp, Right(s, L, {}), NEW clobbers,
         NEW K \in SUBSET L, \A t \in K : s.home[t] \notin clobbers,
         NEW k \in Nat, ResultRegs(k, A), NEW outs, Targets(s, outs, k, K)
  PROVE  Emits(s, GenAsm(s, outs, clobbers), KnownAll(K, outs, k))
<1> DEFINE z1 == Invalidate(s)
           z2 == Destroy(z1, clobbers, outs, A)
           z3 == StoreResults(z2, outs, A)
<1>1. Reach(s, z1, L, {}, {A, C}) /\ z1.a = NoTemp /\ z1.c = NoTemp
  BY InvalidateFields
<1>2. GenAsm(s, outs, clobbers) = z3
  BY DEF GenAsm
<1> HIDE DEF z1
<1>3. Right(z1, K, {}) /\ z1.home = s.home /\ z1 \in State
  BY <1>1, RightLess DEF Reach, Only
<1>4. outs \in [1 .. k -> Temp] /\ K \in SUBSET Temp /\ A \in Nat
  BY DEF Targets, A
<1>5. /\ Reach(z1, z2, K, {}, PhysReg)
      /\ \A i \in 1 .. k : Holds(z2, ResultReg(A, i), outs[i])
  BY <1>1, <1>3, <1>4, DestroyRight
<1> HIDE DEF z2
<1>6. z2 \in State /\ z2.home = s.home /\ Right(z2, K, {})
  BY <1>3, <1>5 DEF Reach, Only
<1>7. Targets(z2, outs, k, K)
  BY <1>6 DEF Targets, Homes
<1> QED
  BY <1>2, <1>4, <1>5, <1>6, <1>7, StoreResultsRight DEF Emits

LEMMA LabelRight ==
  ASSUME NEW s, NEW s1 \in State, s1.home = s.home, NEW L \in SUBSET Temp,
         Right(s1, L, {})
  PROVE  Emits(s, GenLabel(s1), L)
<1> DEFINE z1 == Invalidate(s1)
           z2 == Destroy(z1, {}, <<>>, 1)
<1>1. Reach(s1, z1, L, {}, {A, C}) /\ z1.a = NoTemp /\ z1.c = NoTemp
  BY InvalidateFields
<1>2. GenLabel(s1) = z2
  BY DEF GenLabel
<1> HIDE DEF z1
<1>3. <<>> \in [1 .. 0 -> Temp] /\ ResultRegs(0, 1) /\ 0 \in Nat /\ 1 \in Nat
  BY MachineAssumption DEF ResultRegs
<1>4. Reach(z1, z2, L, {}, PhysReg)
  BY <1>1, <1>3, DestroyRight DEF Reach
<1> QED
  BY <1>1, <1>2, <1>4 DEF Reach, Only, Emits

LEMMA ReturnRight ==
  ASSUME NEW s \in State, NEW L \in SUBSET Temp, Right(s, L, {}),
         NEW l \in Source(L)
  PROVE  Emits(s, GenRet(s, l), L)
<1> DEFINE z == Uses(SrcLoad(s, l, ArgReg(1)), SrcReg(s, l, ArgReg(1)), l)
<1>1. 1 \in PhysReg /\ 1 \notin Homes(s, L)
  BY HomesApart, Machine, MachineAssumption
<1>2. Reach(s, z, L, {}, {1})
  BY <1>1, ReadRight, SourceReadable DEF ArgReg
<1>3. GenRet(s, l) = GenLabel(z)
  BY DEF GenRet
<1> HIDE DEF z
<1> QED
  BY <1>2, <1>3, LabelRight DEF Reach, Only

LEMMA LongReturnRight ==
  ASSUME NEW s \in State, NEW L \in SUBSET Temp, Right(s, L, {}),
         NEW src, src.lo \in Source(L), src.hi \in Source(L)
  PROVE  Emits(s, GenLongRet(s, src), L)
  BY LoadBothRight, LabelRight DEF GenLongRet, Reach, Only

-----------------------------------------------------------------------------
(* Between instructions: the registers that were given to the Temps defined *)
(* here, and what is dropped when others die.                               *)
ApartIn(s, L) ==
  \A t, u \in L : s.home[t] = s.home[u] => t = u \/ s.home[t] = Spilled

LEMMA AllocatedRight ==
  ASSUME TypeOK, Apart, Right(e, live, {}),
         NEW defs \in SUBSET Fresh, NEW s \in Allocated(defs)
  PROVE  /\ s \in State /\ live \in SUBSET Temp /\ Right(s, live, {})
         /\ \A t \in live : s.home[t] = e.home[t]
         /\ ApartIn(s, live \cup defs)
         /\ \A d \in defs : /\ d \in Temp \ live
                            /\ s.home[d] = Spilled \/ s.home[d] \notin Homes(s, live)
<1> DEFINE free == Reg \ {e.home[t] : t \in live}
<1>1. PICK h \in [defs -> free \cup {Spilled}] :
        /\ \A t, u \in defs : h[t] = h[u] => t = u \/ h[t] = Spilled
        /\ s = [e EXCEPT !.home = [t \in Temp |-> IF t \in defs THEN h[t] ELSE e.home[t]]]
  BY DEF Allocated
<1>2. /\ e \in State /\ live \in SUBSET Temp /\ defs \subseteq Temp
      /\ \A d \in defs : d \notin live
  BY DEF TypeOK, Fresh
<1>3. [t \in Temp |-> IF t \in defs THEN h[t] ELSE e.home[t]]
        \in [Temp -> Reg \cup {Spilled}]
  BY <1>2 DEF State
<1>4. /\ s \in State /\ s.reg = e.reg /\ s.mem = e.mem /\ s.a = e.a /\ s.c = e.c
      /\ s.stale = e.stale /\ s.misled = e.misled /\ s.ok = e.ok
      /\ \A t \in Temp : s.home[t] = IF t \in defs THEN h[t] ELSE e.home[t]
  BY <1>1, <1>2, <1>3 DEF State
<1>5. /\ \A t \in live : s.home[t] = e.home[t]
      /\ \A d \in defs : s.home[d] = h[d]
  BY <1>2, <1>4
<1>6. Right(s, live, {})
  BY <1>4, <1>5 DEF Right, Tracks, At
<1>7. ASSUME NEW d \in defs, s.home[d] # Spilled
      PROVE  s.home[d] \notin Homes(s, live)
  BY <1>5, <1>7 DEF Homes
<1>8. ApartIn(s, live \cup defs)
  BY <1>1, <1>5, <1>7 DEF ApartIn, Apart, Homes
<1> QED
  BY <1>2, <1>4, <1>5, <1>6, <1>7, <1>8

LEMMA SettleFields ==
  ASSUME NEW s \in State, NEW alive \in SUBSET Temp
  PROVE  LET s2 == Settle(s, alive) IN
         /\ s2 \in State
         /\ \A x \in Var : s2.mem[x] = s.mem[x]
         /\ \A t \in alive : s2.home[t] = s.home[t]
         /\ \A t \in Temp \ alive : s2.home[t] = Spilled
         /\ \A t \in alive, x \in Temp \cup Var : s.mem[x] = t => s2.mem[x] = t
         /\ \A t \in alive, r \in Reg : s.reg[r] = t => s2.reg[r] = t
         /\ s.a # NoTemp /\ s.reg[A] = s.a => s2.reg[A] = s.a
         /\ s.c # NoTemp /\ s.reg[C] = s.c => s2.reg[C] = s.c
         /\ s2.a = s.a /\ s2.c = s.c /\ s2.stale = s.stale
         /\ s2.misled = s.misled /\ s2.ok = s.ok
<1> DEFINE known == alive \cup {s.a, s.c}
           Kept(tok) == IF tok \in known \cap Temp THEN tok ELSE Junk
           RegOf(r) == IF \/ r \in Reg
                          \/ r = A /\ s.a # NoTemp
                          \/ r = C /\ s.c # NoTemp
                         THEN Kept(s.reg[r]) ELSE Junk
           MemOf(x) == IF x \in Var THEN s.mem[x] ELSE Kept(s.mem[x])
           s2 == [s EXCEPT
                   !.reg = [r \in PhysReg |-> RegOf(r)],
                   !.mem = [x \in Temp \cup Var |-> MemOf(x)],
                   !.home = [t \in Temp |-> IF t \in alive THEN s.home[t] ELSE Spilled]]
<1>1. Settle(s, alive) = s2
  BY DEF Settle
<1>2. s.a \in Temp \cup {NoTemp} /\ s.c \in Temp \cup {NoTemp}
  BY DEF State
<1>3. /\ \A r \in PhysReg : RegOf(r) \in Token
      /\ \A x \in Temp \cup Var : MemOf(x) \in Token
  BY DEF State, Token, Operand
<1>4. \A t \in alive, x \in Temp \cup Var : s.mem[x] = t => MemOf(x) = t
  OBVIOUS
<1>5. \A t \in alive, r \in Reg : s.reg[r] = t => RegOf(r) = t
  OBVIOUS
<1>6. /\ s.a # NoTemp /\ s.reg[A] = s.a => RegOf(A) = s.a
      /\ s.c # NoTemp /\ s.reg[C] = s.c => RegOf(C) = s.c
  BY <1>2
<1>7. \A x \in Var : MemOf(x) = s.mem[x]
  OBVIOUS
<1> HIDE DEF RegOf, MemOf
<1>8. /\ s2 \in State
      /\ \A r \in PhysReg : s2.reg[r] = RegOf(r)
      /\ \A x \in Temp \cup Var : s2.mem[x] = MemOf(x)
      /\ \A t \in Temp : s2.home[t] = IF t \in alive THEN s.home[t] ELSE Spilled
      /\ s2.a = s.a /\ s2.c = s.c /\ s2.stale = s.stale
      /\ s2.misled = s.misled /\ s2.ok = s.ok
  BY <1>3 DEF State
<1> HIDE DEF s2
<1>9. \A r \in Reg \cup {A, C} : r \in PhysReg
  BY Machine
<1>10. /\ \A x \in Var : s2.mem[x] = s.mem[x]
       /\ \A t \in alive : s2.home[t] = s.home[t]
       /\ \A t \in Temp \ alive : s2.home[t] = Spilled
  BY <1>7, <1>8
<1>11. /\ \A t \in alive, x \in Temp \cup Var : s.mem[x] = t => s2.mem[x] = t
       /\ \A t \in alive, r \in Reg : s.reg[r] = t => s2.reg[r] = t
  BY <1>4, <1>5, <1>8, <1>9
<1>12. /\ s.a # NoTemp /\ s.reg[A] = s.a => s2.reg[A] = s.a
       /\ s.c # NoTemp /\ s.reg[C] = s.c => s2.reg[C] = s.c
  BY <1>6, <1>8, <1>9
<1> QED
  BY <1>1, <1>8, <1>10, <1>11, <1>12

LEMMA SettleRight ==
  ASSUME NEW s \in State, NEW alive \in SUBSET Temp, NEW L \in SUBSET alive,
         Right(s, L, {})
  PROVE  Right(Settle(s, alive), L, {})
<1> DEFINE s2 == Settle(s, alive)
<1>1. /\ \A x \in Var : s2.mem[x] = s.mem[x]
      /\ \A t \in alive : s2.home[t] = s.home[t]
      /\ \A t \in alive, x \in Temp \cup Var : s.mem[x] = t => s2.mem[x] = t
      /\ \A t \in alive, r \in Reg : s.reg[r] = t => s2.reg[r] = t
      /\ s.a # NoTemp /\ s.reg[A] = s.a => s2.reg[A] = s.a
      /\ s.c # NoTemp /\ s.reg[C] = s.c => s2.reg[C] = s.c
      /\ s2.a = s.a /\ s2.c = s.c /\ s2.stale = s.stale
      /\ s2.misled = s.misled /\ s2.ok = s.ok
  BY SettleFields
<1> HIDE DEF s2
<1>2. ASSUME ~s2.misled PROVE Right(s2, L, {})
  <2>1. /\ s.ok /\ Tracks(s, {}) /\ \A u \in L : At(s, u)
        /\ \A x \in Var : s.mem[x] = x
    BY <1>1, <1>2 DEF Right
  <2>2. Tracks(s2, {})
    BY <1>1, <2>1 DEF Tracks
  <2>3. ASSUME NEW u \in L PROVE At(s2, u)
    <3>1. s.home[u] \in Reg \cup {Spilled} /\ u \in alive /\ u \in Temp
      BY DEF State
    <3> QED
      BY <1>1, <2>1, <3>1 DEF At
  <2> QED
    BY <1>1, <2>1, <2>2, <2>3 DEF Right
<1>3. Right(s2, L, {})
  BY <1>2 DEF Right
<1> QED
  BY <1>3 DEF s2

(* Every instruction but va_start ends so: what follows needs nothing from  *)
(* r7 alone.                                                                *)
LEMMA AfterInv ==
  ASSUME TypeOK, NEW h \in State, NEW used, NEW defs \in SUBSET Temp,
         After(h, used, defs), NEW K \in SUBSET Temp, live' \subseteq K,
         Right(h, K, {}), ApartIn(h, live')
  PROVE  IInv'
<1>1. live' \in SUBSET Temp
  OBVIOUS
<1>2. e' = Settle(h, live') /\ due' = NoTemp
  BY DEF After
<1>3. /\ e' \in State
      /\ \A t \in live' : e'.home[t] = h.home[t]
      /\ \A t \in Temp \ live' : e'.home[t] = Spilled
  BY <1>1, <1>2, SettleFields
<1>4. TypeOK'
  BY <1>1, <1>2, <1>3 DEF TypeOK
<1>5. Right(e', live' \ {due'}, {})
  <2>1. Right(h, live', {})
    BY RightLess
  <2>2. Right(e', live', {})
    BY <1>1, <1>2, <2>1, SettleRight
  <2> QED
    BY <2>2, RightLess
<1>6. Apart'
  BY <1>3 DEF Apart, ApartIn
<1>7. Unassigned'
  BY <1>3 DEF Unassigned
<1>8. DueInA'
  BY <1>2 DEF DueInA
<1> QED
  BY <1>4, <1>5, <1>6, <1>7, <1>8 DEF IInv

LEMMA AfterWithin ==
  ASSUME NEW h, NEW used, NEW defs, After(h, used, defs)
  PROVE  live' \subseteq live \cup defs /\ due \notin live'
  BY DEF After

(* The state an instruction starts in.                                      *)
LEMMA Ready ==
  ASSUME IInv, due = NoTemp
  PROVE  /\ TypeOK /\ Apart /\ e \in State /\ live \in SUBSET Temp
         /\ Right(e, live, {}) /\ Ops = Source(live)
<1>1. TypeOK /\ Apart /\ Right(e, live \ {due}, {})
  BY DEF IInv
<1>2. live \ {due} = live
  BY <1>1, MachineAssumption DEF TypeOK
<1> QED
  BY <1>1, <1>2 DEF TypeOK, Ops, Source

LEMMA EmitInv ==
  ASSUME IInv, NEW defs \in SUBSET Fresh, NEW s \in Allocated(defs),
         NEW h, Emits(s, h, live \cup defs), NEW used, Emit(h, used, defs)
  PROVE  IInv'
<1>1. due = NoTemp /\ After(h, used, defs)
  BY DEF Emit
<1>2. TypeOK /\ Apart /\ Right(e, live, {}) /\ live \in SUBSET Temp
  BY <1>1, Ready
<1>3. ApartIn(s, live \cup defs) /\ defs \in SUBSET Temp
  BY <1>2, AllocatedRight DEF Fresh
<1>4. live' \subseteq live \cup defs
  BY <1>1, AfterWithin
<1>5. h \in State /\ Right(h, live \cup defs, {}) /\ ApartIn(h, live')
  BY <1>3, <1>4 DEF Emits, ApartIn
<1>6. live \cup defs \in SUBSET Temp
  BY <1>2, <1>3
<1> QED
  BY <1>1, <1>2, <1>3, <1>4, <1>5, <1>6, AfterInv

LEMMA EmitNoneInv ==
  ASSUME IInv, NEW h, Emits(e, h, live), NEW used, Emit(h, used, {})
  PROVE  IInv'
<1>1. due = NoTemp /\ After(h, used, {})
  BY DEF Emit
<1>2. TypeOK /\ Apart /\ live \in SUBSET Temp
  BY <1>1, Ready
<1>3. live' \subseteq live
  BY <1>1, AfterWithin
<1>4. h \in State /\ Right(h, live, {}) /\ ApartIn(h, live')
  BY <1>2, <1>3 DEF Emits, ApartIn, Apart
<1> QED
  BY <1>1, <1>2, <1>3, <1>4, AfterInv

LEMMA ReadyOne ==
  ASSUME IInv, due = NoTemp, NEW d \in Fresh, NEW s \in Allocated({d})
  PROVE  /\ s \in State /\ live \in SUBSET Temp /\ Right(s, live, {})
         /\ Writable(s, d, live) /\ Known(live, d) = live \cup {d}
         /\ Ops = Source(live) /\ {d} \in SUBSET Fresh
<1>1. {d} \in SUBSET Fresh /\ d \in Temp
  BY DEF Fresh
<1>2. TypeOK /\ Apart /\ Right(e, live, {}) /\ Ops = Source(live)
  BY Ready
<1>3. /\ s \in State /\ live \in SUBSET Temp /\ Right(s, live, {})
      /\ d \in Temp \ live
      /\ s.home[d] = Spilled \/ s.home[d] \notin Homes(s, live)
  BY <1>1, <1>2, AllocatedRight
<1> QED
  BY <1>1, <1>2, <1>3 DEF Writable, Known

LEMMA ReadyTwo ==
  ASSUME IInv, due = NoTemp, NEW lo \in Fresh, NEW hi \in Fresh, lo # hi,
         NEW s \in Allocated({lo, hi})
  PROVE  /\ s \in State /\ live \in SUBSET Temp /\ Right(s, live, {})
         /\ Writable(s, lo, live) /\ Writable(s, hi, Known(live, lo))
         /\ Known(Known(live, lo), hi) = live \cup {lo, hi}
         /\ Ops = Source(live) /\ {lo, hi} \in SUBSET Fresh
<1>1. {lo, hi} \in SUBSET Fresh /\ lo \in Temp /\ hi \in Temp
  BY DEF Fresh
<1>2. TypeOK /\ Apart /\ Right(e, live, {}) /\ Ops = Source(live)
  BY Ready
<1>3. /\ s \in State /\ live \in SUBSET Temp /\ Right(s, live, {})
      /\ lo \in Temp \ live /\ hi \in Temp \ live
      /\ s.home[lo] = Spilled \/ s.home[lo] \notin Homes(s, live)
      /\ s.home[hi] = Spilled \/ s.home[hi] \notin Homes(s, live)
      /\ s.home[lo] = s.home[hi] => s.home[lo] = Spilled
  BY <1>1, <1>2, AllocatedRight DEF ApartIn
<1>4. Known(live, lo) = live \cup {lo}
  BY <1>1 DEF Known
<1>5. Writable(s, hi, Known(live, lo))
  <2>1. s.home[hi] # Spilled => s.home[hi] \notin Homes(s, live \cup {lo})
    BY <1>3 DEF Homes
  <2> QED
    BY <1>3, <1>4, <2>1 DEF Writable
<1>6. Known(Known(live, lo), hi) = live \cup {lo, hi}
  BY <1>1, <1>4 DEF Known
<1> QED
  BY <1>1, <1>2, <1>3, <1>5, <1>6 DEF Writable

LEMMA PairsSource ==
  ASSUME NEW L, Ops = Source(L), NEW v \in Pairs
  PROVE  v.lo \in Source(L) /\ v.hi \in Source(L)
  BY DEF Pairs

LEMMA Addresses ==
  ASSUME NEW addr \in live \cup LongVar \cup Label
  PROVE  addr \in Source(live)
  BY MachineAssumption DEF Source

LEMMA OneWordInv ==
  ASSUME IInv, Const \/ Copy \/ Load \/ Binop \/ Unary
  PROVE  IInv'
<1>1. CASE Const
  <2>1. PICK d \in Fresh : \E s \in Allocated({d}) : Emit(GenConst(s, d), {}, {d})
    BY <1>1 DEF Const
  <2>2. PICK s \in Allocated({d}) : Emit(GenConst(s, d), {}, {d})
    BY <2>1
  <2> QED
    BY <2>2, ReadyOne, ConstRight, EmitInv DEF Emit
<1>2. CASE Copy
  <2>1. PICK d \in Fresh, src \in Ops :
          \E s \in Allocated({d}) : Emit(GenCopy(s, d, src), {src}, {d})
    BY <1>2 DEF Copy
  <2>2. PICK s \in Allocated({d}) : Emit(GenCopy(s, d, src), {src}, {d})
    BY <2>1
  <2> QED
    BY <2>2, ReadyOne, CopyRight, EmitInv DEF Emit
<1>3. CASE Load
  <2>1. PICK d \in Fresh, addr \in Ops :
          \E s \in Allocated({d}) : \/ Emit(GenLoad(s, d, addr), {addr}, {d})
                                    \/ Emit(GenVaArg(s, d, addr), {addr}, {d})
    BY <1>3 DEF Load
  <2>2. PICK s \in Allocated({d}) : \/ Emit(GenLoad(s, d, addr), {addr}, {d})
                                    \/ Emit(GenVaArg(s, d, addr), {addr}, {d})
    BY <2>1
  <2> QED
    BY <2>2, ReadyOne, LoadFromRight, EmitInv DEF Emit
<1>4. CASE Binop
  <2>1. PICK d \in Fresh, l \in Ops, r \in Ops, threeOp \in BOOLEAN :
          \E s \in Allocated({d}) : Emit(GenBinop(s, d, l, r, threeOp), {l, r}, {d})
    BY <1>4 DEF Binop
  <2>2. PICK s \in Allocated({d}) : Emit(GenBinop(s, d, l, r, threeOp), {l, r}, {d})
    BY <2>1
  <2> QED
    BY <2>2, ReadyOne, BinopRight, EmitInv DEF Emit
<1>5. CASE Unary
  <2>1. PICK d \in Fresh, src \in Ops :
          \E s \in Allocated({d}) : Emit(GenUnary(s, d, src), {src}, {d})
    BY <1>5 DEF Unary
  <2>2. PICK s \in Allocated({d}) : Emit(GenUnary(s, d, src), {src}, {d})
    BY <2>1
  <2> QED
    BY <2>2, ReadyOne, UnaryRight, EmitInv DEF Emit
<1> QED
  BY <1>1, <1>2, <1>3, <1>4, <1>5

LEMMA CompareInv ==
  ASSUME IInv, Compare
  PROVE  IInv'
<1>1. PICK l \in Ops, r \in Ops :
        \/ Emit(GenFused(e, l, r), {l, r}, {})
        \/ \E d \in Fresh : \E s \in Allocated({d}) :
             Emit(GenCompare(s, d, l, r), {l, r}, {d})
  BY DEF Compare
<1>2. CASE Emit(GenFused(e, l, r), {l, r}, {})
  BY <1>2, Ready, BranchesRight, EmitNoneInv DEF Emit
<1>3. ASSUME NEW d \in Fresh, NEW s \in Allocated({d}),
             Emit(GenCompare(s, d, l, r), {l, r}, {d})
      PROVE  IInv'
  BY <1>3, ReadyOne, CompareRight, EmitInv DEF Emit
<1> QED
  BY <1>1, <1>2, <1>3

LEMMA NoResultInv ==
  ASSUME IInv, CopyToVar \/ JumpIf \/ LabelOrJump \/ Return
  PROVE  IInv'
<1>1. CASE CopyToVar
  <2>1. PICK x \in Var, src \in Ops : Emit(GenCopy(e, x, src), {src}, {})
    BY <1>1 DEF CopyToVar
  <2>2. /\ e \in State /\ live \in SUBSET Temp
        /\ Right(e, live, {}) /\ Ops = Source(live)
    BY <2>1, Ready DEF Emit
  <2>3. Writable(e, x, live) /\ Known(live, x) = live
    BY MachineAssumption DEF Writable, Known
  <2>4. Emits(e, GenCopy(e, x, src), live)
    BY <2>2, <2>3, CopyRight
  <2> QED
    BY <2>1, <2>4, EmitNoneInv
<1>2. CASE JumpIf
  <2>1. PICK cond \in Ops : Emit(GenJumpIf(e, cond), {cond}, {})
    BY <1>2 DEF JumpIf
  <2> QED
    BY <2>1, Ready, BranchesRight, EmitNoneInv DEF Emit
<1>3. CASE LabelOrJump
  BY <1>3, Ready, LabelRight, EmitNoneInv DEF LabelOrJump, Emit
<1>4. CASE Return
  <2>1. CASE \E src \in Ops : Emit(GenRet(e, src), {src}, {})
    <3>1. PICK src \in Ops : Emit(GenRet(e, src), {src}, {})
      BY <2>1
    <3> QED
      BY <3>1, Ready, ReturnRight, EmitNoneInv DEF Emit
  <2>2. CASE \E v \in Pairs : Emit(GenLongRet(e, v), {v.lo, v.hi}, {})
    <3>1. PICK v \in Pairs : Emit(GenLongRet(e, v), {v.lo, v.hi}, {})
      BY <2>2
    <3>2. /\ e \in State /\ live \in SUBSET Temp
          /\ Right(e, live, {}) /\ Ops = Source(live)
      BY <3>1, Ready DEF Emit
    <3>3. Emits(e, GenLongRet(e, v), live)
      BY <3>2, PairsSource, LongReturnRight
    <3> QED
      BY <3>1, <3>3, EmitNoneInv
  <2> QED
    BY <1>4, <2>1, <2>2 DEF Return
<1> QED
  BY <1>1, <1>2, <1>3, <1>4

LEMMA LongInv ==
  ASSUME IInv, LongLoad \/ LongStore \/ LongBinop \/ LongUnary \/ LongCompare
  PROVE  IInv'
<1>1. CASE LongLoad
  <2>1. PICK lo \in Fresh, hi \in Fresh, addr \in live \cup LongVar \cup Label :
          /\ lo # hi
          /\ \E s \in Allocated({lo, hi}) :
               Emit(GenLongLoad(s, lo, hi, addr), {addr}, {lo, hi})
    BY <1>1 DEF LongLoad
  <2>2. PICK s \in Allocated({lo, hi}) :
          Emit(GenLongLoad(s, lo, hi, addr), {addr}, {lo, hi})
    BY <2>1
  <2>3. /\ s \in State /\ live \in SUBSET Temp /\ Right(s, live, {})
        /\ Writable(s, lo, live) /\ Writable(s, hi, Known(live, lo))
        /\ Known(Known(live, lo), hi) = live \cup {lo, hi}
        /\ Ops = Source(live) /\ {lo, hi} \in SUBSET Fresh
    BY <2>1, <2>2, ReadyTwo DEF Emit
  <2>4. Emits(s, GenLongLoad(s, lo, hi, addr), Known(Known(live, lo), hi))
    BY <2>3, Addresses, LongLoadRight
  <2> QED
    BY <2>2, <2>3, <2>4, EmitInv
<1>2. CASE LongStore
  <2>1. PICK v \in Pairs, addr \in live \cup LongVar \cup Label :
          Emit(GenLongStore(e, addr, v.lo, v.hi), {addr, v.lo, v.hi}, {})
    BY <1>2 DEF LongStore
  <2>2. /\ e \in State /\ live \in SUBSET Temp
        /\ Right(e, live, {}) /\ Ops = Source(live)
    BY <2>1, Ready DEF Emit
  <2>3. Emits(e, GenLongStore(e, addr, v.lo, v.hi), live)
    BY <2>2, PairsSource, Addresses, LongStoreRight
  <2> QED
    BY <2>1, <2>3, EmitNoneInv
<1>3. CASE LongBinop
  <2>1. PICK lo \in Fresh, hi \in Fresh, l \in Pairs, r \in Pairs :
          /\ lo # hi
          /\ \E s \in Allocated({lo, hi}) :
               Emit(GenLongBinop(s, lo, hi, l, r), {l.lo, l.hi, r.lo, r.hi}, {lo, hi})
    BY <1>3 DEF LongBinop
  <2>2. PICK s \in Allocated({lo, hi}) :
          Emit(GenLongBinop(s, lo, hi, l, r), {l.lo, l.hi, r.lo, r.hi}, {lo, hi})
    BY <2>1
  <2>3. /\ s \in State /\ live \in SUBSET Temp /\ Right(s, live, {})
        /\ Writable(s, lo, live) /\ Writable(s, hi, Known(live, lo))
        /\ Known(Known(live, lo), hi) = live \cup {lo, hi}
        /\ Ops = Source(live) /\ {lo, hi} \in SUBSET Fresh
    BY <2>1, <2>2, ReadyTwo DEF Emit
  <2>4. Emits(s, GenLongBinop(s, lo, hi, l, r), Known(Known(live, lo), hi))
    BY <2>3, PairsSource, LongBinopRight
  <2> QED
    BY <2>2, <2>3, <2>4, EmitInv
<1>4. CASE LongUnary
  <2>1. PICK lo \in Fresh, hi \in Fresh, src \in Pairs :
          /\ lo # hi
          /\ \E s \in Allocated({lo, hi}) :
               Emit(GenLongUnary(s, lo, hi, src), {src.lo, src.hi}, {lo, hi})
    BY <1>4 DEF LongUnary
  <2>2. PICK s \in Allocated({lo, hi}) :
          Emit(GenLongUnary(s, lo, hi, src), {src.lo, src.hi}, {lo, hi})
    BY <2>1
  <2>3. /\ s \in State /\ live \in SUBSET Temp /\ Right(s, live, {})
        /\ Writable(s, lo, live) /\ Writable(s, hi, Known(live, lo))
        /\ Known(Known(live, lo), hi) = live \cup {lo, hi}
        /\ Ops = Source(live) /\ {lo, hi} \in SUBSET Fresh
    BY <2>1, <2>2, ReadyTwo DEF Emit
  <2>4. Emits(s, GenLongUnary(s, lo, hi, src), Known(Known(live, lo), hi))
    BY <2>3, PairsSource, LongUnaryRight
  <2> QED
    BY <2>2, <2>3, <2>4, EmitInv
<1>5. CASE LongCompare
  <2>1. PICK d \in Fresh, l \in Pairs, r \in Pairs, highDecides \in BOOLEAN :
          \E s \in Allocated({d}) :
            Emit(GenLongCompare(s, d, l, r, highDecides), {l.lo, l.hi, r.lo, r.hi}, {d})
    BY <1>5 DEF LongCompare
  <2>2. PICK s \in Allocated({d}) :
          Emit(GenLongCompare(s, d, l, r, highDecides), {l.lo, l.hi, r.lo, r.hi}, {d})
    BY <2>1
  <2>3. /\ s \in State /\ live \in SUBSET Temp /\ Right(s, live, {})
        /\ Writable(s, d, live) /\ Known(live, d) = live \cup {d}
        /\ Ops = Source(live) /\ {d} \in SUBSET Fresh
    BY <2>2, ReadyOne DEF Emit
  <2>4. Emits(s, GenLongCompare(s, d, l, r, highDecides), Known(live, d))
    BY <2>3, PairsSource, LongCompareRight
  <2> QED
    BY <2>2, <2>3, <2>4, EmitInv
<1> QED
  BY <1>1, <1>2, <1>3, <1>4, <1>5

(* va_start leaves its result in r7 for a store that must come next.        *)
LEMMA VaStartInv ==
  ASSUME IInv, VaStart
  PROVE  IInv'
<1>1. PICK d \in Fresh : /\ due = NoTemp
                         /\ live' = live \cup {d}
                         /\ due' = d
                         /\ e' = Settle(Track(Put(e, A, d), A, d), live')
  BY DEF VaStart
<1> DEFINE h == Track(Put(e, A, d), A, d)
<1>2. TypeOK /\ Apart /\ e \in State /\ live \in SUBSET Temp /\ Right(e, live, {})
  BY <1>1, Ready
<1>3. d \in Temp /\ d \notin live /\ d \in Token /\ d # NoTemp
  BY MachineAssumption DEF Fresh, Token, Operand
<1>4. A \in PhysReg /\ A \notin Homes(e, live)
  BY <1>2, ScratchFree
<1>5. Reach(e, h, live, {}, {A})
  BY <1>2, <1>3, <1>4, PutTracked
<1>6. h.a = d /\ A \notin h.stale
  <2>1. Put(e, A, d) \in State
    BY <1>2, <1>3, <1>4, PutFields
  <2>2. /\ h.a = IF A = A THEN d ELSE Put(e, A, d).a
        /\ h.stale = Put(e, A, d).stale \ ({A} \cap {A, C})
    BY <1>3, <2>1, TrackFields
  <2> QED
    BY <2>2
<1> HIDE DEF h
<1>7. h \in State /\ h.home = e.home /\ Right(h, live, {})
  BY <1>5 DEF Reach, Only
<1>8. live' \in SUBSET Temp
  BY <1>1, <1>2, <1>3
<1>9. e' = Settle(h, live')
  BY <1>1 DEF h
<1>10. /\ e' \in State
       /\ \A t \in live' : e'.home[t] = h.home[t]
       /\ \A t \in Temp \ live' : e'.home[t] = Spilled
       /\ e'.a = h.a /\ e'.stale = h.stale
  BY <1>7, <1>8, <1>9, SettleFields
<1>11. e.home[d] = Spilled
  BY <1>3 DEF IInv, Unassigned
<1>12. TypeOK'
  BY <1>1, <1>8, <1>10 DEF TypeOK
<1>13. Right(e', live' \ {due'}, {})
  <2>1. live \in SUBSET live' /\ live' \ {due'} = live
    BY <1>1, <1>3
  <2>2. Right(e', live, {})
    BY <1>7, <1>8, <1>9, <2>1, SettleRight
  <2> QED
    BY <2>1, <2>2
<1>14. Apart'
  <2>1. \A t \in live' : e'.home[t] = e.home[t] /\ (t \in live \/ e.home[t] = Spilled)
    BY <1>1, <1>7, <1>10, <1>11
  <2>2. \A t, u \in live : e.home[t] = e.home[u] => t = u \/ e.home[t] = Spilled
    BY <1>2 DEF Apart
  <2> QED
    BY <2>1, <2>2 DEF Apart
<1>15. Unassigned'
  BY <1>10 DEF Unassigned
<1>16. DueInA'
  BY <1>1, <1>6, <1>7, <1>10, <1>11 DEF DueInA
<1> QED
  BY <1>12, <1>13, <1>14, <1>15, <1>16 DEF IInv

LEMMA StoreInv ==
  ASSUME IInv, Store
  PROVE  IInv'
<1>1. PICK src \in Ops, addr \in Ops :
        /\ due # NoTemp => src = due
        /\ \/ addr \in Var /\ After(GenStoreVar(e, addr, src), {src}, {})
           \/ addr \notin Var /\ After(GenStore(e, addr, src), {src, addr}, {})
  BY DEF Store
<1> DEFINE L == live \ {due}
<1>2. /\ TypeOK /\ Apart /\ e \in State /\ live \in SUBSET Temp
      /\ Right(e, L, {}) /\ L \in SUBSET Temp
  BY DEF IInv, TypeOK
<1>3. ASSUME NEW op \in Ops PROVE Readable(e, op, L)
  <2>1. CASE op = due
    <3>1. CASE due = NoTemp
      BY <1>2, <1>3, <2>1, <3>1, MachineAssumption DEF Ops, Readable, Source
    <3>2. CASE due # NoTemp
      <4>1. due \in Temp /\ e.home[due] = Spilled /\ e.a = due
        BY <1>2, <3>2 DEF IInv, DueInA, TypeOK
      <4> QED
        BY <2>1, <4>1 DEF Readable
    <3> QED
      BY <3>1, <3>2
  <2>2. CASE op # due
    BY <1>3, <2>2 DEF Ops, Readable, Source
  <2> QED
    BY <2>1, <2>2
<1>4. ASSUME NEW h, Emits(e, h, L), NEW used, After(h, used, {})
      PROVE  IInv'
  <2>1. live' \subseteq L
    BY <1>4, AfterWithin
  <2>2. h \in State /\ Right(h, L, {}) /\ ApartIn(h, live')
    BY <1>2, <1>4, <2>1 DEF Emits, ApartIn, Apart
  <2> HIDE DEF L
  <2> QED
    BY <1>2, <1>4, <2>1, <2>2, AfterInv
<1> HIDE DEF L
<1>5. CASE addr \in Var /\ After(GenStoreVar(e, addr, src), {src}, {})
  BY <1>2, <1>3, <1>4, <1>5, StoreVarRight
<1>6. CASE addr \notin Var /\ After(GenStore(e, addr, src), {src, addr}, {})
  BY <1>2, <1>3, <1>4, <1>6, StoreToRight
<1> QED
  BY <1>1, <1>5, <1>6

(* Results of a call or an asm: their registers are their own.              *)
LEMMA ReadyAll ==
  ASSUME IInv, due = NoTemp,
         NEW k \in Nat, NEW res \in [1 .. k -> Fresh], IsInjective(res),
         NEW s \in Allocated(ToSet(res)), NEW K \in SUBSET live
  PROVE  /\ s \in State /\ live \in SUBSET Temp /\ Right(s, live, {})
         /\ \A t \in live : s.home[t] = e.home[t]
         /\ Targets(s, res, k, K) /\ ApartIn(s, live \cup ToSet(res))
         /\ KnownAll(K, res, k) = K \cup ToSet(res) /\ ToSet(res) \in SUBSET Temp
         /\ Ops = Source(live)
<1>1. ToSet(res) = {res[i] : i \in 1 .. k} /\ Len(res) = k
  BY DEF ToSet
<1>2. ToSet(res) \in SUBSET Fresh /\ ToSet(res) \in SUBSET Temp
  BY <1>1 DEF Fresh
<1>3. TypeOK /\ Apart /\ Right(e, live, {}) /\ Ops = Source(live)
  BY Ready
<1>4. /\ s \in State /\ live \in SUBSET Temp /\ Right(s, live, {})
      /\ \A t \in live : s.home[t] = e.home[t]
      /\ ApartIn(s, live \cup ToSet(res))
      /\ \A d \in ToSet(res) : /\ d \in Temp \ live
                               /\ s.home[d] = Spilled \/ s.home[d] \notin Homes(s, live)
  BY <1>2, <1>3, AllocatedRight
<1>5. /\ res \in [1 .. k -> Temp]
      /\ \A i \in 1 .. k : res[i] \in ToSet(res) /\ res[i] \notin K
      /\ \A i, j \in 1 .. k : i # j => res[i] # res[j]
  BY <1>1, <1>2, <1>4 DEF IsInjective
<1>6. ASSUME NEW i \in 1 .. k, s.home[res[i]] # Spilled
      PROVE  /\ s.home[res[i]] \notin Homes(s, K)
             /\ \A j \in 1 .. k : j # i => s.home[res[j]] # s.home[res[i]]
  <2>1. s.home[res[i]] \notin Homes(s, live)
    BY <1>4, <1>5, <1>6
  <2>2. s.home[res[i]] \notin Homes(s, K)
    BY <2>1 DEF Homes
  <2>3. ASSUME NEW j \in 1 .. k, j # i PROVE s.home[res[j]] # s.home[res[i]]
    <3>1. res[i] \in ToSet(res) /\ res[j] \in ToSet(res) /\ res[i] # res[j]
      BY <1>5, <2>3
    <3> QED
      BY <1>4, <1>6, <3>1 DEF ApartIn
  <2> QED
    BY <2>2, <2>3
<1>7. Targets(s, res, k, K)
  BY <1>1, <1>5, <1>6 DEF Targets
<1> QED
  BY <1>1, <1>2, <1>3, <1>4, <1>7 DEF KnownAll

LEMMA EmitAllInv ==
  ASSUME IInv, due = NoTemp, NEW defs \in SUBSET Temp,
         NEW s, ApartIn(s, live \cup defs),
         NEW h, Emits(s, h, (live \cap live') \cup defs), NEW used, Emit(h, used, defs)
  PROVE  IInv'
<1>1. After(h, used, defs)
  BY DEF Emit
<1>2. TypeOK /\ live \in SUBSET Temp
  BY Ready
<1>3. live' \subseteq live \cup defs
  BY <1>1, AfterWithin
<1> DEFINE K == (live \cap live') \cup defs
<1>4. live' \subseteq K /\ K \in SUBSET Temp
  BY <1>2, <1>3
<1>5. h \in State /\ Right(h, K, {}) /\ ApartIn(h, live')
  BY <1>3 DEF Emits, ApartIn
<1> HIDE DEF K
<1> QED
  BY <1>1, <1>2, <1>4, <1>5, AfterInv

LEMMA CallInv ==
  ASSUME IInv, Call
  PROVE  IInv'
<1>1. PICK n \in 0 .. MaxArgs :
        \E args \in [1 .. n -> Ops], func \in live \cup {NoTemp},
           res \in {q \in UNION {[1 .. k -> Fresh] : k \in 0 .. 2} : IsInjective(q)} :
        \E s \in Allocated(ToSet(res)) :
          /\ Emit(GenCall(s, res, func, args), ToSet(args) \cup {func}, ToSet(res))
          /\ KeptAcross(CallerSaved)
  BY DEF Call
<1>2. PICK args \in [1 .. n -> Ops], func \in live \cup {NoTemp},
           res \in {q \in UNION {[1 .. k -> Fresh] : k \in 0 .. 2} : IsInjective(q)} :
        \E s \in Allocated(ToSet(res)) :
          /\ Emit(GenCall(s, res, func, args), ToSet(args) \cup {func}, ToSet(res))
          /\ KeptAcross(CallerSaved)
  BY <1>1
<1>3. PICK s \in Allocated(ToSet(res)) :
        /\ Emit(GenCall(s, res, func, args), ToSet(args) \cup {func}, ToSet(res))
        /\ KeptAcross(CallerSaved)
  BY <1>2
<1>4. PICK k \in 0 .. 2 : res \in [1 .. k -> Fresh] /\ IsInjective(res)
  BY <1>2
<1>5. n \in Nat /\ k \in Nat /\ ResultRegs(k, 1)
  BY MachineAssumption DEF ResultRegs
<1> DEFINE K == live \cap live'
           h == GenCall(s, res, func, args)
<1>6. K \in SUBSET live /\ due = NoTemp
  BY <1>3 DEF Emit
<1>7. /\ s \in State /\ live \in SUBSET Temp /\ Right(s, live, {})
      /\ \A t \in live : s.home[t] = e.home[t]
      /\ Targets(s, res, k, K) /\ ApartIn(s, live \cup ToSet(res))
      /\ KnownAll(K, res, k) = K \cup ToSet(res) /\ ToSet(res) \in SUBSET Temp
      /\ Ops = Source(live)
  BY <1>3, <1>4, <1>5, <1>6, ReadyAll
<1>8. \A t \in K : s.home[t] \notin CallerSaved
  BY <1>3, <1>7 DEF KeptAcross
<1> HIDE DEF K
<1>9. args \in [1 .. n -> Source(live)] /\ Len(args) = n
  BY <1>2, <1>5, <1>7
<1>10. Emits(s, h, KnownAll(K, res, k))
  BY <1>2, <1>5, <1>6, <1>7, <1>8, <1>9, CallRight
<1>11. Emits(s, h, (live \cap live') \cup ToSet(res))
  BY <1>7, <1>10 DEF K
<1> HIDE DEF h
<1>12. Emit(h, ToSet(args) \cup {func}, ToSet(res))
  BY <1>3 DEF h
<1> QED
  BY <1>6, <1>7, <1>11, <1>12, EmitAllInv

LEMMA AsmInv ==
  ASSUME IInv, Asm
  PROVE  IInv'
<1>1. PICK outs \in {q \in UNION {[1 .. k -> Fresh] : k \in 0 .. 3} : IsInjective(q)},
           clobbers \in SUBSET Reg :
        \E s \in Allocated(ToSet(outs)) :
          /\ Emit(GenAsm(s, outs, clobbers), {}, ToSet(outs))
          /\ KeptAcross(clobbers)
  BY DEF Asm
<1>2. PICK s \in Allocated(ToSet(outs)) :
        /\ Emit(GenAsm(s, outs, clobbers), {}, ToSet(outs))
        /\ KeptAcross(clobbers)
  BY <1>1
<1>3. PICK k \in 0 .. 3 : outs \in [1 .. k -> Fresh] /\ IsInjective(outs)
  BY <1>1
<1>4. k \in Nat /\ ResultRegs(k, A)
  BY DEF ResultRegs
<1> DEFINE K == live \cap live'
           h == GenAsm(s, outs, clobbers)
<1>5. K \in SUBSET live /\ due = NoTemp
  BY <1>2 DEF Emit
<1>6. /\ s \in State /\ live \in SUBSET Temp /\ Right(s, live, {})
      /\ \A t \in live : s.home[t] = e.home[t]
      /\ Targets(s, outs, k, K) /\ ApartIn(s, live \cup ToSet(outs))
      /\ KnownAll(K, outs, k) = K \cup ToSet(outs) /\ ToSet(outs) \in SUBSET Temp
  BY <1>2, <1>3, <1>4, <1>5, ReadyAll
<1>7. \A t \in K : s.home[t] \notin clobbers
  BY <1>2, <1>6 DEF KeptAcross
<1> HIDE DEF K
<1>8. Emits(s, h, KnownAll(K, outs, k))
  BY <1>4, <1>5, <1>6, <1>7, AsmRight
<1>9. Emits(s, h, (live \cap live') \cup ToSet(outs))
  BY <1>6, <1>8 DEF K
<1> HIDE DEF h
<1>10. Emit(h, {}, ToSet(outs))
  BY <1>2 DEF h
<1> QED
  BY <1>5, <1>6, <1>9, <1>10, EmitAllInv

-----------------------------------------------------------------------------
LEMMA InitInv == Init => IInv
<1> SUFFICES ASSUME Init PROVE IInv
  OBVIOUS
<1>1. Junk \in Token /\ \A x \in Var : x \in Token
  BY DEF Token, Operand
<1>2. [s \in Temp \cup Var |-> IF s \in Var THEN s ELSE Junk]
        \in [Temp \cup Var -> Token]
  BY <1>1
<1>3. TypeOK
  BY <1>1, <1>2 DEF Init, TypeOK, State
<1>4. Right(e, live \ {due}, {})
  BY DEF Init, Right, Tracks
<1>5. Apart /\ Unassigned /\ DueInA
  BY DEF Init, Apart, Unassigned, DueInA
<1> QED
  BY <1>3, <1>4, <1>5 DEF IInv

LEMMA StepInv == IInv /\ [Next]_vars => IInv'
<1> SUFFICES ASSUME IInv, [Next]_vars PROVE IInv'
  OBVIOUS
<1>1. CASE UNCHANGED vars
  BY <1>1 DEF vars, IInv, TypeOK, Right, Tracks, At, Apart, Unassigned, DueInA
<1>2. CASE Next
  BY <1>2, OneWordInv, CompareInv, NoResultInv, LongInv, VaStartInv, StoreInv,
     CallInv, AsmInv DEF Next
<1> QED
  BY <1>1, <1>2

THEOREM Inductive == Spec => []IInv
  BY InitInv, StepInv, PTL DEF Spec

(* TypeOK holds for every set of Temps, every number of argument registers, *)
(* and code of any length.                                                  *)
THEOREM TypeCorrect == Spec => []TypeOK
<1>1. IInv => TypeOK
  BY DEF IInv
<1> QED
  BY <1>1, Inductive, PTL

(* Every operand read is the one the IR names, whatever loads _load_op      *)
(* leaves out, in code that no untracked overwrite of r7 or r9 misled.      *)
THEOREM OperandsStayRight == Spec => []OperandsRight
<1>1. IInv => OperandsRight
  BY DEF IInv, Right, OperandsRight
<1> QED
  BY <1>1, Inductive, PTL

(* What the emitter believes of r7 and r9 is so, and every needed Temp is   *)
(* where the allocator put it.                                              *)
THEOREM BeliefsStayTrue == Spec => []BeliefsTrue
<1>1. IInv => BeliefsTrue
  <2> SUFFICES ASSUME IInv, ~e.misled PROVE BeliefsTrue
    BY DEF BeliefsTrue
  <2>1. Tracks(e, {}) /\ \A t \in live \ {due} : At(e, t)
    BY DEF IInv, Right
  <2>2. ASSUME NEW t \in live, t = due PROVE e.a = t /\ A \notin e.stale
    BY <2>2, MachineAssumption DEF IInv, TypeOK, DueInA
  <2> QED
    BY <2>1, <2>2 DEF BeliefsTrue, Tracks, At
<1> QED
  BY <1>1, Inductive, PTL
=============================================================================
