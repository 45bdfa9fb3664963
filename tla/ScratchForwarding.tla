--------------------------- MODULE ScratchForwarding ---------------------------
(***************************************************************************)
(* codegen.Codegen._gen_instr and its helpers: the emission of one IR       *)
(* instruction after the other, together with the machine the emitted code  *)
(* runs on.  The emitter remembers which spilled Temp the scratch registers *)
(* r7 and r9 hold, and leaves out loads it believes unnecessary; the model  *)
(* tracks what every register and stack slot really holds.                  *)
(*                                                                          *)
(* A location holds the name of the operand whose value is in it: computing *)
(* Temp t puts the token t there.  The arithmetic itself is left out, and   *)
(* so are the slot numbers.  Code between two labels is straight-line       *)
(* code; at a label the emitter forgets everything (ILabel, IJump).         *)
(***************************************************************************)
EXTENDS Intervals, SequencesExt

CONSTANTS
  Temp,          \* IR temporaries
  Var,           \* named locals and parameters
  LongVar,       \* the Vars accessed as a 32-bit long
  Label,         \* string labels and globals, loaded as an address or by name
  NumArgRegs,    \* ARG_REGS has 6
  MaxArgs,       \* bound: arguments of a call
  NoTemp, Junk, Imm, Address

A == 7           \* SCRATCH_A
B == 8           \* SCRATCH_B
C == 9           \* SCRATCH_C
ArgReg(i) == i

ASSUME MachineAssumption ==
  /\ NumArgRegs \in 2 .. 6
  /\ MaxArgs \in Nat
  /\ \A r \in Reg : r > 9
  /\ LongVar \subseteq Var
  /\ Temp \cap Var = {} /\ Label \cap (Temp \cup Var) = {}
  /\ {NoTemp, Imm} \cap (Temp \cup Var \cup Label) = {}

Operand == Temp \cup Var \cup Label \cup {Imm}
Token == Operand \cup {Address, Junk}
Scratch == {A, B, C}
PhysReg == 1 .. NumArgRegs \cup Scratch \cup Reg

State ==
  [reg    : [PhysReg -> Token],
   mem    : [Temp \cup Var -> Token],
   home   : [Temp -> Reg \cup {Spilled}],   \* the RegMap
   a      : Temp \cup {NoTemp},             \* _scratch_a_temp
   c      : Temp \cup {NoTemp},             \* _scratch_c_temp
   stale  : SUBSET {A, C},  \* scratch registers overwritten behind the tracking
   misled : BOOLEAN,        \* a load was left out for a stale register
   ok     : BOOLEAN]        \* every operand read so far was the right one

VARIABLES
  e,      \* what the emitter knows, and the machine its code runs on
  live,   \* Temps defined and still needed
  due     \* the Temp that only a scratch register holds, for the next instruction

vars == <<e, live, due>>

Init ==
  /\ e = [reg    |-> [r \in PhysReg |-> Junk],
          mem    |-> [s \in Temp \cup Var |-> IF s \in Var THEN s ELSE Junk],
          home   |-> [t \in Temp |-> Spilled],
          a      |-> NoTemp,
          c      |-> NoTemp,
          stale  |-> {},
          misled |-> FALSE,
          ok     |-> TRUE]
  /\ live = {}
  /\ due = NoTemp

-----------------------------------------------------------------------------
(* The machine: an instruction leaves tok in register r, or reads r for op. *)
Put(s, r, tok) == [s EXCEPT !.reg[r] = tok]
Uses(s, r, op) == [s EXCEPT !.ok = @ /\ s.reg[r] = op]

(* The tracking.                                                            *)
Track(s, r, t) ==
  CASE r = A -> [s EXCEPT !.a = t, !.stale = @ \ {A}]
    [] r = C -> [s EXCEPT !.c = t, !.stale = @ \ {C}]
    [] OTHER -> s
ForgetA(s) == Track(s, A, NoTemp)
Invalidate(s) == Track(ForgetA(s), C, NoTemp)

Untracked(s, r) ==
  IF (r = A /\ s.a # NoTemp) \/ (r = C /\ s.c # NoTemp)
    THEN [s EXCEPT !.stale = @ \cup {r}] ELSE s

InPreg(s, op) == op \in Temp /\ s.home[op] # Spilled
Forwarded(s, r, from, t) ==
  LET moved == IF r = from THEN s ELSE Put(s, r, s.reg[from])
      noted == IF r # from /\ r \in {A, C} THEN Track(moved, r, t) ELSE moved
  IN  [noted EXCEPT !.misled = @ \/ from \in s.stale]

(* _load_op: op's value into register r.                                    *)
LoadOp(s, op, r) ==
  IF op = Imm THEN Track(Put(s, r, Imm), r, NoTemp)
  ELSE IF op \in Label THEN Untracked(Put(s, r, op), r)
  ELSE IF InPreg(s, op) THEN Track(Put(s, r, s.reg[s.home[op]]), r, NoTemp)
  ELSE IF op = s.a THEN Forwarded(s, r, A, op)
  ELSE IF op = s.c THEN Forwarded(s, r, C, op)
  ELSE Track(Put(s, r, s.mem[op]), r, IF op \in Temp THEN op ELSE NoTemp)

(* Mutant: Vars are tracked like Temps.                                     *)
StoreOpTracked(s, r, op) ==
  IF InPreg(s, op) THEN Track(Put(s, s.home[op], s.reg[r]), r, NoTemp)
  ELSE Track([s EXCEPT !.mem[op] = s.reg[r]], r, op)

(* _store_op: register r is the value of op.                                *)
StoreOp(s, r, op) ==
  IF InPreg(s, op) THEN Track(Put(s, s.home[op], s.reg[r]), r, NoTemp)
  ELSE Track([s EXCEPT !.mem[op] = s.reg[r]], r, IF op \in Temp THEN op ELSE NoTemp)

DstReg(s, op) == IF InPreg(s, op) THEN s.home[op] ELSE A
SrcReg(s, op, scratch) == IF InPreg(s, op) THEN s.home[op] ELSE scratch
SrcLoad(s, op, scratch) == IF InPreg(s, op) THEN s ELSE LoadOp(s, op, scratch)

(* `if dst == SCRATCH_A: self._store_op(SCRATCH_A, instr.dst)`              *)
Finish(s, d) == IF DstReg(s, d) = A THEN StoreOp(s, A, d) ELSE s
Result(s, d) == Finish(Put(s, DstReg(s, d), d), d)

(* _addr_reg: the address of a long.                                        *)
AddrLoad(s, op) ==
  IF op \in Var THEN Untracked(Put(s, C, Address), C) ELSE SrcLoad(s, op, C)
AddrReg(s, op) == SrcReg(s, op, C)
AddrTok(op) == IF op \in Var THEN Address ELSE op

-----------------------------------------------------------------------------
(* The handlers of _gen_instr.                                              *)
GenConst(s, d) == Result(ForgetA(s), d)            \* IConst, IAddrOf

GenCopy(s, d, src) ==
  LET s1 == Uses(LoadOp(s, src, DstReg(s, d)), DstReg(s, d), src)
  IN  Result(s1, d)

GenLoad(s, d, addr) ==
  LET s1 == Uses(SrcLoad(s, addr, C), AddrReg(s, addr), addr)
  IN  Result(ForgetA(s1), d)

GenVaArg(s, d, ap) == Result(ForgetA(Uses(LoadOp(s, ap, C), C, ap)), d)

GenStoreVar(s, x, src) ==
  LET s1 == Uses(LoadOp(s, src, A), A, src)
      s2 == [s1 EXCEPT !.mem[x] = x]
  IN  IF src \in Temp THEN Track(s2, A, src) ELSE s2

GenStore(s, addr, src) ==
  LET s1 == SrcLoad(SrcLoad(s, addr, C), src, A)
  IN  Uses(Uses(s1, AddrReg(s, addr), addr), SrcReg(s, src, A), src)

GenBinop(s, d, l, r, threeOp) ==
  LET dst == DstReg(s, d)
      s1 == SrcLoad(SrcLoad(s, l, A), r, B)
      lreg == SrcReg(s, l, A)
      rreg == SrcReg(s, r, B)
      s2 == IF threeOp /\ dst # rreg
              THEN Uses(Uses(s1, lreg, l), rreg, r)
              ELSE LET acc == IF dst # rreg THEN dst ELSE A
                   IN  Uses(Uses(Put(s1, acc, s1.reg[lreg]), acc, l), rreg, r)
  IN  Result(ForgetA(s2), d)

GenCompare(s, d, l, r) ==
  LET left == IF InPreg(s, l) /\ s.home[l] # DstReg(s, d) THEN s.home[l] ELSE A
      s1 == IF left = A THEN LoadOp(s, l, A) ELSE s
      s2 == LoadOp(s1, r, B)
  IN  Result(ForgetA(Uses(Uses(s2, left, l), B, r)), d)

(* A compare fused with the branch after it.                                *)
GenFused(s, l, r) ==
  LET s1 == SrcLoad(SrcLoad(s, l, A), r, B)
  IN  Invalidate(Uses(Uses(s1, SrcReg(s, l, A), l), SrcReg(s, r, B), r))

GenJumpIf(s, cond) ==
  Invalidate(Uses(SrcLoad(s, cond, A), SrcReg(s, cond, A), cond))

GenUnaryTracking(s, d, src) ==                                      \* mutant
  LET s1 == Put(Uses(LoadOp(s, src, A), A, src), A, d)
      dst == DstReg(s, d)
  IN  IF dst = A THEN StoreOp(s1, A, d) ELSE Put(s1, dst, d)

GenUnary(s, d, src) ==
  LET s1 == ForgetA(Put(Uses(LoadOp(s, src, A), A, src), A, d))
      dst == DstReg(s, d)
  IN  IF dst = A THEN StoreOp(s1, A, d) ELSE Put(s1, dst, d)

GenLongLoad(s, lo, hi, addr) ==
  LET areg == AddrReg(s, addr)
      s1 == ForgetA(Uses(AddrLoad(s, addr), areg, AddrTok(addr)))
      s2 == Uses(Result(s1, lo), areg, AddrTok(addr))
  IN  Result(s2, hi)

GenLongStore(s, addr, lo, hi) ==
  LET areg == AddrReg(s, addr)
      s1 == SrcLoad(AddrLoad(s, addr), lo, A)
      s2 == Uses(Uses(s1, SrcReg(s, lo, A), lo), areg, AddrTok(addr))
      s3 == SrcLoad(s2, hi, A)
  IN  Uses(Uses(s3, SrcReg(s, hi, A), hi), areg, AddrTok(addr))

LoadBoth(s, l, r) ==
  Uses(Uses(LoadOp(LoadOp(s, l, A), r, B), A, l), B, r)

GenLongBinop(s, lo, hi, l, r) ==      \* + and -
  LET s1 == Result(LoadBoth(s, l.lo, r.lo), lo)
  IN  Result(ForgetA(LoadBoth(s1, l.hi, r.hi)), hi)

GenLongUnary(s, lo, hi, src) ==
  LET s1 == Result(LoadBoth(s, src.lo, src.hi), lo)
      s2 == Uses(s1, B, src.hi)
  IN  Result(ForgetA(s2), hi)

(* The high halves may decide; the tracking is that of the whole text.      *)
GenLongCompare(s, d, l, r, highDecides) ==
  LET s1 == LoadBoth(s, l.hi, r.hi)
      s2 == LoadBoth(s1, l.lo, r.lo)
      ran == IF highDecides THEN s1 ELSE s2
  IN  ForgetA(Result([s2 EXCEPT !.reg = ran.reg, !.ok = ran.ok], d))

(* _gen_call.  Overflow arguments pass through r7 to the outgoing area.     *)
LoadArg(s, i, arg) ==
  LET r == IF i <= NumArgRegs THEN ArgReg(i) ELSE A
  IN  Uses(LoadOp(s, arg, r), r, arg)
LoadArgs(s, args) ==
  LET loaded[i \in 0 .. Len(args)] ==
        IF i = 0 THEN s ELSE LoadArg(loaded[i - 1], i, args[i])
      s1 == loaded[Len(args)]
  IN  [s1 EXCEPT !.ok = @ /\ \A i \in DOMAIN args \cap 1 .. NumArgRegs :
                                s1.reg[ArgReg(i)] = args[i]]
LoadFunc(s, func) ==
  IF func \in Temp THEN Uses(LoadOp(s, func, A), A, func) ELSE s

(* A callee or an asm text leaves its results in the registers from first   *)
(* on, and what was there in those it may not lose.                         *)
ResultReg(first, i) == first + i - 1

Destroy(s, lost, res, first) ==
  [s EXCEPT !.reg = [r \in PhysReg |->
     IF r - first + 1 \in DOMAIN res THEN res[r - first + 1]
     ELSE IF r \in lost \cup Scratch \cup 1 .. NumArgRegs THEN Junk
     ELSE s.reg[r]]]

StoreResults(s, res, first) ==
  LET stored[i \in 0 .. Len(res)] ==
        IF i = 0 THEN s ELSE StoreOp(stored[i - 1], ResultReg(first, i), res[i])
  IN  stored[Len(res)]

GenCallTracking(s, res, func, args) ==                              \* mutant
  StoreResults(Destroy(LoadFunc(LoadArgs(s, args), func), CallerSaved, res, 1), res, 1)

GenCall(s, res, func, args) ==
  LET s1 == Destroy(LoadFunc(LoadArgs(s, args), func), CallerSaved, res, 1)
  IN  Invalidate(StoreResults(s1, res, 1))

(* _gen_inline_asm, for a statement without input operands.                 *)
GenAsm(s, outs, clobbers) ==
  StoreResults(Destroy(Invalidate(s), clobbers, outs, A), outs, A)

(* ILabel, IJump: control may come from, or go, anywhere.                   *)
GenLabel(s) == Destroy(Invalidate(s), {}, <<>>, 1)

(* IRet and ILongRet; only a label can follow.                              *)
GenRet(s, src) ==
  GenLabel(Uses(SrcLoad(s, src, ArgReg(1)), SrcReg(s, src, ArgReg(1)), src))
GenLongRet(s, src) == GenLabel(LoadBoth(s, src.lo, src.hi))

-----------------------------------------------------------------------------
(* What counts after an instruction: the contents of registers and slots    *)
(* nobody can ask for any more are dropped.                                 *)
Settle(s, alive) ==
  LET known == alive \cup {s.a, s.c}
      Kept(tok) == IF tok \in known \cap Temp THEN tok ELSE Junk
  IN  [s EXCEPT
        !.reg = [r \in PhysReg |->
                   IF \/ r \in Reg
                      \/ r = A /\ s.a # NoTemp
                      \/ r = C /\ s.c # NoTemp
                     THEN Kept(s.reg[r]) ELSE Junk],
        !.mem = [x \in Temp \cup Var |-> IF x \in Var THEN s.mem[x] ELSE Kept(s.mem[x])],
        !.home = [t \in Temp |-> IF t \in alive THEN s.home[t] ELSE Spilled]]

(* Operands an instruction may name, and Temps it may define.               *)
Ops == live \cup Var \cup Label \cup {Imm}
Pairs == [lo : Ops, hi : Ops]
Fresh == Temp \ (live \cup {e.a, e.c})

(* The registers the allocator may have given to the Temps defined here:    *)
(* none that a Temp needed before, at or after this instruction holds.      *)
Allocated(defs) ==
  LET free == Reg \ {e.home[t] : t \in live}
  IN  {[e EXCEPT !.home = [t \in Temp |-> IF t \in defs THEN h[t] ELSE e.home[t]]] :
         h \in {h \in [defs -> free \cup {Spilled}] :
                  \A t, u \in defs : h[t] = h[u] => t = u \/ h[t] = Spilled}}

(* s is the state after the handler's last line; some Temps die here.       *)
After(s, used, defs) ==
  /\ \E dead \in SUBSET ((used \cap Temp) \cup defs) : live' = (live \cup defs) \ dead
  /\ due \notin live'
  /\ e' = Settle(s, live')
  /\ due' = NoTemp

Emit(s, used, defs) == due = NoTemp /\ After(s, used, defs)

(* The allocator's promise about Temps needed across a call or an asm.      *)
KeptAcross(lost) == \A t \in live \cap live' : e.home[t] \notin lost

-----------------------------------------------------------------------------
Const == \E d \in Fresh : \E s \in Allocated({d}) : Emit(GenConst(s, d), {}, {d})

Copy ==
  \E d \in Fresh, src \in Ops : \E s \in Allocated({d}) :
    Emit(GenCopy(s, d, src), {src}, {d})

CopyToVar == \E x \in Var, src \in Ops : Emit(GenCopy(e, x, src), {src}, {})

Load ==
  \E d \in Fresh, addr \in Ops : \E s \in Allocated({d}) :
    \/ Emit(GenLoad(s, d, addr), {addr}, {d})
    \/ Emit(GenVaArg(s, d, addr), {addr}, {d})

VaStart ==                \* its store is left out when the next one uses it
  \E d \in Fresh :
    /\ due = NoTemp
    /\ live' = live \cup {d}
    /\ due' = d
    /\ e' = Settle(Track(Put(e, A, d), A, d), live')

Store ==
  \E src \in Ops, addr \in Ops :
    /\ due # NoTemp => src = due
    /\ \/ addr \in Var /\ After(GenStoreVar(e, addr, src), {src}, {})
       \/ addr \notin Var /\ After(GenStore(e, addr, src), {src, addr}, {})

Binop ==
  \E d \in Fresh, l, r \in Ops, threeOp \in BOOLEAN : \E s \in Allocated({d}) :
    Emit(GenBinop(s, d, l, r, threeOp), {l, r}, {d})

Compare ==
  \E l, r \in Ops :
    \/ Emit(GenFused(e, l, r), {l, r}, {})
    \/ \E d \in Fresh : \E s \in Allocated({d}) :
         Emit(GenCompare(s, d, l, r), {l, r}, {d})

Unary ==
  \E d \in Fresh, src \in Ops : \E s \in Allocated({d}) :
    Emit(GenUnary(s, d, src), {src}, {d})

JumpIf == \E cond \in Ops : Emit(GenJumpIf(e, cond), {cond}, {})

LongLoad ==
  \E lo, hi \in Fresh, addr \in live \cup LongVar \cup Label :
    /\ lo # hi
    /\ \E s \in Allocated({lo, hi}) :
         Emit(GenLongLoad(s, lo, hi, addr), {addr}, {lo, hi})

LongStore ==
  \E v \in Pairs, addr \in live \cup LongVar \cup Label :
    Emit(GenLongStore(e, addr, v.lo, v.hi), {addr, v.lo, v.hi}, {})

LongBinop ==
  \E lo, hi \in Fresh, l, r \in Pairs :
    /\ lo # hi
    /\ \E s \in Allocated({lo, hi}) :
         Emit(GenLongBinop(s, lo, hi, l, r), {l.lo, l.hi, r.lo, r.hi}, {lo, hi})

LongUnary ==
  \E lo, hi \in Fresh, src \in Pairs :
    /\ lo # hi
    /\ \E s \in Allocated({lo, hi}) :
         Emit(GenLongUnary(s, lo, hi, src), {src.lo, src.hi}, {lo, hi})

LongCompare ==
  \E d \in Fresh, l, r \in Pairs, highDecides \in BOOLEAN : \E s \in Allocated({d}) :
    Emit(GenLongCompare(s, d, l, r, highDecides), {l.lo, l.hi, r.lo, r.hi}, {d})

Call ==
  \E n \in 0 .. MaxArgs : \E args \in [1 .. n -> Ops], func \in live \cup {NoTemp},
     res \in {q \in UNION {[1 .. k -> Fresh] : k \in 0 .. 2} : IsInjective(q)} :
    \E s \in Allocated(ToSet(res)) :
      /\ Emit(GenCall(s, res, func, args), ToSet(args) \cup {func}, ToSet(res))
      /\ KeptAcross(CallerSaved)

Asm ==
  \E outs \in {q \in UNION {[1 .. k -> Fresh] : k \in 0 .. 3} : IsInjective(q)},
     clobbers \in SUBSET Reg :
    \E s \in Allocated(ToSet(outs)) :
      /\ Emit(GenAsm(s, outs, clobbers), {}, ToSet(outs))
      /\ KeptAcross(clobbers)

LabelOrJump == Emit(GenLabel(e), {}, {})

Return ==
  \/ \E src \in Ops : Emit(GenRet(e, src), {src}, {})
  \/ \E v \in Pairs : Emit(GenLongRet(e, v), {v.lo, v.hi}, {})

Next ==
  \/ Const \/ Copy \/ CopyToVar \/ Load \/ VaStart \/ Store
  \/ Binop \/ Compare \/ Unary \/ JumpIf
  \/ LongLoad \/ LongStore \/ LongBinop \/ LongUnary \/ LongCompare
  \/ Call \/ Asm \/ LabelOrJump \/ Return

Spec == Init /\ [][Next]_vars

-----------------------------------------------------------------------------
TypeOK ==
  /\ e \in State
  /\ live \subseteq Temp
  /\ due \in live \cup {NoTemp}

(* Every operand an instruction reads is the one the IR names, whatever was *)
(* left out because a scratch register was thought to hold it; code misled  *)
(* by one of the untracked overwrites is the exception.                     *)
OperandsRight == e.ok \/ e.misled

(* What the emitter believes is true, unless one of the untracked           *)
(* overwrites took a scratch register: one that tracks a Temp holds it, and *)
(* every Temp still needed is where the allocator put it, but for the one   *)
(* that the next instruction takes from r7.                                 *)
BeliefsTrue ==
  ~e.misled =>
    /\ e.a # NoTemp /\ A \notin e.stale => e.reg[A] = e.a
    /\ e.c # NoTemp /\ C \notin e.stale => e.reg[C] = e.c
    /\ \A t \in live :
         IF t = due THEN e.a = t /\ A \notin e.stale
         ELSE IF e.home[t] = Spilled THEN e.mem[t] = t
         ELSE e.reg[e.home[t]] = t
=============================================================================
