------------------------------- MODULE CallFrame -------------------------------
(***************************************************************************)
(* The calling convention as codegen.py emits it: _gen_call passes the      *)
(* arguments, the prologue of _gen_func builds the frame, _gen_epilogue     *)
(* takes it down.  Every function of a chain of calls uses one stack.       *)
(*                                                                          *)
(*   [sp .. ]                      outgoing stack arguments                 *)
(*   [sp + outgoing .. ]           parameters, then locals: up to F         *)
(*   [sp + F .. ]                  argument registers (variadic functions)  *)
(*   [sp + F + VS .. ]             saved callee-saved registers             *)
(*   [sp + F + VS + CS]            saved link register (non-leaf functions) *)
(*   [sp + total .. ]              the caller's frame                       *)
(*                                                                          *)
(* A value is named after what it is: <<"arg", d, i>> is argument i of the  *)
(* call that runs at depth d, <<"own", d, k>> what that function keeps in   *)
(* its k-th local or in register k.                                         *)
(***************************************************************************)
EXTENDS Integers, Sequences, FiniteSets

CONSTANTS
  NumArgRegs,    \* ARG_REGS has 6
  CalleeSaved,   \* r19..r29
  StackTop,      \* bound: words of stack
  MaxDepth,      \* bound: active calls
  MaxArgs,       \* bound: words of arguments
  Shapes         \* the functions: what codegen knows of each

Shape ==
  [outgoing : Nat,             \* _max_outgoing_stack_slots
   named    : 0 .. MaxArgs,    \* declared parameters: len(func.params)
   params   : 0 .. MaxArgs,    \* the words they take: a long takes two
   locals   : Nat,             \* other slots of FuncContext
   variadic : BOOLEAN,
   saves    : SUBSET CalleeSaved,  \* _detect_callee_saves
   leaf     : BOOLEAN]

ASSUME CallAssumption ==
  /\ NumArgRegs \in Nat /\ MaxArgs \in Nat /\ StackTop \in Nat /\ MaxDepth \in Nat
  /\ CalleeSaved \subseteq Nat /\ IsFiniteSet(CalleeSaved)
  /\ \A r \in CalleeSaved : r > NumArgRegs
  /\ Shapes \subseteq Shape

VARIABLES
  frames,   \* the active functions, the running one last
  mem, sp, reg, lr,
  pending,  \* the call made, until the prologue has run
  fetched   \* what the last va_arg of the running function read

vars == <<frames, mem, sp, reg, lr, pending, fetched>>

Value == {"junk", "own", "arg", "return"} \X Nat \X Nat
Junk == <<"junk", 0, 0>>
NoCall == [shape |-> "none"]
Nothing == [index |-> 0, value |-> Junk]

ArgRegs == 1 .. NumArgRegs
Depth == Len(frames)
Top == frames[Depth]
Slots(s) == s.outgoing + s.params + s.locals                        \* F
SpillWords(s) == IF s.variadic THEN NumArgRegs ELSE 0               \* VS
LrWords(s) == IF s.leaf THEN 0 ELSE 1
Total(s) == Slots(s) + SpillWords(s) + Cardinality(s.saves) + LrWords(s)

(* Mutant: the saved registers are forgotten.                               *)
LrSlotLow(s) == Slots(s) + SpillWords(s)

(* sorted(saves): the place of register r among the saved ones.             *)
SaveSlot(s, r) ==
  Slots(s) + SpillWords(s) + Cardinality({q \in s.saves : q < r})
LrSlot(s) == Slots(s) + SpillWords(s) + Cardinality(s.saves)

Init ==
  /\ frames = <<>>
  /\ mem = [w \in 0 .. StackTop - 1 |-> Junk]
  /\ sp = StackTop
  /\ reg = [r \in ArgRegs \cup CalleeSaved |-> <<"own", 0, r>>]
  /\ lr = Junk
  /\ pending = NoCall
  /\ fetched = Nothing

-----------------------------------------------------------------------------
Running == pending = NoCall /\ frames # <<>> /\ Top.busy

(* _max_outgoing_stack_slots: the words a call needs in the outgoing area.  *)
OverflowShort(n) == n - NumArgRegs - 1                              \* mutant
Overflow(n) == n - NumArgRegs

(* _gen_call: register arguments, then the others at the bottom of the      *)
(* caller's frame.  The first call is the runtime's, of main.               *)
Call ==
  \E s \in Shapes, n \in 0 .. MaxArgs :
    /\ pending = NoCall
    /\ Depth < MaxDepth
    /\ IF s.variadic THEN n >= s.params ELSE n = s.params
    /\ IF frames = <<>> THEN n <= NumArgRegs
       ELSE Running /\ ~Top.shape.leaf /\ Overflow(n) <= Top.shape.outgoing
    /\ sp >= Total(s)                      \* the stack does not overflow
    /\ reg' = [r \in DOMAIN reg |->
                 IF r \in CalleeSaved THEN reg[r]
                 ELSE IF r <= n THEN <<"arg", Depth + 1, r>> ELSE Junk]
    /\ mem' = [w \in DOMAIN mem |->
                 IF w - sp \in 0 .. n - NumArgRegs - 1
                   THEN <<"arg", Depth + 1, w - sp + NumArgRegs + 1>> ELSE mem[w]]
    /\ lr' = <<"return", Depth + 1, 0>>
    /\ pending' = [shape |-> s, args |-> n]
    /\ fetched' = Nothing
    /\ UNCHANGED <<frames, sp>>

(* The prologue.  Saved registers first; then the argument registers of a   *)
(* variadic function; then every parameter word to its slot.                *)
ParamBelowSaves(s, base, i) ==                                      \* mutant
  IF i <= NumArgRegs THEN reg[i] ELSE mem[base + Slots(s) + i - NumArgRegs - 1]
Param(s, base, i) ==
  IF i <= NumArgRegs THEN reg[i] ELSE mem[base + Total(s) + i - NumArgRegs - 1]

Prologue ==
  /\ pending # NoCall
  /\ LET s == pending.shape
         base == sp - Total(s)
     IN  /\ sp' = base
         /\ mem' = [w \in DOMAIN mem |->
              LET k == w - base IN
              IF k \in s.outgoing .. s.outgoing + s.params - 1
                THEN Param(s, base, k - s.outgoing + 1)
              ELSE IF s.variadic /\ k - Slots(s) + 1 \in ArgRegs
                THEN reg[k - Slots(s) + 1]
              ELSE IF \E r \in s.saves : SaveSlot(s, r) = k
                THEN reg[CHOOSE r \in s.saves : SaveSlot(s, r) = k]
              ELSE IF ~s.leaf /\ k = LrSlot(s) THEN lr
              ELSE mem[w]]
         /\ frames' = Append(frames,
              [shape |-> s, args |-> pending.args, busy |-> FALSE, ap |-> -1, taken |-> 0,
               entry |-> [sp |-> sp, lr |-> lr, saved |-> [r \in CalleeSaved |-> reg[r]]]])
  /\ pending' = NoCall
  /\ UNCHANGED <<reg, lr, fetched>>

(* IVaStart: the address of the first argument after the named ones.        *)
VaStart(s) == sp + Slots(s) + s.named

(* The function's own code: it fills its slots and the callee-saved         *)
(* registers it was given.  Parameters may be overwritten too.              *)
Work ==
  /\ pending = NoCall /\ frames # <<>> /\ ~Top.busy
  /\ LET s == Top.shape IN
       /\ mem' = [w \in DOMAIN mem |->
            IF w - sp \in s.outgoing .. Slots(s) - 1
              THEN <<"own", Depth, w - sp>> ELSE mem[w]]
       /\ reg' = [r \in DOMAIN reg |->
            IF r \in s.saves THEN <<"own", Depth, r>>
            ELSE IF r \in ArgRegs THEN Junk ELSE reg[r]]
       /\ frames' = [frames EXCEPT ![Depth] =
            [@ EXCEPT !.busy = TRUE, !.ap = IF s.variadic THEN VaStart(s) ELSE -1]]
  /\ UNCHANGED <<sp, lr, pending, fetched>>

(* IVaArg and the addition after it.                                        *)
VaArg ==
  /\ Running /\ Top.shape.variadic
  /\ LET index == Top.shape.params + Top.taken + 1 IN
       /\ index <= Top.args           \* the program asks for no more than it got
       /\ Top.ap \in DOMAIN mem
       /\ fetched' = [index |-> index, value |-> mem[Top.ap]]
  /\ frames' = [frames EXCEPT ![Depth] =
                  [@ EXCEPT !.ap = Top.ap + 1, !.taken = Top.taken + 1]]
  /\ UNCHANGED <<mem, sp, reg, lr, pending>>

(* Mutant: the link register's word is popped twice.                        *)
ReleasedTwice(s) == Total(s) + LrWords(s)
Released(s) == Total(s)

(* _gen_epilogue; what is below the stack pointer is nobody's afterwards.   *)
Return ==
  /\ Running
  /\ LET s == Top.shape IN
       /\ reg' = [r \in DOMAIN reg |->
            IF r \in s.saves THEN mem[sp + SaveSlot(s, r)]
            ELSE IF r \in ArgRegs THEN Junk ELSE reg[r]]
       /\ lr' = IF s.leaf THEN lr ELSE mem[sp + LrSlot(s)]
       /\ sp' = sp + Released(s)
  /\ mem' = [w \in DOMAIN mem |-> IF w < sp' THEN Junk ELSE mem[w]]
  /\ frames' = SubSeq(frames, 1, Depth - 1)
  /\ fetched' = Nothing
  /\ UNCHANGED pending

Next == Call \/ Prologue \/ Work \/ VaArg \/ Return

Spec == Init /\ [][Next]_vars

-----------------------------------------------------------------------------
(* What the model keeps of an active function; `entry` is the state at its  *)
(* call, which only the properties look at.                                 *)
Frame ==
  [shape : Shapes, args : 0 .. MaxArgs, busy : BOOLEAN,
   ap : Int, taken : Nat,          \* va_list, and how often va_arg moved it
   entry : [sp : 0 .. StackTop, lr : Value, saved : [CalleeSaved -> Value]]]

TypeOK ==
  /\ sp \in 0 .. StackTop
  /\ mem \in [0 .. StackTop - 1 -> Value]
  /\ reg \in [ArgRegs \cup CalleeSaved -> Value]
  /\ lr \in Value
  /\ frames \in Seq(Frame) /\ Len(frames) <= MaxDepth
  /\ pending \in {NoCall} \cup [shape : Shapes, args : 0 .. MaxArgs]

(* The address of frame d, from the frames below it.                        *)
Base(d) == frames[d].entry.sp - Total(frames[d].shape)

(* Whatever runs above it, a suspended function keeps its locals, at every  *)
(* moment the frames lie one under the other without a gap, and a caller    *)
(* finds its callee-saved registers unchanged after each call.              *)
FramesIntact ==
  /\ Running => \A r \in Top.shape.saves : reg[r] = <<"own", Depth, r>>
  /\ \A d \in DOMAIN frames :
       LET s == frames[d].shape IN
       /\ frames[d].entry.sp = IF d = 1 THEN StackTop ELSE Base(d - 1)
       /\ frames[d].busy =>
            \A k \in s.outgoing .. Slots(s) - 1 : mem[Base(d) + k] = <<"own", d, k>>

(* Every argument arrives.  When the prologue is done, a parameter's slot   *)
(* holds the argument of that position, passed in a register or on the      *)
(* stack; and va_arg finds the variadic arguments that came in registers,   *)
(* when every named parameter is one word.                                  *)
ArgumentsReceived ==
  frames # <<>> =>
    /\ ~Top.busy => \A i \in 1 .. Top.shape.params :
         mem[sp + Top.shape.outgoing + i - 1] = <<"arg", Depth, i>>
    /\ Top.shape.named = Top.shape.params /\ fetched.index \in ArgRegs
         => fetched.value = <<"arg", Depth, fetched.index>>

(* A function returns to where it was called, with the stack pointer and    *)
(* all callee-saved registers as its caller left them, whatever it and the  *)
(* functions it called did to them.                                         *)
Restored ==
  Len(frames') < Len(frames) =>
    /\ sp' = Top.entry.sp
    /\ lr' = Top.entry.lr
    /\ \A r \in CalleeSaved : reg'[r] = Top.entry.saved[r]
ReturnRestores == [][Restored]_vars
=============================================================================
