------------------------------ MODULE FrameSlots ------------------------------
(***************************************************************************)
(* codegen.FuncContext, the allocator of stack slots, and how _gen_func     *)
(* uses two of them.  A dry run over the instructions finds the size of the *)
(* frame; the saved registers lie right above it.  Then the code is         *)
(* generated with a second context, which gives slots out again, in another *)
(* order: all Vars first, and nothing for a Temp whose store was left out.  *)
(* The two runs are stepped together, one operand at a time.                *)
(*                                                                          *)
(* Temps that have a register never get a slot and are not modelled.        *)
(***************************************************************************)
EXTENDS Integers, FiniteSets

CONSTANTS
  Temp,      \* spilled Temps
  Var,       \* scalar locals
  Fixed      \* outgoing area, parameters and blocks, given out up front

ASSUME FrameAssumption ==
  /\ IsFiniteSet(Temp) /\ IsFiniteSet(Var) /\ Temp \cap Var = {}
  /\ Fixed \in Nat

VARIABLES
  real, dry,   \* the two contexts
  live,        \* Temps defined and not past their last use
  unscanned,   \* Vars the real context has not been asked for
  unseen       \* Vars no instruction has named yet

vars == <<real, dry, live, unscanned, unseen>>

NoSlot == -1
Operand == Temp \cup Var

(* FuncContext: _slots, _free (which recycled slot is taken does not        *)
(* matter), _next.  _peak is _next, which never decreases.                  *)
Context == [slot : [Operand -> Nat \cup {NoSlot}], free : SUBSET Nat, next : Nat]

Start == [slot |-> [x \in Operand |-> NoSlot], free |-> {}, next |-> Fixed]

(* Mutant: a Var takes a recycled slot.                                     *)
AllocPermanentRecycled(ctx, v) ==
  IF ctx.slot[v] # NoSlot THEN ctx
  ELSE IF ctx.free # {}
    THEN LET s == CHOOSE s \in ctx.free : TRUE
         IN  [ctx EXCEPT !.slot[v] = s, !.free = @ \ {s}]
    ELSE [ctx EXCEPT !.slot[v] = ctx.next, !.next = @ + 1]

AllocPermanent(ctx, v) ==
  IF ctx.slot[v] # NoSlot THEN ctx
  ELSE [ctx EXCEPT !.slot[v] = ctx.next, !.next = @ + 1]

(* Mutant: a Temp defined a second time gets a second slot.                 *)
AllocTempAgain(ctx, t) == [ctx EXCEPT !.slot[t] = ctx.next, !.next = @ + 1]

AllocTemp(ctx, t) ==
  IF ctx.slot[t] # NoSlot THEN ctx
  ELSE IF ctx.free # {}
    THEN LET s == CHOOSE s \in ctx.free : TRUE
         IN  [ctx EXCEPT !.slot[t] = s, !.free = @ \ {s}]
    ELSE [ctx EXCEPT !.slot[t] = ctx.next, !.next = @ + 1]

SlotsOf(ctx, dead) == {ctx.slot[t] : t \in {t \in dead : ctx.slot[t] # NoSlot}}
Without(slot, dead) == [x \in Operand |-> IF x \in dead THEN NoSlot ELSE slot[x]]

(* Mutants: the slot stays with the dead Temp; a Temp without a slot is     *)
(* freed too.                                                               *)
FreeDeadTempsKept(ctx, dead) == [ctx EXCEPT !.free = @ \cup SlotsOf(ctx, dead)]
FreeDeadTempsAny(ctx, dead) ==
  [ctx EXCEPT !.free = @ \cup {ctx.slot[t] : t \in dead},
              !.slot = Without(ctx.slot, dead)]

FreeDeadTemps(ctx, dead) ==
  [ctx EXCEPT !.free = @ \cup SlotsOf(ctx, dead),
              !.slot = Without(ctx.slot, dead)]

-----------------------------------------------------------------------------
Init ==
  /\ real = Start
  /\ dry = Start
  /\ live = {}
  /\ unscanned = Var
  /\ unseen = Var

(* The real context is asked for every Var before any code is generated.    *)
PreScan ==
  \E v \in unscanned :
    /\ real' = AllocPermanent(real, v)
    /\ unscanned' = unscanned \ {v}
    /\ UNCHANGED <<dry, live, unseen>>

Generating == unscanned = {}

(* An instruction names a Var.                                              *)
NameVar ==
  /\ Generating
  /\ \E v \in Var :
       /\ dry' = AllocPermanent(dry, v)
       /\ real' = AllocPermanent(real, v)
       /\ unseen' = unseen \ {v}
  /\ UNCHANGED <<live, unscanned>>

(* An instruction defines a Temp, a second time, perhaps.  The generated    *)
(* code never stores the result of a fused compare, nor that of an IVaStart *)
(* whose value the next instruction takes from a scratch register.          *)
Define ==
  /\ Generating
  /\ \E t \in Temp, stored \in BOOLEAN :
       /\ ~stored => t \notin live
       /\ dry' = AllocTemp(dry, t)
       /\ real' = IF stored THEN AllocTemp(real, t) ELSE real
       /\ live' = live \cup {t}
  /\ UNCHANGED <<unscanned, unseen>>

(* The end of an instruction that is the last to need some Temps.           *)
EndOfInstruction ==
  /\ Generating
  /\ \E dead \in SUBSET live :
       /\ dry' = FreeDeadTemps(dry, dead)
       /\ real' = FreeDeadTemps(real, dead)
       /\ live' = live \ dead
  /\ UNCHANGED <<unscanned, unseen>>

Next == PreScan \/ NameVar \/ Define \/ EndOfInstruction

Spec == Init /\ [][Next]_vars

-----------------------------------------------------------------------------
TypeOK ==
  /\ real \in Context /\ dry \in Context
  /\ live \subseteq Temp
  /\ unscanned \subseteq Var /\ unseen \subseteq Var

(* When the dry run has seen every Var, the generated code needs no slot    *)
(* beyond the frame it computed: no slot lies in the area where the         *)
(* prologue saves registers.                                                *)
FrameSuffices == real.next <= dry.next + Cardinality(unseen)

(* No two operands of a context share a slot, none lies in the part given   *)
(* out up front, and every other slot up to the end of the frame is on the  *)
(* free list: slots are recycled, so that the frame only grows when every   *)
(* slot is taken.                                                           *)
Owned(ctx) == {x \in Operand : ctx.slot[x] # NoSlot}
Partitioned(ctx) ==
  /\ \A x, y \in Owned(ctx) : ctx.slot[x] = ctx.slot[y] => x = y
  /\ {ctx.slot[x] : x \in Owned(ctx)} = (Fixed .. ctx.next - 1) \ ctx.free
SlotsPartitioned == Partitioned(real)

(* A Temp's slot does not move while the Temp is needed, nor does a Var's.  *)
SlotsStay ==
  [][\A x \in Operand :
       /\ x \in Var \/ x \in live \cap live'
       /\ real.slot[x] # NoSlot
       => real'.slot[x] = real.slot[x]]_vars
=============================================================================
