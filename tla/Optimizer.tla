------------------------------- MODULE Optimizer -------------------------------
(***************************************************************************)
(* The optimiser of compiler.py: inline once, then fold and dce in turn     *)
(* until the number of instructions stays the same or the limit is reached. *)
(* One step is one pass over the whole program.                             *)
(***************************************************************************)
EXTENDS DeadCode, Inlining

CONSTANTS
  Programs,     \* what irgen may hand over
  Inputs,       \* words the first external call may return
  Behaviour(_, _, _),   \* what a program does for an input, while so many instructions are run
  RoundLimit    \* 5 in the code

VARIABLES
  prog,        \* the program
  stage,       \* the pass that comes next
  inlineable,  \* the functions that calls are replaced by
  todo,        \* functions into which phase 2 of the inliner still goes
  counter,     \* calls replaced so far
  round,       \* iterations of fold and dce started
  before,      \* instructions before this iteration
  meaning,     \* history: what the original program does, by input
  exempt       \* history: the known ways in which the result may differ

inliner == <<inlineable, todo, counter>>
vars == <<prog, stage, inliner, round, before, meaning, exempt>>

-----------------------------------------------------------------------------
(* What irgen hands over. *)

IsSeq(s) == Len(s) \in Nat /\ s = [k \in 1 .. Len(s) |-> s[k]]

\* Words of a call of a function of the program are as many as its parameters have.
ArgumentsFit(P, i) ==
  i.op \in Direct /\ i.sym \in FunctionNames(P) => Len(i.args) = Len(ParamWords(Function(P, i.sym)))

\* Names that the passes make for labels are not among those of irgen.
IsLabelName(l) ==
  /\ IsSeq(l) /\ l # <<>> /\ l[1] # ".__tce_"
  /\ Len(l) > 1 => l[Len(l) - 1] \notin {"__i", "._inline_exit"}

IsInstruction(i) ==
  /\ i = Wide(i.op, i.dst, i.hi, i.sym, i.addr, i.args) /\ IsSeq(i.args)
  /\ i.op \in {"label"} \cup Jumps => IsLabelName(i.sym)

\* The code does not run past its end, and a jump has one label to go to.
IsFunction(f) ==
  /\ f = [name |-> f.name, params |-> f.params, wide |-> f.wide, variadic |-> f.variadic,
          code |-> f.code, static |-> f.static, always |-> f.always, builtin |-> f.builtin]
  /\ IsSeq(f.name) /\ IsSeq(f.params) /\ IsSeq(f.code)
  /\ \A k \in DOMAIN f.code : IsInstruction(f.code[k])
  /\ \E k \in DOMAIN f.code : f.code[k].op \in {"jump"} \cup Returns
  /\ \A k \in DOMAIN f.code : f.code[k].op \in Jumps =>
       \E at \in DOMAIN f.code : LabelsAt(f.code, f.code[k].sym) = {at}

IsProgram(P) ==
  /\ IsSeq(P) /\ Main \in FunctionNames(P)
  /\ \A k \in DOMAIN P : IsFunction(P[k])
  /\ \A k, m \in DOMAIN P : P[k].name = P[m].name => k = m
  /\ \A k \in DOMAIN P : \A j \in DOMAIN P[k].code : ArgumentsFit(P, P[k].code[j])

ASSUME ProgramsAssumption == \A P \in Programs : IsProgram(P)
ASSUME RoundLimitAssumption == RoundLimit \in Nat \ {0}

InstrCount(P) == Total([k \in DOMAIN P |-> Len(P[k].code)])

Init ==
  /\ prog \in Programs
  /\ stage = "inline"
  /\ inlineable = {}
  /\ todo = {}
  /\ counter = 0
  /\ round = 0
  /\ before = InstrCount(prog)
  /\ meaning = [n \in Inputs |-> Behaviour(prog, n, Fuel)]
  /\ exempt = {}

-----------------------------------------------------------------------------
(* What makes a program differ after all; each is the subject of a run or of
   a section of the README. *)

Exceptions == {"param", "alias", "frame", "wide", "pointer"}
When(differs, x) == IF differs THEN {x} ELSE {}

Assigned(code) == {code[k].addr[2] : k \in {k \in DOMAIN code : WritesVar(code[k])}}

\* An inlined function assigns to a parameter, or takes its address.
ParamWritten(P, inlined) ==
  \E k \in DOMAIN P : /\ P[k].name \in inlined
                      /\ ToSet(P[k].params) \cap (Assigned(P[k].code) \cup Escaped(P[k].code)) # {}

\* Variables that a pointer may lead to; what is added to it leaves it within
\* the same variable.
PointedTo(code, o) ==
  LET def(q) == {code[k] : k \in {k \in DOMAIN code : IsTemp(q) /\ q[2] \in Defs(code[k])}}
      base[n \in 0 .. Len(code)] ==
        IF n = 0 THEN [operand |-> o, found |-> FALSE]
        ELSE LET last == base[n - 1]
                 sum == {i \in def(last.operand) : def(last.operand) = {i} /\ i.op = "binop"}
             IN  IF last.found THEN last
                 ELSE IF sum = {} THEN [last EXCEPT !.found = TRUE]
                 ELSE [last EXCEPT !.operand = (CHOOSE i \in sum : TRUE).args[1]]
      root == base[Len(code)].operand
  IN  IF \E i \in def(root) : def(root) = {i} /\ i.op = "addrof"
      THEN {(CHOOSE i \in def(root) : TRUE).sym[2]} ELSE Escaped(code)

\* Within a block a variable is read by name and then written to through a
\* pointer, perhaps, or in a call that returns two words.
Aliased(P) ==
  \E k \in DOMAIN P : LET code == P[k].code IN
    \E r \in {r \in DOMAIN code : code[r].op = "copy" /\ IsVar(code[r].args[1])} :
      LET v == code[r].args[1][2] IN
      /\ v \in Escaped(code)
      /\ \E w \in r + 1 .. Len(code) :
           /\ \/ code[w].op \in {"store", "lstore"} /\ ~IsVar(code[w].addr) /\ v \in PointedTo(code, code[w].addr)
              \/ code[w].op \in {"lcall", "lcallptr"}
           /\ \A m \in r .. w : code[m].op \notin Barrier

\* Parameters are counted where words are meant: a function with a parameter
\* of two words is inlined, its tail calls become jumps, or it loses parameters;
\* and so does a function whose result has two words, at its own calls.
WideInlined(P, inlined) == \E k \in DOMAIN P : P[k].wide # {} /\ P[k].name \in inlined
WideTailCall(P) == \E k \in DOMAIN P : P[k].wide # {} /\ Label(TailEntry(P[k])) \in ToSet(P[k].code)
WideDropped(P, new) ==
  \E k \in DOMAIN new :
    LET old == Function(P, new[k].name) IN
    /\ new[k].params # old.params
    /\ (old.wide # {} \/ \E m \in DOMAIN P : \E j \in DOMAIN P[m].code :
                            P[m].code[j].op = "lcall" /\ P[m].code[j].sym = old.name)

\* A call of two words through a variable does not count as a read of it: of two
\* stores to it the first is removed, and a parameter goes.
CalledThrough(f) ==
  {f.code[j].args[1][2] : j \in {j \in DOMAIN f.code : f.code[j].op = "lcallptr" /\ IsVar(f.code[j].args[1])}}
PointerForgotten(P, new) ==
  \E k \in DOMAIN new : \E v \in CalledThrough(new[k]) :
    Cardinality({j \in DOMAIN P[k].code : StoresVar(P[k].code[j]) /\ P[k].code[j].addr[2] = v}) > 1
PointerDropped(P, new) ==
  \E k \in DOMAIN new :
    CalledThrough(new[k]) \cap (ToSet(Function(P, new[k].name).params) \ ToSet(new[k].params)) # {}

\* The address of a variable outlives the activation that a tail call reuses.
FrameReused(P) == \E k \in DOMAIN P : Escaped(P[k].code) # {} /\ TailCalls(P[k]) # {}

-----------------------------------------------------------------------------
\* inline() is done with program P, fold and dce begin.
StartFolding(P, known) ==
  /\ before' = InstrCount(P)
  /\ stage' = "fold"
  /\ round' = 1
  /\ exempt' = known \cup When(Aliased(P), "alias") \cup When(FrameReused(P), "frame")

\* inline(): which functions calls may be replaced by; it returns if there are none.
RunInline ==
  /\ stage = "inline"
  /\ inlineable' = Inlineable(prog)
  /\ LET known == exempt \cup When(ParamWritten(prog, inlineable'), "param")
                         \cup When(WideInlined(prog, inlineable'), "wide")
     IN  IF inlineable' = {} THEN StartFolding(prog, known)
         ELSE /\ stage' = "collapse"
              /\ exempt' = known
              /\ UNCHANGED <<round, before>>
  /\ UNCHANGED <<prog, todo, counter, meaning>>

\* The calls of set S in function k are replaced.
InlineInto(k, S) ==
  LET x == InlineCalls(prog, prog[k], S, counter)
  IN  /\ prog' = [prog EXCEPT ![k].code = x.code]
      /\ counter' = x.counter

\* Phase 1: always_inline functions go into inlineable ones, into the first
\* that calls one, until none does.
Collapse ==
  /\ stage = "collapse"
  /\ Pending(prog, inlineable) # {}
  /\ InlineInto(Min(Pending(prog, inlineable)), AlwaysInline(prog, inlineable))
  /\ UNCHANGED <<stage, inlineable, todo, round, before, meaning, exempt>>

Collapsed ==
  /\ stage = "collapse"
  /\ Pending(prog, inlineable) = {}
  /\ inlineable' = Final(prog, inlineable)
  /\ todo' = {k \in DOMAIN prog : prog[k].name \notin Final(prog, inlineable)}
  /\ stage' = "expand"
  /\ UNCHANGED <<prog, counter, round, before, meaning, exempt>>

\* Phase 2: the functions that are left, once each.
Expand ==
  /\ stage = "expand"
  /\ todo # {}
  /\ InlineInto(Min(todo), inlineable)
  /\ todo' = todo \ {Min(todo)}
  /\ UNCHANGED <<stage, inlineable, round, before, meaning, exempt>>

Expanded ==
  /\ stage = "expand"
  /\ todo = {}
  /\ StartFolding(prog, exempt)
  /\ UNCHANGED <<prog, inliner, meaning>>

RunFold ==
  /\ stage = "fold"
  /\ prog' = Fold(prog)
  /\ stage' = "dce"
  /\ exempt' = exempt \cup When(WideTailCall(prog'), "wide")
                      \cup When(PointerForgotten(prog, prog'), "pointer")
  /\ UNCHANGED <<inliner, round, before, meaning>>

RunDce ==
  /\ stage = "dce"
  /\ prog' = Dce(prog)
  /\ before' = InstrCount(prog')
  /\ CASE ~TempsVerified(prog') -> stage' = "aborted" /\ UNCHANGED round
       [] TempsVerified(prog') /\ (InstrCount(prog') = before \/ round = RoundLimit) ->
            stage' = "done" /\ UNCHANGED round
       [] OTHER -> stage' = "fold" /\ round' = round + 1
  /\ exempt' = exempt \cup When(WideDropped(prog, prog'), "wide")
                      \cup When(PointerDropped(prog, prog'), "pointer")
  /\ UNCHANGED <<inliner, meaning>>

Next == RunInline \/ Collapse \/ Collapsed \/ Expand \/ Expanded \/ RunFold \/ RunDce

Spec == Init /\ [][Next]_vars

-----------------------------------------------------------------------------
\* A type for every variable; main stays, and every function has code.
TypeOK ==
  /\ stage \in {"inline", "collapse", "expand", "fold", "dce", "done", "aborted"}
  /\ round \in 0 .. RoundLimit
  /\ before \in Nat
  /\ exempt \subseteq Exceptions
  /\ Main \in FunctionNames(prog)
  /\ \A k \in DOMAIN prog : prog[k].code # <<>>

\* Whatever the original program does, the program does after every pass: the
\* same external calls with the same arguments in the same order, the same
\* result, and it ends - for every input on which the original is defined.
\* Every Temp that is used has a definition, so that verify_temps never fires.
SameBehaviour == \A n \in Inputs :
  meaning[n].end = "done" => Behaviour(prog, n, 3 * Fuel) = meaning[n]

MeaningKept == TempsVerified(prog) /\ (exempt = {} => SameBehaviour)

\* A call of a function of the program has as many argument words as the
\* function has words of parameters, although inlining, tail calls and
\* dead-argument removal change both.
CallsAgree ==
  "wide" \notin exempt =>
    \A k \in DOMAIN prog : \A j \in DOMAIN prog[k].code : ArgumentsFit(prog, prog[k].code[j])

\* Every jump has one place to go to, although labels are removed, renamed and
\* inserted: its label is there, and once; or all there are stand at the start
\* of the function, one after the other, where tail calls lead.
Lands(code, l) ==
  \E at \in DOMAIN code : LabelsAt(code, l) = {at} \/ LabelsAt(code, l) = 1 .. at

JumpsLand ==
  \A k \in DOMAIN prog : \A j \in DOMAIN prog[k].code :
    prog[k].code[j].op \in Jumps => Lands(prog[k].code, prog[k].code[j].sym)

\* After every pass the program is whole: what its instructions name is there.
CodeWhole == CallsAgree /\ JumpsLand

\* Calls of always_inline functions are gone after inlining, through chains of
\* any depth (inline.py, phase 1), unless the function must not be inlined.
ChainsCollapsed ==
  stage \notin {"inline", "collapse", "expand"} =>
    \A k \in DOMAIN prog : CallsInline(prog[k]) \cap AlwaysInline(prog, inlineable \cap FunctionNames(prog)) = {}
=============================================================================
