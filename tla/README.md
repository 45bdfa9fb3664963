# A verification project for c2r316

c2r316 compiles a subset of C to assembly for the R316, a 16-bit machine with 31
registers. This directory holds TLA+ modules for the parts of the compiler where
a mistake silently produces wrong code, TLC configurations that check them on
small instances, and TLAPS proofs that hold for every instance.

## 1. The system

`compiler.py` runs a pipeline of passes, each of which runs to its end before
the next begins:

    preprocess -> lex -> parse -> analyse -> irgen -> (inline, fold, dce)* -> codegen

Nothing runs concurrently and nothing is persisted between runs, so there is no
interleaving of processes and no recovery from crashes to model. What is hard is
of another kind: passes keep *beliefs* about the code they emit (which register
holds which Temp, which stack slot is free, which value a variable has, which
registers a call destroys) and act on them many instructions later. A belief that
is stale, or an order of reads and writes that destroys a value still needed,
gives a program that is wrong only for particular shapes of code. The models
therefore put the pass *and the machine that executes what it emits* side by
side: the pass acts on what it believes, the machine knows what is true. Where a
pass translates, the models hold the meaning of both languages and compare them.

| part | source | state it keeps | operations | what makes it correct |
|---|---|---|---|---|
| Register allocator | `compiler/regalloc.py` | free pools, active list, assignment, callee-saved registers used | expire, pick, evict, leave in memory | Temps needed together never share a register; a Temp needed across a call or an asm statement is in a register that survives it; no register is leaked |
| Code generator, instructions | `compiler/codegen.py`, `_gen_instr` and helpers | `_scratch_a_temp`, `_scratch_c_temp`, the RegMap | one handler per IR instruction | every operand read is the value the IR names, although loads are left out |
| Code generator, arithmetic | `_gen_binop`, `_gen_compare`, `_find_fused_cmps`, `_gen_long_...` | the flags of the machine | an instruction, and jumps on its flags | a comparison, fused or not, is decided as C decides it; carries reach the high word |
| Code generator, inline asm | `_gen_inline_asm` | current place of each operand, operands loaded | load, park, emit text, store outputs | operands reach their registers from any placement; outputs reach their Temps; nothing else is disturbed |
| Code generator, stack slots | `FuncContext`, `_gen_func` | slot map, free list, next slot, peak | give a slot, free dead Temps; a dry run, then the run that emits | the frame computed by the dry run is large enough; no two live operands share a slot |
| Code generator, calls | `_gen_func`, `_gen_call`, `_gen_epilogue` | frame layout | call, prologue, va_start, va_arg, return | arguments arrive, frames stay intact, registers and return address are restored |
| IR | `compiler/ir.py` | instruction lists | what an instruction defines and uses | - |
| Folding, copy propagation, CSE | `compiler/fold.py` | maps from Temps and Vars to values | about nine rewriting passes, repeated up to 5 times with DCE | every rewriting keeps the meaning of the function |
| Inliner | `compiler/inline.py` | call graph, inlineable set, fresh names | two phases of substitution | the callee's parameters and locals behave as if called; it terminates |
| Dead code | `compiler/dce.py` | live set, reachable functions | mark and sweep, dead functions, dead arguments | nothing observable is removed; call sites and signatures still agree |
| Preprocessor | `compiler/preprocessor.py` | macro table, stack of conditionals, files being read and files read once, lines put out | one per directive, end of file, macro expansion, conditions | exactly the selected lines are passed on, define and include; every line keeps its file and number; no file within itself; macros expand as C says; it ends |
| Lexer | `compiler/lexer.py` | position, file and line | tokens, `#line` markers | the position of a token is that of its source line |
| Parser | `compiler/parser.py` | token position, tags, typedef names, enumerators | one method per construct and one per level of operators | the tree built is the one that C means by the text; every valid text is read |
| Semantic analyser | `compiler/semantic.py`, `ast_nodes.py` | stack of scopes, types put on the tree | one method per syntax node, push and pop of a scope | a name means the innermost declaration; invalid programs are refused and valid ones are not |
| IR generator | `compiler/irgen.py` | instructions, Temp and label counters, break and continue stacks, local names and sizes, statics | one method per syntax node | the IR does what the C program does; every label is placed once; every variable has room |
| Runtime | `runtime/runtime.asm` | - | search for the end of RAM, call of `main` | the stack starts in existing memory |
| Library | `include/*.h`, `compiler/builtins.h` | - | division, 32-bit helpers, formatted output | results of the arithmetic helpers |
| Emulator, debugger | `tests/emu/*` | registers, flags, memory, breakpoints, watches | step, run until, save, restore | flags and conditions; snapshots restore what they saved |

How the modelled parts interact: the preprocessor writes `#line` markers that the
lexer follows, and asks the macro expander for every text line and every condition.
The parser hands its tree to the analyser, with typedefs and enumerators already
replaced by what they stand for. The analyser puts types on the tree and the IR generator decides by them: which
comparison, which division, how wide a value is. It hands a list of functions to the
optimiser, whose passes take its conventions (a variable per name, a Temp defined
once) for granted. `_gen_func` calls `allocate` and hands the
RegMap to `FuncContext` (Temps with a register get no slot), to the handlers
(which read and write registers or slots), to `_gen_inline_asm` and to the
prologue (`callee_used`). Inlined code changes the order of definitions and uses
that `allocate` relies on. The optimiser's passes share the lists of instructions
and nothing else, but each assumes what another leaves: dce that every Temp used is
defined, fold that a Temp defined once keeps its value, tail-call elimination that a
parameter is a variable of its own.

## 2. The modules

In the modules about the back end, registers, Temps and slots are numbers or model
values; a location holds the *name* of the value in it, never the value. The
arithmetic of the instructions does not matter there and is the subject of `Flags`. In the modules about the
optimiser a value is a number of `Width` bits or a pointer, because folding is
arithmetic and because a pass is right when it keeps the meaning of a program. In the
modules about the front end a program is a tree, and a file a list of lines, each a
record of what kind of line it is.

**Intervals** - the vocabulary of the allocator: register classes, live
intervals, `Overlap`, `MayHold`. `rN` is the number N, so the preference order of
the allocator is the natural order.

**RegisterAllocation** - the abstract allocator. It decides interval after
interval, may send earlier ones back to memory, never moves one, and keeps the
allocation `Valid` at every step. It says nothing of pools, costs or order of
preference.

**LinearScan** - `regalloc.allocate`, step 3. One step is one iteration of the
loop: `TakeFree` (`_expire`, `_pick`, `_assign`), `Evict` (`_evict` succeeds) or
`LeaveSpilled`. The list `active` is a set of interval indices; its sorting by
`end` is `Before`, which matters only for equal costs. `_spill_cost` is a
quotient; `Cheaper` compares cross-multiplied.

**LinearScanProofs** - the theorems about it.

**AllocatedCode** - steps 1 and 2 of `allocate` (`IntervalOf`: first definition,
last use, calls and clobbers strictly inside) and a machine that executes the
function with Temps in registers. An instruction has *parts*: a two-word operation
writes its low result before it reads its high operands. `Init` starts from any
allocation valid for the intervals.

**CompiledCode** - `LinearScan` and `AllocatedCode` composed: the scan allocates
the function's intervals, then the function runs.

**CompiledCodeProofs** - the theorems about `AllocatedCode` alone, from any valid
allocation, and about the two together.

**ScratchForwarding** - the emitter of `_gen_instr`. `e` is a record of what the
emitter knows (`a`, `c`, the RegMap `home`) and what is true of the machine
(`reg`, `mem`); the handlers are operators from record to record in the order of
the code's lines, so that an instruction is one step. `stale` marks a scratch
register overwritten by code that does not touch the tracking, `misled` a load
left out because of one. At a label the emitter forgets everything, so a basic
block is all that needs to be looked at.

**ScratchForwardingProofs** - the theorems about it.

**InlineAsm** - `_gen_inline_asm`: the parallel assignment of operands
(`_try_safe_loads` is stepped operand by operand), parking, the statement, the
stores of outputs.

**InlineAsmProofs** - the theorems about it.

**FrameSlots** - `FuncContext` twice, the dry run and the run that emits, stepped
together: the emitting one is first asked for every Var (`PreScan`), then a step is one
operand of an instruction (`NameVar`, `Define`) or the end of one (`EndOfInstruction`).
Stores that the emitting run leaves out (a fused compare, a `va_start` used at once)
give no slot there.

**FrameSlotsProofs** - the theorems about it.

**CallFrame** - the calling convention: chains of calls over one stack, with
every layout a frame can have.

**CallFrameProofs** - the theorems about it.

**Flags** - the arithmetic of the machine and the instructions selected for it: the
flags that `add` and `sub` set and the jumps that read them (`tests/emu`), the jump
chosen for a comparison, for a comparison and the branch after it in one
(`_find_fused_cmps`), and the sequences for two words. Between an `add` or a `sub` and the
`adc`, `sbb` or jump that uses its flags the code generator emits `mov`, `ld` and `st`
only, which set none. A sum of two words leaves 0 .. 2^Width - 1 by one modulus at most,
so `& 0xFFFF` is written `Wrapped`, a choice of three cases, which provers handle better than `%`.

**IR** - the intermediate code: all instruction classes are one record shape, with what
each defines and uses.

**IRMachine** - a machine that executes it. `Step` executes an instruction, `Meaning` runs a program and
returns what can be seen of it: its external calls with their arguments (and what
pointers among them lead to), its result, and how it ends. A program that reads what
was never written or follows what is no pointer is stuck, which stands for undefined
behaviour. Memory is a map from places (activation, variable, word) to values, so that
a struct or an array is several places in a row. Two-word instructions (`ILong...`) name
two Temps. What an operator computes is what `Flags` says of the instructions generated
for it: a comparison followed by the branch on its result, which nothing else uses
(`FusedAt`), is one jump, as in the code. The helpers for division and 32-bit multiplication that irgen calls are
modelled by their result. An external function returns a number that depends on the input and on
how many calls came before, and writes through the pointers it gets.

**Folding** - `fold.py`, one operator per pass, in the order of `fold()`: reuse of
loads and addresses, dead stores, copy propagation and folding until the length is
stable, trivial jumps, branch threading, unreachable code, self tail calls. Loops
over instructions that carry a map are folds over the sequence (`ReuseLoad`); loops
whose outcome is a set of positions are written as that set (`DeadStores`).

**DeadCode** - `dce.py`: functions, parameters, instructions, and the condition that
`verify_temps` asserts.

**Inlining** - `inline.py`: which functions are inlineable, the expansion of one
call, the first phase (chains of `always_inline` functions) and the second. Temps
are numbered from 1 here and from 0 in the code. A name is a sequence, so that the
suffix of a call site is one more element.

**Optimizer** - the three composed as `compiler.py` does: `RunInline`, then
`RunFold` and `RunDce` in turn, until nothing changes (`done`) or `verify_temps` raises
(`aborted`; see `verified` in section 3). A step is a pass over the whole program. `meaning`
is what the original program does and `exempt` which of the known divergences below
the program is exposed to; both are history. How a program's meaning is found is a constant
of the module (`Behaviour`; `Meaning` in the runs), so that the theorems need no machine. What irgen may hand over is `IsProgram`: names of functions are
different, code does not run past its end, a jump has one label to go to, no label has a
name the passes make, and the calls of a function have as many words as its parameters.

**OptimizerProofs** - the theorems about it, and those about `Flags`.

**AST** - `ast_nodes.py`: the nodes as records, the types with their sizes and the
offsets of members.

**Parser** - `parser.py`: each method is a handler from a state (tokens, position,
tags, typedefs, enumerators) to a state, and what the method returns is left on a stack
in it (`out`), so that most methods are a `Phrase`: the tokens and methods in the order
in which they are eaten and called, and then the node made of the results. After an
error (`ok` false) nothing happens any more, which is what the exception does. The ten
methods `_parse_or` to `_parse_mul` differ in their operators only and are one,
`Binary`, by level.

**Grammar** - how C writes a tree down: the tokens by the grammar and the precedences
of the standard, without a parenthesis or brace that could be left out. It is the
reference for the parser, written from the language and not from the code. A
`Dictionary` adds what a tree no longer shows: bodies of structs, typedefs, enumerators,
lengths as expressions, declarations of several names.

**Semantic** - `semantic.py`: the type of every expression, the scopes, and what is
refused. A scope is a function from names to types; entering a block is passing it
on, and leaving the block (`Leave`) is going back to the scope before.

**IRGen** - `irgen.py`: one operator per method, from the state of the generator `g`
to the state after it (the methods call each other through `Gen`, the only recursive
operator); `g` has the instructions so far, the counters of Temps and
labels, the break and continue stacks, the sizes of the locals, the statics found, the
operand just computed (`val`) and the error raised, if any. Two-word values are pairs.

**CSemantics** - what C says a program does, in the style of an interpreter over the
tree: environment, store, trace of external calls, and how control leaves a statement
(normally, break, continue, return, goto). Undefined programs are stuck. It also
notes where a program touches one of the known divergences of section 3.

**Compilation** - the way of a program from its text to optimised code: `Parse` reads
what `Grammar` writes for the program, `Analyze` checks the whole tree, then one step per declaration as `gen()` does (`GenerateVariable`,
`GeneratePrototype`, `GenerateBody`), `HandOver`, and the passes of `Optimizer`,
which is instantiated on the same variables. `MeaningKept` compares the
generated and the optimised program with the source; what single passes keep is the
subject of `Optimizer`.

**Preprocessor** - `_process` as a machine that reads one line per step, one action
per directive, over a stack of frames (the recursion of the code); a frame has the
code's stack of flags (`taking`, `ever`) and, as history, the truth of every branch so
far (`groups`), which says what C would select. Expansion and conditions are
constants of the module (`Expanded`, `Holds`, `Malformed`, `Header`), so that the theorems hold
whatever they do.

**Macros** - macro expansion and the conditions of `#if`: the code's algorithms
(`_expand_line` with its `expanding` set, `#`, `##`, variadic arguments; the
functions from `_parse_ternary` to `_parse_primary`, one per level of precedence) beside
what the standard says (hide sets carried by tokens, a tree of the expression evaluated
with C's operators). The numbers are unbounded integers, as in the code; `WordWidth`
bounds those that bitwise operators get, 12 bits in the run.

**Preprocessing** - the two put together, with the properties about the results.

**PreprocessorProofs** - the theorems about `Preprocessor`.

Each `MC...` module gives the constants of one of these for TLC. Definitions whose
comment says *mutant* are variants of the definition below them with a bug such as
the code might have had; no specification uses them, but a run with the variant in
place must fail, which shows that the property can.

## 3. The runs

Passing runs:

| run | checks | bounds | why they are enough |
|---|---|---|---|
| `linear_scan` | `TypeOK`, `AllocationValid`, `PoolsExact`, `NoNeedlessSpill`, `AllDecided`, `Refinement` | up to 3 intervals over 4 positions, one register per class, 2 use counts | with two registers a third interval must evict or spill, from either class, with ties; the safety properties are proved without bounds |
| `compiled_code` | `TypeOK`, `ReadsOwnValue` over `CompiledCode` | functions of five instructions, four Temps, one register per class | two definitions, two instructions of any kind (branch, call, asm, two-part), and reads of everything before: register reuse at the same instruction, calls and clobbers inside an interval |
| `scratch_forwarding` | `TypeOK`, `OperandsRight`, `BeliefsTrue` | 3 Temps (symmetric), 1 Var, 1 label, one register per class, 2 argument registers, up to 3 arguments | instruction sequences of any length: the state is what the emitter and the machine hold; two Temps can be tracked and a third be in a register; the properties are proved without bounds |
| `inline_asm` | `TypeOK`, `OperandsLoaded`, `OthersUndisturbed`, `OutputsArrive`, `Emitted` | up to 3 operands with any number of outputs, and 4 inputs; 4 targets, all of them also homes | four inputs can form two cycles at once; three operands already mix outputs, inputs and read-write ones; the safety properties are proved without bounds |
| `frame_slots` | `TypeOK`, `FrameSuffices`, `SlotsPartitioned`, `SlotsStay` | 3 Temps, 2 Vars | instruction sequences of any length, with any number of operands; slots run out of order between the two runs as soon as one store is left out; the properties are proved without bounds |
| `call_frame` | `TypeOK`, `FramesIntact`, `ArgumentsReceived`, `ReturnRestores` | 2 argument registers, up to 3 words of arguments, 3 active calls, a stack of 30 words (`MaxDepth`, `MaxArgs`, `StackTop`) | one argument goes over the stack; a function between two others is both caller and callee; frames differ in every field of the layout; the properties are proved without bounds |
| `optimizer` | `TypeOK`, `MeaningKept`, `CodeWhole`, `ChainsCollapsed` | 13 370 programs in eleven families, words of 2 bits, every input; `Fuel` 30 instructions for the original and 90 for the result; inlining up to 4 instructions instead of 10; 5 rounds as in the code | see below; all but `MeaningKept` are proved without bounds |
| `compilation` | `TypeOK`, `Resolved`, `AcceptedAsWritten`, `MeaningKept` | 5 544 C programs in seventeen families, words of 8 bits, `SourceFuel` 14 iterations, calls and jumps, `Fuel` 250 instructions | see below |
| `preprocessor` | `TypeOK`, `TakenRight`, `LinesMapped`, `NoFileWithinItself`, `SelectedOnly`, `ExpandedRight`, `ConditionsRight`, `Terminates` | about 20 000 worlds: every sequence of up to four of eight lines, groups with three branches and groups within them; four files in two directories that include each other, with and without guards; an object and two function macros with bodies of up to five tokens, variadic ones; expressions of eight shapes with any two operators, in 12 bits; includes named in every way, by macros too; malformed operands | a group with three branches shows what two flags must remember; a file included twice, within itself and through another are the cases of the guard; the macros can name each other and themselves; two operators show how they group |

The programs of `optimizer`: every sequence of three instructions of a menu between
the assignment and the output of two variables and a pointer (reuse of loads, copies,
stores, with branches and calls in between); both branches of `&&` and `?:`; every
arrangement of five labels, jumps and calls; every operator on every pair of operands,
constant or not; functions of two and three instructions called once, twice or through
a pointer, static or not; two and three functions that call each other, with
`always_inline` or not; self tail calls; the two-word instructions in the same
arrangements, and functions with two-word parameters and results; functions of one or
two words called through a variable that is stored twice or through a parameter. Two bits give zero, one, the largest and the
smallest signed word, which are the cases the simplifications single out. That the
menu is rich enough was tried by breaking the passes in two dozen ways (the label rule
of each reuse, the snapshot of the arguments of a tail call, the suffix of locals, the
test for recursion and for an address taken, ...): the run fails for each that changes
behaviour.

The programs of `compilation`: each family is a construct and what it is made from.
Every operator on every pair of types (`int`, `unsigned`, `char`, `long`, `unsigned
long`, pointers) with constant and computed operands; every loop with `break` and
`continue` in it, also within a `switch` and under a condition; `switch` with fall
through and `default` in any place; `goto` in and out of blocks; `&&`, `||`, `?:` with
effects on either side; assignment, compound assignment, `++` and `--` of variables,
elements, members and what pointers lead to; arrays, structs and unions with
initialisers, global, local and static; calls by name and through pointers, with the
right number of arguments and the wrong one; names used inside and outside their
block; every binary operator within every other, on either side, and the other forms of
expressions within each other; `if` and `else` in and around each other and loops;
globals declared `const`. The text has typedefs, enumerators, computed array lengths
and declarations of several names where a family has a use for them.
`AcceptedAsWritten` says that the tree read is the one written, that what C
defines is compiled and what is invalid is not. Eight bits are the least in which a `char` is no wider than a word;
`_trunc` and the sign bit use the width, as the code uses 16. The rules of `IRGen` were
besides compared with what `irgen.py` emits for a sample of such programs, and `Parser`
with `parser.py` on 3 600 sequences of tokens, a part of them valid programs and a part
the same with tokens dropped, doubled, exchanged or replaced: both accept the same ones
and build the same tree. `Parser` was also broken in more than twenty ways (the order of two
levels, a side on which operators group, the storage classes, the type that further
declarators get, ...) and the run fails for each.

The 20 744 worlds of `preprocessor` were also given to the real `preprocessor.py`: all
but 4 give the same output line for line, leaving aside the escapes of quotes within
strings. In the 4, `##` makes something that is not one token (`1b`, `f(`), which the code
cuts into tokens again and the model does not. More than 3 600 expansions and 15 900
conditions are compared with the standard without an exemption.

`CHECK_DEADLOCK FALSE` is in the configurations of programs that end: the code after
its last instruction, the stack when it is full, the compiler when it is done or has
refused the program. The preprocessor stutters when it is done (`Terminating`) and is
checked for deadlock.

### Where the code departs from C

A property that speaks of C cannot hold where the code departs from it. Each departure
met while modelling is named in the model, excused as narrowly as it can be decided,
and listed here. Of those that contradict a comment or a document, three have a run of
their own below; two are only described here: the entry label of a tail call, and what
becomes of an argument of `#` (`spelled`).

*Back end.* The labels of a comparison are named by the address of the instruction
(`id(instr)`); for `>` and `<=` of two words that is an instruction made on the spot and
freed at once (`codegen.py:1055`), so two such comparisons in a function may get the same
labels. Whether they do depends on the memory of the Python process; the compiler was seen
to do it. The models have no names of labels there.

`MCScratchForwarding` has a state constraint that drops what follows an
instruction that was `misled`: after it nothing is claimed. `_load_op` of a label or
global, and `_addr_reg` of a long Var, overwrite r7 or r9 and leave the tracking as it
was: `x = *p; L = L + 1; y = *p;` with a spilled `p` dereferences the address of `L`.
`ArgumentsReceived` speaks of functions whose named parameters are one word each:
`va_start` counts parameters and the prologue words, so that after a named `long` the
first `va_arg` reads its high word; and the words above the spilled argument registers
are the saved registers, so that `va_arg` never reaches arguments passed on the stack.
`OutputsArrive` excludes an output Temp that sits in the register of a later output,
which is overwritten before it is stored (possible with four operands or more, when the
allocator gave an output r10), and `OthersUndisturbed` excludes the parking register,
r17, which breaks a cycle of operands and is allocatable and not among the clobbers.

*Optimiser.* `MeaningKept` holds for programs whose `exempt` is empty; the exemptions
are decided from the shape of the program, `param` before inlining and the others after.

| exemption | the program | what happens |
|---|---|---|
| `param` | an inlined function assigns to a parameter or takes its address | the parameter is a Temp or a constant there, and the assignment a store to the address that has this value |
| `alias` | a variable is read by name, written through a pointer (or in a call that returns two words) and read again in the same block | the second read becomes a copy of the first; only a store to the name, a label or a call that returns one word ends the reuse |
| `frame` | a self tail call in a function that takes the address of a local | the call becomes a jump and the next round uses the same locals |
| `pointer` | a function pointer whose function returns two words is called through a variable that is stored to twice, or that is a parameter read nowhere else | `uses()` does not list a variable that is called (`ir.py:304`), and `dce.py:197` makes up for it for calls of one word only: the store before the first call is removed (`fold.py:392`), or the parameter |
| `wide` | a function with a two-word parameter is inlined, calls itself last or loses a parameter, or a function that loses a parameter returns two words | parameters are counted where words are meant (`inline.py:298`, `fold.py:633`, `dce.py:210`); a call that returns two words keeps all its arguments (`dce.py:217`) |

A comment of `_tail_call_opt` says that the entry label is unique to the function. It is
not when a second tail call appears in a later round (`return f(n-2,x) + 0*(x-n);` is one
only after folding): `fold.py:652` inserts `.__tce_f` again, at the start. The
label then stands twice in the assembly, as was seen with the compiler; what it names is
the start of the function both times. `JumpsLand` therefore lets a jump lead to
one label, or to labels that all stand at the start, one after the other.

*IR generator.* Some depend on the program (`StaticExceptions`), some on the values that
come up: those are notes of the meaning of the source, and an input that takes one is
excused, not the program.

| name | what is known |
|---|---|
| `shadow` | one flat set of local names per function; a local shadows neither a local nor a global, and the last size declared wins |
| `clause` | declarations in a clause of a `switch` or after a label get no slot, and those of a clause stay visible after the switch |
| `twice` | a compound assignment evaluates its target twice |
| `narrowed` | a `char` is cut to eight bits when it is stored by an assignment, and not in an initialiser, an argument, a result or `++`, nor is the value of the assignment itself |
| `scaled` | `++`, `--`, `+=` and `-=` of a pointer add one word whatever it points to |
| `unsigned` | the unsignedness that `semantic.py` gives an expression is not always C's (a unary minus, operands of two widths); extension to two words, division and comparison go by it |
| `target` | a pointer to something `const` is taken for a constant itself: `const int *k = 0; k = a; *k` reads address 0 |
| `longret` | a function that returns `long` and is given an `int`, or the reverse, returns one word less or more than its caller takes |
| `init` | nested initialiser lists are flattened without padding; a struct with a `long` member takes one value per word; a local struct leaves the members not named as they were |
| `Gaps` | the generator refuses, or fails on, `long` in a condition, most operators and `?:` on `long`, members of a call's result, and nested lists for statics |

A call with another number of arguments than parameters through a pointer is not
refused, `(*fp)(x)` is called as if written `fp(x)`, and an empty statement is a syntax
error wherever it stands. A declaration that is itself the statement after a label, or
the body of an `if` or a loop, is refused by the analyser (`Unknown statement type`).

*Parser.* The programs are written without what `parser.py` does not read as C does. It
refuses `sizeof(int[2])`, pointers to arrays, a typedef of an array type, `const struct
s x`, a global function pointer without a typedef (`int (*fp)(int);`, also as an array),
a first parameter `void *p` (any `void` after the parenthesis is eaten), and a star or
a dimension on a further declarator (`int x, *q`, `int a, b[3]`); in `int *a, b` and
`int a[3], b` all get the type of the first, and only the first is `const`. `for (int i
= 0, j = 3; ...)` becomes a block in the loop, after which the analyser does not know
`i`. Enumerators and typedef names are global and hold for the rest of the program,
also where a local has the same name.

*Preprocessor.* `ExpandedRight` and `ConditionsRight` excuse by the notes of an
expansion and by `same` of an expression: the code does not look at the tokens after an
expansion for the arguments of the name it ends in (`rest`); forgets, outside the
expansion, that a name was not to be expanded (`painted`); expands an argument before it
is made a string by `#` (`spelled`), although the comment at `preprocessor.py:437` says
"args used in # or ## contexts are not macro-expanded before substitution"; pastes a missing argument or the
borders of a body (`empty`); takes a call without its `)` (`open`) or with another number
of arguments (`count`). `##` in a macro without parameters is left as it is. `%` has
the sign of the divisor, division by zero gives 0 and a shift by a negative number
raises. In a skipped group an `#if` is still evaluated, one without an expression is an
error, and a `#line` is still passed on, but not a `# line`; a `#line` without a file name
has no effect. Macros are expanded between the `<` and `>` of an `#include`, and two
slashes in a file name begin a comment (not modelled);
`#elif` and `#else` after `#else` are accepted; the first file is not among those
guarded, so it may be included once; a `#line` of the source is forgotten after an
include.

### Runs that TLC must find violated

Each states what a comment or document says and shows that the code does something else:

| run | property | what happens |
|---|---|---|
| `compiled_loops` | `SurvivesCalls` | The intervals are computed in list order. In a loop the last use in the list may come before a call that control passes before it returns to the use. irgen keeps variables in memory across statements, so this needs the inliner, which turns a parameter into a Temp defined before the loop. The Temp gets a caller-saved register and the second iteration reads what the call left in it. |
| `verified` | `AssertionHolds` | `while (n < 3) { n++; { break; if (y && n) out(5); else out(6); } }`: what follows the `break` is removed up to the next label, which is that at the end of `&&` and reached from nothing; the Temp used after it has lost its definition, and `verify_temps`, which is there to find bugs of the compiler, stops it with an `AssertionError`. The same happens after a `return`. |
| `nested_scopes` | `ScopesKept` | `int x = in(); { int x = 5; } out(x);` shows 5: both are one variable of the frame. |

The departures of the optimiser and of the IR generator were also seen in the emulator,
or in the IR that `irgen.py` prints, for one program each.

## 4. Fairness

The scan and `_gen_inline_asm` are loops of a sequential program that nothing
interrupts, so weak fairness of the whole next-state relation is all that is
assumed (`FairSpec`), and only for `AllDecided` and `Emitted`. `Terminates` of the
preprocessor needs no more: the end of a file is read when it is reached
(`WF_vars(EndOfFile)`), and while there is a line to read, lines are read. The second is
written `[]<>~Reading \/ []<><<Next>>_vars`, which is weak fairness of `Next` with
`Reading` for its enabledness: TLC would else expand every macro once more to find out
whether a step is possible. The executing code
has no liveness property: a C program may loop. A pass of the optimiser is one step,
so that its inner loops end is part of its being defined: TLC would not return.

## 5. Proofs

`LinearScanProofs`, for every finite or infinite set of registers and every sorted
list of intervals:

* The invariant is `TypeOK /\ PoolsExact /\ AllocationValid` with one
  strengthening: an interval that holds a register and is no longer active ended
  before the start of the interval considered now, and those not yet considered
  hold none. Sortedness of the list then separates expired intervals from all
  later ones, and `PoolsExact` separates active ones from the register taken. It
  is the strict `<` of `_expire` that makes the intervals disjoint.
* `TypeCorrect`, `PoolsAreExact` and `AllocationIsValid` follow; `SpillsAreJustified`
  is an action property from the guards under the invariant; `Implements` maps
  every step of the scan to a step of `RegisterAllocation`.

`CompiledCodeProofs`, first about `AllocatedCode` alone, for every function, register set
and valid allocation:

* `ExecutionTypeCorrect` and `ValidAllocationsRunCorrectly` assume that control
  never goes backwards (`Forward`); `compiled_loops` shows the assumption is
  needed. The invariant says that a register holds Temp t from t's definition to
  its last use: any instruction that could destroy it lies strictly inside t's
  interval, where a call would make it `crosses`, a clobber `forbidden`, and a
  definition of another Temp in the same register an overlap.

Then it puts scan and code together, for every set of forward-only functions and every
pair of register pools:

* The invariant is that of the scan and that of the execution side by side, and that the
  execution has not begun while there are intervals left (`CompileInv`). A step of the scan keeps the
  execution's part because every allocation on the way is already valid and no Temp has
  a value yet; a step of the code keeps the scan's because the allocation no longer
  changes. The lemmas of `LinearScanProofs` are used through an instance, for the lists
  that `LiveRanges` computes (`RangesSorted`).
* `CompiledCodeRunsCorrectly` and `CompiledCodeTypeCorrect` follow, and
  `ForwardCodeSurvivesCalls`: the property that `compiled_loops` finds violated holds
  without loops, so it is the backward branch and nothing else that breaks it.

`PreprocessorProofs`, for every set of files, include directories and macros, and
whatever expansion and conditions give:

* The invariant `IInv` relates three things. For every open group, `taking` is true
  exactly when the branch being read is the first true one of its group and all
  around it are taken, and `ever` exactly when one has been (`FlagsRight`): two flags
  carry what the history `groups` says. For every file being read, the guard is the set
  of files entered above the top one, so the stack has no file twice (`GuardsOK`). For
  the output, what the lexer computes from the last marker is the position of the next
  line (`Mapped`), which every directive preserves because it leaves an empty line and
  every include writes a marker before and after.
* `TypeCorrect`, `LinesTaken`, `NothingSkipped`, `LinesKnown` and `NoRecursion` follow.
  `LinesKnown` holds for files that write no `#line` of their own.

`OptimizerProofs`, about `Optimizer`, for every program that `IsProgram` admits, every
threshold of the inliner and every limit on the rounds:

* The invariant `IInv` has a part for each stage. While calls are inlined every label is
  one of irgen's, or ends in the number of a call inlined so far (`AllSited`), and each jump
  has exactly one; from then on the entry label of a tail call may stand at the start as
  well (`Labelled`). The calls of a function have as many words as its parameters
  (`Agreed`), until a function with two-word parameters is touched. During phase 2 of
  the inliner, a function outside `todo` calls no `always_inline` function and one in
  `todo` is not itself expanded anywhere (`TodoRight`), so that each step leaves a
  function without such calls.
* The passes are described by what they leave. Most of them thin the code (`Thinned`):
  there is an increasing map from what is left to where it was, every instruction is
  kin of that one, and a label that a jump still names is not lost. Thinnings compose
  (`ThinnedTrans`) and keep labels and calls (`ThinnedLabels`, `ThinnedCalls`). Branch
  threading and tail calls change where jumps lead, and have the weaker `Threaded`.
* Inlining is the hard case. A copy of a function has the suffix `__i` and the number of
  the call in every label; two labels with one suffix are the same only if they were before
  (`SuffixInjective`), and no number is used twice (`UsedGrows`), so that in code put
  together from any number of copies every jump finds its own label
  (`ExpansionRight`, `SplicedRight`).
* Dead-argument removal takes words from calls and parameters from signatures in rounds,
  and the positions taken have to be the same (`Dropped`, `ArgsLeft`): what was a call
  of the original program with some arguments left out is one still after another round
  (`DroppedStep`).
* Loops are recursive functions in the model, and the prover knows nothing of one before
  it is known that there is such a function. `TotalSteps`, `KeepOnlySteps`, `FoldSteps` and the like show that, by
  induction over the numbers up to a bound (`UpTo`).
* `TypeCorrect`, `ProgramStaysWhole` and `AlwaysInlineGone` follow. That the inner loops
  end is part of the model's definitions, which bound them.

`OptimizerProofs`, about `Flags`, for every width of a word (`HalfAssumption`: a word has as many
non-negative as negative values):

* `SubFlags` says what the four flags mean after a subtraction: equal, less without
  sign, and less with sign as `S # O`, the one that needs the four cases of signs. From it and
  the table of jumps, `ComparedRight`: the jump chosen for each of the eight comparisons
  is taken exactly when the comparison holds. `FusedRight`: a fused branch is taken exactly
  when the result of the comparison would have taken it, for both kinds of branch.
* `LongComparedRight`: the branches of `_gen_long_compare` decide the comparison of the
  numbers. The argument is that of comparing lexicographically (`Lexicographic`): two
  numbers in base 2^Width differ first in the high word, and only if those are equal in the
  low one, which has no sign. `LongSumRight`: with `AddCarry` and `SubBorrow`, which say
  that the flag C is what a word does not hold, sum and difference are right up to a
  multiple of 2^(2 Width).

`ScratchForwardingProofs`, for any Temps, Vars, labels and registers and straight-line
code of any length:

* The invariant `IInv` says what is true between two instructions, unless the code has
  been misled by one of the untracked overwrites of section 3: a scratch register that
  is tracked holds what it is tracked for, each needed Temp is in its home, Vars are in
  their slots, and every operand was right so far (`Right`). It needs two facts about
  homes: no two needed Temps share a register, and a Temp that is not needed has none
  (`Apart`, `Unassigned`); and for the one Temp that only r7 holds until the next
  instruction takes it, that r7 is tracked for it (`DueInA`).
* Within an instruction the tracking may be behind: a handler loads a register and says
  so later. So `Right` has a set U of scratch registers of which the tracking may be wrong
  for the moment, and a helper of the emitter is described by the registers it may
  change (`Only`), what it keeps right and which registers it adds to U or takes out of
  it (`LoadRight`, `StoreRight`, `ResultRight`, `AddrRight`, ...). A handler is a chain
  of helpers (`Reach`) that ends with U empty and its destination's value in place
  (`Emits`); the case that decides is `_load_op` finding its operand tracked in another
  scratch register (`ForwardedRight`).
* A call loads any number of arguments and stores any number of results. What has been
  loaded or stored up to the k-th is shown by the least k of which it fails
  (`UpTo`, `LoadArgsRight`, `StoreResultsRight`): an argument register is written by
  no later load, and no store of a result reaches the register of a later one.
* `OperandsStayRight`, `BeliefsStayTrue` and `TypeCorrect` follow.

`InlineAsmProofs`, for every machine and every asm statement that the target list can
hold, however its operands are placed and however long its cycles are:

* The invariant `IInv` says where values are while the loads run: that of an operand
  not yet loaded is where `cur` says, that of a loaded one in its target (`Located`).
  A load is allowed only when no operand still to be loaded sits in its target, which
  is what keeps the first part; that the targets differ (`TargetsDiffer`) keeps the
  second.
* The hard case is the cycle. When a pass loads nothing, every operand left is in the
  target of another one (`Refused`); since the targets differ and as many operands are
  left as targets, each of these targets holds exactly one operand and none is in memory
  (`OnlyCyclesLeft`, by the pigeonhole principle). So an operand parked in r17 frees a
  target, nothing is lost by using one parking register again and again, and it is free
  whenever it is used (`ParkingFree`).
* `LoadsAreParallel`, `OthersKept`, `OutputsDelivered` and `TypeCorrect` follow; the
  condition of `OutputsArrive` (an output Temp in the target of a later output, section 3)
  is what `Delivered` needs to keep the outputs not yet stored.

`FrameSlotsProofs`, for all finite sets of Temps and Vars:

* The invariant has, for each context, that the slots above the fixed part are owned by
  one operand or free (`Partitioned`), that there are therefore as many operands with a
  slot as slots taken (`OwnedCount`), and for the two together that whatever has a slot in
  the emitted code has one in the dry run, or is a Var that no instruction has named yet
  (`Covers`).
* The order in which slots are taken and freed differs between the runs, so nothing
  relates the slots themselves. What is related is how many are in use: when the emitting
  context must take a fresh slot, its free list is empty, so its frame is as large as the
  number of operands that own a slot, of which the dry run has at least as many, up to the
  Vars it has not met (`FullFrameSuffices`). `DryRunSuffices` follows, and with it that the saved
  registers, which the prologue puts above the frame of the dry run, are never overwritten.
* `NoSlotSharedOrLost`, `NeededSlotsStay` (an action property) and `TypeCorrect` need the
  part about one context only.

`CallFrameProofs`, for any functions, any number of argument and callee-saved registers,
and calls of any depth:

* The invariant says that the frames lie one under the other down to `sp` (`Layout`),
  and what each keeps until it returns (`Keeps`): its locals, the registers and the
  return address it saved, the argument registers it spilled. A frame above the running
  one is untouched because no action writes at or above its base except in the outgoing
  area of its owner (`Above`, `KeepsOn`), where `Keeps` claims nothing.
* `Preserved` follows a callee-saved register through the chain: what it held when a
  function was left is either the function's own or what its caller had. `Passed` says
  where the arguments are between the call and the prologue, `Cursor` where `va_arg`
  is. `Suspended`, that whoever calls has saved its return address, is what makes a leaf's
  unsaved one safe.
* `PrologueWords` says what the prologue writes in each word, from the fact that the
  saved registers have words of their own (`SaveSlotFacts`, by counting those below).
* `SuspendedFramesStay`, `ArgumentsArrive`, `TypeCorrect` and the action property
  `CallersFindTheirState` (through `Returned`) follow.

The theorems rest on the named assumptions `RegisterAssumption` (the classes are disjoint
sets of naturals), `InputsAssumption` (sorted lists of intervals), `ProgramsAssumption`
(well-formed instruction lists), `NumberingAssumption` (Temps numbered in the order of
their first definitions, which stands for the sorting of the intervals; not used for `AllocatedCode` alone),
`HalfAssumption`, `TargetsAssumption` (the targets are distinct, and some register of
the parking list is no target), `FrameAssumption` (finitely many operands, no Temp a Var) and
`CallAssumption` (callee-saved registers are none of the argument registers),
`ProgramsAssumption` of `Optimizer` (`IsProgram`), `RoundLimitAssumption` (at least one round) and
`MachineAssumption` (two to six argument registers, allocatable registers above r9, and
no name for two things), each evaluated by TLC for the instances it checks. Each invariant was also checked by TLC on the instances
of its run.

Not proved: liveness (`AllDecided`, `Emitted`, `Terminates`), which is beyond the prover;
that the optimiser keeps the meaning of a program (`MeaningKept`), because the meaning is what a recursive
definition computes for every input; and everything about the parser, the IR generator,
macro expansion and conditions (`Compilation`, `ExpandedRight`, `ConditionsRight`), whose modules need
recursive operators, for which the prover has no backend. All of these are model-checked. Of the machine,
multiplication, shifts and the logical operators have no theorem.

## 6. What is not modelled

* Text: cutting characters into tokens (`lexer.py`, and comments, continuation lines and
  string literals in `preprocessor.py`), formatting of the assembly, source annotation. There is no state in it that several steps could disagree about.
  The preprocessor joins no continuation lines; it strips comments from the body of a
  `#define` (`_strip_body_comments`) and from the operand of an `#include`, and leaves
  those of text lines to the lexer (`_skip_whitespace_and_comments`). It therefore
  obeys directives inside block comments.
* In the parser: string literals, `asm` statements, `__builtin_va_list` and
  `__builtin_va_arg`, and structs with a pointer to themselves (a type is a value in the
  model, and the code completes it in place).
* In the IR generator: `va_start` and `va_arg` (modelled at the code generator),
  `asm` statements as instructions, addresses of strings. In the optimiser: the
  same, and the folding of `%`, which irgen turns into a call.
* Arithmetic and registers together: `ScratchForwarding` says which registers the
  handlers read and write in which order, `Flags` what the instructions compute. The
  names of labels are in neither.
* The composition of the optimiser's output with the back end: the modules of the back
  end start from any instructions instead.
* `_gen_tail_call_epilogue` (the flag that selects it is never set) and the 32-bit
  multiplication of `_gen_long_binop` (irgen calls a helper instead).
* Temps that are defined again after their last use: irgen does not produce them
  (`WellFormed`).
* `runtime.asm`, the library in `include/` and the C text of `builtins.h`: programs for
  the target, whose results are taken as C gives them. Of the emulator under `tests/emu` only flags and
  conditions are modelled (`Flags`); the rest of it and the debugger are tools of the tests.

## 7. Plan

1. Done: allocator, allocated code, forwarding, inline asm, slots, frames; the optimiser
   on one-word and two-word instructions with its reference interpreter; parsing against
   a grammar of C, analysis and IR generation against a meaning of C; the preprocessor; flags and conditions of the machine against the
   compare-and-branch table; proofs about the allocator, the allocated code, the
   two together, forwarding, the preprocessor, the arithmetic, inline asm, stack slots,
   calls and the optimiser: every invariant of the back end and of the optimiser that a run
   checks, but for the meaning of programs.
2. The rest of the emulator with the debugger, and the runtime's search for the end of RAM.
3. `va_start`, `va_arg` and strings in `Parser`, `IRGen` and the passes, so that variadic
   functions go through `Compilation`; types with identity, so that structs can name
   themselves.
4. Proofs: that `verify_temps` cannot fail for code without unreachable parts (section 3,
   `verified`), which needs what irgen guarantees about the paths from definitions to uses.
