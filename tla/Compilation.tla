------------------------------- MODULE Compilation -------------------------------
(***************************************************************************)
(* The way of a program through compiler.py, from its tokens to the code    *)
(* that goes to instruction selection: the parser, semantic analysis of the *)
(* whole program, IR generation one declaration at a time, and then the     *)
(* passes of the optimiser.                                                 *)
(***************************************************************************)
EXTENDS IRGen, CSemantics

CONSTANTS
  Sources,      \* source programs
  Tree(_),      \* what a program says: a sequence of declarations
  Dictionary(_),   \* how it is written, as in Grammar
  Inputs,       \* words the first external call may return
  SourceFuel,   \* bound: iterations, jumps and calls of a source program
  InlineThreshold, RoundLimit   \* as in Optimizer

VARIABLES
  source,    \* the program that is compiled
  decls,     \* the tree that the parser builds, with types once it is analysed
  at,        \* declarations generated so far
  consts,    \* _global_consts: globals that are replaced by their value
  globals,   \* data: globals, statics and their flags
  frames,    \* the sizes of the local variables, by function
  prog, stage, inlineable, todo, counter, round, before, meaning, exempt   \* as in Optimizer

inliner == <<inlineable, todo, counter>>
vars == <<source, decls, at, consts, globals, frames, prog, stage, inliner, round, before, meaning, exempt>>

Passes == INSTANCE Optimizer WITH Programs <- {}, Behaviour <- Meaning
Syntax == INSTANCE Parser
Written == INSTANCE Grammar

Init ==
  /\ source \in Sources
  /\ decls = <<>>
  /\ at = 0
  /\ consts = <<>> /\ globals = <<>> /\ frames = <<>>
  /\ prog = <<>>
  /\ stage = "parse"
  /\ inlineable = {} /\ todo = {} /\ counter = 0
  /\ round = 0 /\ before = 0
  /\ meaning = <<>>
  /\ exempt = {}

-----------------------------------------------------------------------------
(* Programs the generator is known to treat in another way than C does, each a
   section of the README.  What depends on the values that come up is among the
   notes of the meaning of the source. *)

RECURSIVE Declarations(_)
Declarations(st) ==
  LET all(ss) == FlattenSeq([k \in DOMAIN ss |-> Declarations(ss[k])]) IN
  CASE st.is = "SwitchStmt" -> FlattenSeq([k \in DOMAIN st.clauses |-> all(st.clauses[k].body)])
    [] st.is = "LabelStmt" -> Declarations(st.body)
    [] st.is = "Block" -> all(st.stmts)
    [] st.is = "IfStmt" -> Declarations(st.then) \o Declarations(st.else)
    [] st.is \in {"WhileStmt", "DoWhileStmt"} -> Declarations(st.body)
    [] st.is = "ForStmt" -> Declarations(st.init) \o Declarations(st.body)
    [] OTHER -> Collected(st)

Names(ds) == [k \in DOMAIN ds |-> ds[k].name]

\* A name stands for two variables of a function, or for a local one and a
\* global: all of them share one slot.
Shadowing(f, all) ==
  LET locals == Names(Declarations(f.body))
  IN  \/ ~IsInjective(Names(f.params) \o locals)
      \/ ToSet(locals) \cap ToSet(Names(all)) # {}

\* A declaration in a clause of a switch or after a label gets no slot.
Unregistered(f) == Collected(f.body) # Declarations(f.body)

Functions(ds) == {k \in DOMAIN ds : ds[k].is = "FuncDecl" /\ ds[k].body # None}

\* A pointer to what is const is taken for a const.
ConstTarget(d) == d.is = "VarDecl" /\ IsInlineConst(d) /\ d.ctype.is = "CPointer"

StaticExceptions(ds) ==
  {x \in {"shadow", "clause", "target"} :
     \E k \in DOMAIN ds : CASE x = "target" -> ConstTarget(ds[k])
                            [] x = "shadow" -> k \in Functions(ds) /\ Shadowing(ds[k], ds)
                            [] x = "clause" -> k \in Functions(ds) /\ Unregistered(ds[k])}

\* Notes on a run of the source under which the result may differ.
Excused == {"narrowed", "unsigned", "scaled", "twice", "init", "longret"}

-----------------------------------------------------------------------------
Parse ==
  /\ stage = "parse"
  /\ \E read \in {Syntax!Parsed(Written!ProgramText(Tree(source), Dictionary(source)))} :
       /\ decls' = IF read.ok THEN read.out[1] ELSE <<>>
       /\ stage' = IF read.ok THEN "analyze" ELSE "rejected"
  /\ UNCHANGED <<source, at, consts, globals, frames, prog, inliner, round, before, meaning, exempt>>

Analyze ==
  /\ stage = "analyze"
  /\ LET scope == GlobalScope(decls)
         a == [k \in DOMAIN decls |-> IF k \in Functions(decls) THEN AnalyzedFunction(decls[k], scope)
                                      ELSE [decl |-> decls[k], ok |-> TRUE]]
     IN  /\ decls' = [k \in DOMAIN decls |-> a[k].decl]
         /\ stage' = IF \A k \in DOMAIN a : a[k].ok THEN "generate" ELSE "rejected"
  /\ meaning' = [n \in Inputs |-> SourceMeaning(decls', n, SourceFuel)]
  /\ exempt' = StaticExceptions(decls')
  /\ UNCHANGED <<source, at, consts, globals, frames, prog, inliner, round, before>>

GenerateVariable ==
  /\ stage = "generate" /\ at < Len(decls) /\ decls[at + 1].is = "VarDecl"
  /\ LET d == decls[at + 1]
     IN  /\ globals' = Append(globals, GlobalEntry(d))
         /\ consts' = IF IsInlineConst(d) THEN (d.name :> d.init.value) @@ consts ELSE consts
  /\ at' = at + 1
  /\ UNCHANGED <<source, decls, frames, prog, stage, inliner, round, before, meaning, exempt>>

\* A prototype generates nothing.
GeneratePrototype ==
  /\ stage = "generate" /\ at < Len(decls) /\ decls[at + 1].is = "FuncDecl" /\ decls[at + 1].body = None
  /\ at' = at + 1
  /\ UNCHANGED <<source, decls, consts, globals, frames, prog, stage, inliner, round, before, meaning, exempt>>

GenerateBody ==
  /\ stage = "generate" /\ at + 1 \in Functions(decls)
  /\ \E f \in {GenFunction(decls[at + 1], consts)} :
         IF f.g.error = "none"
         THEN /\ prog' = Append(prog, f.fn)
              /\ globals' = globals \o f.g.globals
              /\ frames' = (f.fn.name :> f.g.sizes) @@ frames
              /\ UNCHANGED <<stage, exempt>>
         ELSE /\ stage' = "rejected"
              /\ exempt' = exempt \cup {f.g.error}
              /\ UNCHANGED <<prog, globals, frames>>
  /\ at' = at + 1
  /\ UNCHANGED <<source, decls, consts, inliner, round, before, meaning>>

HandOver ==
  /\ stage = "generate" /\ at = Len(decls)
  /\ stage' = "inline"
  /\ UNCHANGED <<source, decls, at, consts, globals, frames, prog, inliner, round, before, meaning, exempt>>

Optimize ==
  /\ Passes!Next
  /\ UNCHANGED <<source, decls, at, consts, globals, frames>>

Next == Parse \/ Analyze \/ GenerateVariable \/ GeneratePrototype \/ GenerateBody \/ HandOver \/ Optimize

Spec == Init /\ [][Next]_vars

-----------------------------------------------------------------------------
Generated == stage \in {"inline", "collapse", "expand", "fold", "dce", "done"}

\* A type for every variable, and the parts of the program are in step.
TypeOK ==
  /\ stage \in {"parse", "analyze", "generate", "rejected", "inline", "collapse", "expand",
               "fold", "dce", "done", "aborted"}
  /\ at \in 0 .. Len(decls)
  /\ round \in 0 .. RoundLimit
  /\ DOMAIN meaning \in {{}, Inputs}
  /\ stage \in {"parse", "analyze", "generate"} => Len(prog) = Cardinality(Functions(decls) \cap 1 .. at)
  /\ \A k \in DOMAIN globals : globals[k].words >= Len(globals[k].init)

\* The words of the globals that do not start as zero.
Data ==
  FoldLeft(LAMBDA m, x : [p \in {<<0, x.name, k>> : k \in 0 .. Len(x.init) - 1} |-> N(x.init[p[3] + 1])] @@ m,
           <<>>, globals)

SameBehaviour == \A n \in Inputs :
  meaning[n].end = "done" /\ meaning[n].notes \cap Excused = {} =>
    MeaningFrom(prog, Data, n, Fuel) = [end |-> "done", trace |-> meaning[n].trace]

\* The generated program, and what the passes make of it, does what the C
\* program does, for every input on which that is defined: the same external
\* calls with the same arguments in the same order, the same result, and it ends.
MeaningKept == stage \in {"inline", "done"} /\ exempt = {} => SameBehaviour

\* README.md says of semantic.py that it has nested block scopes; so a local
\* that shadows another variable is a variable of its own.
ScopesKept == stage = "inline" /\ exempt \subseteq {"shadow"} => SameBehaviour

\* Every program is read, and as it was written.  It is compiled if it is defined for
\* every input, unless it has what the generator has no instructions for: some
\* operations on long, and nested initializers of statics.  It is not compiled if
\* it uses a variable outside its block, a clause of a switch apart, or has a
\* wrong number of arguments.
Gaps == {"pair", "long operator", "long expression", "long assignment", "expression"}
AcceptedAsWritten ==
  /\ stage = "analyze" => decls = Tree(source)
  /\ stage = "rejected" => decls # <<>>
  /\ stage = "rejected" /\ exempt \cap Gaps = {} => \E n \in Inputs : meaning[n].end # "done"
  /\ Generated /\ "clause" \notin exempt => \A n \in Inputs : meaning[n].end # "invalid"

Mentioned(i) == {i.addr} \cup ToSet(i.args) \cup IF i.op = "addrof" THEN {i.sym} ELSE {}

\* What the generated code refers to is there when it is handed over: a variable
\* of the frame with a slot as large as its type, or a global of the program.
VariablesThere ==
  stage = "inline" /\ exempt \cap {"shadow", "clause"} = {} =>
    \A k \in Functions(decls) : LET f == Function(prog, decls[k].name) IN
      /\ \A d \in ToSet(Declarations(decls[k].body)) :
           ~d.static => d.name \in DOMAIN frames[f.name] /\ frames[f.name][d.name] >= Size(d.ctype)
      /\ \A j \in DOMAIN f.code : \A o \in Mentioned(f.code[j]) :
           /\ IsVar(o) => o[2] \in ToSet(f.params) \cup DOMAIN frames[f.name]
           /\ o[1] = "g" => o[2] \in ToSet(Names(decls)) \cup ToSet(Names(globals))

\* The instructions that control can come to.
Reached(code) ==
  LET label(x) == {k \in DOMAIN code : code[k] = Label(x)}
      after(k) == IF code[k].op = "jump" THEN label(code[k].sym)
                  ELSE IF code[k].op \in Returns THEN {}
                  ELSE {k + 1} \cup IF code[k].op \in Jumps THEN label(code[k].sym) ELSE {}
  IN  ReachableFrom([k \in DOMAIN code |-> after(k)], {1}) \cap DOMAIN code

\* A Temp without a definition is used at most where control never comes.
TempsThere ==
  \A f \in ToSet(prog) :
    LET defined == UNION {Defs(f.code[k]) : k \in DOMAIN f.code}
    IN  \A k \in DOMAIN f.code : UsedTemps(f.code[k]) \subseteq defined \/ k \notin Reached(f.code)

\* ... and from then on every Temp has a definition, every jump one label, and
\* every call the arguments of the function it calls.  What is handed over is a
\* program as the passes expect it.
Resolved ==
  /\ VariablesThere
  /\ stage = "inline" => Passes!IsProgram(prog)
  /\ Generated \/ stage = "aborted" => TempsThere /\ Passes!CallsAgree /\ Passes!JumpsLand

\* dce.py, verify_temps: "Assert every Temp used in each function is also
\* defined in that function", to catch bugs of the compiler; so no program of
\* the user raises it.
AssertionHolds == stage # "aborted"
=============================================================================
