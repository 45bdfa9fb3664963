------------------------------- MODULE Inlining -------------------------------
(***************************************************************************)
(* compiler/inline.py: calls of small or always_inline functions are        *)
(* replaced by a renamed copy of their code.                                *)
(***************************************************************************)
EXTENDS IR

CONSTANT InlineThreshold   \* INLINE_THRESHOLD: 10 in the code

MaxTempId(code) ==
  Max({0} \cup UNION {Defs(code[k]) \cup UsedTemps(code[k]) : k \in DOMAIN code})

-----------------------------------------------------------------------------
(* One call: _clone_instrs. *)

\* _rename_operand: Temps are shifted, parameters replaced, other variables
\* get the suffix of the call site.
Renamed(o, offset, param, suffix) ==
  CASE IsTemp(o) -> T(o[2] + offset)
    [] IsVar(o) /\ o[2] \in DOMAIN param -> param[o[2]]
    [] IsVar(o) /\ o[2] \notin DOMAIN param -> V(o[2] \o suffix)
    [] OTHER -> o

Clone(i, offset, param, suffix, result, exit) ==
  LET ro(o) == Renamed(o, offset, param, suffix)
      args == [k \in DOMAIN i.args |-> ro(i.args[k])]
  IN  IF i.op = "ret"
      THEN (IF result # NoTemp /\ args # <<>> THEN <<Copy(result, args[1])>> ELSE <<>>)
             \o <<Jump(exit)>>
      ELSE <<[i EXCEPT !.dst = IF @ = NoTemp THEN @ ELSE @ + offset,
                       !.sym = CASE i.op \in {"label"} \cup Jumps -> @ \o suffix
                                 [] i.op = "addrof" -> ro(@)
                                 [] OTHER -> @,
                       !.addr = ro(@),
                       !.args = args]>>

\* What a call of f becomes, the nth that is replaced.  Constants and globals replace the parameter,
\* other arguments are copied into fresh Temps first.
Expansion(i, f, max, n) ==
  LET arg(j) == IF j \in DOMAIN i.args THEN i.args[j] ELSE N(0)
      copied == {j \in DOMAIN f.params : IsTemp(arg(j)) \/ IsVar(arg(j))}
      temp(j) == max + Cardinality({m \in copied : m <= j})
      param == [x \in ToSet(f.params) |->
                  LET j == CHOOSE j \in DOMAIN f.params : f.params[j] = x
                  IN  IF j \in copied THEN T(temp(j)) ELSE arg(j)]
      order == KeepOnly([j \in DOMAIN f.params |-> j], copied)
      offset == max + Cardinality(copied)
      suffix == <<"__i", n>>
      exit == <<"._inline_exit", n>>
  IN  [code |-> [k \in DOMAIN order |-> Copy(temp(order[k]), arg(order[k]))]
                  \o FlattenSeq([k \in DOMAIN f.code |->
                                   Clone(f.code[k], offset, param, suffix, i.dst, exit)])
                  \o <<Label(exit)>>,
       max  |-> offset + MaxTempId(f.code)]

\* _inline_calls_in_function: one round over the calls in a function.  Each
\* call expanded takes the next number, and Temps above all so far.
InlineCalls(P, f, inlineable, counter) ==
  LET inlined(i) == i.op = "call" /\ i.sym \in inlineable
      expansion(before, i) == Expansion(i, Function(P, i.sym), before.max, before.counter + 1)
      used[k \in 0 .. Len(f.code)] ==
        IF k = 0 THEN [max |-> MaxTempId(f.code), counter |-> counter]
        ELSE LET before == used[k - 1]
             IN  IF inlined(f.code[k])
                 THEN [max |-> expansion(before, f.code[k]).max, counter |-> before.counter + 1]
                 ELSE before
      piece(k) == IF inlined(f.code[k]) THEN expansion(used[k - 1], f.code[k]).code ELSE <<f.code[k]>>
  IN  [code |-> FlattenSeq([k \in DOMAIN f.code |-> piece(k)]),
       counter |-> used[Len(f.code)].counter]

-----------------------------------------------------------------------------
(* The pass: inline(). *)

\* _recursive_set: members of a cycle of the call graph
Recursive(P) ==
  LET edges == [f \in FunctionNames(P) |-> Called(Function(P, f))]
  IN  {f \in FunctionNames(P) : f \in ReachableFrom(edges, edges[f])}

CallSites(P, f) ==
  UNION {{k} \X {j \in DOMAIN P[k].code : P[k].code[j].op \in Direct /\ P[k].code[j].sym = f} : k \in DOMAIN P}

Small(f) == Len(f.code) <= InlineThreshold

\* _has_long_ir
HasLongIr(f) == \E k \in DOMAIN f.code : f.code[k].op \in LongOps

Inlineable(P) ==
  LET addressed == UNION {FunctionsAddressed(P[k]) : k \in DOMAIN P}
      recursive == Recursive(P)
      suits(f) == /\ f.name \notin recursive /\ ~f.variadic /\ ~HasLongIr(f)
                  /\ \/ f.always
                     \/ ~f.builtin /\ Small(f) /\ f.static
                     \/ ~f.builtin /\ Small(f) /\ f.name \notin addressed
                          /\ Cardinality(CallSites(P, f.name)) = 1
  IN  {f \in FunctionNames(P) : suits(Function(P, f))}

\* Functions of the program that f calls for one word, or none.
CallsInline(f) == {f.code[k].sym : k \in {k \in DOMAIN f.code : f.code[k].op = "call"}}

\* mutant: only functions that are not always_inline themselves are looked at
PendingOnce(P, inlineable) ==
  LET always == {f \in inlineable : Function(P, f).always}
  IN  {k \in DOMAIN P : P[k].name \in inlineable \ always /\ CallsInline(P[k]) \cap always # {}}

\* Phase 1: the inlineable functions that call an always_inline one.
AlwaysInline(P, inlineable) == {f \in inlineable : Function(P, f).always}
Pending(P, inlineable) ==
  {k \in DOMAIN P : /\ P[k].name \in inlineable
                    /\ CallsInline(P[k]) \cap AlwaysInline(P, inlineable) # {}}

\* Phase 2: what is still small goes into all other functions.
Final(P, inlineable) ==
  {f \in inlineable : Function(P, f).always \/ Small(Function(P, f))}
=============================================================================
