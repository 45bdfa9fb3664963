------------------------------- MODULE DeadCode -------------------------------
(***************************************************************************)
(* compiler/dce.py: functions never reached, parameters never read and      *)
(* instructions whose results are never used are removed.                   *)
(***************************************************************************)
EXTENDS Folding

-----------------------------------------------------------------------------
(* Functions. *)

\* mutant: the entry is forgotten
ReachableWithoutEntry(edges) == ReachableFrom(edges, edges[Main])

Reachable(edges) == ReachableFrom(edges, {Main})

\* _reachable_functions: by direct calls, and by taking an address
EliminateDeadFunctions(P) ==
  LET edges == [f \in FunctionNames(P) |->
                  Called(Function(P, f)) \cup FunctionsAddressed(Function(P, f))]
  IN  KeepOnly(P, {k \in DOMAIN P : P[k].name \in Reachable(edges)})

-----------------------------------------------------------------------------
(* Parameters: _eliminate_dead_args.  The code treats one function after the
   other until nothing changes; a parameter that is dead stays dead when others
   go, so the order does not matter. *)

AddressTaken(P) == UNION {FunctionsAddressed(P[k]) : k \in DOMAIN P}

\* A call through a Var counts as a read of it, unless its result has two words.
VarsRead(code) ==
  UNION {UsedVars(code[k]) : k \in DOMAIN code}
    \cup {code[k].args[1][2] : k \in {k \in DOMAIN code : code[k].op = "callptr" /\ IsVar(code[k].args[1])}}

\* The positions of the parameters of f that stay.
KeptParams(P, f) ==
  IF f.name \in AddressTaken(P) \/ f.variadic THEN DOMAIN f.params
  ELSE {j \in DOMAIN f.params : f.params[j] \in VarsRead(f.code)}

\* mutant: calls are left as they are
MaskedNever(P, f, args) == args

\* The mask of parameters is laid over the words of the arguments, and words
\* past its end are dropped too.
Masked(P, f, args) ==
  IF KeptParams(P, f) = DOMAIN f.params THEN args ELSE KeepOnly(args, KeptParams(P, f))

\* Calls that return two words keep all of their arguments.
DropArgs(P, i) ==
  IF i.op = "call" /\ i.sym \in FunctionNames(P)
  THEN [i EXCEPT !.args = Masked(P, Function(P, i.sym), @)] ELSE i

\* One round, and as many as it takes: every round but the last drops a parameter.
AllRead(P) == \A k \in DOMAIN P : KeptParams(P, P[k]) = DOMAIN P[k].params

DropDeadArgs(P) ==
  [k \in DOMAIN P |->
     [P[k] EXCEPT !.params = KeepOnly(@, KeptParams(P, P[k])),
                  !.code = [j \in DOMAIN @ |-> DropArgs(P, @[j])]]]

EliminateDeadArgs(P) ==
  LET rounds == Total([k \in DOMAIN P |-> Len(P[k].params)])
      dropped[n \in 0 .. rounds] ==
        IF n = 0 THEN [prog |-> P, stable |-> AllRead(P)]
        ELSE LET last == dropped[n - 1]
                 new == DropDeadArgs(last.prog)
             IN  IF last.stable THEN last ELSE [prog |-> new, stable |-> AllRead(new)]
  IN  dropped[rounds].prog

-----------------------------------------------------------------------------
(* Instructions: dce_function. *)

AlwaysKeep(i) == i.op \in {"label", "store", "lstore"} \cup Returns \cup Calls \cup Jumps

\* Temps needed by what stays, and by what computes those.
LiveTemps(code) ==
  LET roots == UNION {UsedTemps(code[k]) : k \in {k \in DOMAIN code : AlwaysKeep(code[k])}}
      defined == UNION {Defs(code[k]) : k \in DOMAIN code}
      needs == [t \in defined |->
                  UNION {UsedTemps(code[k]) : k \in {k \in DOMAIN code : t \in Defs(code[k])}}]
  IN  ReachableFrom(needs, roots)

\* A call stays when no word of its result is needed; the result goes.
DceFunction(code) ==
  LET live == LiveTemps(code)
      kept == KeepOnly(code, {k \in DOMAIN code : AlwaysKeep(code[k]) \/ Defs(code[k]) \cap live # {}})
  IN  [k \in DOMAIN kept |->
         IF kept[k].op \in Calls /\ Defs(kept[k]) \cap live = {}
         THEN [kept[k] EXCEPT !.dst = NoTemp, !.hi = NoTemp] ELSE kept[k]]

Dce(P) ==
  LET rest == EliminateDeadArgs(EliminateDeadFunctions(P))
  IN  [k \in DOMAIN rest |-> [rest[k] EXCEPT !.code = DceFunction(@)]]

\* verify_temps: its assertion holds.  Otherwise the compiler stops.
TempsVerified(P) ==
  \A k \in DOMAIN P :
    LET code == P[k].code
    IN  UNION {UsedTemps(code[j]) : j \in DOMAIN code}
          \subseteq UNION {Defs(code[j]) : j \in DOMAIN code}
=============================================================================
