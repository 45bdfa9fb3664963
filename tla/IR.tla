---------------------------------- MODULE IR ----------------------------------
(***************************************************************************)
(* compiler/ir.py: the three-address code the optimiser works on.           *)
(*                                                                          *)
(* All instruction classes have one shape here.  args are the operands in   *)
(* value position; addr is the operand in address position of loads and     *)
(* stores, where a Temp is a pointer to follow but a Var the variable       *)
(* itself; sym is the operator, callee, label or addressed variable.  The   *)
(* instructions on two words define a second Temp, hi, and list the low     *)
(* word of an operand before the high one.                                  *)
(* Names are sequences, so that the inliner can add a suffix.               *)
(***************************************************************************)
EXTENDS Flags, SequencesExt

CONSTANT Fuel   \* bound: instructions executed before a program counts as endless

ASSUME WidthAssumption == Width \in {2, 4, 8, 16} /\ Fuel \in Nat

T(t) == <<"t", t>>      \* Temp
V(x) == <<"v", x>>      \* Var
G(g) == <<"g", g>>      \* Global
N(n) == <<"n", n>>      \* ImmInt; as a value, a number
Nothing == <<"-">>      \* no operand; as a value, an undefined one
NoTemp == 0             \* Temps are numbered from 1

IsTemp(o) == o[1] = "t"
IsVar(o) == o[1] = "v"
IsImm(o) == o[1] = "n"

\* The elements of a sequence at the given positions.
KeepOnly(seq, positions) ==
  LET kept[k \in 0 .. Len(seq)] ==
        IF k = 0 THEN <<>>
        ELSE IF k \in positions THEN Append(kept[k - 1], seq[k]) ELSE kept[k - 1]
  IN  kept[Len(seq)]
Without(seq, positions) == KeepOnly(seq, DOMAIN seq \ positions)

\* The sum of a sequence of numbers.
Total(numbers) ==
  LET sum[k \in 0 .. Len(numbers)] == IF k = 0 THEN 0 ELSE sum[k - 1] + numbers[k]
  IN  sum[Len(numbers)]

Wide(op, lo, hi, sym, addr, args) ==
  [op |-> op, dst |-> lo, hi |-> hi, sym |-> sym, addr |-> addr, args |-> args]
Ins(op, dst, sym, addr, args) == Wide(op, dst, NoTemp, sym, addr, args)

Const(dst, n) == Ins("const", dst, <<>>, Nothing, <<N(n)>>)
Copy(dst, src) == Ins("copy", dst, <<>>, Nothing, <<src>>)
AddrOf(dst, var) == Ins("addrof", dst, var, Nothing, <<>>)
BinOp(dst, op, left, right) == Ins("binop", dst, op, Nothing, <<left, right>>)
UnaryOp(dst, op, src) == Ins("unop", dst, op, Nothing, <<src>>)
Load(dst, addr) == Ins("load", dst, <<>>, addr, <<>>)
Store(addr, src) == Ins("store", NoTemp, <<>>, addr, <<src>>)
Call(dst, func, args) == Ins("call", dst, func, Nothing, args)
CallPtr(dst, func, args) == Ins("callptr", dst, <<>>, Nothing, <<func>> \o args)
Ret(src) == Ins("ret", NoTemp, <<>>, Nothing, IF src = Nothing THEN <<>> ELSE <<src>>)
Label(name) == Ins("label", NoTemp, name, Nothing, <<>>)
Jump(target) == Ins("jump", NoTemp, target, Nothing, <<>>)
JumpIf(cond, target) == Ins("jumpif", NoTemp, target, Nothing, <<cond>>)
JumpIfNot(cond, target) == Ins("jumpifnot", NoTemp, target, Nothing, <<cond>>)

LongLoad(lo, hi, addr) == Wide("lload", lo, hi, <<>>, addr, <<>>)
LongStore(addr, src) == Ins("lstore", NoTemp, <<>>, addr, src)
LongBinOp(lo, hi, op, left, right) == Wide("lbinop", lo, hi, op, Nothing, left \o right)
LongUnaryOp(lo, hi, op, src) == Wide("lunop", lo, hi, op, Nothing, src)
LongCompare(dst, op, left, right, unsigned) ==
  Ins("lcmp", dst, <<op, unsigned>>, Nothing, left \o right)
LongRet(src) == Ins("lret", NoTemp, <<>>, Nothing, src)
LongCall(lo, hi, func, args) == Wide("lcall", lo, hi, func, Nothing, args)
LongCallPtr(lo, hi, func, args) == Wide("lcallptr", lo, hi, <<>>, Nothing, <<func>> \o args)

Direct == {"call", "lcall"}              \* calls of a Global
Indirect == {"callptr", "lcallptr"}      \* calls of a Temp or Var
Calls == Direct \cup Indirect
LongOps == {"lload", "lstore", "lbinop", "lunop", "lcmp", "lret", "lcall", "lcallptr"}
Returns == {"ret", "lret"}
Jumps == {"jump", "jumpif", "jumpifnot"}
WritesVar(i) == i.op \in {"store", "lstore"} /\ IsVar(i.addr)

\* defs() and uses() of the instruction classes; an operand read twice is
\* listed twice.  What is called is not listed if it is a Var.
Defs(i) == {i.dst, i.hi} \ {NoTemp}
Uses(i) ==
  IF i.op = "addrof" THEN IF IsVar(i.sym) THEN <<i.sym>> ELSE <<>>
  ELSE (IF i.addr = Nothing THEN <<>> ELSE <<i.addr>>)
         \o (IF i.op \in Indirect /\ ~IsTemp(i.args[1]) THEN Tail(i.args) ELSE i.args)
UsedTemps(i) == {o[2] : o \in {o \in ToSet(Uses(i)) : IsTemp(o)}}
UsedVars(i) == {o[2] : o \in {o \in ToSet(Uses(i)) : IsVar(o)}}

\* IRFunction and IRProgram: a program is a sequence of functions, each a
\* record [name, params, wide, variadic, code, static, always, builtin]: wide are
\* the parameters of two words (param_sizes), always stands for is_always_inline,
\* builtin for a name that starts with two underscores.
FunctionNames(P) == {P[k].name : k \in DOMAIN P}
Function(P, f) == P[CHOOSE k \in DOMAIN P : P[k].name = f]

Main == <<"main">>

\* Parameters lie in memory in the order of the signature.
ParamWords(f) ==
  FlattenSeq([k \in DOMAIN f.params |->
                IF f.params[k] \in f.wide THEN <<<<f.params[k], 0>>, <<f.params[k], 1>>>>
                ELSE <<<<f.params[k], 0>>>>])

Called(f) == {f.code[k].sym : k \in {k \in DOMAIN f.code : f.code[k].op \in Direct}}
FunctionsAddressed(f) ==
  {f.code[k].sym[2] : k \in {k \in DOMAIN f.code : f.code[k].op = "addrof" /\ f.code[k].sym[1] = "g"}}

\* Where code has label l.
LabelsAt(code, l) == {k \in DOMAIN code : code[k].op = "label" /\ code[k].sym = l}

\* What can be reached from the members of S by the edges of a graph.
ReachableFrom(edges, S) ==
  LET found[n \in 0 .. Cardinality(DOMAIN edges)] ==
        IF n = 0 THEN [all |-> S, last |-> S]
        ELSE LET nearer == found[n - 1]
                 new == (UNION {edges[m] : m \in nearer.last \cap DOMAIN edges}) \ nearer.all
             IN  IF nearer.last = {} THEN nearer ELSE [all |-> nearer.all \cup new, last |-> new]
  IN  found[Cardinality(DOMAIN edges)].all

-----------------------------------------------------------------------------
(* What the generated code computes for an operator (_gen_binop, _gen_unop), on
   words, and for a pointer what it is in the flat memory. *)
\* Bit by bit: both(x, y) of the bits at each place.
BitByBit(both(_, _), a, b) ==
  LET low[k \in 0 .. Width] ==
        IF k = 0 THEN 0
        ELSE low[k - 1] + 2^(k - 1) * both((a \div 2^(k - 1)) % 2, (b \div 2^(k - 1)) % 2)
  IN  low[Width]
BitAnd(a, b) == BitByBit(LAMBDA x, y : x * y, a, b)
BitOr(a, b) == BitByBit(LAMBDA x, y : x + y - x * y, a, b)
BitXor(a, b) == BitByBit(LAMBDA x, y : (x + y) % 2, a, b)

Compute(op, a, b) ==
  CASE op = "+"   -> Add(a, b, 0).word
    [] op = "-"   -> Sub(a, b, 0).word
    [] op = "*"   -> (a * b) % Modulus
    [] op = "&"   -> BitAnd(a, b)
    [] op = "|"   -> BitOr(a, b)
    [] op = "^"   -> BitXor(a, b)
    [] op = "<<"  -> (a * 2^(b % Width)) % Modulus
    [] op = ">>"  -> a \div 2^(b % Width)
    [] op \in DOMAIN CmpJmp -> Compared(op, a, b)

ComputeUnary(op, a) == IF op = "-" THEN Sub(0, a, 0).word ELSE BitXor(a, Mask)
=============================================================================
