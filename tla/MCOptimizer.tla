------------------------------ MODULE MCOptimizer ------------------------------
(* Programs for Optimizer: families, each aimed at some of the passes.
   A body is a sequence of instructions of a menu; the Temp it defines next is
   one more than its length and the Temps used before it. *)
EXTENDS Optimizer, IRMachine

in == <<"in">>
out == <<"out">>
f == <<"f">>
h == <<"h">>
inner == <<"inner">>
x == <<"x">>
y == <<"y">>
ptr == <<"ptr">>
g == <<"g">>
a == <<"a">>
b == <<"b">>
L == <<"L">>
M == <<"M">>
K == <<"K">>

Fn(name, params, code, static, always) ==
  [name |-> name, params |-> params, wide |-> {}, variadic |-> FALSE, code |-> code, static |-> static,
   always |-> always, builtin |-> FALSE]
MainOf(code) == Fn(Main, <<>>, code, FALSE, FALSE)

TempsOf(code, op) == {code[k].dst : k \in {k \in DOMAIN code : code[k].op \in op}} \ {NoTemp}
Pointers(code) ==
  {T(code[k].dst) : k \in {k \in DOMAIN code : code[k].op = "addrof" \/ code[k].args = <<V(ptr)>>}}
Computed(code) == {T(t) : t \in TempsOf(code, {"copy", "load", "call", "binop"})} \ Pointers(code)

\* Each label that is jumped to is there once, and no other.
WellFormed(code) ==
  LET labels == SelectSeq(code, LAMBDA i : i.op = "label")
  IN  /\ IsInjective(labels)
      /\ {code[k].sym : k \in {k \in DOMAIN code : code[k].op \in Jumps}}
           = {labels[k].sym : k \in DOMAIN labels}

-----------------------------------------------------------------------------
\* Values: x is private, y may be pointed to, ptr points to it.
Enter == <<Call(1, in, <<>>), Store(V(x), T(1)), Store(V(y), N(1)), AddrOf(7, V(y)), Store(V(ptr), T(7))>>
Leave(last) == <<Copy(8, V(x)), last, Call(0, out, <<T(8), T(9)>>), Ret(Nothing)>>

ValueMenu(code, t) ==
  LET val == Computed(code) IN
  {Copy(t, V(v)) : v \in {x, y, ptr}} \cup {AddrOf(t, V(y)), AddrOf(t, G(g)), JumpIfNot(T(1), L), Label(L)}
    \cup {Store(V(v), o) : v \in {x, y}, o \in val}
    \cup {Store(p, o) : p \in Pointers(code), o \in val}
    \cup {Load(t, p) : p \in Pointers(code)}
    \cup {Call(t, out, <<o>>) : o \in val \cup Pointers(code)}
    \cup {BinOp(t, "+", o, N(1)) : o \in val}

RECURSIVE ValueBodies(_)
ValueBodies(n) ==
  IF n = 0 THEN {<<>>}
  ELSE UNION {{Append(s, i) : i \in ValueMenu(Enter \o s, n + 1)} : s \in ValueBodies(n - 1)}

ValueCodes(n) ==
  {Enter \o s \o Leave(last) :
     s \in {s \in ValueBodies(n) : WellFormed(s)}, last \in {AddrOf(9, V(y)), Copy(9, V(y))}}

\* Control: two labels, jumps and calls in any order, and a branch around them.
ControlBodies(n) ==
  {s \in [1 .. n -> {Label(L), Label(M), Jump(L), Jump(M), JumpIf(T(1), L), JumpIfNot(T(1), M),
                     Call(0, out, <<T(1)>>)}] : WellFormed(s)}
ControlCodes(n) ==
  {<<Call(1, in, <<>>), JumpIfNot(T(1), K)>> \o s \o <<Call(0, out, <<N(1)>>), Label(K), Ret(Nothing)>> :
     s \in ControlBodies(n)}

\* Arithmetic: every operator on every two operands.
Operators == {"+", "-", "*", "&", "|", "^", "<<", ">>", "==", "!=", "<", ">", "<=", ">=", "<u", ">=u"}
Operands == {T(1), T(2)} \cup {N(n) : n \in Words}
ArithmeticCodes ==
  {<<Call(1, in, <<>>), Call(2, in, <<>>), i, Call(0, out, <<T(3)>>), Ret(Nothing)>> :
     i \in {BinOp(3, op, o, q) : op \in Operators, o \in Operands, q \in Operands}
             \cup {UnaryOp(3, op, o) : op \in {"-", "~"}, o \in Operands}}

\* Functions: main calls f, which may jump, assign, call, and return any of
\* its Temps; f may be static or not, small enough to be inlined or not.
FunctionMenu(code, t) ==
  LET val == Computed(code) IN
  {Copy(t, V(a)), Copy(t, V(b)), Copy(t, V(y)), AddrOf(t, V(a)), Label(L)}
    \cup {Store(V(v), o) : v \in {y, b}, o \in val}
    \cup {Store(p, o) : p \in Pointers(code), o \in val}
    \cup {Call(0, out, <<o>>) : o \in val}
    \cup {JumpIf(o, L) : o \in val}

RECURSIVE FunctionBodies(_)
FunctionBodies(n) ==
  IF n = 0 THEN {<<>>}
  ELSE UNION {{Append(s, i) : i \in FunctionMenu(s, n)} : s \in FunctionBodies(n - 1)}

\* main has a variable with the name of one of f, and may call f again, by
\* name or through a pointer.
MainCalling(args, more) ==
  MainOf(<<Call(1, in, <<>>), Store(V(y), N(3)), Call(2, f, args)>> \o more
           \o <<Copy(5, V(y)), Call(0, out, <<T(2), T(5)>>), Ret(Nothing)>>)

FunctionPrograms(n, arguments) ==
  LET then == {<<>>, <<AddrOf(3, G(f)), CallPtr(4, T(3), <<N(2), T(1)>>), Call(0, out, <<T(4)>>)>>,
               <<Call(NoTemp, f, <<T(1), T(1)>>)>>}
  IN  UNION {{<<Fn(f, <<a, b>>, Append(s, Ret(r)), static, FALSE), MainCalling(args, more)>> :
                static \in BOOLEAN, r \in Computed(s), args \in arguments,
                more \in then} :
             s \in {s \in FunctionBodies(n) : WellFormed(s)}}

\* Chains: main calls f, f calls h, h may call f again; any of them small,
\* always_inline, or of unknown callers.
Leaf(k) == <<Copy(1, V(a)), BinOp(2, "+", T(1), N(k)), Ret(T(2))>>
Calling(callee) == <<Copy(1, V(a)), JumpIf(T(1), L), Ret(N(1)), Label(L),
                     Call(2, callee, <<N(0)>>), Ret(T(2))>>
CallingTwice(callee) == <<Copy(1, V(a)), Call(2, callee, <<T(1)>>), Call(3, callee, <<T(2)>>), Ret(T(3))>>

ChainPrograms ==
  {<<Fn(f, <<a>>, fCode, static, fAlways), Fn(h, <<a>>, hCode, FALSE, hAlways),
     MainOf(<<Call(1, in, <<>>), Call(2, f, <<T(1)>>), AddrOf(3, G(taken)), Call(4, f, <<T(2)>>),
              Call(0, out, <<T(4)>>), Ret(Nothing)>>)>> :
     fCode \in {Leaf(1), Calling(h), CallingTwice(h), Calling(f)},
     hCode \in {Leaf(1), Calling(f), CallingTwice(f)},
     static \in BOOLEAN, fAlways \in BOOLEAN, hAlways \in BOOLEAN, taken \in {f, h, g}}

\* Three in a row, in either order.
DeepChainPrograms ==
  {LET fns == <<Fn(f, <<a>>, Calling(h), always[1], always[1]), Fn(h, <<a>>, Calling(inner), FALSE, always[2]),
                Fn(inner, <<a>>, Leaf(1), TRUE, always[3])>>
   IN  (IF reversed THEN Reverse(fns) ELSE fns)
         \o <<MainOf(<<Call(1, in, <<>>), Call(2, f, <<T(1)>>), Call(3, h, <<T(2)>>),
                       Call(0, out, <<T(3)>>), Ret(Nothing)>>)>> :
   always \in [1 .. 3 -> BOOLEAN], reversed \in BOOLEAN}

\* Recursion: f calls itself with new arguments before it returns.
RecursiveF(s, args, r) ==
  Fn(f, <<a, b>>,
     <<Copy(1, V(a)), JumpIfNot(T(1), L), Copy(2, V(b)), BinOp(3, "-", T(1), N(1))>> \o s
       \o <<Call(5, f, args), Ret(r), Label(L), Copy(6, V(b)), Ret(T(6))>>, FALSE, FALSE)

\* Two calls of f by itself, the second of them a tail call once dead code before
\* the return is gone.
TailCallPrograms ==
  {<<Fn(f, <<a, b>>, <<Call(1, in, <<>>), JumpIfNot(T(1), L), Copy(2, V(b)), Call(3, f, <<T(2), N(0)>>),
                       Ret(T(3)), Label(L), Copy(4, V(a)), JumpIfNot(T(4), M), Copy(5, V(b)),
                       Call(6, f, <<N(0), T(5)>>)>> \o dead \o <<Ret(T(6)), Label(M), Ret(T(4))>>,
       FALSE, FALSE), MainCalling(<<T(1), N(2)>>, <<>>)>> :
     dead \in {<<>>, <<BinOp(7, "+", T(4), T(5))>>, <<AddrOf(7, V(y))>>}}

RecursionPrograms ==
  {<<RecursiveF(s, args, r), MainCalling(<<T(1), N(2)>>, <<>>)>> :
     s \in {<<>>} \cup {<<i>> : i \in {Call(0, out, <<T(2)>>), Store(V(b), T(1)), Store(V(y), T(2)),
                                         BinOp(4, "*", T(2), T(1))}},
     args \in {<<T(3), T(2)>>, <<T(3), T(1)>>, <<T(3), N(1)>>}, r \in {T(5), T(2)}}
  \cup {<<Fn(f, <<a, b>>, <<Call(1, in, <<>>), JumpIfNot(T(1), L), Copy(2, V(a)), Copy(3, V(b)),
                             Call(5, f, <<T(3), T(2)>>), Ret(T(5)), Label(L), Copy(6, V(b)), Ret(T(6))>>,
             FALSE, FALSE), MainCalling(<<T(1), N(2)>>, <<>>)>>}
  \cup {<<RecursiveF(<<AddrOf(4, V(b)), Call(0, out, <<T(2)>>)>>, <<T(3), o>>, T(5)),
          MainCalling(<<T(1), N(2)>>, <<>>)>> : o \in {T(2), T(4)}}
  \cup TailCallPrograms

\* Choices: a Temp that gets its value on two paths, as in && and ?:.
ChoiceCodes ==
  LET sources == {T(1), N(0), N(1), V(x), V(y)}
      effect == {<<>>, <<Store(V(x), N(1))>>, <<Store(T(7), N(0))>>, <<Call(0, out, <<T(1)>>)>>}
      and(e, o) == <<Const(2, 0), JumpIfNot(T(1), L)>> \o e
                     \o <<Copy(3, o), Copy(2, T(3)), Label(L), BinOp(4, "!=", T(2), N(0))>>
      cond(e, o, q) == <<JumpIfNot(T(1), L), Copy(2, o), Jump(M), Label(L)>> \o e
                         \o <<Copy(3, q), Copy(2, T(3)), Label(M), BinOp(4, "+", T(2), T(2))>>
      address(t) == <<JumpIfNot(T(1), L), AddrOf(3, t), Store(T(3), N(2)), Label(L), AddrOf(5, t),
                      Load(4, T(5))>>
      code == {address(t) : t \in {G(g), V(y)}} \cup {and(e, o) : e \in effect, o \in sources}
                \cup {cond(e, o, q) : e \in effect, o \in sources, q \in sources}
  IN  {Enter \o s \o <<Store(V(x), T(4))>> \o Leave(AddrOf(9, V(y))) : s \in code}

\* Two words: x is a long variable, y a word that calls may write to; each
\* instruction of the menu has two Temps to itself.
EnterLong == <<Call(1, in, <<>>), Call(2, in, <<>>), LongStore(V(x), <<T(1), T(2)>>), Store(V(y), T(1)),
               AddrOf(3, V(y)), AddrOf(4, V(x)), LongLoad(5, 6, V(x))>>
LeaveLong == <<Copy(7, V(y)), LongLoad(8, 9, V(x)), Call(0, out, <<T(7), T(8), T(9)>>),
               LongRet(<<T(8), T(7)>>)>>

LongMenu(pairs, t) ==
  {LongLoad(t, t + 1, o) : o \in {V(x), T(4)}} \cup {Copy(t, V(y)), Store(V(y), T(2)), Store(V(y), N(1))}
    \cup {LongStore(o, p) : o \in {V(x), T(4)}, p \in pairs}
    \cup {LongCall(t, t + 1, out, <<o>>) : o \in {T(1), T(3)}}
    \cup {LongBinOp(t, t + 1, op, p, <<T(2), N(1)>>) : op \in {"+", "-"}, p \in pairs}
    \cup {LongUnaryOp(t, t + 1, "-", p) : p \in pairs}
    \cup {LongCompare(t, op, p, <<T(1), N(0)>>, unsigned) : op \in {"<", "!="}, p \in pairs, unsigned \in BOOLEAN}

Pairs(code) == {<<T(code[k].dst), T(code[k].hi)>> : k \in {k \in DOMAIN code : code[k].hi # NoTemp}}

RECURSIVE LongBodies(_)
LongBodies(n) ==
  IF n = 0 THEN {<<>>}
  ELSE UNION {{Append(s, i) : i \in LongMenu(Pairs(EnterLong \o s), 8 + 2 * n)} : s \in LongBodies(n - 1)}

LongCodes(n) == {EnterLong \o s \o LeaveLong : s \in LongBodies(n)}

\* Long parameters and results: f shows some of its parameters; or it calls
\* itself last, with one parameter counted down.
Words1(p, wide, t) == IF p \in wide THEN <<T(t), T(t + 1)>> ELSE <<T(t)>>
Read(p, wide, t) == IF p \in wide THEN LongLoad(t, t + 1, V(p)) ELSE Copy(t, V(p))
Shown(p, wide, t) == <<Read(p, wide, t), Call(0, out, Words1(p, wide, t))>>

LongFunctionPrograms ==
  LET fn(code, wide, static) == [Fn(f, <<a, b>>, code, static, FALSE) EXCEPT !.wide = wide]
      shown(reads, wide) == (IF a \in reads THEN Shown(a, wide, 1) ELSE <<>>)
                              \o (IF b \in reads THEN Shown(b, wide, 3) ELSE <<>>)
      result(long) == IF long THEN LongRet(<<N(1), N(2)>>) ELSE Ret(N(1))
      args(wide) == Words1(a, wide, 1) \o Words1(b, wide, 1)
      calling(long, wide) ==
        MainOf(<<Call(1, in, <<>>), Call(2, in, <<>>),
                 IF long THEN LongCall(5, 6, f, args(wide)) ELSE Call(5, f, args(wide)),
                 Call(0, out, <<T(5)>>), Ret(Nothing)>>)
  IN  {<<fn(Append(shown(reads, wide), result(long)), wide, static), calling(long, wide)>> :
         reads \in SUBSET {a, b}, wide \in SUBSET {a, b}, long \in BOOLEAN, static \in BOOLEAN}
      \cup {<<fn(<<Copy(9, V(a)), JumpIfNot(T(9), L), BinOp(1, "-", T(9), N(1)), Read(b, wide, 3),
                   Call(5, f, <<T(1)>> \o Words1(b, wide, 3)), Ret(T(5)), Label(L)>>
                  \o shown({b}, wide) \o <<Ret(N(0))>>, wide, FALSE), calling(FALSE, wide)>> :
               wide \in {{}, {b}}}

\* Functions that return two words, or one, called through a variable that is stored
\* to before each call, or that is a parameter.
PointerPrograms ==
  LET call(long, t, q, o) == IF long THEN LongCallPtr(t, t + 1, q, <<o>>) ELSE CallPtr(t, q, <<o>>)
      fn(name, long, k) == Fn(name, <<a>>, <<Copy(1, V(a)), BinOp(2, "+", T(1), N(k)),
                                             IF long THEN LongRet(<<T(2), N(0)>>) ELSE Ret(T(2))>>, FALSE, FALSE)
      again(target) == <<AddrOf(6, G(target)), Store(V(x), T(6))>>
      through(long, between) ==
        MainOf(<<Call(1, in, <<>>), AddrOf(2, G(f)), Store(V(x), T(2)), Copy(3, V(x)), call(long, 4, T(3), T(1))>>
                 \o between \o <<Copy(7, V(x)), call(long, 8, T(7), T(4)), Call(0, out, <<T(4), T(8)>>), Ret(Nothing)>>)
      passed(long, more) ==
        Fn(inner, <<a, b>>, <<Copy(1, V(b)), Copy(2, V(a)), call(long, 3, T(2), T(1))>> \o more \o <<Ret(T(3))>>, FALSE, FALSE)
  IN  {<<fn(f, long, 1), fn(h, long, 0), through(long, between)>> :
         long \in BOOLEAN, between \in {<<>>, again(h), again(f), <<JumpIf(T(1), L)>> \o again(h) \o <<Label(L)>>}}
      \cup UNION {{<<fn(f, long, 1), passed(long, more),
                      MainOf(<<Call(1, in, <<>>), AddrOf(2, G(f)), Call(3, inner, <<T(2), T(1)>>),
                               Call(0, out, <<T(3)>>), Ret(Nothing)>>)>> :
                      more \in {<<>>, <<Copy(9, V(a))>>, <<Copy(9, V(a)), Call(0, out, <<T(9)>>)>>,
                               <<Copy(9, V(a)), call(long, 10, T(9), T(3))>>}} : long \in BOOLEAN}

\* Programs of one function, and of several.
MainPrograms ==
  {<<MainOf(code)>> : code \in ValueCodes(3) \cup ControlCodes(5) \cup ChoiceCodes \cup ArithmeticCodes \cup LongCodes(2)}

MCPrograms == MainPrograms
  \cup FunctionPrograms(2, {<<T(1), N(1)>>, <<N(0), T(1)>>}) \cup FunctionPrograms(3, {<<T(1), N(1)>>})
  \cup ChainPrograms \cup DeepChainPrograms \cup RecursionPrograms \cup LongFunctionPrograms \cup PointerPrograms
MCInputs == Words
=============================================================================
