------------------------------ MODULE MCCompilation ------------------------------
(* Programs for Compilation, in families: each program calls in() for a word
   to work on, out(word) to show one, and look(pointer) to show and change what
   the pointer leads to.  A source is the name of a family and what the program
   is made from. *)
EXTENDS Compilation

in == <<"in">>
out == <<"out">>
look == <<"look">>
f == <<"f">>
g == <<"g">>
x == <<"x">>
y == <<"y">>
u == <<"u">>
c == <<"c">>
l == <<"l">>
m == <<"m">>
p == <<"p">>
a == <<"a">>
q == <<"q">>
s == <<"s">>
k == <<"k">>
n == <<"n">>

int == CInt(FALSE)
unsigned == CInt(TRUE)
char == CChar(FALSE)
long == CLong(FALSE)
ulong == CLong(TRUE)
intPtr == CPointer(int)

X(name) == Ident(name)
I(v) == IntLit(v)
Do(e) == ExprStmt(e)
CallOf(h, args) == CallExpr(Ident(h), args)
In == CallOf(in, <<>>)
Out(e) == Do(CallOf(out, <<e>>))
Let(name, t, e) == DeclStmt(name, t, e)
Becomes(e, v) == Do(Assign("=", e, v))
Prototype(name, params) == FuncDecl(name, int, params, None)

Prelude == <<Prototype(in, <<>>), Prototype(out, <<ParamDecl(a, int)>>), Prototype(look, <<ParamDecl(p, intPtr)>>)>>
MainFn(stmts) == FuncDecl(Main, int, <<>>, Block(stmts))
Program(ds, stmts) == Prelude \o ds \o <<MainFn(stmts)>>

-----------------------------------------------------------------------------
\* Expressions over variables of every type.
Vars == <<Let(x, int, In), Let(y, int, Binary("&", X(x), I(3))), Let(u, unsigned, In),
          Let(c, char, I(7)), Let(l, long, In), Let(m, ulong, X(u)),
          Let(a, CArray(int, 3), InitList(<<I(4), I(5)>>)), Let(p, intPtr, X(a))>>

BinaryOps == {"+", "-", "*", "/", "%", "&", "|", "^", "<<", ">>", "==", "!=", "<", ">", "<=", ">=", "&&", "||"}
Leaves == {X(x), X(u), X(c), X(l), X(m), I(1), I(4)}
Parts == {Unary("++post", X(x)), Unary("--pre", X(y)), In, Index(X(a), X(y)), Unary("*", X(p)),
          Unary("-", X(x)), Unary("~", X(c)), Unary("!", X(l)), Unary("-", X(l)), Cast(char, X(x)),
          Cast(long, X(u)), Assign("=", X(c), X(x)), Assign("+=", X(x), X(c)), Binary("&&", X(y), In),
          Ternary(X(y), X(x), X(c)), Binary("<", X(x), X(u)), SizeOf(X(m)), SizeOf(long)}

Showing(e) == Program(<<>>, Vars \o <<Out(e), Out(X(x)), Out(X(y)), ReturnStmt(X(c))>>)

LeafSources == {"leaf"} \X BinaryOps \X Leaves \X Leaves
PartSources == ({"part"} \X {"+", "||"} \X Parts \X Parts)
                 \cup ({"choice"} \X Parts \X {X(x), In, Unary("++post", X(x))})

\* How operators bind: each within each, on either side, and the other forms of
\* expressions within each other.
Binding == {"||", "&&", "|", "^", "&", "==", "<", ">>", "-", "+", "*", "/"}
Nested(o, h) == {Binary(o, Binary(h, X(x), X(y)), I(3)), Binary(o, X(x), Binary(h, X(y), I(3)))}
Forms == {
  Unary("-", Binary("+", X(x), X(y))), Binary("+", Unary("-", X(x)), X(y)), Unary("!", Unary("~", X(x))),
  Unary("-", Unary("-", X(x))), Binary("-", X(x), Unary("--pre", X(y))), Binary("-", Unary("--post", X(x)), X(y)),
  Cast(char, Binary("+", X(x), X(y))), Binary("+", Cast(char, X(x)), X(y)), Cast(int, Unary("*", X(p))),
  Unary("*", Cast(intPtr, Binary("+", X(p), I(1)))), Binary("*", Unary("*", X(p)), Unary("*", X(p))),
  Unary("*", Unary("++post", X(p))), Unary("++post", Unary("*", X(p))), Unary("*", Unary("&", Index(X(a), I(1)))),
  Index(Binary("+", X(a), I(1)), X(y)), Binary("&", X(x), Cast(int, X(l))), Unary("*", Binary("-", X(p), Unary("-", I(1)))),
  Ternary(X(x), X(y), Ternary(X(y), X(x), I(2))), Ternary(X(x), Ternary(X(y), I(1), X(x)), I(2)),
  Ternary(Ternary(X(x), X(y), I(0)), I(1), I(2)), Ternary(Assign("=", X(x), X(y)), Assign("=", X(y), I(2)), X(x)),
  Binary("+", X(y), Ternary(X(x), I(1), I(2))), Ternary(Binary("||", X(x), X(y)), I(1), Binary("-", X(y), I(1))),
  Assign("=", X(x), Assign("+=", X(y), I(1))), Binary("+", Assign("=", X(x), I(2)), I(1)), Unary("-", Assign("-=", X(x), X(y))),
  SizeOf(X(l)), Binary("+", SizeOf(X(a)), X(x)), SizeOf(Unary("*", X(p))), SizeOf(Binary("+", X(l), X(x))),
  Binary("-", SizeOf(intPtr), X(y)), SizeOf(Cast(long, X(x))), CallOf(out, <<Assign("=", X(y), X(x))>>)}
NestSources == {"show"} \X ((UNION {Nested(o, h) : o \in Binding, h \in Binding}) \cup Forms)

\* Assignments to objects of every type, and a look at all of them afterwards.
Elem(i) == Index(X(a), i)
Targets == {X(x), X(u), X(c), X(l), X(m), X(k), Elem(X(y)), Elem(I(1)), Unary("*", X(p)),
            Unary("*", Binary("+", X(p), X(y))), Elem(Unary("++post", X(y)))}
Operations == {"=", "+=", "-=", "*=", "/=", "%=", "&=", ">>="}
ShowAll == <<Out(X(x)), Out(X(y)), Out(X(u)), Out(X(c)), Out(Cast(int, X(l))), Out(Binary("<", X(l), X(x))),
             Out(Binary("==", X(m), X(u))), Out(X(k)), Out(Elem(I(0))), Out(Elem(I(1))), Out(Elem(I(2)))>>
AssignSources == {"assign"} \X Operations \X Targets \X {X(x), X(c), X(l), I(3), Unary("--post", X(y))}
Assigning(op, to, e) ==
  Program(<<VarDecl(k, char, I(9), FALSE)>>, Vars \o <<Do(Assign(op, to, e))>> \o ShowAll \o <<ReturnStmt(I(0))>>)

-----------------------------------------------------------------------------
\* Control: statements within one or two loops, or a switch within a loop.
L == <<"L">>
If(e, st) == IfStmt(e, st, None)
Is(e, v) == Binary("==", e, I(v))
Counted(e) == Binary("<", e, I(3))
Inc(v) == Unary("++post", X(v))

Atoms == {Out(X(n)), BreakStmt, ContinueStmt, If(Is(X(n), 1), ContinueStmt), If(X(y), BreakStmt),
          If(Is(X(n), 2), GotoStmt(L)), IfStmt(Binary("&&", X(y), X(n)), Out(I(5)), Out(I(6)))}
Leaving == {Out(X(n)), BreakStmt, ContinueStmt}
Loops(st) ==
  {WhileStmt(Counted(X(n)), Block(<<Do(Inc(n)), st>>)),
   DoWhileStmt(Block(<<Do(Inc(n)), st>>), Counted(X(n))),
   ForStmt(Becomes(X(n), I(0)), Counted(X(n)), Inc(n), st),
   ForStmt(None, None, None, Block(<<If(Is(Inc(n), 2), BreakStmt), st>>))}
Twice(st) == ForStmt(Let(k, int, I(0)), Binary("<", X(k), I(2)), Inc(k), Block(<<Becomes(X(n), I(1)), st>>))
Switch(st, t) == SwitchStmt(X(n), <<CaseClause(I(1), <<st>>), CaseClause(None, <<Out(I(7)), t>>), CaseClause(I(2), <<Out(I(8))>>)>>)
Bodies == {Block(<<st, t>>) : st \in Atoms, t \in Atoms} \cup {Block(<<Switch(st, t), Out(I(3))>>) : st \in Atoms, t \in Atoms}
Controlled(st) ==
  Program(<<>>, <<Let(y, int, Binary("&", In, I(1))), Let(n, int, I(0)), st, Out(I(4)),
                  LabelStmt(L, Out(X(n))), ReturnStmt(X(y))>>)
LoopSources ==
  {"control"} \X (UNION {Loops(st) : st \in Bodies}
                  \cup {Block(<<Twice(Block(<<st, t>>)), Out(I(9))>>) : st \in UNION {Loops(t) : t \in Atoms}, t \in Leaving})

\* To which if an else belongs: without braces, to the last that has none.
RECURSIVE EndsOpen(_)
EndsOpen(st) ==
  CASE st.is = "IfStmt" -> st.else = None \/ EndsOpen(st.else)
    [] st.is \in {"WhileStmt", "ForStmt", "LabelStmt"} -> EndsOpen(st.body)
    [] OTHER -> FALSE
Either(e, st, t) == IfStmt(e, IF EndsOpen(st) THEN Block(<<st>>) ELSE st, t)
Inquiries == {If(In, Out(I(1))), IfStmt(In, Out(I(1)), Out(I(2))), If(In, IfStmt(In, Out(I(1)), Out(I(2)))),
              Either(In, If(In, Out(I(1))), Out(I(2))), IfStmt(In, Out(I(1)), If(X(y), Out(I(2))))}
Around(st) == {st, WhileStmt(Counted(Inc(n)), st), ForStmt(None, Counted(X(n)), Inc(n), st),
               DoWhileStmt(st, Counted(Inc(n))), LabelStmt(f, st), Block(<<st>>)}
ElseSources ==
  {"control"} \X UNION {{If(X(y), st), Either(X(y), st, Out(I(5))), Either(X(y), st, If(X(n), Out(I(6)))), IfStmt(X(y), Out(I(5)), st)}
                        : st \in UNION {Around(t) : t \in Inquiries}}

\* What follows a break.
AfterBreak == {"control"} \X UNION {Loops(Block(<<BreakStmt, st>>)) : st \in Atoms}

\* Jumps back, to a place before or inside of a loop.
Again(st) ==
  Program(<<>>, <<Let(n, int, I(0)), LabelStmt(L, st), Do(Inc(n)), Out(X(n)), If(Counted(X(n)), GotoStmt(L)), ReturnStmt(X(n))>>)
Into(st) == Program(<<>>, <<Let(n, int, I(0)), If(In, GotoStmt(L)), Out(I(5)), st, ReturnStmt(X(n))>>)
BackSources ==
  LET known == {st \in Atoms : st.is # "IfStmt" \/ st.cond \in {Is(X(n), 1), Is(X(n), 2)}} IN
  ({"again"} \X UNION {Loops(st) : st \in known})
    \cup ({"into"} \X UNION {Loops(Block(<<Out(I(6)), LabelStmt(L, st)>>)) : st \in known \ {If(Is(X(n), 2), GotoStmt(L))}})

\* Every order of cases, with and without break.
Values == {I(0), I(1), I(-1), None}
Deciding(vs, ends, e) ==
  Program(<<>>, <<Let(x, int, In),
                  SwitchStmt(Binary("&", X(x), e), [i \in 1 .. 3 |-> CaseClause(vs[i], <<Out(I(i))>> \o ends[i])]),
                  ReturnStmt(X(x))>>)
SwitchSources ==
  {"switch"} \X {vs \in [1 .. 3 -> Values] : IsInjective(vs)} \X [1 .. 3 -> {<<>>, <<BreakStmt>>}] \X {I(3), Unary("-", I(1))}

-----------------------------------------------------------------------------
\* Data: objects of several words, how they start, and what leads to them.
List(vs) == InitList([i \in DOMAIN vs |-> I(vs[i])])
two == CStruct(s, <<StructField(x, int, 0), StructField(l, long, 1), StructField(c, char, 3)>>)
pair == CStruct(q, <<StructField(x, int, 0), StructField(a, CArray(int, 2), 1)>>)
either == CUnion(u, <<StructField(x, int, 0), StructField(l, long, 0)>>)
Field(o, name) == Member(o, name, FALSE)
Through(o, name) == Member(o, name, TRUE)

\* A type, its initializer, and expressions that show all of it.
Objects == {
  <<int, I(5), <<X(s)>>>>, <<char, I(5), <<X(s)>>>>, <<long, I(300), <<Binary("==", X(s), I(300))>>>>,
  <<CArray(int, 3), List(<<1, 2>>), <<Index(X(s), I(0)), Index(X(s), I(1)), Index(X(s), I(2))>>>>,
  <<CArray(int, 3), List(<<1, 2, 3>>), <<Unary("*", Binary("+", X(s), I(2)))>>>>,
  <<CArray(char, 2), List(<<255>>), <<Index(X(s), I(0)), Index(X(s), I(1))>>>>,
  <<CArray(long, 2), List(<<1, 300>>), <<Binary("==", Index(X(s), I(1)), I(300)), Cast(int, Index(X(s), I(0)))>>>>,
  <<CArray(CArray(int, 3), 2), InitList(<<List(<<1, 2, 5>>), List(<<3>>)>>), <<Index(Index(X(s), I(1)), I(0)), Index(Index(X(s), I(0)), I(1))>>>>,
  <<CArray(CArray(int, 2), 2), InitList(<<List(<<1>>), List(<<3, 4>>)>>), <<Index(Index(X(s), I(1)), I(0)), Index(Index(X(s), I(0)), I(1))>>>>,
  <<pair, List(<<>>), <<Field(X(s), x), Index(Field(X(s), a), I(1))>>>>,
  <<two, None, <<Field(X(s), x)>>>>, <<either, None, <<Field(X(s), x)>>>>}

Touches == {<<>>, <<Do(CallOf(look, <<Unary("&", X(k))>>))>>, <<Becomes(X(k), Binary("+", X(k), I(1)))>>}
Shows(es) == [i \in DOMAIN es |-> Out(es[i])]
Holding(where, o, st) ==
  Program(IF where = "global" THEN <<VarDecl(s, o[1], o[2], FALSE)>> ELSE <<>>,
          <<Let(k, int, I(1))>>
            \o (CASE where = "global" -> <<>> [] where = "local" -> <<Let(s, o[1], o[2])>>
                  [] where = "static" -> <<StaticDecl(s, o[1], o[2])>>)
            \o st \o Shows(o[3]) \o <<Out(SizeOf(X(s))), ReturnStmt(X(k))>>)
DataSources == {"data"} \X {"global", "local", "static"} \X Objects \X Touches

\* Globals that are declared const.
Constant(t, v, e) ==
  Program(<<VarDecl(k, t, v, TRUE), VarDecl(n, int, I(2), TRUE)>>,
          <<Let(x, int, In), Let(a, CArray(int, 2), List(<<1, 2>>)), Out(Cast(int, e)), Out(X(n)), ReturnStmt(I(0))>>)
ConstSources ==
  ({"const"} \X {int, char, unsigned, long} \X {I(5), CharLit(5), Unary("-", I(3)), None}
      \X {X(k), Binary("+", X(k), X(x)), Binary("<", X(x), X(k)), Index(X(a), Binary("&", X(k), X(n))), Unary("*", Unary("&", X(k)))})
   \cup ({"const"} \X {intPtr} \X {I(0), None} \X {Unary("*", Assign("=", X(k), X(a))), Binary("==", X(k), Assign("=", X(k), X(a)))})

\* Stores through every kind of path, each seen through another.
Paths == {Index(X(a), X(k)), Unary("*", X(p)), Index(X(p), I(1)), Field(X(s), x), Field(X(s), l), Field(X(s), c),
          Through(X(q), x), Through(X(q), l), Field(Index(X(y), X(k)), x), Index(Field(Index(X(y), I(0)), a), X(k)),
          Unary("*", Unary("++post", X(p))), Field(X(u), x)}
Setup == <<Let(k, int, Binary("&", In, I(1))), Let(a, CArray(int, 2), List(<<1, 2>>)), Let(p, intPtr, X(a)), Let(s, two, None),
              Let(q, CPointer(two), Unary("&", X(s))), Let(y, CArray(pair, 2), None), Let(u, either, None),
              Becomes(Field(X(s), x), I(3)), Becomes(Field(X(s), l), I(4)), Becomes(Field(X(s), c), I(5)),
              Becomes(Field(Index(X(y), I(0)), x), I(6)), Becomes(Field(Index(X(y), I(1)), x), I(7)),
              Becomes(Index(Field(Index(X(y), I(0)), a), I(0)), I(8)), Becomes(Index(Field(Index(X(y), I(0)), a), I(1)), I(9)),
              Becomes(Field(X(u), l), I(2))>>
Storing(op, d, e) ==
  Program(<<>>, Setup \o <<Do(Assign(op, d, e)), Out(d), Out(Cast(int, e)), Out(X(k)), Out(Binary("-", X(p), X(a))),
                               Out(Field(X(s), x)), Out(Index(X(a), I(1))), ReturnStmt(Field(X(u), x))>>)
PathSources == {"path"} \X {"=", "+="} \X Paths \X (Paths \cup {Binary("-", X(p), X(a)), I(11)})

-----------------------------------------------------------------------------
\* Functions: types of parameters and results, statics, recursion, pointers.
Function2(t, r, body) == FuncDecl(f, r, <<ParamDecl(x, t), ParamDecl(y, int)>>, Block(body))
Types == {int, char, long, unsigned, ulong}
Converting(t, r, d, e, op) ==
  Program(<<Function2(t, r, <<ReturnStmt(Binary(op, X(x), X(y)))>>)>>,
          <<Let(k, d, In), Let(s, e, CallOf(f, <<X(k), I(2)>>)), Out(Binary("<", X(s), I(5))), ReturnStmt(Cast(int, X(s)))>>)
TypeSources == {"type"} \X Types \X Types \X {int, long, unsigned} \X {int, long, char} \X {"+", "*", "/"}

FunctionBodies == {
  <<StaticDecl(k, int, I(2)), Do(Assign("+=", X(k), X(x))), ReturnStmt(X(k))>>,
  <<StaticDecl(k, int, In), ReturnStmt(Unary("++post", X(k)))>>,
  <<StaticDecl(k, CArray(int, 2), List(<<1, 2>>)), ReturnStmt(Unary("++pre", Index(X(k), Binary("&", X(x), I(1)))))>>,
  <<StaticDecl(k, long, I(5)), Do(Assign("+=", X(k), X(x))), ReturnStmt(Cast(int, X(k)))>>,
  <<IfStmt(Binary("<", X(x), I(2)), ReturnStmt(X(y)), None), ReturnStmt(Binary("+", CallOf(f, <<Binary("/", X(x), I(4)), X(y)>>), X(x)))>>,
  <<IfStmt(X(y), Out(X(y)), ReturnStmt(X(x))), ReturnStmt(CallOf(f, <<X(y), Binary("-", X(y), I(1))>>))>>,
  <<Becomes(X(x), Binary("+", X(x), X(g))), Becomes(X(g), X(x)), ReturnStmt(X(y))>>,
  <<Do(CallOf(look, <<Unary("&", X(x))>>)), ReturnStmt(X(x))>>,
  <<WhileStmt(X(y), Block(<<Do(Unary("--post", X(y))), Do(Assign("+=", X(x), X(y)))>>)), ReturnStmt(X(x))>>,
  <<ReturnStmt(Ternary(X(y), X(x), X(g)))>>}
FunctionUses == {
  <<Out(CallOf(f, <<In, I(1)>>)), Out(CallOf(f, <<X(g), I(2)>>))>>,
  <<Let(p, CPointer(CFunction(int, <<int, int>>, FALSE)), X(f)), Out(CallOf(p, <<In, I(1)>>)), Out(CallOf(f, <<I(1), I(0)>>))>>,
  <<Out(Binary("+", CallOf(f, <<In, CallOf(f, <<I(3), I(0)>>)>>), X(g)))>>,
  <<Let(k, int, I(3)), WhileStmt(X(k), Block(<<Do(Assign("-=", X(k), I(1))), Do(CallOf(f, <<X(k), X(k)>>)), Out(X(g))>>))>>}
Calling(body, st, static, always) ==
  Program(<<VarDecl(g, int, I(4), FALSE), [Function2(int, int, body) EXCEPT !.static = static, !.always = always]>>,
          st \o <<ReturnStmt(X(g))>>)
FunctionSources == {"function"} \X FunctionBodies \X FunctionUses \X BOOLEAN \X BOOLEAN

\* Structs as parameters and results are copies.
Copying(e, d, h) ==
  Program(<<FuncDecl(f, two, <<ParamDecl(s, two), ParamDecl(y, int)>>,
                     Block(<<Let(q, two, X(s)), Becomes(Field(X(s), x), I(9)), Becomes(Field(X(q), e), X(y)), ReturnStmt(X(d))>>))>>,
          <<Let(s, two, None), Let(q, two, None), Becomes(Field(X(s), x), In), Becomes(Field(X(s), l), I(2)), Becomes(Field(X(s), c), I(3)),
            Becomes(X(q), CallOf(f, <<h, I(5)>>)), Out(Field(X(s), x)), Out(Field(X(q), x)), Out(Field(X(q), c)),
            Out(Binary("==", Field(X(q), l), I(5))), ReturnStmt(I(0))>>)
StructSources == {"struct"} \X {x, l, c} \X {s, q} \X {X(s), Unary("*", Unary("&", X(s)))}

-----------------------------------------------------------------------------
\* Scopes: declarations in blocks, and names that are used there and later.
Users == {Out(X(v)) : v \in {x, y, k}}
Inner == {Block(<<Let(v, int, I(5)), st>>) : v \in {x, y, k}, st \in Users}
           \cup {ForStmt(Let(k, int, I(0)), Binary("<", X(k), I(2)), Inc(k), st) : st \in Users}
           \cup {SwitchStmt(X(x), <<CaseClause(I(3), <<Let(y, int, I(6)), st>>)>>) : st \in Users}
ScopeSources == {"scope"} \X Inner \X (Inner \cup Users) \X Users
Scoped(st, t, v) == Program(<<VarDecl(y, int, I(1), FALSE)>>, <<Let(x, int, In), st, t, v, ReturnStmt(X(x))>>)

AritySources == {"arity"} \X {<<>>, <<In>>, <<In, I(1)>>, <<In, I(1), I(2)>>}
Passing(args) ==
  Program(<<Function2(int, int, <<ReturnStmt(X(y))>>)>>, <<Out(CallOf(f, args)), ReturnStmt(I(0))>>)

-----------------------------------------------------------------------------
MCSources ==
  UNION {LeafSources, PartSources, NestSources, AssignSources, LoopSources, ElseSources, BackSources, SwitchSources, DataSources,
         ConstSources, PathSources,
         TypeSources, FunctionSources, StructSources, ScopeSources, AritySources}

MCTree(z) ==
  CASE z[1] \in {"leaf", "part"} -> Showing(Binary(z[2], z[3], z[4]))
    [] z[1] = "show" -> Showing(z[2])
    [] z[1] = "choice" -> Showing(Ternary(z[2], z[3], X(c)))
    [] z[1] = "assign" -> Assigning(z[2], z[3], z[4])
    [] z[1] = "control" -> Controlled(z[2])
    [] z[1] = "again" -> Again(z[2])
    [] z[1] = "into" -> Into(z[2])
    [] z[1] = "switch" -> Deciding(z[2], z[3], z[4])
    [] z[1] = "data" -> Holding(z[2], z[3], z[4])
    [] z[1] = "const" -> Constant(z[2], z[3], z[4])
    [] z[1] = "path" -> Storing(z[2], z[3], z[4])
    [] z[1] = "type" -> Converting(z[2], z[3], z[4], z[5], z[6])
    [] z[1] = "function" -> Calling(z[2], z[3], z[4], z[5])
    [] z[1] = "struct" -> Copying(z[2], z[3], z[4])
    [] z[1] = "scope" -> Scoped(z[2], z[3], z[4])
    [] z[1] = "arity" -> Passing(z[2])

\* How the programs of a family are written.
MCDictionary(z) ==
  [Written!Plain EXCEPT
     !.joined = z[1] # "const",
     !.records = IF z[1] \in {"data", "path", "struct"} THEN <<pair, two, either>> ELSE <<>>,
     !.typedefs = CASE z[1] = "type" -> <<<<<<"big">>, long>>, <<<<"size">>, ulong>>>>
                    [] z[1] = "function" -> <<<<<<"binary">>, CPointer(CFunction(int, <<int, int>>, FALSE))>>>>
                    [] z[1] = "struct" -> <<<<<<"two">>, two>>>>
                    [] OTHER -> <<>>,
     !.enums = IF z[1] = "switch" THEN <<<<<<"Below">>, -1>>, <<<<"None">>, 0>>, <<<<"One">>, 1>>, <<<<"Three">>, 3>>>> ELSE <<>>,
     !.lengths = CASE z[1] = "data" -> (3 :> Binary("-", Binary("*", I(2), I(4)), I(5)))
                   [] z[1] = "path" -> (2 :> Binary("+", Binary("%", I(7), I(4)), Unary("-", I(1))))
                   [] OTHER -> <<>>]

MCInputs == {0, 3, 254}
=============================================================================
