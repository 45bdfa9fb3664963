------------------------------- MODULE CSemantics -------------------------------
(***************************************************************************)
(* What an analysed program means: the C language on words of Width bits,   *)
(* independent of the compiler, to compare the generated code with.  It     *)
(* looks at the types of declarations only, not at those the analyser       *)
(* found, and keeps one object per declaration and entry of its block.      *)
(*                                                                          *)
(* A program that uses a name where it is not declared, or passes the wrong *)
(* number of arguments, is invalid.                                         *)
(*                                                                          *)
(* What C leaves open is as the compiler has it: char is unsigned and half  *)
(* a word, long two words, operands are evaluated from left to right, and   *)
(* an assigned value before its target.  What C leaves undefined is stuck.  *)
(* s.notes remembers what came up during the execution.                     *)
(***************************************************************************)
EXTENDS AST, IRMachine, Bitwise

CharBits == Width \div 2

\* Types, by the rules of C.
Promote(t) == CASE IsLong(t) -> t
                [] t.is = "CChar" -> CInt(FALSE)
                [] OTHER -> CInt(t.unsigned)
Usual(t, u) ==
  IF IsLong(t) \/ IsLong(u) THEN CLong(\E x \in {t, u} : IsLong(x) /\ x.unsigned)
  ELSE CInt(Promote(t).unsigned \/ Promote(u).unsigned)
Decay(t) == CASE t.is = "CArray" -> CPointer(t.base)
              [] t.is = "CFunction" -> CPointer(t)
              [] OTHER -> t
Target(t) == Decay(t).base
Address(t) == Decay(t).is = "CPointer"
FunctionOf(t) == IF t.is = "CFunction" THEN t ELSE t.base

Relational == {"==", "!=", "<", ">", "<=", ">="}
OperationType(op, t, u) ==
  CASE op \in Relational -> CInt(FALSE)
    [] Address(t) /\ Address(u) -> CInt(FALSE)
    [] Address(t) /\ ~Address(u) -> Decay(t)
    [] ~Address(t) /\ Address(u) -> Decay(u)
    [] OTHER -> IF op \in {"<<", ">>"} THEN Promote(t) ELSE Usual(t, u)

RECURSIVE TypeOf(_, _)
TypeOf(e, env) ==
  LET of(x) == TypeOf(x, env) IN
  CASE e.is = "Ident" -> IF e.name \in DOMAIN env THEN env[e.name].type ELSE CInt(FALSE)
    [] e.is = "BinOp" -> IF e.op \in {"&&", "||"} THEN CInt(FALSE)
                         ELSE OperationType(IF e.op \in Relational THEN "==" ELSE e.op, of(e.left), of(e.right))
    [] e.is = "UnaryOp" /\ e.op = "&" -> CPointer(of(e.operand))
    [] e.is = "UnaryOp" /\ e.op = "*" -> Target(of(e.operand))
    [] e.is = "UnaryOp" /\ e.op \in {"-", "~"} -> Promote(of(e.operand))
    [] e.is = "UnaryOp" /\ e.op \in {"++pre", "--pre", "++post", "--post"} -> of(e.operand)
    [] e.is = "Assign" -> of(e.target)
    [] e.is = "Call" -> FunctionOf(of(e.func)).ret
    [] e.is = "Index" -> Target(of(e.array))
    [] e.is = "Cast" -> e.to
    [] e.is = "Ternary" -> IF IsInteger(of(e.then)) /\ IsInteger(of(e.else)) THEN Usual(of(e.then), of(e.else))
                           ELSE Decay(IF IsInteger(of(e.then)) THEN of(e.else) ELSE of(e.then))
    [] e.is = "Member" -> GetField(IF e.arrow THEN Target(of(e.obj)) ELSE of(e.obj), e.field).ctype
    [] OTHER -> CInt(FALSE)

-----------------------------------------------------------------------------
(* Values are sequences of words. *)
Known(v) == \A k \in DOMAIN v : v[k] # Nothing
Unknown(t) == [k \in 1 .. Size(t) |-> Nothing]

ToInt(v, t) ==
  CASE IsLong(t) -> LET n == Double(v[1][2], v[2][2]) IN IF t.unsigned THEN n ELSE SignedDouble(n)
    [] t.is = "CChar" -> v[1][2]
    [] OTHER -> IF Unsigned(t) THEN v[1][2] ELSE Signed(v[1][2])
FromInt(n, t) ==
  CASE IsLong(t) -> LET w == Words2(n % 2^DoubleWidth) IN <<N(w[1]), N(w[2])>>
    [] t.is = "CChar" -> <<N(n % 2^CharBits)>>
    [] OTHER -> <<N(n % 2^Width)>>
Convert(v, t, to) ==
  CASE IsInteger(t) /\ IsInteger(to) -> IF Known(v) THEN FromInt(ToInt(v, t), to) ELSE Unknown(to)
    [] OTHER -> v
IsTrue(v) == \E k \in DOMAIN v : v[k] # N(0)

Bits(t) == Width * Size(t)
InRange(n, t) == t.unsigned \/ n \in -(2^(Bits(t) - 1)) .. 2^(Bits(t) - 1) - 1
Arithmetic(op, a, b, t) ==
  LET bits(n) == n % 2^Bits(t) IN
  CASE op = "+" -> a + b  [] op = "-" -> a - b  [] op = "*" -> IF t.unsigned THEN Product(a, b) ELSE a * b
    [] op = "/" -> Quotient(a, b)  [] op = "%" -> Remainder(a, b)
    [] op = "&" -> bits(a) & bits(b)  [] op = "|" -> bits(a) | bits(b)  [] op = "^" -> bits(a) ^^ bits(b)
    [] op = "<<" -> bits(bits(a) * 2^b)  [] op = ">>" -> bits(a) \div 2^b
Holds(op, a, b) ==
  CASE op = "==" -> a = b  [] op = "!=" -> a # b  [] op = "<" -> a < b
    [] op = ">" -> a > b   [] op = "<=" -> a <= b [] op = ">=" -> a >= b

\* Two numbers of type c under an operator with a result of type r; <<>> if
\* that is undefined.
Calculated(op, a, b, c, r) ==
  LET n == Arithmetic(op, a, b, c) IN
  IF op \in Relational THEN FromInt(Truth(Holds(op, a, b)), r)
  ELSE IF \/ op \in {"/", "%"} /\ b = 0
          \/ op \in {"<<", ">>"} /\ b \notin 0 .. Bits(r) - 1
          \/ op \notin {"<<", ">>", "&", "|", "^"} /\ ~InRange(n, c)
       THEN <<>> ELSE FromInt(n, r)

\* v of type t and w of type u under an operator.
Operated(op, v, t, w, u) ==
  LET number(x, from, c) == ToInt(Convert(x, from, c), c)
      calculated(c, r) == Calculated(op, number(v, t, c), number(w, u, c), c, r)
      moved(p, k, i) == IF IsPointer(p[1]) THEN <<Shifted(p[1], k * i)>> ELSE <<>>
      compared == Result(op, v[1], w[1])
  IN
  IF ~Known(v) \/ ~Known(w) THEN <<>> ELSE
  CASE Address(t) /\ Address(u) /\ op = "-" ->
         IF IsPointer(v[1]) /\ IsPointer(w[1]) /\ SameObject(v[1], w[1])
         THEN FromInt(Quotient(v[1][2][3] - w[1][2][3], Size(Target(t))), OperationType(op, t, u)) ELSE <<>>
    [] Address(t) /\ ~Address(u) /\ op \in {"+", "-"} ->
         moved(v, IF op = "+" THEN Size(Target(t)) ELSE -Size(Target(t)), ToInt(w, u))
    [] ~Address(t) /\ Address(u) /\ op = "+" -> moved(w, Size(Target(u)), ToInt(v, t))
    [] (Address(t) \/ Address(u)) /\ op \in Relational -> IF compared = Nothing THEN <<>> ELSE <<compared>>
    [] OTHER -> calculated(Usual(t, u), OperationType(op, t, u))

-----------------------------------------------------------------------------
(* The state of an execution.  flow is go, or break, continue or return on the
   way out of a statement, or seek on the way to a label. *)
Bind(s, F(_)) == IF s.end = "no" THEN F(s) ELSE s
Invalid(s) == [s EXCEPT !.end = "invalid"]       \* not a C program
ValueOf(s, v) == IF v = <<>> THEN Stuck(s) ELSE [s EXCEPT !.val = v]
Note(s, n, when) == IF when THEN [s EXCEPT !.notes = @ \cup {n}] ELSE s
Spent(s) == IF s.fuel = 0 THEN [s EXCEPT !.end = "endless"] ELSE [s EXCEPT !.fuel = @ - 1]

WordsAt(place, n) == [k \in 1 .. n |-> [place EXCEPT ![3] = @ + k - 1]]
Get(s, place, t) ==
  LET at == WordsAt(place, Size(t))
      v == [k \in DOMAIN at |-> s.mem[at[k]]]
  IN  CASE t.is \in {"CArray", "CFunction"} -> ValueOf(s, <<<<"p", place>>>>)
        [] OTHER -> IF ToSet(at) \subseteq DOMAIN s.mem /\ (Known(v) \/ IsRecord(t))
                    THEN ValueOf(s, v) ELSE Stuck(s)
Set(s, place, v) ==
  LET at == WordsAt(place, Len(v))
  IN  IF ToSet(at) \subseteq DOMAIN s.mem
      THEN [s EXCEPT !.mem = [p \in ToSet(at) |-> v[p[3] - place[3] + 1]] @@ @] ELSE Stuck(s)

\* A declared object, with every word as given.
Declare(s, x, t, id, name, word) ==
  [s EXCEPT !.env = (x :> [type |-> t, place |-> <<id, name, 0>>]) @@ @,
            !.mem = [p \in ToSet(WordsAt(<<id, name, 0>>, Size(t))) |-> word] @@ @]
DeclareLocal(s, x, t) == [Declare(s, x, t, s.fresh, x, Nothing) EXCEPT !.fresh = @ + 1]

\* What was declared since s is gone.
LeaveTo(s, r) ==
  [r EXCEPT !.env = s.env,
            !.mem = [p \in {p \in DOMAIN r.mem : p[1] < s.fresh} |-> r.mem[p]]]

\* The value of e, converted to another type.
Narrowed(v, t, to) == to.is = "CChar" /\ IsInteger(t) /\ Known(v) /\ ToInt(v, t) # ToInt(Convert(v, t, to), to)
Signs(e, t) == IsInteger(t) /\ (Unsigned(e.ctype) # Unsigned(t) \/ (Unsigned(t) /\ e.is = "UnaryOp" /\ e.op = "-"))
ConvertedTo(s, e, t, to) == [Note(s, "unsigned", IsLong(to) /\ Signs(e, t)) EXCEPT !.val = Convert(@, t, to)]

\* Where the elements of an initializer go.
RECURSIVE Placed(_, _, _)
Placed(e, t, off) ==
  IF e.is # "InitList" THEN <<[off |-> off, type |-> t, expr |-> e]>>
  ELSE FlattenSeq([k \in DOMAIN e.elems |->
         IF t.is = "CArray" THEN Placed(e.elems[k], t.base, off + (k - 1) * Size(t.base))
         ELSE Placed(e.elems[k], t.fields[k].ctype, off + t.fields[k].offset)])

\* Everything that goes down the tree, and may so come back to itself, is one
\* operator.
RECURSIVE Run(_, _)
Eval(e, s) == Run([do |-> "eval", expr |-> e], s)
Assigned(e, s) == Run([do |-> "assign", expr |-> e], s)
Locate(e, s) == Run([do |-> "locate", expr |-> e], s)
Exec(st, s) == Run([do |-> "exec", stmt |-> st], s)
Sequence(stmts, j, s) == Run([do |-> "sequence", stmts |-> stmts, from |-> j], s)
Loop(st, s, test) == Run([do |-> "loop", stmt |-> st, test |-> test], s)
Invoke(s, d, args) == Run([do |-> "invoke", decl |-> d, args |-> args], s)

\* The place an expression denotes.
PlaceOf(e, s) ==
  LET shifted(a, n) == IF IsPointer(a.val[1]) THEN [a EXCEPT !.val = Shifted(@[1], n)[2]] ELSE Stuck(a)
      offset == GetField(IF e.arrow THEN Target(TypeOf(e.obj, s.env)) ELSE TypeOf(e.obj, s.env), e.field).offset
  IN
  CASE e.is = "Ident" -> IF e.name \in DOMAIN s.env THEN [s EXCEPT !.val = s.env[e.name].place] ELSE Invalid(s)
    [] e.is = "UnaryOp" /\ e.op = "*" -> Bind(Eval(e.operand, s), LAMBDA a : shifted(a, 0))
    [] e.is = "Index" ->
         Bind(Eval(e.array, s), LAMBDA a : Bind(Eval(e.index, a), LAMBDA b :
           shifted([b EXCEPT !.val = a.val],
                   ToInt(b.val, TypeOf(e.index, s.env)) * Size(Target(TypeOf(e.array, s.env))))))
    [] e.is = "Member" /\ e.arrow -> Bind(Eval(e.obj, s), LAMBDA a : shifted(a, offset))
    [] e.is = "Member" /\ ~e.arrow -> Bind(Locate(e.obj, s), LAMBDA a : [a EXCEPT !.val[3] = @ + offset])
    [] OTHER -> Stuck(s)

Simple == ("+=" :> "+") @@ ("-=" :> "-") @@ ("*=" :> "*") @@ ("/=" :> "/") @@ ("%=" :> "%")
            @@ ("&=" :> "&") @@ ("|=" :> "|") @@ ("^=" :> "^") @@ ("<<=" :> "<<") @@ (">>=" :> ">>")

\* An assignment: the value stored is that of the expression.
ValueStored(e, s) ==
  LET t == TypeOf(e.target, s.env)
      u == TypeOf(e.value, s.env)
      op == Simple[e.op]
      store(a, place, v, from) == [Note(Set(a, place, Convert(v, from, t)), "truncated", Narrowed(v, from, t))
                                     EXCEPT !.val = Convert(v, from, t)]
  IN
  IF e.op = "="
  THEN Bind(Eval(e.value, s), LAMBDA a : Bind(Locate(e.target, a), LAMBDA b :
         Note(store(b, b.val, a.val, u), "unsigned", IsLong(t) /\ Signs(e.value, u))))
  ELSE Bind(Locate(e.target, s), LAMBDA a : Bind(Get(a, a.val, t), LAMBDA old : Bind(Eval(e.value, old), LAMBDA b :
         LET again == Locate(e.target, b)
             v == Operated(op, old.val, t, b.val, u)
             n == Note(Note(b, "twice", again # [b EXCEPT !.val = a.val]),
                       "scaled", Address(t) /\ Size(Target(t)) > 1)
             m == Note(n, "unsigned", IsInteger(t) /\ (\/ IsLong(Usual(t, u)) /\ Signs(e.value, u)
                                                       \/ op \in {"/", "%"} /\ Unsigned(e.ctype) # Usual(t, u).unsigned))
         IN  IF v = <<>> THEN Stuck(b) ELSE store(m, a.val, v, OperationType(op, t, u)))))

\* A call: of a function of the program, or of an external one.
Definitions(s, f) == {k \in DOMAIN s.decls : s.decls[k].is = "FuncDecl" /\ s.decls[k].name = f /\ s.decls[k].body # None}

Invoked(s, d, args) ==
  LET enter == FoldLeft(LAMBDA x, k : LET y == DeclareLocal(x, d.params[k].name, d.params[k].ctype)
                                      IN  Set(y, y.env[d.params[k].name].place, args[k]),
                        [Spent(s) EXCEPT !.env = s.globals, !.fn = d.name, !.val = Unknown(d.ret)],
                        [k \in DOMAIN d.params |-> k])
      left(r) == [LeaveTo(s, r) EXCEPT !.fn = s.fn, !.flow = "go",
                                       !.val = IF r.flow = "return" THEN @ ELSE Unknown(d.ret)]
  IN  left(Exec(d.body, enter))

External(s, f, t, args) ==
  LET words == FlattenSeq(args)
      seen == [k \in DOMAIN words |-> Seen(s, words[k])]
      pointed == {v[2] : v \in {v \in ToSet(words) : IsPointer(v)}}
  IN  IF ToSet(seen) \cap Undefined # {} \/ ~(pointed \subseteq DOMAIN s.mem) THEN Stuck(s)
      ELSE [s EXCEPT !.val = [k \in 1 .. Size(t) |-> N((s.input + Len(s.trace)) % 2^Width)],
                     !.trace = Append(@, <<f, seen>>),
                     !.mem = [p \in pointed |-> N((Len(s.trace) + 1) % 2^Width)] @@ @]

Argument(s, e, f, k) ==
  LET t == TypeOf(e, s.env)
      to == IF k \in DOMAIN f.params THEN f.params[k] ELSE t
  IN  Bind(Eval(e, [s EXCEPT !.val = <<>>]), LAMBDA a :
        LET c == ConvertedTo(Note(a, "narrowed", Narrowed(a.val, t, to)), e, t, to)
        IN  [c EXCEPT !.val = Append(s.val, @)])

CallValue(e, s) ==
  LET f == FunctionOf(TypeOf(e.func, s.env))
      unknown == e.func.is = "Ident" /\ e.func.name \notin DOMAIN s.env
      wrong == Len(e.args) < Len(f.params) \/ (Len(e.args) > Len(f.params) /\ ~f.variadic)
      all == FoldLeft(LAMBDA x, k : Bind(x, LAMBDA y : Argument(y, e.args[k], f, k)),
                      [s EXCEPT !.val = <<>>], [k \in DOMAIN e.args |-> k])
  IN  IF unknown \/ wrong THEN Invalid(s) ELSE Bind(all, LAMBDA a : Bind(Eval(e.func, a), LAMBDA p :
        LET name == p.val[1][2][2]
            found == Definitions(p, name)
        IN  IF ~IsPointer(p.val[1]) \/ p.val[1][2][1] # 0 THEN Stuck(p)
            ELSE IF found = {} THEN External(p, name, f.ret, a.val)
            ELSE Invoke(p, p.decls[CHOOSE k \in found : TRUE], a.val)))

\* ++ and --
Stepped(e, s) ==
  LET t == TypeOf(e.operand, s.env)
      op == IF e.op \in {"++pre", "++post"} THEN "+" ELSE "-"
      stored(a, place, v, from, new) ==
        [Note(Note(Set(a, place, new), "narrowed", Narrowed(v, from, t)), "scaled", Address(t) /\ Size(Target(t)) > 1)
           EXCEPT !.val = IF e.op \in {"++post", "--post"} THEN a.val ELSE new]
      store(a, place, v, from) == IF v = <<>> THEN Stuck(a) ELSE stored(a, place, v, from, Convert(v, from, t))
  IN  Bind(Locate(e.operand, s), LAMBDA a : Bind(Get(a, a.val, t), LAMBDA old :
        store(old, a.val, Operated(op, old.val, t, <<N(1)>>, CInt(FALSE)), OperationType(op, t, CInt(FALSE)))))

\* A comparison, a division or an operation on longs that depends on the
\* signs, where the analysed types have other ones.
SignsMatter(e, l, r) ==
  LET signs(c) == IF IsLong(c) THEN \/ Signs(e.left, l) \/ Signs(e.right, r)
                                    \/ c.unsigned # (Unsigned(l) \/ Unsigned(r))
                  ELSE /\ e.op \in {"/", "%", "<", ">", "<=", ">="}
                       /\ (Unsigned(e.left.ctype) \/ Unsigned(e.right.ctype)) # c.unsigned
  IN  IsInteger(l) /\ IsInteger(r) /\ signs(Usual(l, r))

\* An operator that takes both operands.
Combined(e, s, l, r) ==
  Bind(Eval(e.left, s), LAMBDA a : Bind(Eval(e.right, a), LAMBDA b :
    ValueOf(Note(b, "unsigned", SignsMatter(e, l, r)), Operated(e.op, a.val, l, b.val, r))))

Evaluated(e, s) ==
  LET t == TypeOf(e, s.env)
      put(a, v) == [a EXCEPT !.val = v]
      used(a) == Note(a, "narrowed", "truncated" \in a.notes)
  IN
  IF s.end # "no" THEN s ELSE
  CASE e.is \in {"IntLit", "CharLit"} -> put(s, FromInt(e.value, CInt(FALSE)))
    [] e.is \in {"Ident", "Index", "Member"} \/ (e.is = "UnaryOp" /\ e.op = "*") ->
         Bind(Locate(e, s), LAMBDA a : Get(a, a.val, t))
    [] e.is = "BinOp" /\ e.op \in {"&&", "||"} ->
         Bind(Eval(e.left, s), LAMBDA a :
           IF IsTrue(a.val) = (e.op = "||") THEN put(a, <<N(Truth(e.op = "||"))>>)
           ELSE Bind(Eval(e.right, a), LAMBDA b : put(b, <<N(Truth(IsTrue(b.val)))>>)))
    [] e.is = "BinOp" /\ e.op \notin {"&&", "||"} -> Combined(e, s, TypeOf(e.left, s.env), TypeOf(e.right, s.env))
    [] e.is = "UnaryOp" /\ e.op \in {"-", "~"} ->
         LET o == TypeOf(e.operand, s.env) IN
         Bind(Eval(e.operand, s), LAMBDA a :
           ValueOf(a, IF e.op = "-" THEN Operated("-", <<N(0)>>, CInt(FALSE), a.val, o)
                     ELSE Operated("^", a.val, o, FromInt(-1, CInt(FALSE)), CInt(FALSE))))
    [] e.is = "UnaryOp" /\ e.op = "!" -> Bind(Eval(e.operand, s), LAMBDA a : put(a, <<N(Truth(~IsTrue(a.val)))>>))
    [] e.is = "UnaryOp" /\ e.op = "&" -> Bind(Locate(e.operand, s), LAMBDA a : put(a, <<<<"p", a.val>>>>))
    [] e.is = "UnaryOp" /\ e.op \notin {"-", "~", "!", "&", "*"} -> Stepped(e, s)
    [] e.is = "Assign" -> used(Assigned(e, s))
    [] e.is = "Cast" ->
         LET from == TypeOf(e.expr, s.env) IN Bind(Eval(e.expr, s), LAMBDA a : ConvertedTo(a, e.expr, from, t))
    [] e.is = "SizeOf" -> put(s, <<N(Size(IF IsType(e.target) THEN e.target ELSE TypeOf(e.target, s.env)))>>)
    [] e.is = "Ternary" ->
         Bind(Eval(e.cond, s), LAMBDA a :
           LET x == IF IsTrue(a.val) THEN e.then ELSE e.else
           IN  Bind(Eval(x, a), LAMBDA b : ConvertedTo(b, x, TypeOf(x, s.env), t)))
    [] e.is = "Call" -> CallValue(e, s)

-----------------------------------------------------------------------------
(* Statements. *)

\* Objects are initialized from lists as C nests them; stride is the distance
\* of the words if the list is taken to be flat.
RECURSIVE Element(_)
Element(t) == IF t.is = "CArray" THEN Element(t.base) ELSE t

Initialized(s, x, t, init, stride) ==
  LET place == s.env[x].place
      at(n) == [place EXCEPT ![3] = n]
      parts == Placed(init, t, 0)
      store(a, k) ==
        Bind(a, LAMBDA b : Bind(Eval(parts[k].expr, b), LAMBDA c :
          LET from == TypeOf(parts[k].expr, s.env)
              n == Note(c, "narrowed", Narrowed(c.val, from, parts[k].type))
              v == ConvertedTo(n, parts[k].expr, from, parts[k].type)
          IN  Set(v, at(parts[k].off), v.val)))
      flat == \A k \in DOMAIN parts : parts[k].off = (k - 1) * stride
      cleared == [s EXCEPT !.mem = [p \in ToSet(WordsAt(place, Size(t))) |-> N(0)] @@ @]
  IN  IF init = None THEN s
      ELSE FoldLeft(store, IF init.is = "InitList"
                           THEN Note(cleared, "init", ~flat \/ (IsRecord(t) /\ Len(parts) # Size(t)))
                           ELSE s,
                    [k \in DOMAIN parts |-> k])

Declared(st, s) ==
  LET name == <<"_C", s.fn, st.name>>
      stride == IF st.ctype.is = "CArray" THEN Size(Element(st.ctype)) ELSE 1
      local == DeclareLocal(s, st.name, st.ctype)
      static == Declare(s, st.name, st.ctype, 0, name, N(0))
      known == [s EXCEPT !.env = static.env]
  IN  CASE st.static -> IF <<0, name, 0>> \in DOMAIN s.mem THEN known
                        ELSE Initialized(static, st.name, st.ctype, st.init, stride)
        [] OTHER -> IF s.flow = "seek" THEN local ELSE Initialized(local, st.name, st.ctype, st.init, stride)

RECURSIVE Labelled(_, _)
Labelled(st, l) ==
  CASE st.is = "LabelStmt" -> st.label = l \/ Labelled(st.body, l)
    [] st.is = "Block" -> \E x \in ToSet(st.stmts) : Labelled(x, l)
    [] st.is = "IfStmt" -> Labelled(st.then, l) \/ Labelled(st.else, l)
    [] st.is \in {"WhileStmt", "DoWhileStmt", "ForStmt"} -> Labelled(st.body, l)
    [] st.is = "SwitchStmt" -> \E c \in ToSet(st.clauses) : \E x \in ToSet(c.body) : Labelled(x, l)
    [] OTHER -> FALSE

\* The statements of a block from the j-th on, and from a label again if a
\* goto leads to one of them.
Sequenced(stmts, j, s) ==
  LET there(r) == {k \in DOMAIN stmts : Labelled(stmts[k], r.label)}
      again(r) == IF r.end = "no" /\ r.flow = "seek" /\ there(r) # {}
                  THEN Sequence(stmts, CHOOSE k \in there(r) : TRUE, Spent(r)) ELSE r
  IN  again(FoldLeft(LAMBDA x, y : Exec(y, x), s, SubSeq(stmts, j, Len(stmts))))

\* An iteration, with the condition first if test holds, and those after it.
Looped(st, s, test) ==
  LET c == IF test /\ st.cond # None THEN Eval(st.cond, s) ELSE [s EXCEPT !.val = <<N(1)>>]
      on(b) == [b EXCEPT !.flow = "go"]
      next(b) == IF st.is = "ForStmt" /\ st.step # None THEN Exec(ExprStmt(st.step), on(b)) ELSE on(b)
  IN  Bind(c, LAMBDA a :
        IF ~IsTrue(a.val) THEN a
        ELSE Bind(Exec(st.body, Spent(a)), LAMBDA b :
               CASE b.flow = "break" -> on(b)
                 [] b.flow \in {"go", "continue"} -> Loop(st, next(b), TRUE)
                 [] OTHER -> b))

Switched(st, s) ==
  LET n == Len(st.clauses)
      bodies(k) == FlattenSeq([j \in 1 .. k |-> st.clauses[j].body])
      from(k, a) == Sequence(bodies(n), Len(bodies(k - 1)) + 1, a)
      is(k, a) == st.clauses[k].value # None
                  /\ Holds("==", ToInt(Eval(st.clauses[k].value, s).val, CInt(FALSE)), ToInt(a.val, TypeOf(st.expr, s.env)))
      done(r) == LeaveTo(s, IF r.flow = "break" THEN [r EXCEPT !.flow = "go"] ELSE r)
  IN  IF s.flow = "seek" THEN done(from(1, s))
      ELSE Bind(Eval(st.expr, s), LAMBDA a :
             LET hits == {k \in 1 .. n : is(k, a)}
                 rest == {k \in 1 .. n : st.clauses[k].value = None}
             IN  IF hits \cup rest = {} THEN a
                 ELSE done(from(CHOOSE k \in IF hits # {} THEN hits ELSE rest : TRUE, a)))

Returning(e, s) ==
  LET to == s.globals[s.fn].type.ret
      t == TypeOf(e, s.env)
  IN  IF e = None THEN [s EXCEPT !.flow = "return", !.val = Unknown(to)]
      ELSE Bind(Eval(e, s), LAMBDA a :
             LET n == Note(Note(a, "narrowed", Narrowed(a.val, t, to)), "longret", IsLong(to) # IsLong(t))
             IN  [ConvertedTo(n, e, t, to) EXCEPT !.flow = "return"])

Executed(st, s) ==
  LET seeking == s.flow = "seek"
      after(f) == [s EXCEPT !.flow = f]
      opt(x, a) == IF x = None THEN a ELSE Exec(x, a)
  IN
  IF \/ s.end # "no" \/ s.flow \notin {"go", "seek"}
     \/ seeking /\ st.is # "DeclStmt" /\ ~Labelled(st, s.label) THEN s
  ELSE
  CASE st.is = "Block" -> LeaveTo(s, Sequence(st.stmts, 1, s))
    [] st.is = "DeclStmt" -> Declared(st, s)
    [] st.is = "ExprStmt" -> IF st.expr.is = "Assign" THEN Assigned(st.expr, s) ELSE Eval(st.expr, s)
    [] st.is = "ReturnStmt" -> Returning(st.expr, s)
    [] st.is = "IfStmt" ->
         IF seeking THEN (IF Labelled(st.then, s.label) THEN Exec(st.then, s) ELSE Exec(st.else, s))
         ELSE Bind(Eval(st.cond, s), LAMBDA a : IF IsTrue(a.val) THEN Exec(st.then, a) ELSE opt(st.else, a))
    [] st.is \in {"WhileStmt", "DoWhileStmt"} -> Loop(st, s, st.is = "WhileStmt" /\ ~seeking)
    [] st.is = "ForStmt" -> LeaveTo(s, Loop(st, opt(st.init, s), ~seeking))
    [] st.is = "SwitchStmt" -> Switched(st, s)
    [] st.is = "BreakStmt" -> after("break")
    [] st.is = "ContinueStmt" -> after("continue")
    [] st.is = "GotoStmt" -> [after("seek") EXCEPT !.label = st.label]
    [] st.is = "LabelStmt" -> Exec(st.body, IF seeking /\ s.label = st.label THEN after("go") ELSE s)

-----------------------------------------------------------------------------
(* Programs. *)
Empty(decls, input, fuel) ==
  [mem |-> <<>>, env |-> <<>>, globals |-> <<>>, decls |-> decls, fn |-> Main, fresh |-> 1,
   trace |-> <<>>, input |-> input, fuel |-> fuel, end |-> "no", val |-> <<>>, flow |-> "go",
   label |-> <<>>, notes |-> {}]

\* All globals are initialized in order, and then main is called.
Started(s, d) ==
  IF d.is = "VarDecl"
  THEN Initialized(Declare(s, d.name, d.ctype, 0, d.name, N(0)), d.name, d.ctype, d.init,
                   IF Size(Element(d.ctype)) = 2 THEN 2 ELSE 1)
  ELSE [s EXCEPT !.env = (d.name :> [type |-> CFunction(d.ret, [k \in DOMAIN d.params |-> d.params[k].ctype],
                                                        d.variadic),
                                     place |-> <<0, d.name, 0>>]) @@ @]
MainCalled(s) ==
  LET main == s.decls[CHOOSE k \in Definitions(s, Main) : TRUE]
  IN  Invoke([s EXCEPT !.globals = s.env], main, <<>>)

Run(task, s) ==
  CASE task.do = "eval" -> Evaluated(task.expr, s)
    [] task.do = "assign" -> ValueStored(task.expr, s)
    [] task.do = "locate" -> PlaceOf(task.expr, s)
    [] task.do = "exec" -> Executed(task.stmt, s)
    [] task.do = "sequence" -> Sequenced(task.stmts, task.from, s)
    [] task.do = "loop" -> Looped(task.stmt, s, task.test)
    [] task.do = "invoke" -> Invoked(s, task.decl, task.args)
    [] task.do = "program" -> MainCalled(FoldLeft(Started, s, s.decls))

\* What can be seen of a program after a run of it, and what came up.
Observed(r) ==
  LET seen == [k \in DOMAIN r.val |-> Seen(r, r.val[k])]
  IN  IF r.end # "no" THEN [end |-> r.end, trace |-> r.trace, notes |-> r.notes]
      ELSE IF ~Known(r.val) THEN [end |-> "stuck", trace |-> r.trace, notes |-> r.notes]
      ELSE [end |-> "done", trace |-> Append(r.trace, <<"result", seen>>), notes |-> r.notes]

SourceMeaning(decls, input, fuel) == Observed(Run([do |-> "program"], Empty(decls, input, fuel)))
=============================================================================
