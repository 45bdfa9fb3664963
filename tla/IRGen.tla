---------------------------------- MODULE IRGen ----------------------------------
(***************************************************************************)
(* compiler/irgen.py: from the analysed tree to three-address code.         *)
(*                                                                          *)
(* The fields of the generator that change are one record g, which every    *)
(* operator takes and returns; g.val is the operand, or the pair of         *)
(* operands, that the expression generated last left its value in.          *)
(* error is set where the code raises an IRGenError, or hands a pair to an  *)
(* instruction that takes a word, which code generation does not survive.   *)
(***************************************************************************)
EXTENDS Semantic, IRMachine

CharMask == 2^(Width \div 2) - 1      \* 0xFF in the code
SignBit == 2^(Width - 1)              \* 0x8000

Pair(lo, hi) == <<"l", lo, hi>>       \* LongValue
IsPair(v) == v[1] = "l"
Low(v) == IF IsPair(v) THEN v[2] ELSE v
Halves(v) == <<v[2], v[3]>>
LongConst(n) == Pair(N(n % 2^Width), N((n \div 2^Width) % 2^Width))

-----------------------------------------------------------------------------
(* Helpers. *)
Fail(g, why) == [g EXCEPT !.error = IF @ = "none" THEN why ELSE @, !.val = LongConst(0)]
Put(g, v) == [g EXCEPT !.val = v]
Next1(g) == g.tmp + 1
Next2(g) == g.tmp + 2

\* _emit
Emit(g, i) ==
  LET h == [g EXCEPT !.code = Append(@, i)]
  IN  IF \E o \in {i.addr} \cup ToSet(i.args) : IsPair(o) THEN Fail(h, "pair") ELSE h
EmitAll(g, is) == FoldLeft(Emit, g, is)

\* _tmp, and an instruction that defines the new Temp, or the two new ones
NewTemp(g) == [g EXCEPT !.tmp = @ + 1, !.val = T(g.tmp + 1)]
Yield(g, i) == Emit(NewTemp(g), i)
YieldPair(g, i) == Put(Emit([g EXCEPT !.tmp = @ + 2], i), Pair(T(Next1(g)), T(Next2(g))))

\* _new_label: the labels of the next n calls
LabelName(g, prefix, k) == <<"._ir", prefix, g.label + k>>
NewLabels(g, n) == [g EXCEPT !.label = @ + n]
UserLabel(name) == <<"._user">> \o name

\* _as_temp
AsTemp(g) == IF IsTemp(g.val) THEN g ELSE Yield(g, Copy(Next1(g), g.val))

\* _as_long: sign extension of g.val
AsLong(g, signed) ==
  LET hi == Next1(g) IN
  IF IsPair(g.val) THEN g
  ELSE IF ~signed THEN Put(Emit(NewTemp(g), Copy(hi, N(0))), Pair(g.val, T(hi)))
  ELSE Put(EmitAll([g EXCEPT !.tmp = @ + 4],
                   <<BinOp(hi + 1, "&", g.val, N(SignBit)), BinOp(hi + 2, "!=", T(hi + 1), N(0)),
                     UnaryOp(hi + 3, "-", T(hi + 2)), Copy(hi, T(hi + 3))>>),
           Pair(g.val, T(hi)))

\* _bool_operand
AsBool(g) ==
  LET t == Next1(g) IN
  IF ~IsPair(g.val) THEN g
  ELSE Put(EmitAll([g EXCEPT !.tmp = @ + 3],
                   <<BinOp(t, "!=", g.val[2], N(0)), BinOp(t + 1, "!=", g.val[3], N(0)),
                     BinOp(t + 2, "|", T(t), T(t + 1))>>), T(t + 2))

\* _const_int_value
IsConstInt(e) ==
  \/ e.is \in {"IntLit", "CharLit"}
  \/ e.is = "UnaryOp" /\ e.op = "-" /\ e.operand.is \in {"IntLit", "CharLit"}
ConstInt(e) == IF e.is = "UnaryOp" THEN -e.operand.value ELSE e.value

\* _flatten_init, _leaf_elem_sz
RECURSIVE Flattened(_)
Flattened(init) ==
  FlattenSeq([k \in DOMAIN init.elems |->
                IF init.elems[k].is = "InitList" THEN Flattened(init.elems[k]) ELSE <<init.elems[k]>>])

RECURSIVE LeafSize(_)
LeafSize(t) == IF t.is = "CArray" THEN LeafSize(t.base) ELSE Size(t)

PointedSize(t) == IF IsPointerType(t) THEN Size(t.base) ELSE 1
PowerOfTwo(n) == n > 0 /\ \E k \in 0 .. Width - 1 : n = 2^k
Exponent(n) == CHOOSE k \in 0 .. Width - 1 : n = 2^k

-----------------------------------------------------------------------------
(* Variables.  Names of locals and parameters are looked up without regard to
   blocks. *)
IsSlot(g, x) == x \in g.params \cup g.locals

\* _var_operand
VarOperand(g, x) ==
  IF IsSlot(g, x) THEN V(x) ELSE IF x \in DOMAIN g.statics THEN G(g.statics[x]) ELSE G(x)

\* _var_addr
VarAddr(g, x) == Yield(g, AddrOf(Next1(g), VarOperand(g, x)))

\* The address of g.val as a value: a Var stands for itself only where an
\* address is expected.
Materialised(g) == IF IsVar(g.val) THEN Yield(g, AddrOf(Next1(g), g.val)) ELSE g

\* _alloc_struct_slot
AllocStructSlot(g, t) ==
  LET slot == <<"__sv", g.tmp>>
  IN  Yield([g EXCEPT !.locals = @ \cup {slot}, !.sizes = (slot :> Size(t)) @@ @],
            AddrOf(Next1(g), V(slot)))

\* The loops of _copy_struct and of a struct's return: word by word.
RECURSIVE CopyWords(_, _, _, _)
CopyWords(g, from, to, words) ==
  LET i == words[1]
      t == Next1(g)
  IN  IF words = <<>> THEN g
      ELSE CopyWords(
             IF i = 0 THEN EmitAll([g EXCEPT !.tmp = @ + 1], <<Load(t, from), Store(to, T(t))>>)
             ELSE EmitAll([g EXCEPT !.tmp = @ + 3],
                          <<BinOp(t + 1, "+", from, N(i)), Load(t, T(t + 1)),
                            BinOp(t + 2, "+", to, N(i)), Store(T(t + 2), T(t))>>),
             from, to, Tail(words))
WordsOf(t) == [k \in 1 .. Size(t) |-> k - 1]

\* _gen_load_ident
GenLoadIdent(g, e) ==
  LET x == e.name IN
  CASE e.ctype.is = "CFunction" -> Yield(g, AddrOf(Next1(g), G(x)))
    [] e.ctype.is # "CFunction" /\ x \in DOMAIN g.structs -> Yield(g, Copy(Next1(g), V(x)))
    [] x \notin DOMAIN g.structs /\ (e.ctype.is = "CArray" \/ IsRecord(e.ctype)) /\ x \notin g.params ->
         VarAddr(g, x)
    [] OTHER ->
         IF IsSlot(g, x) THEN Yield(g, Copy(Next1(g), V(x)))
         ELSE IF x \in DOMAIN g.consts THEN Yield(g, Copy(Next1(g), N(g.consts[x] % 2^Width)))
         ELSE LET a == VarAddr(g, x) IN Yield(a, Load(Next1(a), a.val))

\* _gen_long_load_ident
GenLongLoadIdent(g, e) ==
  LET x == e.name IN
  CASE IsSlot(g, x) -> YieldPair(g, LongLoad(Next1(g), Next2(g), V(x)))
    [] ~IsSlot(g, x) /\ x \in DOMAIN g.consts -> Put(g, LongConst(g.consts[x]))
    [] OTHER -> LET a == VarAddr(g, x) IN YieldPair(a, LongLoad(Next1(a), Next2(a), a.val))

-----------------------------------------------------------------------------
(* Expressions.  Everything that generates code from a part of the tree, and   *)
(* may so come back to itself, is one operator.                               *)
RECURSIVE Gen(_, _, _)
GenExpr(g, e) == Gen("expr", g, e)
GenLong(g, e) == Gen("long", g, e)
GenAddr(g, e) == Gen("addr", g, e)
GenCall(g, e) == Gen("call", g, e)
GenStmt(g, st) == Gen("stmt", g, st)

\* The second operand after the first: its state, and both operands.
GenBoth(g, l, r) ==
  LET a == GenExpr(g, l)
      b == GenExpr(a, r)
  IN  [g |-> b, left |-> a.val, right |-> b.val]
GenBothLong(g, l, r) ==
  LET a == GenLong(g, l)
      b == GenLong(a, r)
  IN  [g |-> b, left |-> Halves(a.val), right |-> Halves(b.val)]

LongLoadFrom(a) == YieldPair(a, LongLoad(Next1(a), Next2(a), a.val))

\* mutant: elements are one word each
GenElementUnscaled(g, e) ==
  LET a == GenExpr(g, e.array)
      i == AsTemp(GenExpr(a, e.index))
      b == AsTemp(Put(i, a.val))
  IN  Yield(b, BinOp(Next1(b), "+", b.val, i.val))

\* _gen_addr of an Index
GenElement(g, e) ==
  LET a == GenExpr(g, e.array)
      i == AsTemp(GenExpr(a, e.index))
      n == Size(e.ctype)
      s == IF n > 1 THEN Yield(i, BinOp(Next1(i), "*", i.val, N(n))) ELSE i
      b == AsTemp(Put(s, a.val))
  IN  Yield(b, BinOp(Next1(b), "+", b.val, s.val))

\* _gen_addr and _gen_member_addr
AddrCode(g, e) ==
  CASE e.is = "Ident" ->
         IF e.name \in DOMAIN g.structs THEN Yield(g, Copy(Next1(g), V(e.name)))
         ELSE IF IsSlot(g, e.name) THEN Put(g, V(e.name)) ELSE VarAddr(g, e.name)
    [] e.is = "Index" -> GenElement(g, e)
    [] e.is = "UnaryOp" /\ e.op = "*" -> GenExpr(g, e.operand)
    [] e.is = "Member" ->
         LET b == IF e.arrow THEN GenExpr(g, e.obj) ELSE Materialised(GenAddr(g, e.obj))
             t == IF e.arrow THEN e.obj.ctype.base ELSE e.obj.ctype
             offset == GetField(t, e.field).offset
         IN  IF offset = 0 THEN AsTemp(b) ELSE Yield(b, BinOp(Next1(b), "+", b.val, N(offset)))
    [] OTHER -> Fail(g, "address")

\* _copy_struct
CopyStruct(g, e, to, t) ==
  LET a == IF e.is = "Call" /\ IsRecord(e.ctype) THEN GenExpr(g, e) ELSE Materialised(GenAddr(g, e))
  IN  CopyWords(a, a.val, to, WordsOf(t))

\* _gen_store_to: g.val is lost, val stays the value of the assignment.
GenStoreTo(g, val, target) ==
  LET a == GenAddr(g, target)
      l == AsLong(Put(a, val), ~Unsigned(target.ctype))
      c == Yield(a, BinOp(Next1(a), "&", Low(val), N(CharMask)))
  IN  CASE IsLong(target.ctype) -> Emit(l, LongStore(a.val, Halves(l.val)))
        [] target.ctype.is = "CChar" -> Emit(c, Store(a.val, c.val))
        [] OTHER -> Emit(a, Store(a.val, Low(val)))

\* The helper of a division, and the shift or mask that does for a power of
\* two if the operands are unsigned.
Helper(op, unsigned) == IF op = "/" THEN (IF unsigned THEN udiv ELSE sdiv)
                        ELSE (IF unsigned THEN umod ELSE smod)
LongHelper(op, unsigned) == IF op = "/" THEN (IF unsigned THEN uldiv ELSE sldiv)
                            ELSE (IF unsigned THEN ulmod ELSE slmod)

GenDivision(g, op, left, right, unsigned) ==
  IF unsigned /\ IsImm(right) /\ PowerOfTwo(right[2])
  THEN Yield(g, IF op = "/" THEN BinOp(Next1(g), ">>", left, N(Exponent(right[2])))
                ELSE BinOp(Next1(g), "&", left, N(right[2] - 1)))
  ELSE Yield(g, Call(Next1(g), Helper(op, unsigned), <<left, right>>))

\* The comparison of unsigned words knows two operators; the others are
\* these with the operands swapped.
GenComparison(g, op, left, right, unsigned) ==
  Yield(g, CASE unsigned /\ op = "<" -> BinOp(Next1(g), "<u", left, right)
             [] unsigned /\ op = ">=" -> BinOp(Next1(g), ">=u", left, right)
             [] unsigned /\ op = ">" -> BinOp(Next1(g), "<u", right, left)
             [] unsigned /\ op = "<=" -> BinOp(Next1(g), ">=u", right, left)
             [] OTHER -> BinOp(Next1(g), op, left, right))

\* _gen_long_binop
GenLongBinOp(g, e) ==
  LET b == GenBothLong(g, e.left, e.right)
      t == Next1(b.g)
      unsigned == Unsigned(e.left.ctype) \/ Unsigned(e.right.ctype)
  IN  CASE e.op \in {"+", "-"} -> YieldPair(b.g, LongBinOp(t, t + 1, e.op, b.left, b.right))
        [] e.op = "*" -> YieldPair(b.g, LongCall(t, t + 1, ulmul, b.left \o b.right))
        [] e.op \in {"/", "%"} ->
             YieldPair(b.g, LongCall(t, t + 1, LongHelper(e.op, unsigned), b.left \o b.right))
        [] OTHER -> Fail(g, "long operator")

\* _gen_short_circuit
GenShortCircuit(g, e) ==
  LET end == LabelName(g, "sc_end", 1)
      result == Next1(g)
      start == Emit(NewTemp(NewLabels(g, 1)), Const(result, IF e.op = "||" THEN 1 ELSE 0))
      l == AsBool(GenExpr(start, e.left))
      r == GenExpr(Emit(l, IF e.op = "||" THEN JumpIf(l.val, end) ELSE JumpIfNot(l.val, end)), e.right)
      done == EmitAll(r, <<Copy(result, r.val), Label(end)>>)
  IN  Yield(done, BinOp(Next1(done), "!=", T(result), N(0)))

\* Pointer arithmetic in _gen_binop
GenPointerDifference(g, e) ==
  LET b == GenBoth(g, e.left, e.right)
      d == Yield(b.g, BinOp(Next1(b.g), "-", b.left, b.right))
      n == PointedSize(e.left.ctype)
  IN  IF n <= 1 THEN d ELSE Yield(d, Call(Next1(d), sdiv, <<d.val, N(n)>>))

GenPointerOffset(g, e) ==
  LET first == IsPointerType(e.left.ctype)
      p == IF first THEN e.left ELSE e.right
      b == GenBoth(g, p, IF first THEN e.right ELSE e.left)
      n == PointedSize(p.ctype)
      i == Put(b.g, Low(b.right))
      s == IF n > 1 THEN Yield(i, BinOp(Next1(i), "*", i.val, N(n))) ELSE i
  IN  Yield(s, BinOp(Next1(s), e.op, b.left, s.val))

\* _gen_binop
GenBinOp(g, e) ==
  LET lt == e.left.ctype
      rt == e.right.ctype
      offset == \/ e.op \in {"+", "-"} /\ IsPointerType(lt) /\ IsInteger(rt)
                \/ e.op = "+" /\ IsInteger(lt) /\ IsPointerType(rt)
      long == IsLong(lt) \/ IsLong(rt)
      unsigned == Unsigned(lt) \/ Unsigned(rt)
  IN
  IF e.op \in Logical THEN GenShortCircuit(g, e)
  ELSE IF e.op = "-" /\ IsPointerType(lt) /\ IsPointerType(rt) THEN GenPointerDifference(g, e)
  ELSE IF offset THEN GenPointerOffset(g, e)
  ELSE IF long /\ e.op \in Comparisons
  THEN LET b == GenBothLong(g, e.left, e.right)
       IN  Yield(b.g, LongCompare(Next1(b.g), e.op, b.left, b.right, unsigned))
  ELSE IF long THEN LET b == GenLongBinOp(g, e) IN IF IsLong(e.ctype) THEN b ELSE Put(b, Low(b.val))
  ELSE LET b == GenBoth(g, e.left, e.right) IN
       CASE e.op \in {"/", "%"} -> GenDivision(b.g, e.op, b.left, b.right, unsigned)
         [] e.op \in Comparisons -> GenComparison(b.g, e.op, b.left, b.right, unsigned)
         [] OTHER -> Yield(b.g, BinOp(Next1(b.g), e.op, b.left, b.right))

\* The value of ++x and x++.
StepValue(post, old, new) == IF post THEN old ELSE new

\* ++ and -- in _gen_unary: by one, whatever the type.
GenStep(g, e) ==
  LET a == GenAddr(g, e.operand)
      old == Yield(a, IF IsVar(a.val) THEN Copy(Next1(a), a.val) ELSE Load(Next1(a), a.val))
      new == Yield(old, BinOp(Next1(old), IF e.op \in {"++pre", "++post"} THEN "+" ELSE "-", old.val, N(1)))
  IN  Put(Emit(new, Store(a.val, new.val)), StepValue(e.op \in {"++post", "--post"}, old.val, new.val))

\* _gen_unary
GenUnary(g, e) ==
  LET x == GenExpr(g, e.operand) IN
  CASE e.op \in {"-", "~"} -> Yield(x, UnaryOp(Next1(x), e.op, x.val))
    [] e.op = "!" /\ IsLong(e.operand.ctype) ->
         LET l == GenLong(g, e.operand)
         IN  Yield(l, LongCompare(Next1(l), "==", Halves(l.val), <<N(0), N(0)>>, Unsigned(e.operand.ctype)))
    [] e.op = "!" /\ ~IsLong(e.operand.ctype) -> Yield(x, BinOp(Next1(x), "==", x.val, N(0)))
    [] e.op = "&" -> Materialised(GenAddr(g, e.operand))
    [] e.op = "*" -> Yield(x, Load(Next1(x), x.val))
    [] OTHER -> GenStep(g, e)

\* The operator of a compound assignment.
BaseOp(op) ==
  CASE op = "+=" -> "+" [] op = "-=" -> "-" [] op = "*=" -> "*" [] op = "/=" -> "/" [] op = "%=" -> "%"
    [] op = "&=" -> "&" [] op = "|=" -> "|" [] op = "^=" -> "^" [] op = "<<=" -> "<<" [] op = ">>=" -> ">>"

\* _gen_assign
GenAssign(g, e) ==
  LET store(x) == Put(GenStoreTo(x, x.val, e.target), x.val)
      to == Materialised(GenAddr(g, e.target))
      base == BaseOp(e.op)
      both == GenBoth(g, e.target, e.value)
      compound ==                       \* the new Temp comes before the operation
        IF base \in {"/", "%"} THEN GenDivision(both.g, base, both.left, both.right, Unsigned(e.ctype))
        ELSE Yield(both.g, BinOp(Next1(both.g), base, both.left, both.right))
  IN
  CASE e.op = "=" /\ IsRecord(e.ctype) -> Put(CopyStruct(to, e.value, to.val, e.ctype), to.val)
    [] e.op = "=" /\ IsLong(e.ctype) -> store(GenLong(g, e.value))
    [] e.op = "=" /\ ~IsRecord(e.ctype) /\ ~IsLong(e.ctype) -> store(GenExpr(g, e.value))
    [] e.op # "=" /\ IsLong(e.ctype) ->
         IF base \in {"+", "-", "*", "/", "%"}
         THEN store(GenLongBinOp(g, Of(Binary(base, e.target, e.value), e.ctype)))
         ELSE Fail(g, "long assignment")
    [] OTHER -> store(compound)

\* _gen_ternary
GenTernary(g, e) ==
  LET else == LabelName(g, "tern_else", 1)
      end == LabelName(g, "tern_end", 2)
      result == Next1(g)
      c == AsBool(GenExpr(NewTemp(NewLabels(g, 2)), e.cond))
      x == GenExpr(Emit(c, JumpIfNot(c.val, else)), e.then)
      y == GenExpr(EmitAll(x, <<Copy(result, x.val), Jump(end), Label(else)>>), e.else)
  IN  Put(EmitAll(y, <<Copy(result, y.val), Label(end)>>), T(result))

\* One argument of a call: a struct is copied and its address passed, a long
\* takes two words if the parameter does or there is none.
GenArgument(g, e, f, k) ==
  LET known == f.is = "CFunction" /\ k \in DOMAIN f.params
      param == IF known THEN f.params[k] ELSE None
      slot == AllocStructSlot(g, param)
      long == GenLong(g, e)
      extra == f.is = "CFunction" /\ f.variadic /\ ~known
      passed(x, words) == [x EXCEPT !.val = g.val \o words]
      start == Put(g, Nothing)
  IN  CASE known /\ IsRecord(param) ->
             passed(CopyStruct(slot, e, slot.val, param), <<slot.val>>)
        [] known /\ IsLong(param) -> passed(long, Halves(long.val))
        [] ~(known /\ (IsLong(param) \/ IsRecord(param))) /\ IsLong(e.ctype) ->
             passed(long, IF extra THEN Halves(long.val) ELSE <<long.val[2]>>)
        [] OTHER -> LET x == GenExpr(start, e) IN passed(x, <<x.val>>)

\* The call itself, in the state after its arguments.
CallAfter(g, e, result) ==
  LET direct == e.func.is = "Ident" /\ e.func.ctype.is = "CFunction"
      p == IF direct THEN g ELSE GenExpr(g, e.func)
      t == Next1(p)
  IN  CASE IsLong(e.ctype) ->
             YieldPair(p, IF direct THEN LongCall(t, t + 1, e.func.name, g.val)
                          ELSE LongCallPtr(t, t + 1, p.val, g.val))
        [] e.ctype.is = "CVoid" ->
             Put(Emit(p, IF direct THEN Call(NoTemp, e.func.name, g.val) ELSE CallPtr(NoTemp, p.val, g.val)), N(0))
        [] OTHER ->
             LET done == Yield(p, IF direct THEN Call(t, e.func.name, g.val) ELSE CallPtr(t, p.val, g.val))
             IN  IF IsRecord(e.ctype) THEN Put(done, result) ELSE done

\* _gen_call
CallCode(g, e) ==
  LET slot == IF IsRecord(e.ctype) THEN AllocStructSlot(g, e.ctype) ELSE g
      start == Put(slot, IF IsRecord(e.ctype) THEN <<slot.val>> ELSE <<>>)
      argument(x, k) == GenArgument(x, e.args[k], Callee(e.func.ctype), k)
  IN  CallAfter(FoldLeft(argument, start, [k \in DOMAIN e.args |-> k]), e, slot.val)

\* _gen_long_expr
LongCode(g, e) ==
  LET x == IF e.is = "UnaryOp" THEN GenLong(g, e.operand) ELSE g
      t == Next1(x)
      signed(y) == ~Unsigned(y.ctype)
  IN
  CASE e.is = "IntLit" -> Put(g, LongConst(e.value))
    [] e.is = "CharLit" -> Put(g, LongConst(e.value % (CharMask + 1)))
    [] e.is = "UnaryOp" /\ e.op = "-" -> YieldPair(x, LongUnaryOp(t, t + 1, "-", Halves(x.val)))
    [] OTHER ->
  IF ~IsLong(e.ctype) THEN AsLong(GenExpr(g, e), signed(e))
  ELSE
  CASE e.is = "Ident" -> GenLongLoadIdent(g, e)
    [] e.is \in {"Index", "Member"} -> LongLoadFrom(GenAddr(g, e))
    [] e.is = "Cast" -> AsLong(GenExpr(g, e.expr), signed(e.expr))
    [] e.is = "Assign" -> AsLong(GenAssign(g, e), signed(e))
    [] e.is = "BinOp" -> GenLongBinOp(g, e)
    [] e.is = "UnaryOp" /\ e.op = "*" -> LongLoadFrom(GenExpr(g, e.operand))
    [] e.is = "UnaryOp" /\ e.op = "~" ->
         Put(EmitAll([x EXCEPT !.tmp = @ + 2],
                     <<UnaryOp(t, "~", x.val[2]), UnaryOp(t + 1, "~", x.val[3])>>), Pair(T(t), T(t + 1)))
    [] e.is = "Call" -> AsLong(GenCall(g, e), signed(e))
    [] OTHER -> Fail(g, "long expression")

\* _gen_expr
ExprCode(g, e) ==
  LET a == GenAddr(g, e)
      inline == e.ctype.is = "CArray" \/ (e.is = "Member" /\ IsRecord(e.ctype))
      c == GenExpr(g, e.expr)
  IN
  IF IsLong(e.ctype) THEN GenLong(g, e) ELSE
  CASE e.is = "IntLit" -> Put(g, N(e.value % 2^Width))
    [] e.is = "CharLit" -> Put(g, N(e.value % (CharMask + 1)))
    [] e.is = "Ident" -> GenLoadIdent(g, e)
    [] e.is = "BinOp" -> GenBinOp(g, e)
    [] e.is = "UnaryOp" -> GenUnary(g, e)
    [] e.is = "Assign" -> GenAssign(g, e)
    [] e.is = "Call" -> GenCall(g, e)
    [] e.is \in {"Index", "Member"} -> IF inline THEN a ELSE Yield(a, Load(Next1(a), a.val))
    [] e.is = "Cast" -> IF e.to.is = "CChar" THEN Yield(c, BinOp(Next1(c), "&", Low(c.val), N(CharMask)))
                        ELSE Put(c, Low(c.val))
    [] e.is = "SizeOf" -> Put(g, N(Size(IF IsType(e.target) THEN e.target ELSE e.target.ctype)))
    [] e.is = "Ternary" -> GenTernary(g, e)
    [] OTHER -> Fail(g, "expression")

-----------------------------------------------------------------------------
(* Statements. *)

\* The words at successive offsets from base, as in an initializer list: val is
\* stored at index i of elements of n words.
StoreElement(g, base, i, n, val) ==
  LET a == IF i = 0 THEN Put(g, base) ELSE Yield(g, BinOp(Next1(g), "+", base, N(i * n)))
  IN  Emit(a, IF IsPair(val) THEN LongStore(a.val, Halves(val)) ELSE Store(a.val, val))

\* Elements without initializer become zero.
GenInitList(g, d) ==
  LET array == d.ctype.is = "CArray"
      n == IF array THEN LeafSize(d.ctype) ELSE 1
      flat == Flattened(d.init)
      base == VarAddr(g, d.name)
      explicit == FoldLeft(LAMBDA x, k : LET v == IF n = 2 THEN GenLong(x, flat[k]) ELSE GenExpr(x, flat[k])
                                         IN  StoreElement(v, base.val, k - 1, n, v.val),
                           base, [k \in DOMAIN flat |-> k])
      total == (IF array THEN Size(d.ctype) ELSE 1) \div n
      zero == IF n = 2 THEN Pair(N(0), N(0)) ELSE N(0)
  IN  FoldLeft(LAMBDA x, k : StoreElement(x, base.val, k - 1, n, zero), explicit,
               KeepOnly([k \in 1 .. total |-> k], Len(flat) + 1 .. total))

\* _is_const_init
IsConstInit(init) ==
  \/ init.is \in {"None", "IntLit", "CharLit"}
  \/ init.is = "InitList" /\ \A e \in ToSet(init.elems) : e.is \in {"IntLit", "CharLit"}

\* A static whose initializer is not constant: once, guarded by a flag.
GenStatic(g, d) ==
  LET flag == g.statics[d.name] \o <<"init">>
      done == LabelName(g, "sl_done", 1)
      t == Next1(g)
      guarded == EmitAll([NewLabels(g, 1) EXCEPT !.tmp = @ + 3,
                                                 !.globals = Append(@, [name |-> flag, words |-> 1, init |-> <<>>])],
                         <<AddrOf(t, G(flag)), Load(t + 1, T(t)), JumpIf(T(t + 1), done), Store(T(t), N(1)),
                           AddrOf(t + 2, G(g.statics[d.name]))>>)
      v == IF IsLong(d.ctype) THEN GenLong(guarded, d.init) ELSE GenExpr(guarded, d.init)
      stored == Emit(v, IF IsLong(d.ctype) THEN LongStore(T(t + 2), Halves(v.val)) ELSE Store(T(t + 2), v.val))
  IN  IF IsConstInit(d.init) THEN g ELSE Emit(stored, Label(done))

GenDecl(g, d) ==
  LET l == GenLong(g, d.init)
      e == GenExpr(g, d.init)
      la == VarAddr(l, d.name)
      ea == VarAddr(e, d.name)
      a == VarAddr(g, d.name)
  IN  CASE d.static -> GenStatic(g, d)
        [] ~d.static /\ d.init = None -> g
        [] ~d.static /\ d.init.is = "InitList" -> GenInitList(g, d)
        [] OTHER -> IF IsRecord(d.ctype) THEN CopyStruct(a, d.init, a.val, d.ctype)
                    ELSE IF IsLong(d.ctype) THEN Emit(la, LongStore(la.val, Halves(l.val)))
                    ELSE Emit(ea, Store(ea.val, e.val))

ret == <<"__ret">>       \* the hidden parameter of a function that returns a struct

\* return: the type of the expression decides, not that of the function.
GenReturn(g, e) ==
  LET a == Materialised(GenAddr(g, e))
      p == Yield(a, Copy(Next1(a), V(ret)))
      l == GenLong(g, e)
      x == GenExpr(g, e)
  IN  CASE e = None -> Emit(g, Ret(Nothing))
        [] e # None /\ g.sret # None -> Emit(CopyWords(p, a.val, p.val, WordsOf(g.sret)), Ret(p.val))
        [] OTHER -> IF IsLong(e.ctype) THEN Emit(l, LongRet(Halves(l.val))) ELSE Emit(x, Ret(x.val))

\* Within a loop or switch; the stacks are restored afterwards.
Within(g, brk, cont) == [g EXCEPT !.brk = brk \o @, !.cont = cont \o @]
Outside(g, h) == [h EXCEPT !.brk = g.brk, !.cont = g.cont]

GenCondition(g, e) == AsBool(GenExpr(g, e))
GenStmts(g, stmts) == FoldLeft(LAMBDA x, st : IF x.error = "none" THEN GenStmt(x, st) ELSE x, g, stmts)

\* _gen_if
GenIf(g, st) ==
  LET else == LabelName(g, "else", 1)
      end == LabelName(g, "endif", 2)
      c == GenCondition(NewLabels(g, 2), st.cond)
      then == GenStmt(Emit(c, JumpIfNot(c.val, else)), st.then)
  IN  IF st.else = None THEN Emit(then, Label(else))
      ELSE Emit(GenStmt(EmitAll(then, <<Jump(end), Label(else)>>), st.else), Label(end))

\* _gen_while
GenWhile(g, st) ==
  LET cond == LabelName(g, "wcond", 1)
      end == LabelName(g, "wend", 2)
      c == GenCondition(Emit(Within(NewLabels(g, 2), <<end>>, <<cond>>), Label(cond)), st.cond)
      body == GenStmt(Emit(c, JumpIfNot(c.val, end)), st.body)
  IN  Outside(g, EmitAll(body, <<Jump(cond), Label(end)>>))

\* _gen_do_while
GenDoWhile(g, st) ==
  LET top == LabelName(g, "dobody", 1)
      cond == LabelName(g, "docond", 2)
      end == LabelName(g, "doend", 3)
      body == GenStmt(Emit(Within(NewLabels(g, 3), <<end>>, <<cond>>), Label(top)), st.body)
      c == GenCondition(Emit(body, Label(cond)), st.cond)
  IN  Outside(g, EmitAll(c, <<JumpIf(c.val, top), Label(end)>>))

\* _gen_for
GenFor(g, st) ==
  LET cond == LabelName(g, "fcond", 1)
      step == LabelName(g, "fstep", 2)
      end == LabelName(g, "fend", 3)
      h == NewLabels(g, 3)
      init == IF st.init = None THEN h ELSE GenStmt(h, st.init)
      top == Emit(Within(init, <<end>>, <<step>>), Label(cond))
      c == GenCondition(top, st.cond)
      body == GenStmt(IF st.cond = None THEN top ELSE Emit(c, JumpIfNot(c.val, end)), st.body)
      stepped == Emit(body, Label(step))
      again == IF st.step = None THEN stepped ELSE GenExpr(stepped, st.step)
  IN  Outside(g, EmitAll(again, <<Jump(cond), Label(end)>>))

\* _gen_switch: the last default wins.
GenSwitch(g, st) ==
  LET n == Len(st.clauses)
      end == LabelName(g, "swend", 1)
      lbl(k) == LabelName(g, "swcase", 1 + k)
      defaults == {k \in 1 .. n : st.clauses[k].value = None}
      v == GenExpr(NewLabels(g, 1), st.expr)
      test(x, k) ==
        LET c == GenExpr(x, st.clauses[k].value)
            eq == Yield(c, BinOp(Next1(c), "==", v.val, c.val))
        IN  IF k \in defaults THEN x ELSE Emit(eq, JumpIf(eq.val, lbl(k)))
      index == [k \in 1 .. n |-> k]
      dispatch == FoldLeft(test, NewLabels(v, n), index)
      enter == Within(Emit(dispatch, Jump(IF defaults = {} THEN end ELSE lbl(Max(defaults)))), <<end>>, <<>>)
      bodies == FoldLeft(LAMBDA x, k : GenStmts(Emit(x, Label(lbl(k))), st.clauses[k].body), enter, index)
  IN  Outside(g, Emit(bodies, Label(end)))

\* _gen_stmt
StmtCode(g, st) ==
  CASE st.is = "Block" -> GenStmts(g, st.stmts)
    [] st.is = "DeclStmt" -> GenDecl(g, st)
    [] st.is = "ExprStmt" -> GenExpr(g, st.expr)
    [] st.is = "ReturnStmt" -> GenReturn(g, st.expr)
    [] st.is = "IfStmt" -> GenIf(g, st)
    [] st.is = "WhileStmt" -> GenWhile(g, st)
    [] st.is = "DoWhileStmt" -> GenDoWhile(g, st)
    [] st.is = "ForStmt" -> GenFor(g, st)
    [] st.is = "SwitchStmt" -> GenSwitch(g, st)
    [] st.is = "BreakStmt" -> IF g.brk = <<>> THEN Fail(g, "break") ELSE Emit(g, Jump(Head(g.brk)))
    [] st.is = "ContinueStmt" -> IF g.cont = <<>> THEN Fail(g, "continue") ELSE Emit(g, Jump(Head(g.cont)))
    [] st.is = "GotoStmt" -> Emit(g, Jump(UserLabel(st.label)))
    [] st.is = "LabelStmt" -> GenStmt(Emit(g, Label(UserLabel(st.label))), st.body)

Gen(what, g, x) ==
  CASE what = "expr" -> ExprCode(g, x)
    [] what = "long" -> LongCode(g, x)
    [] what = "addr" -> AddrCode(g, x)
    [] what = "call" -> CallCode(g, x)
    [] what = "stmt" -> StmtCode(g, x)

-----------------------------------------------------------------------------
(* Functions and globals. *)

\* The declarations that _collect_locals and _collect_static_locals find: they
\* do not look into switch and labelled statements.
RECURSIVE Collected(_)
Collected(st) ==
  CASE st.is = "DeclStmt" -> <<st>>
    [] st.is = "Block" -> FlattenSeq([k \in DOMAIN st.stmts |-> Collected(st.stmts[k])])
    [] st.is = "IfStmt" -> Collected(st.then) \o Collected(st.else)
    [] st.is \in {"WhileStmt", "DoWhileStmt"} -> Collected(st.body)
    [] st.is = "ForStmt" -> Collected(st.init) \o Collected(st.body)
    [] OTHER -> <<>>

\* The words of a constant initializer (_const_init, and generate), <<>> for
\* zero.
ConstWords(init, t) ==
  LET n == LeafSize(t)
      words(e, two) == IF ~IsConstInt(e) THEN <<0>>
                       ELSE IF two THEN Words2(ConstInt(e) % 2^DoubleWidth)
                       ELSE <<ConstInt(e) % 2^Width>>
  IN  CASE init = None -> <<>>
        [] init # None /\ IsConstInt(init) -> words(init, IsLong(t))
        [] init.is = "InitList" ->
             LET flat == Flattened(init)
             IN  FlattenSeq([k \in DOMAIN flat |-> words(flat[k], IsConstInt(flat[k]) /\ n = 2)])
        [] OTHER -> <<>>

\* mutant: an array takes one word
SlotSizeOne(t) == IF t.is \in {"CStruct", "CUnion", "CLong"} THEN Size(t) ELSE 1

\* The words of a local variable.
SlotSize(t) == IF t.is \in {"CArray", "CStruct", "CUnion", "CLong"} THEN Size(t) ELSE 1

Generator(f, consts) ==
  LET decls == Collected(f.body)
      statics == SelectSeq(decls, LAMBDA d : d.static)
      locals == SelectSeq(decls, LAMBDA d : ~d.static)
      mangled(d) == <<"_C">> \o f.name \o d.name
      sret == IF IsRecord(f.ret) THEN f.ret ELSE None
      structs == {p \in ToSet(f.params) : IsRecord(p.ctype)}
  IN  [code |-> <<>>, tmp |-> 0, label |-> 0, val |-> Nothing, brk |-> <<>>, cont |-> <<>>,
       params |-> {p.name : p \in ToSet(f.params)} \cup IF sret = None THEN {} ELSE {ret},
       locals |-> {d.name : d \in ToSet(locals)},
       sizes |-> FoldLeft(LAMBDA s, d : (d.name :> SlotSize(d.ctype)) @@ s, <<>>, locals),
       statics |-> FoldLeft(LAMBDA s, d : (d.name :> mangled(d)) @@ s, <<>>, statics),
       structs |-> [x \in {p.name : p \in structs} |-> x],
       sret |-> sret, consts |-> consts, error |-> "none",
       globals |-> [k \in DOMAIN statics |->
                      [name |-> mangled(statics[k]),
                       words |-> Max({1, Size(statics[k].ctype)}),
                       init |-> ConstWords(statics[k].init, statics[k].ctype)]]]

\* _gen_func: the generator after the body, and the function it made.
FunctionMade(f, g) ==
  LET names == [k \in DOMAIN f.params |-> f.params[k].name]
  IN  [g |-> g,
       fn |-> [name |-> f.name, params |-> IF g.sret = None THEN names ELSE <<ret>> \o names,
               wide |-> {p.name : p \in {p \in ToSet(f.params) : IsLong(p.ctype)}},
               variadic |-> f.variadic, code |-> g.code, static |-> f.static, always |-> f.always,
               builtin |-> FALSE]]
Ended(g) == IF g.code = <<>> \/ Last(g.code).op # "ret" THEN Emit(g, Ret(Nothing)) ELSE g
GenFunction(f, consts) == FunctionMade(f, Ended(GenStmt(Generator(f, consts), f.body)))

\* mutant: an element is a word
GlobalEntrySmall(d) ==
  [name |-> d.name, words |-> IF d.ctype.is = "CArray" THEN d.ctype.length ELSE Max({1, Size(d.ctype)}),
   init |-> ConstWords(d.init, d.ctype)]

\* generate, for a global variable
GlobalEntry(d) ==
  [name |-> d.name, words |-> Max({1, Size(d.ctype)}), init |-> ConstWords(d.init, d.ctype)]
IsInlineConst(d) == /\ d.const /\ d.init.is \in {"IntLit", "CharLit"}
                    /\ d.ctype.is \notin {"CArray", "CStruct", "CUnion"}
=============================================================================
