-------------------------------- MODULE Semantic --------------------------------
(***************************************************************************)
(* compiler/semantic.py: names are looked up in nested scopes, every        *)
(* expression gets its type, and programs with unknown names or wrong       *)
(* arguments are rejected.  A scope is a function from names to types: an   *)
(* inner declaration overrides an outer one until its block is left.        *)
(***************************************************************************)
EXTENDS AST

Wrong == [is |-> "wrong"]      \* the type of an expression that is rejected
IsWrong(e) == e.ctype = Wrong

\* common_type: int is signed even if an operand is not
CommonType(a, b) ==
  CASE IsLong(a) \/ IsLong(b) -> CLong(Unsigned(a) \/ Unsigned(b))
    [] ~IsLong(a) /\ ~IsLong(b) /\ IsPointerType(a) -> a
    [] ~IsLong(a) /\ ~IsLong(b) /\ ~IsPointerType(a) /\ IsPointerType(b) -> b
    [] a.is = "CShort" /\ b.is = "CShort" -> CShort(a.unsigned \/ b.unsigned)
    [] OTHER -> CInt(FALSE)

Comparisons == {"==", "!=", "<", ">", "<=", ">="}
Logical == {"&&", "||"}

BinaryType(op, a, b) ==
  CASE op \in Comparisons \cup Logical -> CInt(FALSE)
    [] op = "-" /\ IsPointerType(a) /\ IsPointerType(b) -> CInt(FALSE)
    [] op \in {"+", "-"} /\ IsPointerType(a) /\ IsInteger(b) -> a
    [] op \in {"+", "-"} /\ IsPointerType(b) /\ IsInteger(a) -> b
    [] OTHER -> CommonType(a, b)

UnaryType(op, t) ==
  CASE op = "&" -> CPointer(t)
    [] op = "*" -> IF IsPointerType(t) THEN t.base ELSE Wrong
    [] op = "!" -> CInt(FALSE)
    [] OTHER -> t

\* _is_assignable
RECURSIVE Assignable(_, _)
Assignable(src, dst) ==
  CASE src.is = dst.is /\ src.is = "CPointer" -> Assignable(src.base, dst.base)
    [] src.is = dst.is /\ IsRecord(src) -> src.name = dst.name
    [] src.is = dst.is /\ src.is # "CPointer" /\ ~IsRecord(src) -> TRUE
    [] IsInteger(src) /\ IsInteger(dst) -> TRUE
    [] src.is = "CArray" /\ dst.is = "CPointer" -> Assignable(src.base, dst.base)
    [] src.is = "CFunction" /\ dst.is = "CPointer" -> dst.base.is = "CFunction"
    [] OTHER -> FALSE

\* A pointer to a function is called like the function.
Callee(t) == IF t.is = "CPointer" /\ t.base.is = "CFunction" THEN t.base ELSE t

\* The type of a call, by the signature of what is called.
CallType(f, args) ==
  LET few == Len(args) < Len(f.params)
      many == Len(args) > Len(f.params) /\ ~f.variadic
  IN  CASE f.is # "CFunction" -> CInt(FALSE)
        [] f.is = "CFunction" /\ (few \/ many) -> Wrong
        [] OTHER -> IF \A i \in DOMAIN f.params : Assignable(args[i].ctype, f.params[i])
                    THEN f.ret ELSE Wrong

MemberType(o, field, arrow) ==
  LET t == IF arrow THEN (IF o.is = "CPointer" THEN o.base ELSE Wrong) ELSE o
  IN  IF IsRecord(t) /\ HasField(t, field) THEN GetField(t, field).ctype ELSE Wrong

\* _analyze_expr: the expression with its type, Wrong if any part is.
RECURSIVE Typed(_, _)
Typed(e, scope) ==
  LET sub(x) == Typed(x, scope)
      seq(s) == [k \in DOMAIN s |-> Typed(s[k], scope)]
      join(parts, x, t) == Of(x, IF \E p \in parts : IsWrong(p) THEN Wrong ELSE t)
  IN
  CASE e.is = "IntLit" -> Of(e, CInt(FALSE))
    [] e.is = "CharLit" -> Of(e, CChar(FALSE))
    [] e.is = "Ident" -> Of(e, IF e.name \in DOMAIN scope THEN scope[e.name] ELSE Wrong)
    [] e.is = "BinOp" ->
         LET l == sub(e.left)
             r == sub(e.right)
         IN  join({l, r}, [e EXCEPT !.left = l, !.right = r], BinaryType(e.op, l.ctype, r.ctype))
    [] e.is = "UnaryOp" ->
         LET x == sub(e.operand) IN join({x}, [e EXCEPT !.operand = x], UnaryType(e.op, x.ctype))
    [] e.is = "Assign" ->
         LET x == sub(e.target)
             v == sub(e.value)
         IN  join({x, v}, [e EXCEPT !.target = x, !.value = v], x.ctype)
    [] e.is = "Call" ->
         LET f == sub(e.func)
             args == seq(e.args)
         IN  join({f} \cup ToSet(args), [e EXCEPT !.func = f, !.args = args],
                  CallType(Callee(f.ctype), args))
    [] e.is = "Index" ->
         LET a == sub(e.array)
             i == sub(e.index)
         IN  join({a, i}, [e EXCEPT !.array = a, !.index = i], UnaryType("*", a.ctype))
    [] e.is = "Cast" -> LET x == sub(e.expr) IN join({x}, [e EXCEPT !.expr = x], e.to)
    [] e.is = "SizeOf" /\ IsType(e.target) -> Of(e, CInt(FALSE))
    [] e.is = "SizeOf" /\ ~IsType(e.target) ->
         LET x == sub(e.target) IN join({x}, [e EXCEPT !.target = x], CInt(FALSE))
    [] e.is = "Member" ->
         LET o == sub(e.obj) IN join({o}, [e EXCEPT !.obj = o], MemberType(o.ctype, e.field, e.arrow))
    [] e.is = "Ternary" ->
         LET c == sub(e.cond)
             x == sub(e.then)
             y == sub(e.else)
         IN  join({c, x, y}, [e EXCEPT !.cond = c, !.then = x, !.else = y], CommonType(x.ctype, y.ctype))
    [] e.is = "InitList" ->
         LET es == seq(e.elems) IN
         join(ToSet(es), [e EXCEPT !.elems = es],
              CArray(IF es = <<>> THEN CInt(FALSE) ELSE es[1].ctype, Len(es)))

TypedIf(e, scope) == IF e = None THEN e ELSE Typed(e, scope)
Accepted(e) == e = None \/ ~IsWrong(e)

\* mutant: the declarations of a block outlive it
LeaveNothing(outer, a) == a

\* _pop_scope: what a block declared is forgotten when it ends.
Leave(outer, a) == [a EXCEPT !.scope = outer]

\* _analyze_stmt: the statement, the scope after it, and if it is accepted.
RECURSIVE Analyzed(_, _)
Analyzed(st, scope) ==
  LET done(s, ok) == [stmt |-> s, scope |-> scope, ok |-> ok]
      after(ss, sc) ==
        FoldLeft(LAMBDA acc, x : LET a == Analyzed(x, acc.scope)
                                 IN  [stmt |-> Append(acc.stmt, a.stmt), scope |-> a.scope,
                                      ok |-> acc.ok /\ a.ok],
                 [stmt |-> <<>>, scope |-> sc, ok |-> TRUE], ss)
      opt(x, sc) == IF x = None THEN [stmt |-> None, scope |-> sc, ok |-> TRUE] ELSE Analyzed(x, sc)
  IN
  CASE st.is = "Block" ->
         LET a == Leave(scope, after(st.stmts, scope)) IN [a EXCEPT !.stmt = Block(a.stmt)]
    [] st.is = "DeclStmt" ->
         LET inner == (st.name :> st.ctype) @@ scope
             init == TypedIf(st.init, inner)
         IN  [stmt |-> [st EXCEPT !.init = init], scope |-> inner, ok |-> Accepted(init)]
    [] st.is \in {"ExprStmt", "ReturnStmt"} ->
         LET e == TypedIf(st.expr, scope) IN done([st EXCEPT !.expr = e], Accepted(e))
    [] st.is = "IfStmt" ->
         LET c == Typed(st.cond, scope)
             a == Analyzed(st.then, scope)
             b == opt(st.else, a.scope)
         IN  [stmt |-> IfStmt(c, a.stmt, b.stmt), scope |-> b.scope, ok |-> Accepted(c) /\ a.ok /\ b.ok]
    [] st.is \in {"WhileStmt", "DoWhileStmt"} ->
         LET a == Analyzed(st.body, scope)
             c == Typed(st.cond, IF st.is = "DoWhileStmt" THEN a.scope ELSE scope)
         IN  [a EXCEPT !.stmt = [st EXCEPT !.cond = c, !.body = a.stmt], !.ok = @ /\ Accepted(c)]
    [] st.is = "ForStmt" ->
         LET i == opt(st.init, scope)
             c == TypedIf(st.cond, i.scope)
             e == TypedIf(st.step, i.scope)
             a == Analyzed(st.body, i.scope)
         IN  Leave(scope, [stmt |-> ForStmt(i.stmt, c, e, a.stmt), scope |-> scope,
                           ok |-> i.ok /\ Accepted(c) /\ Accepted(e) /\ a.ok])
    [] st.is = "SwitchStmt" ->
         LET e == Typed(st.expr, scope)
             clauses == FoldLeft(LAMBDA acc, c :
                                   LET v == TypedIf(c.value, acc.scope)
                                       a == after(c.body, acc.scope)
                                   IN  [stmt |-> Append(acc.stmt, CaseClause(v, a.stmt)), scope |-> a.scope,
                                        ok |-> acc.ok /\ Accepted(v) /\ a.ok],
                                 [stmt |-> <<>>, scope |-> scope, ok |-> Accepted(e)], st.clauses)
         IN  [clauses EXCEPT !.stmt = SwitchStmt(e, @)]
    [] st.is = "LabelStmt" ->
         LET a == Analyzed(st.body, scope) IN [a EXCEPT !.stmt = LabelStmt(st.label, a.stmt)]
    [] OTHER -> done(st, st.is \in {"BreakStmt", "ContinueStmt", "GotoStmt"})

\* analyze, first pass: all functions and globals are known everywhere.
GlobalScope(decls) ==
  FoldLeft(LAMBDA scope, d :
             (d.name :> IF d.is = "VarDecl" THEN d.ctype
                        ELSE CFunction(d.ret, [k \in DOMAIN d.params |-> d.params[k].ctype], d.variadic))
               @@ scope,
           <<>>, decls)

\* Second pass: the bodies.
AnalyzedFunction(d, scope) ==
  LET inner == FoldLeft(LAMBDA sc, p : (p.name :> p.ctype) @@ sc, scope, d.params)
      a == Analyzed(d.body, inner)
  IN  [decl |-> [d EXCEPT !.body = a.stmt], ok |-> a.ok]
=============================================================================
