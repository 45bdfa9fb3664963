---------------------------------- MODULE AST ----------------------------------
(***************************************************************************)
(* compiler/ast_nodes.py: the types of C and the nodes of a program.  A     *)
(* node is a record whose field is names its class; every expression has a  *)
(* ctype, which the analyser fills in.                                      *)
(* String literals, asm statements and variable arguments are left out, and *)
(* so are structs that refer to themselves.                                 *)
(***************************************************************************)
EXTENDS Integers, SequencesExt

None == [is |-> "None"]

-----------------------------------------------------------------------------
(* Types. *)
CInt(unsigned) == [is |-> "CInt", unsigned |-> unsigned]
CLong(unsigned) == [is |-> "CLong", unsigned |-> unsigned]
CChar(unsigned) == [is |-> "CChar", unsigned |-> unsigned]
CShort(unsigned) == [is |-> "CShort", unsigned |-> unsigned]
CVoid == [is |-> "CVoid"]
CPointer(base) == [is |-> "CPointer", base |-> base]
OpenLength == -1             \* of a[], unless an initializer gives it one
CArray(base, length) == [is |-> "CArray", base |-> base, length |-> length]
CFunction(ret, params, variadic) ==
  [is |-> "CFunction", ret |-> ret, params |-> params, variadic |-> variadic]
CStruct(name, fields) == [is |-> "CStruct", name |-> name, fields |-> fields]
CUnion(name, fields) == [is |-> "CUnion", name |-> name, fields |-> fields]
StructField(name, ctype, offset) == [name |-> name, ctype |-> ctype, offset |-> offset]

IsInteger(t) == t.is \in {"CInt", "CLong", "CChar", "CShort"}
IsPointerType(t) == t.is \in {"CPointer", "CArray"}
IsRecord(t) == t.is \in {"CStruct", "CUnion"}
IsLong(t) == t.is = "CLong"
Unsigned(t) == IsInteger(t) /\ t.unsigned

\* size(): in words
RECURSIVE Size(_)
Size(t) ==
  CASE t.is = "CLong" -> 2
    [] t.is = "CArray" -> (IF t.length = OpenLength THEN 0 ELSE t.length) * Size(t.base)
    [] t.is = "CStruct" -> FoldLeft(LAMBDA n, f : n + Size(f.ctype), 0, t.fields)
    [] t.is = "CUnion" -> Max({0} \cup {Size(f.ctype) : f \in ToSet(t.fields)})
    [] t.is \in {"CVoid", "CFunction"} -> 0
    [] OTHER -> 1

HasField(t, name) == \E f \in ToSet(t.fields) : f.name = name
GetField(t, name) == CHOOSE f \in ToSet(t.fields) : f.name = name

-----------------------------------------------------------------------------
(* Expressions. *)
Expr(is) == [is |-> is, ctype |-> None]

IntLit(n) == Expr("IntLit") @@ [value |-> n]
CharLit(n) == Expr("CharLit") @@ [value |-> n]
Ident(x) == Expr("Ident") @@ [name |-> x]
Binary(op, l, r) == Expr("BinOp") @@ [op |-> op, left |-> l, right |-> r]
Unary(op, e) == Expr("UnaryOp") @@ [op |-> op, operand |-> e]
Assign(op, e, v) == Expr("Assign") @@ [op |-> op, target |-> e, value |-> v]
CallExpr(f, args) == Expr("Call") @@ [func |-> f, args |-> args]
Index(a, i) == Expr("Index") @@ [array |-> a, index |-> i]
Cast(t, e) == Expr("Cast") @@ [to |-> t, expr |-> e]
SizeOf(e) == Expr("SizeOf") @@ [target |-> e]        \* of an expression, or of a type
IsType(x) == "ctype" \notin DOMAIN x
Ternary(c, e, f) == Expr("Ternary") @@ [cond |-> c, then |-> e, else |-> f]
Member(o, field, arrow) == Expr("Member") @@ [obj |-> o, field |-> field, arrow |-> arrow]
InitList(es) == Expr("InitList") @@ [elems |-> es]

\* A synthetic node that has its type already.
Of(e, t) == [e EXCEPT !.ctype = t]

-----------------------------------------------------------------------------
(* Statements and declarations. *)
Block(stmts) == [is |-> "Block", stmts |-> stmts]
DeclStmt(name, t, init) == [is |-> "DeclStmt", name |-> name, ctype |-> t, init |-> init, static |-> FALSE]
StaticDecl(name, t, init) == [DeclStmt(name, t, init) EXCEPT !.static = TRUE]
ExprStmt(e) == [is |-> "ExprStmt", expr |-> e]
ReturnStmt(e) == [is |-> "ReturnStmt", expr |-> e]
IfStmt(c, s, t) == [is |-> "IfStmt", cond |-> c, then |-> s, else |-> t]
WhileStmt(c, s) == [is |-> "WhileStmt", cond |-> c, body |-> s]
DoWhileStmt(s, c) == [is |-> "DoWhileStmt", cond |-> c, body |-> s]
ForStmt(i, c, e, s) == [is |-> "ForStmt", init |-> i, cond |-> c, step |-> e, body |-> s]
SwitchStmt(e, clauses) == [is |-> "SwitchStmt", expr |-> e, clauses |-> clauses]
CaseClause(e, stmts) == [value |-> e, body |-> stmts]     \* None for default
BreakStmt == [is |-> "BreakStmt"]
ContinueStmt == [is |-> "ContinueStmt"]
GotoStmt(l) == [is |-> "GotoStmt", label |-> l]
LabelStmt(l, s) == [is |-> "LabelStmt", label |-> l, body |-> s]

VarDecl(name, t, init, const) ==
  [is |-> "VarDecl", name |-> name, ctype |-> t, init |-> init, const |-> const]
ParamDecl(name, t) == [name |-> name, ctype |-> t]
FuncDecl(name, ret, params, body) ==
  [is |-> "FuncDecl", name |-> name, ret |-> ret, params |-> params, body |-> body,
   static |-> FALSE, always |-> FALSE, variadic |-> FALSE]
=============================================================================
