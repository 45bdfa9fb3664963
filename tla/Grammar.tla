--------------------------------- MODULE Grammar ---------------------------------
(***************************************************************************)
(* How C writes a program down: the tokens of a tree, by the grammar and    *)
(* the precedences of the C standard, with no parentheses or braces that    *)
(* can be left out.  This is what the parser has to read back.  What stands *)
(* before an else must not end with an if that has none.                    *)
(*                                                                          *)
(* A dictionary says what the text defines ahead of its declarations, and   *)
(* then uses: records, the types with a body; typedefs, pairs of a name and *)
(* a type; enums, pairs of a name and a value; and lengths, the expressions *)
(* for some lengths of arrays.  If it is joined, declarations that follow   *)
(* each other and declare names of the same type are written as one.        *)
(***************************************************************************)
EXTENDS AST

Plain == [records |-> <<>>, typedefs |-> <<>>, enums |-> <<>>, lengths |-> <<>>, joined |-> FALSE]

Token(kind) == [kind |-> kind]
Tokens(kinds) == [k \in DOMAIN kinds |-> Token(kinds[k])]
Name(x) == <<[kind |-> "IDENT", value |-> x]>>
Number(n) == <<[kind |-> "INT_LIT", value |-> n]>>
Brackets(open, ts, close) == <<Token(open)>> \o ts \o <<Token(close)>>
Parentheses(ts) == Brackets("(", ts, ")")
Listed(texts) == FlattenSeq([k \in DOMAIN texts |-> (IF k = 1 THEN <<>> ELSE Tokens(<<",">>)) \o texts[k]])

\* The names that stand for x in a list of definitions.
Standing(x, pairs) == {pairs[k][1] : k \in {k \in DOMAIN pairs : pairs[k][2] = x}}
AnyOf(S) == CHOOSE x \in S : TRUE

-----------------------------------------------------------------------------
(* Precedence: an operand that binds less tightly than its place demands is *)
(* put in parentheses.                                                      *)
AssignmentLevel == 1
ConditionalLevel == 2
BinaryLevels == <<{"||"}, {"&&"}, {"|"}, {"^"}, {"&"}, {"==", "!="}, {"<", ">", "<=", ">="}, {"<<", ">>"},
                  {"+", "-"}, {"*", "/", "%"}>>
BinaryLevel(op) == 2 + CHOOSE k \in DOMAIN BinaryLevels : op \in BinaryLevels[k]
CastLevel == 13
UnaryLevel == 14
PostfixLevel == 15
Postfixed == {"++post", "--post"}

LevelOf(e) ==
  CASE e.is = "Assign" -> AssignmentLevel
    [] e.is = "Ternary" -> ConditionalLevel
    [] e.is = "BinOp" -> BinaryLevel(e.op)
    [] e.is = "Cast" -> CastLevel
    [] e.is = "SizeOf" \/ (e.is = "UnaryOp" /\ e.op \notin Postfixed) -> UnaryLevel
    [] OTHER -> PostfixLevel

\* One operator for all of the text, so that the parts can name each other.
RECURSIVE Text(_, _, _, _)
ExprText(e, level, d) == Text("expr", e, level, d)
Arguments(es, d) == Listed([k \in DOMAIN es |-> ExprText(es[k], AssignmentLevel, d)])

\* A type with the declarator that is written so far: C declares a name by its use.
DeclaratorText(t, inner, d) == Text("declarator", t, inner, d)
TypeText(t, d) == DeclaratorText(t, <<>>, d)

Tight(e, d) ==
  CASE e.is = "IntLit" -> LET names == Standing(e.value, d.enums)
                          IN  IF names = {} THEN Number(e.value) ELSE Name(AnyOf(names))
    [] e.is = "CharLit" -> <<[kind |-> "CHAR_LIT", value |-> e.value]>>
    [] e.is = "Ident" -> Name(e.name)
    [] e.is = "Call" -> ExprText(e.func, PostfixLevel, d) \o Parentheses(Arguments(e.args, d))
    [] e.is = "Index" -> ExprText(e.array, PostfixLevel, d) \o Brackets("[", ExprText(e.index, AssignmentLevel, d), "]")
    [] e.is = "Member" ->
         ExprText(e.obj, PostfixLevel, d) \o Tokens(<<IF e.arrow THEN "->" ELSE ".">>) \o Name(e.field)
    [] e.is = "UnaryOp" -> ExprText(e.operand, PostfixLevel, d) \o Tokens(<<IF e.op = "++post" THEN "++" ELSE "--">>)
    [] e.is = "InitList" -> Brackets("{", Arguments(e.elems, d), "}")

Prefixed(e, d) ==
  CASE e.is = "SizeOf" /\ IsType(e.target) -> Tokens(<<"sizeof">>) \o Parentheses(TypeText(e.target, d))
    [] e.is = "SizeOf" /\ ~IsType(e.target) -> Tokens(<<"sizeof">>) \o ExprText(e.target, UnaryLevel, d)
    [] e.is = "UnaryOp" /\ e.op = "++pre" -> Tokens(<<"++">>) \o ExprText(e.operand, UnaryLevel, d)
    [] e.is = "UnaryOp" /\ e.op = "--pre" -> Tokens(<<"--">>) \o ExprText(e.operand, UnaryLevel, d)
    [] OTHER -> Tokens(<<e.op>>) \o ExprText(e.operand, CastLevel, d)

Bare(e, d) ==
  LET level == LevelOf(e) IN
  CASE level = AssignmentLevel ->
         ExprText(e.target, UnaryLevel, d) \o Tokens(<<e.op>>) \o ExprText(e.value, AssignmentLevel, d)
    [] level = ConditionalLevel ->
         ExprText(e.cond, ConditionalLevel + 1, d) \o Tokens(<<"?">>) \o ExprText(e.then, AssignmentLevel, d)
           \o Tokens(<<":">>) \o ExprText(e.else, ConditionalLevel, d)
    [] level \in ConditionalLevel + 1 .. CastLevel - 1 ->
         ExprText(e.left, level, d) \o Tokens(<<e.op>>) \o ExprText(e.right, level + 1, d)
    [] level = CastLevel -> Parentheses(TypeText(e.to, d)) \o ExprText(e.expr, CastLevel, d)
    [] level = UnaryLevel -> Prefixed(e, d)
    [] level = PostfixLevel -> Tight(e, d)

InPlace(e, level, d) == IF LevelOf(e) < level THEN Parentheses(Bare(e, d)) ELSE Bare(e, d)

-----------------------------------------------------------------------------
(* Types and declarators. *)
Signedness(t) == IF t.unsigned THEN <<"unsigned">> ELSE <<>>
SpecifierText(t, d) ==
  LET names == Standing(t, d.typedefs) IN
  CASE names # {} -> Name(AnyOf(names))
    [] names = {} /\ t.is = "CVoid" -> Tokens(<<"void">>)
    [] names = {} /\ t.is = "CInt" -> Tokens(IF t.unsigned THEN <<"unsigned">> ELSE <<"int">>)
    [] names = {} /\ t.is = "CChar" -> Tokens(Signedness(t) \o <<"char">>)
    [] names = {} /\ t.is = "CShort" -> Tokens(<<"short">> \o Signedness(t) \o <<"int">>)
    [] names = {} /\ t.is = "CLong" -> Tokens(<<"long">> \o Signedness(t))
    [] names = {} /\ t.is = "CStruct" -> Tokens(<<"struct">>) \o Name(t.name)
    [] names = {} /\ t.is = "CUnion" -> Tokens(<<"union">>) \o Name(t.name)

ParameterTexts(texts, variadic) ==
  Parentheses(IF texts = <<>> /\ ~variadic THEN Tokens(<<"void">>)
              ELSE Listed(texts \o IF variadic THEN <<Tokens(<<"...">>)>> ELSE <<>>))
LengthText(n, d) == IF n \in DOMAIN d.lengths THEN ExprText(d.lengths[n], ConditionalLevel, d) ELSE Number(n)
Derived(t, d) == t.is \in {"CPointer", "CArray", "CFunction"} /\ Standing(t, d.typedefs) = {}
DeclaredText(t, inner, d) ==
  LET starred == Tokens(<<"*">>) \o inner
      derived == Derived(t, d)
  IN  CASE t.is = "CPointer" /\ derived ->
             DeclaratorText(t.base, IF t.base.is \in {"CArray", "CFunction"} THEN Parentheses(starred) ELSE starred, d)
        [] t.is = "CArray" /\ derived -> DeclaratorText(t.base, inner \o Brackets("[", LengthText(t.length, d), "]"), d)
        [] t.is = "CFunction" /\ derived ->
             DeclaratorText(t.ret, inner \o ParameterTexts([k \in DOMAIN t.params |-> TypeText(t.params[k], d)], t.variadic), d)
        [] OTHER -> SpecifierText(t, d) \o inner

InitText(init, d) == IF init = None THEN <<>> ELSE Tokens(<<"=">>) \o ExprText(init, AssignmentLevel, d)
FirstText(x, d) == DeclaratorText(x.ctype, Name(x.name), d) \o InitText(x.init, d)

End == Tokens(<<";">>)
StorageText(x) ==
  Tokens(CASE x.is = "DeclStmt" /\ x.static -> <<"static">> [] x.is = "VarDecl" /\ x.const -> <<"const">> [] OTHER -> <<>>)

\* x and the declaration y that follows it are declared together.
Joined(x, y, d) ==
  /\ x.is = y.is /\ x.is \in {"DeclStmt", "VarDecl"} /\ StorageText(x) = StorageText(y)
  /\ d.joined /\ x.ctype = y.ctype /\ ~Derived(x.ctype, d)

\* Declarations, each the start of one, or continuing the one before it.
DeclarationTexts(xs, d) ==
  FlattenSeq([k \in DOMAIN xs |->
    LET joins(j) == j \in 2 .. Len(xs) /\ Joined(xs[j - 1], xs[j], d)
    IN  CASE xs[k].is \notin {"DeclStmt", "VarDecl"} -> Text("other", xs[k], 0, d)
          [] joins(k) -> Tokens(<<",">>) \o Name(xs[k].name) \o InitText(xs[k].init, d) \o IF joins(k + 1) THEN <<>> ELSE End
          [] OTHER -> StorageText(xs[k]) \o FirstText(xs[k], d) \o IF joins(k + 1) THEN <<>> ELSE End])

-----------------------------------------------------------------------------
(* Statements. *)
StmtTexts(stmts, d) == Text("list", stmts, 0, d)
StmtText(st, d) == StmtTexts(<<st>>, d)
OptText(e, d) == IF e = None THEN <<>> ELSE ExprText(e, AssignmentLevel, d)
Heading(word, e, d) == Tokens(<<word>>) \o Parentheses(ExprText(e, AssignmentLevel, d))

ClauseText(c, d) ==
  (IF c.value = None THEN Tokens(<<"default">>) ELSE Tokens(<<"case">>) \o ExprText(c.value, ConditionalLevel, d))
    \o Tokens(<<":">>) \o StmtTexts(c.body, d)

StatementText(st, d) ==
  CASE st.is = "Block" -> Brackets("{", StmtTexts(st.stmts, d), "}")
    [] st.is = "ExprStmt" -> ExprText(st.expr, AssignmentLevel, d) \o End
    [] st.is = "ReturnStmt" -> Tokens(<<"return">>) \o OptText(st.expr, d) \o End
    [] st.is = "IfStmt" ->
         Heading("if", st.cond, d) \o StmtText(st.then, d)
           \o IF st.else = None THEN <<>> ELSE Tokens(<<"else">>) \o StmtText(st.else, d)
    [] st.is = "WhileStmt" -> Heading("while", st.cond, d) \o StmtText(st.body, d)
    [] st.is = "DoWhileStmt" -> Tokens(<<"do">>) \o StmtText(st.body, d) \o Heading("while", st.cond, d) \o End
    [] st.is = "ForStmt" ->
         Tokens(<<"for">>)
           \o Parentheses((IF st.init = None THEN End ELSE StmtText(st.init, d)) \o OptText(st.cond, d) \o End \o OptText(st.step, d))
           \o StmtText(st.body, d)
    [] st.is = "SwitchStmt" ->
         Heading("switch", st.expr, d)
           \o Brackets("{", FlattenSeq([k \in DOMAIN st.clauses |-> ClauseText(st.clauses[k], d)]), "}")
    [] st.is = "BreakStmt" -> Tokens(<<"break">>) \o End
    [] st.is = "ContinueStmt" -> Tokens(<<"continue">>) \o End
    [] st.is = "GotoStmt" -> Tokens(<<"goto">>) \o Name(st.label) \o End
    [] st.is = "LabelStmt" -> Name(st.label) \o Tokens(<<":">>) \o StmtText(st.body, d)

-----------------------------------------------------------------------------
\* inline, or the attribute, asks that a function is inlined always.
FunctionText(f, d) ==
  LET params == [k \in DOMAIN f.params |-> DeclaratorText(f.params[k].ctype, Name(f.params[k].name), d)]
      forced == Name(<<"__attribute__">>) \o Parentheses(Parentheses(Name(<<"always_inline">>)))
  IN  (CASE f.always /\ f.static -> Tokens(<<"static", "inline">>)
         [] f.always /\ ~f.static -> forced
         [] OTHER -> IF f.static THEN Tokens(<<"static">>) ELSE <<>>)
        \o DeclaratorText(f.ret, Name(f.name) \o ParameterTexts(params, f.variadic), d)
        \o IF f.body = None THEN End ELSE StmtText(f.body, d)

Text(what, x, y, d) ==
  CASE what = "expr" -> InPlace(x, y, d)
    [] what = "declarator" -> DeclaredText(x, y, d)
    [] what = "list" -> DeclarationTexts(x, d)
    [] what = "other" -> IF x.is = "FuncDecl" THEN FunctionText(x, d) ELSE StatementText(x, d)

RecordText(t, d) ==
  Tokens(<<IF t.is = "CUnion" THEN "union" ELSE "struct">>) \o Name(t.name)
    \o Brackets("{", FlattenSeq([k \in DOMAIN t.fields |->
                                   DeclaratorText(t.fields[k].ctype, Name(t.fields[k].name), d) \o End]), "}")
    \o End
EnumText(pairs) ==
  IF pairs = <<>> THEN <<>>
  ELSE Tokens(<<"enum">>)
         \o Brackets("{", Listed([k \in DOMAIN pairs |->
              Name(pairs[k][1]) \o
                (IF k > 1 /\ pairs[k][2] = pairs[k - 1][2] + 1 THEN <<>>
                 ELSE Tokens(IF pairs[k][2] < 0 THEN <<"=", "-">> ELSE <<"=">>)
                        \o Number(IF pairs[k][2] < 0 THEN -pairs[k][2] ELSE pairs[k][2]))]), "}")
         \o End

\* The program: what the dictionary defines, each part in terms of the ones before it.
ProgramText(decls, dict) ==
  LET known(n) == [dict EXCEPT !.typedefs = SubSeq(@, 1, n)]
  IN  EnumText(dict.enums)
        \o FlattenSeq([k \in DOMAIN dict.records |-> RecordText(dict.records[k], known(0))])
        \o FlattenSeq([k \in DOMAIN dict.typedefs |->
             Tokens(<<"typedef">>) \o DeclaratorText(dict.typedefs[k][2], Name(dict.typedefs[k][1]), known(k - 1)) \o End])
        \o Text("list", decls, 0, dict)
        \o Tokens(<<"EOF">>)
=============================================================================
