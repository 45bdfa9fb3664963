--------------------------------- MODULE Parser ---------------------------------
(***************************************************************************)
(* compiler/parser.py: recursive descent from the tokens of the lexer to    *)
(* the declarations of the program.  Each method of the Parser is a handler *)
(* from a state to a state; what the method returns is left on the stack    *)
(* out.  Most are a Phrase, the tokens and methods in the order in which    *)
(* they are eaten and called, and the node that is made of the results.     *)
(*                                                                          *)
(* Left out, as in AST: strings, asm, va_arg, and with them va_list.  A     *)
(* struct type is a value, so one that is used before its body is known     *)
(* stays without fields.                                                    *)
(***************************************************************************)
EXTENDS AST

\* A token is [kind], or [kind, value] for IDENT, INT_LIT and CHAR_LIT; the kind of
\* a keyword, an operator or a delimiter is how it is written.
NoName == <<>>
Attribute == <<"__attribute__">>
AlwaysInline == <<"always_inline">>

Parsing(tokens) ==
  [tokens |-> tokens, pos |-> 1, ok |-> TRUE, out |-> <<>>,
   tags |-> <<>>, typedefs |-> <<>>, enums |-> <<>>]

-----------------------------------------------------------------------------
(* _cur, _peek, _at, _eat, _try_eat.  After an error nothing is eaten. *)
Current(s) == s.tokens[s.pos]
Peeked(s) == s.tokens[IF s.pos < Len(s.tokens) THEN s.pos + 1 ELSE s.pos]
At(s, kinds) == s.ok /\ Current(s).kind \in kinds
Err(s) == [s EXCEPT !.ok = FALSE]
Skip(s) == [s EXCEPT !.pos = @ + 1]
Eat(s, kind) == IF At(s, {kind}) THEN Skip(s) ELSE Err(s)
TryEat(s, kinds) == IF At(s, kinds) THEN Skip(s) ELSE s

\* What the methods return.
Push(s, x) == [s EXCEPT !.out = Append(@, x)]
EatValue(s, kind) == IF At(s, {kind}) THEN Skip(Push(s, Current(s).value)) ELSE Err(s)
Top(s) == Last(s.out)
Made(s, n, Node(_)) ==
  IF s.ok THEN LET rest == Len(s.out) - n
               IN  [s EXCEPT !.out = Append(SubSeq(@, 1, rest), Node(SubSeq(@, rest + 1, rest + n)))]
  ELSE s
Replaced(s, Node(_)) == Made(s, 1, LAMBDA a : Node(a[1]))

\* A method is called by its name; x is what it needs besides the state.
RECURSIVE Parse(_, _, _)
Method(method, s) == Parse(method, None, s)
Phrase(symbols, s) == Parse("phrase", symbols, s)
Methods == {"Base", "Type", "Stars", "OptName", "Dims", "TypeAndName", "Params", "Init", "Expr", "Unary",
            "Stmt", "ConstExpr", "ConstUnary", "InitList", "EnumInit"}
Symbols(symbols, s) ==
  IF symbols = <<>> THEN s
  ELSE Phrase(Tail(symbols), CASE symbols[1] = "Name" -> EatValue(s, "IDENT")
                               [] symbols[1] \in Methods -> Method(symbols[1], s)
                               [] OTHER -> Eat(s, symbols[1]))

-----------------------------------------------------------------------------
(* Types. *)
TypeStarts == {"int", "long", "char", "void", "unsigned", "struct", "union", "enum", "const", "short",
               "signed", "volatile"}
Qualifiers == {"const", "volatile"}
Specifiers == TypeStarts \ (Qualifiers \cup {"struct", "union", "enum"})

StartsType(s, token) ==
  \/ token.kind \in TypeStarts
  \/ token.kind = "IDENT" /\ token.value \in DOMAIN s.typedefs
AtTypeStart(s) == s.ok /\ StartsType(s, Current(s))

\* Specifiers that exclude each other.
Clashes == {{"signed", "unsigned"}, {"short", "long"}, {"char", "short"}, {"char", "long"}, {"char", "int"}}
             \cup {{"void", w} : w \in Specifiers \ {"void"}}
SpecifiedType(seen) ==
  CASE "void" \in seen -> CVoid
    [] "char" \in seen -> CChar("unsigned" \in seen)
    [] "short" \in seen -> CShort("unsigned" \in seen)
    [] "long" \in seen -> CLong("unsigned" \in seen)
    [] OTHER -> CInt("unsigned" \in seen)

\* _parse_base_type; seen are the specifiers so far
BaseWords(seen, s) ==
  CASE At(s, Qualifiers) -> Parse("BaseWords", seen, Skip(s))
    [] At(s, Specifiers \ seen) -> Parse("BaseWords", seen \cup {Current(s).kind}, Skip(s))
    [] At(s, seen) -> Err(s)
    [] OTHER -> IF seen = {} \/ \E c \in Clashes : c \subseteq seen THEN Err(s)
                ELSE Push(s, SpecifiedType(seen))
Base(s) ==
  CASE At(s, {"struct", "union"}) -> Parse("Record", Current(s).kind, Skip(s))
    [] At(s, {"enum"}) -> Method("Enum", Skip(s))
    [] At(s, {"IDENT"}) /\ AtTypeStart(s) -> Push(Skip(s), s.typedefs[Current(s).value])
    [] OTHER -> Parse("BaseWords", {}, s)

\* _parse_struct_or_union
RecordType(kind, name, fields) == IF kind = "union" THEN CUnion(name, fields) ELSE CStruct(name, fields)
Registered(kind, s) ==
  IF s.ok /\ Top(s).name # NoName THEN [s EXCEPT !.tags = (<<kind, Top(s).name>> :> Top(s)) @@ @] ELSE s
Tagged(kind, s) ==
  Replaced(s, LAMBDA name : IF <<kind, name>> \in DOMAIN s.tags THEN s.tags[<<kind, name>>]
                            ELSE RecordType(kind, name, <<>>))
Fields(kind, s) ==
  IF At(s, {"}", "EOF"}) THEN Eat(s, "}")
  ELSE Parse("Fields", kind,
             Made(Phrase(<<"TypeAndName", ";">>, s), 2, LAMBDA a :
                    LET words == FoldLeft(LAMBDA n, f : n + Size(f.ctype), 0, a[1])
                    IN  Append(a[1], StructField(a[2].name, a[2].ctype, IF kind = "union" THEN 0 ELSE words))))
RecordBody(kind, s) ==
  IF At(s, {"{"})
  THEN Registered(kind, Made(Parse("Fields", kind, Push(Skip(s), <<>>)), 2,
                             LAMBDA a : RecordType(kind, a[1].name, a[2])))
  ELSE s
Record(kind, s) == RecordBody(kind, Registered(kind, Tagged(kind, Method("OptName", s))))

\* _parse_enum: an enumerator is an integer from here to the end of the program.
\* The value of the next one is on the stack.
Negated(s) == Replaced(s, LAMBDA v : -v)
EnumConst(s) ==
  IF At(s, {"IDENT"}) /\ Current(s).value \in DOMAIN s.enums THEN Push(Skip(s), s.enums[Current(s).value])
  ELSE EatValue(s, "INT_LIT")
EnumInit(s) ==
  CASE At(s, {"="}) /\ Peeked(s).kind = "-" -> Negated(EnumConst(Skip(Skip(s))))
    [] At(s, {"="}) /\ Peeked(s).kind # "-" -> EnumConst(Skip(s))
    [] OTHER -> Push(s, s.out[Len(s.out) - 1])
Enumerated(s) ==
  IF s.ok THEN Made([s EXCEPT !.enums = (s.out[Len(s.out) - 1] :> Top(s)) @@ @], 3, LAMBDA a : a[3] + 1)
  ELSE s
NextEnumerator(s) == IF At(s, {","}) THEN Method("Enumerators", Skip(s)) ELSE s
Enumerators(s) ==
  IF At(s, {"}", "EOF"}) THEN s ELSE NextEnumerator(Enumerated(Phrase(<<"Name", "EnumInit">>, s)))
EnumBody(s) ==
  IF At(s, {"{"}) THEN Replaced(Eat(Method("Enumerators", Push(Skip(s), 0)), "}"), LAMBDA v : CInt(FALSE))
  ELSE Push(s, CInt(FALSE))
Enum(s) == EnumBody(TryEat(s, {"IDENT"}))

\* The pointer modifiers: each star with its qualifiers.
Stars(qualifiers, s) ==
  IF At(s, {"*"}) THEN Parse("AfterStar", qualifiers, Replaced(Skip(s), CPointer)) ELSE s
AfterStar(qualifiers, s) == Parse(IF At(s, qualifiers) THEN "AfterStar" ELSE "StarsOf", qualifiers, TryEat(s, qualifiers))
OptName(s) == IF At(s, {"IDENT"}) THEN EatValue(s, "IDENT") ELSE Push(s, NoName)

\* The dimensions of an array, and the type with them.
Dims(s) ==
  IF ~At(s, {"["}) THEN s
  ELSE Parse("MoreDims", None,
             Eat(IF Peeked(s).kind = "]" THEN Replaced(Skip(s), LAMBDA ds : Append(ds, OpenLength))
                 ELSE Made(Method("ConstExpr", Skip(s)), 2, LAMBDA a : Append(a[1], a[2])), "]"))
ArrayOf(t, dims) == FoldRight(LAMBDA n, elem : CArray(elem, n), dims, t)

\* _parse_type_and_name
FunctionPointer(ret, ps) ==
  CPointer(CFunction(ret, [k \in DOMAIN ps.params |-> ps.params[k].ctype], ps.variadic))
AtFunctionPointer(s) == At(s, {"("}) /\ Peeked(s).kind = "*"
FunctionDeclarator(name, s) ==
  Made(Phrase(<<"(", "*", name, ")", "Params">>, s), 3, LAMBDA a : [name |-> a[2], ctype |-> FunctionPointer(a[1], a[3])])
Declarator(s) ==
  IF AtFunctionPointer(s) THEN FunctionDeclarator("OptName", s)
  ELSE Made(Phrase(<<"OptName", "Dims">>, s), 3, LAMBDA a : [name |-> a[2], ctype |-> ArrayOf(a[1], a[3])])
TypeAndName(s) == Declarator(Phrase(<<"Base", "Stars">>, s))

\* _parse_params: a void is eaten whatever follows it
NextParam(s) == IF At(s, {","}) THEN Method("ParamList", Skip(s)) ELSE Eat(s, ")")
ParamList(s) ==
  CASE At(s, {"..."}) -> Eat(Replaced(Skip(s), LAMBDA ps : [ps EXCEPT !.variadic = TRUE]), ")")
    [] AtTypeStart(s) -> NextParam(Made(TypeAndName(s), 2, LAMBDA a :
         [a[1] EXCEPT !.params =
            Append(@, ParamDecl(IF a[2].name = NoName THEN <<"_p", Len(@)>> ELSE a[2].name, a[2].ctype))]))
    [] OTHER -> Eat(s, ")")
Params(s) == Method("ParamList", Push(TryEat(Eat(s, "("), {"void"}), [params |-> <<>>, variadic |-> FALSE]))

\* _parse_const_expr
Abs(n) == IF n < 0 THEN -n ELSE n
Truncated(v, r) == IF (v < 0) = (r < 0) THEN Abs(v) \div Abs(r) ELSE -(Abs(v) \div Abs(r))
Floored(v, r) == IF r > 0 THEN v % r ELSE -((-v) % (-r))
ConstResult(op, v, r) ==
  CASE op = "+" -> v + r [] op = "-" -> v - r [] op = "*" -> v * r
    [] op = "/" -> Truncated(v, r) [] op = "%" -> Floored(v, r)
ConstPrimary(s) ==
  CASE At(s, {"("}) -> Phrase(<<"(", "ConstExpr", ")">>, s)
    [] At(s, {"INT_LIT", "IDENT"}) -> EnumConst(s)
    [] OTHER -> Err(s)
ConstUnary(s) ==
  CASE At(s, {"-"}) -> Negated(ConstPrimary(Skip(s)))
    [] At(s, {"~"}) -> Replaced(ConstPrimary(Skip(s)), LAMBDA v : -v - 1)
    [] OTHER -> ConstPrimary(s)
-----------------------------------------------------------------------------
(* Expressions: _parse_or ... _parse_mul are one method, by level; and so    *)
(* are parse_add and parse_mul of _parse_const_expr, for the last two.       *)
Levels == <<{"||"}, {"&&"}, {"|"}, {"^"}, {"&"}, {"==", "!="}, {"<", ">", "<=", ">="}, {"<<", ">>"},
            {"+", "-"}, {"*", "/", "%"}>>
Additive == 9

Operand(method, level, s) ==
  IF level < Len(Levels) THEN Parse(method, level + 1, s)
  ELSE Method(IF method = "ConstBinary" THEN "ConstUnary" ELSE "Unary", s)
Level(level, s) == Parse("MoreBinary", level, Operand("Binary", level, s))
\* mutant: operators of a level are read from the right
MoreBinaryRight(level, s) ==
  IF At(s, Levels[level])
  THEN Made(Level(level, Push(Skip(s), Current(s).kind)), 3, LAMBDA a : Binary(a[2], a[1], a[3]))
  ELSE s
MoreBinary(level, s) ==
  IF At(s, Levels[level])
  THEN Parse("MoreBinary", level, Made(Operand("Binary", level, Push(Skip(s), Current(s).kind)), 3,
                                       LAMBDA a : Binary(a[2], a[1], a[3])))
  ELSE s
ConstLevel(level, s) == Parse("MoreConst", level, Operand("ConstBinary", level, s))
Computed(s) ==
  IF s.ok /\ s.out[Len(s.out) - 1] \in {"/", "%"} /\ Top(s) = 0 THEN Err(s)
  ELSE Made(s, 3, LAMBDA a : ConstResult(a[2], a[1], a[3]))
MoreConst(level, s) ==
  IF At(s, Levels[level])
  THEN Parse("MoreConst", level, Computed(Operand("ConstBinary", level, Push(Skip(s), Current(s).kind))))
  ELSE s

AssignOps == {"=", "+=", "-=", "*=", "/=", "%=", "&=", "|=", "^=", "<<=", ">>="}
AfterLeft(s) ==
  IF At(s, AssignOps)
  THEN Made(Method("Expr", Push(Skip(s), Current(s).kind)), 3, LAMBDA a : Assign(a[2], a[1], a[3]))
  ELSE s
AfterCond(s) ==
  IF At(s, {"?"}) THEN Made(Phrase(<<"?", "Expr", ":", "Expr">>, s), 3, LAMBDA a : Ternary(a[1], a[2], a[3])) ELSE s
\* _parse_expr, _parse_assign and _parse_ternary
ParseExpr(s) == AfterLeft(AfterCond(Parse("Binary", 1, s)))

ParenthesizedType(s) == At(s, {"("}) /\ StartsType(s, Peeked(s))
Prefix == {"-", "~", "!", "&", "*", "++", "--"}
ParseUnary(s) ==
  CASE At(s, Prefix) ->
         Made(Method("Unary", Push(Skip(s), Current(s).kind)), 2, LAMBDA a :
                Unary(CASE a[1] = "++" -> "++pre" [] a[1] = "--" -> "--pre" [] OTHER -> a[1], a[2]))
    [] At(s, {"sizeof"}) ->
         Replaced(Phrase(IF ParenthesizedType(Skip(s)) THEN <<"sizeof", "(", "Type", ")">>
                         ELSE <<"sizeof", "Unary">>, s), SizeOf)
    [] ParenthesizedType(s) ->
         Made(Phrase(<<"(", "Type", ")", "Unary">>, s), 2, LAMBDA a : Cast(a[1], a[2]))
    [] OTHER -> Method("Postfix", Method("Primary", s))

Argument(s) == Made(Method("Expr", s), 2, LAMBDA a : Append(a[1], a[2]))
Args(s) == IF At(s, {","}) THEN Method("Args", Argument(Skip(s))) ELSE Eat(s, ")")
CallArgs(s) == IF At(s, {")"}) THEN Skip(s) ELSE Method("Args", Argument(s))
PostfixOps == {"(", "[", ".", "->", "++", "--"}
OnePostfix(s) ==
  CASE At(s, {"("}) -> Made(CallArgs(Push(Skip(s), <<>>)), 2, LAMBDA a : CallExpr(a[1], a[2]))
    [] At(s, {"["}) -> Made(Phrase(<<"[", "Expr", "]">>, s), 2, LAMBDA a : Index(a[1], a[2]))
    [] At(s, {"."}) -> Made(Phrase(<<".", "Name">>, s), 2, LAMBDA a : Member(a[1], a[2], FALSE))
    [] At(s, {"->"}) -> Made(Phrase(<<"->", "Name">>, s), 2, LAMBDA a : Member(a[1], a[2], TRUE))
    [] At(s, {"++"}) -> Replaced(Skip(s), LAMBDA e : Unary("++post", e))
    [] At(s, {"--"}) -> Replaced(Skip(s), LAMBDA e : Unary("--post", e))
Postfix(s) == IF At(s, PostfixOps) THEN Method("Postfix", OnePostfix(s)) ELSE s

Primary(s) ==
  CASE At(s, {"INT_LIT"}) -> Replaced(EatValue(s, "INT_LIT"), IntLit)
    [] At(s, {"CHAR_LIT"}) -> Replaced(EatValue(s, "CHAR_LIT"), CharLit)
    [] At(s, {"IDENT"}) ->
         Replaced(EatValue(s, "IDENT"), LAMBDA x : IF x \in DOMAIN s.enums THEN IntLit(s.enums[x]) ELSE Ident(x))
    [] OTHER -> Phrase(<<"(", "Expr", ")">>, s)

InitElem(s) == Made(Method(IF At(s, {"{"}) THEN "InitList" ELSE "Expr", s), 2, LAMBDA a : Append(a[1], a[2]))
NextElem(s) == IF At(s, {","}) THEN Method("InitElems", Skip(s)) ELSE s
InitElems(s) == IF At(s, {"}", "EOF"}) THEN s ELSE NextElem(InitElem(s))
ParseInitList(s) == Replaced(Eat(Method("InitElems", Push(Eat(s, "{"), <<>>)), "}"), InitList)
-----------------------------------------------------------------------------
(* Declarations.  The declarators after the first get its type. *)
Initializer(s) ==
  IF At(s, {"="}) THEN Method(IF Peeked(s).kind = "{" THEN "InitList" ELSE "Expr", Skip(s)) ELSE Push(s, None)
Inferred(t, init) ==
  IF t.is = "CArray" /\ t.length = OpenLength /\ init.is = "InitList" THEN CArray(t.base, Len(init.elems)) ELSE t
Another(d, name, init) ==
  IF d.is = "VarDecl" THEN VarDecl(name, d.ctype, init, FALSE) ELSE [d EXCEPT !.name = name, !.init = init]
MoreDeclarators(s) ==
  IF At(s, {","})
  THEN Method("MoreDeclarators", Made(Phrase(<<",", "Name", "Init">>, s), 3,
                                     LAMBDA a : Append(a[1], Another(a[1][1], a[2], a[3]))))
  ELSE Eat(s, ";")

\* _parse_local_decl: a list of statements
Statements(ds) == [is |-> "Statements", stmts |-> ds]
Nameless(s) == s.ok /\ Top(s).name = NoName /\ IsRecord(Top(s).ctype)
LocalDeclarators(static, s) ==
  IF Nameless(s) THEN Err(s)
  ELSE Replaced(MoreDeclarators(Made(Initializer(s), 2, LAMBDA a :
                  <<[DeclStmt(a[1].name, Inferred(a[1].ctype, a[2]), a[2]) EXCEPT !.static = static]>>)),
                Statements)
LocalDecl(static, s) == LocalDeclarators(static, TypeAndName(s))

\* _parse_typedef
TypedefName(s) ==
  CASE AtFunctionPointer(s) -> FunctionDeclarator("Name", s)
    [] At(s, {"IDENT"}) -> Made(EatValue(s, "IDENT"), 2, LAMBDA a : [name |-> a[2], ctype |-> a[1]])
    [] OTHER -> Replaced(s, LAMBDA t : [name |-> NoName, ctype |-> t])
Aliased(s) ==
  IF s.ok /\ Top(s).name # NoName THEN [s EXCEPT !.typedefs = (Top(s).name :> Top(s).ctype) @@ @] ELSE s
Typedef(s) ==
  Eat(Replaced(Aliased(TypedefName(Parse("StarsOf", {"const"}, Base(Skip(s))))), LAMBDA d : <<>>), ";")

\* _parse_attribute and the storage classes, in their order.  What they say is a
\* record on the stack.
Attributed(s) ==
  IF At(s, {"IDENT"}) /\ Current(s).value = Attribute
  THEN Made(Phrase(<<"(", "(", "Name", ")", ")">>, Skip(s)), 2,
            LAMBDA a : [a[1] EXCEPT !.always = @ \/ a[2] = AlwaysInline])
  ELSE s
StorageOrder == <<"register", "inline", "static", "inline", "extern", "inline">>
StorageClass(s, place) ==
  LET word == StorageOrder[place]
  IN  IF At(s, {word}) /\ (word = "inline" => ~Top(s).inline)
      THEN Replaced(Skip(s), LAMBDA w : [w EXCEPT !.inline = @ \/ place \in {2, 4}, !.static = @ \/ place = 3])
      ELSE s
Storage(s) ==
  Attributed(FoldLeft(StorageClass,
                      Attributed(Push(s, [always |-> FALSE, inline |-> FALSE, static |-> FALSE, const |-> FALSE])),
                      [place \in DOMAIN StorageOrder |-> place]))

FunctionBody(s) == IF At(s, {";"}) THEN Push(Skip(s), None) ELSE Method("Block", s)
FunctionParsed(w, ret, name, ps, body) ==
  [FuncDecl(name, ret, ps.params, body) EXCEPT !.static = w.static, !.always = w.always \/ w.inline,
                                               !.variadic = ps.variadic]
\* The specifiers, the type and the name are on the stack.
TopDeclarator(s) ==
  IF At(s, {"("})
  THEN Made(FunctionBody(Params(s)), 5, LAMBDA a : <<FunctionParsed(a[1], a[2], a[3], a[4], a[5])>>)
  ELSE MoreDeclarators(Made(Initializer(Method("Dims", s)), 5, LAMBDA a :
         LET t == ArrayOf(a[2], a[4]) IN <<VarDecl(a[3], Inferred(t, a[5]), a[5], a[1].const)>>))
\* A struct, union or enum that is only defined.
OnlyType(s, aggregate) ==
  /\ At(s, {";"})
  /\ IsRecord(Top(s)) \/ (aggregate /\ s.tokens[s.pos - 1].kind = "}")
AfterBase(aggregate, s) ==
  IF OnlyType(s, aggregate) THEN Made(Skip(s), 2, LAMBDA a : <<>>)
  ELSE TopDeclarator(EatValue(Parse("StarsOf", {"const"}, s), "IDENT"))
AfterStorage(s) ==
  AfterBase(At(s, {"struct", "union", "enum"}), Base(Replaced(s, LAMBDA w : [w EXCEPT !.const = At(s, {"const"})])))

\* _parse_top_decl: a list of declarations
TopDecl(s) == IF At(s, {"typedef"}) THEN Typedef(s) ELSE AfterStorage(Storage(s))
TopDecls(s) ==
  IF At(s, {"EOF"}) THEN s ELSE Method("TopDecls", Made(TopDecl(s), 2, LAMBDA a : a[1] \o a[2]))

-----------------------------------------------------------------------------
(* Statements. *)
Extended(stmts, st) == IF st.is = "Statements" THEN stmts \o st.stmts ELSE Append(stmts, st)
StmtsUntil(ends, s) ==
  IF At(s, ends) THEN s
  ELSE Parse("StmtsUntil", ends, Made(Method("Stmt", s), 2, LAMBDA a : Extended(a[1], a[2])))
ParseBlock(s) ==
  Replaced(Eat(Parse("StmtsUntil", {"}", "EOF"}, Push(Eat(s, "{"), <<>>)), "}"), Block)

Else(s) == IF At(s, {"else"}) THEN Phrase(<<"else", "Stmt">>, s) ELSE Push(s, None)
If(s) == Made(Else(Phrase(<<"if", "(", "Expr", ")", "Stmt">>, s)), 3, LAMBDA a : IfStmt(a[1], a[2], a[3]))
While(s) == Made(Phrase(<<"while", "(", "Expr", ")", "Stmt">>, s), 2, LAMBDA a : WhileStmt(a[1], a[2]))
DoWhile(s) ==
  Made(Phrase(<<"do", "Stmt", "while", "(", "Expr", ")", ";">>, s), 2, LAMBDA a : DoWhileStmt(a[1], a[2]))
\* The expression up to the token after it, or none.
OptExpr(s, end) == Eat(IF At(s, {end}) THEN Push(s, None) ELSE Method("Expr", s), end)

ForInit(s) ==
  CASE At(s, {";"}) -> Push(Skip(s), None)
    [] AtTypeStart(s) -> Replaced(LocalDecl(FALSE, s), LAMBDA ds : IF Len(ds.stmts) = 1 THEN ds.stmts[1] ELSE Block(ds.stmts))
    [] OTHER -> Replaced(Phrase(<<"Expr", ";">>, s), ExprStmt)
For(s) ==
  Made(Method("Stmt", OptExpr(OptExpr(ForInit(Phrase(<<"for", "(">>, s)), ";"), ")")), 4,
       LAMBDA a : ForStmt(a[1], a[2], a[3], a[4]))

CaseValue(s) == IF At(s, {"case"}) THEN Phrase(<<"case", "Expr", ":">>, s) ELSE Phrase(<<"default", ":">>, Push(s, None))
Clause(s) ==
  Made(Parse("StmtsUntil", {"case", "default", "}", "EOF"}, Push(CaseValue(s), <<>>)), 3,
       LAMBDA a : Append(a[1], CaseClause(a[2], a[3])))
Clauses(s) == IF At(s, {"}", "EOF"}) THEN Eat(s, "}") ELSE Method("Clauses", Clause(s))
Switch(s) ==
  Made(Clauses(Push(Phrase(<<"switch", "(", "Expr", ")", "{">>, s), <<>>)), 2, LAMBDA a : SwitchStmt(a[1], a[2]))

LocalOrExpr(hinted, s) ==
  IF At(s, {"static"}) \/ hinted \/ AtTypeStart(s)
  THEN LocalDecl(At(s, {"static"}), TryEat(s, {"static"}))
  ELSE Replaced(Phrase(<<"Expr", ";">>, s), ExprStmt)

ParseStmt(s) ==
  CASE At(s, {"{"}) -> Method("Block", s)
    [] At(s, {"if"}) -> If(s)
    [] At(s, {"while"}) -> While(s)
    [] At(s, {"do"}) -> DoWhile(s)
    [] At(s, {"for"}) -> For(s)
    [] At(s, {"switch"}) -> Switch(s)
    [] At(s, {"return"}) -> Replaced(OptExpr(Skip(s), ";"), ReturnStmt)
    [] At(s, {"break"}) -> Push(Phrase(<<"break", ";">>, s), BreakStmt)
    [] At(s, {"continue"}) -> Push(Phrase(<<"continue", ";">>, s), ContinueStmt)
    [] At(s, {"goto"}) -> Replaced(Phrase(<<"goto", "Name", ";">>, s), GotoStmt)
    [] At(s, {"IDENT"}) /\ Peeked(s).kind = ":" ->
         Made(Phrase(<<"Name", ":", "Stmt">>, s), 2, LAMBDA a : LabelStmt(a[1], a[2]))
    [] OTHER -> LocalOrExpr(At(s, {"register"}), TryEat(TryEat(s, {"register"}), {"inline"}))

-----------------------------------------------------------------------------
Parse(method, x, s) ==
  CASE ~s.ok -> s
    [] method = "phrase" -> Symbols(x, s)
    [] method = "Binary" -> Level(x, s)
    [] method = "MoreBinary" -> MoreBinary(x, s)
    [] method = "Expr" -> ParseExpr(s)
    [] method = "Unary" -> ParseUnary(s)
    [] method = "Primary" -> Primary(s)
    [] method = "Postfix" -> Postfix(s)
    [] method = "Args" -> Args(s)
    [] method = "Stmt" -> ParseStmt(s)
    [] method = "StmtsUntil" -> StmtsUntil(x, s)
    [] method = "Block" -> ParseBlock(s)
    [] method = "Clauses" -> Clauses(s)
    [] method = "MoreDeclarators" -> MoreDeclarators(s)
    [] method = "Init" -> Initializer(s)
    [] method = "InitList" -> ParseInitList(s)
    [] method = "InitElems" -> InitElems(s)
    [] method = "TopDecls" -> TopDecls(s)
    [] method = "Base" -> Base(s)
    [] method = "BaseWords" -> BaseWords(x, s)
    [] method = "Type" -> Phrase(<<"Base", "Stars">>, s)
    [] method = "Stars" -> Stars(Qualifiers, s)
    [] method = "StarsOf" -> Stars(x, s)
    [] method = "AfterStar" -> AfterStar(x, s)
    [] method = "OptName" -> OptName(s)
    [] method = "Dims" -> Dims(Push(s, <<>>))
    [] method = "MoreDims" -> Dims(s)
    [] method = "TypeAndName" -> TypeAndName(s)
    [] method = "Params" -> Params(s)
    [] method = "ParamList" -> ParamList(s)
    [] method = "Record" -> Record(x, s)
    [] method = "Fields" -> Fields(x, s)
    [] method = "Enum" -> Enum(s)
    [] method = "EnumInit" -> EnumInit(s)
    [] method = "Enumerators" -> Enumerators(s)
    [] method = "ConstExpr" -> ConstLevel(Additive, s)
    [] method = "ConstBinary" -> ConstLevel(x, s)
    [] method = "MoreConst" -> MoreConst(x, s)
    [] method = "ConstUnary" -> ConstUnary(s)

\* parse: the declarations of the program, on the stack, unless there is an error
Parsed(tokens) == Method("TopDecls", Push(Parsing(tokens), <<>>))
=============================================================================
