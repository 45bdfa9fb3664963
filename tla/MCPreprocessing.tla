----------------------------- MODULE MCPreprocessing -----------------------------
(* File systems for Preprocessing, in families: a world is the name of a family
   and what the files are made from. *)
EXTENDS Preprocessing

MCTop == <<"A", "top">>
MCIncludeDirs == <<"B">>
MCInitial == [x \in {"__STDC__"} |-> ObjectMacro(<<"1">>)]
MCNames == {"a", "b", "f", "g", "x", "y", "ab", "bb", "fa", VariadicName}
MCDigits == [d \in {"0", "1", "2", "3", "5", "7"} |->
               CASE d = "0" -> 0 [] d = "1" -> 1 [] d = "2" -> 2 [] d = "3" -> 3 [] d = "5" -> 5 [] d = "7" -> 7]

MCQuoted == [t \in {"'none'", "'a'", "'b'", "'top'"} |->
               CASE t = "'none'" -> "none" [] t = "'a'" -> "a" [] t = "'b'" -> "b" [] t = "'top'" -> "top"]

Nothing == Num("0")
LineOf(is, arg, val) == [is |-> is, arg |-> arg, val |-> val]
Simple(is) == LineOf(is, "", Nothing)
TextLine(toks) == LineOf("text", toks, Nothing)
Object(x, body) == LineOf("define", x, ObjectMacro(body))
Function(x, params, variadic, body) == LineOf("define", x, FunctionMacro(params, variadic, body))
Condition1(is, e) == LineOf(is, Written(e, 0), e)
Alone(lines) == [file \in {MCTop} |-> lines]

\* The lines that the families of conditionals and includes are made from.
LineNamed(c) ==
  CASE c = "text"      -> TextLine(<<"x">>)
    [] c = "if1"       -> Condition1("if", Num("1"))
    [] c = "if0"       -> Condition1("if", Num("0"))
    [] c = "elif1"     -> Condition1("elif", Defined("x"))
    [] c = "elif0"     -> Condition1("elif", Num("0"))
    [] c = "ifdef"     -> LineOf("ifdef", "x", Nothing)
    [] c = "ifndef"    -> LineOf("ifndef", "x", Nothing)
    [] c = "guard"     -> LineOf("ifndef", "y", Nothing)
    [] c = "guarded"   -> Object("y", <<>>)
    [] c = "define"    -> Object("x", <<"1">>)
    [] c = "undef"     -> LineOf("undef", "x", Nothing)
    [] c \in {"line", "# line"} -> LineOf(c, <<<<"A", "y">>, 7>>, Nothing)
    [] c = "number"    -> LineOf("line", <<>>, Nothing)
    [] c = "<a>"       -> LineOf("include", <<"<", "a", ">">>, Nothing)
    [] c \in {"none", "a", "b", "top"} ->
         LineOf("include", <<CHOOSE t \in DOMAIN MCQuoted : MCQuoted[t] = c>>, Nothing)
    [] OTHER           -> Simple(c)
Lines(cs) == [i \in DOMAIN cs |-> LineNamed(cs[i])]

\* Any short sequence of lines, and groups within groups.
ShortLines == {"text", "if1", "if0", "elif1", "elif0", "else", "endif", "define"}
ShortWorlds == {"lines"} \X UNION {[1 .. n -> ShortLines] : n \in 1 .. 4}

Parts == {<<"text">>, <<"define">>} \cup {<<p, "text", q, "text", "endif">> : p \in {"if0", "ifdef", "ifndef"}, q \in {"else", "elif1"}}
NestedWorlds ==
  {<<"lines", <<p>> \o s \o <<q>> \o t \o rest \o <<"endif", "text">>>> :
     p \in {"if0", "if1"}, q \in {"elif0", "elif1", "else"}, s \in Parts, t \in Parts,
     rest \in {<<>>, <<"else", "text">>, <<"elif1", "text", "else", "define">>}}

\* Lines that are obeyed where they are selected only, and #line.
Other == {"warning", "pragma", "wrong", "undef", "line", "# line", "number", "none", "define"}
OtherWorlds == {<<"lines", <<"define", p, q, "endif", "ifdef", r, "text", "endif", "text">>>> : p \in {"if0", "if1"}, q \in Other, r \in Other}

\* Files that include each other, with and without guards.
Includes == {"a", "<a>", "b", "top", "text"}
IncludeWorlds == {"include"} \X BOOLEAN \X Includes \X Includes \X Includes \X Includes
Including(guarded, k, l, m, n) ==
  [file \in {MCTop, <<"A", "a">>, <<"B", "a">>, <<"B", "b">>} |->
     Lines(CASE file = MCTop -> <<m, "text", n>>
             [] file = <<"A", "a">> -> IF guarded THEN <<"guard", "guarded", k, "endif", "text">> ELSE <<k, "text">>
             [] file = <<"B", "a">> -> <<k, l>>
             [] file = <<"B", "b">> -> <<"text", l>>)]
BrokenWorlds == {"broken"} \X {"endif", "text"} \X {"endif", "else", "if1", "text"}
Broken(k, l) == [file \in {MCTop, <<"A", "a">>} |-> Lines(IF file = MCTop THEN <<"if1", "a", k, "text">> ELSE <<l, "text">>)]

\* Files that are named by macros, or not as they should be.
Operands == <<<<"x">>, <<"<", "x", ">">>, <<"x", "y">>, <<"f", "(", "x", ")">>>>
Headers == <<<<"'a'">>, <<"a">>, <<"<", "a", ">">>, <<"<", "y", ">">>, <<"<", "a">>, <<>>>>
HeaderWorlds == {"header"} \X (DOMAIN Operands) \X (DOMAIN Headers) \X BOOLEAN
WithHeader(k, n, given) ==
  [file \in {MCTop, <<"A", "a">>, <<"B", "a">>} |->
     IF file # MCTop THEN Lines(IF file[1] = "A" THEN <<"text">> ELSE <<"text", "undef">>)
     ELSE <<Object("y", <<"a">>), Function("f", <<"a">>, FALSE, <<"a">>)>>
            \o (IF given THEN <<Object("x", Headers[n])>> ELSE <<>>)
            \o <<LineOf("include", Operands[k], Nothing), LineNamed("text")>>]

-----------------------------------------------------------------------------
\* Macros: an object, and functions of one and of two arguments.
Call1(h, arg) == <<h, "(">> \o arg \o <<")">>
Call2(h, s, t) == <<h, "(">> \o s \o <<",">> \o t \o <<")">>

ObjectBodies == <<<<>>, <<"1">>, <<"b">>, <<"a", "+", "1">>, Call1("f", <<"a">>), Call2("g", <<"b">>, <<"1">>), <<"f">>>>
FunctionBodies == <<<<"x">>, <<"x", "x">>, <<"a", "x">>, Call1("f", <<"x">>), Call2("g", <<"x">>, <<"b">>),
                    <<"x", "##", "b">>, <<"#", "x">>, <<"x", "+", "f">>>>
PairBodies == <<<<"x", "##", "y">>, <<"x", "y", "##", "b">>, Call1("f", <<"y">>) \o <<"x">>,
                Call1("x", <<"y">>), <<"a", "##", "x", "y">>, <<"#", "x", "#", "y">>, <<"f", "##", "x", "(", "y", ")">>>>
Uses == <<<<"a">>, Call1("f", <<"a">>), Call1("f", <<"b">>), <<"f", "a">>, Call1("f", Call1("f", <<"a">>)),
          Call2("g", <<"a">>, <<"b">>), Call2("g", <<"b">>, <<"a">>), Call2("g", <<"f">>, <<"a">>),
          Call2("g", <<>>, <<"a">>), Call1("f", Call2("g", <<"a">>, <<"1">>)), Call2("g", Call1("f", <<"b">>), <<"b">>),
          Call1("f", <<"(", "a", ",", "b", ")">>), Call1("a", <<"a">>), <<"f", "(", "a">>>>
MacroWorlds == {"macros"} \X (DOMAIN ObjectBodies) \X (DOMAIN FunctionBodies) \X (DOMAIN PairBodies) \X (DOMAIN Uses)
WithMacros(i, j, k, n) ==
  <<Object("a", ObjectBodies[i]), Function("f", <<"x">>, FALSE, FunctionBodies[j]),
    Function("g", <<"x", "y">>, FALSE, PairBodies[k]), Object("bb", <<"ab">>), TextLine(Uses[n])>>

VariadicBodies == <<<<"x", VariadicName>>, Call2("g", <<"x">>, <<VariadicName>>), <<"#", VariadicName>>,
                    <<"x", "##", VariadicName>>, Call1("f", <<VariadicName>>)>>
VariadicUses == <<<<"a">>, <<"a", ",", "1">>, <<"a", ",", "a", ",", "b">>, <<"a", ",">>, <<"1", ",", "a", ",", "1">>,
                  <<"a", ",", ",", "b">>, <<"a", ",", ",">>, <<"a", ",", "1", ",">>>>
VariadicWorlds == {"variadic"} \X (DOMAIN VariadicBodies) \X (DOMAIN VariadicUses)
WithVariadic(j, n) ==
  <<Object("a", <<"b">>), Object("ab", <<"a">>), Function("g", <<"x">>, TRUE, <<VariadicName, "+", "x">>),
    Function("f", <<"x">>, TRUE, VariadicBodies[j]), TextLine(Call1("f", VariadicUses[n]))>>

-----------------------------------------------------------------------------
\* Expressions: any two operators, on small numbers.
BinaryOps == UNION Range(Levels)
Triples == <<<<Num("7"), Num("3"), Num("2")>>, <<Num("0"), Num("5"), Num("1")>>, <<Num("2"), Num("2"), Num("0")>>,
             <<UnaryOf("-", Num("7")), Name("a"), UnaryOf("!", Num("5"))>>>>
Forms == {"left", "right", "choice", "minus", "plus", "complement", "not", "defined"}
Expression(form, o, p, t) ==
  CASE form = "left"       -> BinaryOf(p, BinaryOf(o, t[1], t[2]), t[3])
    [] form = "right"      -> BinaryOf(p, t[1], BinaryOf(o, t[2], t[3]))
    [] form = "choice"     -> Choice(Choice(t[1], t[2], t[3]), BinaryOf(o, t[2], t[3]), Choice(t[3], BinaryOf(p, t[1], t[2]), t[2]))
    [] form = "minus"      -> BinaryOf(o, UnaryOf("-", t[1]), BinaryOf(p, UnaryOf("-", t[2]), t[3]))
    [] form = "plus"       -> UnaryOf("+", BinaryOf(o, Choice(t[3], t[1], t[2]), UnaryOf("+", t[3])))
    [] form = "complement" -> BinaryOf(o, UnaryOf("~", t[1]), t[2])
    [] form = "not"        -> BinaryOf(o, UnaryOf("!", t[1]), BinaryOf(p, UnaryOf("!", t[3]), t[2]))
    [] form = "defined"    -> BinaryOf(o, Defined("a"), UnaryOf("!", BinaryOf(p, Defined("x"), t[1])))
ExpressionWorlds == {"expression"} \X Forms \X BinaryOps \X BinaryOps \X (DOMAIN Triples)
WithExpression(form, o, p, n) ==
  LET e == Expression(form, o, p, Triples[n])
  IN  <<Object("a", <<"b">>), Object("b", <<"2">>), Condition1("if", e), LineNamed("text"),
        Condition1("elif", UnaryOf("!", e)), LineNamed("text"), LineNamed("endif")>>

\* What has no value in C: the last one is written 1 << -1.
NoValue == BinaryOf("<<", Num("1"), UnaryOf("-", Num("1")))
Malformed1 == <<<<>>, <<"1", "?", "2">>, <<"0", "?", ")", "2">>, Written(NoValue, 0)>>
MalformedWorlds == {"malformed"} \X {"if0", "if1"} \X {"if", "elif"} \X (DOMAIN Malformed1)
WithMalformed(c, is, n) ==
  <<LineNamed(c), LineOf(is, Malformed1[n], NoValue), LineNamed("text"), LineNamed("else"), LineNamed("endif"), LineNamed("endif")>>

MCWorlds == ShortWorlds \cup NestedWorlds \cup OtherWorlds \cup IncludeWorlds \cup BrokenWorlds
              \cup HeaderWorlds \cup MacroWorlds \cup VariadicWorlds \cup ExpressionWorlds \cup MalformedWorlds

MCLoaded(w) ==
  CASE w[1] = "lines"      -> Alone(Lines(w[2]))
    [] w[1] = "include"    -> Including(w[2], w[3], w[4], w[5], w[6])
    [] w[1] = "broken"     -> Broken(w[2], w[3])
    [] w[1] = "header"     -> WithHeader(w[2], w[3], w[4])
    [] w[1] = "macros"     -> Alone(WithMacros(w[2], w[3], w[4], w[5]))
    [] w[1] = "variadic"   -> Alone(WithVariadic(w[2], w[3]))
    [] w[1] = "expression" -> Alone(WithExpression(w[2], w[3], w[4], w[5]))
    [] w[1] = "malformed"  -> Alone(WithMalformed(w[2], w[3], w[4]))
=============================================================================
