--------------------------------- MODULE Macros ---------------------------------
(***************************************************************************)
(* compiler/preprocessor.py: what macros and #if expressions are.           *)
(*                                                                          *)
(* A line is a sequence of tokens, which are strings.  Every token is set   *)
(* off by white space, and a number is one digit, so that turning tokens    *)
(* into text and text into tokens, which the code does at every step,       *)
(* changes nothing, unless ## has made something that is not one token.     *)
(*                                                                          *)
(* An expansion is [toks, notes, hidden].  notes is a history, of what        *)
(* happened that the code does not do the way C does (see                   *)
(* StandardExpansion), and so is hidden: the macros that were left as they   *)
(* are within their own expansion.                                          *)
(***************************************************************************)
EXTENDS Integers, SequencesExt

CONSTANTS
  Names,      \* the tokens that are identifiers
  Digits,     \* the tokens that are numbers: a function to their values
  Quoted,     \* the tokens that are strings in quotes: a function to what they quote
  WordWidth   \* every number a condition works with is less than 2^WordWidth in size

ASSUME MacrosAssumption == WordWidth \in Nat /\ \A d \in DOMAIN Digits : Digits[d] \in Nat

\* F of v, which is computed once.
Of(v, F(_)) == CHOOSE r \in {F(w) : w \in {v}} : TRUE

VariadicName == "__VA_ARGS__"

\* _Macro: params of a function-like macro, body
ObjectMacro(body) == [fn |-> FALSE, variadic |-> FALSE, params |-> <<>>, body |-> body]
FunctionMacro(params, variadic, body) ==
  [fn |-> TRUE, variadic |-> variadic, params |-> params, body |-> body]

Bindable(m) == Range(m.params) \cup IF m.variadic THEN {VariadicName} ELSE {}

\* The parameter that argument k is for.
ParamOf(m, k) == IF k <= Len(m.params) THEN m.params[k] ELSE VariadicName

\* The arguments of __VA_ARGS__, empty ones too, with commas between them.
Joined(seqs, by) ==
  IF seqs = <<>> THEN <<>> ELSE FoldLeft(LAMBDA s, t : s \o by \o t, Head(seqs), Tail(seqs))

\* A string literal with the spelling of toks.
Spelled(toks) == FoldLeft(LAMBDA s, t : s \o t \o " ", "' ", toks)

-----------------------------------------------------------------------------
(* The parts of a call of a function-like macro. *)

\* toks starts after "(": the arguments, and how many tokens they and the ")"
\* are.  Without a ")", the last argument is lost, with the rest of the line.
CollectArgs(toks) ==
  LET opening(n) == Cardinality({i \in 1 .. n : toks[i] = "("})
      closing(n) == Cardinality({i \in 1 .. n : toks[i] = ")"})
      depth(n) == opening(n - 1) - closing(n - 1)
      ends == {n \in DOMAIN toks : toks[n] = ")" /\ depth(n) = 0}
      end == IF ends = {} THEN Len(toks) + 1 ELSE CHOOSE n \in ends : \A k \in ends : n <= k
      commas == {n \in 1 .. end - 1 : toks[n] = "," /\ depth(n) = 0}
      bounds == <<0>> \o SetToSortSeq(commas, <) \o <<end>>
      pieces == [k \in 1 .. Len(bounds) - 1 |-> SubSeq(toks, bounds[k] + 1, bounds[k + 1] - 1)]
  IN  [args |-> IF ends = {} THEN Front(pieces) ELSE pieces,
       size |-> IF ends = {} THEN Len(toks) ELSE end,
       closed |-> ends # {}]

\* mutant: every argument is expanded before it is bound
PasteParamsNone(m) == {}

\* The parameters next to ## in the body.
PasteParams(m) ==
  {p \in Bindable(m) : \E i \in DOMAIN m.body :
     m.body[i] = p /\ (\/ i > 1 /\ m.body[i - 1] = "##"
                       \/ i < Len(m.body) /\ m.body[i + 1] = "##")}

\* The body with the arguments in place of the parameters: # makes a string of
\* the identifier after it.
BindArgs(m, args) ==
  LET bound(p) == IF p = VariadicName /\ m.variadic
                  THEN Joined(SubSeq(args, Len(m.params) + 1, Len(args)), <<",">>)
                  ELSE LET k == CHOOSE k \in DOMAIN m.params : m.params[k] = p
                       IN  IF k <= Len(args) THEN args[k] ELSE <<>>
      value(v) == IF v \in Bindable(m) THEN bound(v) ELSE <<v>>
      hash(i) == m.body[i] = "#" /\ i < Len(m.body) /\ m.body[i + 1] \in Names
      piece(i) == IF hash(i) THEN <<Spelled(value(m.body[i + 1]))>>
                  ELSE IF i > 1 /\ hash(i - 1) THEN <<>>
                  ELSE value(m.body[i])
  IN  FlattenSeq([i \in DOMAIN m.body |-> piece(i)])

\* The tokens on both sides of a ## become one.  A side may be missing.
RECURSIVE ApplyPaste(_, _)
ApplyPaste(before, toks) ==
  IF toks = <<>> THEN before
  ELSE IF Head(toks) # "##" THEN ApplyPaste(Append(before, Head(toks)), Tail(toks))
  ELSE IF before = <<>> \/ Len(toks) = 1 THEN ApplyPaste(before, Tail(toks))
  ELSE ApplyPaste(Append(Front(before), Last(before) \o toks[2]), SubSeq(toks, 3, Len(toks)))

-----------------------------------------------------------------------------
(* _expand_tokens: hiding is the set of the macros whose expansions toks is in.
   Every expansion is complete before the tokens after it are looked at. *)

Plain(toks) == [toks |-> toks, notes |-> {}, hidden |-> {}]
Hidden(name) == [toks |-> <<name>>, notes |-> {}, hidden |-> {name}]
Then(r, s) == [toks |-> r.toks \o s.toks, notes |-> r.notes \cup s.notes, hidden |-> r.hidden \cup s.hidden]
Noting(r, notes) == [r EXCEPT !.notes = @ \cup notes]
NoteIf(p, note) == IF p THEN {note} ELSE {}

\* Where a note is due: a macro name at the end of an expansion e that takes its
\* arguments from the tokens after it; an argument with a macro that was left as it
\* is, and is not when the argument is scanned again; arguments of # and ## that are
\* not what C uses.
RestNotes(e, rest, macros, hiding) ==
  NoteIf(/\ e.toks # <<>> /\ rest # <<>> /\ Head(rest) = "("
     /\ Last(e.toks) \in DOMAIN macros \ hiding /\ macros[Last(e.toks)].fn, "rest")
Missing(m, raw, i) ==
  LET mine == {k \in DOMAIN raw : ParamOf(m, k) = m.body[i]}
  IN  m.body[i] \in Bindable(m) /\ (mine = {} \/ \E k \in mine : mine = {k} /\ raw[k] = <<>>)
ArgumentNotes(m, raw, firsts, hiding) ==
  NoteIf(\E k \in DOMAIN firsts : ~(firsts[k].hidden \subseteq hiding), "painted")
  \cup NoteIf(\E k \in DOMAIN raw, i \in DOMAIN m.body :
            /\ m.body[i] = "#" /\ i < Len(m.body) /\ m.body[i + 1] = ParamOf(m, k)
            /\ firsts[k].toks # raw[k], "spelled")
  \cup NoteIf(\E i \in DOMAIN m.body : /\ m.body[i] = "##"
                                     /\ \/ i > 2 /\ Missing(m, raw, i - 1)
                                        \/ i < Len(m.body) - 1 /\ Missing(m, raw, i + 1), "empty")
  \cup NoteIf(Len(raw) < Len(m.params) \/ (Len(raw) > Len(m.params) /\ ~m.variadic), "count")

RECURSIVE ExpandTokens(_, _, _)

\* A call: the arguments are expanded, but for those next to ##, and bound; the
\* result is expanded again, without the macro itself.
ExpandCall(m, name, raw, macros, hiding) ==
  LET first(k) == IF ParamOf(m, k) \in PasteParams(m) THEN Plain(raw[k])
                  ELSE ExpandTokens(raw[k], macros, hiding)
      bound(firsts) == ApplyPaste(<<>>, BindArgs(m, [k \in DOMAIN raw |-> firsts[k].toks]))
      notes(firsts) == (UNION {firsts[k].notes : k \in DOMAIN raw}) \cup ArgumentNotes(m, raw, firsts, hiding)
      again(firsts) == Of(bound(firsts), LAMBDA body : ExpandTokens(body, macros, hiding \cup {name}))
  IN  Of([k \in DOMAIN raw |-> first(k)], LAMBDA firsts : Noting(again(firsts), notes(firsts)))

\* An expansion, and the tokens after it.
Expanding(e, rest) == [e |-> e, rest |-> rest]

ExpandTokens(toks, macros, hiding) ==
  LET name == Head(toks)
      m == macros[name]
      uncalled == Len(toks) = 1 \/ toks[2] # "("
      called(call) == Expanding(Noting(ExpandCall(m, name, call.args, macros, hiding), NoteIf(~call.closed, "open")),
                                SubSeq(toks, 3 + call.size, Len(toks)))
      first == IF name \notin DOMAIN macros THEN Expanding(Plain(<<name>>), Tail(toks))
               ELSE IF name \in hiding THEN Expanding(Hidden(name), Tail(toks))
               ELSE IF ~m.fn THEN Expanding(ExpandTokens(m.body, macros, hiding \cup {name}), Tail(toks))
               ELSE IF uncalled THEN Expanding(Plain(<<name>>), Tail(toks))
               ELSE Of(CollectArgs(SubSeq(toks, 3, Len(toks))), called)
      all(s) == Noting(Then(s.e, ExpandTokens(s.rest, macros, hiding)), RestNotes(s.e, s.rest, macros, hiding))
  IN  IF toks = <<>> THEN Plain(<<>>) ELSE Of(first, all)

Expansion(toks, macros) == ExpandTokens(toks, macros, {})

-----------------------------------------------------------------------------
(* Expansion as C defines it: every token has the set of the macros that it may
   not be replaced by, and the tokens of an expansion are scanned again together
   with those that follow it. *)

Marked(toks, hide) == [i \in DOMAIN toks |-> <<toks[i], hide>>]
Bare(marked) == [i \in DOMAIN marked |-> marked[i][1]]

RECURSIVE Standard(_, _)

\* The body of m for these arguments, marked.  An argument of # or ## is used as
\* it is, a missing one of ## as an empty token, and every other one is expanded.
StandardBody(m, raw, macros, hide) ==
  LET n == Len(m.params)
      value(p) ==
        IF p = VariadicName THEN Joined(SubSeq(raw, n + 1, Len(raw)), <<<<",", hide>>>>)
        ELSE raw[CHOOSE k \in DOMAIN m.params : m.params[k] = p]
      at(i) == IF i \in DOMAIN m.body THEN m.body[i] ELSE ""
      piece(i) ==
        IF at(i) = "#" /\ at(i + 1) \in Bindable(m)
        THEN <<<<Spelled(Bare(value(at(i + 1)))), {}>>>>
        ELSE IF at(i - 1) = "#" /\ at(i) \in Bindable(m) THEN <<>>
        ELSE IF at(i) \notin Bindable(m) THEN <<<<at(i), {}>>>>
        ELSE IF "##" \in {at(i - 1), at(i + 1)}
        THEN IF value(at(i)) = <<>> THEN <<<<"", {}>>>> ELSE value(at(i))
        ELSE Standard(value(at(i)), macros)
      flat == FlattenSeq([i \in DOMAIN m.body |-> piece(i)])
      glue(s, t) == IF s # <<>> /\ Last(s)[1] = "##" /\ Len(s) > 1
                    THEN Append(SubSeq(s, 1, Len(s) - 2),
                                <<s[Len(s) - 1][1] \o t[1], s[Len(s) - 1][2] \cap t[2]>>)
                    ELSE Append(s, t)
      pasted == SelectSeq(FoldLeft(glue, <<>>, flat), LAMBDA t : t[1] # "")
  IN  [i \in DOMAIN pasted |-> <<pasted[i][1], pasted[i][2] \cup hide>>]

Standard(s, macros) ==
  IF s = <<>> THEN <<>>
  ELSE LET name == s[1][1]
           hide == s[1][2]
       IN  IF name \notin DOMAIN macros \/ name \in hide
              \/ (macros[name].fn /\ (Len(s) = 1 \/ s[2][1] # "("))
           THEN <<s[1]>> \o Standard(Tail(s), macros)
           ELSE IF ~macros[name].fn
           THEN Standard(StandardBody(macros[name], <<>>, macros, hide \cup {name}) \o Tail(s), macros)
           ELSE LET inside == SubSeq(s, 3, Len(s))
                    call == CollectArgs(Bare(inside))
                    lengths == [k \in DOMAIN call.args |-> Len(call.args[k]) + 1]
                    from(k) == FoldLeft(+, 0, SubSeq(lengths, 1, k - 1))
                    args == [k \in DOMAIN call.args |->
                               SubSeq(inside, from(k) + 1, from(k) + lengths[k] - 1)]
                    last == inside[call.size][2]
                IN  Standard(StandardBody(macros[name], args, macros, (hide \cap last) \cup {name})
                               \o SubSeq(inside, call.size + 1, Len(inside)), macros)

StandardExpansion(toks, macros) == Bare(Standard(Marked(toks, {}), macros))

-----------------------------------------------------------------------------
(* The expression of #if and #elif: _eval_if.  A result is [v, at, ok]: the value,
   the place of the next token, and whether nothing has been raised. *)

\* defined(X) and defined X, before macros are expanded
RECURSIVE ExpandDefined(_, _)
ExpandDefined(toks, macros) ==
  LET is(i) == i \in DOMAIN toks /\ toks[i] \in Names
      paren == Len(toks) >= 4 /\ toks[2] = "(" /\ is(3) /\ toks[4] = ")"
      answer(x, rest) == <<IF x \in DOMAIN macros THEN "1" ELSE "0">> \o ExpandDefined(rest, macros)
  IN  IF toks = <<>> THEN <<>>
      ELSE IF Head(toks) = "defined" /\ paren THEN answer(toks[3], SubSeq(toks, 5, Len(toks)))
      ELSE IF Head(toks) = "defined" /\ is(2) THEN answer(toks[2], SubSeq(toks, 3, Len(toks)))
      ELSE <<Head(toks)>> \o ExpandDefined(Tail(toks), macros)

\* The operators, the loosest first: one function of the code each.
Levels == <<{"||"}, {"&&"}, {"|"}, {"^"}, {"&"}, {"==", "!="}, {"<=", ">=", "<", ">"},
            {"<<", ">>"}, {"+", "-"}, {"*", "/", "%"}>>

Truth(p) == IF p THEN 1 ELSE 0
Bit(a, n) == (a \div 2^n) % 2

\* A bitwise operation on two's complements: the bit on top is the sign.
Bits(F(_, _), a, b) ==
  LET bit(n) == F(Bit(a, n), Bit(b, n))
  IN  FoldLeft(+, 0, [n \in 1 .. WordWidth |-> bit(n - 1) * 2^(n - 1)]) - bit(WordWidth) * 2^WordWidth

AbsOf(a) == IF a < 0 THEN -a ELSE a
Quotient(a, b) == (AbsOf(a) \div AbsOf(b)) * (IF (a < 0) = (b < 0) THEN 1 ELSE -1)

\* What operators have in common in Python and in C.
Arithmetic(op, a, b) ==
  CASE op = "|"  -> Bits(LAMBDA x, y : Truth(x + y > 0), a, b)
    [] op = "^"  -> Bits(LAMBDA x, y : Truth(x # y), a, b)
    [] op = "&"  -> Bits(LAMBDA x, y : x * y, a, b)
    [] op = "==" -> Truth(a = b)
    [] op = "!=" -> Truth(a # b)
    [] op = "<"  -> Truth(a < b)
    [] op = ">"  -> Truth(a > b)
    [] op = "<=" -> Truth(a <= b)
    [] op = ">=" -> Truth(a >= b)
    [] op = "+"  -> a + b
    [] op = "-"  -> a - b
    [] op = "*"  -> a * b
    [] op = "<<" -> a * 2^b
    [] op = ">>" -> a \div 2^b

\* mutant: division rounds down
ApplyFloor(op, a, b) ==
  CASE op = "||" -> Truth(a # 0 \/ b # 0)
    [] op = "&&" -> Truth(a # 0 /\ b # 0)
    [] op = "/"  -> IF b = 0 THEN 0 ELSE IF b < 0 THEN (-a) \div (-b) ELSE a \div b
    [] op = "%"  -> IF b = 0 THEN 0 ELSE IF b < 0 THEN -((-a) % (-b)) ELSE a % b
    [] OTHER     -> Arithmetic(op, a, b)

\* Division by zero gives 0; a remainder has the sign of the divisor.
Apply(op, a, b) ==
  CASE op = "||" -> Truth(a # 0 \/ b # 0)
    [] op = "&&" -> Truth(a # 0 /\ b # 0)
    [] op = "/"  -> IF b = 0 THEN 0 ELSE Quotient(a, b)
    [] op = "%"  -> IF b = 0 THEN 0 ELSE IF b < 0 THEN -((-a) % (-b)) ELSE a % b
    [] OTHER     -> Arithmetic(op, a, b)

RECURSIVE ParseTernary(_, _), ParseLevel(_, _, _), ParseRest(_, _, _), ParseUnary(_, _)

Result(v, at, ok) == [v |-> v, at |-> at, ok |-> ok]
Is(toks, i, v) == i \in DOMAIN toks /\ toks[i] = v

\* A token that is no operand counts as 0, and so does a missing one.
ParsePrimary(toks, i) ==
  IF Is(toks, i, "(")
  THEN LET inner == ParseTernary(toks, i + 1)
       IN  [inner EXCEPT !.at = IF Is(toks, @, ")") THEN @ + 1 ELSE @]
  ELSE IF i \notin DOMAIN toks THEN Result(0, i, TRUE)
  ELSE Result(IF toks[i] \in DOMAIN Digits THEN Digits[toks[i]] ELSE 0, i + 1, TRUE)

ApplyUnary(op, a) ==
  CASE op = "-" -> -a  [] op = "+" -> a  [] op = "~" -> -a - 1  [] op = "!" -> Truth(a = 0)

ParseUnary(toks, i) ==
  IF i \in DOMAIN toks /\ toks[i] \in {"-", "+", "~", "!"}
  THEN LET operand == ParseUnary(toks, i + 1) IN [operand EXCEPT !.v = ApplyUnary(toks[i], @)]
  ELSE ParsePrimary(toks, i)

\* The operators of level k group from the left.  Both operands are evaluated.
ParseLevel(k, toks, i) ==
  IF k > Len(Levels) THEN ParseUnary(toks, i)
  ELSE Of(ParseLevel(k + 1, toks, i), LAMBDA left : ParseRest(k, toks, left))

ParseRest(k, toks, left) ==
  IF left.at \notin DOMAIN toks \/ toks[left.at] \notin Levels[k] THEN left
  ELSE LET op == toks[left.at]
           ok(right) == left.ok /\ right.ok /\ ~(op \in {"<<", ">>"} /\ right.v < 0)
           both(right) == Result(IF ok(right) THEN Apply(op, left.v, right.v) ELSE 0, right.at, ok(right))
       IN  Of(Of(ParseLevel(k + 1, toks, left.at + 1), both), LAMBDA all : ParseRest(k, toks, all))

ParseTernary(toks, i) ==
  LET pick(c, yes, no) == Result(IF c.v # 0 THEN yes.v ELSE no.v, no.at, c.ok /\ yes.ok /\ no.ok)
      else(c, yes) == IF Is(toks, yes.at, ":")
                      THEN Of(ParseTernary(toks, yes.at + 1), LAMBDA no : pick(c, yes, no))
                      ELSE Result(0, yes.at, FALSE)
      then(c) == IF Is(toks, c.at, "?")
                 THEN Of(ParseTernary(toks, c.at + 1), LAMBDA yes : else(c, yes))
                 ELSE c
  IN  Of(ParseLevel(1, toks, i), then)

EvalIf(toks, macros) ==
  LET expanded(ts) == Expansion(ts, macros).toks
  IN  Of(Of(ExpandDefined(toks, macros), expanded), LAMBDA ts : ParseTernary(ts, 1))

-----------------------------------------------------------------------------
(* Expressions as C has them: trees, as they are written, and their values.  A value is
   [v, ok, same]: ok if it is defined, same if Python's operators agree with C's. *)

Num(d) == [op |-> "num", is |-> d]
Name(x) == [op |-> "name", is |-> x]
Defined(x) == [op |-> "defined", is |-> x]
UnaryOf(op, e) == [op |-> "unary", is |-> op, e |-> e]
BinaryOf(op, l, r) == [op |-> "binary", is |-> op, l |-> l, r |-> r]
Choice(c, l, r) == [op |-> "choice", c |-> c, l |-> l, r |-> r]

LevelOf(e) == CASE e.op = "choice" -> 0
                [] e.op = "binary" -> CHOOSE k \in DOMAIN Levels : e.is \in Levels[k]
                [] OTHER -> Len(Levels) + 1

\* The tokens of e where an expression of level k is expected.
RECURSIVE Written(_, _)
Written(e, k) ==
  LET l == LevelOf(e)
  IN  IF l < k THEN <<"(">> \o Written(e, 0) \o <<")">>
      ELSE CASE e.op \in {"num", "name"} -> <<e.is>>
             [] e.op = "defined" -> <<"defined", e.is>>
             [] e.op = "unary" -> <<e.is>> \o Written(e.e, l)
             [] e.op = "binary" -> Written(e.l, l) \o <<e.is>> \o Written(e.r, l + 1)
             [] e.op = "choice" -> Written(e.c, 1) \o <<"?">> \o Written(e.l, 0) \o <<":">> \o Written(e.r, 0)

RECURSIVE Value(_, _)
Value(e, macros) ==
  LET of(v, ok, same) == [v |-> v, ok |-> ok, same |-> same]
      named == Standard(Marked(<<e.is>>, {}), macros)[1][1]
      l == Value(e.l, macros)
      r == Value(e.r, macros)
      c == Value(e.c, macros)
      inner == Value(e.e, macros)
      decided == (e.is = "||" /\ l.v # 0) \/ (e.is = "&&" /\ l.v = 0)
      ok == /\ ~(e.is \in {"/", "%"} /\ r.v = 0)
            /\ ~(e.is \in {"<<", ">>"} /\ r.v < 0)
  IN  CASE e.op = "num"     -> of(Digits[e.is], TRUE, TRUE)
        [] e.op = "name"    -> of(IF named \in DOMAIN Digits THEN Digits[named] ELSE 0, TRUE, TRUE)
        [] e.op = "defined" -> of(Truth(e.is \in DOMAIN macros), TRUE, TRUE)
        [] e.op = "unary"   -> of(ApplyUnary(e.is, inner.v), inner.ok, inner.same)
        [] e.op = "choice"  -> of(IF c.v # 0 THEN l.v ELSE r.v, c.ok /\ (IF c.v # 0 THEN l.ok ELSE r.ok),
                                  c.same /\ l.same /\ r.same /\ l.ok /\ r.ok)
        [] e.op = "binary"  ->
             of(IF ~ok THEN 0
                ELSE CASE e.is = "||" -> Truth(l.v # 0 \/ r.v # 0)
                       [] e.is = "&&" -> Truth(l.v # 0 /\ r.v # 0)
                       [] e.is = "/"  -> Quotient(l.v, r.v)
                       [] e.is = "%"  -> l.v - r.v * Quotient(l.v, r.v)
                       [] OTHER -> Arithmetic(e.is, l.v, r.v),
                l.ok /\ (decided \/ (r.ok /\ ok)),
                l.same /\ r.same /\ l.ok /\ r.ok /\ ok /\ ~(e.is = "%" /\ (l.v < 0 \/ r.v < 0)))
=============================================================================
