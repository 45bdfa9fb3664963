------------------------------- MODULE IRMachine -------------------------------
(***************************************************************************)
(* What a program of the three-address code does: a machine that runs it.   *)
(*                                                                          *)
(* The meaning of a program is what can be seen of it: its external calls   *)
(* with their arguments, its result, and whether it ends.  A program that   *)
(* reads what was never written, or follows what is no pointer, is stuck:   *)
(* it is undefined and may be compiled to anything.                         *)
(***************************************************************************)
EXTENDS IR

\* A place is a word of a variable of a frame, or of a global in frame 0:
\* <<frame, name, offset>>.  A pointer is <<"p", place>>.
IsNumber(v) == v[1] = "n"
IsPointer(v) == v[1] = "p"
Shifted(v, n) == [v EXCEPT ![2][3] = @ + n]
SameObject(v, w) == v[2][1] = w[2][1] /\ v[2][2] = w[2][2]

Result(op, v, w) ==
  CASE IsNumber(v) /\ IsNumber(w) -> N(Compute(op, v[2], w[2]))
    [] IsPointer(v) /\ IsNumber(w) /\ op = "+" -> Shifted(v, Signed(w[2]))
    [] IsNumber(v) /\ IsPointer(w) /\ op = "+" -> Shifted(w, Signed(v[2]))
    [] IsPointer(v) /\ IsNumber(w) /\ op = "-" -> Shifted(v, -Signed(w[2]))
    [] IsPointer(v) /\ IsPointer(w) /\ SameObject(v, w) ->
         N(Compute(op, v[2][3] % 2^Width, w[2][3] % 2^Width))
    [] IsPointer(v) /\ w = N(0) /\ op \in {"==", "!="} -> N(Truth(op = "!="))
    [] IsPointer(v) /\ IsPointer(w) /\ ~SameObject(v, w) /\ op \in {"==", "!="} -> N(Truth(op = "!="))
    [] OTHER -> Nothing

\* The same on two words: <<low, high>>.
DoubleWidth == 2 * Width
Words2(n) == <<n % 2^Width, n \div 2^Width>>
SignedDouble(n) == IF n < 2^(DoubleWidth - 1) THEN n ELSE n - 2^DoubleWidth

\* a * b, in halves
Product(a, b) == (a * (b % 2^Width) + ((a * (b \div 2^Width)) % 2^Width) * 2^Width) % 2^DoubleWidth

-----------------------------------------------------------------------------
(* The division and multiplication helpers of builtins.h, which irgen calls by
   name: quotients are truncated, and nothing is promised for a divisor 0. *)
Quotient(a, b) ==
  LET Abs(n) == IF n < 0 THEN -n ELSE n
      q == Abs(a) \div Abs(b)
  IN  IF (a < 0) = (b < 0) THEN q ELSE -q
Remainder(a, b) == a - b * Quotient(a, b)

udiv == <<"__builtin_udiv">>
umod == <<"__builtin_umod">>
sdiv == <<"__builtin_sdiv">>
smod == <<"__builtin_smod">>
uldiv == <<"__builtin_uldiv">>
ulmod == <<"__builtin_ulmod">>
sldiv == <<"__builtin_sldiv">>
slmod == <<"__builtin_slmod">>
ulmul == <<"__builtin_ulmul">>

ShortHelpers == {udiv, umod, sdiv, smod}
LongHelpers == {uldiv, ulmod, sldiv, slmod, ulmul}
Helpers == ShortHelpers \cup LongHelpers

\* What a helper returns for words, as a sequence of words.
Helped(h, w) ==
  LET short(x) == IF h \in {sdiv, smod} THEN Signed(x) ELSE x
      long(lo, hi) == IF h \in {sldiv, slmod} THEN SignedDouble(Double(lo, hi)) ELSE Double(lo, hi)
      a == IF h \in ShortHelpers THEN short(w[1]) ELSE long(w[1], w[2])
      b == IF h \in ShortHelpers THEN short(w[2]) ELSE long(w[3], w[4])
      n == CASE h \in {udiv, sdiv, uldiv, sldiv} -> Quotient(a, b)
             [] h \in {umod, smod, ulmod, slmod} -> Remainder(a, b)
             [] h = ulmul -> Product(a, b)
  IN  IF h \in ShortHelpers THEN <<n % 2^Width>> ELSE Words2(n % 2^DoubleWidth)

DividesByZero(h, w) ==
  CASE h \in ShortHelpers -> w[2] = 0 [] h = ulmul -> FALSE [] OTHER -> w[3] = 0 /\ w[4] = 0

-----------------------------------------------------------------------------
(* The machine.  A frame is one activation of a function; into are the Temps
   of the caller that get the words of the result. *)
Activate(f, id, into) ==
  [fn |-> f.name, at |-> 1, id |-> id, into |-> into, temps |-> <<>>]

Passed(f, args, id) ==
  LET words == ParamWords(f)
      index == DOMAIN words \cap DOMAIN args
  IN  [x \in {<<id, words[k][1], words[k][2]>> : k \in index} |->
         args[CHOOSE k \in index : words[k] = <<x[2], x[3]>>]]

\* Globals start as zero, variables of a function undefined.
Content(s, p) ==
  IF p \in DOMAIN s.mem THEN s.mem[p] ELSE IF p[1] = 0 THEN N(0) ELSE Nothing

Value(s, o) ==
  LET f == Last(s.stack) IN
  CASE IsImm(o)  -> o
    [] IsTemp(o) -> IF o[2] \in DOMAIN f.temps THEN f.temps[o[2]] ELSE Nothing
    [] IsVar(o)  -> Content(s, <<f.id, o[2], 0>>)
    [] o[1] = "g" -> <<"p", <<0, o[2], 0>>>>
    [] OTHER -> Nothing

\* The place an address operand stands for, <<>> if there is none.
Place(s, o) ==
  IF IsVar(o) THEN <<Last(s.stack).id, o[2], 0>>
  ELSE LET p == Value(s, o) IN
       IF IsPointer(p) /\ p[2][1] \in {0} \cup {s.stack[k].id : k \in DOMAIN s.stack}
       THEN p[2] ELSE <<>>
Above(place) == [place EXCEPT ![3] = @ + 1]

\* An external function sees its arguments, and what a pointer leads to,
\* writes to the latter, and returns a number: the first one the input.
Seen(s, v) == IF IsPointer(v) THEN <<"*", Content(s, v[2])>> ELSE v
Undefined == {Nothing, <<"*", Nothing>>}

Stuck(s) == [s EXCEPT !.end = "stuck"]

\* _find_fused_cmps: the comparison at k and the branch after it, which is the
\* only use of its result, become one.
FusedAt(code, k) ==
  /\ code[k].sym \in DOMAIN CmpJmp
  /\ k < Len(code)
  /\ code[k + 1].op \in {"jumpif", "jumpifnot"} /\ code[k + 1].args = <<T(code[k].dst)>>
  /\ \A j \in DOMAIN code \ {k + 1} : code[k].dst \notin UsedTemps(code[j])

Step(P, s) ==
  LET top  == Len(s.stack)
      f    == s.stack[top]
      code == Function(P, f.fn).code
      i    == code[f.at]
      arg  == [k \in DOMAIN i.args |-> Value(s, i.args[k])]
      word == [k \in DOMAIN arg |-> arg[k][2]]
      next == [s EXCEPT !.stack[top].at = @ + 1]
      bound(temps, into, v) ==
        [t \in ({into[1]} \cup IF Len(v) > 1 THEN {into[2]} ELSE {}) \ {NoTemp} |->
           IF t = into[1] THEN v[1] ELSE v[2]] @@ temps
      bind(v) == [next EXCEPT !.stack[top].temps = bound(@, <<i.dst, i.hi>>, v)]
      numbers(n) == \A k \in 1 .. n : IsNumber(arg[k])
      place == Place(s, i.addr)
      goto(label) == IF LabelsAt(code, label) = {} THEN Stuck(s)
                     ELSE [s EXCEPT !.stack[top].at = Min(LabelsAt(code, label))]
      branch(when) == IF arg[1] = Nothing THEN Stuck(s)
                      ELSE IF (arg[1] # N(0)) = when THEN goto(i.sym) ELSE next
      enter(callee, with) ==
        LET c == Function(P, callee) IN
        [next EXCEPT !.stack = Append(@, Activate(c, s.fresh, <<i.dst, i.hi>>)),
                     !.mem = Passed(c, with, s.fresh) @@ @,
                     !.fresh = @ + 1]
      return(result) ==
        IF top = 1 /\ \E k \in DOMAIN result : result[k] = Nothing THEN Stuck(s)
        ELSE IF top = 1
        THEN [s EXCEPT !.end = "done",
                       !.trace = Append(@, <<"result", [k \in DOMAIN result |-> Seen(s, result[k])]>>)]
        ELSE [s EXCEPT !.stack = [Front(@) EXCEPT ![top - 1].temps =
                                    IF result = <<>> THEN @ ELSE bound(@, f.into, result)]]
  IN
  IF f.at > Len(code) THEN Stuck(s) ELSE
  CASE i.op \in {"const", "copy"} -> bind(arg)
    [] i.op = "addrof" ->
         IF IsTemp(i.sym) THEN Stuck(s)
         ELSE bind(<<<<"p", <<IF IsVar(i.sym) THEN f.id ELSE 0, i.sym[2], 0>>>>>>)
    [] i.op = "binop" ->
         IF FusedAt(code, f.at) THEN
           LET jump == code[f.at + 1]
               when == jump.op = "jumpif"
               v == Result(i.sym, arg[1], arg[2])
               taken == IF numbers(2) THEN FusedTaken(i.sym, when, word[1], word[2]) ELSE (v # N(0)) = when
           IN  IF v = Nothing THEN Stuck(s)
               ELSE IF taken THEN goto(jump.sym) ELSE [s EXCEPT !.stack[top].at = @ + 2]
         ELSE bind(<<Result(i.sym, arg[1], arg[2])>>)
    [] i.op = "unop" ->
         bind(<<IF IsNumber(arg[1]) THEN N(ComputeUnary(i.sym, arg[1][2])) ELSE Nothing>>)
    [] i.op = "load" -> IF place = <<>> THEN Stuck(s) ELSE bind(<<Content(s, place)>>)
    [] i.op = "store" -> IF place = <<>> THEN Stuck(s) ELSE [next EXCEPT !.mem = (place :> arg[1]) @@ @]
    [] i.op = "lload" ->
         IF place = <<>> THEN Stuck(s) ELSE bind(<<Content(s, place), Content(s, Above(place))>>)
    [] i.op = "lstore" ->
         IF place = <<>> THEN Stuck(s)
         ELSE [next EXCEPT !.mem = (place :> arg[1] @@ Above(place) :> arg[2]) @@ @]
    [] i.op = "lbinop" ->
         bind(IF ~numbers(4) THEN <<Nothing, Nothing>>
              ELSE LET w == LongSum(i.sym, SubSeq(word, 1, 2), SubSeq(word, 3, 4)) IN <<N(w[1]), N(w[2])>>)
    [] i.op = "lunop" ->
         bind(IF ~numbers(2) THEN <<Nothing, Nothing>>
              ELSE LET w == LongNegated(word) IN <<N(w[1]), N(w[2])>>)
    [] i.op = "lcmp" ->
         bind(IF ~numbers(4) THEN <<Nothing>>
              ELSE <<N(LongCompared(i.sym[1], i.sym[2], SubSeq(word, 1, 2), SubSeq(word, 3, 4)))>>)
    [] i.op \in Direct /\ i.sym \in FunctionNames(P) -> enter(i.sym, arg)
    [] i.op \in Indirect ->
         IF IsPointer(arg[1]) /\ arg[1][2][1] = 0 /\ arg[1][2][2] \in FunctionNames(P)
         THEN enter(arg[1][2][2], Tail(arg)) ELSE Stuck(s)
    [] i.op \in Direct /\ i.sym \in Helpers \ FunctionNames(P) ->
         IF ~numbers(Len(arg)) \/ DividesByZero(i.sym, word) THEN Stuck(s)
         ELSE LET w == Helped(i.sym, word) IN bind([k \in DOMAIN w |-> N(w[k])])
    [] i.op \in Direct /\ i.sym \notin FunctionNames(P) \cup Helpers ->
         LET seen == [k \in DOMAIN arg |-> Seen(s, arg[k])]
             pointed == {v[2] : v \in {v \in ToSet(arg) : IsPointer(v)}}
             answer == N((s.input + Len(s.trace)) % 2^Width)
         IN IF ToSet(seen) \cap Undefined # {} THEN Stuck(s)
            ELSE [bind(<<answer, answer>>) EXCEPT
                    !.trace = Append(@, <<i.sym, seen>>),
                    !.mem = [p \in pointed |-> N((Len(s.trace) + 1) % 2^Width)] @@ @]
    [] i.op \in Returns -> return(arg)
    [] i.op = "label" -> next
    [] i.op = "jump" -> goto(i.sym)
    [] i.op = "jumpif" -> branch(TRUE)
    [] i.op = "jumpifnot" -> branch(FALSE)

RECURSIVE Execute(_, _, _)
Execute(P, s, fuel) ==
  IF s.end # "no" \/ fuel = 0 THEN s ELSE Execute(P, Step(P, s), fuel - 1)

\* What can be seen of program P, started with the given contents of memory:
\* its external calls and result, and how it ends ("no" if still running).
MeaningFrom(P, data, input, fuel) ==
  LET s == Execute(P, [stack |-> <<Activate(Function(P, Main), 1, <<NoTemp, NoTemp>>)>>, mem |-> data,
                       trace |-> <<>>, fresh |-> 2, input |-> input, end |-> "no"],
                   fuel)
  IN  [end |-> s.end, trace |-> s.trace]

Meaning(P, input, fuel) == MeaningFrom(P, <<>>, input, fuel)
=============================================================================
