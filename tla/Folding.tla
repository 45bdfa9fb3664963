-------------------------------- MODULE Folding --------------------------------
(***************************************************************************)
(* compiler/fold.py: the passes fold() runs over a function, each as an     *)
(* operator from code to code.  `mutant` marks variants of the definition   *)
(* below them that no specification uses.                                   *)
(***************************************************************************)
EXTENDS IR

-----------------------------------------------------------------------------
(* Constant folding. *)

\* _fold_binop; ordering is signed unless the operator says otherwise
FoldBinop(op, a, b) ==
  LET sa == IF a > Mask \div 2 THEN a - Mask - 1 ELSE a
      sb == IF b > Mask \div 2 THEN b - Mask - 1 ELSE b
  IN  CASE op = "+"   -> (a + b) % Modulus
        [] op = "-"   -> (a - b) % Modulus
        [] op = "*"   -> (a * b) % Modulus
        [] op = "&"   -> BitAnd(a, b)
        [] op = "|"   -> BitOr(a, b)
        [] op = "^"   -> BitXor(a, b)
        [] op = "<<"  -> (a * 2^(b % Width)) % Modulus
        [] op = ">>"  -> a \div 2^(b % Width)
        [] op = "=="  -> Truth(a = b)
        [] op = "!="  -> Truth(a # b)
        [] op = "<u"  -> Truth(a < b)
        [] op = ">=u" -> Truth(a >= b)
        [] op = "<"   -> Truth(sa < sb)
        [] op = ">"   -> Truth(sa > sb)
        [] op = "<="  -> Truth(sa <= sb)
        [] op = ">="  -> Truth(sa >= sb)

PowerOf2(n) == \E k \in 0 .. Width - 1 : n = 2^k
Log2(n) == CHOOSE k \in 0 .. Width - 1 : n = 2^k

\* _simplify_binop, and the unary case of _fold_function
Simplify(i) ==
  LET left  == i.args[1]
      right == i.args[2]
      to(o) == Copy(i.dst, o)
      reduced(x, factor) == BinOp(i.dst, "<<", x, N(Log2(factor)))
      op(ops) == i.sym \in ops
  IN
  IF i.op = "unop" /\ IsImm(left) THEN to(N(ComputeUnary(i.sym, left[2])))
  ELSE IF i.op # "binop" THEN i
  ELSE IF IsImm(left) /\ IsImm(right) THEN to(N(FoldBinop(i.sym, left[2], right[2])))
  ELSE CASE IsImm(right) /\ right[2] = 0 /\ op({"+", "-", "<<", ">>", "|", "^"}) -> to(left)
         [] IsImm(right) /\ right[2] = 1 /\ op({"*"})        -> to(left)
         [] IsImm(right) /\ right[2] = 0 /\ op({"*", "&"})   -> to(N(0))
         [] IsImm(right) /\ right[2] = Mask /\ op({"&"})     -> to(left)
         [] IsImm(right) /\ right[2] = Mask /\ op({"|"})     -> to(N(Mask))
         [] IsImm(right) /\ right[2] > 1 /\ PowerOf2(right[2]) /\ op({"*"}) ->
              reduced(left, right[2])
         [] IsImm(left) /\ left[2] = 0 /\ op({"+", "|", "^"}) -> to(right)
         [] IsImm(left) /\ left[2] = 1 /\ op({"*"})          -> to(right)
         [] IsImm(left) /\ left[2] = 0 /\ op({"*", "&"})     -> to(N(0))
         [] IsImm(left) /\ left[2] = Mask /\ op({"&"})       -> to(right)
         [] IsImm(left) /\ left[2] = Mask /\ op({"|"})       -> to(N(Mask))
         [] IsImm(left) /\ left[2] > 1 /\ PowerOf2(left[2]) /\ op({"*"}) ->
              reduced(right, left[2])
         [] IsTemp(left) /\ left = right /\ op({"-", "^"})   -> to(N(0))
         [] IsTemp(left) /\ left = right /\ op({"&", "|"})   -> to(left)
         [] IsTemp(left) /\ left = right /\ op({"==", "<=", ">=", ">=u"}) -> to(N(1))
         [] IsTemp(left) /\ left = right /\ op({"!=", "<", ">", "<u"})    -> to(N(0))
         [] OTHER -> i

-----------------------------------------------------------------------------
(* Copy propagation: the first half of _fold_function. *)

DefCount(code, t) == Cardinality({k \in DOMAIN code : t \in Defs(code[k])})
UsesOf(code, t) ==
  UNION {{<<k, j>> : j \in {j \in DOMAIN Uses(code[k]) : Uses(code[k])[j] = T(t)}} : k \in DOMAIN code}

\* Where a value known of a variable is given up: the calls are those that
\* return at most one word.
Barrier == {"label", "call", "callptr"}
StoresVar(i) == i.op = "store" /\ IsVar(i.addr)

\* mutant: a call is taken to leave all variables alone
ClobbersLocally(i, x) == i.op = "label" \/ (StoresVar(i) /\ i.addr = V(x))

\* A Var may be read later instead of now if nothing between writes it.
Clobbers(i, x) == i.op \in Barrier \/ (StoresVar(i) /\ i.addr = V(x))

\* mutant: copies of copies are followed in one go
NeverChained(src, replaceable) == FALSE

\* A source that is about to be replaced itself has to wait for the next time.
Chained(src, replaceable) == IsTemp(src) /\ src[2] \in replaceable

\* The copies whose target may be replaced by their source: constants at
\* every use, other operands at the only one.
CopySources(code) ==
  LET at(t) == CHOOSE k \in DOMAIN code : code[k].op = "copy" /\ code[k].dst = t
      src(t) == code[at(t)].args[1]
      use(t) == CHOOSE u \in UsesOf(code, t) : TRUE
      once == {t \in {code[k].dst : k \in {k \in DOMAIN code : code[k].op = "copy"}} :
                 DefCount(code, t) = 1}
      simple == {t \in once : IsImm(src(t)) \/ Cardinality(UsesOf(code, t)) = 1}
      intact == {t \in simple : IsVar(src(t)) =>
                   \A k \in at(t) + 1 .. use(t)[1] - 1 : ~Clobbers(code[k], src(t)[2])}
      unchained == {t \in intact : ~Chained(src(t), intact)}
  IN  [t \in unchained |-> src(t)]

\* _subst_instr.  A Var must not replace a pointer: it would be the variable
\* itself that is read or written.
Substituted(i, source) ==
  LET known(o) == IsTemp(o) /\ o[2] \in DOMAIN source
      val(o) == IF known(o) THEN source[o[2]] ELSE o
      addr(o) == IF known(o) /\ ~IsVar(source[o[2]]) THEN source[o[2]] ELSE o
  IN  IF i.op \in {"addrof", "const"} THEN i
      ELSE Simplify([i EXCEPT !.addr = addr(@), !.args = [k \in DOMAIN @ |-> val(@[k])]])

PropagateCopies(code) ==
  LET source == CopySources(code)
      new == [k \in DOMAIN code |->
                IF UsedTemps(code[k]) \cap DOMAIN source = {} THEN code[k]
                ELSE Substituted(code[k], source)]
      replaced(t) == /\ UsesOf(code, t) # {}
                     /\ IsImm(source[t]) \/ \A u \in UsesOf(code, t) : t \notin UsedTemps(new[u[1]])
  IN  Without(new, {k \in DOMAIN code : /\ code[k].op = "copy"
                                        /\ code[k].dst \in DOMAIN source
                                        /\ replaced(code[k].dst)})

Simplified(code) == [k \in DOMAIN code |-> Simplify(code[k])]
FoldOnce(code) == Simplified(PropagateCopies(code))

\* Every time but the last makes the code shorter.
FoldUntilStable(code) ==
  LET folded[n \in 0 .. Len(code) + 1] ==
        IF n = 0 THEN [code |-> code, prevLen |-> -1]
        ELSE LET last == folded[n - 1]
             IN  IF Len(last.code) = last.prevLen THEN last
                 ELSE [code |-> FoldOnce(last.code), prevLen |-> Len(last.code)]
  IN  folded[Len(code) + 1].code

-----------------------------------------------------------------------------
(* Reuse of values within a basic block.  held maps a Var, or an addressed
   operand, to the Temp that holds its value. *)

Forget(held, x) == [y \in DOMAIN held \ {x} |-> held[y]]

\* _var_load_cse: what is held after an instruction, and what becomes of it.
HeldAfter(held, i) ==
  LET src == i.args[1]
  IN  CASE i.op \in Barrier -> <<>>
        [] StoresVar(i) -> Forget(held, i.addr[2])
        [] i.op = "copy" /\ IsVar(src) /\ src[2] \notin DOMAIN held -> (src[2] :> i.dst) @@ held
        [] i.op = "copy" /\ IsTemp(src) ->
             [x \in DOMAIN held |-> IF held[x] = src[2] THEN i.dst ELSE held[x]]
        [] OTHER -> held

ReuseLoad(held, i) ==
  IF i.op = "copy" /\ IsVar(i.args[1]) /\ i.args[1][2] \in DOMAIN held
  THEN Copy(i.dst, T(held[i.args[1][2]])) ELSE i

VarLoadCse(code) ==
  LET done[k \in 0 .. Len(code)] ==
        IF k = 0 THEN [code |-> <<>>, held |-> <<>>]
        ELSE LET last == done[k - 1]
             IN  [code |-> Append(last.code, ReuseLoad(last.held, code[k])),
                  held |-> HeldAfter(last.held, code[k])]
  IN  done[Len(code)].code

\* _addrof_cse
AddressesAfter(held, i) ==
  CASE i.op = "label" -> <<>>
    [] i.op = "addrof" /\ i.sym \notin DOMAIN held -> (i.sym :> i.dst) @@ held
    [] OTHER -> held

ReuseAddress(held, i) ==
  IF i.op = "addrof" /\ i.sym \in DOMAIN held THEN Copy(i.dst, T(held[i.sym])) ELSE i

AddrOfCse(code) ==
  LET done[k \in 0 .. Len(code)] ==
        IF k = 0 THEN [code |-> <<>>, held |-> <<>>]
        ELSE LET last == done[k - 1]
             IN  [code |-> Append(last.code, ReuseAddress(last.held, code[k])),
                  held |-> AddressesAfter(last.held, code[k])]
  IN  done[Len(code)].code

\* Vars whose address is taken
Escaped(code) == {code[k].sym[2] : k \in {k \in DOMAIN code : code[k].op = "addrof" /\ IsVar(code[k].sym)}}

\* _dead_store_elim: a store to x at k is dead if a later store to x is
\* reached with no read of x, call, jump or label in between.  A store of two
\* words counts as a read.
DeadStores(code) ==
  LET private(k) == StoresVar(code[k]) /\ code[k].addr[2] \notin Escaped(code)
      reads(i, x) == IF StoresVar(i) THEN V(x) \in ToSet(i.args) ELSE x \in UsedVars(i)
      keeps(i, x) == reads(i, x) \/ i.op \in Barrier \cup Jumps
  IN  {k \in DOMAIN code : private(k) /\
         \E m \in k + 1 .. Len(code) :
            /\ StoresVar(code[m]) /\ code[m].addr = code[k].addr
            /\ \A b \in k + 1 .. m : ~keeps(code[b], code[k].addr[2])}

DeadStoreElim(code) == Without(code, DeadStores(code))

-----------------------------------------------------------------------------
(* Control flow. *)

JumpsOf(code) == {k \in DOMAIN code : code[k].op = "jump"}

\* Until there is none: what is between a jump and its label may go, too.
RemoveTrivialJumps(code) ==
  LET trivial(c) == {k \in 1 .. Len(c) - 1 : /\ c[k].op = "jump"
                                             /\ c[k + 1].op = "label" /\ c[k + 1].sym = c[k].sym}
      left[n \in 0 .. Cardinality(JumpsOf(code))] ==
        IF n = 0 THEN code ELSE LET c == left[n - 1] IN Without(c, trivial(c))
  IN  left[Cardinality(JumpsOf(code))]

\* A label leads to another if the first instruction after it is a jump.
LeadsTo(code, l) ==
  LET here == LabelsAt(code, l)
      after == {k \in DOMAIN code : code[k].op # "label" /\ \E at \in here : at < k}
  IN  IF after # {} /\ code[Min(after)].op = "jump" THEN {code[Min(after)].sym} ELSE {}

\* The way ends where no jump follows, or in a circle.
ResolveTarget(code, l) ==
  LET hop[n \in 0 .. Cardinality(JumpsOf(code)) + 1] ==
        IF n = 0 THEN [label |-> l, visited |-> {}]
        ELSE LET h == hop[n - 1] IN
             IF h.label \in h.visited \/ LeadsTo(code, h.label) = {} THEN h
             ELSE [label |-> CHOOSE m \in LeadsTo(code, h.label) : TRUE,
                   visited |-> h.visited \cup {h.label}]
  IN  hop[Cardinality(JumpsOf(code)) + 1].label

JumpTargets(code) == {code[k].sym : k \in {k \in DOMAIN code : code[k].op \in Jumps}}

\* _branch_threading: jumps to a jump go to its target; labels nothing jumps
\* to any more are removed.
BranchThreading(code) ==
  LET new == [k \in DOMAIN code |->
                IF code[k].op \in Jumps
                THEN [code[k] EXCEPT !.sym = ResolveTarget(code, @)] ELSE code[k]]
  IN  IF new = code THEN code
      ELSE KeepOnly(new, {k \in DOMAIN new : new[k].op = "label" => new[k].sym \in JumpTargets(new)})

\* _unreachable_code_elim: what follows a jump or return, up to the next label
UnreachableCodeElim(code) ==
  LET live(k) == \E d \in 1 .. k : /\ d = 1 \/ code[d].op = "label"
                                   /\ \A m \in d .. k - 1 : code[m].op \notin {"jump", "ret"}
  IN  Without(code, {k \in DOMAIN code : ~live(k)})

-----------------------------------------------------------------------------
(* Self-recursive tail calls: _tail_call_opt.  Arguments are counted in words
   and parameters are not, so those after a long one get the wrong word. *)

TailCalls(f) ==
  {k \in 1 .. Len(f.code) - 1 :
     /\ f.code[k].op = "call" /\ f.code[k].sym = f.name
     /\ f.code[k + 1].op = "ret"
     /\ f.code[k + 1].args = IF f.code[k].dst = NoTemp THEN <<>> ELSE <<T(f.code[k].dst)>>}

\* Arguments go to fresh Temps first, then all of them to the parameters.
ReassignParams(params, args, fresh, entry) ==
  [j \in 1 .. Len(args) |-> Copy(fresh + j, args[j])]
    \o [j \in 1 .. Min({Len(params), Len(args)}) |-> Store(V(params[j]), T(fresh + j))]
    \o <<Jump(entry)>>

SumArgs(code, calls) == MapThenSumSet(LAMBDA k : Len(code[k].args), calls)

TailEntry(f) == <<".__tce_">> \o f.name

TailCallOpt(f) ==
  LET calls == TailCalls(f)
      entry == TailEntry(f)
      maxId == Max({0} \cup UNION {Defs(f.code[k]) : k \in DOMAIN f.code})
      freshBefore(k) == maxId + SumArgs(f.code, {m \in calls : m > k})
      piece(k) == IF k \in calls
                  THEN ReassignParams(f.params, f.code[k].args, freshBefore(k), entry)
                  ELSE IF k - 1 \in calls THEN <<>> ELSE <<f.code[k]>>
  IN  IF calls = {} THEN f
      ELSE [f EXCEPT !.code = <<Label(entry)>> \o FlattenSeq([k \in DOMAIN @ |-> piece(k)])]

-----------------------------------------------------------------------------
(* fold(): one function. *)

FoldPasses(f) ==
  LET reused == DeadStoreElim(AddrOfCse(VarLoadCse(f.code)))
      folded == FoldUntilStable(reused)
      threaded == BranchThreading(RemoveTrivialJumps(folded))
  IN  TailCallOpt([f EXCEPT !.code = UnreachableCodeElim(threaded)])

Fold(P) == [k \in DOMAIN P |-> FoldPasses(P[k])]
=============================================================================
