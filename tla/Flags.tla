--------------------------------- MODULE Flags ---------------------------------
(***************************************************************************)
(* The arithmetic of the target machine, and the instructions the code      *)
(* generator selects for it.  A subtraction sets four flags, a conditional  *)
(* jump reads them (tests/emu/model.py and machine.py, which run the code); *)
(* comparisons, sums and differences of two words are put together from     *)
(* such instructions (codegen.py).  What they have to compute is said       *)
(* elsewhere: in C by CSemantics, at compile time by Folding, and for every *)
(* Width by the theorems of OptimizerProofs.                                *)
(***************************************************************************)
EXTENDS Integers

CONSTANT Width   \* bits of a word: 16 in the code

Half == 2^(Width - 1)
Modulus == 2^Width
Mask == Modulus - 1
Words == 0 .. Mask

ASSUME HalfAssumption == Half \in Nat \ {0} /\ Modulus = 2 * Half

Signed(a) == IF a < Half THEN a ELSE a - Modulus
Truth(b) == IF b THEN 1 ELSE 0

Negative(a) == a >= Half

\* `full & _MASK16`, for what a sum or difference of two words and a carry can be
Wrapped(full) == IF full < 0 THEN full + Modulus ELSE IF full > Mask THEN full - Modulus ELSE full

\* Flags.from_add and from_sub: the result and the flags.
Add(a, b, carry) ==
  LET full == a + b + carry
      word == Wrapped(full)
  IN  [word |-> word, Z |-> word = 0, S |-> Negative(word), C |-> full > Mask,
       O |-> Negative(a) = Negative(b) /\ Negative(a) # Negative(word)]

Sub(p, s, borrow) ==
  LET full == p - s - borrow
      word == Wrapped(full)
  IN  [word |-> word, Z |-> word = 0, S |-> Negative(word), C |-> full < 0,
       O |-> Negative(p) # Negative(s) /\ Negative(p) # Negative(word)]

\* Machine.cond, the aliases jg and jge resolved
Jumped(jump, f) ==
  CASE jump = "jz"  -> f.Z
    [] jump = "jnz" -> ~f.Z
    [] jump = "jc"  -> f.C
    [] jump = "jnc" -> ~f.C
    [] jump = "jl"  -> f.S # f.O
    [] jump = "jge" -> f.S = f.O
    [] jump = "jle" -> f.Z \/ f.S # f.O
    [] jump = "jg"  -> ~f.Z /\ f.S = f.O

-----------------------------------------------------------------------------
(* Words. *)

\* _CMP_JMP: the jump taken after `sub r0, left, right` if the comparison holds
CmpJmp == [op \in {"==", "!=", "<", ">", "<=", ">=", "<u", ">=u"} |->
  CASE op = "==" -> "jz"  [] op = "!=" -> "jnz" [] op = "<" -> "jl"  [] op = ">" -> "jg"
    [] op = "<=" -> "jle" [] op = ">=" -> "jge" [] op = "<u" -> "jc" [] op = ">=u" -> "jnc"]

\* mutant: the mirrored jump instead of the inverted one
MirroredJump(jump) ==
  CASE jump = "jl" -> "jg"  [] jump = "jg" -> "jl"  [] jump = "jle" -> "jge" [] jump = "jge" -> "jle"
    [] jump = "jz" -> "jnz" [] jump = "jnz" -> "jz" [] jump = "jc" -> "jnc"  [] jump = "jnc" -> "jc"

\* The jump taken if the comparison does not hold (_find_fused_cmps).
InvertedJump(jump) ==
  CASE jump = "jz" -> "jnz" [] jump = "jnz" -> "jz" [] jump = "jl" -> "jge" [] jump = "jge" -> "jl"
    [] jump = "jg" -> "jle" [] jump = "jle" -> "jg" [] jump = "jc" -> "jnc" [] jump = "jnc" -> "jc"

\* _gen_compare: the comparison as 0 or 1
Compared(op, a, b) == Truth(Jumped(CmpJmp[op], Sub(a, b, 0)))

\* A comparison and the branch after it in one: is the branch taken?
FusedTaken(op, when, a, b) ==
  Jumped(IF when THEN CmpJmp[op] ELSE InvertedJump(CmpJmp[op]), Sub(a, b, 0))

-----------------------------------------------------------------------------
(* Two words, the low one first. *)
Double(lo, hi) == lo + Modulus * hi

\* _gen_long_binop: the carry of the low words goes into the high ones
LongSum(op, l, r) ==
  LET step(a, b, carry) == IF op = "+" THEN Add(a, b, carry) ELSE Sub(a, b, carry)
      lo == step(l[1], r[1], 0)
      hi == step(l[2], r[2], Truth(lo.C))
  IN  <<lo.word, hi.word>>

\* _gen_long_unaryop: subtract from r0, twice
LongNegated(v) == LongSum("-", <<0, 0>>, v)

\* mutant: the low words are compared as signed numbers as well
LongBelowSigned(unsigned, l, r) ==
  LET less == IF unsigned THEN "jc" ELSE "jl"
      high == Sub(l[2], r[2], 0)
  IN  Jumped(less, high) \/ (~Jumped("jnz", high) /\ Jumped(less, Sub(l[1], r[1], 0)))

\* The branches of _gen_long_compare for <; they lead the other way for >=.
LongBelow(unsigned, l, r) ==
  LET less == IF unsigned THEN "jc" ELSE "jl"
      high == Sub(l[2], r[2], 0)
  IN  Jumped(less, high) \/ (~Jumped("jnz", high) /\ Jumped("jc", Sub(l[1], r[1], 0)))

\* ... and for == and !=.
LongDiffer(l, r) ==
  Jumped("jnz", Sub(l[2], r[2], 0)) \/ Jumped("jnz", Sub(l[1], r[1], 0))

LongCompared(op, unsigned, l, r) ==
  Truth(CASE op = "==" -> ~LongDiffer(l, r)
          [] op = "!=" -> LongDiffer(l, r)
          [] op = "<"  -> LongBelow(unsigned, l, r)
          [] op = ">=" -> ~LongBelow(unsigned, l, r)
          [] op = ">"  -> LongBelow(unsigned, r, l)       \* the operands are swapped
          [] op = "<=" -> ~LongBelow(unsigned, r, l))
=============================================================================
