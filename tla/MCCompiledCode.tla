--------------------------- MODULE MCCompiledCode ---------------------------
(* Functions that define two Temps, do Middle things of every kind to the   *)
(* registers, and then read Temps again.                                    *)
EXTENDS CompiledCode

CONSTANT Middle

MCTemp == 1 .. 4

Plain(i, reads, writes) ==
  [kind |-> "op", parts |-> <<[reads |-> reads, writes |-> writes]>>,
   clobbers |-> {}, next |-> {i + 1}]

Last == Middle + 3

(* Instructions that can follow code c, whose Temps are 1..n.               *)
Followers(c, n) ==
  LET i == Len(c) + 1
      new == {{t} : t \in {n + 1} \cap Temp}
  IN  {Plain(i, R, W) : R \in {{}, {1}}, W \in new \cup {{1}}}
      \cup {[Plain(i, {}, {}) EXCEPT
               !.parts = <<[reads |-> {1}, writes |-> {n + 1}],
                           [reads |-> R, writes |-> {n + 2}]>>] :
              R \in IF n + 2 \in Temp THEN {{1}, {2}} ELSE {}}
      \cup {[Plain(i, {2}, W) EXCEPT !.kind = "call"] : W \in new \cup {{}}}
      \cup {[Plain(i, {}, W) EXCEPT !.kind = "asm", !.clobbers = {r}] :
              W \in new \cup {{}}, r \in Reg}
      \cup {[Plain(i, {2}, {}) EXCEPT !.next = {i + 1, k}] : k \in i + 2 .. Last}

Known(c) == 1 .. Cardinality(Defined(c))

RECURSIVE Bodies(_)
Bodies(n) ==
  IF n = 0
    THEN {<<Plain(1, {}, {1}), Plain(2, {}, {2})>>}
    ELSE UNION {{Append(c, ins) : ins \in Followers(c, Cardinality(Defined(c)))} :
                  c \in Bodies(n - 1)}

Reading(b) ==
  {Append(b, Plain(Len(b) + 1, R, {})) :
     R \in {R \in SUBSET Known(b) : Cardinality(R) \in 1 .. 2}}

MCPrograms == {c \in UNION {Reading(b) : b \in Bodies(Middle)} : WellFormed(c)}

(* The same functions with a branch back to the third instruction: a loop,  *)
(* as it is left by inlining a function whose parameter a loop reads.       *)
Branch(i) == [Plain(i, {}, {}) EXCEPT !.next = {i + 1, 3}]
MCLoops ==
  {c \in UNION {Reading(Append(b, Branch(Last))) : b \in Bodies(Middle)} : WellFormed(c)}
=============================================================================
