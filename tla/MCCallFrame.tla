------------------------------ MODULE MCCallFrame ------------------------------
(* Two argument registers and up to three words of arguments; functions of  *)
(* every shape that differs in what the frame holds.                        *)
EXTENDS CallFrame

MCAllShapes ==
  [outgoing : 0 .. 1, named : 0 .. 3, params : 0 .. 3, locals : 0 .. 1,
   variadic : BOOLEAN, saves : {{}, {20}, {19, 20}}, leaf : BOOLEAN]

(* Every parameter is one word.                                             *)
MCShapes ==
  {s \in MCAllShapes :
     /\ s.named = s.params
     /\ s.leaf => s.outgoing = 0
     /\ s.variadic => s.params \in 1 .. 2
     /\ s.locals = 1 <=> s.params \in {0, 3}
     /\ s.params = 1 => s.variadic
     /\ s.saves = {} <=> s.params = 0}

(* Variadic functions whose named parameter may be a long.                  *)
MCVariadic ==
  {s \in MCAllShapes :
     /\ s.named = 1 /\ s.params \in 1 .. 2
     /\ s.variadic /\ s.outgoing = 1 /\ ~s.leaf /\ s.saves = {}}
=============================================================================
