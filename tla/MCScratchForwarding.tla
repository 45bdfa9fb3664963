-------------------------- MODULE MCScratchForwarding --------------------------
(* All instruction sequences over a few Temps, any of them spilled.         *)
EXTENDS ScratchForwarding

CONSTANTS t1, t2, t3
MCTemp == {t1, t2, t3}
(* Nothing is said of the code after a misled instruction.                 *)
MCGoesOn == ~e.misled

MCSymmetry == Permutations(MCTemp)
=============================================================================
