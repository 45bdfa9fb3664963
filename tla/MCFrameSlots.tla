------------------------------ MODULE MCFrameSlots ------------------------------
(* Functions with up to three spilled Temps and two scalar locals.           *)
EXTENDS FrameSlots, TLC

CONSTANTS t1, t2, t3, v1, v2
MCTemp == {t1, t2, t3}
MCVar == {v1, v2}
=============================================================================
