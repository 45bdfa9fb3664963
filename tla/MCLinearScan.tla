---------------------------- MODULE MCLinearScan ----------------------------
(* Every list of up to MaxIntervals sorted intervals over a few positions,  *)
(* for a machine with one register of each class.  A call or an asm         *)
(* statement lies strictly inside an interval, so the interval has room.    *)
EXTENDS LinearScan

CONSTANTS MaxIntervals, LastPosition

MCShapes ==
  {iv \in [start : 0 .. LastPosition, end : 0 .. LastPosition,
           crosses : BOOLEAN, forbidden : {{}, {10}, {19}}, uses : {1, 3}] :
     /\ iv.start <= iv.end
     /\ iv.crosses \/ iv.forbidden # {} => iv.start + 2 <= iv.end}

MCInputs == {s \in UNION {[1 .. n -> MCShapes] : n \in 0 .. MaxIntervals} : Sorted(s)}
=============================================================================
