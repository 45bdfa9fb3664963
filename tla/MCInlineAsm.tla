------------------------------ MODULE MCInlineAsm ------------------------------
(* Statements of up to four operands, all of whose targets may also be      *)
(* homes of Temps (as r10..r16 are); two cycles at once are possible.       *)
EXTENDS InlineAsm

MCTargets == <<10, 11, 12, 13>>
MCShapes == {s \in (1 .. 3) \X (0 .. 3) : s[2] <= s[1]} \cup {<<4, 0>>}
MCParking == <<17>>
MCExplicit == {{}}
=============================================================================
