------------------------------- MODULE MCAccount -------------------------------
(* Two storage keys, a cache of one, two values that are not zero, one of them *)
(* with a leading zero byte, one code.                                         *)
EXTENDS Account

CONSTANTS k1, k2, v1, p1, c1

MCKeys == {k1, k2}
MCValues == {v1, p1, Missing}
MCZeros == {Missing}
MCPadded == {p1}
MCSettable == (k1 :> {v1, Missing}) @@ (k2 :> {p1, Missing})
MCCodes == {c1, EmptyCode}
===============================================================================
