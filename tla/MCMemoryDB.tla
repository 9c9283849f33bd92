------------------------------ MODULE MCMemoryDB ------------------------------
(* Two ordinary keys and the null key, each with its own value.            *)
EXTENDS MemoryDBSpec

CONSTANTS k1, k2, vNull, v1, v2

MCKeys == {k1, k2, NullKey}
MCValues == {v1, v2, vNull}
MCValueOf == [k \in MCKeys |->
                 CASE k = k1 -> v1 [] k = k2 -> v2 [] k = NullKey -> vNull]
===============================================================================
