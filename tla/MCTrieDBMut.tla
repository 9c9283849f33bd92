------------------------------ MODULE MCTrieDBMut ------------------------------
(* Five keys: one that is a prefix of two others, which share three of     *)
(* their four nibbles, one that differs from it in the second nibble and   *)
(* one that differs in the first.  A value of one byte and one of 32; the  *)
(* long one can be a leaf of the same form under two keys.                 *)
EXTENDS TrieDB

MCNibbles == {0, 1}
MCEntries == ({<<0, 0>>, <<0, 0, 1, 0>>} \X {"short", "long"})
             \cup ({<<0, 1>>, <<0, 0, 1, 1>>} \X {"short"})
             \cup ({<<1, 0>>} \X {"long"})
MCValueLen == [v \in {"short", "long"} |-> IF v = "short" THEN 1 ELSE 33]
===============================================================================
