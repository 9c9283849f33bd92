--------------------------- MODULE MCOverlayRecentDB ---------------------------
(* Two nodes that share a prefix, in a short history, or one of them in a  *)
(* longer one; two with prefixes of their own where a batch is torn.       *)
EXTENDS OverlayRecentDB, TLC

CONSTANTS k1, k2, s1, s2

Writer(lazy, wal, keys, max_era, max_blocks) ==
    [lazy |-> lazy, wal |-> wal, keys |-> keys, max_era |-> max_era, max_blocks |-> max_blocks]

MCKeys == {k1, k2}

OneShortKey == {s1}
SharedShort == (k1 :> s1) @@ (k2 :> s1)
OneSize == s1 :> 1
MCWriters == {Writer(FALSE, TRUE, {k1}, 3, 4), Writer(FALSE, FALSE, {k1}, 2, 3),
              Writer(TRUE, TRUE, {k1}, 2, 3), Writer(TRUE, FALSE, {k1}, 1, 2),
              Writer(FALSE, TRUE, {k1, k2}, 2, 3)}

\* Nodes that share their prefix and its size can change places: the steps do not
\* tell them apart.  SetToSeq lists them in the order it likes, but a batch has
\* one operation on a key and is written in one step.
SharedSymmetry == Permutations(MCKeys)

TwoShortKeys == {s1, s2}
OwnShort == (k1 :> s1) @@ (k2 :> s2)
TwoSize == (s1 :> 1) @@ (s2 :> 2)
OneWriter == {Writer(FALSE, TRUE, {k1, k2}, 2, 3)}
===============================================================================
