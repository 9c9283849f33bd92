----------------------------- MODULE MCArchiveDB -----------------------------
(* The handle that was opened, alone or with one clone; one node or two.   *)
EXTENDS ArchiveDB

CONSTANTS h1, h2, k1, k2

OneHandle == {h1}
TwoHandles == {h1, h2}
OneKey == {k1}
MCKeys == {k1, k2}

\* A longer history with a write-ahead log, a shorter one without.
MCSettings == {[wal |-> TRUE, max_era |-> 2], [wal |-> FALSE, max_era |-> 1]}
ShortWithLog == {[wal |-> TRUE, max_era |-> 1]}
===============================================================================
