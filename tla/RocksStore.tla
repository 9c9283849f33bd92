------------------------------ MODULE RocksStore ------------------------------
(***************************************************************************)
(* One Rockskvdb of db/core/src/rockskvdb.rs: a RocksDB database and the   *)
(* overlay of writes that have not been handed to it yet.                  *)
(*                                                                         *)
(* A store is a record [buf, disk] of two functions on the same keys.      *)
(* disk[k] is what RocksDB holds (Absent: nothing); buf[k] is the KeyState *)
(* of the overlay HashMap (Unbuffered: not in the map).  RocksDB itself is *)
(* external: a WriteBatch is applied as a whole or not at all.             *)
(***************************************************************************)
EXTENDS Integers, FiniteSetsExt, Sequences

CONSTANTS
    Absent,     \* RocksDB has no value for the key
    Deleted,    \* KeyState::Delete
    Unbuffered  \* the overlay does not mention the key

EmptyBuf(K) == [k \in K |-> Unbuffered]

\* get: the overlay first, the database for a key it does not mention.
View(st) ==
    [k \in DOMAIN st.disk |->
        CASE st.buf[k] = Unbuffered -> st.disk[k]
          [] st.buf[k] = Deleted    -> Absent
          [] OTHER                  -> st.buf[k]]

\* Mutant: the overlay is cleared without having been written.
FlushedUnwritten(st) == [st EXCEPT !.buf = EmptyBuf(DOMAIN st.disk)]

\* flush: one WriteBatch with everything the overlay holds.
Flushed(st) == [buf |-> EmptyBuf(DOMAIN st.disk), disk |-> View(st)]

\* flush when RocksDB refuses the batch: the overlay was drained into it.
FlushFailed(st) == [st EXCEPT !.buf = EmptyBuf(DOMAIN st.disk)]

Buffered(st) == {k \in DOMAIN st.disk : st.buf[k] # Unbuffered}

\* Mutant: an operation on a key that the overlay has already is dropped.
RecordedFirstWins(st, ops) ==
    [st EXCEPT !.buf = [k \in DOMAIN st.disk |->
        LET on == {i \in DOMAIN ops : ops[i].key = k}
        IN  IF on = {} \/ st.buf[k] # Unbuffered THEN st.buf[k] ELSE ops[Max(on)].val]]

\* put and delete record the operation: the last one on a key decides.  A
\* delete has the value Deleted.
Recorded(st, ops) ==
    [st EXCEPT !.buf = [k \in DOMAIN st.disk |->
        LET on == {i \in DOMAIN ops : ops[i].key = k}
        IN  IF on = {} THEN st.buf[k] ELSE ops[Max(on)].val]]

\* They flush an overlay that has grown beyond the limit (10000).
Overflows(st, limit) == Cardinality(Buffered(st)) > limit

\* How many of the operations are done when that happens, or all of them.
Chunk(st, ops, limit) ==
    LET full == {i \in DOMAIN ops : Overflows(Recorded(st, SubSeq(ops, 1, i)), limit)}
    IN  IF full = {} THEN Len(ops) ELSE Min(full)

\* write_buffered up to and including the first such flush.
Written(st, ops, limit) ==
    LET recorded == Recorded(st, SubSeq(ops, 1, Chunk(st, ops, limit)))
    IN  IF Overflows(recorded, limit) THEN Flushed(recorded) ELSE recorded

\* What is left to write after that.
Unwritten(st, ops, limit) == SubSeq(ops, Chunk(st, ops, limit) + 1, Len(ops))
===============================================================================
