------------------------------ MODULE DbRepository ------------------------------
(***************************************************************************)
(* The repository of named databases of db/core/src/dbrepository.rs: one   *)
(* Rockskvdb per name, each behind an RwLock of its own, used by several   *)
(* threads at once.                                                        *)
(*                                                                         *)
(* write(transaction) is write_buffered, which takes the lock of one       *)
(* database after the other in the order of a hash map, followed by flush, *)
(* which takes them again in the order of db_priority and gives up at the  *)
(* first that fails.  Nothing spans two databases.                         *)
(***************************************************************************)
EXTENDS RocksStore

CONSTANTS
    Threads,
    Dbs,        \* the configured database names
    Priority,   \* db_priority: the same, in the order of the configuration
    Keys,
    Values,     \* what is put
    TxIds,      \* the transactions that are written, each once
    Ops,        \* Ops[t][d]: the operations of transaction t on database d
    Free,       \* nobody holds the write lock
    Settings,   \* the configurations: wal (DatabaseConfig::wal), limit (of an
                \* overlay), fails (RocksDB may refuse a WriteBatch), serial
                \* (the threads take turns)
    MaxCrashes  \* bound on crashes

\* A put or, with the value Deleted, a delete.
DBOp == [key : Keys, val : Values \union {Deleted}]

ASSUME DbAssumption ==
    /\ Priority \in Seq(Dbs)
    /\ \A i, j \in DOMAIN Priority : Priority[i] = Priority[j] => i = j
    /\ \A d \in Dbs : \E i \in DOMAIN Priority : Priority[i] = d
    /\ Ops \in [TxIds -> [Dbs -> Seq(DBOp)]]
    /\ Unbuffered \notin Values \union {Deleted}
    /\ Settings \subseteq [wal : BOOLEAN, limit : Nat, fails : BOOLEAN, serial : BOOLEAN]
    /\ MaxCrashes \in Nat

VARIABLES
    config,     \* the configuration, chosen once
    dbs,        \* dbs[d]: the Rockskvdb
    stable,     \* stable[d]: what RocksDB will hold after a crash
    lock,       \* lock[d]: the thread that is writing to d
    pc,         \* pc[w]: "idle", "buffering" or "flushing"
    tx,         \* tx[w]: the transaction that w writes
    todo,       \* todo[w][d]: its operations that are still to be buffered
    pos,        \* pos[w]: the position of flush in db_priority
    hist,       \* history: hist[d], every operation accepted by d
    given,      \* history: given[d], how many of them RocksDB was given
    kept,       \* history: kept[d], how many of them are in stable[d]
    acked,      \* history: transactions whose write returned Ok
    crashes

vars == <<config, dbs, stable, lock, pc, tx, todo, pos, hist, given, kept, acked, crashes>>

Nothing == [d \in Dbs |-> <<>>]
Nowhere == [k \in Keys |-> Absent]

Fresh(disk) == [buf |-> EmptyBuf(Keys), disk |-> disk]

Init ==
    /\ config \in Settings
    /\ dbs = [d \in Dbs |-> Fresh(Nowhere)]
    /\ stable = [d \in Dbs |-> Nowhere]
    /\ lock = [d \in Dbs |-> Free]
    /\ pc = [w \in Threads |-> "idle"]
    /\ tx \in [Threads -> TxIds]
    /\ todo = [w \in Threads |-> Nothing]
    /\ pos = [w \in Threads |-> 1]
    /\ hist = Nothing
    /\ given = [d \in Dbs |-> 0]
    /\ kept = [d \in Dbs |-> 0]
    /\ acked = {}
    /\ crashes = 0

Started(t) ==
    \/ \E w \in Threads : pc[w] # "idle" /\ tx[w] = t
    \/ \E d \in Dbs : \E i \in DOMAIN hist[d] : hist[d][i].tx = t

\* A thread calls write.
StartWrite(w, t) ==
    /\ pc[w] = "idle"
    /\ config.serial => \A other \in Threads : pc[other] = "idle"
    /\ ~Started(t)
    /\ pc' = [pc EXCEPT ![w] = "buffering"]
    /\ tx' = [tx EXCEPT ![w] = t]
    /\ todo' = [todo EXCEPT ![w] = Ops[t]]
    /\ UNCHANGED <<config, dbs, stable, lock, pos, hist, given, kept, acked, crashes>>

\* RocksDB has taken what the overlay of d held: it is in the write-ahead log,
\* if there is one, and otherwise only in RocksDB's memory.
Taken(d) ==
    /\ given' = [given EXCEPT ![d] = Len(hist'[d])]
    /\ stable' = IF config.wal THEN [stable EXCEPT ![d] = dbs'[d].disk] ELSE stable
    /\ kept' = IF config.wal THEN [kept EXCEPT ![d] = given'[d]] ELSE kept

NotTaken == UNCHANGED <<stable, given, kept>>

\* Mutant: the lock outlives the operations.
HolderAfterStuck(w, left) == w

\* The write guard is dropped when the operations of the database are done.
HolderAfter(w, left) == IF left = <<>> THEN Free ELSE w

\* write_buffered, in one database: all operations under one lock.  An overlay
\* that fills up is flushed on the way, and put ignores how that went.
BufferDb(w, d) ==
    /\ pc[w] = "buffering"
    /\ todo[w][d] # <<>>
    /\ lock[d] \in {Free, w}
    /\ \E n \in {Chunk(dbs[d], todo[w][d], config.limit)} :
          LET done == SubSeq(todo[w][d], 1, n)
          IN  /\ hist' = [hist EXCEPT ![d] = @ \o
                             [i \in 1 .. n |->
                                 [tx |-> tx[w], key |-> done[i].key, val |-> done[i].val]]]
              /\ todo' = [todo EXCEPT ![w][d] = SubSeq(@, n + 1, Len(@))]
              /\ lock' = [lock EXCEPT ![d] = HolderAfter(w, todo'[w][d])]
              /\ \E recorded \in {Recorded(dbs[d], done)} :
                    \/ /\ Overflows(recorded, config.limit)
                       /\ dbs' = [dbs EXCEPT ![d] = Flushed(recorded)]
                       /\ Taken(d)
                    \/ /\ Overflows(recorded, config.limit) /\ config.fails
                       /\ dbs' = [dbs EXCEPT ![d] = FlushFailed(recorded)]
                       /\ NotTaken
                    \/ /\ ~Overflows(recorded, config.limit)
                       /\ dbs' = [dbs EXCEPT ![d] = recorded]
                       /\ NotTaken
    /\ UNCHANGED <<config, pc, tx, pos, acked, crashes>>

\* write goes on with flush.
StartFlush(w) ==
    /\ pc[w] = "buffering"
    /\ todo[w] = Nothing
    /\ pc' = [pc EXCEPT ![w] = "flushing"]
    /\ pos' = [pos EXCEPT ![w] = 1]
    /\ UNCHANGED <<config, dbs, stable, lock, tx, todo, hist, given, kept, acked, crashes>>

\* Mutant: the databases are flushed from the last one on.
NthBackwards(i) == Priority[Len(Priority) + 1 - i]

\* flush visits the databases in the order of db_priority.
Nth(i) == Priority[i]

\* Mutant: flush stops short of the last database.
FlushedAllButOne(w) == pos[w] >= Len(Priority)

FlushedAll(w) == pos[w] > Len(Priority)

\* flush, one database: the next in db_priority.
FlushDb(w) ==
    /\ pc[w] = "flushing"
    /\ pos[w] \in DOMAIN Priority
    /\ LET d == Nth(pos[w])
       IN  /\ lock[d] = Free
           /\ dbs' = [dbs EXCEPT ![d] = Flushed(@)]
           /\ hist' = hist
           /\ Taken(d)
    /\ pos' = [pos EXCEPT ![w] = @ + 1]
    /\ UNCHANGED <<config, lock, pc, tx, todo, acked, crashes>>

\* The write returns Ok.
Ack(w) ==
    /\ pc[w] = "flushing"
    /\ FlushedAll(w)
    /\ acked' = acked \union {tx[w]}
    /\ pc' = [pc EXCEPT ![w] = "idle"]
    /\ UNCHANGED <<config, dbs, stable, lock, tx, todo, pos, hist, given, kept, crashes>>

\* RocksDB refuses the batch and the write returns FlushError.
FlushFails(w) ==
    /\ config.fails
    /\ pc[w] = "flushing"
    /\ pos[w] \in DOMAIN Priority
    /\ LET d == Nth(pos[w])
       IN  /\ lock[d] = Free
           /\ Buffered(dbs[d]) # {}
           /\ dbs' = [dbs EXCEPT ![d] = FlushFailed(@)]
    /\ pc' = [pc EXCEPT ![w] = "idle"]
    /\ UNCHANGED <<config, stable, lock, tx, todo, pos, hist, given, kept, acked, crashes>>

\* RocksDB writes its memtable out by itself.
MemtableFlush(d) ==
    /\ ~config.wal
    /\ kept[d] # given[d]
    /\ stable' = [stable EXCEPT ![d] = dbs[d].disk]
    /\ kept' = [kept EXCEPT ![d] = given[d]]
    /\ UNCHANGED <<config, dbs, lock, pc, tx, todo, pos, hist, given, acked, crashes>>

\* The process dies; init opens every database again.
Crash ==
    /\ crashes < MaxCrashes
    /\ crashes' = crashes + 1
    /\ dbs' = [d \in Dbs |-> Fresh(stable[d])]
    /\ hist' = [d \in Dbs |-> SubSeq(hist[d], 1, kept[d])]
    /\ given' = kept
    /\ lock' = [d \in Dbs |-> Free]
    /\ pc' = [w \in Threads |-> "idle"]
    /\ todo' = [w \in Threads |-> Nothing]
    /\ UNCHANGED <<config, stable, tx, pos, kept, acked>>

\* The repository is dropped, which flushes it, and opened again.  Dropping a
\* Rockskvdb closes RocksDB, which writes its memtable out.
Reopen ==
    /\ ~config.fails
    /\ \A w \in Threads : pc[w] = "idle"
    /\ \E d \in Dbs : kept[d] # Len(hist[d])
    /\ dbs' = [d \in Dbs |-> Flushed(dbs[d])]
    /\ stable' = [d \in Dbs |-> View(dbs[d])]
    /\ given' = [d \in Dbs |-> Len(hist[d])]
    /\ kept' = given'
    /\ UNCHANGED <<config, lock, pc, tx, todo, pos, hist, acked, crashes>>

\* One step of a thread that is inside write.
WriteStep(w) ==
    \/ \E d \in Dbs : BufferDb(w, d)
    \/ StartFlush(w) \/ FlushDb(w) \/ Ack(w) \/ FlushFails(w)

Next ==
    \/ \E w \in Threads :
          \/ \E t \in TxIds : StartWrite(w, t)
          \/ WriteStep(w)
    \/ \E d \in Dbs : MemtableFlush(d)
    \/ Crash \/ Reopen

Spec == Init /\ [][Next]_vars

-------------------------------------------------------------------------------
TypeOK ==
    /\ config \in Settings
    /\ \A d \in Dbs : /\ DOMAIN dbs[d].buf = Keys /\ DOMAIN dbs[d].disk = Keys
                      /\ DOMAIN stable[d] = Keys
                      /\ 0 <= kept[d] /\ kept[d] <= given[d] /\ given[d] <= Len(hist[d])
    /\ \A d \in Dbs : lock[d] # Free => todo[lock[d]][d] # <<>>
    /\ pc \in [Threads -> {"idle", "buffering", "flushing"}]
    /\ tx \in [Threads -> TxIds]
    /\ pos \in [Threads -> 1 .. (Len(Priority) + 1)]
    /\ acked \subseteq TxIds

\* What a database holds after a sequence of operations, and nothing else.
Replay(ops) ==
    [k \in Keys |->
        LET on == {i \in DOMAIN ops : ops[i].key = k}
        IN  IF on = {} \/ ops[Max(on)].val = Deleted THEN Absent ELSE ops[Max(on)].val]

\* A database shows every operation it accepted, and what it has after a crash
\* is a prefix of them: no operation is lost, repeated or reordered between
\* the overlay, the WriteBatch and RocksDB, whichever threads flush when, as
\* long as RocksDB takes what it is given.
PrefixDurable ==
    ~config.fails =>
        \A d \in Dbs :
            /\ View(dbs[d]) = Replay(hist[d])
            /\ stable[d] = Replay(SubSeq(hist[d], 1, kept[d]))

\* write: "Commit transaction to database and flush to db".  When it returned
\* Ok, the last operation on a key that belongs to such a transaction is on
\* disk, also when another thread's flush took it there.
AckedOnDisk ==
    \A d \in Dbs, k \in Keys :
        LET on == {i \in DOMAIN hist[d] : hist[d][i].key = k}
            op == hist[d][Max(on)]
        IN  on # {} /\ op.tx \in acked
                => stable[d][k] = IF op.val = Deleted THEN Absent ELSE op.val

\* The write-ahead log keeps that promise unless RocksDB refuses a batch.
AckedDurable == config.wal /\ ~config.fails => AckedOnDisk

\* The overlay of d is too small for a transaction that is written.
MayOverflow ==
    \E d \in Dbs, t \in TxIds :
        Cardinality({Ops[t][d][i].key : i \in DOMAIN Ops[t][d]}) > config.limit

\* db_priority: when the writers take turns, a transaction that reached a
\* database reached every database of a higher priority before, so a crash in
\* the middle of flush never leaves the lower one ahead.
PriorityOrder ==
    config.serial /\ config.wal /\ ~config.fails /\ ~MayOverflow =>
        \A i, j \in DOMAIN Priority : i < j =>
            \A n \in 1 .. kept[Priority[j]] :
                LET t == hist[Priority[j]][n].tx
                IN  \A m \in DOMAIN hist[Priority[i]] :
                        hist[Priority[i]][m].tx = t => m <= kept[Priority[i]]

\* Every write ends, with Ok or with an error: the locks are taken one at a
\* time, so no two writers can wait for each other's.
WritesEnd == \A w \in Threads : pc[w] # "idle" ~> pc[w] = "idle"

\* A thread that can go on again and again does: a lock that is released again
\* and again is taken.
FairSpec == Spec /\ \A w \in Threads : SF_vars(WriteStep(w))
===============================================================================
