---------------------------- MODULE OverlayRecentDB ----------------------------
(***************************************************************************)
(* The pruning journal database of db/journaldb/src/overlayrecentdb.rs, on *)
(* top of a Rockskvdb, driven by one writer the way commit_batch and the   *)
(* tests drive it, with a concurrent reader and with crashes.              *)
(*                                                                         *)
(* The writer executes blocks: a block has an era (its height), a parent   *)
(* and a state, the set of trie nodes (Keys) that the state consists of.   *)
(* What it inserts and removes while executing goes to transaction_overlay,*)
(* journal_under turns that into a journal record, mark_canonical moves    *)
(* the insertions of the record of an old block from the in-memory overlay *)
(* to the database and applies its removals.                               *)
(***************************************************************************)
EXTENDS MemoryDB, RocksStore

Seqs == INSTANCE SequencesExt

CONSTANTS
    Keys,       \* full 32-byte keys of trie nodes
    ShortKeys,  \* their first DB_PREFIX_LEN bytes
    Short,      \* to_short_key: a content hash prefix, so it decides the value
    Size,       \* the length of the value of a short key
    Latest,     \* LATEST_ERA_KEY
    NoEra,      \* None for the eras
    NoRead,     \* the reader is between two calls
    MaxEra,     \* bound on eras
    MaxBlocks,  \* bound on the blocks executed
    Writers,    \* the writers looked at: whether it is lazy, calling nothing but
                \* write_buffered, whether its database has a write-ahead log,
                \* the nodes it uses, and narrower bounds for it
    MaxCrashes, \* bound on crashes
    History,    \* how many eras stay journalled before one is made canonical
    Forks,      \* whether a block may have several children
    MaxOverlay  \* the limit of the overlay of the Rockskvdb

Eras == 0 .. MaxEra
RecordKeys == Eras \X (0 .. MaxBlocks)
DbKeys == Keys \union {Latest} \union RecordKeys

ASSUME KeyAssumption ==
    /\ IsFiniteSet(Keys)
    /\ IsFiniteSet(ShortKeys)
    /\ Short \in [Keys -> ShortKeys]
    /\ Size \in [ShortKeys -> Nat]
ASSUME BoundAssumption ==
    /\ Writers \subseteq [lazy : BOOLEAN, wal : BOOLEAN, keys : SUBSET Keys,
                           max_era : 0 .. MaxEra, max_blocks : 0 .. MaxBlocks]
    /\ {MaxEra, MaxBlocks, MaxCrashes, History, MaxOverlay} \subseteq Nat
    /\ Forks \in BOOLEAN

\* What a record of the journal keeps: the id of a block, what it inserted and
\* what it removed.
StoredRecord == [id : 1 .. (MaxBlocks + 1), ins : SUBSET Keys, del : SUBSET Keys]

\* Keys of different kinds differ in length, and None is not a value.
ASSUME MarkerAssumption ==
    /\ Latest \notin Keys \union RecordKeys
    /\ Keys \intersect RecordKeys = {}
    /\ NoEra \notin 0 .. (MaxEra + 1)
    /\ NoEntry \notin Entry(ShortKeys) \union ShortKeys
    /\ NoValue \notin ShortKeys \union {NoEntry}
    /\ {Absent, Deleted, Unbuffered} \intersect (ShortKeys \union Eras \union StoredRecord) = {}
    /\ Deleted # Unbuffered /\ Absent # Deleted /\ Absent # Unbuffered

VARIABLES
    txo,        \* transaction_overlay: a MemoryDB on Keys
    ovl,        \* backing_overlay: a MemoryDB on ShortKeys
    pending,    \* the keys of pending_overlay
    journal,    \* journal[era]: the sequence of its JournalEntry records
    latest,     \* latest_era
    earliest,   \* earliest_era
    csize,      \* cumulative_size
    batch,      \* the DBTransaction under construction, what is left to write
    store,      \* the Rockskvdb
    pc,         \* what the writer is doing
    work,       \* the block being executed: its parent and its state so far
    blocks,     \* history: every block journalled (the first one is the root)
    tip,        \* history: the block made canonical last
    snap,       \* history: [tip, blocks] as of the last written and flushed batch,
                \* and, with the disk, as of RocksDB's last memtable flush
    reader,     \* a reader between the two halves of get
    writer,     \* which of the writers this one is
    crashes

memory == <<txo, ovl, pending, journal, latest, earliest, csize>>
history == <<blocks, tip, snap>>
vars == <<memory, batch, store, pc, work, history, reader, writer, crashes>>

-------------------------------------------------------------------------------
(* Blocks.                                                                 *)

\* The block b of a history h has not been pruned out: it is the canonical tip
\* or one of its descendants.
Live(h, b) == b \in DOMAIN h.blocks /\ h.tip \in h.blocks[b].anc

Now == [tip |-> tip, blocks |-> blocks]

\* What RocksDB has been given, and the history it belongs to.
Given == [disk |-> store.disk, hist |-> snap.durable]

\* What it will have after a crash: with a write-ahead log all of that, and
\* without one (the default) what it has written out of its memtable.
Stable == IF writer.wal THEN Given ELSE snap.stable

\* What precedes everything: an empty state whose era comes before era 0.
Root == [era |-> -1, anc |-> {1}, state |-> {}]

Child(parent, state) ==
    [era   |-> blocks[parent].era + 1,
     anc   |-> blocks[parent].anc \union {Len(blocks) + 1},
     state |-> state]

-------------------------------------------------------------------------------
(* The journal overlay.                                                    *)

\* Every (record, key) that inserts a node with the short key s.
Refs(j, s) ==
    {r \in Eras \X (1 .. MaxBlocks) \X Keys :
        r[2] <= Len(j[r[1]]) /\ r[3] \in j[r[1]][r[2]].ins /\ Short[r[3]] = s}

EmptyJournal == [e \in Eras |-> <<>>]

JournalledEras(j) == {e \in Eras : j[e] # <<>>}

SumOf(S) == FoldSet(LAMBDA s, acc : acc + Size[s], 0, S)

\* The records that read_overlay finds at one era: indexes from 0 up to the
\* first one that is missing.
RecordsAt(db, e) ==
    LET n == CHOOSE n \in 0 .. (MaxBlocks + 1) :
                /\ n = MaxBlocks + 1 \/ db[<<e, n>>] = Absent
                /\ \A i \in 0 .. (n - 1) : db[<<e, i>>] # Absent
    IN  [i \in 1 .. n |-> db[<<e, i - 1>>]]

\* read_overlay walks down from the latest era and stops at the first era
\* that has no record.
ReadOverlay(db) ==
    LET top == IF db[Latest] = Absent THEN NoEra ELSE db[Latest]
        j   == [e \in Eras |->
                   IF top # NoEra /\ e <= top
                      /\ \A f \in e .. top : db[<<f, 0>>] # Absent
                   THEN RecordsAt(db, e) ELSE <<>>]
        o   == [s \in ShortKeys |->
                   EmplaceTimes(NoEntry, s, Cardinality(Refs(j, s)))]
    IN  [ovl      |-> o,
         journal  |-> j,
         latest   |-> top,
         earliest |-> IF JournalledEras(j) = {} THEN NoEra
                      ELSE Min(JournalledEras(j)),
         csize    |-> SumOf({s \in ShortKeys : Contains(o[s])})]

\* The first half of get, under the read lock of the journal overlay, whose
\* entries it reads without looking at their counts.
InMemory(k) == RawGet(ovl[Short[k]]) # NoEntry \/ Short[k] \in pending

\* get as a whole, for a handle whose transaction overlay is empty, finds the
\* node and not the placeholder of a removal.
Readable(k) ==
    /\ InMemory(k) \/ View(store)[k] # Absent
    /\ RawGet(ovl[Short[k]]) # NoValue

\* state: the overlay, then what RocksDB holds under the same prefix.
StateReadable(k) ==
    \/ InMemory(k)
    \/ \E other \in Keys : Short[other] = Short[k] /\ store.disk[other] # Absent

-------------------------------------------------------------------------------
Init ==
    /\ txo = EmptyOver(Keys)
    /\ ovl = EmptyOver(ShortKeys)
    /\ pending = {}
    /\ journal = EmptyJournal
    /\ latest = NoEra
    /\ earliest = NoEra
    /\ csize = 0
    /\ batch = <<>>
    /\ store = [buf |-> EmptyBuf(DbKeys), disk |-> [k \in DbKeys |-> Absent]]
    /\ pc = "idle"
    /\ work = [parent |-> 1, state |-> {}]
    /\ blocks = <<Root>>
    /\ tip = 1
    /\ snap = [written |-> Now, durable |-> Now,
               stable  |-> [disk |-> store.disk, hist |-> Now]]
    /\ reader = NoRead
    /\ writer \in Writers
    /\ crashes = 0

\* The writer starts to execute a block on top of a block that is still there.
Begin(parent) ==
    /\ pc = "idle"
    /\ Len(blocks) <= writer.max_blocks
    /\ blocks[parent].era < writer.max_era
    /\ Live(Now, parent)
    /\ Forks \/ parent = Len(blocks)
    /\ pc' = "exec"
    /\ work' = [parent |-> parent, state |-> blocks[parent].state]
    /\ UNCHANGED <<memory, batch, store, history, reader, writer, crashes>>

\* HashStore::insert and remove of a node that the new state gains or loses.
Insert(k) ==
    /\ pc = "exec"
    /\ k \in writer.keys \ work.state
    /\ work' = [work EXCEPT !.state = @ \union {k}]
    /\ txo' = [txo EXCEPT ![k] = EmplaceEntry(@, Short[k])]
    /\ UNCHANGED <<ovl, pending, journal, latest, earliest, csize, batch, store,
                   pc, history, reader, writer, crashes>>

Remove(k) ==
    /\ pc = "exec"
    /\ k \in work.state
    /\ work' = [work EXCEPT !.state = @ \ {k}]
    /\ txo' = [txo EXCEPT ![k] = RemoveEntry(@)]
    /\ UNCHANGED <<ovl, pending, journal, latest, earliest, csize, batch, store,
                   pc, history, reader, writer, crashes>>

Inserted(m) == {k \in Keys : Count(m[k]) > 0}
Removed(m) == {k \in Keys : Count(m[k]) < 0}

\* Mutant: every record of an era goes to the same key.
NextIndexZero(era) == 0

\* The index of the next record of an era.
NextIndex(era) == Len(journal[era])

IsNewest(now) == latest = NoEra \/ now > latest

\* Mutant: two keys with one prefix are emplaced once.
TimesInsertedOnce(ins, s) == IF \E k \in ins : Short[k] = s THEN 1 ELSE 0

\* How often the keys inserted are emplaced under one short key.
TimesInserted(ins, s) == Cardinality({k \in ins : Short[k] = s})

\* Mutant: a value that is in the overlay already is counted again.
GrownByAll(times) == {s \in ShortKeys : times[s] > 0}

\* The short keys whose values add to cumulative_size.
GrownBy(times) == {s \in ShortKeys : times[s] > 0 /\ ~Contains(ovl[s])}

\* journal_under: the transaction overlay becomes a record of era `now`.
JournalUnder ==
    LET child == Child(work.parent, work.state)
        now   == child.era
        entry == [id  |-> Len(blocks) + 1,
                  ins |-> Inserted(txo),
                  del |-> Removed(txo)]
        times == [s \in ShortKeys |-> TimesInserted(entry.ins, s)]
    IN  /\ pc = "exec"
        /\ pending' = {}
        /\ txo' = EmptyOver(Keys)
        /\ ovl' = [s \in ShortKeys |-> EmplaceTimes(ovl[s], s, times[s])]
        /\ csize' = csize + SumOf(GrownBy(times))
        /\ journal' = [journal EXCEPT ![now] = Append(@, entry)]
        /\ latest' = IF IsNewest(now) THEN now ELSE latest
        /\ earliest' = IF earliest = NoEra \/ earliest > now THEN now ELSE earliest
        /\ batch' = <<[key |-> <<now, NextIndex(now)>>, val |-> entry]>> \o
                    (IF IsNewest(now) THEN <<[key |-> Latest, val |-> now]>> ELSE <<>>)
        /\ blocks' = Append(blocks, child)
        /\ pc' = "journalled"
        /\ UNCHANGED <<store, work, tip, snap, reader, writer, crashes>>

\* The writer's choice of a block to make canonical: a child of the tip whose
\* era is History eras back.  commit_batch puts it in the batch of the block
\* just journalled; a batch of its own is as good.
MayMark(b) ==
    /\ pc = "journalled" \/ (pc = "idle" /\ latest # NoEra)
    /\ b \in DOMAIN blocks \ {tip}
    /\ Live(Now, b)
    /\ blocks[b].era = blocks[tip].era + 1
    /\ blocks[b].era + History <= latest

Puts(S) == Seqs!SetToSeq({[key |-> k, val |-> Short[k]] : k \in S})
Deletes(S) == Seqs!SetToSeq({[key |-> k, val |-> Deleted] : k \in S})

\* Mutant: the nodes on their way to the database are in neither place.
TransferringNone(ins) == {}

\* What mark_canonical adds to pending_overlay.
Transferring(ins) == {Short[k] : k \in ins}

\* Mutant: only what is still in the overlay is deleted.
DeletableInverted(dels, over) == {k \in dels : Contains(over[Short[k]])}

\* The removals that are applied: those of nodes no later block has inserted.
Deletable(dels, over) == {k \in dels : ~Contains(over[Short[k]])}

\* Mutant: the era that has just left the journal.
EarliestAfterSame(era) == era

EarliestAfter(era) == era + 1

\* mark_canonical: the records of the era leave the journal; the insertions
\* of the canonical one go to the database, and its removals too unless the
\* overlay holds the node.
MarkCanonical(b) ==
    LET era   == blocks[b].era
        recs  == journal[era]
        canon == {i \in DOMAIN recs : recs[i].id = b}
        ins   == {k \in UNION {recs[i].ins : i \in canon} :
                     ovl[Short[k]] # NoEntry /\ ovl[Short[k]].rc > 0}
        times == [s \in ShortKeys |->
                     Cardinality({r \in Refs(journal, s) : r[1] = era})]
        after == [s \in ShortKeys |-> RemoveAndPurgeTimes(ovl[s], times[s])]
        del   == Deletable(UNION {recs[i].del : i \in canon}, after)
    IN  /\ MayMark(b)
        /\ batch' = batch
             \o [i \in DOMAIN recs |-> [key |-> <<era, i - 1>>, val |-> Deleted]]
             \o Puts(ins) \o Deletes(del)
        /\ pending' = pending \union Transferring(ins)
        /\ ovl' = after
        /\ csize' = csize -
              SumOf({s \in ShortKeys : Count(ovl[s]) \in 1 .. times[s]})
        /\ journal' = [journal EXCEPT ![era] = <<>>]
        /\ earliest' = IF JournalledEras(journal') # {} THEN EarliestAfter(era) ELSE earliest
        /\ tip' = b
        /\ pc' = "marked"
        /\ UNCHANGED <<txo, latest, store, work, blocks, snap, reader, writer, crashes>>

\* inject: restore a state into a database without a journal.  The root has
\* its new nodes when the batch is written.
Inject ==
    /\ pc = "exec"
    /\ latest = NoEra
    /\ batch' = Puts(Inserted(txo)) \o Deletes(Removed(txo))
    /\ txo' = EmptyOver(Keys)
    /\ blocks' = <<[Root EXCEPT !.state = blocks[1].state \intersect work.state]>>
    /\ pc' = "marked"
    /\ UNCHANGED <<ovl, pending, journal, latest, earliest, csize, store, work,
                   tip, snap, reader, writer, crashes>>

-------------------------------------------------------------------------------
(* Writing the batch.                                                      *)

\* write_buffered: the operations of the batch go to the overlay of the
\* Rockskvdb under its write lock; when the overlay outgrows its limit on the
\* way it is flushed, and only a crash can tell.
Write ==
    /\ pc \in {"journalled", "marked", "writing"}
    /\ store' = Written(store, batch, MaxOverlay)
    /\ batch' = Unwritten(store, batch, MaxOverlay)
    /\ IF batch' # <<>>
       THEN /\ pc' = "writing"
            /\ UNCHANGED <<blocks, snap>>
       ELSE /\ pc' = "written"
            /\ blocks' = IF latest = NoEra THEN <<[Root EXCEPT !.state = work.state]>>
                         ELSE blocks
            /\ snap' = [snap EXCEPT !.written = [tip |-> tip, blocks |-> blocks']]
    /\ UNCHANGED <<memory, work, tip, reader, writer, crashes>>

\* KeyValueDB::flush, by the writer or by anyone else who uses the repository.
KvFlush ==
    /\ pc # "writing"
    /\ snap.durable # snap.written
    /\ store' = Flushed(store)
    /\ snap' = [snap EXCEPT !.durable = snap.written]
    /\ UNCHANGED <<memory, batch, pc, work, blocks, tip, reader, writer, crashes>>

\* RocksDB writes its memtable out by itself.
MemtableFlush ==
    /\ ~writer.wal
    /\ snap.stable # Given
    /\ snap' = [snap EXCEPT !.stable = Given]
    /\ UNCHANGED <<memory, batch, store, pc, work, blocks, tip, reader, writer, crashes>>

\* JournalDB::flush, which commit_batch calls after write.
ClearPending ==
    /\ pc = "written"
    /\ writer.lazy \/ snap.durable = snap.written
    /\ pending' = {}
    /\ pc' = "idle"
    /\ UNCHANGED <<txo, ovl, journal, latest, earliest, csize, batch, store,
                   work, history, reader, writer, crashes>>

\* A writer that leaves the clearing to the next journal_under.
KeepPending ==
    /\ pc = "written"
    /\ writer.lazy
    /\ pc' = "idle"
    /\ UNCHANGED <<memory, batch, store, work, history, reader, writer, crashes>>

\* The process dies and a new one opens what RocksDB still has: the history
\* goes back to the blocks of that.
Crash ==
    /\ crashes < MaxCrashes
    /\ crashes' = crashes + 1
    /\ store' = [buf |-> EmptyBuf(DbKeys), disk |-> Stable.disk]
    /\ LET found == ReadOverlay(Stable.disk)
       IN  /\ ovl' = found.ovl
           /\ journal' = found.journal
           /\ latest' = found.latest
           /\ earliest' = found.earliest
           /\ csize' = found.csize
    /\ txo' = EmptyOver(Keys)
    /\ pending' = {}
    /\ batch' = <<>>
    /\ pc' = "idle"
    /\ work' = [parent |-> 1, state |-> {}]
    /\ blocks' = Stable.hist.blocks
    /\ tip' = Stable.hist.tip
    /\ snap' = [snap EXCEPT !.written = Stable.hist, !.durable = Stable.hist]
    /\ reader' = NoRead
    /\ UNCHANGED writer

-------------------------------------------------------------------------------
(* A reader on a clone of the handle.                                      *)

\* get finds nothing in the overlays and releases their lock ...
ReadMiss(b, k) ==
    /\ reader = NoRead
    /\ Live(Now, b)
    /\ k \in blocks[b].state
    /\ ~InMemory(k)
    /\ reader' = [block |-> b, key |-> k]
    /\ UNCHANGED <<memory, batch, store, pc, work, history, writer, crashes>>

\* ... and asks the database when nobody is writing to it.
ReadPayload ==
    /\ reader # NoRead
    /\ pc # "writing"
    /\ reader' = NoRead
    /\ UNCHANGED <<memory, batch, store, pc, work, history, writer, crashes>>

Next ==
    \/ \E b \in DOMAIN blocks : Begin(b) \/ MarkCanonical(b)
    \/ \E k \in Keys : Insert(k) \/ Remove(k)
    \/ \E b \in DOMAIN blocks, k \in Keys : ReadMiss(b, k)
    \/ JournalUnder \/ Inject
    \/ Write \/ KvFlush \/ MemtableFlush \/ ClearPending \/ KeepPending
    \/ Crash \/ ReadPayload

Spec == Init /\ [][Next]_vars

-------------------------------------------------------------------------------
Slot(V) == Entry(V) \union {NoEntry}

TypeOK ==
    /\ txo \in [Keys -> Slot(ShortKeys)]
    /\ ovl \in [ShortKeys -> Slot(ShortKeys)]
    /\ pending \subseteq ShortKeys
    /\ journal \in [Eras -> Seq(StoredRecord)]
    /\ {latest, earliest} \subseteq (0 .. (MaxEra + 1)) \union {NoEra}
    /\ csize \in Nat
    /\ DOMAIN store.disk = DbKeys /\ DOMAIN store.buf = DbKeys
    /\ \A i \in DOMAIN batch : batch[i].key \in DbKeys
    /\ pc \in {"idle", "exec", "journalled", "marked", "writing", "written"}
    /\ work.parent \in DOMAIN blocks /\ work.state \subseteq Keys
    /\ tip \in DOMAIN blocks
    /\ reader = NoRead \/ reader.key \in Keys

\* Every node of every state that has not been pruned out can be read, at
\* every moment of a commit: while the insertions of a block move from the
\* journal overlay to the database, and while removals of one block and
\* insertions of its forks compete for the same node.
NoLiveNodeLost ==
    \A b \in DOMAIN blocks :
        Live(Now, b) => \A k \in blocks[b].state : Readable(k)

\* So can state(), which skips the overlay of the Rockskvdb, when every
\* commit is flushed before the pending nodes are cleared.  (An injected node
\* is never in memory: it has to wait for the flush.)
StateNeverMisses ==
    ~writer.lazy /\ latest # NoEra =>
        \A b \in DOMAIN blocks :
            Live(Now, b) => \A k \in blocks[b].state : StateReadable(k)

\* A reader whose block is still alive finds in the database what it missed in
\* memory, whatever happened between the two halves of its get.
ReaderNeverMisses ==
    reader # NoRead /\ Live(Now, reader.block)
                    /\ reader.key \in blocks[reader.block].state
        => View(store)[reader.key] # Absent

\* get and state() of other handles never miss a node of a live block.
ReadersNeverMiss == StateNeverMisses /\ ReaderNeverMisses

\* After a crash the states of a history can be read: from the overlay that
\* read_overlay rebuilds and from what RocksDB still has.
Survives(h) ==
    LET found == ReadOverlay(Stable.disk)
    IN  \A b \in DOMAIN h.blocks :
            Live(h, b) => \A k \in h.blocks[b].state :
                RawGet(found.ovl[Short[k]]) = Short[k] \/ Stable.disk[k] # Absent

\* A crash at any moment leaves a database from which every state not pruned
\* out can be read, as of some flush: with a write-ahead log the last one, so
\* that nothing flushed is lost, and without one, which is the default and may
\* lose what was flushed, the last before RocksDB wrote its memtable out.
CrashSafe == Survives(IF writer.wal THEN snap.durable ELSE snap.stable.hist)

\* commit_batch: "Commit all changes in a single batch".  A crash leaves the
\* states as they were after an earlier batch or as they are after this one.
AtomicCommit == Survives(Stable.hist) \/ Survives(Now)

\* can_reconstruct_refs of the tests: between two commits the database holds
\* exactly what is needed to rebuild the overlay, the journal, the latest era
\* and the cumulative size that are kept in memory.
CanReconstructRefs ==
    pc \in {"idle", "exec"} =>
        LET found == ReadOverlay(View(store))
        IN  /\ found.ovl = ovl
            /\ found.journal = journal
            /\ found.latest = latest
            /\ found.csize = csize

\* earliest_era is the first era that has a record, also after a crash.
EarliestEraExact ==
    JournalledEras(journal) # {} => earliest = Min(JournalledEras(journal))

\* While there are no forks nothing leaks: a node in the database belongs to
\* the canonical state or is about to be written again by a journalled block.
\* (Of two nodes with one prefix, one may keep the other from being removed.)
NoLeak ==
    (\A k, l \in writer.keys : k # l => Short[k] # Short[l]) /\
    (\A a, b \in DOMAIN blocks : a # b => blocks[a].era # blocks[b].era) =>
        \A k \in Keys :
            pc \in {"idle", "exec"} /\ View(store)[k] # Absent
                => \/ k \in blocks[tip].state
                   \/ \E e \in Eras : \E i \in DOMAIN journal[e] : k \in journal[e][i].ins
===============================================================================
