------------------------------- MODULE ArchiveDB -------------------------------
(***************************************************************************)
(* The journal database that keeps every node, of db/journaldb/src/        *)
(* archivedb.rs, with the clones that boxed_clone hands out: they share    *)
(* the backing database and have an overlay and a latest era of their own. *)
(***************************************************************************)
EXTENDS MemoryDB, RocksStore

Seqs == INSTANCE SequencesExt

CONSTANTS
    Handles,    \* the ArchiveDB and its clones
    First,      \* the one that was opened
    Keys,       \* trie nodes; the value of a node is the node itself
    Latest,     \* LATEST_ERA_KEY
    NoEra,      \* None
    Dropped,    \* a clone that does not exist
    MaxEra,     \* bound on eras
    Settings    \* the configurations: whether the database has a write-ahead
                \* log, and a narrower bound on eras

Eras == 0 .. MaxEra

ASSUME HandleAssumption ==
    /\ First \in Handles /\ Latest \notin Keys /\ MaxEra \in Nat
    /\ Settings \subseteq [wal : BOOLEAN, max_era : Eras]
ASSUME MarkerAssumption ==
    /\ IsFiniteSet(Keys)
    /\ NoEntry \notin Entry(Keys)
    /\ NoEra \notin Eras
    /\ {Absent, Deleted, Unbuffered} \intersect (Keys \union Eras) = {}
    /\ Deleted # Unbuffered

VARIABLES
    handles,    \* handles[h]: overlay, latest_era, and what its user is doing
    store,      \* the Rockskvdb they share
    archived,   \* history: every block written, its era and its state
    cloned,     \* history: whether there has been a second handle
    config,     \* the configuration, chosen once
    stable      \* without one: what RocksDB has written out of its memtable, and
                \* history: the blocks written by then

vars == <<handles, store, archived, cloned, config, stable>>

DbKeys == Keys \union {Latest}
Block == [era : -1 .. MaxEra, state : SUBSET Keys]
Root == [era |-> -1, state |-> {}]

Stored(db) == IF db[Latest] = Absent THEN NoEra ELSE db[Latest]

\* ArchiveDB::new.
Opened(db) ==
    [overlay |-> EmptyOver(Keys), latest_era |-> Stored(db),
     pc |-> "idle", block |-> Root, batch |-> <<>>]

\* What RocksDB has been given, and the blocks that are in it.
Given == [disk |-> store.disk, archived |-> archived]

Init ==
    /\ store = [buf |-> EmptyBuf(DbKeys), disk |-> [k \in DbKeys |-> Absent]]
    /\ handles = [h \in Handles |-> IF h = First THEN Opened(store.disk) ELSE Dropped]
    /\ archived = {Root}
    /\ cloned = FALSE
    /\ config \in Settings
    /\ stable = Given

\* What RocksDB will have after a crash, and the blocks that are in it: all that
\* it has been given, or what it has written out.
Stable == IF config.wal THEN Given ELSE stable

\* inject is for a database that nobody uses yet.
Injecting == \E h \in Handles : handles[h] # Dropped /\ handles[h].pc = "injected"

At(h, pc) == handles[h] # Dropped /\ handles[h].pc = pc

\* boxed_clone, in place of an earlier clone.
Clone(h, g) ==
    /\ handles[h] # Dropped
    /\ g \notin {h, First}
    /\ handles[h].pc \in {"idle", "exec"} /\ ~Injecting
    /\ handles[g] = Dropped \/ At(g, "idle")
    /\ handles' = [handles EXCEPT ![g] = handles[h]]
    /\ cloned' = TRUE
    /\ UNCHANGED <<store, archived, config, stable>>

\* The user of h executes a block on any block of the archive.
Begin(h, parent) ==
    /\ At(h, "idle") /\ ~Injecting
    /\ parent.era < config.max_era
    /\ handles' = [handles EXCEPT ![h].pc = "exec",
                                  ![h].block = [parent EXCEPT !.era = @ + 1]]
    /\ UNCHANGED <<store, archived, cloned, config, stable>>

Insert(h, k) ==
    /\ At(h, "exec")
    /\ k \notin handles[h].block.state
    /\ handles' = [handles EXCEPT ![h].block.state = @ \union {k},
                                  ![h].overlay[k] = EmplaceEntry(@, k)]
    /\ UNCHANGED <<store, archived, cloned, config, stable>>

Remove(h, k) ==
    /\ At(h, "exec")
    /\ k \in handles[h].block.state
    /\ handles' = [handles EXCEPT ![h].block.state = @ \ {k},
                                  ![h].overlay[k] = RemoveEntry(@)]
    /\ UNCHANGED <<store, archived, cloned, config, stable>>

\* payload, and get, which does without the overlay's if it is not live.
payload(k) == View(store)[k]

\* Mutant: what the overlay has a count for is not looked for elsewhere.
getFromOverlay(h, k) ==
    LET e == handles[h].overlay[k]
    IN  CASE e = NoEntry -> payload(k)
          [] e # NoEntry /\ e.rc > 0 -> e.val
          [] OTHER -> Absent

get(h, k) ==
    LET e == handles[h].overlay[k]
    IN  IF e # NoEntry /\ e.rc > 0 THEN e.val ELSE payload(k)

\* state: the node whose prefix is that of k, in RocksDB only.
state(k) == store.disk[k]

Signed(h, sign) == {k \in Keys : Count(handles[h].overlay[k]) * sign > 0}

Puts(S) == Seqs!SetToSeq({[key |-> k, val |-> k] : k \in S})
Deletes(S) == Seqs!SetToSeq({[key |-> k, val |-> Deleted] : k \in S})

\* Mutant: removals are applied, as in a pruning database.
JournalOpsPruning(h) == Puts(Signed(h, 1)) \o Deletes(Signed(h, -1))

JournalOps(h) == Puts(Signed(h, 1))

\* Mutant: the era journalled last is taken for the latest.
IsNewerAlways(now, era) == TRUE

IsNewer(now, era) == era = NoEra \/ now > era

\* journal_under: insertions are written, removals forgotten.
JournalUnder(h) ==
    LET now    == handles[h].block.era
        newest == IsNewer(now, handles[h].latest_era)
    IN  /\ At(h, "exec")
        /\ handles' = [handles EXCEPT
              ![h].overlay = EmptyOver(Keys),
              ![h].batch = JournalOps(h) \o
                  (IF newest THEN <<[key |-> Latest, val |-> now]>> ELSE <<>>),
              ![h].latest_era = IF newest THEN now ELSE @,
              ![h].pc = "journalled"]
        /\ UNCHANGED <<store, archived, cloned, config, stable>>

\* inject, into a database that has no block yet: an insertion of a node that
\* is there, or a removal of one that is not, fails when the overlay has
\* already been drained.
Inject(h) ==
    LET view == View(store)
        bad  == \/ \E k \in Signed(h, 1)  : view[k] # Absent
                \/ \E k \in Signed(h, -1) : view[k] = Absent
    IN  /\ At(h, "exec")
        /\ \A b \in archived : b.era = -1
        /\ \A g \in Handles \ {h} : handles[g] = Dropped \/ At(g, "idle")
        /\ handles' = [handles EXCEPT ![h] = [@ EXCEPT
              !.overlay = EmptyOver(Keys),
              !.batch = IF bad THEN <<>>
                        ELSE Puts(Signed(h, 1)) \o Deletes(Signed(h, -1)),
              !.block.era = -1,
              !.pc = IF bad THEN "idle" ELSE "injected"]]
        /\ UNCHANGED <<store, archived, cloned, config, stable>>

\* KeyValueDB::write of the batch.
Write(h) ==
    /\ At(h, "journalled") \/ At(h, "injected")
    /\ store' = Flushed(Recorded(store, handles[h].batch))
    /\ archived' = IF At(h, "injected") THEN {handles[h].block}
                   ELSE archived \union {handles[h].block}
    /\ handles' = [handles EXCEPT ![h].batch = <<>>, ![h].pc = "idle"]
    /\ UNCHANGED <<cloned, config, stable>>

\* RocksDB writes its memtable out by itself.
MemtableFlush ==
    /\ ~config.wal
    /\ stable' = Given
    /\ UNCHANGED <<handles, store, archived, cloned, config>>

\* The process dies and a new one opens what RocksDB still has: the history
\* goes back to the blocks of that.
Crash ==
    /\ store' = [buf |-> EmptyBuf(DbKeys), disk |-> Stable.disk]
    /\ archived' = Stable.archived
    /\ handles' = [h \in Handles |->
                      IF h = First THEN Opened(Stable.disk) ELSE Dropped]
    /\ UNCHANGED <<cloned, config, stable>>

Next ==
    \/ \E h \in Handles :
          \/ \E g \in Handles : Clone(h, g)
          \/ \E parent \in archived : Begin(h, parent)
          \/ \E k \in Keys : Insert(h, k) \/ Remove(h, k)
          \/ JournalUnder(h) \/ Inject(h) \/ Write(h)
    \/ MemtableFlush \/ Crash

Spec == Init /\ [][Next]_vars

-------------------------------------------------------------------------------
TypeOK ==
    /\ \A h \in Handles : handles[h] # Dropped =>
          /\ handles[h].overlay \in [Keys -> Entry(Keys) \union {NoEntry}]
          /\ handles[h].latest_era \in Eras \union {NoEra}
          /\ handles[h].pc \in {"idle", "exec", "journalled", "injected"}
          /\ handles[h].block \in Block
    /\ archived \subseteq Block /\ stable.archived \subseteq Block

\* "the states of any block the node has ever processed will be accessible":
\* every node of every block written can be read, through every handle and from
\* the backing database, whatever the handles insert and remove on top of
\* different blocks.  A crash keeps them all if there is a write-ahead log;
\* without one, which is the default, it may lose those written since RocksDB
\* wrote its memtable out, and keeps every node of those before.
ArchiveKeepsAll ==
    /\ \A b \in archived : \A k \in b.state :
          /\ state(k) = k
          /\ \A h \in Handles : handles[h] # Dropped => get(h, k) = k
    /\ \A b \in IF config.wal THEN archived ELSE stable.archived :
          \A k \in b.state : Stable.disk[k] = k

\* A block that is being executed finds what it has of its parent and what it
\* has inserted, also what was removed and inserted again: in its own handle,
\* and in one cloned from it halfway.
ExecutionReads ==
    \A h \in Handles : At(h, "exec") =>
        \A k \in handles[h].block.state : get(h, k) = k

\* latest_era: "Get the latest era in the DB. None if there isn't yet any data
\* in there."  Between two commits every handle agrees with the database, which
\* has the era of the highest block it still has.
LatestEraExact ==
    \A h \in Handles : At(h, "idle") \/ At(h, "exec") =>
        /\ handles[h].latest_era = Stored(View(store))
        /\ \A b \in archived : b.era >= 0 =>
              handles[h].latest_era # NoEra /\ handles[h].latest_era >= b.era

\* That holds, on whatever block the next one is executed and through crashes,
\* for as long as nobody clones the handle.
LatestEraAlone == ~cloned => LatestEraExact
===============================================================================
