# A TLA+ development of aion_utils

This directory holds TLA+ models of the state and storage core of `aion_utils`
and of the libraries around it, the TLC configurations that check them and the theorems about them that TLAPS checks.
The code is the reference: every definition that stands for code is listed in
`PROJECT.json` under `map` with the lines it translates.

    tlc -config Overlay.cfg MCOverlayRecentDB.tla     check a model
    tlapm OverlayRecentDBProofs.tla                   check the proofs

## 1. The system

`aion_utils` is the set of utility crates of the Aion Rust kernel.  Its core is
the path of a piece of state from an account to the disk:

    accounts (Account, AccountDB)     balance, nonce, code, storage caches
      -> patricia_trie (TrieDBMut)    nodes keyed by their hash
        -> HashStore (MemoryDB)       reference counts, insertions and removals
          -> journaldb (ArchiveDB, OverlayRecentDB)
                                      eras, journal records, pruning
            -> DbRepository           one transaction over several databases
              -> Rockskvdb            write overlay, WriteBatch, RocksDB

Around it are encoding (`rlp`, `rlp_derive`, `json`, `avm_abi`), hashing
(`blake2b`, `triehash`, `plain_hasher`, `ethbloom`), data and conversions
(`common_types`, `aion-types`, `bytes`, `error`) and tooling (`logger`,
`terminal`, `macros`).

### Components, their state and their operations

| component | source | state | operations that change it | what makes it correct |
|---|---|---|---|---|
| MemoryDB | `db/core/src/memorydb.rs` | map key -> (value, i32 count) | insert, emplace, remove, remove_and_purge, consolidate, purge, drain, clear | a signed count per key; a slot with a non-negative count has its key's value |
| Rockskvdb | `db/core/src/rockskvdb.rs` | RocksDB, an overlay HashMap of pending puts and deletes | put, delete, flush, drop, open | a read sees the last operation on the key; the disk is a prefix of what was accepted |
| DbRepository | `db/core/src/dbrepository.rs`, `dbtransaction.rs`, `traits/kvdb.rs` | an RwLock'ed Rockskvdb per name, `db_priority` | write, write_buffered, flush, drop, reopen | what write acknowledged is durable; higher priorities first; every write returns |
| OverlayRecentDB | `db/journaldb/src/overlayrecentdb.rs` | transaction overlay; shared journal overlay: counted nodes, pending nodes, records per era, latest and earliest era, size | insert, remove, journal_under, mark_canonical, inject, flush, consolidate, new | no node of a live block is ever unreadable; the memory can be rebuilt from the disk; pruned nodes go |
| ArchiveDB | `db/journaldb/src/archivedb.rs` | overlay, own copy of the latest era | insert, remove, journal_under, inject, boxed_clone, new | the states of all blocks stay readable; the latest era is the latest |
| Account | `accounts/src` | balance, nonce, root, code (hash, cache, size, filth), storage changes, LRU caches | set_storage, storage_at, commit_storage, init_code, commit_code, cache_*, clone_*, overwrite_with | a read sees the last write, or what the trie has; committed code is in the database |
| repositories | `db/core/src/dbrepository.rs`, `mockkvdb.rs` | the open databases by name | open_all, write_buffered, flush | iterators and reads by prefix show what get shows; the mock behaves as the real one |
| AccountDB | `accounts/src/account_db.rs` | none (a wrapper of a HashStore) | insert, emplace, remove | accounts with equal nodes do not take them from each other |
| TrieDBMut | `patricia_trie/src/triedbmut.rs` | in-memory node arena, death row, root | insert, remove, commit | the trie is canonical for its contents; after a commit the database has its nodes and no others |
| arena | `patricia_trie/src/triedbmut.rs` | slots of nodes, free slots | alloc, destroy, take, put back | a slot in use has one handle |
| trie readers | `patricia_trie/src/lookup.rs`, `triedb.rs`, `recorder.rs` | the path of an iterator, the records of a recorder | next, seek, record | a lookup or an iteration sees what was inserted; a record proves it |
| secure and fat tries | `patricia_trie/src/sectriedb*.rs`, `fatdb*.rs` | the hashed keys' originals | insert, remove | every kind reads as the same dictionary |
| RLP | `rlp/src`, `rlp_derive/src` | the buffer and the stack of unfinished lists of RlpStream, the offset cache of a reader | append, begin_list, ..., at, item_count | what is encoded decodes to the same; what is cut off is refused |
| blake2b | `blake2b/src` | chain, counter, buffered block | update, finalize | the hash does not depend on the portions |
| logger | `logger/src` | the installed logger, its file, the last 128 lines | setup_log, init_log, format | one logger per process; the newest lines, in order |
| pure conversions | `aion-types`, `bytes`, `avm_abi`, `nibbleslice.rs`, `nibblevec.rs`, `node.rs`, `triehash`, `ethbloom`, `common_types`, `json` | none | none | see `Libraries` below |

The remaining crates have no state of their own; `PROJECT.json` lists each of
them with the reason why it is left out.

### How they interact

* A writer (the block executor, outside this repository) inserts and removes
  trie nodes in the journal database's transaction overlay, calls
  `journal_under` with an era and a block id, `mark_canonical` for a block some
  eras back, writes the resulting `DBTransaction` through
  `KeyValueDB::write` (or `write_buffered`, with a flush later) and calls
  `JournalDB::flush` to drop the nodes that were on their way to the database.
  `JournalDB::commit_batch` (`db/journaldb/src/traits.rs:98`) is that sequence.
* Readers hold clones of the journal database.  The clones of an
  OverlayRecentDB share the journal overlay behind an RwLock; the clones of an
  ArchiveDB share only the backing database.
* `KeyValueDB` is shared by all threads of the process.  Every database has a
  lock of its own, held for all operations of one transaction on that database
  and for the flush of that database, never for two databases at once.

### What is hard

* Reference counts that go below zero and come back, in two maps that are
  merged (MemoryDB).
* A node that moves from the overlay to the database while somebody reads it
  (`get` asks in two steps), and forks that insert and remove the same node.
* Crashes: what RocksDB has after one, and what `read_overlay` makes of it.
* Partial failure: an overlay is drained before the batch is accepted.
* Limits: an overlay of more than 10000 keys flushes itself in the middle of a
  transaction; the LRU caches of an account evict; the ring of the log wraps.
* Names and files: a database that does not open is left out silently, and may
  open again later.
* Bookkeeping by counting: RLP lists whose headers are written when their last
  item is, carry chains, bit positions, offsets of one nibble.
* Stale copies: the latest era of a cloned ArchiveDB, cached storage values.
* Copies of an account that are saved, gone back to and merged, each with
  dirty code, uncommitted storage and a cache.
* A trie of which part is in memory (new or loaded), part in the database and
  part inlined in its parents, and that must come out the same whatever the
  order of the operations.

`PROJECT.json` lists each of these under `hazards` at the line where it bites.

## 2. The modules

| module | models | state and actions |
|---|---|---|
| `MemoryDB` | the operations of `memorydb.rs` on one entry of the map | operators only; `EmplaceTimes` and `RemoveAndPurgeTimes` are closed forms of repeated calls |
| `MemoryDBSpec` | a MemoryDB and the overlay consolidated into it | `data`, `other`; one action per method |
| `RefCountStore` | the abstract promise: a signed count per key | `counts`, `staged` |
| `RocksStore` | one Rockskvdb: `[buf, disk]` | operators: `View` (get), `Recorded` (put/delete), `Written` (a transaction up to the first overflow), `Flushed`, `FlushFailed` |
| `DbRepository` | several databases, several threads | one action per lock region: `BufferDb` (write_buffered in one database), `FlushDb` (flush of one database), `Ack`, `FlushFails`, `MemtableFlush`, `Crash`, `Reopen` |
| `OverlayRecentDB` | the pruning journal database, its writer, a reader, crashes | `JournalUnder`, `MarkCanonical`, `Inject`, `Write`, `KvFlush`, `ClearPending`, `KeepPending`, `ReadMiss`/`ReadPayload` (the two halves of `get`); `MemtableFlush` and `Crash`, after which the history goes back to what RocksDB still has |
| `ArchiveDB` | the archive journal database and its clones | `handles`, `store`, `config` (with a write-ahead log or without), `stable` (what a crash leaves without one); `Clone`, `JournalUnder`, `Inject`, `Write`, `MemtableFlush`, `Crash` |
| `Account` | one account, its storage and code, and the copies the state layer works on | `base`, `work`, `saved` (copies), `stored` (the RLP in the state trie), `codeDb`; one action per operation on the working copy (`SetStorage`, `StorageAt`, `CommitStorage`, `InitCode`, `CommitCode`, ...) and per use of the clones (`BeginBlock`, `Checkpoint`, `Revert`, `EndBlock`, `Restart`) |
| `TrieNodes` | encoded trie nodes, their length, and triehash's root of a dictionary | operators only |
| `TrieDBMut` | the mutable trie over a counting database | `root_handle` (the trie as far as it is in memory), `death_row`, `db`, `root`; actions `insert`, `remove`, `commit`, `Reopen` |
| `TrieDB` | lookups with a recorder, the iterator's trail of crumbs, `next` and `seek`, on a database that may lack nodes | operators, applied to every committed trie |
| `NodeStorage` | the arena of TrieDBMut: handles, free slots, nodes taken out by the calls under way, failures halfway | `storage`, `root_handle`, `hand`, `committing`; `TakeRoot`, `TakeChild`, `TakeChildFails`, `NewChild`, `PutBack`, `Delete`, ..., `Commit`, `CommitNode` |
| `TrieKinds` | generic, secure and fat tries over a raw one | `raw`, `aux` (the fat trie's key records); `Insert`, `Remove` |
| `Rlp` | encoders and decoders of every type, the reader | operators only |
| `RlpStream` | a stream and a reader of what it gave out | `stream`, `rlp`; one action per method |
| `NibbleSlice`, `NodeCodec` | nibble views, nibble vectors, the two prefix encoders; nodes to and from RLP | operators only |
| `Repositories` | the real and the mock repository under the same calls of one thread | `dbs`, `files`, `mock`; `write_buffered`, `flush`, `open_all` |
| `AccountDB` | accounts over one MemoryDB, with mangled or plain keys | `db`; `Insert`, `Remove` |
| `Blake2b` | the incremental hasher, with a key or without | `hasher`; `New`, `Update` (all turns of the loop, `Turn`), `Finalize`, `Drop` |
| `Logger` | threads that set up a logger and log | one action per step that another thread can see |
| `Uint`, `ByteUtils`, `AbiToken`, `Receipts`, `JsonInput` | 256-bit words; buffers and words of bytes; tokens of a call; blooms, logs, filters and receipts; the lenient JSON readers | operators only |
| `Libraries` | `Blake2b`, `TrieKinds`, `AccountDB`, `Logger`, `NodeStorage` and `Repositories`: parts with a state of their own, which share nothing | instances, and the property that each of them has |
| `SetLemmas`, `StoreLemmas` | what the proofs share about sets and sequences, and about `RocksStore` | lemmas |
| `MemoryDBProofs`, `OverlayRecentDBProofs`, `ArchiveDBProofs`, `DbRepositoryProofs`, `AccountProofs`, `LibraryProofs` | the inductive invariant of a component, and its theorems | see section 4 |
| `MCLibraries` | `Libraries`, and the other modules above that do not touch each other's state, in one run | `part` chooses the one a behaviour is about; `call` applies the pure ones to inputs |

`OverlayRecentDB` and `ArchiveDB` compose `MemoryDB` (their overlays) with
`RocksStore` (their backing database); `DbRepository` and `Repositories` compose
several `RocksStore`s; `AccountDB` and `TrieKinds` build on `MemoryDB`,
`TrieDBMut` and `TrieDB` on `TrieNodes`, `NodeCodec` and `Receipts` on `Rlp`.
The other `MC*` modules only give values to constants.  Operators
whose comment begins with "Mutant:" are deliberately wrong variants of the
operator after them.  They are part of no specification: a property is worth
its run if it fails when the variant takes the operator's place.

### Abstractions

* A key is a content hash, so the value of a key is a function of the key: in
  the journal databases the value stored under a key *is* its short key or the
  key itself.  Rust's `i32` counts are integers; `MaxCount` bounds them.
* A journal record is one value in the database; its RLP form is left out.
* A DBTransaction is a sequence of operations.  RocksDB applies a WriteBatch
  as a whole or not at all, and keeps it across a crash if it has a
  write-ahead log; without one, which is the default (`dbconfigs.rs:73`,
  `rockskvdb.rs:83`), `MemtableFlush` decides when what it was given is safe (in
  the order it was given), and a crash goes back to that.  This is so in
  `DbRepository`, `OverlayRecentDB` and `ArchiveDB` alike, each of which has both
  kinds of database.  A crash is the end of the process, not of the machine: the
  code does not ask RocksDB to sync its log.
* The writer inserts a node its state lacks and removes one its state has:
  counts in a transaction overlay are -1, 0 or 1.  That is the contract the
  journal databases assume (`assert!(rc == -1)`, `archivedb.rs:142`); a node
  that one trie refers to twice is outside it.
* An account's storage trie is canonical (that is what `Canonical` of
  `TrieDBMut` says), so that in `Account` a trie is its contents.  One LRU
  cache stands for the two of an FVM account: the model assumes that no key is
  used both as Normal and as Wide.  Balance and nonce are left out.
  What `commit_storage` writes is `encode` of a value and what `storage_at` reads
  is `decode` of it.  They undo each other but for one kind of value: a Wide one
  is written as a string of 32 bytes (`accounts.rs:125`) and read as a number
  (`accounts.rs:541`), whose decoder refuses a leading zero byte
  (`rlp/src/impls.rs:241`), and `decode` unwraps its answer
  (`rlp/src/rlpin.rs:203`).  A read of such a value panics when neither the changes
  nor the cache has it.  These values are the constant `Padded`.  This is a fault
  of the code that no comment or test of it speaks of; `ReadsLastWrite` says how
  far it reaches.
* A trie node is a term, and its hash is the term marked as a hash; whether a
  node is inlined depends on the length of its RLP, which is computed.  Keys
  are sequences of an even number of nibbles.  In `TrieDBMut` a handle in
  memory is the node; `OneOwner` of `NodeStorage` is why that is sound, and
  `NodesReadBack` checks the lengths it computes against the encoder's.
* A block that is executed on a parent has the parent's era plus one; a block
  is made canonical when its parent is the canonical tip and `History` eras
  have been journalled after it.
* A hash of bytes is an opaque injective function, except in `Blake2b`, where
  it is the chain of blocks given to the compression function, and in
  `Receipts`, where a table gives the bytes that choose the bits of a bloom.
* `NodeStorage` knows of a node only its children: which slot is reached by
  which handle does not depend on keys and values.

## 3. The runs

`expect: pass` (every property has a mutant of the code that breaks it):

| run | what it shows |
|---|---|
| `MCMemoryDB` | `LiveValues`: no reader is ever handed the empty placeholder of a removal on a vacant slot, whatever the order of insertions, removals, purges and merges.  `CountsImplemented`: MemoryDB implements `RefCountStore`. |
| `Overlay` | `NoLiveNodeLost`: at every step of a commit every node of every live block can be read.  `ReadersNeverMiss`: so can a reader whose `get` is caught between its halves (`ReaderNeverMisses`), and `state()`, which sees only flushed values (`StateNeverMisses`).  `CrashSafe`: after a crash the states of the last flush are there, and without a write-ahead log those of the last flush before RocksDB wrote its memtable out.  `CanReconstructRefs`, the tests' own criterion: what is on disk rebuilds what is in memory.  `EarliestEraExact`.  `NoLeak`: without forks pruning is exact. |
| `KvConcurrent` | `PrefixDurable`: every database shows what it accepted, and after a crash a prefix of it.  `AckedDurable`: with the write-ahead log, an acknowledged write is on disk.  `PriorityOrder`: with writers that take turns a database never gets ahead of one with a higher priority.  `WritesEnd`: every write returns. |
| `ArchiveClones` | `ArchiveKeepsAll`: the states of all blocks written stay readable through every handle, and a crash loses none of them with a write-ahead log, and none of those written out of the memtable without one.  `ExecutionReads`: a block that is executed finds its own nodes, old and new.  `LatestEraAlone`: one handle always knows the highest era that the database has, also after a crash. |
| `Account` | `ReadsLastWrite`: a read of the working copy answers with the last write that was not reverted, through commits, evictions, clones and merges; it panics, as the code does, only on a Wide value with a leading zero byte that it has to decode, and never answers with another value.  `CacheCoherent`: what a clean copy has cached is what its trie has.  `RootTellsAll`: the root of a clean copy is that of all that was set.  `CodeKept`: the code behind an account's hash is in the account or in the database. |
| `Trie` | `Canonical`: the root is always the one `triehash` computes from the contents.  `AnswersRight` (`ReadsAgree`, `OldValuesReturned`): `get`, `insert` and `remove` answer right with any part of the trie in memory, and never find the database incomplete.  `CommitsRight`: a node that keeps its hash is unchanged (`CachedAreOriginal`), and a commit (`CommitExact`) leaves the nodes of the trie, each as often as it occurs, and nothing else, unless a node has occurred twice: `death_row` is a set, so that two deaths of one node in a commit leave a copy behind.  Of every committed trie: `IteratorsExact`: an iterator gives all elements, in order (`IteratesAll`), from a key that is there on, too (`SeeksPresent`), and a missing node costs its own subtree and one error (`IteratesAroundMissing`).  `RecordsProve`: what a recorder has is enough to repeat the lookup. |
| `Libraries` | see the next table |

`Libraries` checks, part by part (the names in brackets are conjuncts of the
property in front of them):

| part | what it shows |
|---|---|
| streams | `StreamsWrite`: whatever is appended, the buffer has the encodings, the headers of nested lists that end together included (`WritesEncodings`), and `append_raw_checked` keeps to its limit (`EstimatesSize`).  `StreamsRead`: the offset cache does not change what `at` finds (`ReadsItems`); every value decodes to itself (`DecodesBack`), and not from fewer bytes (`RefusesCut`); of all short byte strings an integer accepts only what it is written as, but for bytes behind it (`OneEncoding`). |
| hasher | `HashesWhatWasFed`: the chain is that of the bytes fed, whatever the portions, across the overflow of the counter's low word |
| tries | `KindsAgree`: generic, secure and fat tries read as one dictionary; a fat one enumerates its keys |
| accounts | `AccountsApart`: accounts with equal nodes count them apart |
| logger | `LoggersAgree`: calls that return Ok have the logger that is installed, however they race (`OneLogger`), and the ring has the latest lines, after the file has them (`RingIsLatest`). |
| stores | `StoresAgree`: `get` has the last write, also across databases that did not open for a while (`ReadsWritten`); `iter` has every live pair, and what it has besides are pairs the overlay hides until the flush (`IterShowsLive`); the mock answers as the real repository (`MockStandsIn`). |
| arena | `OneOwner`: until an operation fails, a slot that can be reached has one handle and is not free |
| conversions | `ConversionsExact`: no carry of a 256-bit product is lost (`MulExact`), and narrowing keeps the number or panics; no two calls of a contract have the same bytes, if arrays come last (`Unambiguous`); output written in portions is what is written at once (`PortionsJoin`); words are read back (`WordsReadBack`); JSON bytes, numbers and hashes read the same digits alike (`ReadersAgree`), and a trie input, which forgets the order of its elements, does what they do in order (`InputReplays`). |
| nibbles and nodes | `NodesReadBack`: views at every offset and vectors that grew and shrank are their nibbles (`SlicesExact`, `VecsExact`), which triehash writes alike (`HashersAgree`); a node is read as it was written (`NodesExact`). |
| receipts | `ReceiptsFound`: receipts are read back as written (`ReceiptsKept`), and a search by blooms misses no log that a filter matches (`NoLogMissed`). |

`expect: violation` (the code does something a comment or a test contradicts):

| run | what it shows |
|---|---|
| `KvLostFlush` | a flush that fails drops what *another* thread buffered; that thread's `write` then returns Ok |
| `OverlayTorn` | a transaction that outgrows the overlay is not written as "a single batch" |
| `ArchiveStaleClone` | the latest era of a clone falls behind, and moves the stored one backwards |
| `TrieSeek` | `seek` with a key that is not in the trie is not "on the first element with key > `key`" |
| `RlpWrapper` | a derived wrapper in a list is counted twice, and the list ends an item early |

### Bounds

* `MCMemoryDB`: counts from -2 to 2.  The operators only compare a count with
  0 and 1; 2 is needed to see a slot that is not vacated by one removal.
* `Overlay`: five writers (`Writers`), so that each question has the depth it
  needs.  One node in up to four blocks over four eras: it is inserted, removed,
  re-inserted and pruned, and two children of one block are a fork.  A writer
  that leaves the flush to others, with three blocks.  Both on a database
  with a write-ahead log and, for one era and one block less, on one without.
  Two nodes on one prefix in three blocks over three eras: insertion, canonical
  removal and a fork that keeps the other node; they are symmetric
  (`SharedSymmetry`).  One crash.  `MaxOverlay = 50` is out of reach, so that
  batches are whole; `OverlayTorn` sets it to 2.
* `KvConcurrent`: two threads, two databases, two transactions that disagree
  on a key in both databases and delete what they put, one crash; overlays of
  one key (which overflow) or of fifty.
* `ArchiveClones`: one node, two handles, any number of crashes; three eras with
  a write-ahead log, two without (`Settings`).
* `Account`: two keys and a cache of one entry, so that every second access
  evicts; zero and one other value at each key, which is padded at one of them
  (`Settable`); one code, one checkpoint.  Nothing is counted, so the run has no
  other bound.
* `Trie`: five keys that produce every case of `insert_inspector` and `fix`:
  a key that is a prefix of two others, which share a long prefix, and keys
  that part from it in the first and second nibble; values that are inlined
  and values that are not.  `MaxCount = 2` bounds what surplus copies add up
  to; a trie of these keys has no node more than twice.
* `Libraries`: streams of up to `MaxCalls = 4` calls with lists of up to two
  items and payloads of 55, 56 and more than 255 bytes, where the form of a
  header changes; `BLOCK_BYTES = 2` and a counter word of base 4, so that blocks
  fill and the word overflows within `MaxInput = 10` bytes; counts up to
  `MaxRefs = 2`; two threads, `MaxUses = 4` lines and set-ups, a ring of two;
  `MaxWrites = 4` transactions over two databases and a name that is none,
  overlays of two keys, `MaxOpens = 2` reopenings; an arena of `MaxSlots = 3`
  and calls `MaxDepth = 3` deep, so that slots are reused.  A byte of `Uint` and
  `ByteUtils` has two values: all words of four bytes are tried, and limbs at
  both ends of their range.

`MaxEra`, `MaxBlocks`, `MaxCrashes`, `MaxCount` (of `MemoryDBSpec` and of
`TrieDBMut`), `MaxAux`, the narrower bounds in `Writers` and `Settings`,
`Settable` and those named under `Libraries` are the only bounds in
guards.  Deadlock is not checked where the bounded system really stops: all
transactions written (`DbRepository`), all blocks executed
(`OverlayRecentDB`).

### Fairness

Only `WritesEnd` needs it.  `FairSpec` asks that a thread inside `write` which
can go on again and again does.  It waits for nothing but the `RwLock` of a
database; parking_lot's locks are eventually fair, and a lock is held for a
bounded number of operations.  Nothing is assumed of crashes, of RocksDB's own
flushes or of clients.

## 4. The proofs

What TLAPS proves holds for every value of the constants: any number of keys,
values, threads, handles and crashes, every capacity of a cache and every limit
in a guard.  Each proof has the same shape: an inductive invariant `IInv`, a
lemma for each operator of the model, a lemma for each action (`...Step` or
`...Inv`), and the theorem `Invariance == Spec => []IInv`; the properties of the runs follow
from it.

| module | proves of its component |
|---|---|
| `MemoryDBProofs` | `TypeOK`, `LiveValues`; `CountsRefinement`: `MemoryDBSpec` implements `RefCountStore`; `GetSound` |
| `OverlayRecentDBProofs` | `TypeOK`, `NoLiveNodeLost`, `ReadersNeverMiss`, `CrashSafe`, `CanReconstructRefs`, `NoLeak`, while batches are written whole; `EarliestEraExact` when also `History > 0`.  It begins with lemmas about the operators: sums of sizes do not depend on the order, a record adds a reference per key and an era takes its own with it, `read_overlay` finds the journal that was stored, what a batch makes visible |
| `ArchiveDBProofs` | `TypeOK`, `ArchiveKeepsAll`, `ExecutionReads`, `LatestEraAlone` |
| `DbRepositoryProofs` | `TypeOK`, `PrefixDurable`, `AckedDurable`, `PriorityOrder` |
| `AccountProofs` | `TypeOK`, `CacheCoherent`, `ReadsLastWrite`, `RootTellsAll`, `CodeKept` |
| `LibraryProofs` | `HashesWhatWasFed`, `KindsAgree`, `AccountsApart`, `LoggersAgree`, `OneOwner`, `StoresAgree` |
| `SetLemmas` | least elements, maxima and minima of sets of naturals; what the joins and listings of sets contain; the list of a finite set in an order is the only one in that order; a fold over the places of a list, step by step |
| `StoreLemmas` | the operators of `RocksStore`: what a store shows after `Recorded`, `Flushed` and a restart, and that `Written` makes progress |

### The inductive invariants

* `MemoryDBProofs`: `TypeOK /\ LiveValues`.  `LiveValues` alone is not
  inductive, because a slot's value must be known to come from a well-formed
  entry; that the value of a slot with a *negative* count does not matter is why
  `EmplaceEntry` and `ConsolidateEntry` overwrite it.  In the refinement each
  action maps to a step of the abstract store or leaves the counts alone
  (`purge`, and every operation on the null key).
* `OverlayRecentDBProofs`: `Typed /\ Counted /\ Executing /\ Images /\
  Readables /\ Settled`.  Its core is `Fits(nodes, h, j, l, db)`, which relates a
  history of blocks, a journal, a latest era and a database: a record belongs
  to a block of its era; a node that a live block has and a live ancestor lacks
  is inserted by a record in between (`Differences`), and the other way round
  for removals; the journal has the eras behind the canonical one up to the
  latest (`Spans`); the database has exactly those records and at least the
  nodes of the canonical state (`OnDisk`).  The same relation is asked of four
  pairs (`Images`): what is in memory and what will be visible once the batch is
  written, what was written last and what is visible, what was flushed last and
  what RocksDB has been given, what was flushed when RocksDB wrote its memtable
  out and what it has had since.  That is why a crash needs no argument of its
  own: it takes the third pair for the first, or the fourth if there is no
  write-ahead log.  A node of a live block is then in the
  canonical state or some record inserts it, and `Counted` says that the
  overlay has every node as often as the journal inserts it (`Overlay`), never
  with a count that `get`, which does not look at it, could mistake.
  The property is not inductive without `Differences`: when `mark_canonical`
  drops the records of an era it drops those of the forks too, and only the
  records between the new tip and what is still alive say that no live block
  needed them.  `Readables` says that a batch deletes no node of a live block,
  so that a reader between the halves of `get` finds it before and after the
  write.  The steps on histories are lemmas without state: `FitsGrown`
  (journal_under), `FitsMarked` (mark_canonical), `FitsInjected` (inject), and
  `AppliedJournal`, `AppliedMark` and `AppliedInject` say what the batches do.
* `ArchiveDBProofs`: `Typed /\ Kept /\ Alone /\ Recoverable`.  That a stored node stays is not
  inductive by itself, because a batch could delete it: `Batched` says that the
  only deletes are those of `inject`, that they spare the state injected, and
  that whoever injects has the database for himself.  `Executing` ties the count
  of a node in an overlay to whether the state being executed has it; from it
  follow both that `journal_under` writes every node that is not on disk yet
  and that the `assert!(rc == -1)` of `archivedb.rs:142` holds.  `Alone` carries
  `LatestEraAlone` across the gap between `journal_under` and the write, where
  the latest era in memory is ahead of the stored one.  `Recoverable` says of
  what RocksDB has written out of its memtable what the others say of the disk, so
  that a crash without a write-ahead log keeps them.
* `DbRepositoryProofs`: `Typed /\ Prefixes /\ Logged /\ Settling /\ InTurn`.
  `Prefixes` speaks of the overlay, the disk and what a crash leaves at the same
  time, each as a replay of a prefix of one log.  For `AckedDurable` an
  acknowledgement must be traced back to the flush: `Settling` says that what a
  thread logged is on disk in the databases its flush has passed (another
  thread's flush may have done it), and that the log has something of every
  transaction whose operations are all buffered.  `InTurn` adds, for writers
  that take turns, that only the transaction being written is not on disk yet,
  and not at all in the databases its flush has not reached.
* `AccountProofs`: `Typed /\ BaseGood /\ WorkGood /\ SavedGood /\ StoredGood`.
  Coherence of a single copy is preserved by reads, commits and evictions, but
  not by `overwrite_with`, which merges the newer copy's cache into the older
  one's and takes its root: an entry only the older cache has could be stale.
  It is not, because of `Covers`: what a block changed since the base copy was
  taken is still in its cache, or its cache is full, and then nothing of the
  older one survives the merge.  This is the argument why the order of the
  merge (`overwrite_with`, `accounts.rs:166` and `194`) and the equal capacity
  of the caches matter.  All of this is about the contents of the tries; that a
  read is the contents, or a panic on a padded value, is the lemma `TrieGives`.  `SavedGood` needs that nothing is committed behind a checkpoint: the
  root of the saved copy is that of the working one.

* `LibraryProofs`, one invariant per library:
  * `LogInv`.  `LoggersAgree` speaks of the calls that returned; `Installs` says
    what a call on its way knows: whoever stores the logger has made the one
    that is installed, whoever falls back has found one installed, and nobody
    stores a second one.  For the ring, a line is in the file before it is in
    the ring (`Files`), the ring is the end of everything appended, newest first
    (`Latest`), and no line is written before a logger is installed, which
    decides whether there is a file (`LogsNothing`); `Ordered` says that no line
    of a thread comes after the one it began last, which is not there while it
    is still to be written.
  * `AccountInv`: `Slot` relates every entry of the MemoryDB to the *signed* sum
    of the references of the accounts that map to its key.  With mangled keys
    that is one account, because the exclusive or with an address can be undone
    (`XorTells`); with plain keys it is all of them, and `NetIs` makes the sum
    over a set of accounts one that a single insertion moves by one.
  * `KindsInv`: the raw trie has under the raw key of every key what the
    dictionary has for it, and a fat trie's record of a key (`AuxSlot`) has a
    count that is positive while the key is there and never negative: an
    insertion of the empty value may raise it for nothing, but a removal lowers
    it only if the key is there.
  * `ArenaInv`: in the middle of an operation the handles are not in the arena
    but on the call stack.  `Stack(hand, U)` says which they are, and
    `Sound(storage, U)` that no slot of the arena is free or has another
    handle that one of `U` or of the nodes refers to.  While a root is committed
    the handles that are out are those of `committing`.
  * `HashInv`: `Taken(s, param, all, c)` says that a hasher has compressed the
    first `c` blocks of all it was given and has the rest in its buffer, more
    than nothing if it has compressed anything.  The last clause is not in
    `HashesWhatWasFed` and is why no empty block follows a full one.  A turn of
    the loop keeps it (`TurnTaken`); `update` ends within one turn more than
    it has bytes (`UpdateTaken`), because only the first one may find the buffer
    full and take nothing.
  * `StoresInv`: what was written last is what an open database shows, its
    overlay over its disk, and what is in the files of one that is not open;
    until something is reopened all are open and the mock has the same.
    `BatchView` compares the two folds of a transaction, that of the Rockskvdb,
    which may flush after every operation, with that of the mock's map.  The
    iterators need more than the invariant: byte strings are totally ordered
    (`KeysOrdered`) and those with a prefix are together, the prefix first
    (`PrefixesTogether`), so that the two ways in which the mock and RocksDB look
    for a prefix meet (`FromFirst`, `PrefixReads`).

TLC has checked every one of these invariants on the instance of the
component's run.  (For `OverlayRecentDB` without `Typed`, whose sets of functions
TLC cannot enumerate, and with the quantifiers over records bounded.)

### What they assume

The assumptions about constants are the `ASSUME`s of the model modules, which
TLC evaluates in the runs:

* markers are not data: `MarkersDistinct` (MemoryDBSpec), `MarkerAssumption`
  (OverlayRecentDB, ArchiveDB, Account), the clause on `Unbuffered` of `DbAssumption`.  In the
  code they are `None` or variants of an enum;
* `HashAssumption`: there are blocks, a word of the counter can count one, and a
  key fits into one (`KEY_BYTES` is half of `BLOCK_BYTES`);
* `LogAssumption`, `AccountAssumption`, `KindsAssumption`: the ring holds at least
  one line; an address and the key of a node are equally many bits, and there are
  finitely many addresses; the marker of a vacant entry is not an entry.  `Libraries` states them
  again for its instances, which is where TLC evaluates them;
* `StoreAssumption`, restated there too: the markers are
  three, and no values; there are finitely many keys, keys and prefixes are
  strings of bytes, and a transaction is a list of puts of values and of deletes;
* `KeysAssumption` (MemoryDBSpec): the null key is the only key of the null
  value, which is what a hash without collisions gives;
* `DbAssumption`: `db_priority` names every database once (the names are keys
  of a map in the code), and the operations of a transaction are puts of values
  and deletes;
* `ValueAssumption`: the cache has a capacity (`STORAGE_CACHE_ITEMS`, 8192);
  zero is a value, and what a missing key reads as; a padded value is not zero,
  and a panic is no value.  The keys are finite here
  and in ArchiveDB, as in every process: `commit_storage` and `journal_under`
  drain maps in some order that has every key.

Nothing is assumed about the write-ahead log: the theorems about crashes hold
of databases with one and without, and say what each keeps.

The theorems about `OverlayRecentDB` have the hypothesis `Roomy`: the overlay of
the Rockskvdb has room for all keys of the database (as in the run, where it is
50).  Then a batch is recorded under one lock and nothing flushes a part of it.
Without it a batch can be torn, and a crash leaves half of it on disk: that is
what `OverlayTorn` shows, and nothing in the code excludes it for a batch that
exceeds the 10000 entries of `rockskvdb.rs:218`.  The keys of
different kinds cannot coincide (`MarkerAssumption`): nodes have 32 bytes,
`LATEST_ERA_KEY` has 12, the RLP of a record's key with its padding between 14
and 30.

`EarliestEraExact` needs `History > 0`, and is false without it: when the only
era in the journal becomes canonical, `earliest_era` is left alone
(`overlayrecentdb.rs:427` is reached only if the journal is not empty), and the
next `journal_under` keeps the stale era because it is lower than its own.

`PriorityOrder` is proved under the same condition the run has it: writers that
take turns, with a write-ahead log, overlays that do not overflow and batches
that are not refused.

### What is only model-checked

* Liveness, `WritesEnd`: fairness is out of the prover's reach.
* What a recursive operator computes: `TrieNodes`, `TrieDBMut`, `TrieDB`, `Rlp`
  and the modules that extend them use RECURSIVE operators, which the prover
  does not take; their properties compare a whole computation with a reference
  definition and would need induction over tries and encodings.  (Where an
  induction over numbers is needed, in `Merge`, for the last operation on a key
  and for the turns of `update`, the proofs take the least counterexample of a
  set of naturals, `LeastNatural`; recursive functions and folds can be
  unfolded that way, recursive operators cannot.)
* `OverlayRecentDB` with an overlay that a batch outgrows: only the
  counterexample `OverlayTorn`.
* Of `MCLibraries`: `StreamsWrite`, `StreamsRead`, `NodesReadBack`, `ReceiptsFound`
  and `ConversionsExact`, which are about recursive encoders and decoders.
* The `expect: violation` runs are counterexamples and need no proof.

## 5. What is not modelled

* `keys()` and `mem_used` of the journal databases, `Debug` and `Display`,
  serde's derived code: reporting and formatting.
* RocksDB's options and the repair of a corrupted database; the selection of a
  journal database by name.
* The compression function of blake2b, and `kat.rs`, its test vectors; the
  arithmetic of the `uint` crate's macro, which is not in this repository.
* The loss of a batch *inside* a journal database's commit
  (`db/journaldb/src/traits.rs:111`): failing batches are modelled in
  `DbRepository` only.
* Blocks journalled below the canonical era (the test `insert_older_era`): the
  writer of `OverlayRecentDB` builds on blocks that are not pruned.
* What a trie does after an operation that failed on a missing node.  The
  operation has taken the root out of the arena, and `root_handle` is left
  pointing at a slot that is free or used again (`triedbmut.rs:972`);
  `NodeStorage` has the failure, and `OneOwner` speaks of the time before it.
  `ReadsAgree` shows that it does not happen while the database is complete.
  For the same reason `commit_storage` of an account is modelled on a complete
  trie (`accounts.rs:113`).
* An FVM key used both as Normal and as Wide, which has one slot in the trie and
  an entry in two caches (`accounts.rs:120`); balance, nonce and the memo of the
  address hash.
* `commit_code` on an account whose code is clean and not cached clears nothing
  and loads nothing: the comment on it ("will always return the hash of the
  `code_cache` after this") is about accounts with dirty code.
* `ordered_trie_root` and `sec_trie_root`, which only choose the keys;
  `trie-standardmap`, `plain_hasher`, `error`, `terminal`, `macros`, the
  structures of `json` and `common_types` that carry data only.

## 6. Plan

What is left is proof, and two faults:

1. `OverlayRecentDB` with batches that are torn: which of the theorems hold
   until the next crash.
2. The failing batch inside `commit_batch`, and the second cache of an FVM
   account.
