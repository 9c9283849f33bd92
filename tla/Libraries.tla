------------------------------- MODULE Libraries -------------------------------
(***************************************************************************)
(* The libraries that have a state of their own, and what each promises.   *)
(* They share nothing: MCLibraries checks them in one run, LibraryProofs   *)
(* has proofs about them.                                                  *)
(***************************************************************************)

CONSTANTS
    \* Blake2b
    BLOCK_BYTES, WordBase, HashKeys, MaxInput,
    \* MemoryDB, TrieKinds and AccountDB
    NoEntry, NoValue, TrieKeys, TrieValues, EmptyValue, None, MaxAux,
    Addresses, Nodes, MaxRefs,
    \* Logger
    Threads, LOG_SIZE, MaxUses,
    \* NodeStorage
    MaxSlots, MaxDepth,
    \* Repositories
    Vacant, Deleted, Unbuffered, DbNames, StoreKeys, SearchPrefixes, Transactions, Limit,
    MaxWrites, MaxOpens

VARIABLES
    hasher, key, fed,
    spec, raw, aux, contents,
    factory, db, refs,
    installed, stored, dummy_done, pc, mine, result, late, setups, line,
    has_file, file, lost, ring, appended,
    storage, root_handle, hand, committing, failed,
    dbs, files, mock, kept, writes, opens

Hasher == INSTANCE Blake2b WITH Keys <- HashKeys
Kinds == INSTANCE TrieKinds
Accounts == INSTANCE AccountDB
Log == INSTANCE Logger
Arena == INSTANCE NodeStorage
Stores == INSTANCE Repositories WITH Absent <- Vacant

ASSUME HashAssumption == Hasher!HashAssumption
ASSUME LogAssumption == Log!LogAssumption
ASSUME AccountAssumption == Accounts!AccountAssumption
ASSUME KindsAssumption == Kinds!KindsAssumption
ASSUME StoreAssumption == Stores!StoreAssumption
-------------------------------------------------------------------------------
(* Blake2b: a hash is that of the bytes fed, in whatever portions. *)
HashesWhatWasFed == Hasher!HashesWhatWasFed

(* TrieKinds: generic, secure and fat tries read as the dictionary. *)
KindsAgree == Kinds!KindsAgree

(* AccountDB: accounts with equal nodes do not remove each other's. *)
AccountsApart == Accounts!AccountsApart

(* Logger: calls of setup_log that succeed have the one logger, whose ring *)
(* has the latest lines, after the file has them.                          *)
LoggersAgree == Log!LoggersAgree

(* NodeStorage: a slot of the arena in use has one handle. *)
OneOwner == Arena!OneOwner

(* Repositories: get has what was written last, iter has what get has and  *)
(* what only the overlay hides, and the mock behaves as the real one.      *)
StoresAgree == Stores!ReadsWritten /\ Stores!IterShowsLive /\ Stores!MockStandsIn
===============================================================================
