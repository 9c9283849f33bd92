----------------------------- MODULE MemoryDBSpec -----------------------------
(***************************************************************************)
(* A MemoryDB and the overlay that is built beside it and consolidated     *)
(* into it, driven by every method of db/core/src/memorydb.rs.             *)
(*                                                                         *)
(* Keys are content hashes, so ValueOf gives the only value a caller       *)
(* stores under a key; NullKey (BLAKE2B_NULL_RLP) is the hash of the empty *)
(* trie, which the store answers for without keeping it.                   *)
(***************************************************************************)
EXTENDS MemoryDB

CONSTANTS
    Keys,       \* the keys callers use, NullKey among them
    Values,     \* the values
    ValueOf,    \* the value whose hash a key is
    NullKey,    \* BLAKE2B_NULL_RLP
    MaxCount    \* bound on the absolute value of a count (the code's is 2^31)

ASSUME MarkersDistinct ==
    /\ NoValue \notin Values
    /\ NoEntry \notin Entry(Values)
ASSUME KeysAssumption ==
    /\ ValueOf \in [Keys -> Values]
    /\ NullKey \in Keys
    /\ \A k \in Keys : ValueOf[k] = ValueOf[NullKey] => k = NullKey
ASSUME MaxCountAssumption == MaxCount \in Nat \ {0}

VARIABLES
    data,       \* the store under test
    other       \* the overlay consolidated into it

vars == <<data, other>>

Slots == Entry(Values) \union {NoEntry}

TypeOK ==
    /\ data \in [Keys -> Slots]
    /\ other \in [Keys -> Slots]

Init ==
    /\ data = EmptyOver(Keys)
    /\ other = EmptyOver(Keys)

-------------------------------------------------------------------------------
(* The methods, as updates of a whole map m.                               *)

\* emplace and insert return early on the NULL_RLP value.
Emplace(m, k) ==
    IF ValueOf[k] = ValueOf[NullKey] THEN m
    ELSE [m EXCEPT ![k] = EmplaceEntry(@, ValueOf[k])]

\* remove returns early on the NULL_RLP key.
Remove(m, k) ==
    IF k = NullKey THEN m ELSE [m EXCEPT ![k] = RemoveEntry(@)]

RemoveAndPurge(m, k) ==
    IF k = NullKey THEN m ELSE [m EXCEPT ![k] = RemoveAndPurgeEntry(@)]

\* HashStore::get: NULL_RLP is always there, the rest needs a positive count.
Get(m, k) ==
    IF k = NullKey THEN ValueOf[NullKey]
    ELSE IF Contains(m[k]) THEN m[k].val ELSE NoEntry

-------------------------------------------------------------------------------
Room(m, k, d) == Count(m[k]) + d \in (-MaxCount) .. MaxCount

InsertKey(k) ==
    /\ Room(data, k, 1)
    /\ data' = Emplace(data, k)
    /\ UNCHANGED other

RemoveKey(k) ==
    /\ Room(data, k, -1)
    /\ data' = Remove(data, k)
    /\ UNCHANGED other

PurgeKey(k) ==
    /\ Room(data, k, -1)
    /\ data' = RemoveAndPurge(data, k)
    /\ UNCHANGED other

InsertOther(k) ==
    /\ Room(other, k, 1)
    /\ other' = Emplace(other, k)
    /\ UNCHANGED data

RemoveOther(k) ==
    /\ Room(other, k, -1)
    /\ other' = Remove(other, k)
    /\ UNCHANGED data

Purge ==
    /\ data' = [k \in Keys |-> PurgeEntry(data[k])]
    /\ UNCHANGED other

\* consolidate drains the overlay it is given.
Consolidate ==
    /\ \A k \in Keys : Room(data, k, Count(other[k]))
    /\ data' = [k \in Keys |-> ConsolidateEntry(data[k], other[k])]
    /\ other' = EmptyOver(Keys)

\* drain hands the map out and leaves an empty one; clear drops it.
Drain ==
    /\ data' = EmptyOver(Keys)
    /\ UNCHANGED other

KeyStep(k) ==
    \/ InsertKey(k) \/ RemoveKey(k) \/ PurgeKey(k)
    \/ InsertOther(k) \/ RemoveOther(k)

Next ==
    \/ \E k \in Keys : KeyStep(k)
    \/ Purge \/ Consolidate \/ Drain

Spec == Init /\ [][Next]_vars

-------------------------------------------------------------------------------
\* A slot whose count is not negative holds the value of its key, whatever
\* removals were recorded before the insertions they cancel and however the
\* two maps were merged: no reader of memorydb.rs is ever handed the empty
\* placeholder that remove leaves on a vacant slot.
ValueAgrees(m) ==
    \A k \in Keys : m[k] # NoEntry /\ m[k].rc >= 0 => m[k].val = ValueOf[k]

LiveValues == ValueAgrees(data) /\ ValueAgrees(other)

\* The inductive invariant of the proofs.
IInv == TypeOK /\ LiveValues

\* MemoryDB implements the signed counting store: vacating a slot, purging
\* zero counts and the placeholder values are invisible in the counts.
Abs == INSTANCE RefCountStore
           WITH counts <- [k \in Keys |-> Count(data[k])],
                staged <- [k \in Keys |-> Count(other[k])]

CountsImplemented == Abs!Spec
===============================================================================
