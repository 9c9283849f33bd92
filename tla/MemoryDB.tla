------------------------------- MODULE MemoryDB -------------------------------
(***************************************************************************)
(* The reference-counted in-memory HashStore of db/core/src/memorydb.rs.   *)
(*                                                                         *)
(* A MemoryDB is `data: H256FastMap<(DBValue, i32)>`.  Here it is a total  *)
(* function from the keys that may occur to entries: NoEntry stands for    *)
(* Entry::Vacant, a record for Entry::Occupied.  The count may go negative *)
(* (a removal recorded before the insertion it cancels); the value of such *)
(* an entry is the empty DBValue::new(), written NoValue.                  *)
(*                                                                         *)
(* The operators below work on one entry, because every method of MemoryDB *)
(* either touches the entry of one key or treats all entries alike.  They  *)
(* are shared by the modules of the stores that own a MemoryDB.            *)
(***************************************************************************)
EXTENDS Integers

CONSTANTS
    NoEntry,    \* the key is not in the map
    NoValue     \* DBValue::new(), the placeholder of a removal on a vacant key

\* What an occupied slot may hold when the values of the store are V.
Entry(V) == [val : V \union {NoValue}, rc : Int]

\* The reference count a slot stands for; a vacant one counts as zero.
Count(e) == IF e = NoEntry THEN 0 ELSE e.rc

\* Mutant: the placeholder survives the insertion that cancels a removal.
EmplaceEntryKeepsPlaceholder(e, v) ==
    IF e = NoEntry
    THEN [val |-> v, rc |-> 1]
    ELSE [val |-> IF e.rc = 0 THEN v ELSE e.val, rc |-> e.rc + 1]

\* emplace, and insert once the key is hashed.  The value is replaced only
\* when the count says that the old one may be the placeholder.
EmplaceEntry(e, v) ==
    IF e = NoEntry
    THEN [val |-> v, rc |-> 1]
    ELSE [val |-> IF e.rc <= 0 THEN v ELSE e.val, rc |-> e.rc + 1]

\* Mutant: a removal on a vacant slot stores no value at all.
RemoveEntryNoPlaceholder(e) ==
    IF e = NoEntry
    THEN [val |-> NoEntry, rc |-> -1]
    ELSE [e EXCEPT !.rc = @ - 1]

\* remove: a vacant slot becomes a pending removal.
RemoveEntry(e) ==
    IF e = NoEntry
    THEN [val |-> NoValue, rc |-> -1]
    ELSE [e EXCEPT !.rc = @ - 1]

\* remove_and_purge: as remove, but the last reference vacates the slot.
RemoveAndPurgeEntry(e) ==
    IF e # NoEntry /\ e.rc = 1 THEN NoEntry ELSE RemoveEntry(e)

\* consolidate, for one key: the entry of `other` is merged into `self`.
ConsolidateEntry(self, other) ==
    CASE other = NoEntry -> self
      [] other # NoEntry /\ self = NoEntry -> other
      [] other # NoEntry /\ self # NoEntry ->
            [val |-> IF self.rc < 0 THEN other.val ELSE self.val,
             rc  |-> self.rc + other.rc]

\* Mutant: purge forgets the removals that are still to be matched.
PurgeEntryDropsNegative(e) == IF e # NoEntry /\ e.rc <= 0 THEN NoEntry ELSE e

\* purge, for one key: a slot whose count is zero is dropped.
PurgeEntry(e) == IF e # NoEntry /\ e.rc = 0 THEN NoEntry ELSE e

\* HashStore::contains; HashStore::get answers with the value exactly then.
Contains(e) == e # NoEntry /\ Count(e) > 0

\* MemoryDB's own get, which a caller that holds a MemoryDB reaches instead of
\* the HashStore's: whatever is in the slot, with any count.
RawGet(e) == IF e = NoEntry THEN NoEntry ELSE e.val

\* A store with no entries: new, and what drain and clear leave behind.
EmptyOver(K) == [k \in K |-> NoEntry]

\* n emplacements of v, one after the other: every one of them that finds a
\* count of zero or less writes the same v.
EmplaceTimes(e, v, n) ==
    IF n = 0 THEN e
    ELSE [val |-> IF Count(e) <= 0 THEN v ELSE e.val, rc |-> Count(e) + n]

\* n remove_and_purges: the slot is vacated on the way when its count was
\* between 1 and n, and what is left over is a pending removal.
RemoveAndPurgeTimes(e, n) ==
    CASE n = 0               -> e
      [] n > 0 /\ Count(e) = n -> NoEntry
      [] n > 0 /\ Count(e) # n ->
            [val |-> IF e = NoEntry \/ Count(e) \in 1 .. n THEN NoValue ELSE e.val,
             rc  |-> Count(e) - n]
===============================================================================
