----------------------------- MODULE Repositories -----------------------------
(***************************************************************************)
(* What one thread sees of the repositories behind the trait KeyValueDB    *)
(* (db/core/src/dbrepository.rs): the real one, over Rockskvdb, and        *)
(* MockDbRepository, over Mockkvdb, which stands in for it in tests.  The  *)
(* same calls are made of both.  DbRepository models the threads, the      *)
(* failures and the crashes; here are the transactions, the names that are *)
(* not open, the iterators and the reads by prefix.                        *)
(*                                                                         *)
(* A repository is a function on the names of its open databases.  A key   *)
(* is a sequence of bytes, because iterators and prefixes look inside it;  *)
(* a value is a number, for its place in the order of values.              *)
(***************************************************************************)
EXTENDS RocksStore, SequencesExt

CONSTANTS
    DbNames,        \* the configured databases
    StoreKeys,
    SearchPrefixes,
    Transactions,   \* the calls that build the transactions that are written
    Limit,          \* what an overlay holds before it is flushed (10000)
    MaxWrites,      \* bound on the transactions written
    MaxOpens        \* bound on the calls of open_all

VARIABLES
    dbs,        \* the open databases of the real repository
    files,      \* what the files of the others hold
    mock,       \* the databases of the mock repository
    kept,       \* history: the last value written for a key
    writes, opens

store_vars == <<dbs, files, mock, kept, writes, opens>>

\* Markers are not values; keys and prefixes are byte strings, names are
\* strings, and transactions write values or delete.
StoreAssumption ==
    /\ Absent \notin Nat /\ Deleted \notin Nat /\ Unbuffered \notin Nat
    /\ Absent # Deleted /\ Absent # Unbuffered /\ Deleted # Unbuffered
    /\ StoreKeys \subseteq Seq(Nat) /\ IsFiniteSet(StoreKeys)
    /\ SearchPrefixes \subseteq Seq(Nat)
    /\ Transactions \subseteq Seq(STRING \X StoreKeys \X (Nat \union {Deleted}))

NotFound == "NotFound"
Panic == "Panic"
Nothing == [k \in StoreKeys |-> Absent]
-------------------------------------------------------------------------------
(* DBTransaction: the operations on each database, in order. *)

new == [n \in {} |-> <<>>]
insert(tx, n, op) ==
    [m \in DOMAIN tx \union {n} |->
        (IF m \in DOMAIN tx THEN tx[m] ELSE <<>>) \o (IF m = n THEN <<op>> ELSE <<>>)]
put(tx, n, k, v) == insert(tx, n, [key |-> k, val |-> v])
delete(tx, n, k) == insert(tx, n, [key |-> k, val |-> Deleted])

(* The transaction of calls of put and delete, <<database, key, value>>. *)
Built(calls) ==
    FoldLeft(LAMBDA tx, c : IF c[3] = Deleted THEN delete(tx, c[1], c[2])
                                              ELSE put(tx, c[1], c[2], c[3]), new, calls)
-------------------------------------------------------------------------------
(* The order of byte strings, and of the pairs of an iterator. *)

KeyBelow(a, b) ==
    \E n \in 0 .. Len(a) :
        /\ n <= Len(b) /\ SubSeq(a, 1, n) = SubSeq(b, 1, n)
        /\ n < Len(b)
        /\ n = Len(a) \/ (n < Len(a) /\ a[n + 1] < b[n + 1])

PairBelow(p, q) == KeyBelow(p[1], q[1]) \/ (p[1] = q[1] /\ p[2] < q[2])

\* The members of a finite set, each where as many are below it.
Sorted(S, Below(_, _)) ==
    [i \in 1 .. Cardinality(S) |->
        CHOOSE x \in S : Cardinality({y \in S : Below(y, x)}) = i - 1]

InOrder(pairs) == Sorted(pairs, PairBelow)

\* All pairs of a BTreeMap, or of RocksDB from its first key on.
Pairs(map) == {<<k, map[k]>> : k \in {k \in DOMAIN map : map[k] # Absent}}

\* interleave_ordered: the lesser of the two heads first, the left one of
\* two equals.
Interleaved(left, right) ==
    LET tagged == {<<p, 0>> : p \in left} \union {<<p, 1>> : p \in right}
        Before(x, y) == PairBelow(x[1], y[1]) \/ (x[1] = y[1] /\ x[2] < y[2])
        merged == Sorted(tagged, Before)
    IN  [i \in DOMAIN merged |-> merged[i][1]]

\* RocksDB's iterator from a key on.
FromKey(map, k) == {p \in Pairs(map) : ~KeyBelow(p[1], k)}
-------------------------------------------------------------------------------
(* Rockskvdb. *)

Inserts(st) == {<<k, st.buf[k]>> : k \in {k \in Buffered(st) : st.buf[k] # Deleted}}

\* Mutant: the iterator leaves the overlay out.
rocks_iter_disk(st) == InOrder(Pairs(st.disk))

\* iter: the insertions of the overlay among the pairs of the database, also
\* among those that the overlay has replaced or deleted.
rocks_iter(st) == Interleaved(Inserts(st), Pairs(st.disk))

\* Mutant: the first key from the prefix on is taken to have it.
rocks_get_by_prefix_any(st, prefix) ==
    LET from == InOrder(FromKey(st.disk, prefix))
    IN  IF from = <<>> THEN Absent ELSE from[1][2]

\* get_by_prefix: the first key from the prefix on, if it has the prefix.  A
\* key that is shorter cannot be compared.
rocks_get_by_prefix(st, prefix) ==
    LET from == InOrder(FromKey(st.disk, prefix))
    IN  CASE from = <<>>                           -> Absent
          [] from # <<>> /\ Len(from[1][1]) < Len(prefix) -> Panic
          [] from # <<>> /\ Len(from[1][1]) >= Len(prefix) ->
                IF IsPrefix(prefix, from[1][1]) THEN from[1][2] ELSE Absent

rocks_iter_from_prefix(st, prefix) == InOrder(FromKey(st.disk, prefix))

\* Mutant: a database is closed with its overlay.
DroppedUnflushed(st) == st.disk

\* drop flushes.
Dropped(st) == Flushed(st).disk

Opened(disk) == [buf |-> EmptyBuf(StoreKeys), disk |-> disk]
-------------------------------------------------------------------------------
(* Mockkvdb: a BTreeMap. *)

mock_iter(map) == InOrder(Pairs(map))

mock_get_by_prefix(map, prefix) ==
    LET all == mock_iter(map)
        having == {i \in DOMAIN all : IsPrefix(prefix, all[i][1])}
    IN  IF having = {} THEN Absent ELSE all[Min(having)][2]

mock_iter_from_prefix(map, prefix) ==
    LET all == mock_iter(map)
        having == {i \in DOMAIN all : IsPrefix(prefix, all[i][1])}
    IN  IF having = {} THEN <<>> ELSE SubSeq(all, Min(having), Len(all))

mock_written(map, ops) ==
    FoldLeft(LAMBDA m, op : [m EXCEPT ![op.key] = IF op.val = Deleted THEN Absent ELSE op.val],
             map, ops)
-------------------------------------------------------------------------------
(* impl_keyvaluedb: a call is passed on to the database, if it is open.    *)
(* `answers` has what the open ones answer.                                *)

get(answers, n, k) == IF n \in DOMAIN answers THEN answers[n][k] ELSE NotFound
iter(answers, n) == IF n \in DOMAIN answers THEN answers[n] ELSE <<>>
get_by_prefix(answers, n) == IF n \in DOMAIN answers THEN answers[n] ELSE Absent
iter_from_prefix(answers, n) == IF n \in DOMAIN answers THEN answers[n] ELSE <<>>

Views == [n \in DOMAIN dbs |-> View(dbs[n])]
-------------------------------------------------------------------------------
Init ==
    /\ dbs = [n \in DbNames |-> Opened(Nothing)]
    /\ files = [n \in DbNames |-> Nothing]
    /\ mock = [n \in DbNames |-> Nothing]
    /\ kept = [n \in DbNames |-> Nothing]
    /\ writes = 0 /\ opens = 0

\* write_buffered: the operations of a database that is not open are dropped.
\* put and delete of a Rockskvdb flush an overlay that has become too long.
write_buffered(tx) ==
    /\ writes < MaxWrites
    /\ writes' = writes + 1
    /\ dbs' = [n \in DOMAIN dbs |->
                 IF n \in DOMAIN tx
                 THEN FoldLeft(LAMBDA st, op : Written(st, <<op>>, Limit), dbs[n], tx[n])
                 ELSE dbs[n]]
    /\ mock' = [n \in DOMAIN mock |->
                  IF n \in DOMAIN tx THEN mock_written(mock[n], tx[n]) ELSE mock[n]]
    /\ kept' = [n \in DbNames |->
                     IF n \in DOMAIN tx \intersect DOMAIN dbs
                     THEN mock_written(kept[n], tx[n]) ELSE kept[n]]
    /\ UNCHANGED <<files, opens>>

\* flush: in the order of db_priority, which one thread cannot tell; nothing
\* at all in the mock.
flush ==
    /\ dbs' = [n \in DOMAIN dbs |-> Flushed(dbs[n])]
    /\ UNCHANGED <<files, mock, kept, writes, opens>>

\* open_all: everything is closed, and what does not open (`failing`) is left
\* out without a word.  The mock starts anew.
open_all(failing) ==
    /\ opens < MaxOpens
    /\ opens' = opens + 1
    /\ files' = [n \in DbNames |-> IF n \in DOMAIN dbs THEN Dropped(dbs[n]) ELSE files[n]]
    /\ dbs' = [n \in DbNames \ failing |-> Opened(files'[n])]
    /\ mock' = [n \in DbNames |-> Nothing]
    /\ UNCHANGED <<kept, writes>>

Next ==
    \/ \E calls \in Transactions : write_buffered(Built(calls))
    \/ flush
    \/ \E failing \in SUBSET DbNames : open_all(failing)

Spec == Init /\ [][Next]_store_vars
-------------------------------------------------------------------------------
\* get answers with the last value written to a database that is open, in its
\* overlay, in RocksDB or in files that were closed and opened meanwhile, also
\* after they once did not open; and for one that is not, with an error.
ReadsWritten ==
    \A n \in DbNames, k \in StoreKeys :
        get(Views, n, k) = IF n \in DOMAIN dbs THEN kept[n][k] ELSE NotFound

\* iter is in the order of the keys and has every pair that get has.  What it
\* has besides are pairs that the overlay has replaced or deleted, until they
\* are flushed.
IterShowsLive ==
    \A n \in DOMAIN dbs :
        LET all == iter([m \in DOMAIN dbs |-> rocks_iter(dbs[m])], n)
            live == Pairs(View(dbs[n]))
        IN  /\ \A i, j \in DOMAIN all : i < j => ~PairBelow(all[j], all[i])
            /\ live \subseteq ToSet(all)
            /\ \A i \in DOMAIN all : all[i] \in live \/ all[i][1] \in Buffered(dbs[n])
            /\ Buffered(dbs[n]) = {} => Len(all) = Cardinality(live)

\* As long as nothing was reopened a test that uses the mock sees what the
\* program would see of the real repository: all of get; the iterators and the
\* reads by prefix once everything is flushed, if no key is shorter than the
\* prefix; and the iterator from a prefix if some key has it.
MockStandsIn ==
    opens = 0 =>
        \A n \in DbNames :
            LET map == mock[n]
                live == {k \in StoreKeys : map[k] # Absent}
            IN  /\ \A k \in StoreKeys : get(mock, n, k) = get(Views, n, k)
                /\ Buffered(dbs[n]) = {} =>
                     /\ iter([m \in DOMAIN mock |-> mock_iter(mock[m])], n)
                          = iter([m \in DOMAIN dbs |-> rocks_iter(dbs[m])], n)
                     /\ \A p \in SearchPrefixes :
                          /\ (\A k \in live : Len(k) >= Len(p)) =>
                                get_by_prefix([m \in DOMAIN mock |-> mock_get_by_prefix(mock[m], p)], n)
                                  = get_by_prefix([m \in DOMAIN dbs |-> rocks_get_by_prefix(dbs[m], p)], n)
                          /\ (\E k \in live : IsPrefix(p, k)) =>
                                iter_from_prefix([m \in DOMAIN mock |-> mock_iter_from_prefix(mock[m], p)], n)
                                  = iter_from_prefix([m \in DOMAIN dbs |-> rocks_iter_from_prefix(dbs[m], p)], n)
===============================================================================
